---------------------------- MODULE DaemonProofs ----------------------------
(* StopServers closes the directory's store after the last request at the   *)
(* first address of the directory that it stops, for every configuration,   *)
(* any number of requests and any order in which the addresses are stopped. *)
EXTENDS Daemon, TLAPS

Types ==
  /\ conf \in Configs
  /\ \A a \in Addrs : cleanup[a] \in Hosts(a)
  /\ server \in [Addrs -> {"new", "serving", "draining", "stopped", "down"}]
  /\ DOMAIN call = Calls
  /\ \A k \in Calls : DOMAIN call[k] = {"at", "stage", "cut", "logged"}

\* A request is handled at a server that serves or waits for its requests, unless
\* some server was stopped by force.
Attended ==
  \A k \in Calls :
    call[k].stage \in Handling /\ ~forced =>
      call[k].at \in Addrs /\ server[call[k].at] \in {"serving", "draining"}

\* Only the cleanup of a server that was stopped closes the store.
ClosedByCleanup ==
  store # "open" => \E a \in Addrs : cleanup[a] = "edge" /\ server[a] \in {"stopped", "down"}

\* No server serves before the boot is over, so that a boot that fails cuts nobody.
NotYetServing == main \in Boot => \A a \in Addrs : server[a] = "new"

Inv == Types /\ Attended /\ ClosedByCleanup /\ NotYetServing

(* The process begins with all its servers created and the store open.     *)
LEMMA InitInv == Init => Inv
  BY DEF Init, Inv, Types, Attended, ClosedByCleanup, NotYetServing, Idle, Handling, Addrs

(* A failed boot runs the cleanup of servers that have served nobody.      *)
LEMMA BootFailsInv == Inv /\ main \in Boot /\ BootFails => Inv'
  <1> SUFFICES ASSUME Inv, main \in Boot, BootFails PROVE Inv'
    OBVIOUS
  <1>1. Addrs' = Addrs /\ \A a \in Addrs : Hosts(a)' = Hosts(a)
    BY DEF BootFails, Addrs, Hosts
  <1>2. Types'
    BY <1>1 DEF BootFails, Inv, Types
  <1>3. Attended'
    BY <1>1 DEF BootFails, Inv, Types, Attended, NotYetServing
  <1>4. ClosedByCleanup'
    BY <1>1 DEF BootFails, Inv, ClosedByCleanup, NotYetServing
  <1>5. NotYetServing'
    BY DEF BootFails, NotYetServing, Boot
  <1> QED
    BY <1>2, <1>3, <1>4, <1>5 DEF Inv

\* The steps that leave servers, store and requests alone and do not go back to the boot.
Elsewhere ==
  /\ UNCHANGED <<conf, cleanup, server, store, forced, call>>
  /\ main' \in Boot => main \in Boot

(* Such a step preserves the invariant.                                    *)
LEMMA ElsewhereInv == Inv /\ Elsewhere => Inv'
  <1> SUFFICES ASSUME Inv, Elsewhere PROVE Inv'
    OBVIOUS
  <1>1. Addrs' = Addrs /\ \A a \in Addrs : Hosts(a)' = Hosts(a)
    BY DEF Elsewhere, Addrs, Hosts
  <1> QED
    BY <1>1 DEF Elsewhere, Inv, Types, Attended, ClosedByCleanup, NotYetServing

(* The boot, the rendezvous of the servers, the signal, the decision log and *)
(* the deferred calls are such steps, or fail the boot.                      *)
LEMMA ElsewhereSteps ==
  ASSUME \/ loadPaths \/ FirstSyncEnds \/ PluginReports \/ ReadyOrDone \/ CheckPluginsStatus
         \/ \E p \in conf.plugins : StartPlugin(p)
         \/ StartServers \/ AnnounceHealth
         \/ \E a \in Addrs, d \in Addrs : ReceiveStarted(a, d)
         \/ ContextDone \/ CloseADL \/ Deferred \/ Exit
         \/ UNCHANGED vars
  PROVE  Elsewhere \/ (main \in Boot /\ BootFails)
  <1>1. CASE loadPaths
    BY <1>1 DEF loadPaths, BootGoesOn, Elsewhere, Boot, serverVars
  <1>2. CASE FirstSyncEnds \/ PluginReports \/ \E p \in conf.plugins : StartPlugin(p)
    BY <1>2 DEF FirstSyncEnds, PluginReports, StartPlugin, UpdatePluginStatus, GoesOnWhenReady,
                Elsewhere, Boot, serverVars
  <1>3. CASE ReadyOrDone
    BY <1>3 DEF ReadyOrDone, Boot
  <1>4. CASE CheckPluginsStatus
    BY <1>4 DEF CheckPluginsStatus, BootGoesOn, Elsewhere, Boot, serverVars
  <1>5. CASE StartServers \/ AnnounceHealth
    BY <1>5 DEF StartServers, AnnounceHealth, Elsewhere, Boot, serverVars
  <1>6. CASE \E a \in Addrs, d \in Addrs : ReceiveStarted(a, d)
    BY <1>6 DEF ReceiveStarted, Elsewhere, bootVars
  <1>7. CASE ContextDone \/ CloseADL \/ Deferred \/ Exit
    BY <1>7 DEF ContextDone, CloseADL, Deferred, Exit, Elsewhere, Boot, serverVars, bootVars
  <1>8. CASE UNCHANGED vars
    BY <1>8 DEF vars, Elsewhere
  <1> QED
    BY <1>1, <1>2, <1>3, <1>4, <1>5, <1>6, <1>7, <1>8

(* Every step of the process preserves the invariant.                      *)
LEMMA NextInv == Inv /\ [Next]_vars => Inv'
  <1> SUFFICES ASSUME Inv, [Next]_vars PROVE Inv'
    OBVIOUS
  <1> USE DEF Inv
  <1>1. ASSUME NEW a \in Addrs, Serve(a) PROVE Inv'
    <2>1. Addrs' = Addrs /\ \A b \in Addrs : Hosts(b)' = Hosts(b)
      BY <1>1 DEF Serve, Addrs, Hosts
    <2>2. Types'
      BY <1>1, <2>1 DEF Serve, Types
    <2>3. Attended' /\ ClosedByCleanup'
      BY <1>1, <2>1 DEF Serve, Types, Attended, ClosedByCleanup
    <2>4. NotYetServing'
      BY <1>1 DEF Serve, NotYetServing, bootVars
    <2> QED
      BY <2>2, <2>3, <2>4
  <1>2. ASSUME NEW k \in Calls, NEW a \in Addrs, Request(k, a) PROVE Inv'
    <2>1. Addrs' = Addrs /\ \A b \in Addrs : Hosts(b)' = Hosts(b)
      BY <1>2 DEF Request, Addrs, Hosts
    <2>2. Types' /\ ClosedByCleanup' /\ NotYetServing'
      BY <1>2, <2>1 DEF Request, serverVars, bootVars, Types, ClosedByCleanup, NotYetServing, Idle
    <2>3. Attended'
      BY <1>2, <2>1 DEF Request, serverVars, Types, Attended, Idle
    <2> QED
      BY <2>2, <2>3
  <1>3. ASSUME NEW k \in Calls, BeginTx(k) \/ EndTx(k) \/ Decide(k) \/ Fail(k) PROVE Inv'
    <2>1. /\ UNCHANGED <<conf, cleanup, main, server, store, forced>>
          /\ call[k].stage \in Handling
      BY <1>3 DEF BeginTx, EndTx, Decide, Fail, serverVars, bootVars, Handling
    <2>2. /\ DOMAIN call' = Calls
          /\ \A j \in Calls : DOMAIN call'[j] = DOMAIN call[j]
          /\ \A j \in Calls : call'[j].at = call[j].at /\ (call'[j].stage = call[j].stage \/ j = k)
      <3>1. CASE BeginTx(k) \/ EndTx(k)
        BY <3>1 DEF BeginTx, EndTx, Types
      <3>2. CASE \E outcome \in {"answered", "failed"}, logged \in BOOLEAN : Return(k, outcome, logged)
        BY <3>2 DEF Return, Types
      <3>3. Decide(k) \/ Fail(k) => \E outcome \in {"answered", "failed"}, logged \in BOOLEAN : Return(k, outcome, logged)
        BY Zenon DEF Decide, Fail, adlError
      <3> QED
        BY <1>3, <3>1, <3>2, <3>3
    <2>3. Addrs' = Addrs /\ \A b \in Addrs : Hosts(b)' = Hosts(b)
      BY <2>1 DEF Addrs, Hosts
    <2>4. Types' /\ ClosedByCleanup' /\ NotYetServing'
      BY <2>1, <2>2, <2>3 DEF Types, ClosedByCleanup, NotYetServing
    <2>5. Attended'
      BY <2>1, <2>2, <2>3 DEF Attended
    <2> QED
      BY <2>4, <2>5
  <1>4. ASSUME NEW a \in Addrs, StopGracefully(a) PROVE Inv'
    <2>1. Addrs' = Addrs /\ \A b \in Addrs : Hosts(b)' = Hosts(b)
      BY <1>4 DEF StopGracefully, Addrs, Hosts
    <2> QED
      BY <1>4, <2>1 DEF StopGracefully, bootVars, Types, Attended, ClosedByCleanup, NotYetServing, Boot
  <1>5. ASSUME NEW a \in Addrs, Stopped(a) PROVE Inv'
    <2>1. Addrs' = Addrs /\ \A b \in Addrs : Hosts(b)' = Hosts(b)
      BY <1>5 DEF Stopped, Addrs, Hosts
    <2>2. Types'
      BY <1>5, <2>1 DEF Stopped, shutDown, Types
    <2>3. Attended'
      BY <1>5, <2>1 DEF Stopped, shutDown, In, Types, Attended
    <2>4. ClosedByCleanup'
      BY <1>5, <2>1 DEF Stopped, Types, ClosedByCleanup
    <2>5. NotYetServing'
      BY <1>5 DEF Stopped, bootVars, NotYetServing
    <2> QED
      BY <2>2, <2>3, <2>4, <2>5
  <1>6. ASSUME NEW a \in Addrs, Cleanup(a) PROVE Inv'
    <2>1. Addrs' = Addrs /\ \A b \in Addrs : Hosts(b)' = Hosts(b)
      BY <1>6 DEF Cleanup, Addrs, Hosts
    <2>2. Types' /\ NotYetServing'
      BY <1>6, <2>1 DEF Cleanup, bootVars, Types, NotYetServing
    <2>3. Attended'
      BY <1>6, <2>1 DEF Cleanup, Types, Attended
    <2>4. ClosedByCleanup'
      BY <1>6, <2>1 DEF Cleanup, Types, ClosedByCleanup
    <2> QED
      BY <2>2, <2>3, <2>4
  <1> HIDE DEF Inv
  <1>7. CASE Elsewhere \/ (main \in Boot /\ BootFails)
    BY <1>7, ElsewhereInv, BootFailsInv
  <1> QED
    BY <1>1, <1>2, <1>3, <1>4, <1>5, <1>6, <1>7, ElsewhereSteps DEF Next

(* ConfigServices, StopServers and shutDown: as long as no server had to be *)
(* stopped by force, a request that is being handled at an address of the   *)
(* directory finds the store open, unless another address of the directory  *)
(* was stopped before.  Where the directory has one address, nothing else   *)
(* closes the store under a request.                                        *)
THEOREM StoreOutlivesCalls == Spec => []StoreOpenForCalls
  <1>1. Inv => StoreOpenForCalls
    <2> SUFFICES ASSUME Inv, NEW a \in Addrs, NEW k \in In(a), ~forced, store # "open"
                 PROVE  \E b \in Addrs \ {a} : "edge" \in Hosts(b) /\ server[b] \in {"stopped", "down"}
      BY DEF StoreOpenForCalls
    <2>1. PICK b \in Addrs : cleanup[b] = "edge" /\ server[b] \in {"stopped", "down"}
      BY DEF Inv, ClosedByCleanup
    <2>2. "edge" \in Hosts(b)
      BY <2>1 DEF Inv, Types
    <2>3. server[a] \in {"serving", "draining"}
      BY DEF In, Inv, Attended
    <2>4. a # b
      BY <2>1, <2>3
    <2> QED
      BY <2>1, <2>2, <2>4
  <1> QED
    BY <1>1, InitInv, NextInv, PTL DEF Spec
=============================================================================
