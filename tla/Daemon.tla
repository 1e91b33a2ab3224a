------------------------------- MODULE Daemon -------------------------------
(* The life of the eameraldd process: the run command (eamerald_run.go), the *)
(* application (daemon/app/eamerald.go) and the service manager              *)
(* (daemon/service/builder/service_manager.go).                              *)
(*                                                                           *)
(* When the authorizer is among the services, the policy runtime is started  *)
(* first: its plugins report their status, and the boot goes on when all of  *)
(* them are OK.                                                              *)
(*                                                                           *)
(* The configured services are grouped by listen address, one gRPC server    *)
(* per address.  Every server has a goroutine that first receives from the   *)
(* unbuffered Started channel of each address it depends on, then serves,    *)
(* then sends on its own Started channel.  When the context is done, the     *)
(* deferred calls of run undo the start while a goroutine of newADLLogger    *)
(* closes the decision log.  Requests come and go all the while.             *)
EXTENDS Naturals, FiniteSets

CONSTANTS
  Configs,    \* the configurations to start with, see ConfigType
  Calls       \* the requests clients send, one use of each: the bound on traffic

EdgeServices == {"model", "reader", "writer", "exporter", "importer", "access"}
ServiceNames == EdgeServices \cup {"authorizer", "console"}

\* What AvailableServices of the three service types answer.
Owner(s) == IF s \in EdgeServices THEN "edge" ELSE s

\* validateConfig: a directory resolver that points at another address than the
\* reader's removes the local directory services.
Services(c) ==
  IF "reader" \in DOMAIN c.at /\ c.at["reader"] # c.resolver
  THEN DOMAIN c.at \ EdgeServices
  ELSE DOMAIN c.at

\* mapToGRPCPorts: one server for each listen address.
Addresses(c) == {c.at[s] : s \in Services(c)}
Registered(c, a) == {s \in Services(c) : c.at[s] = a}

\* The first loop of Start: the addresses of the services that those at address
\* a need, other than a itself and other than services that are not configured.
DependencyMapWithSelf(c, a) ==
  {c.at[n] : n \in Services(c) \cap UNION {c.needs[s] : s \in Registered(c, a)}}
DependencyMap(c, a) ==
  {c.at[n] : n \in Services(c) \cap UNION {c.needs[s] : s \in Registered(c, a)}} \ {a}

\* A configuration under which every server can start: an address has at most one
\* dependent, because Started is sent once, and dependencies have no cycle.
Startable(c) ==
  LET dependsOn(a, b) == a # b /\ \E s \in Registered(c, a), t \in Registered(c, b) : t \in c.needs[s] IN
  /\ \A b \in Addresses(c) : Cardinality({a \in Addresses(c) : dependsOn(a, b)}) <= 1
  /\ \A S \in SUBSET Addresses(c) : S # {} => \E a \in S : \A b \in S : ~dependsOn(a, b)

ASSUME ConfigsAssumption ==
  \A c \in Configs : /\ DOMAIN c.at \subseteq ServiceNames
                     /\ DOMAIN c.needs = DOMAIN c.at
                     /\ c.plugins \subseteq {"edge", "git", "entra", "bundle"}

VARIABLES
  conf,      \* the configuration of this process
  cleanup,   \* per address, the service type whose Close the server runs in the end
  main,      \* where the run command is
  plugin,    \* per plugin, the status it reported, until the boot is over
  starting,  \* the plugin whose Start has not returned yet
  waits,     \* per address, the dependencies whose Started is still to be received
  server,    \* per address, the gRPC server
  started,   \* per address, the goroutine's send on Started
  health,    \* the services announced as SERVING
  done,      \* the application context is done
  adl,       \* the decision log
  store,     \* the directory's store
  forced,    \* some server was stopped before its requests ended
  call       \* the requests

serverVars == <<waits, server, started>>
bootVars == <<main, plugin, starting>>
vars == <<conf, cleanup, main, plugin, starting, waits, server, started, health, done, adl, store,
          forced, call>>

Boot == {"configured", "plugins", "ready", "checked"}
Mains == Boot \cup {"starting", "running", "runtime", "health", "stopping", "exited"}
Idle == [at |-> "none", stage |-> "idle", cut |-> FALSE, logged |-> FALSE]
\* A handler runs, is inside a transaction of the store, or has what it read there.
Handling == {"running", "tx", "read"}
In(a) == {k \in Calls : call[k].at = a /\ call[k].stage \in Handling}
Hosts(a) == {Owner(s) : s \in Registered(conf, a)}
Addrs == Addresses(conf)

\* ConfigServices for every address.  The range over e.Services has no fixed
\* order, and the last type found at the address leaves its Close as cleanup.
Init ==
  /\ conf \in Configs
  /\ cleanup \in {f \in [Addrs -> {"edge", "authorizer", "console"}] : \A a \in Addrs : f[a] \in Hosts(a)}
  /\ main = "configured"
  /\ plugin = [p \in conf.plugins |-> "none"]
  /\ starting = "none"
  /\ waits = [a \in Addrs |-> DependencyMap(conf, a)]
  /\ server = [a \in Addrs |-> "new"]
  /\ started = [a \in Addrs |-> "unsent"]
  /\ health = {}
  /\ done = FALSE
  /\ adl = "open"
  /\ store = "open"
  /\ forced = FALSE
  /\ call = [k \in Calls |-> Idle]

-----------------------------------------------------------------------------
(* Starting.                                                               *)

\* A boot that fails leaves run by its deferred calls: the servers are there and
\* have not served, and their cleanup runs.
BootFails ==
  /\ main' = "exited"
  /\ server' = [a \in Addrs |-> "down"]
  /\ store' = IF \E a \in Addrs : cleanup[a] = "edge" THEN "closed" ELSE store
  /\ UNCHANGED <<conf, cleanup, plugin, starting, waits, started, health, done, adl, forced, call>>

BootGoesOn(next) ==
  /\ main' = next
  /\ UNCHANGED <<conf, cleanup, plugin, starting, serverVars, health, done, adl, store, forced, call>>

\* A local bundle that cannot be loaded fails the boot; a local policy image that
\* cannot be found does not.
loadPaths ==
  /\ main = "configured" /\ "authorizer" \in Services(conf)
  /\ BootGoesOn(IF plugin = <<>> THEN "ready" ELSE "plugins") \/ BootFails

\* The status listener closes the ready channel as soon as all plugins are OK;
\* rt.Start looks at it when the manager has started the last of them.
GoesOnWhenReady ==
  main' = IF main = "plugins" /\ starting' = "none" /\ \A q \in conf.plugins : plugin'[q] = "ok"
          THEN "ready" ELSE main
UpdatePluginStatus(p, status) ==
  /\ plugin' = [plugin EXCEPT ![p] = status]
  /\ GoesOnWhenReady
  /\ UNCHANGED <<conf, cleanup, serverVars, health, done, adl, store, forced, call>>

\* Mutant: the Entra plugin reports OK after its first pass, which needs the writer.
StartPluginAfterSync(p) ==
  /\ main = "plugins" /\ starting = "none" /\ plugin[p] = "none"
  /\ p = "entra" => \E a \in Addrs : "edge" \in Hosts(a) /\ server[a] = "serving"
  /\ starting' = IF p = "git" THEN p ELSE "none"
  /\ UpdatePluginStatus(p, IF p = "bundle" THEN "notready" ELSE "ok")

\* The manager starts one plugin after the other.  Start of the edge, git and Entra
\* plugins reports OK whatever their first sync comes to, and that of the git
\* plugin makes this sync before it returns; OPA's bundle plugin is not ready
\* before its first download.
StartPlugin(p) ==
  /\ main = "plugins" /\ starting = "none" /\ plugin[p] = "none"
  /\ starting' = IF p = "git" THEN p ELSE "none"
  /\ UpdatePluginStatus(p, IF p = "bundle" THEN "notready" ELSE "ok")

\* The first sync of the git plugin ends, well or not, and Start returns.
FirstSyncEnds ==
  /\ starting = "git"
  /\ starting' = "none"
  /\ UNCHANGED <<conf, cleanup, plugin, serverVars, health, done, adl, store, forced, call>>
  /\ GoesOnWhenReady

\* While others start, or are waited for: a poll of the git plugin, which
\* reports its failure, and the bundle plugin's download.
PluginReports ==
  /\ main \in {"plugins", "ready"}
  /\ UNCHANGED starting
  /\ \/ \E status \in {"ok", "err"} :
          /\ "git" \in conf.plugins /\ starting # "git" /\ plugin["git"] \notin {"none", status}
          /\ UpdatePluginStatus("git", status)
     \/ "bundle" \in conf.plugins /\ plugin["bundle"] = "notready" /\ UpdatePluginStatus("bundle", "ok")

\* Waiting for the ready channel, rt.Start gives up when the context is done.
ReadyOrDone ==
  /\ main = "plugins" /\ starting = "none" /\ \A p \in conf.plugins : plugin[p] # "none"
  /\ done
  /\ BootFails

\* A status that is not OK any more fails the boot.
CheckPluginsStatus ==
  /\ main = "ready"
  /\ IF \A p \in conf.plugins : plugin[p] = "ok" THEN BootGoesOn("checked") ELSE BootFails

\* StartServers launches the goroutines and returns at once.
StartServers ==
  /\ main = IF "authorizer" \in Services(conf) THEN "checked" ELSE "configured"
  /\ main' = "starting"
  /\ UNCHANGED <<conf, cleanup, plugin, starting, serverVars, health, done, adl, store, forced, call>>

\* The last loop of Start: every service is announced, started or not.
AnnounceHealth ==
  /\ main = "starting"
  /\ main' = "running"
  /\ health' = Services(conf)
  /\ UNCHANGED <<conf, cleanup, plugin, starting, serverVars, done, adl, store, forced, call>>

\* <-s.Servers[dependsOn].Started, a rendezvous with the one send of dependsOn.
\* The code receives in the order of the services' map range: any order.
ReceiveStarted(a, d) ==
  /\ main \notin Boot
  /\ d \in waits[a]
  /\ started[d] = "sending"
  /\ waits' = [waits EXCEPT ![a] = @ \ {d}]
  /\ started' = [started EXCEPT ![d] = "sent"]
  /\ UNCHANGED <<conf, cleanup, bootVars, server, health, done, adl, store, forced, call>>

\* The rest of the goroutine: Serve and the gateway run in goroutines of their
\* own, then Started is sent.  A server that was stopped meanwhile serves nothing.
Serve(a) ==
  /\ main \notin Boot /\ main # "exited"
  /\ started[a] = "unsent"
  /\ waits[a] = {}
  /\ server' = [server EXCEPT ![a] = IF @ = "new" THEN "serving" ELSE @]
  /\ started' = [started EXCEPT ![a] = "sending"]
  /\ UNCHANGED <<conf, cleanup, bootVars, waits, health, done, adl, store, forced, call>>

-----------------------------------------------------------------------------
(* Requests.                                                               *)

Request(k, a) ==
  /\ call[k].stage = "idle"
  /\ server[a] = "serving"
  /\ call' = [call EXCEPT ![k] = [Idle EXCEPT !.at = a, !.stage = "running"]]
  /\ UNCHANGED <<conf, cleanup, bootVars, serverVars, health, done, adl, store, forced>>

\* The handler's outcome reaches the client unless its connection was cut.
Return(k, outcome, logged) ==
  call' = [call EXCEPT ![k].stage = IF call[k].cut THEN "failed" ELSE outcome,
                       ![k].logged = logged]

\* An evaluation that succeeded: emit writes the record and adlError turns a
\* failed write into the failure of the request.  A closed Logger discards the
\* record and reports success.
adlError(k) ==
  \/ Return(k, "answered", adl = "open")
  \/ adl = "open" /\ Return(k, "failed", FALSE)

\* An evaluation of the authorizer, or one of the directory, which read the store.
Decide(k) ==
  /\ \/ call[k].stage = "running" /\ "authorizer" \in Hosts(call[k].at)
     \/ call[k].stage = "read"
  /\ adlError(k)
  /\ UNCHANGED <<conf, cleanup, bootVars, serverVars, health, done, adl, store, forced>>

\* View, Update and Batch of the store: no transaction begins once Close was called.
BeginTx(k) ==
  /\ call[k].stage \in {"running", "read"} /\ "edge" \in Hosts(call[k].at)
  /\ store = "open"
  /\ call' = [call EXCEPT ![k].stage = "tx"]
  /\ UNCHANGED <<conf, cleanup, bootVars, serverVars, health, done, adl, store, forced>>

EndTx(k) ==
  /\ call[k].stage = "tx"
  /\ call' = [call EXCEPT ![k].stage = "read"]
  /\ UNCHANGED <<conf, cleanup, bootVars, serverVars, health, done, adl, store, forced>>

\* Any handler may fail, a transaction it is in is rolled back then; it has to fail
\* when the store or the connection it uses is closed.
Fail(k) ==
  /\ call[k].stage \in Handling
  /\ Return(k, "failed", adl = "open")
  /\ UNCHANGED <<conf, cleanup, bootVars, serverVars, health, done, adl, store, forced>>

-----------------------------------------------------------------------------
(* Stopping.                                                               *)

\* A signal, or an error of any goroutine of the errgroup.
ContextDone ==
  /\ ~done
  /\ main # "exited"
  /\ done' = TRUE
  /\ UNCHANGED <<conf, cleanup, bootVars, serverVars, health, adl, store, forced, call>>

\* The goroutine of newADLLogger.
CloseADL ==
  /\ done
  /\ adl = "open"
  /\ main # "exited"
  /\ adl' = "closed"
  /\ UNCHANGED <<conf, cleanup, bootVars, serverVars, health, done, store, forced, call>>

\* The deferred calls of run, in reverse order: runtimeCleanup,
\* dirResolver.Close and cleanup (from here on evaluations that call the
\* directory fail), then StopServers, which begins with the health and metrics
\* servers.
Deferred ==
  /\ \/ main = "running" /\ done /\ main' = "runtime" /\ UNCHANGED health
     \/ main = "runtime" /\ main' = "health" /\ UNCHANGED health
     \/ main = "health" /\ main' = "stopping" /\ health' = {}
  /\ UNCHANGED <<conf, cleanup, plugin, starting, serverVars, done, adl, store, forced, call>>

\* StopServers takes the addresses in the order of a map range: one at a time,
\* any next.  The gateway and GracefulStop refuse new requests.
StopGracefully(a) ==
  /\ main = "stopping"
  /\ \A b \in Addrs : server[b] \notin {"draining", "stopped"}
  /\ server[a] \in {"new", "serving"}
  /\ server' = [server EXCEPT ![a] = "draining"]
  /\ UNCHANGED <<conf, cleanup, bootVars, waits, started, health, done, adl, store, forced, call>>

\* shutDown returns when the last request ended, or when the timeout passed and
\* Stop closed the connections, which does not wait for the handlers.
shutDownWithoutTimeout(a) == In(a) = {} /\ UNCHANGED <<forced, call>>
shutDownWithoutWaiting(a) == UNCHANGED <<forced, call>>
shutDown(a) ==
  \/ In(a) = {} /\ UNCHANGED <<forced, call>>
  \/ /\ In(a) # {}
     /\ forced' = TRUE
     /\ call' = [k \in Calls |-> IF k \in In(a) THEN [call[k] EXCEPT !.cut = TRUE] ELSE call[k]]

\* After its gRPC server stopped the cleanup routines of the address are called.
Stopped(a) ==
  /\ server[a] = "draining"
  /\ shutDown(a)
  /\ server' = [server EXCEPT ![a] = "stopped"]
  /\ store' = IF cleanup[a] = "edge" /\ store = "open" THEN "closing" ELSE store
  /\ UNCHANGED <<conf, cleanup, bootVars, waits, started, health, done, adl>>

\* Close of the store returns when the transactions that are open have ended.
Cleanup(a) ==
  /\ server[a] = "stopped"
  /\ cleanup[a] = "edge" => \A k \in Calls : call[k].stage # "tx"
  /\ server' = [server EXCEPT ![a] = "down"]
  /\ store' = IF cleanup[a] = "edge" THEN "closed" ELSE store
  /\ UNCHANGED <<conf, cleanup, bootVars, waits, started, health, done, adl, forced, call>>

Exit ==
  /\ main = "stopping"
  /\ \A a \in Addrs : server[a] = "down"
  /\ main' = "exited"
  /\ UNCHANGED <<conf, cleanup, plugin, starting, serverVars, health, done, adl, store, forced, call>>

-----------------------------------------------------------------------------
Next ==
  \/ loadPaths \/ FirstSyncEnds \/ PluginReports \/ ReadyOrDone \/ CheckPluginsStatus
  \/ \E p \in conf.plugins : StartPlugin(p)
  \/ StartServers \/ AnnounceHealth
  \/ \E a \in Addrs, d \in Addrs : ReceiveStarted(a, d)
  \/ \E a \in Addrs : Serve(a)
  \/ \E k \in Calls, a \in Addrs : main # "exited" /\ Request(k, a)
  \/ \E k \in Calls : main # "exited" /\ (BeginTx(k) \/ EndTx(k) \/ Decide(k) \/ Fail(k))
  \/ ContextDone \/ CloseADL \/ Deferred
  \/ \E a \in Addrs : StopGracefully(a) \/ Stopped(a) \/ Cleanup(a)
  \/ Exit

Spec == Init /\ [][Next]_vars

\* The Go scheduler runs every goroutine that can run, and the timeout of
\* shutDown passes.  Nobody has to send a signal and a handler may take for ever,
\* but not in a transaction once its connection is cut: its context is done and its
\* stream fails.  The first sync of the git plugin may take for ever until the
\* context it was given is done.
Progress ==
  \/ loadPaths \/ ReadyOrDone \/ CheckPluginsStatus
  \/ done /\ FirstSyncEnds
  \/ \E p \in conf.plugins : StartPlugin(p)
  \/ StartServers \/ AnnounceHealth \/ Deferred \/ Exit
  \/ \E a \in Addrs : StopGracefully(a) \/ Stopped(a) \/ Cleanup(a)
AddressNames == UNION {Addresses(c) : c \in Configs}
FairSpec ==
  /\ Spec
  /\ WF_vars(Progress)
  /\ \A a \in AddressNames : WF_vars(a \in Addrs /\ (Serve(a) \/ \E d \in Addrs : ReceiveStarted(a, d)))
  /\ \A k \in Calls : WF_vars(call[k].cut /\ EndTx(k))

-----------------------------------------------------------------------------
(* Properties.                                                             *)

\* ConfigServices and StopServers: as long as no server had to be stopped by force, a
\* request that is being handled at an address of the directory finds the store
\* open, unless another address of the directory was stopped before: each has
\* the Close of the one store among its cleanups.
StoreOpenForCalls ==
  \A a \in Addrs :
    "edge" \in Hosts(a) /\ In(a) # {} /\ ~forced /\ store # "open" =>
      \E b \in Addrs \ {a} : "edge" \in Hosts(b) /\ server[b] \in {"stopped", "down"}

\* adl.md and adlError: every decision that reached a client has its record.
DecisionLogged == \A k \in Calls : call[k].stage = "answered" => call[k].logged

\* Start: where no address has two dependents and dependencies have no cycle, all
\* services that were announced as SERVING before their servers were up are served in
\* the end, unless the process is told to stop.
HealthKept ==
  (Startable(conf) /\ health # {}) ~>
    (done \/ \A s \in health : s \in Services(conf) /\ server[conf.at[s]] = "serving")

\* The OPA plugins and StartServers: the boot does not wait for a server of its own
\* process.  What can hold it up is a bundle server or a git repository that
\* cannot be reached: the bundle plugin is not ready, a poll failed, or the first
\* sync, which Start of the git plugin makes, has not returned.
Boots ==
  main = "plugins" ~>
    (main # "plugins" \/ starting = "git" \/ \E p \in conf.plugins : plugin[p] \in {"notready", "err"})

\* run and StopServers: once the context is done the process exits, however long its
\* requests take, unless a transaction that nobody cut is open when the store is
\* closed.  Only a request at another address of the directory can have one.
ShutsDown ==
  done ~> (main = "exited" \/ \E k \in Calls : store = "closing" /\ call[k].stage = "tx" /\ ~call[k].cut)
=============================================================================
