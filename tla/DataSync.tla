------------------------------ MODULE DataSync ------------------------------
(***************************************************************************)
(* Replication of a hub directory into an edge directory                   *)
(* (internal/eds/pkg/datasync, with the hub's Export handler).             *)
(*                                                                         *)
(* A sync run first copies the manifest, then streams an export of the hub *)
(* into one write transaction of the edge store, then - in Diff mode -     *)
(* deletes from the edge what the stream did not mention, and finally      *)
(* records the watermark.  Several runs may be under way at once: nothing  *)
(* in this package excludes it.                                            *)
(*                                                                         *)
(* Data abstraction: an object or relation is a key of Items with a        *)
(* version number; 0 means absent.  A manifest is a model value together   *)
(* with the set of keys its types admit.                                   *)
(***************************************************************************)
EXTENDS Naturals, Sequences, FiniteSets

CONSTANTS Objects, Relations,  \* the keys of the two kinds of item
          Manifests,           \* manifests the hub may be given
          Chunked,             \* those the hub received in several messages
          Admits,              \* [Manifests -> SUBSET Items]: keys a model validates
          NoManifest,          \* the edge before its first manifest
          Syncs,               \* sync runs that may be under way together
          None,                \* no run: the write transaction is free
          RunModes,            \* the modes a run is started with
          ChannelSize,         \* capacity of exportChan
          InitFilterSize,      \* smallest cuckoo filter
          Rounding,            \* granularity of larger filters
          FalsePositives,      \* may the filter report a key it was never given?
          MaxVersion,          \* bound: hub writes per key
          MaxManifests,        \* bound: hub manifest updates
          MaxFaults            \* bound: failures and crashes

Items == Objects \cup Relations

ASSUME ConstantsAssumption ==
  /\ Objects \cap Relations = {} /\ IsFiniteSet(Items)
  /\ Admits \in [Manifests -> SUBSET Items] /\ NoManifest \notin Manifests
  /\ Chunked \subseteq Manifests /\ None \notin Syncs
  /\ RunModes \subseteq SUBSET {"Manifest", "Full", "Diff", "Watermark"}
  /\ ChannelSize \in Nat \ {0} /\ InitFilterSize \in Nat /\ Rounding \in Nat \ {0}
  /\ FalsePositives \in BOOLEAN
  /\ MaxVersion \in Nat /\ MaxManifests \in Nat /\ MaxFaults \in Nat

VARIABLES
  hub, version, hubManifest, manifestCtr,   \* the hub; version[k]: last version written
  edge, edgeManifest, wmCount,              \* durable state of the edge
  mc,                                       \* the edge's cached model
  lock,                                     \* run holding the store's write transaction
  pc, mode, remote, snap, todo, prod, filter, capacity, chan, sub, tx, count,
  faults

hubVars == <<hub, version, hubManifest, manifestCtr>>
durable == <<edge, edgeManifest, wmCount>>
runVars == <<pc, mode, remote, snap, todo, prod, filter, capacity, chan, sub, tx, count>>
vars == <<hubVars, durable, mc, lock, runVars, faults>>

Absent == [k \in Items |-> 0]
Present(d) == {k \in Items : d[k] # 0}
Admitted(m) == IF m \in Manifests THEN Admits[m] ELSE {}
Has(s, m) == m \in mode[s]

Init ==
  /\ hub \in [Items -> {0, 1}] /\ version = hub
  /\ hubManifest \in {m \in Manifests : Present(hub) \subseteq Admits[m]}
  /\ manifestCtr = 0
  /\ edge = Absent /\ edgeManifest = NoManifest /\ wmCount = 0
  /\ mc = NoManifest /\ lock = None /\ faults = 0
  /\ pc = [s \in Syncs |-> "idle"] /\ mode = [s \in Syncs |-> {}]
  /\ remote = [s \in Syncs |-> NoManifest] /\ snap = [s \in Syncs |-> Absent]
  /\ todo = [s \in Syncs |-> {}] /\ prod = [s \in Syncs |-> "init"]
  /\ filter = [s \in Syncs |-> {}] /\ capacity = [s \in Syncs |-> 0]
  /\ chan = [s \in Syncs |-> << >>] /\ sub = [s \in Syncs |-> "init"]
  /\ tx = [s \in Syncs |-> Absent] /\ count = [s \in Syncs |-> 0]

-----------------------------------------------------------------------------
(* The hub: another directory service, written to while edges read it.     *)

HubSet(k) ==
  /\ version[k] < MaxVersion /\ k \in Admits[hubManifest]
  /\ hub' = [hub EXCEPT ![k] = version[k] + 1]
  /\ version' = [version EXCEPT ![k] = @ + 1]
  /\ UNCHANGED <<hubManifest, manifestCtr, durable, mc, lock, runVars, faults>>

HubDelete(k) ==
  /\ hub[k] # 0
  /\ hub' = [hub EXCEPT ![k] = 0]
  /\ UNCHANGED <<version, hubManifest, manifestCtr, durable, mc, lock, runVars, faults>>

\* A model may only replace another when nothing stored needs what it drops.
CanUpdate(cur, new, data) == Present(data) \cap Admitted(cur) \subseteq Admitted(new)

HubSetManifest(m) ==
  /\ manifestCtr < MaxManifests /\ m # hubManifest
  /\ CanUpdate(hubManifest, m, hub)
  /\ hubManifest' = m /\ manifestCtr' = manifestCtr + 1
  /\ UNCHANGED <<hub, version, durable, mc, lock, runVars, faults>>

-----------------------------------------------------------------------------
(* The run as a whole: Sync.Run and the stages it goes through.            *)

Goto(s, l) == pc' = [pc EXCEPT ![s] = l]

\* Run skips the directory stage when no mode asks for data.
AfterManifest(s) ==
  IF mode[s] \cap {"Full", "Diff", "Watermark"} # {} THEN "stream" ELSE "idle"

\* newSync: channels, filter and counters are fresh for every run.
Start(s, m) ==
  /\ pc[s] = "idle"
  /\ mode' = [mode EXCEPT ![s] = m]
  /\ Goto(s, IF "Manifest" \in m THEN "getManifest" ELSE "stream")
  /\ remote' = [remote EXCEPT ![s] = NoManifest] /\ snap' = [snap EXCEPT ![s] = Absent]
  /\ todo' = [todo EXCEPT ![s] = {}] /\ prod' = [prod EXCEPT ![s] = "init"]
  /\ filter' = [filter EXCEPT ![s] = {}] /\ capacity' = [capacity EXCEPT ![s] = 0]
  /\ chan' = [chan EXCEPT ![s] = << >>] /\ sub' = [sub EXCEPT ![s] = "init"]
  /\ tx' = [tx EXCEPT ![s] = Absent] /\ count' = [count EXCEPT ![s] = 0]
  /\ UNCHANGED <<hubVars, durable, mc, lock, faults>>

\* getManifest reads the hub's manifest in one view of the hub.
GetManifest(s) ==
  /\ pc[s] = "getManifest"
  /\ remote' = [remote EXCEPT ![s] = hubManifest]
  /\ Goto(s, "compareManifest")
  /\ UNCHANGED <<hubVars, durable, mc, lock, mode, snap, todo, prod, filter, capacity,
                 chan, sub, tx, count, faults>>

\* syncManifest stops here when the etags are identical.  The hub hashes what it
\* has so far with every message of a manifest, the edge hashes it once: the etags
\* of a manifest that came in several messages differ.
SameEtag(local, hubs) == local = hubs /\ hubs \notin Chunked

CompareManifest(s) ==
  /\ pc[s] = "compareManifest"
  /\ Goto(s, IF SameEtag(edgeManifest, remote[s]) THEN AfterManifest(s) ELSE "setManifest")
  /\ UNCHANGED <<hubVars, durable, mc, lock, mode, remote, snap, todo, prod, filter,
                 capacity, chan, sub, tx, count, faults>>

\* setManifest: one write transaction; a refused update ends the run with an error.
SetManifest(s) ==
  /\ pc[s] = "setManifest" /\ lock = None
  /\ IF CanUpdate(mc, remote[s], edge)
     THEN edgeManifest' = remote[s] /\ Goto(s, "updateModel")
     ELSE Goto(s, "idle") /\ UNCHANGED edgeManifest
  /\ UNCHANGED <<hubVars, edge, wmCount, mc, lock, mode, remote, snap, todo, prod,
                 filter, capacity, chan, sub, tx, count, faults>>

\* The cached model is replaced after the transaction has been committed.
UpdateModel(s) ==
  /\ pc[s] = "updateModel"
  /\ mc' = remote[s]
  /\ Goto(s, AfterManifest(s))
  /\ UNCHANGED <<hubVars, durable, lock, mode, remote, snap, todo, prod, filter,
                 capacity, chan, sub, tx, count, faults>>

-----------------------------------------------------------------------------
(* syncDirectory: producer and subscriber run side by side.                *)

\* getFilterSize: capacity of the filter from the count in the watermark.
FilterSize(n) ==
  LET growth == n * 2
  IN  IF n = 0 \/ growth < InitFilterSize THEN InitFilterSize
      ELSE growth + (Rounding - (growth % Rounding))

\* The producer reads the watermark, sizes the filter and opens the export
\* stream.  Export reads the whole hub in one view; it does not look at the
\* StartFrom timestamp a Watermark run sends.
ProducerOpen(s) ==
  /\ pc[s] = "stream" /\ prod[s] = "init"
  /\ snap' = [snap EXCEPT ![s] = hub]
  /\ todo' = [todo EXCEPT ![s] = Present(hub)]
  /\ capacity' = [capacity EXCEPT ![s] = IF Has(s, "Diff") THEN FilterSize(wmCount) ELSE @]
  /\ prod' = [prod EXCEPT ![s] = "open"]
  /\ UNCHANGED <<hubVars, durable, mc, lock, pc, mode, remote, filter, chan, sub, tx,
                 count, faults>>

\* Export sends the objects before the relations.
NextToSend(s) ==
  IF todo[s] \cap Objects # {} THEN todo[s] \cap Objects ELSE todo[s]

\* Insert into the cuckoo filter; its result is ignored.  A full filter ends
\* up without some fingerprint, of the new key or of one it displaced.
Insert(f, cap, k) ==
  IF k \in f \/ Cardinality(f) < cap THEN {f \cup {k}}
  ELSE {(f \cup {k}) \ {x} : x \in f \cup {k}}

\* A send on exportChan blocks while its buffer is full.
ChannelFree(s) == Len(chan[s]) < ChannelSize

ProducerSend(s) ==
  /\ prod[s] = "open" /\ ChannelFree(s)
  /\ \E k \in NextToSend(s) :
       /\ IF Has(s, "Diff")
          THEN \E f \in Insert(filter[s], capacity[s], k) :
                 filter' = [filter EXCEPT ![s] = f]
          ELSE UNCHANGED filter
       /\ chan' = [chan EXCEPT ![s] = Append(@, k)]
       /\ todo' = [todo EXCEPT ![s] = @ \ {k}]
  /\ UNCHANGED <<hubVars, durable, mc, lock, pc, mode, remote, snap, prod, capacity,
                 sub, tx, count, faults>>

\* End of the stream: the deferred close ends the subscriber's loop.
ProducerEnd(s) ==
  /\ prod[s] = "open" /\ todo[s] = {}
  /\ prod' = [prod EXCEPT ![s] = "eof"]
  /\ UNCHANGED <<hubVars, durable, mc, lock, pc, mode, remote, snap, todo, filter,
                 capacity, chan, sub, tx, count, faults>>

\* The subscriber's Batch: a single write transaction for the whole stream.
SubscriberBegin(s) ==
  /\ pc[s] = "stream" /\ sub[s] = "init" /\ lock = None
  /\ lock' = s
  /\ tx' = [tx EXCEPT ![s] = edge]
  /\ sub' = [sub EXCEPT ![s] = "recv"]
  /\ UNCHANGED <<hubVars, durable, mc, pc, mode, remote, snap, todo, prod, filter,
                 capacity, chan, count, faults>>

\* Mutant: the received item is stored without validation.
SetItemUnchecked(d, k, v, m) == [d EXCEPT ![k] = v]

\* objectSetHandler, relationSetHandler: an item the model does not admit is
\* reported and skipped, the transaction goes on.
SetItem(d, k, v, m) == IF k \in Admitted(m) THEN [d EXCEPT ![k] = v] ELSE d

SubscriberReceive(s) ==
  /\ sub[s] = "recv" /\ chan[s] # << >>
  /\ tx' = [tx EXCEPT ![s] = SetItem(@, Head(chan[s]), snap[s][Head(chan[s])], mc)]
  /\ chan' = [chan EXCEPT ![s] = Tail(@)]
  /\ UNCHANGED <<hubVars, durable, mc, lock, pc, mode, remote, snap, todo, prod, filter,
                 capacity, sub, count, faults>>

\* The producer's deferred close, whichever way the producer ended.
Closed(s) == prod[s] \in {"eof", "error"}

\* Channel closed and drained: the batch is committed, also after a broken stream.
SubscriberCommit(s) ==
  /\ sub[s] = "recv" /\ chan[s] = << >> /\ Closed(s)
  /\ edge' = tx[s] /\ lock' = None
  /\ sub' = [sub EXCEPT ![s] = "done"]
  /\ UNCHANGED <<hubVars, edgeManifest, wmCount, mc, pc, mode, remote, snap, todo, prod,
                 filter, capacity, chan, tx, count, faults>>

\* Mutant: the run goes on when the producer is done.
ProducerFinished(s) == Closed(s)

\* Both functions given to the errgroup have returned.
Finished(s) == Closed(s) /\ sub[s] \in {"done", "error"}

\* Mutant: the error of g.Wait is dropped.
AfterStreamIgnoringErrors(s) == IF Has(s, "Diff") THEN "diff" ELSE "watermark"

\* An error of either side ends the run before diff and watermark.
AfterStream(s) ==
  IF prod[s] = "error" \/ sub[s] = "error" THEN "idle"
  ELSE IF Has(s, "Diff") THEN "diff" ELSE "watermark"

\* g.Wait.
Wait(s) ==
  /\ pc[s] = "stream" /\ Finished(s)
  /\ Goto(s, AfterStream(s))
  /\ UNCHANGED <<hubVars, durable, mc, lock, mode, remote, snap, todo, prod, filter,
                 capacity, chan, sub, tx, count, faults>>

-----------------------------------------------------------------------------
(* diff and setWatermark.                                                  *)

\* Mutant: relations are not compared.
StaleObjectsOnly(d, f) == (Present(d) \cap Objects) \ f

\* diffObjects, diffRelations: the stale keys are the stored ones the filter
\* does not report; the delete handlers refuse what the model does not admit.
Stale(d, f) == Present(d) \ f
Prune(d, stale, m) ==
  [k \in Items |-> IF k \in stale \cap Admitted(m) THEN 0 ELSE d[k]]

Diff(s) ==
  /\ pc[s] = "diff" /\ lock = None
  /\ \E hit \in IF FalsePositives THEN SUBSET Stale(edge, filter[s]) ELSE {{}} :
       edge' = Prune(edge, Stale(edge, filter[s]) \ hit, mc)
  /\ Goto(s, "watermark")
  /\ UNCHANGED <<hubVars, edgeManifest, wmCount, mc, lock, mode, remote, snap, todo, prod,
                 filter, capacity, chan, sub, tx, count, faults>>

\* setWatermark counts what is stored and truncates the file; a file that
\* cannot be decoded is read as a new watermark, with count 0.
TruncateWatermark(s) ==
  /\ pc[s] = "watermark"
  /\ count' = [count EXCEPT ![s] = Cardinality(Present(edge))]
  /\ wmCount' = 0
  /\ Goto(s, "writeWatermark")
  /\ UNCHANGED <<hubVars, edge, edgeManifest, mc, lock, mode, remote, snap, todo, prod,
                 filter, capacity, chan, sub, tx, faults>>

WriteWatermark(s) ==
  /\ pc[s] = "writeWatermark"
  /\ wmCount' = count[s]
  /\ Goto(s, "idle")
  /\ UNCHANGED <<hubVars, edge, edgeManifest, mc, lock, mode, remote, snap, todo, prod,
                 filter, capacity, chan, sub, tx, count, faults>>

-----------------------------------------------------------------------------
(* Faults.                                                                 *)

Fault == faults < MaxFaults /\ faults' = faults + 1

\* Opening the stream, or receiving from it, fails: producer returns the error.
StreamFails(s) ==
  /\ Fault /\ pc[s] = "stream" /\ prod[s] \in {"init", "open"}
  /\ prod' = [prod EXCEPT ![s] = "error"]
  /\ UNCHANGED <<hubVars, durable, mc, lock, pc, mode, remote, snap, todo, filter,
                 capacity, chan, sub, tx, count>>

\* The subscriber's transaction cannot be begun: nobody receives.
BatchFails(s) ==
  /\ Fault /\ pc[s] = "stream" /\ sub[s] = "init"
  /\ sub' = [sub EXCEPT ![s] = "error"]
  /\ UNCHANGED <<hubVars, durable, mc, lock, pc, mode, remote, snap, todo, prod, filter,
                 capacity, chan, tx, count>>

\* The subscriber's transaction cannot be committed.
CommitFails(s) ==
  /\ Fault /\ sub[s] = "recv" /\ chan[s] = << >> /\ Closed(s)
  /\ lock' = None /\ sub' = [sub EXCEPT ![s] = "error"]
  /\ UNCHANGED <<hubVars, durable, mc, pc, mode, remote, snap, todo, prod, filter,
                 capacity, chan, tx, count>>

\* Any other stage that reports an error ends the run there.
StageFails(s) ==
  /\ Fault /\ pc[s] \in {"getManifest", "compareManifest", "setManifest", "diff", "watermark",
                         "writeWatermark"}
  /\ Goto(s, "idle")
  /\ UNCHANGED <<hubVars, durable, mc, lock, mode, remote, snap, todo, prod, filter,
                 capacity, chan, sub, tx, count>>

\* The edge process dies and is restarted; loadModel reads the stored model.
Crash ==
  /\ Fault
  /\ mc' = edgeManifest /\ lock' = None
  /\ pc' = [s \in Syncs |-> "idle"]
  /\ sub' = [s \in Syncs |-> "init"] /\ prod' = [s \in Syncs |-> "init"]
  /\ UNCHANGED <<hubVars, durable, mode, remote, snap, todo, filter, capacity, chan, tx,
                 count>>

-----------------------------------------------------------------------------
HubStep == \/ \E k \in Items : HubSet(k) \/ HubDelete(k)
           \/ \E m \in Manifests : HubSetManifest(m)

\* What a run does once started, when nothing fails.
Proceed(s) ==
  \/ GetManifest(s) \/ CompareManifest(s) \/ SetManifest(s) \/ UpdateModel(s)
  \/ ProducerOpen(s) \/ ProducerSend(s) \/ ProducerEnd(s)
  \/ SubscriberBegin(s) \/ SubscriberReceive(s) \/ SubscriberCommit(s) \/ Wait(s)
  \/ Diff(s) \/ TruncateWatermark(s) \/ WriteWatermark(s)

SyncStep(s) ==
  \/ \E m \in RunModes : Start(s, m)
  \/ Proceed(s)
  \/ StreamFails(s) \/ BatchFails(s) \/ CommitFails(s) \/ StageFails(s)

Next == HubStep \/ (\E s \in Syncs : SyncStep(s)) \/ Crash

Spec == Init /\ [][Next]_vars

\* Batch may put the function of an import into the same transaction.  When that
\* one fails the transaction is rolled back and the subscriber's function runs
\* again, on a channel that is drained and closed.
BatchAgain(s) ==
  /\ sub[s] = "recv" /\ chan[s] = << >> /\ Closed(s)
  /\ tx' = [tx EXCEPT ![s] = edge]
  /\ UNCHANGED <<hubVars, durable, mc, lock, pc, mode, remote, snap, todo, prod, filter,
                 capacity, chan, sub, count, faults>>

SpecBatch == Init /\ [][Next \/ \E s \in Syncs : BatchAgain(s)]_vars

\* Started runs go on, and the scheduler starts a Diff run again and again.
Fairness ==
  /\ \A s \in Syncs : WF_vars(Proceed(s))
  /\ \A s \in Syncs : SF_vars(\E m \in RunModes : "Diff" \in m /\ Start(s, m))

FairSpec == Spec /\ Fairness

-----------------------------------------------------------------------------
(* Properties.                                                             *)

Labels == {"idle", "getManifest", "compareManifest", "setManifest", "updateModel", "stream",
           "diff", "watermark", "writeWatermark"}
Data == [Items -> Nat]

\* Every variable has its type; the channel never holds more than its capacity.
TypeOK ==
  /\ hub \in Data /\ version \in Data /\ hubManifest \in Manifests /\ manifestCtr \in Nat
  /\ edge \in Data /\ edgeManifest \in Manifests \cup {NoManifest} /\ wmCount \in Nat
  /\ mc \in Manifests \cup {NoManifest} /\ lock \in Syncs \cup {None} /\ faults \in Nat
  /\ pc \in [Syncs -> Labels] /\ mode \in [Syncs -> SUBSET {"Manifest", "Full", "Diff", "Watermark"}]
  /\ remote \in [Syncs -> Manifests \cup {NoManifest}] /\ snap \in [Syncs -> Data]
  /\ todo \in [Syncs -> SUBSET Items] /\ prod \in [Syncs -> {"init", "open", "eof", "error"}]
  /\ filter \in [Syncs -> SUBSET Items] /\ capacity \in [Syncs -> Nat]
  /\ chan \in [Syncs -> Seq(Items)] /\ sub \in [Syncs -> {"init", "recv", "done", "error"}]
  /\ tx \in [Syncs -> Data] /\ count \in [Syncs -> Nat]
  /\ \A s \in Syncs : Len(chan[s]) <= ChannelSize

\* The run whose subscriber is receiving holds the write transaction, and its
\* goroutines work in the stream stage only.
Holder(s) ==
  /\ sub[s] = "recv" <=> lock = s
  /\ sub[s] = "recv" \/ prod[s] = "open" => pc[s] = "stream"

\* Only items of the run's own export travel through its channel.
InChannel(s) ==
  pc[s] # "idle" => /\ \A i \in 1..Len(chan[s]) : snap[s][chan[s][i]] # 0
                    /\ prod[s] = "init" => chan[s] = << >>

\* An open transaction differs from the committed state by exported items.
InTx(s) ==
  lock = s =>
    \A k \in Items : \/ tx[s][k] = edge[k]
                     \/ tx[s][k] = snap[s][k] /\ snap[s][k] # 0 /\ prod[s] # "init"

\* Between SubscriberBegin and its commit the run's transaction differs from
\* the committed state by exported items only: nobody else commits meanwhile,
\* and nothing but the run's own export comes through its channel.
TxInv == \A s \in Syncs : Holder(s) /\ InChannel(s) /\ InTx(s)

\* Every item there can be fits into the smallest filter: then no insert
\* displaces a fingerprint.
FilterFits == Cardinality(Items) <= InitFilterSize

\* In a Diff run the filter knows every exported item that was received; the
\* diff stage is only entered with an export received to its end.
Filtered(s) ==
  /\ prod[s] = "open" => todo[s] \subseteq Present(snap[s])
  /\ pc[s] = "diff" => Has(s, "Diff") /\ prod[s] = "eof"
  /\ Has(s, "Diff") =>
       /\ prod[s] = "open" => /\ capacity[s] >= InitFilterSize
                              /\ Present(snap[s]) \ todo[s] \subseteq filter[s]
       /\ prod[s] = "eof" => Present(snap[s]) \subseteq filter[s]
FilterInv == \A s \in Syncs : Filtered(s)

\* The edge store changes only towards a hub state that some run has read:
\* whatever the order of stream, transaction, diff, failure and restart, a
\* committed step writes items of that state or removes items it lacks.
R == INSTANCE Replica WITH Copiers <- Syncs, copy <- snap
ReplicaSpec == R!Spec

\* An item disappears from the edge only in the diff stage of a Diff run whose
\* export was received to its end and did not contain the item; a broken
\* stream (producer returning the error of Recv) never leads to deletions.
DeletesOnlyAbsent ==
  [][\A k \in Items : edge[k] # 0 /\ edge'[k] = 0 =>
       \E s \in Syncs : /\ pc[s] = "diff" /\ Has(s, "Diff") /\ prod[s] = "eof"
                        /\ snap[s][k] = 0]_vars

\* With one run at a time, an edge that is past the diff stage holds exactly
\* the exported state, as far as the edge's model admits it.
DiffExact ==
  \A s \in Syncs : pc[s] = "watermark" /\ Has(s, "Diff") =>
    \A k \in Admitted(mc) : edge[k] = snap[s][k]

\* With one run at a time, everything stored is admitted by the stored
\* manifest: SetManifest's CanUpdate and the handlers' Validate together, in
\* spite of the cached model being replaced only after the commit.
EdgeConforms == Present(edge) \subseteq Admitted(edgeManifest)

\* The producer is held for ever: exportChan is full and the subscriber has gone.
Stalled(s) == prod[s] = "open" /\ todo[s] # {} /\ ~ChannelFree(s) /\ sub[s] = "error"

\* Once the hub stops changing and nothing fails any more, the edge becomes
\* equal to the hub and stays so, with two exceptions: the hub has dropped a type
\* of which the edge keeps instances, because SetManifest then refuses the manifest
\* and ends every run before its diff stage; or a run is stalled.
InStep == edge = hub /\ edgeManifest = hubManifest
Converges ==
  <>[](Present(edge) \subseteq Admitted(hubManifest) /\ \A s \in Syncs : ~Stalled(s)) => <>[]InStep

\* The same without the exceptions (Sync.Run in Diff mode).
AlwaysConverges == <>[]InStep

\* Every run ends (g.Wait in syncDirectory).
RunEnds == \A s \in Syncs : []<>(pc[s] = "idle")

=============================================================================
