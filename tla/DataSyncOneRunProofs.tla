------------------------ MODULE DataSyncOneRunProofs ------------------------
(***************************************************************************)
(* What a sync run achieves when no other run is under way: the edge's     *)
(* store conforms to its manifest, and a Diff run leaves exactly what the  *)
(* hub exported.                                                           *)
(***************************************************************************)
EXTENDS DataSyncProofs

-----------------------------------------------------------------------------
(* The store conforms to the stored manifest.                              *)

\* The cached model differs from the stored one only between the commit of
\* setManifest and mc.UpdateModel, and then no transaction is open.
Conform(s) ==
  /\ sub[s] = "recv" <=> lock = s
  /\ sub[s] = "recv" => pc[s] = "stream" /\ Present(tx[s]) \subseteq Admitted(mc)
  /\ pc[s] = "updateModel" => edgeManifest = remote[s]
  /\ pc[s] # "updateModel" => mc = edgeManifest
  /\ EdgeConforms

\* Every step of the hub and of the only run preserves it.
LEMMA StepConform ==
  ASSUME NEW s, Syncs = {s}, TypeOK, Conform(s), [Next]_vars
  PROVE  Conform(s)'
<1> USE DEF hubVars, durable, runVars
<1>0. /\ pc \in [Syncs -> Labels] /\ sub \in [Syncs -> {"init", "recv", "done", "error"}]
      /\ chan \in [Syncs -> Seq(Items)] /\ tx \in [Syncs -> Data] /\ remote \in [Syncs -> Manifests \cup {NoManifest}]
      /\ lock \in Syncs \cup {None} /\ edge \in Data /\ s \in Syncs /\ None # s
  BY ConstantsAssumption DEF TypeOK
<1>1. ASSUME UNCHANGED <<durable, mc, lock, sub, tx, remote>>,
             pc'[s] = "updateModel" <=> pc[s] = "updateModel", sub[s] = "recv" => pc'[s] = "stream"
      PROVE  Conform(s)'
  BY <1>1 DEF Conform, EdgeConforms, Present
<1>2. CASE HubStep \/ UNCHANGED vars
  <2>1. UNCHANGED <<durable, mc, lock, sub, tx, remote, pc>>
    BY <1>2 DEF HubStep, HubSet, HubDelete, HubSetManifest, vars
  <2> QED BY <1>1, <2>1 DEF Conform
<1>3. ASSUME NEW m \in RunModes, Start(s, m) PROVE Conform(s)'
  <2>1. /\ pc[s] = "idle" /\ pc'[s] \in {"getManifest", "stream"} /\ sub'[s] = "init"
        /\ UNCHANGED <<durable, mc, lock>>
    BY <1>0, <1>3 DEF Start, Goto
  <2>2. lock # s /\ mc = edgeManifest
    BY <2>1 DEF Conform
  <2> QED BY <2>1, <2>2 DEF Conform, EdgeConforms, Present
<1>4. CASE CompareManifest(s) \/ ProducerOpen(s) \/ ProducerSend(s) \/ ProducerEnd(s) \/ StreamFails(s)
  <2>1. UNCHANGED <<durable, mc, lock, sub, tx, remote>>
    BY <1>4 DEF CompareManifest, ProducerOpen, ProducerSend, ProducerEnd, StreamFails
  <2>2. pc'[s] = pc[s] \/ (pc[s] = "compareManifest" /\ pc'[s] # "updateModel")
    BY <1>0, <1>4 DEF CompareManifest, ProducerOpen, ProducerSend, ProducerEnd, StreamFails, Goto, AfterManifest
  <2> QED BY <1>1, <2>1, <2>2 DEF Conform
<1>5. CASE GetManifest(s)
  <2>1. /\ pc[s] = "getManifest" /\ pc'[s] = "compareManifest" /\ UNCHANGED <<durable, mc, lock, sub, tx>>
    BY <1>0, <1>5 DEF GetManifest, Goto
  <2> QED BY <2>1 DEF Conform, EdgeConforms, Present
<1>6. CASE SetManifest(s)
  <2>1. pc[s] = "setManifest" /\ UNCHANGED <<edge, mc, lock, sub, tx, remote>> /\ mc = edgeManifest
        /\ sub[s] # "recv" /\ lock # s
    BY <1>6 DEF SetManifest, Conform
  <2>2. CASE CanUpdate(mc, remote[s], edge)
    <3>1. edgeManifest' = remote[s] /\ pc'[s] = "updateModel"
      BY <1>0, <1>6, <2>2 DEF SetManifest, Goto
    <3>2. EdgeConforms'
      BY <2>1, <2>2, <3>1 DEF Conform, EdgeConforms, CanUpdate, Present
    <3> QED BY <2>1, <3>1, <3>2 DEF Conform
  <2>3. CASE ~CanUpdate(mc, remote[s], edge)
    <3>1. UNCHANGED edgeManifest /\ pc'[s] = "idle"
      BY <1>0, <1>6, <2>3 DEF SetManifest, Goto
    <3> QED BY <2>1, <3>1 DEF Conform, EdgeConforms, Present
  <2> QED BY <2>2, <2>3
<1>7. CASE UpdateModel(s)
  <2>1. /\ pc[s] = "updateModel" /\ pc'[s] \in {"stream", "idle"} /\ mc' = remote[s]
        /\ UNCHANGED <<durable, lock, sub, tx, remote>>
    BY <1>0, <1>7 DEF UpdateModel, AfterManifest, Goto
  <2> QED BY <2>1 DEF Conform, EdgeConforms, Present
<1>8. CASE SubscriberBegin(s)
  <2>1. /\ pc[s] = "stream" /\ pc' = pc /\ sub'[s] = "recv" /\ lock' = s /\ tx'[s] = edge
        /\ UNCHANGED <<durable, mc, remote>>
    BY <1>0, <1>8 DEF SubscriberBegin
  <2> QED BY <2>1 DEF Conform, EdgeConforms, Present
<1>9. CASE SubscriberReceive(s)
  <2> DEFINE k == Head(chan[s])
  <2>1. /\ sub[s] = "recv" /\ UNCHANGED <<durable, mc, lock, sub, pc, remote>>
        /\ tx'[s] = SetItem(tx[s], k, snap[s][k], mc)
    BY <1>0, <1>9 DEF SubscriberReceive
  <2>2. Present(tx'[s]) \subseteq Present(tx[s]) \cup Admitted(mc)
    BY <1>0, <2>1 DEF SetItem, Present, Data
  <2>3. Present(tx[s])' = Present(tx'[s])
    BY DEF Present
  <2> QED BY <2>1, <2>2, <2>3 DEF Conform, EdgeConforms, Present
<1>10. CASE SubscriberCommit(s)
  <2>1. /\ sub[s] = "recv" /\ sub'[s] = "done" /\ lock' = None /\ edge' = tx[s]
        /\ UNCHANGED <<pc, mc, edgeManifest, remote>>
    BY <1>0, <1>10 DEF SubscriberCommit
  <2>2. EdgeConforms'
    BY <2>1 DEF Conform, EdgeConforms, Present
  <2> QED BY <1>0, <2>1, <2>2 DEF Conform
<1>11. CASE CommitFails(s)
  <2>1. /\ sub[s] = "recv" /\ sub'[s] = "error" /\ lock' = None /\ UNCHANGED <<pc, mc, durable, remote>>
    BY <1>0, <1>11 DEF CommitFails
  <2> QED BY <1>0, <2>1 DEF Conform, EdgeConforms, Present
<1>12. CASE Wait(s) \/ TruncateWatermark(s) \/ WriteWatermark(s) \/ StageFails(s)
  <2>1. /\ UNCHANGED <<edge, edgeManifest, mc, lock, sub, tx, remote>> /\ sub[s] # "recv"
        /\ pc[s] # "updateModel" /\ pc'[s] # "updateModel"
    BY <1>0, <1>12 DEF Wait, Finished, AfterStream, TruncateWatermark, WriteWatermark, StageFails, Goto, Conform
  <2> QED BY <2>1 DEF Conform, EdgeConforms, Present
<1>13. CASE Diff(s)
  <2>1. /\ pc[s] = "diff" /\ pc'[s] = "watermark" /\ UNCHANGED <<edgeManifest, mc, lock, sub, tx, remote>>
        /\ sub[s] # "recv"
    BY <1>0, <1>13 DEF Diff, Goto, Conform
  <2>2. \A k \in Items : edge'[k] # 0 => edge[k] # 0
    BY <1>13 DEF Diff, Prune
  <2> QED BY <2>1, <2>2 DEF Conform, EdgeConforms, Present
<1>14. CASE Crash
  BY <1>0, <1>14 DEF Crash, Conform, EdgeConforms, Present
<1>15. CASE BatchFails(s)
  <2>1. /\ sub[s] = "init" /\ sub'[s] = "error" /\ UNCHANGED <<pc, lock, mc, durable, remote>>
    BY <1>0, <1>15 DEF BatchFails
  <2> QED BY <2>1 DEF Conform, EdgeConforms, Present
<1> QED BY <1>2, <1>3, <1>4, <1>5, <1>6, <1>7, <1>8, <1>9, <1>10, <1>11, <1>12, <1>13, <1>14, <1>15
        DEF Next, SyncStep, Proceed

\* setManifest's CanUpdate and the set handlers' Validate together: with one run at
\* a time everything the edge stores is admitted by the manifest it stores, though
\* the cached model is replaced only after the commit, whatever fails or crashes.
THEOREM AloneConforms ==
  ASSUME NEW CONSTANT s, Syncs = {s}
  PROVE  Spec => []EdgeConforms
<1>1. Init => Conform(s)
  BY ConstantsAssumption DEF Init, Conform, EdgeConforms, Present, Absent
<1>2. TypeOK /\ Conform(s) /\ [Next]_vars => Conform(s)'
  BY StepConform
<1>3. Conform(s) => EdgeConforms
  BY DEF Conform
<1> QED BY <1>1, <1>2, <1>3, TypeCorrect, PTL DEF Spec

-----------------------------------------------------------------------------
(* A Diff run leaves exactly what the hub exported.                        *)

\* The items on their way from the producer to the subscriber.
OnTheWay(s) == {chan[s][i] : i \in 1 .. Len(chan[s])}

\* What has been exported and is neither still to be sent nor on its way has
\* been received, and what is received and admitted has been stored.
Received(s, d) ==
  \A k \in Present(snap[s]) \ (todo[s] \cup OnTheWay(s)) : k \in Admitted(mc) => d[k] = snap[s][k]

Exported(s) == prod[s] \in {"open", "eof"}

\* How far the only run has come: the producer's and the subscriber's side, the
\* filter, which holds what was sent and nothing else, and the diff stage.
Exact(s) ==
  /\ pc[s] \in {"getManifest", "compareManifest", "setManifest", "updateModel"} =>
       prod[s] = "init" /\ sub[s] = "init"
  /\ pc[s] # "idle" /\ prod[s] = "init" => chan[s] = << >> /\ filter[s] = {}
  /\ pc[s] # "idle" /\ prod[s] \in {"init", "open"} => sub[s] # "done"
  /\ prod[s] = "eof" => todo[s] = {}
  /\ Exported(s) /\ sub[s] = "init" => Present(snap[s]) \subseteq todo[s] \cup OnTheWay(s)
  /\ Exported(s) /\ sub[s] = "recv" => Received(s, tx[s])
  /\ prod[s] = "eof" /\ sub[s] = "done" /\ pc[s] \in {"stream", "diff"} =>
       \A k \in Present(snap[s]) \cap Admitted(mc) : edge[k] = snap[s][k]
  /\ Exported(s) /\ Has(s, "Diff") => filter[s] = Present(snap[s]) \ todo[s]
  /\ pc[s] = "diff" => prod[s] = "eof" /\ sub[s] = "done" /\ Has(s, "Diff")
  /\ DiffExact

\* The types the steps below use.
Typed ==
  /\ pc \in [Syncs -> Labels] /\ prod \in [Syncs -> {"init", "open", "eof", "error"}]
  /\ sub \in [Syncs -> {"init", "recv", "done", "error"}] /\ chan \in [Syncs -> Seq(Items)]
  /\ snap \in [Syncs -> Data] /\ tx \in [Syncs -> Data] /\ todo \in [Syncs -> SUBSET Items]
  /\ filter \in [Syncs -> SUBSET Items] /\ capacity \in [Syncs -> Nat] /\ edge \in Data
  /\ mode \in [Syncs -> SUBSET {"Manifest", "Full", "Diff", "Watermark"}]

\* What a send does to the channel.
LEMMA AppendItem ==
  ASSUME NEW q \in Seq(Items), NEW k \in Items
  PROVE  /\ Len(Append(q, k)) = Len(q) + 1 /\ Append(q, k)[Len(q) + 1] = k
         /\ \A i \in 1 .. Len(q) : Append(q, k)[i] = q[i]
OBVIOUS

\* What depends on a run's export, channel and mode only.
LEMMA SameExport ==
  ASSUME NEW s, UNCHANGED <<snap, chan, mode>>
  PROVE  /\ Present(snap[s])' = Present(snap[s]) /\ OnTheWay(s)' = OnTheWay(s)
         /\ Has(s, "Diff")' <=> Has(s, "Diff")
BY DEF Present, OnTheWay, Has

\* Steps that leave the run's data, its store and the model alone and do not enter
\* the stages in which something is due.
LEMMA ExactFrame ==
  ASSUME NEW s, Syncs = {s}, Exact(s), UNCHANGED <<edge, mc, mode, snap, todo, prod, filter, chan, sub, tx>>,
         \/ pc'[s] = pc[s] \/ pc'[s] = "idle"
         \/ pc[s] \in {"getManifest", "compareManifest", "setManifest"}
              /\ pc'[s] \in {"compareManifest", "setManifest", "updateModel", "stream"}
         \/ pc[s] \in {"watermark", "writeWatermark"} /\ pc'[s] \in {"writeWatermark"}
  PROVE  Exact(s)'
<1>1. /\ Present(snap[s])' = Present(snap[s]) /\ OnTheWay(s)' = OnTheWay(s) /\ (Exported(s)' <=> Exported(s))
      /\ (Has(s, "Diff")' <=> Has(s, "Diff")) /\ (Received(s, tx[s])' <=> Received(s, tx[s]))
  BY DEF Present, OnTheWay, Exported, Has, Received
<1>2. DiffExact'
  BY <1>1 DEF Exact, DiffExact
<1> QED BY <1>1, <1>2 DEF Exact

\* The producer sends an item: it leaves what is to be sent, enters the filter and
\* is on its way.
LEMMA SendExact ==
  ASSUME NEW s, Syncs = {s}, FilterFits, IInv, Exact(s), ProducerSend(s)
  PROVE  Exact(s)'
<1>0. s \in Syncs /\ TypeOK /\ Typed /\ Filtered(s)
  BY DEF IInv, FilterInv, TypeOK, Typed
<1>1. PICK k \in NextToSend(s) :
        /\ IF Has(s, "Diff")
           THEN \E f \in Insert(filter[s], capacity[s], k) : filter' = [filter EXCEPT ![s] = f]
           ELSE UNCHANGED filter
        /\ chan' = [chan EXCEPT ![s] = Append(@, k)]
        /\ todo' = [todo EXCEPT ![s] = @ \ {k}]
  BY Zenon DEF ProducerSend
<1>2. prod[s] = "open" /\ UNCHANGED <<edge, mc, mode, pc, snap, prod, sub, tx>>
  BY DEF ProducerSend, durable
<1>3. k \in todo[s] /\ k \in Items /\ todo[s] \subseteq Present(snap[s])
  BY <1>0, <1>1, <1>2, NextToSendItems DEF Filtered
<1>4. todo'[s] = todo[s] \ {k} /\ chan'[s] = Append(chan[s], k) /\ chan[s] \in Seq(Items)
  BY <1>0, <1>1 DEF Typed
<1>5. OnTheWay(s)' = OnTheWay(s) \cup {k}
  <2>1. /\ chan[s] \in Seq(Items) /\ Len(chan'[s]) = Len(chan[s]) + 1 /\ chan'[s][Len(chan[s]) + 1] = k
        /\ \A i \in 1 .. Len(chan[s]) : chan'[s][i] = chan[s][i]
    <3> DEFINE q == Append(chan[s], k)
    <3>1. Len(q) = Len(chan[s]) + 1 /\ q[Len(chan[s]) + 1] = k /\ \A i \in 1 .. Len(chan[s]) : q[i] = chan[s][i]
      <4>1. chan[s] \in Seq(Items) /\ k \in Items
        BY <1>3, <1>4
      <4> QED BY <4>1, AppendItem
    <3> HIDE DEF q
    <3> QED BY <1>4, <3>1 DEF q
  <2>2. \A i \in 1 .. Len(chan[s]) + 1 : i \in 1 .. Len(chan[s]) \/ i = Len(chan[s]) + 1
    BY <2>1
  <2>3. OnTheWay(s)' \subseteq OnTheWay(s) \cup {k}
    BY <2>1, <2>2 DEF OnTheWay
  <2>4. OnTheWay(s) \cup {k} \subseteq OnTheWay(s)'
    BY <2>1 DEF OnTheWay
  <2> QED BY <2>3, <2>4
<1>6. Has(s, "Diff") => filter'[s] = filter[s] \cup {k}
  <2> SUFFICES ASSUME Has(s, "Diff") PROVE filter'[s] = filter[s] \cup {k}
    OBVIOUS
  <2>1. Insert(filter[s], capacity[s], k) = {filter[s] \cup {k}}
    BY <1>0, <1>2, <1>3, InsertFits DEF Filtered, Typed
  <2> QED BY <1>0, <1>1, <2>1 DEF Typed
<1>7. /\ Present(snap[s])' = Present(snap[s]) /\ Exported(s)' /\ Exported(s) /\ (Has(s, "Diff")' <=> Has(s, "Diff"))
  BY <1>2 DEF Present, Exported, Has
<1>8. todo'[s] \cup OnTheWay(s)' = todo[s] \cup OnTheWay(s)
  BY <1>3, <1>4, <1>5
<1>9. (Received(s, tx[s])' <=> Received(s, tx[s]))
  BY <1>2, <1>7, <1>8 DEF Received
<1>10. Has(s, "Diff") => filter'[s] = Present(snap[s]) \ todo'[s]
  <2>1. Has(s, "Diff") => filter[s] = Present(snap[s]) \ todo[s]
    BY <1>7 DEF Exact
  <2> QED BY <1>3, <1>4, <1>6, <2>1
<1>11. DiffExact'
  BY <1>2, <1>7 DEF Exact, DiffExact
<1> QED BY <1>2, <1>7, <1>8, <1>9, <1>10, <1>11 DEF Exact

\* The subscriber receives an item: it is stored if the model admits it.
LEMMA ReceiveExact ==
  ASSUME NEW s, Syncs = {s}, IInv, Exact(s), SubscriberReceive(s)
  PROVE  Exact(s)'
<1>0. s \in Syncs /\ Typed
  BY DEF IInv, TypeOK, Typed
<1> DEFINE k == Head(chan[s])
<1>1. /\ sub[s] = "recv" /\ chan[s] # << >> /\ UNCHANGED <<edge, mc, mode, pc, snap, todo, prod, filter, sub>>
      /\ chan'[s] = Tail(chan[s]) /\ tx'[s] = SetItem(tx[s], k, snap[s][k], mc)
  BY <1>0 DEF SubscriberReceive, durable, Typed
<1>2. OnTheWay(s) = OnTheWay(s)' \cup {k} /\ k \in Items
  <2>1. /\ Len(chan[s]) \in Nat \ {0} /\ Len(Tail(chan[s])) = Len(chan[s]) - 1 /\ k = chan[s][1]
        /\ \A i \in 1 .. Len(chan[s]) - 1 : Tail(chan[s])[i] = chan[s][i + 1]
    BY <1>0, <1>1 DEF Typed
  <2>2. \A i \in 1 .. Len(chan[s]) : i = 1 \/ (i - 1 \in 1 .. Len(chan[s]) - 1 /\ Tail(chan[s])[i - 1] = chan[s][i])
    BY <2>1
  <2>3. OnTheWay(s) \subseteq OnTheWay(s)' \cup {k}
    <3> SUFFICES ASSUME NEW i \in 1 .. Len(chan[s]) PROVE chan[s][i] \in OnTheWay(s)' \cup {k}
      BY DEF OnTheWay
    <3>1. CASE i = 1
      BY <2>1, <3>1
    <3>2. CASE i # 1
      <4>1. i - 1 \in 1 .. Len(chan'[s]) /\ chan'[s][i - 1] = chan[s][i]
        BY <1>1, <2>1, <2>2, <3>2
      <4> QED BY <4>1 DEF OnTheWay
    <3> QED BY <3>1, <3>2
  <2>4. OnTheWay(s)' \cup {k} \subseteq OnTheWay(s)
    <3> SUFFICES ASSUME NEW i \in 1 .. Len(chan'[s]) PROVE chan'[s][i] \in OnTheWay(s)
      BY <2>1 DEF OnTheWay
    <3>1. i + 1 \in 1 .. Len(chan[s]) /\ chan'[s][i] = chan[s][i + 1]
      BY <1>1, <2>1
    <3> QED BY <3>1 DEF OnTheWay
  <2>5. k \in Items
    BY <1>0, <1>1, <2>1 DEF Typed
  <2> QED BY <2>3, <2>4, <2>5
<1>3. /\ Present(snap[s])' = Present(snap[s]) /\ (Exported(s)' <=> Exported(s)) /\ (Has(s, "Diff")' <=> Has(s, "Diff"))
  BY <1>1 DEF Present, Exported, Has
<1>4. \A x \in Items : tx'[s][x] = IF x = k /\ k \in Admitted(mc) THEN snap[s][k] ELSE tx[s][x]
  BY <1>0, <1>1, <1>2 DEF SetItem, Data, Typed
<1>5. Received(s, tx[s]) => Received(s, tx[s])'
  BY <1>1, <1>2, <1>3, <1>4, PresentItems DEF Received
<1>6. DiffExact'
  BY <1>1, <1>3 DEF Exact, DiffExact
<1>7. ~(pc[s] # "idle" /\ prod[s] = "init")
  BY <1>0, <1>1 DEF Exact, IInv, TxInv, Holder
<1> QED BY <1>1, <1>3, <1>5, <1>6, <1>7 DEF Exact

\* Every other step of the hub and of the only run.
LEMMA StepExact ==
  ASSUME NEW s, Syncs = {s}, FilterFits, ~FalsePositives, IInv, Exact(s), [Next]_vars
  PROVE  Exact(s)'
<1>0. s \in Syncs /\ Typed /\ Holder(s)
  BY DEF IInv, TxInv, TypeOK, Typed
<1> USE DEF hubVars, durable, runVars
<1>1. CASE HubStep \/ UNCHANGED vars
  BY <1>0, <1>1, ExactFrame DEF HubStep, HubSet, HubDelete, HubSetManifest, vars
<1>2. ASSUME NEW m \in RunModes, Start(s, m) PROVE Exact(s)'
  <2>1. /\ pc'[s] \in {"getManifest", "stream"} /\ prod'[s] = "init" /\ sub'[s] = "init"
        /\ chan'[s] = << >> /\ filter'[s] = {}
    BY <1>0, <1>2 DEF Typed, Start, Goto
  <2> QED BY <2>1 DEF Exact, Exported, DiffExact
<1>3. CASE GetManifest(s) \/ CompareManifest(s) \/ SetManifest(s) \/ TruncateWatermark(s) \/ WriteWatermark(s)
           \/ StageFails(s)
  <2>1. UNCHANGED <<edge, mc, mode, snap, todo, prod, filter, chan, sub, tx>>
    BY <1>0, <1>3 DEF Typed, GetManifest, CompareManifest, SetManifest, TruncateWatermark, WriteWatermark, StageFails
  <2>2. \/ pc'[s] = "idle"
        \/ pc[s] \in {"getManifest", "compareManifest", "setManifest"}
             /\ pc'[s] \in {"compareManifest", "setManifest", "updateModel", "stream"}
        \/ pc[s] = "watermark" /\ pc'[s] = "writeWatermark"
    BY <1>0, <1>3 DEF Typed, GetManifest, CompareManifest, SetManifest, TruncateWatermark, WriteWatermark, StageFails, Goto,
                AfterManifest
  <2> QED BY <2>1, <2>2, ExactFrame
<1>4. CASE UpdateModel(s)
  <2>1. /\ pc[s] = "updateModel" /\ pc'[s] \in {"stream", "idle"} /\ UNCHANGED <<prod, sub, chan, filter>>
    BY <1>0, <1>4 DEF Typed, UpdateModel, AfterManifest, Goto
  <2> QED BY <2>1 DEF Exact, Exported, DiffExact
<1>5. CASE ProducerOpen(s)
  <2>1. /\ pc[s] = "stream" /\ prod[s] = "init" /\ prod'[s] = "open" /\ snap'[s] = hub /\ todo'[s] = Present(hub)
        /\ UNCHANGED <<pc, mode, filter, chan, sub, tx>>
    BY <1>0, <1>5 DEF Typed, ProducerOpen
  <2>2. Present(snap[s])' = todo'[s]
    BY <2>1 DEF Present
  <2>3. Received(s, tx[s])' /\ DiffExact'
    BY <2>1, <2>2 DEF Received, DiffExact
  <2>4. filter'[s] = {} /\ sub'[s] # "done"
    BY <2>1 DEF Exact
  <2> QED BY <2>1, <2>2, <2>3, <2>4 DEF Exact
<1>6. CASE ProducerEnd(s)
  <2>1. /\ prod[s] = "open" /\ prod'[s] = "eof" /\ todo[s] = {} /\ pc[s] = "stream"
        /\ UNCHANGED <<edge, mc, pc, mode, snap, todo, filter, chan, sub, tx>>
    BY <1>0, <1>6 DEF Typed, ProducerEnd, Holder
  <2>2. /\ Present(snap[s])' = Present(snap[s]) /\ OnTheWay(s)' = OnTheWay(s) /\ Exported(s) /\ Exported(s)'
        /\ Has(s, "Diff")' <=> Has(s, "Diff")
    BY <2>1, SameExport DEF Exported
  <2>4. Received(s, tx[s]) => Received(s, tx[s])'
    BY <2>1, <2>2 DEF Received
  <2>3. sub[s] # "done"
    BY <2>1 DEF Exact, IInv
  <2> QED BY <2>1, <2>2, <2>3, <2>4 DEF Exact, DiffExact
<1>7. CASE SubscriberBegin(s)
  <2>1. /\ pc[s] = "stream" /\ sub[s] = "init" /\ sub'[s] = "recv"
        /\ UNCHANGED <<edge, mc, pc, mode, snap, todo, prod, filter, chan>>
    BY <1>0, <1>7 DEF Typed, SubscriberBegin
  <2>2. /\ Present(snap[s])' = Present(snap[s]) /\ OnTheWay(s)' = OnTheWay(s) /\ (Exported(s)' <=> Exported(s))
        /\ (Has(s, "Diff")' <=> Has(s, "Diff"))
    BY <2>1, SameExport DEF Exported
  <2>3. Exported(s) => Received(s, tx[s])'
    BY <2>1, <2>2 DEF Exact, Received
  <2> QED BY <2>1, <2>2, <2>3 DEF Exact, DiffExact
<1>8. CASE SubscriberCommit(s)
  <2>1. /\ pc[s] = "stream" /\ sub[s] = "recv" /\ sub'[s] = "done" /\ chan[s] = << >> /\ Closed(s) /\ edge' = tx[s]
        /\ UNCHANGED <<mc, pc, mode, snap, todo, prod, filter, chan, tx>>
    BY <1>0, <1>8 DEF Typed, SubscriberCommit, Holder
  <2>2. OnTheWay(s) = {}
    <3>1. 1 .. Len(chan[s]) = {}
      BY <2>1
    <3> QED BY <3>1, Zenon DEF OnTheWay
  <2>3. prod[s] = "eof" => \A k \in Present(snap[s]) \cap Admitted(mc) : edge'[k] = snap[s][k]
    BY <2>1, <2>2 DEF Exact, Exported, Received
  <2>4. /\ Present(snap[s])' = Present(snap[s]) /\ (Exported(s)' <=> Exported(s)) /\ (Has(s, "Diff")' <=> Has(s, "Diff"))
    BY <2>1 DEF Present, Exported, Has
  <2> QED BY <2>1, <2>3, <2>4 DEF Exact, DiffExact, Closed
<1>9. CASE BatchFails(s) \/ CommitFails(s) \/ StreamFails(s)
  <2>1. UNCHANGED <<edge, mc, pc, mode, snap, todo, filter, chan, tx>> /\ pc[s] = "stream"
    BY <1>0, <1>9 DEF Typed, BatchFails, CommitFails, StreamFails, Holder
  <2>2. \/ sub'[s] = "error" /\ UNCHANGED prod
        \/ prod'[s] = "error"
    BY <1>0, <1>9 DEF Typed, BatchFails, CommitFails, StreamFails
  <2>3. /\ Present(snap[s])' = Present(snap[s]) /\ (Has(s, "Diff")' <=> Has(s, "Diff"))
    BY <2>1 DEF Present, Has
  <2> QED BY <2>1, <2>2, <2>3 DEF Exact, DiffExact, Exported
<1>10. CASE Wait(s)
  <2>1. /\ pc[s] = "stream" /\ Closed(s) /\ sub[s] \in {"done", "error"} /\ pc'[s] = AfterStream(s)
        /\ UNCHANGED <<edge, mc, mode, snap, todo, prod, filter, chan, sub, tx>>
    BY <1>0, <1>10 DEF Typed, Wait, Finished, Goto
  <2>2. CASE pc'[s] = "idle"
    BY <2>1, <2>2, ExactFrame
  <2>3. CASE pc'[s] # "idle"
    <3>1. prod[s] = "eof" /\ sub[s] = "done" /\ pc'[s] = IF Has(s, "Diff") THEN "diff" ELSE "watermark"
      BY <2>1, <2>3 DEF AfterStream, Closed
    <3>2. /\ Present(snap[s])' = Present(snap[s]) /\ (Exported(s)' <=> Exported(s)) /\ (Has(s, "Diff")' <=> Has(s, "Diff"))
      BY <2>1 DEF Present, Exported, Has
    <3>3. DiffExact'
      BY <3>1, <3>2 DEF DiffExact
    <3> QED BY <2>1, <3>1, <3>2, <3>3 DEF Exact
  <2> QED BY <2>2, <2>3
<1>11. CASE Diff(s)
  <2>1. /\ pc[s] = "diff" /\ pc'[s] = "watermark" /\ edge' = Prune(edge, Stale(edge, filter[s]), mc)
        /\ UNCHANGED <<mc, mode, snap, todo, prod, filter, chan, sub, tx>>
    BY <1>0, <1>11, Zenon DEF Typed, Diff, Goto
  <2>2. /\ filter[s] = Present(snap[s]) /\ prod[s] = "eof" /\ sub[s] = "done"
        /\ \A k \in Present(snap[s]) \cap Admitted(mc) : edge[k] = snap[s][k]
    BY <2>1, Zenon DEF Exact, Exported
  <2>3. \A k \in Items \cap Admitted(mc) : edge'[k] = snap[s][k]
    BY <1>0, <2>1, <2>2 DEF Typed, Prune, Stale, Present, Data
  <2>4. Admitted(mc) \subseteq Items
    BY ConstantsAssumption DEF Admitted
  <2>5. DiffExact'
    BY <2>1, <2>3, <2>4 DEF DiffExact, Admitted
  <2>6. /\ Present(snap[s])' = Present(snap[s]) /\ (Exported(s)' <=> Exported(s)) /\ (Has(s, "Diff")' <=> Has(s, "Diff"))
    BY <2>1 DEF Present, Exported, Has
  <2> QED BY <2>1, <2>2, <2>5, <2>6 DEF Exact
<1>12. CASE Crash
  BY <1>0, <1>12 DEF Typed, Crash, Exact, Exported, DiffExact
<1> QED BY <1>1, <1>2, <1>3, <1>4, <1>5, <1>6, <1>7, <1>8, <1>9, <1>10, <1>11, <1>12, SendExact, ReceiveExact
        DEF Next, SyncStep, Proceed

\* diff, with the filter the producer has filled: with one run at a time, a filter
\* that takes every item and reports nothing it was not given, the edge holds after
\* the diff stage exactly what was exported, as far as its model admits it.
THEOREM AloneExact ==
  ASSUME NEW CONSTANT s, Syncs = {s}, FilterFits, ~FalsePositives
  PROVE  Spec => []DiffExact
<1>1. Init => Exact(s)
  BY DEF Init, Exact, Exported, DiffExact
<1>2. IInv /\ Exact(s) /\ [Next]_vars => Exact(s)'
  BY StepExact
<1>3. Exact(s) => DiffExact
  BY DEF Exact
<1>4. Spec => []IInv
  BY Invariants DEF IInv
<1> QED BY <1>1, <1>2, <1>3, <1>4, PTL DEF Spec
=============================================================================
