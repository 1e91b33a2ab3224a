--------------------------- MODULE DataSyncProofs ---------------------------
(* Machine-checked theorems about DataSync, for all values of its constants. *)
EXTENDS DataSync, FiniteSetTheorems, TLAPS

-----------------------------------------------------------------------------
(* Lemmas about the operators of the model.                                *)

\* getFilterSize never returns less than its minimum.
LEMMA FilterSizeBound ==
  ASSUME NEW n \in Nat
  PROVE  FilterSize(n) \in Nat /\ FilterSize(n) >= InitFilterSize
<1>1. \A g \in Nat : g % Rounding \in 0..(Rounding - 1)
  BY ConstantsAssumption
<1>2. n * 2 \in Nat
  OBVIOUS
<1>3. CASE n = 0 \/ n * 2 < InitFilterSize
  BY <1>3, ConstantsAssumption DEF FilterSize
<1>4. CASE ~(n = 0 \/ n * 2 < InitFilterSize)
  <2>1. FilterSize(n) = n * 2 + (Rounding - ((n * 2) % Rounding))
    BY <1>4 DEF FilterSize
  <2>2. Rounding - ((n * 2) % Rounding) \in Nat
    BY <1>1, <1>2, ConstantsAssumption
  <2> QED BY <1>2, <1>4, <2>1, <2>2, ConstantsAssumption
<1> QED BY <1>3, <1>4

\* What Present yields of any item map.
LEMMA PresentItems == \A d : Present(d) \subseteq Items
  BY DEF Present

\* The set of present items is finite, so setWatermark's count is a number.
LEMMA PresentCount == \A d : Cardinality(Present(d)) \in Nat
  BY PresentItems, ConstantsAssumption, FS_Subset, FS_CardinalityType

\* Keys the filter is left with after an insert are keys of items.
LEMMA InsertItems ==
  ASSUME NEW f \in SUBSET Items, NEW k \in Items, NEW c
  PROVE  Insert(f, c, k) \subseteq SUBSET Items
  BY DEF Insert

\* Export sends what is still to be sent.
LEMMA NextToSendItems ==
  ASSUME TypeOK, NEW s \in Syncs
  PROVE  NextToSend(s) \subseteq todo[s] /\ todo[s] \subseteq Items
  BY DEF NextToSend, TypeOK

\* The set handlers keep the store well typed.
LEMMA SetItemType ==
  ASSUME NEW d \in Data, NEW k \in Items, NEW v \in Nat, NEW m
  PROVE  SetItem(d, k, v, m) \in Data
  BY DEF SetItem, Data

\* The delete handlers keep the store well typed.
LEMMA PruneType ==
  ASSUME NEW d \in Data, NEW S, NEW m
  PROVE  Prune(d, S, m) \in Data
  BY DEF Prune, Data

-----------------------------------------------------------------------------
(* Type correctness.                                                       *)

\* Type correctness of the initial states.
LEMMA InitType == Init => TypeOK
<1> SUFFICES ASSUME Init PROVE TypeOK
  OBVIOUS
<1>1. hub \in Data
  BY DEF Init, Data
<1>2. Absent \in Data
  BY DEF Absent, Data
<1> QED BY <1>1, <1>2, ConstantsAssumption DEF Init, TypeOK, Labels

\* Every step preserves the types.
LEMMA StepType == TypeOK /\ [Next]_vars => TypeOK'
<1> SUFFICES ASSUME TypeOK, [Next]_vars PROVE TypeOK'
  OBVIOUS
<1> USE ConstantsAssumption DEF TypeOK, vars, hubVars, durable, runVars
<1>1. ASSUME NEW k \in Items, HubSet(k) PROVE TypeOK'
  <2>1. version[k] + 1 \in Nat
    BY DEF Data
  <2>2. hub' \in Data /\ version' \in Data
    BY <1>1, <2>1 DEF HubSet, Data
  <2> QED BY <1>1, <2>2 DEF HubSet
<1>2. ASSUME NEW k \in Items, HubDelete(k) PROVE TypeOK'
  BY <1>2 DEF HubDelete, Data
<1>3. ASSUME NEW m \in Manifests, HubSetManifest(m) PROVE TypeOK'
  BY <1>3 DEF HubSetManifest
<1>4. ASSUME NEW s \in Syncs, NEW m \in RunModes, Start(s, m) PROVE TypeOK'
  <2>1. Absent \in Data
    BY DEF Absent, Data
  <2> QED BY <1>4, <2>1 DEF Start, Goto, Labels
<1>5. ASSUME NEW s \in Syncs, GetManifest(s) PROVE TypeOK'
  BY <1>5 DEF GetManifest, Goto, Labels
<1>6. ASSUME NEW s \in Syncs, CompareManifest(s) PROVE TypeOK'
  BY <1>6 DEF CompareManifest, Goto, Labels, AfterManifest
<1>7. ASSUME NEW s \in Syncs, SetManifest(s) PROVE TypeOK'
  <2>1. \/ edgeManifest' = remote[s] /\ pc' = [pc EXCEPT ![s] = "updateModel"]
        \/ edgeManifest' = edgeManifest /\ pc' = [pc EXCEPT ![s] = "idle"]
    BY <1>7, Zenon DEF SetManifest, Goto
  <2>2. pc' \in [Syncs -> Labels] /\ edgeManifest' \in Manifests \cup {NoManifest}
    <3>1. CASE edgeManifest' = remote[s] /\ pc' = [pc EXCEPT ![s] = "updateModel"]
      BY <3>1 DEF Labels
    <3>2. CASE edgeManifest' = edgeManifest /\ pc' = [pc EXCEPT ![s] = "idle"]
      BY <3>2 DEF Labels
    <3> QED BY <2>1, <3>1, <3>2
  <2> QED BY <1>7, <2>2 DEF SetManifest
<1>8. ASSUME NEW s \in Syncs, UpdateModel(s) PROVE TypeOK'
  BY <1>8 DEF UpdateModel, Goto, Labels, AfterManifest
<1>9. ASSUME NEW s \in Syncs, ProducerOpen(s) PROVE TypeOK'
  <2>1. Present(hub) \subseteq Items /\ FilterSize(wmCount) \in Nat
    BY PresentItems, FilterSizeBound
  <2> QED BY <1>9, <2>1 DEF ProducerOpen
<1>10. ASSUME NEW s \in Syncs, ProducerSend(s) PROVE TypeOK'
  <2>1. PICK k \in NextToSend(s) :
          /\ IF Has(s, "Diff")
             THEN \E f \in Insert(filter[s], capacity[s], k) :
                    filter' = [filter EXCEPT ![s] = f]
             ELSE UNCHANGED filter
          /\ chan' = [chan EXCEPT ![s] = Append(@, k)]
          /\ todo' = [todo EXCEPT ![s] = @ \ {k}]
    BY <1>10 DEF ProducerSend, ChannelFree
  <2>2. k \in Items
    BY NextToSendItems
  <2>3. filter' \in [Syncs -> SUBSET Items]
    <3>1. Insert(filter[s], capacity[s], k) \subseteq SUBSET Items
      BY <2>2, InsertItems
    <3>2. filter' = filter \/ \E f \in SUBSET Items : filter' = [filter EXCEPT ![s] = f]
      BY <2>1, <3>1, Zenon
    <3>3. ASSUME NEW f \in SUBSET Items, filter' = [filter EXCEPT ![s] = f]
          PROVE  filter' \in [Syncs -> SUBSET Items]
      BY <3>3
    <3> QED BY <3>2, <3>3
  <2>4. chan' \in [Syncs -> Seq(Items)] /\ \A t \in Syncs : Len(chan'[t]) <= ChannelSize
    BY <1>10, <2>1, <2>2 DEF ProducerSend, ChannelFree
  <2>5. todo' \in [Syncs -> SUBSET Items]
    BY <2>1
  <2> QED BY <1>10, <2>3, <2>4, <2>5 DEF ProducerSend, ChannelFree
<1>11. ASSUME NEW s \in Syncs, ProducerEnd(s) PROVE TypeOK'
  BY <1>11 DEF ProducerEnd
<1>12. ASSUME NEW s \in Syncs, SubscriberBegin(s) PROVE TypeOK'
  BY <1>12 DEF SubscriberBegin
<1>13. ASSUME NEW s \in Syncs, SubscriberReceive(s) PROVE TypeOK'
  <2>1. Head(chan[s]) \in Items /\ Tail(chan[s]) \in Seq(Items)
        /\ Len(Tail(chan[s])) <= ChannelSize
    BY <1>13 DEF SubscriberReceive
  <2>2. SetItem(tx[s], Head(chan[s]), snap[s][Head(chan[s])], mc) \in Data
    <3>1. snap[s] \in Data /\ tx[s] \in Data
      OBVIOUS
    <3>2. snap[s][Head(chan[s])] \in Nat
      BY <2>1, <3>1 DEF Data
    <3> QED BY <2>1, <3>1, <3>2, SetItemType
  <2> QED BY <1>13, <2>1, <2>2 DEF SubscriberReceive
<1>14. ASSUME NEW s \in Syncs, SubscriberCommit(s) PROVE TypeOK'
  BY <1>14 DEF SubscriberCommit, Closed
<1>15. ASSUME NEW s \in Syncs, Wait(s) PROVE TypeOK'
  BY <1>15 DEF Wait, Finished, Closed, AfterStream, Goto, Labels
<1>16. ASSUME NEW s \in Syncs, Diff(s) PROVE TypeOK'
  <2>1. edge' \in Data
    BY <1>16, PruneType DEF Diff
  <2> QED BY <1>16, <2>1 DEF Diff, Goto, Labels
<1>17. ASSUME NEW s \in Syncs, TruncateWatermark(s) PROVE TypeOK'
  BY <1>17, PresentCount DEF TruncateWatermark, Goto, Labels
<1>18. ASSUME NEW s \in Syncs, WriteWatermark(s) PROVE TypeOK'
  BY <1>18 DEF WriteWatermark, Goto, Labels
<1>19. ASSUME NEW s \in Syncs, StreamFails(s) PROVE TypeOK'
  BY <1>19 DEF StreamFails, Fault
<1>20. ASSUME NEW s \in Syncs, CommitFails(s) \/ BatchFails(s) PROVE TypeOK'
  <2>1. CASE CommitFails(s)
    BY <2>1 DEF CommitFails, Closed, Fault
  <2>2. CASE BatchFails(s)
    BY <2>2 DEF BatchFails, Fault
  <2> QED BY <1>20, <2>1, <2>2
<1>21. ASSUME NEW s \in Syncs, StageFails(s) PROVE TypeOK'
  BY <1>21 DEF StageFails, Fault, Goto, Labels
<1>22. CASE Crash
  BY <1>22 DEF Crash, Fault, Labels
<1>23. CASE UNCHANGED vars
  BY <1>23
<1> QED
  BY <1>1, <1>2, <1>3, <1>4, <1>5, <1>6, <1>7, <1>8, <1>9, <1>10, <1>11, <1>12, <1>13, <1>14,
     <1>15, <1>16, <1>17, <1>18, <1>19, <1>20, <1>21, <1>22, <1>23
  DEF Next, HubStep, SyncStep, Proceed

\* Every variable of the replication has its type, and the export channel
\* never holds more than its capacity, in every reachable state.
THEOREM TypeCorrect == Spec => []TypeOK
  BY InitType, StepType, PTL DEF Spec

-----------------------------------------------------------------------------
(* The transaction invariant.                                              *)

\* No transaction is open initially.
LEMMA InitTx == Init => TxInv
  BY ConstantsAssumption DEF Init, TxInv, Holder, InChannel, InTx

\* The types the steps below use.
LEMMA RunTypes ==
  ASSUME TypeOK
  PROVE  /\ pc \in [Syncs -> Labels] /\ prod \in [Syncs -> {"init", "open", "eof", "error"}]
         /\ sub \in [Syncs -> {"init", "recv", "done", "error"}]
         /\ chan \in [Syncs -> Seq(Items)] /\ snap \in [Syncs -> Data] /\ tx \in [Syncs -> Data]
  BY DEF TypeOK

\* A step that leaves channel and export alone and starts no run keeps what
\* is known of the channels.
LEMMA ChannelFrame ==
  ASSUME TxInv, UNCHANGED <<chan, snap>>, NEW t \in Syncs, pc'[t] # "idle" => pc[t] # "idle",
         prod'[t] = "init" => prod[t] = "init"
  PROVE  InChannel(t)'
  BY DEF TxInv, InChannel

\* A step that leaves transaction, store and export alone keeps what is known
\* of the transaction.
LEMMA TxFrame ==
  ASSUME TxInv, UNCHANGED <<lock, tx, edge, snap>>, NEW t \in Syncs,
         prod'[t] = "init" => prod[t] = "init"
  PROVE  InTx(t)'
  BY DEF TxInv, InTx

\* A step that only moves a run on, or ends its producer, keeps the invariant.
LEMMA PlainStep ==
  ASSUME TxInv, UNCHANGED <<lock, sub, chan, snap, tx, edge>>,
         \A t \in Syncs :
           /\ pc'[t] # "idle" => pc[t] # "idle"
           /\ prod'[t] = prod[t] \/ prod'[t] \in {"eof", "error"}
           /\ pc'[t] = "stream" \/ pc[t] # "stream" \/ (sub[t] # "recv" /\ prod'[t] # "open")
  PROVE  TxInv'
<1> SUFFICES ASSUME NEW t \in Syncs PROVE Holder(t)' /\ InChannel(t)' /\ InTx(t)'
  BY DEF TxInv
<1>1. Holder(t)'
  BY DEF TxInv, Holder
<1> QED BY <1>1, ChannelFrame, TxFrame

\* Every step preserves what is known of an open transaction.
LEMMA StepTx == TypeOK /\ TxInv /\ FilterInv /\ [Next]_vars => TxInv'
<1> SUFFICES ASSUME TypeOK, TxInv, FilterInv, [Next]_vars PROVE TxInv'
  OBVIOUS
<1>0. /\ pc \in [Syncs -> Labels] /\ prod \in [Syncs -> {"init", "open", "eof", "error"}]
      /\ sub \in [Syncs -> {"init", "recv", "done", "error"}]
      /\ chan \in [Syncs -> Seq(Items)] /\ snap \in [Syncs -> Data] /\ tx \in [Syncs -> Data]
  BY RunTypes
<1> USE <1>0 DEF vars, hubVars, durable, runVars
<1>1. ASSUME NEW k \in Items, HubSet(k) \/ HubDelete(k) PROVE TxInv'
  BY <1>1, PlainStep DEF HubSet, HubDelete
<1>2. ASSUME NEW m \in Manifests, HubSetManifest(m) PROVE TxInv'
  BY <1>2, PlainStep DEF HubSetManifest
<1>3. ASSUME NEW s \in Syncs, NEW m \in RunModes, Start(s, m) PROVE TxInv'
  <2> SUFFICES ASSUME NEW t \in Syncs PROVE Holder(t)' /\ InChannel(t)' /\ InTx(t)'
    BY DEF TxInv
  <2>1. sub[s] # "recv" /\ lock # s
    BY <1>3 DEF Start, TxInv, Holder
  <2>2. CASE t # s
    <3>1. /\ pc'[t] = pc[t] /\ prod'[t] = prod[t] /\ sub'[t] = sub[t] /\ chan'[t] = chan[t]
          /\ snap'[t] = snap[t] /\ tx'[t] = tx[t] /\ UNCHANGED <<lock, edge>>
      BY <1>3, <2>2 DEF Start, Goto
    <3>2. Holder(t)'
      BY <3>1 DEF TxInv, Holder
    <3>3. InChannel(t)'
      BY <3>1 DEF TxInv, InChannel
    <3>4. InTx(t)'
      BY <3>1 DEF TxInv, InTx
    <3> QED BY <3>2, <3>3, <3>4
  <2>3. CASE t = s
    <3>1. prod'[s] = "init" /\ sub'[s] = "init" /\ chan'[s] = << >> /\ lock' = lock
      BY <1>3 DEF Start
    <3> QED BY <2>1, <2>3, <3>1 DEF Holder, InChannel, InTx
  <2> QED BY <2>2, <2>3
<1>4. ASSUME NEW s \in Syncs, GetManifest(s) PROVE TxInv'
  BY <1>4, PlainStep DEF GetManifest, Goto
<1>5. ASSUME NEW s \in Syncs, CompareManifest(s) PROVE TxInv'
  BY <1>5, PlainStep DEF CompareManifest, AfterManifest, Goto
<1>6. ASSUME NEW s \in Syncs, SetManifest(s) PROVE TxInv'
  <2>1. /\ pc[s] = "setManifest" /\ UNCHANGED <<lock, sub, chan, snap, tx, edge, prod>>
        /\ \E l \in {"updateModel", "idle"} : pc' = [pc EXCEPT ![s] = l]
    BY <1>6, Zenon DEF SetManifest, Goto
  <2> QED BY <2>1, PlainStep
<1>7. ASSUME NEW s \in Syncs, UpdateModel(s) PROVE TxInv'
  BY <1>7, PlainStep DEF UpdateModel, AfterManifest, Goto
<1>8. ASSUME NEW s \in Syncs, ProducerOpen(s) PROVE TxInv'
  <2> SUFFICES ASSUME NEW t \in Syncs PROVE Holder(t)' /\ InChannel(t)' /\ InTx(t)'
    BY DEF TxInv
  <2>1. /\ pc[s] = "stream" /\ prod[s] = "init" /\ prod' = [prod EXCEPT ![s] = "open"]
        /\ snap' = [snap EXCEPT ![s] = hub] /\ UNCHANGED <<pc, sub, chan, tx, lock, edge>>
    BY <1>8 DEF ProducerOpen
  <2>2. CASE t # s
    <3>1. prod'[t] = prod[t] /\ snap'[t] = snap[t]
      BY <2>1, <2>2
    <3>2. Holder(t)'
      BY <2>1, <3>1 DEF TxInv, Holder
    <3>3. InChannel(t)'
      BY <2>1, <3>1 DEF TxInv, InChannel
    <3>4. InTx(t)'
      BY <2>1, <3>1 DEF TxInv, InTx
    <3> QED BY <3>2, <3>3, <3>4
  <2>3. CASE t = s
    <3>1. chan[s] = << >> /\ (lock = s => \A k \in Items : tx[s][k] = edge[k])
      BY <2>1 DEF TxInv, InChannel, InTx
    <3>2. prod'[s] = "open"
      BY <2>1
    <3>3. Holder(s)'
      BY <2>1, <3>2 DEF TxInv, Holder
    <3>4. chan'[s] = << >> /\ 1..Len(chan'[s]) = {}
      <4>1. chan'[s] = << >>
        BY <2>1, <3>1
      <4> QED BY <4>1
    <3>5. InChannel(s)'
      BY <3>2, <3>4, Zenon DEF InChannel
    <3>6. InTx(s)'
      BY <2>1, <3>1 DEF InTx
    <3> QED BY <2>3, <3>3, <3>5, <3>6
  <2> QED BY <2>2, <2>3
<1>9. ASSUME NEW s \in Syncs, ProducerSend(s) PROVE TxInv'
  <2> SUFFICES ASSUME NEW t \in Syncs PROVE Holder(t)' /\ InChannel(t)' /\ InTx(t)'
    BY DEF TxInv
  <2>1. /\ prod[s] = "open" /\ UNCHANGED <<pc, prod, sub, snap, tx, lock, edge>>
        /\ \E k \in NextToSend(s) : chan' = [chan EXCEPT ![s] = Append(@, k)]
    BY <1>9 DEF ProducerSend, ChannelFree
  <2>2. PICK k \in NextToSend(s) : chan' = [chan EXCEPT ![s] = Append(@, k)]
    BY <2>1
  <2>3. k \in Items /\ snap[s][k] # 0
    BY <2>1, NextToSendItems DEF FilterInv, Filtered, Present
  <2>4. chan[s] \in Seq(Items) /\ chan'[s] = Append(chan[s], k) /\ (t # s => chan'[t] = chan[t])
    BY <2>2
  <2>5. Holder(t)' /\ InTx(t)'
    BY <2>1 DEF TxInv, Holder, InTx
  <2>6. CASE t # s
    BY <2>1, <2>4, <2>5, <2>6 DEF TxInv, InChannel
  <2>7. CASE t = s
    <3>1. \A i \in 1..Len(chan[s]) : snap[s][chan[s][i]] # 0
      BY <2>1 DEF TxInv, Holder, InChannel
    <3>2. \A i \in 1..Len(chan'[s]) : snap[s][chan'[s][i]] # 0
      <4> SUFFICES ASSUME NEW i \in 1..Len(Append(chan[s], k)) PROVE snap[s][Append(chan[s], k)[i]] # 0
        BY <2>4
      <4>0. Len(chan[s]) \in Nat /\ Len(Append(chan[s], k)) = Len(chan[s]) + 1
        BY <2>3, <2>4
      <4>1. CASE i \in 1..Len(chan[s])
        BY <2>4, <3>1, <4>1
      <4>2. CASE i = Len(chan[s]) + 1
        BY <2>3, <2>4, <4>2
      <4>3. \A n \in Nat : i \in 1..(n + 1) => i \in 1..n \/ i = n + 1
        OBVIOUS
      <4>4. i \in 1..Len(chan[s]) \/ i = Len(chan[s]) + 1
        BY <4>0, <4>3
      <4> QED BY <4>1, <4>2, <4>4, Zenon
    <3> QED BY <2>1, <2>5, <2>7, <3>2 DEF InChannel
  <2> QED BY <2>6, <2>7
<1>10. ASSUME NEW s \in Syncs, ProducerEnd(s) PROVE TxInv'
  BY <1>10, PlainStep DEF ProducerEnd
<1>11. ASSUME NEW s \in Syncs, SubscriberBegin(s) PROVE TxInv'
  <2> SUFFICES ASSUME NEW t \in Syncs PROVE Holder(t)' /\ InChannel(t)' /\ InTx(t)'
    BY DEF TxInv
  <2>1. /\ pc[s] = "stream" /\ lock = None /\ lock' = s /\ tx' = [tx EXCEPT ![s] = edge]
        /\ sub' = [sub EXCEPT ![s] = "recv"] /\ UNCHANGED <<pc, prod, snap, chan, edge>>
    BY <1>11 DEF SubscriberBegin
  <2>2. Holder(t)'
    BY <2>1, ConstantsAssumption DEF TxInv, Holder
  <2>3. InTx(t)'
    BY <2>1 DEF InTx
  <2> QED BY <2>1, <2>2, <2>3, ChannelFrame
<1>12. ASSUME NEW s \in Syncs, SubscriberReceive(s) PROVE TxInv'
  <2> SUFFICES ASSUME NEW t \in Syncs PROVE Holder(t)' /\ InChannel(t)' /\ InTx(t)'
    BY DEF TxInv
  <2> DEFINE h == Head(chan[s])
  <2>1. /\ sub[s] = "recv" /\ chan[s] # << >> /\ chan' = [chan EXCEPT ![s] = Tail(chan[s])]
        /\ tx' = [tx EXCEPT ![s] = SetItem(tx[s], h, snap[s][h], mc)]
        /\ UNCHANGED <<pc, prod, sub, snap, lock, edge>>
    BY <1>12 DEF SubscriberReceive
  <2>2. lock = s /\ pc[s] = "stream"
    BY <2>1 DEF TxInv, Holder
  <2>3. chan[s] \in Seq(Items) /\ chan'[s] = Tail(chan[s])
        /\ (t # s => chan'[t] = chan[t] /\ tx'[t] = tx[t])
    BY <2>1
  <2>4. (\A i \in 1..Len(chan[s]) : snap[s][chan[s][i]] # 0) /\ prod[s] # "init"
    BY <2>1, <2>2 DEF TxInv, InChannel
  <2>5. h \in Items /\ h = chan[s][1] /\ 1 \in 1..Len(chan[s])
    BY <2>1, <2>3
  <2>6. \A i \in 1..Len(chan'[s]) : snap[s][chan'[s][i]] # 0
    <3> SUFFICES ASSUME NEW i \in 1..Len(Tail(chan[s])) PROVE snap[s][Tail(chan[s])[i]] # 0
      BY <2>3
    <3>1. i + 1 \in 1..Len(chan[s]) /\ Tail(chan[s])[i] = chan[s][i + 1]
      BY <2>1, <2>3
    <3> QED BY <2>4, <3>1
  <2>7. Holder(t)'
    BY <2>1 DEF TxInv, Holder
  <2>8. CASE t # s
    <3>1. InChannel(t)'
      <4>1. InChannel(t) /\ chan'[t] = chan[t]
        BY <2>3, <2>8 DEF TxInv
      <4> QED BY <2>1, <4>1 DEF InChannel
    <3>2. InTx(t)'
      BY <2>1, <2>2, <2>8 DEF InTx
    <3> QED BY <2>7, <3>1, <3>2
  <2>9. CASE t = s
    <3>1. InChannel(s)'
      BY <2>1, <2>4, <2>6 DEF InChannel
    <3>2. tx[s] \in [Items -> Nat] /\ tx'[s] = SetItem(tx[s], h, snap[s][h], mc)
      BY <2>1 DEF Data
    <3>3. \A k \in Items : tx'[s][k] = tx[s][k] \/ (k = h /\ tx'[s][k] = snap[s][h])
      BY <2>5, <3>2 DEF SetItem
    <3>4. snap[s][h] # 0
      BY <2>4, <2>5
    <3>5. \A k \in Items : tx[s][k] = edge[k] \/ (tx[s][k] = snap[s][k] /\ snap[s][k] # 0)
      BY <2>2 DEF TxInv, InTx
    <3>6. InTx(s)'
      BY <2>1, <2>4, <3>3, <3>4, <3>5 DEF InTx
    <3> QED BY <2>7, <2>9, <3>1, <3>6
  <2> QED BY <2>8, <2>9
<1>13. ASSUME NEW s \in Syncs, SubscriberCommit(s) \/ CommitFails(s) PROVE TxInv'
  <2> SUFFICES ASSUME NEW t \in Syncs PROVE Holder(t)' /\ InChannel(t)' /\ InTx(t)'
    BY DEF TxInv
  <2>1. /\ sub[s] = "recv" /\ lock' = None /\ UNCHANGED <<pc, prod, snap, chan, tx>>
        /\ \E r \in {"done", "error"} : sub' = [sub EXCEPT ![s] = r]
    BY <1>13 DEF SubscriberCommit, CommitFails
  <2>2. lock = s
    BY <2>1 DEF TxInv, Holder
  <2>3. Holder(t)'
    BY <2>1, <2>2, ConstantsAssumption DEF TxInv, Holder
  <2>4. InTx(t)'
    BY <2>1, ConstantsAssumption DEF InTx
  <2> QED BY <2>1, <2>3, <2>4, ChannelFrame
<1>14. ASSUME NEW s \in Syncs, Wait(s) PROVE TxInv'
  BY <1>14, PlainStep DEF Wait, Finished, Closed, AfterStream, Goto
<1>15. ASSUME NEW s \in Syncs, Diff(s) PROVE TxInv'
  <2> SUFFICES ASSUME NEW t \in Syncs PROVE Holder(t)' /\ InChannel(t)' /\ InTx(t)'
    BY DEF TxInv
  <2>1. /\ lock = None /\ UNCHANGED <<lock, sub, prod, chan, snap>>
        /\ pc[s] = "diff" /\ pc' = [pc EXCEPT ![s] = "watermark"]
    BY <1>15 DEF Diff, Goto
  <2>2. Holder(t)'
    BY <2>1 DEF TxInv, Holder
  <2>3. InTx(t)'
    BY <2>1, ConstantsAssumption DEF InTx
  <2> QED BY <2>1, <2>2, <2>3, ChannelFrame
<1>16. ASSUME NEW s \in Syncs, TruncateWatermark(s) PROVE TxInv'
  BY <1>16, PlainStep DEF TruncateWatermark, Goto
<1>17. ASSUME NEW s \in Syncs, WriteWatermark(s) PROVE TxInv'
  BY <1>17, PlainStep DEF WriteWatermark, Goto
<1>18. ASSUME NEW s \in Syncs, StreamFails(s) PROVE TxInv'
  BY <1>18, PlainStep DEF StreamFails
<1>19. ASSUME NEW s \in Syncs, StageFails(s) PROVE TxInv'
  BY <1>19, PlainStep DEF StageFails, Goto
<1>20. CASE Crash
  <2> SUFFICES ASSUME NEW t \in Syncs PROVE Holder(t)' /\ InChannel(t)' /\ InTx(t)'
    BY DEF TxInv
  <2>1. lock' = None /\ lock' # t /\ pc'[t] = "idle" /\ sub'[t] = "init" /\ prod'[t] = "init"
    BY <1>20, ConstantsAssumption DEF Crash
  <2> QED BY <2>1 DEF Holder, InChannel, InTx
<1>21. CASE UNCHANGED vars
  BY <1>21, PlainStep
<1>22. ASSUME NEW s \in Syncs, BatchFails(s) PROVE TxInv'
  <2> SUFFICES ASSUME NEW t \in Syncs PROVE Holder(t)' /\ InChannel(t)' /\ InTx(t)'
    BY DEF TxInv
  <2>1. /\ sub[s] = "init" /\ sub' = [sub EXCEPT ![s] = "error"]
        /\ UNCHANGED <<pc, lock, edge, prod, snap, chan, tx>>
    BY <1>22 DEF BatchFails
  <2>2. Holder(t)'
    BY <2>1 DEF TxInv, Holder
  <2>3. InTx(t)'
    BY <2>1 DEF TxInv, InTx
  <2> QED BY <2>1, <2>2, <2>3, ChannelFrame
<1> QED
  BY <1>1, <1>2, <1>3, <1>4, <1>5, <1>6, <1>7, <1>8, <1>9, <1>10, <1>11, <1>12, <1>13, <1>14,
     <1>15, <1>16, <1>17, <1>18, <1>19, <1>20, <1>21, <1>22
  DEF Next, HubStep, SyncStep, Proceed

-----------------------------------------------------------------------------
(* The filter invariant, for a filter that is large enough.                *)

\* A filter of at least the minimal size takes any item: nothing is displaced.
LEMMA InsertFits ==
  ASSUME FilterFits, NEW f \in SUBSET Items, NEW k \in Items,
         NEW c \in Nat, c >= InitFilterSize
  PROVE  Insert(f, c, k) = {f \cup {k}}
<1>1. CASE k \in f
  BY <1>1 DEF Insert
<1>2. CASE k \notin f
  <2>1. /\ IsFiniteSet(f) /\ IsFiniteSet(Items)
        /\ Cardinality(f) \in Nat /\ Cardinality(Items) \in Nat
    BY ConstantsAssumption, FS_Subset, FS_CardinalityType
  <2>2. Cardinality(f \cup {k}) = Cardinality(f) + 1
    BY <1>2, <2>1, FS_AddElement
  <2>3. Cardinality(f \cup {k}) <= Cardinality(Items)
    BY <2>1, FS_Subset
  <2>4. Cardinality(f) < c
    BY <2>1, <2>2, <2>3, ConstantsAssumption DEF FilterFits
  <2> QED BY <2>4 DEF Insert
<1> QED BY <1>1, <1>2

\* No filter is in use initially.
LEMMA InitFilter == Init => FilterInv
  BY DEF Init, FilterInv, Filtered, Has

\* A step that leaves a run's export, filter and mode alone keeps what its
\* filter knows, unless it enters the diff stage or ends the producer well.
LEMMA FilterFrame ==
  ASSUME FilterInv, UNCHANGED <<mode, snap, todo, filter, capacity>>,
         \A t \in Syncs : /\ prod'[t] = prod[t] \/ (prod'[t] = "error" /\ pc'[t] # "diff")
                          /\ pc'[t] = "diff" => pc[t] = "diff"
  PROVE  FilterInv'
<1> SUFFICES ASSUME NEW t \in Syncs PROVE Filtered(t)'
  BY DEF FilterInv
<1>1. Filtered(t) /\ Has(t, "Diff")' = Has(t, "Diff")
  BY DEF FilterInv, Has
<1>2. CASE prod'[t] = prod[t]
  BY <1>1, <1>2 DEF Filtered
<1>3. CASE prod'[t] = "error" /\ pc'[t] # "diff"
  BY <1>1, <1>3 DEF Filtered
<1> QED BY <1>2, <1>3

\* Runs other than the one that takes a step keep what their filters know.
LEMMA FilterOther ==
  ASSUME FilterInv, NEW t \in Syncs, pc'[t] = pc[t], prod'[t] = prod[t], mode'[t] = mode[t],
         snap'[t] = snap[t], todo'[t] = todo[t], filter'[t] = filter[t],
         capacity'[t] = capacity[t]
  PROVE  Filtered(t)'
<1>1. Filtered(t) /\ Has(t, "Diff")' = Has(t, "Diff")
  BY DEF FilterInv, Has
<1> QED BY <1>1 DEF Filtered

\* With a filter that takes every item, every step preserves what a filter knows.
LEMMA StepFilter ==
  ASSUME FilterFits, TypeOK, TxInv, FilterInv, [Next]_vars
  PROVE  FilterInv'
<1>0. /\ pc \in [Syncs -> Labels] /\ prod \in [Syncs -> {"init", "open", "eof", "error"}]
      /\ mode \in [Syncs -> SUBSET {"Manifest", "Full", "Diff", "Watermark"}]
      /\ snap \in [Syncs -> Data] /\ todo \in [Syncs -> SUBSET Items]
      /\ filter \in [Syncs -> SUBSET Items] /\ capacity \in [Syncs -> Nat]
  BY DEF TypeOK
<1> USE <1>0 DEF vars, hubVars, durable, runVars
<1>1. ASSUME NEW k \in Items, HubSet(k) \/ HubDelete(k) PROVE FilterInv'
  BY <1>1, FilterFrame DEF HubSet, HubDelete
<1>2. ASSUME NEW m \in Manifests, HubSetManifest(m) PROVE FilterInv'
  BY <1>2, FilterFrame DEF HubSetManifest
<1>3. ASSUME NEW s \in Syncs, NEW m \in RunModes, Start(s, m) PROVE FilterInv'
  <2> SUFFICES ASSUME NEW t \in Syncs PROVE Filtered(t)'
    BY DEF FilterInv
  <2>1. CASE t # s
    BY <1>3, <2>1, FilterOther DEF Start, Goto
  <2>2. CASE t = s
    <3>1. prod'[s] = "init" /\ pc'[s] # "diff"
      BY <1>3 DEF Start, Goto
    <3> QED BY <2>2, <3>1 DEF Filtered
  <2> QED BY <2>1, <2>2
<1>4. ASSUME NEW s \in Syncs, GetManifest(s) PROVE FilterInv'
  BY <1>4, FilterFrame DEF GetManifest, Goto
<1>5. ASSUME NEW s \in Syncs, CompareManifest(s) PROVE FilterInv'
  BY <1>5, FilterFrame DEF CompareManifest, AfterManifest, Goto
<1>6. ASSUME NEW s \in Syncs, SetManifest(s) PROVE FilterInv'
  <2>1. /\ UNCHANGED <<mode, snap, todo, filter, capacity, prod>>
        /\ \E l \in {"updateModel", "idle"} : pc' = [pc EXCEPT ![s] = l]
    BY <1>6, Zenon DEF SetManifest, Goto
  <2> QED BY <2>1, FilterFrame
<1>7. ASSUME NEW s \in Syncs, UpdateModel(s) PROVE FilterInv'
  BY <1>7, FilterFrame DEF UpdateModel, AfterManifest, Goto
<1>8. ASSUME NEW s \in Syncs, ProducerOpen(s) PROVE FilterInv'
  <2> SUFFICES ASSUME NEW t \in Syncs PROVE Filtered(t)'
    BY DEF FilterInv
  <2>1. CASE t # s
    BY <1>8, <2>1, FilterOther DEF ProducerOpen
  <2>2. CASE t = s
    <3>1. FilterSize(wmCount) >= InitFilterSize
      BY FilterSizeBound DEF TypeOK
    <3>2. /\ snap'[s] = hub /\ todo'[s] = Present(hub) /\ prod'[s] = "open"
          /\ pc'[s] = "stream" /\ mode' = mode
          /\ Has(s, "Diff") => capacity'[s] = FilterSize(wmCount)
      BY <1>8 DEF ProducerOpen
    <3>3. Present(snap'[s]) = Present(hub) /\ Has(s, "Diff")' = Has(s, "Diff")
      BY <3>2 DEF Has
    <3>4. Present(snap[s])' = Present(snap'[s])
      BY DEF Present
    <3> QED BY <2>2, <3>1, <3>2, <3>3, <3>4 DEF Filtered
  <2> QED BY <2>1, <2>2
<1>9. ASSUME NEW s \in Syncs, ProducerSend(s) PROVE FilterInv'
  <2> SUFFICES ASSUME NEW t \in Syncs PROVE Filtered(t)'
    BY DEF FilterInv
  <2>1. PICK k \in NextToSend(s) :
          /\ IF Has(s, "Diff")
             THEN \E f \in Insert(filter[s], capacity[s], k) :
                    filter' = [filter EXCEPT ![s] = f]
             ELSE UNCHANGED filter
          /\ todo' = [todo EXCEPT ![s] = @ \ {k}]
    BY <1>9 DEF ProducerSend, ChannelFree
  <2>2. prod[s] = "open" /\ UNCHANGED <<pc, mode, prod, snap, capacity>>
    BY <1>9 DEF ProducerSend, ChannelFree
  <2>3. k \in Items /\ Filtered(s) /\ Has(s, "Diff")' = Has(s, "Diff")
        /\ Present(snap[s])' = Present(snap[s])
    BY <2>2, NextToSendItems DEF FilterInv, Has, Present
  <2>4. todo'[s] = todo[s] \ {k} /\ (t # s => todo'[t] = todo[t])
    BY <2>1
  <2>5. CASE Has(s, "Diff")
    <3>1. capacity[s] \in Nat /\ capacity[s] >= InitFilterSize /\ filter[s] \in SUBSET Items
      BY <2>2, <2>3, <2>5 DEF Filtered
    <3>2. Insert(filter[s], capacity[s], k) = {filter[s] \cup {k}}
      BY <2>3, <3>1, InsertFits
    <3>3. filter' = [filter EXCEPT ![s] = filter[s] \cup {k}]
      BY <2>1, <2>5, <3>2
    <3>4. filter'[s] = filter[s] \cup {k} /\ (t # s => filter'[t] = filter[t])
      BY <3>3
    <3>5. CASE t # s
      BY <2>2, <2>4, <3>4, <3>5, FilterOther
    <3>6. CASE t = s
      BY <2>2, <2>3, <2>4, <3>4, <3>6 DEF Filtered
    <3> QED BY <3>5, <3>6
  <2>6. CASE ~Has(s, "Diff")
    <3>1. UNCHANGED filter
      BY <2>1, <2>6
    <3>2. CASE t # s
      BY <2>2, <2>4, <3>1, <3>2, FilterOther
    <3>3. CASE t = s
      BY <2>2, <2>3, <2>4, <2>6, <3>3 DEF Filtered
    <3> QED BY <3>2, <3>3
  <2> QED BY <2>5, <2>6
<1>10. ASSUME NEW s \in Syncs, ProducerEnd(s) PROVE FilterInv'
  <2> SUFFICES ASSUME NEW t \in Syncs PROVE Filtered(t)'
    BY DEF FilterInv
  <2>1. /\ prod[s] = "open" /\ todo[s] = {} /\ prod'[s] = "eof" /\ (t # s => prod'[t] = prod[t])
        /\ UNCHANGED <<pc, mode, snap, todo, filter, capacity>>
    BY <1>10 DEF ProducerEnd
  <2>2. CASE t # s
    BY <2>1, <2>2, FilterOther
  <2>3. CASE t = s
    <3>1. /\ Filtered(s) /\ Has(s, "Diff")' = Has(s, "Diff")
          /\ Present(snap[s])' = Present(snap[s])
      BY <2>1 DEF FilterInv, Has, Present
    <3> QED BY <2>1, <2>3, <3>1 DEF Filtered
  <2> QED BY <2>2, <2>3
<1>11. ASSUME NEW s \in Syncs, SubscriberBegin(s) \/ SubscriberReceive(s) \/ SubscriberCommit(s)
       PROVE  FilterInv'
  BY <1>11, FilterFrame DEF SubscriberBegin, SubscriberReceive, SubscriberCommit, Closed
<1>12. ASSUME NEW s \in Syncs, Wait(s) PROVE FilterInv'
  <2> SUFFICES ASSUME NEW t \in Syncs PROVE Filtered(t)'
    BY DEF FilterInv
  <2>1. /\ UNCHANGED <<prod, mode, snap, todo, filter, capacity>>
        /\ pc' = [pc EXCEPT ![s] = AfterStream(s)] /\ prod[s] \in {"eof", "error"}
    BY <1>12 DEF Wait, Finished, Closed, Goto
  <2>2. CASE t # s
    BY <2>1, <2>2, FilterOther
  <2>3. CASE t = s
    <3>1. /\ Filtered(s) /\ Has(s, "Diff")' = Has(s, "Diff")
          /\ Present(snap[s])' = Present(snap[s])
      BY <2>1 DEF FilterInv, Has, Present
    <3>2. pc'[s] = "diff" => Has(s, "Diff") /\ prod[s] = "eof"
      BY <2>1 DEF AfterStream
    <3> QED BY <2>1, <2>3, <3>1, <3>2 DEF Filtered
  <2> QED BY <2>2, <2>3
<1>13. ASSUME NEW s \in Syncs, Diff(s) PROVE FilterInv'
  BY <1>13, FilterFrame DEF Diff, Goto
<1>14. ASSUME NEW s \in Syncs, TruncateWatermark(s) PROVE FilterInv'
  BY <1>14, FilterFrame DEF TruncateWatermark, Goto
<1>15. ASSUME NEW s \in Syncs, WriteWatermark(s) PROVE FilterInv'
  BY <1>15, FilterFrame DEF WriteWatermark, Goto
<1>16. ASSUME NEW s \in Syncs, StreamFails(s) PROVE FilterInv'
  BY <1>16, FilterFrame DEF StreamFails
<1>17. ASSUME NEW s \in Syncs, CommitFails(s) \/ BatchFails(s) PROVE FilterInv'
  BY <1>17, FilterFrame DEF CommitFails, BatchFails, Closed
<1>18. ASSUME NEW s \in Syncs, StageFails(s) PROVE FilterInv'
  BY <1>18, FilterFrame DEF StageFails, Goto
<1>19. CASE Crash
  BY <1>19 DEF Crash, FilterInv, Filtered, Has
<1>20. CASE UNCHANGED vars
  BY <1>20, FilterFrame
<1> QED
  BY <1>1, <1>2, <1>3, <1>4, <1>5, <1>6, <1>7, <1>8, <1>9, <1>10, <1>11, <1>12, <1>13, <1>14,
     <1>15, <1>16, <1>17, <1>18, <1>19, <1>20
  DEF Next, HubStep, SyncStep, Proceed

IInv == TypeOK /\ TxInv /\ FilterInv

\* The inductive invariant of the replication: types, the isolation of the
\* subscriber's transaction and the completeness of the diff filter.
THEOREM Invariants ==
  ASSUME FilterFits
  PROVE  Spec => [](TypeOK /\ TxInv /\ FilterInv)
<1>1. Init => IInv
  BY InitType, InitTx, InitFilter DEF IInv
<1>2. IInv /\ [Next]_vars => IInv'
  BY StepType, StepTx, StepFilter DEF IInv
<1> QED BY <1>1, <1>2, PTL DEF Spec, IInv

-----------------------------------------------------------------------------
(* Refinement: every step is a step of Replica, or changes none of its state. *)

\* Initial states are initial states of a Replica.
LEMMA RefineInit == Init => R!Init
<1> SUFFICES ASSUME Init PROVE R!Init
  OBVIOUS
<1>1. hub \in [Items -> Nat]
  <2>1. hub \in [Items -> {0, 1}]
    BY DEF Init
  <2> QED BY <2>1
<1>2. edge = Absent /\ snap = [s \in Syncs |-> Absent]
  BY DEF Init
<1>3. Absent = R!Nothing
  BY DEF Absent, R!Nothing
<1> QED BY <1>1, <1>2, <1>3 DEF R!Init

\* Every step of a sync run, the hub or a fault is a step of a Replica or
\* leaves its variables alone.
LEMMA RefineStep ==
  ASSUME IInv, [Next]_vars
  PROVE  [R!Next]_(R!vars)
<1> USE DEF IInv, vars, hubVars, durable, runVars
<1>1. ASSUME NEW k \in Items, HubSet(k) PROVE R!HubChange
  <2>1. hub' \in [Items -> Nat]
    BY <1>1, StepType DEF TypeOK, Data
  <2> QED BY <1>1, <2>1 DEF HubSet, R!HubChange
<1>2. ASSUME NEW k \in Items, HubDelete(k) PROVE R!HubChange
  <2>1. hub' \in [Items -> Nat]
    BY <1>2, StepType DEF TypeOK, Data
  <2> QED BY <1>2, <2>1 DEF HubDelete, R!HubChange
<1>3. ASSUME NEW m \in Manifests, HubSetManifest(m) PROVE UNCHANGED R!vars
  BY <1>3 DEF HubSetManifest, R!vars
<1>4. ASSUME NEW s \in Syncs, NEW m \in RunModes, Start(s, m) PROVE R!Forget(s)
  BY <1>4 DEF Start, R!Forget, Absent, R!Nothing
<1>5. ASSUME NEW s \in Syncs, GetManifest(s) \/ CompareManifest(s) \/ SetManifest(s) \/ UpdateModel(s)
      PROVE  UNCHANGED R!vars
  BY <1>5 DEF GetManifest, CompareManifest, SetManifest, UpdateModel, R!vars
<1>6. ASSUME NEW s \in Syncs, ProducerOpen(s) PROVE R!Take(s)
  BY <1>6 DEF ProducerOpen, R!Take
<1>7. ASSUME NEW s \in Syncs, ProducerSend(s) \/ ProducerEnd(s) \/ SubscriberBegin(s)
                              \/ SubscriberReceive(s) \/ Wait(s)
      PROVE  UNCHANGED R!vars
  BY <1>7 DEF ProducerSend, ChannelFree, ProducerEnd, SubscriberBegin, SubscriberReceive, Wait, Finished, Closed, AfterStream, R!vars
<1>8. ASSUME NEW s \in Syncs, SubscriberCommit(s) PROVE R!Upsert(s)
  <2> DEFINE K == {k \in Items : tx[s][k] # edge[k]}
  <2>1. lock = s /\ edge' = tx[s] /\ tx[s] \in Data /\ UNCHANGED <<hub, snap>>
    BY <1>8 DEF SubscriberCommit, Closed, TxInv, Holder, TypeOK
  <2>2. \A k \in K : tx[s][k] = snap[s][k] /\ snap[s][k] # 0
    BY <2>1 DEF TxInv, InTx
  <2>3. K \in SUBSET {k \in Items : snap[s][k] # 0}
    BY <2>2
  <2>4. edge' = [k \in Items |-> IF k \in K THEN snap[s][k] ELSE edge[k]]
    BY <2>1, <2>2 DEF Data
  <2> QED BY <2>1, <2>3, <2>4 DEF R!Upsert
<1>9. ASSUME NEW s \in Syncs, Diff(s) PROVE R!Remove(s)
  <2>1. PICK hit : edge' = Prune(edge, Stale(edge, filter[s]) \ hit, mc)
    BY <1>9 DEF Diff
  <2> DEFINE K == (Stale(edge, filter[s]) \ hit) \cap Admitted(mc)
  <2>2. Present(snap[s]) \subseteq filter[s]
    BY <1>9 DEF Diff, FilterInv, Filtered
  <2>3. K \in SUBSET {k \in Items : snap[s][k] = 0}
    BY <2>2 DEF Stale, Present
  <2>4. edge' = [k \in Items |-> IF k \in K THEN 0 ELSE edge[k]]
    BY <2>1 DEF Prune
  <2>5. UNCHANGED <<hub, snap>>
    BY <1>9 DEF Diff
  <2> QED BY <2>3, <2>4, <2>5 DEF R!Remove
<1>10. ASSUME NEW s \in Syncs, TruncateWatermark(s) \/ WriteWatermark(s) \/ StreamFails(s)
                               \/ BatchFails(s) \/ CommitFails(s) \/ StageFails(s)
       PROVE  UNCHANGED R!vars
  BY <1>10 DEF TruncateWatermark, WriteWatermark, StreamFails, BatchFails, CommitFails, Closed, StageFails, R!vars
<1>11. CASE Crash
  BY <1>11 DEF Crash, R!vars
<1>12. CASE UNCHANGED vars
  BY <1>12 DEF R!vars
<1> QED
  BY <1>1, <1>2, <1>3, <1>4, <1>5, <1>6, <1>7, <1>8, <1>9, <1>10, <1>11, <1>12
  DEF Next, HubStep, SyncStep, Proceed, R!Next

\* Replication with a large enough filter implements its abstract
\* specification: every committed change of the edge writes items of a hub
\* state that the run has read, or removes items which that state lacks.
THEOREM Refinement ==
  ASSUME FilterFits
  PROVE  Spec => ReplicaSpec
<1>1. Spec => []IInv
  BY Invariants DEF IInv
<1>2. IInv /\ [Next]_vars => [R!Next]_(R!vars)
  BY RefineStep
<1> QED BY <1>1, <1>2, RefineInit, PTL DEF Spec, ReplicaSpec, R!Spec

\* A step that removes an item from the edge is the diff stage of a run whose
\* complete export lacks the item.
LEMMA StepDeletes ==
  ASSUME IInv, [Next]_vars
  PROVE  \A k \in Items : edge[k] # 0 /\ edge'[k] = 0 =>
           \E s \in Syncs : /\ pc[s] = "diff" /\ Has(s, "Diff") /\ prod[s] = "eof"
                            /\ snap[s][k] = 0
<1> USE DEF IInv, vars, hubVars, durable, runVars
<1> SUFFICES ASSUME NEW k \in Items, edge[k] # 0, edge'[k] = 0
             PROVE  \E s \in Syncs : /\ pc[s] = "diff" /\ Has(s, "Diff") /\ prod[s] = "eof"
                                     /\ snap[s][k] = 0
  OBVIOUS
<1>1. ASSUME NEW s \in Syncs, SubscriberCommit(s) PROVE FALSE
  BY <1>1 DEF SubscriberCommit, Closed, TxInv, Holder, InTx
<1>2. ASSUME NEW s \in Syncs, Diff(s)
      PROVE  pc[s] = "diff" /\ Has(s, "Diff") /\ prod[s] = "eof" /\ snap[s][k] = 0
  <2>1. PICK hit : edge' = Prune(edge, Stale(edge, filter[s]) \ hit, mc)
    BY <1>2 DEF Diff
  <2>2. k \in Stale(edge, filter[s])
    BY <2>1 DEF Prune
  <2> QED BY <1>2, <2>2 DEF Diff, FilterInv, Filtered, Stale, Present
<1>3. CASE UNCHANGED edge
  BY <1>3
<1>4. CASE HubStep
  BY <1>3, <1>4 DEF HubStep, HubSet, HubDelete, HubSetManifest
<1>5. ASSUME NEW s \in Syncs, NEW m \in RunModes, Start(s, m) PROVE UNCHANGED edge
  BY <1>5 DEF Start
<1>6. ASSUME NEW s \in Syncs, GetManifest(s) \/ CompareManifest(s) \/ SetManifest(s) \/ UpdateModel(s)
      PROVE  UNCHANGED edge
  BY <1>6 DEF GetManifest, CompareManifest, SetManifest, UpdateModel
<1>7. ASSUME NEW s \in Syncs, ProducerOpen(s) \/ ProducerSend(s) \/ ProducerEnd(s)
                              \/ SubscriberBegin(s) \/ SubscriberReceive(s) \/ Wait(s)
      PROVE  UNCHANGED edge
  BY <1>7 DEF ProducerOpen, ProducerSend, ProducerEnd, SubscriberBegin, SubscriberReceive, Wait
<1>8. ASSUME NEW s \in Syncs, TruncateWatermark(s) \/ WriteWatermark(s) \/ StreamFails(s)
                              \/ BatchFails(s) \/ CommitFails(s) \/ StageFails(s)
      PROVE  UNCHANGED edge
  BY <1>8 DEF TruncateWatermark, WriteWatermark, StreamFails, BatchFails, CommitFails, StageFails
<1>9. CASE Crash \/ UNCHANGED vars
  BY <1>3, <1>9 DEF Crash
<1> QED BY <1>1, <1>2, <1>3, <1>4, <1>5, <1>6, <1>7, <1>8, <1>9 DEF Next, SyncStep, Proceed

\* With a large enough filter an item disappears from the edge only in the
\* diff stage of a run that received its whole export without the item.
THEOREM DeletionSafety ==
  ASSUME FilterFits
  PROVE  Spec => DeletesOnlyAbsent
<1>1. Spec => []IInv
  BY Invariants DEF IInv
<1> QED BY <1>1, StepDeletes, PTL DEF Spec, DeletesOnlyAbsent
=============================================================================
