--------------------------- MODULE DirectoryProofs --------------------------
(***************************************************************************)
(* Proofs about Directory, for every set of clients, keys and contents.    *)
(***************************************************************************)
EXTENDS MCDirectoryRequests, TLAPS

\* A request has the fields of its operation.
LEMMA RequestShape ==
  ASSUME NEW r \in Requests
  PROVE  /\ r.op = "SetObject" => r \in SetObjectRequest
         /\ r.op = "DeleteObject" => r \in DeleteObjectRequest
         /\ r.op \in {"SetRelation", "DeleteRelation"} => r \in RelationRequest
         /\ r.op = "SetManifest" => r \in SetManifestRequest
BY DEF Requests, SetObjectRequest, DeleteObjectRequest, RelationRequest, SetManifestRequest,
       DeleteManifestRequest

\* None, the mark of a client without request, is no request.
LEMMA WriteRequest ==
  ASSUME TypeOK, NEW c \in Clients, pc[c] # "idle"
  PROVE  req[c] \in Requests
BY DEF TypeOK

\* Type correctness of the initial states.
LEMMA InitType == Init => TypeOK
BY DirectoryAssumption DEF Init, TypeOK, Stored, ManifestEtags, NotScanned

\* Every step preserves the types.
LEMMA StepType == TypeOK /\ [Next]_vars => TypeOK'
<1> SUFFICES ASSUME TypeOK, [Next]_vars PROVE TypeOK'
  OBVIOUS
<1> USE DirectoryAssumption
<1>1. ASSUME NEW c \in Clients, NEW r \in Requests, Accept(c, r) PROVE TypeOK'
  BY <1>1 DEF Accept, TypeOK, store
<1>2. ASSUME NEW c \in Clients, Begin(c) PROVE TypeOK'
  <2>1. CASE Proceeds(req[c])
    <3>1. req[c] \in Requests
      BY <1>2, WriteRequest DEF Begin
    <3>2. req[c].op \in {"SetObject", "DeleteObject"} => req[c].key \in Objects
      BY <3>1, RequestShape DEF SetObjectRequest, DeleteObjectRequest
    <3>3. found' \in [Clients -> [scans : 0..2, rels : SUBSET Relations]]
      BY <1>2, <2>1 DEF Begin, TypeOK, NotScanned
    <3>4. seen' \in [Clients -> Contents \cup {None}]
      BY <1>2, <2>1, <3>2 DEF Begin, TypeOK
    <3> QED BY <1>2, <2>1, <3>3, <3>4 DEF Begin, TypeOK, store
  <2>2. CASE ~Proceeds(req[c])
    BY <1>2, <2>2 DEF Begin, TypeOK, store
  <2> QED BY <2>1, <2>2
<1>3. ASSUME NEW c \in Clients, SetObject(c) PROVE TypeOK'
  <2>1. req[c] \in SetObjectRequest
    BY <1>3, WriteRequest, RequestShape DEF SetObject
  <2> QED BY <1>3, <2>1 DEF SetObject, Finish, Release, TypeOK, SetObjectRequest
<1>4. ASSUME NEW c \in Clients, DeleteObject(c) PROVE TypeOK'
  BY <1>4 DEF DeleteObject, Erase, Finish, Release, TypeOK
<1>12. ASSUME NEW c \in Clients, DeleteRelationsWithPrefix(c) PROVE TypeOK'
  <2>1. found[c].scans + 1 \in 0..2
    BY <1>12 DEF DeleteRelationsWithPrefix, TypeOK
  <2>2. \A scan : RelationsOf(req[c].key, scan) \subseteq Relations
    BY DEF RelationsOf, TypeOK
  <2>3. found' \in [Clients -> [scans : 0..2, rels : SUBSET Relations]]
    BY <1>12, <2>1, <2>2 DEF DeleteRelationsWithPrefix, TypeOK
  <2> QED BY <1>12, <2>3 DEF DeleteRelationsWithPrefix, TypeOK, store
<1>5. ASSUME NEW c \in Clients, SetRelation(c) \/ DeleteRelation(c) PROVE TypeOK'
  <2>1. req[c] \in RelationRequest
    BY <1>5, WriteRequest, RequestShape DEF SetRelation, StoreRelation, DeleteRelation, Erase
  <2> QED BY <1>5, <2>1 DEF SetRelation, StoreRelation, DeleteRelation, Erase, Finish, Release, TypeOK, RelationRequest
<1>6. ASSUME NEW c \in Clients, SetManifest(c) PROVE TypeOK'
  <2>1. req[c] \in SetManifestRequest
    BY <1>6, WriteRequest, RequestShape DEF SetManifest
  <2> QED BY <1>6, <2>1 DEF SetManifest, Release, TypeOK, SetManifestRequest, Stored, ManifestEtags
<1>7. ASSUME NEW c \in Clients, UpdateModel(c) PROVE TypeOK'
  <2>1. req[c] \in SetManifestRequest
    BY <1>7, WriteRequest, RequestShape DEF UpdateModel, TypeOK
  <2> QED BY <1>7, <2>1 DEF UpdateModel, TypeOK, SetManifestRequest, Stored, ManifestEtags, store
<1>8. ASSUME NEW c \in Clients, DeleteManifest(c) PROVE TypeOK'
  BY <1>8 DEF DeleteManifest, Wipe, Finish, Release, TypeOK, Stored, ManifestEtags
<1>9. ASSUME NEW c \in Clients, Abort(c) PROVE TypeOK'
  BY <1>9 DEF Abort, AfterAbort, Fault, Release, TypeOK, store
<1>10. CASE Restart
  BY <1>10 DEF Restart, LoadModel, Fault, TypeOK, store
<1>11. CASE UNCHANGED vars
  BY <1>11 DEF vars, store, TypeOK
<1> QED BY <1>1, <1>2, <1>3, <1>4, <1>5, <1>6, <1>7, <1>8, <1>9, <1>10, <1>11, <1>12 DEF Next, Write

\* The initial states have empty indexes and no transaction under way.
LEMMA InitSafe == Init => IndexesAgree /\ TxInv
BY DEF Init, IndexesAgree, TxInv

\* Every step keeps the two indexes equal.
LEMMA StepIndexes == TypeOK /\ IndexesAgree /\ [Next]_vars => IndexesAgree'
<1> SUFFICES ASSUME TypeOK, IndexesAgree, [Next]_vars PROVE IndexesAgree'
  OBVIOUS
<1> USE DEF IndexesAgree
<1>1. ASSUME NEW c \in Clients, Write(c) PROVE IndexesAgree'
  BY <1>1 DEF Write, SetObject, DeleteRelationsWithPrefix, DeleteObject, Erase, SetRelation, StoreRelation, DeleteRelation,
              SetManifest, UpdateModel, DeleteManifest, Wipe, store
<1>2. ASSUME NEW c \in Clients, NEW r \in Requests, Accept(c, r) PROVE IndexesAgree'
  BY <1>2 DEF Accept, store
<1>3. ASSUME NEW c \in Clients, Begin(c) \/ Abort(c) PROVE IndexesAgree'
  BY <1>3 DEF Begin, Abort, store
<1>4. CASE Restart \/ UNCHANGED vars
  BY <1>4 DEF Restart, LoadModel, vars, store
<1> QED BY <1>1, <1>2, <1>3, <1>4 DEF Next

\* What TxInv says of one transaction.
TxHolds(c) ==
  /\ lock = c
  /\ req[c].op \in {"SetObject", "DeleteObject"} =>
       seen[c] = objects[req[c].key] /\ Matches(req[c], seen[c])
  /\ req[c].op = "DeleteObject" /\ req[c].withRelations =>
       \A scan \in 1..found[c].scans : RelationsOf(req[c].key, scan) \subseteq found[c].rels

\* Every step keeps what a serialised transaction has read current.
LEMMA StepTx == TypeOK /\ TypeOK' /\ TxInv /\ [Next]_vars => TxInv'
<1> SUFFICES ASSUME TypeOK, TypeOK', TxInv, [Next]_vars, Serial,
                    NEW d \in Clients, pc'[d] = "write"
             PROVE  TxHolds(d)'
  BY DEF TxInv, TxHolds
<1> USE DirectoryAssumption
<1>0. ASSUME pc[d] = "write", UNCHANGED <<lock, seen[d], objects, byObject, bySubject, req[d], found[d]>>
      PROVE  TxHolds(d)'
  BY <1>0 DEF TxInv, TxHolds, Matches, RelationsOf
<1>1. ASSUME NEW c \in Clients, NEW r \in Requests, Accept(c, r) PROVE TxHolds(d)'
  <2>1. pc[d] = "write" /\ UNCHANGED <<lock, seen[d], objects, byObject, bySubject, req[d], found[d]>>
    BY <1>1 DEF Accept, TypeOK, store
  <2> QED BY <1>0, <2>1
<1>2. ASSUME NEW c \in Clients, Begin(c), c = d PROVE TxHolds(d)'
  <2>1. pc[d] = "begin" /\ Proceeds(req[d])
    BY <1>2 DEF Begin, TypeOK
  <2>2. req[d] \in Requests
    BY <2>1, WriteRequest
  <2>3. ASSUME req[d].op \in {"SetObject", "DeleteObject"}
        PROVE  seen'[d] = objects[req[d].key] /\ Matches(req[d], seen'[d])
    <3>1. req[d].key \in Objects
      BY <2>2, <2>3, RequestShape DEF SetObjectRequest, DeleteObjectRequest
    <3>2. Matches(req[d], Etag(req[d].key))
      BY <2>1, <2>3 DEF Proceeds
    <3>3. seen'[d] = objects[req[d].key]
      BY <1>2, <2>1, <2>3 DEF Begin, TypeOK
    <3> QED BY <3>1, <3>2, <3>3 DEF Etag
  <2>4. lock' = d /\ req' = req /\ objects' = objects /\ found'[d].scans = 0
    BY <1>2, <2>1 DEF Begin, store, TypeOK, NotScanned
  <2>5. \A scan \in 1..found'[d].scans : FALSE
    BY <2>4
  <2> QED BY <2>3, <2>4, <2>5 DEF TxHolds, Matches
<1>3. ASSUME NEW c \in Clients, Begin(c), c # d PROVE FALSE
  <2>1. pc[d] = "write"
    BY <1>3 DEF Begin, TypeOK
  <2>2. lock = d /\ lock = None
    BY <1>3, <2>1 DEF Begin, CanBegin, TxInv
  <2> QED BY <2>2
<1>4. ASSUME NEW c \in Clients, DeleteRelationsWithPrefix(c), c = d PROVE TxHolds(d)'
  <2>1. /\ pc[d] = "write" /\ UNCHANGED <<lock, seen, objects, byObject, bySubject, req>>
        /\ found[d].scans \in 0..2
    BY <1>4 DEF DeleteRelationsWithPrefix, store, TypeOK
  <2>2. /\ found'[d].scans = found[d].scans + 1
        /\ found'[d].rels = found[d].rels \cup RelationsOf(req[d].key, found[d].scans + 1)
    BY <1>4 DEF DeleteRelationsWithPrefix, TypeOK
  <2>3. TxHolds(d) /\ req[d].op = "DeleteObject" /\ req[d].withRelations
    BY <1>4, <2>1 DEF TxInv, TxHolds, DeleteRelationsWithPrefix
  <2>4. \A scan \in 1..found'[d].scans : scan \in 1..found[d].scans \/ scan = found[d].scans + 1
    BY <2>1, <2>2
  <2>5. \A scan : RelationsOf(req[d].key, scan)' = RelationsOf(req[d].key, scan)
    BY <2>1 DEF RelationsOf
  <2>6. \A scan \in 1..found'[d].scans : RelationsOf(req[d].key, scan) \subseteq found'[d].rels
    BY <2>2, <2>3, <2>4 DEF TxHolds
  <2> QED BY <2>1, <2>3, <2>5, <2>6 DEF TxHolds, Matches
<1>5. ASSUME NEW c \in Clients, Write(c) \/ Abort(c), ~(DeleteRelationsWithPrefix(c) /\ c = d) PROVE TxHolds(d)'
  <2>1. c # d /\ pc[d] = "write"
    BY <1>5 DEF Write, Abort, AfterAbort, Fault, SetObject, DeleteRelationsWithPrefix, DeleteObject, SetRelation,
                StoreRelation, DeleteRelation, Erase, SetManifest, UpdateModel, DeleteManifest, Wipe, Finish, TypeOK
  <2>2. lock = d
    BY <2>1 DEF TxInv
  <2>3. UpdateModel(c)
    BY <1>5, <2>1, <2>2 DEF Write, Abort, SetObject, DeleteRelationsWithPrefix, DeleteObject, SetRelation,
                StoreRelation, DeleteRelation, Erase, SetManifest, UpdateModel, DeleteManifest, Wipe, TxInv
  <2> QED BY <1>0, <2>1, <2>3 DEF UpdateModel, store
<1>6. CASE Restart
  BY <1>6 DEF Restart, LoadModel, TypeOK
<1>7. CASE UNCHANGED vars
  BY <1>0, <1>7 DEF vars, store
<1> QED BY <1>1, <1>2, <1>3, <1>4, <1>5, <1>6, <1>7 DEF Next

\* Every reachable state is well typed, for any number of clients.
THEOREM TypeCorrect == Spec => []TypeOK
BY InitType, StepType, PTL DEF Spec

\* The two relation indexes always agree (bdb's SetRelation and DeleteRelation
\* and their callers), in both kinds of store.
THEOREM Indexes == Spec => []IndexesAgree
BY TypeCorrect, InitSafe, StepIndexes, PTL DEF Spec

\* What a serialised transaction has read stays current until its commit.
THEOREM Transactions == Spec => []TxInv
BY TypeCorrect, InitSafe, StepTx, PTL DEF Spec

\* A client whose transaction ends in a step that changes an object made it.
LEMMA WhoWrote ==
  ASSUME TypeOK, [Next]_vars, NEW c \in Clients,
         pc[c] = "write", pc'[c] # "write", objects' # objects
  PROVE  Write(c)
<1>1. ASSUME NEW d \in Clients, Write(d) PROVE d = c
  BY <1>1 DEF Write, SetObject, DeleteRelationsWithPrefix, DeleteObject, SetRelation, DeleteRelation,
              SetManifest, UpdateModel, DeleteManifest, Finish, TypeOK, store
<1>2. ASSUME NEW d \in Clients PROVE /\ ~Begin(d) /\ ~Abort(d)
                                     /\ \A r \in Requests : ~Accept(d, r)
  BY DEF Begin, Abort, Accept, store
<1>3. ~Restart /\ ~UNCHANGED vars
  BY DEF Restart, LoadModel, vars, store
<1> QED BY <1>1, <1>2, <1>3 DEF Next

\* One step of a serialised store respects If-Match.
LEMMA StepConditional ==
  ASSUME Serial, TypeOK, TxInv, [Next]_vars,
         NEW c \in Clients, NEW o \in Objects,
         pc[c] = "write", pc'[c] # "write", objects'[o] # objects[o],
         req[c].op \in {"SetObject", "DeleteObject"}, req[c].ifMatch # None
  PROVE  /\ o = req[c].key
         /\ \/ objects[o] = req[c].ifMatch
            \/ objects[o] = None /\ req[c].op = "SetObject"
<1>1. SetObject(c) \/ DeleteObject(c)
  BY WhoWrote DEF Write, DeleteRelationsWithPrefix, SetRelation, DeleteRelation, SetManifest, UpdateModel,
                  DeleteManifest
<1>2. o = req[c].key
  BY <1>1 DEF SetObject, DeleteObject, TypeOK
<1>3. seen[c] = objects[o] /\ Matches(req[c], seen[c])
  BY <1>2 DEF TxInv
<1>4. objects[o] # None \/ req[c].op = "SetObject"
  BY <1>1, <1>2 DEF SetObject, DeleteObject, TypeOK
<1> QED BY <1>2, <1>3, <1>4 DEF Matches

\* No lost update: in a store that serialises write transactions a conditional
\* SetObject or DeleteObject changes only what its caller has seen.
THEOREM NoLostUpdate ==
  ASSUME Serial
  PROVE  Spec => ConditionalWrites
<1>1. TypeOK /\ TxInv /\ [Next]_vars =>
        [\A c \in Clients, o \in Objects :
           /\ pc[c] = "write" /\ pc'[c] # "write" /\ objects'[o] # objects[o]
           /\ req[c].op \in {"SetObject", "DeleteObject"} /\ req[c].ifMatch # None
           => /\ o = req[c].key
              /\ \/ objects[o] = req[c].ifMatch
                 \/ objects[o] = None /\ req[c].op = "SetObject"]_vars
  BY StepConditional
<1> QED BY <1>1, TypeCorrect, Transactions, PTL DEF Spec, ConditionalWrites

\* No relation of an object survives DeleteObject with relations in a store
\* that serialises write transactions: none is added behind its two scans, and
\* it is enough to look for one end in each index because they agree.
THEOREM NoDanglingRelations ==
  ASSUME Serial
  PROVE  Spec => RelationsGone
<1>1. TypeOK /\ IndexesAgree /\ TxInv /\ [Next]_vars =>
        [\A c \in Clients :
           /\ pc[c] = "write" /\ pc'[c] # "write" /\ objects' # objects
           /\ req[c].op = "DeleteObject" /\ req[c].withRelations
           => \A r \in byObject' \cup bySubject' :
                req[c].key \notin {ObjectOf[r], SubjectOf[r]}]_vars
  <2> SUFFICES ASSUME TypeOK, IndexesAgree, TxInv, [Next]_vars, NEW c \in Clients,
                      pc[c] = "write", pc'[c] # "write", objects' # objects,
                      req[c].op = "DeleteObject", req[c].withRelations,
                      NEW r \in byObject' \cup bySubject'
               PROVE  req[c].key \notin {ObjectOf[r], SubjectOf[r]}
    OBVIOUS
  <2>1. DeleteObject(c)
    BY WhoWrote DEF Write, SetObject, DeleteRelationsWithPrefix, SetRelation, DeleteRelation, SetManifest,
                    UpdateModel, DeleteManifest
  <2>2. r \in byObject \ found[c].rels /\ found[c].scans = 2
    BY <2>1 DEF DeleteObject, Erase, IndexesAgree
  <2>3. \A scan \in 1..2 : RelationsOf(req[c].key, scan) \subseteq found[c].rels
    BY <2>2 DEF TxInv
  <2>4. RelationsOf(req[c].key, 1) \subseteq found[c].rels /\ RelationsOf(req[c].key, 2) \subseteq found[c].rels
    BY <2>3
  <2> QED BY <2>2, <2>4 DEF RelationsOf, IndexesAgree
<1> QED BY <1>1, TypeCorrect, Indexes, Transactions, PTL DEF Spec, RelationsGone

\* What CacheCommitted needs to be inductive: the stored manifest, and one
\* whose SetManifest is about to update the cache, have been committed.
CacheInv ==
  /\ mc \in committed /\ manifest \in committed
  /\ \A c \in Clients : pc[c] = "updateModel" => req[c].manifest \in committed

\* The cached model was stored at some time, whatever transactions fail and
\* wherever the process is restarted (Model.SetManifest, loadModel).
THEOREM CachedModelCommitted == Spec => []CacheCommitted
<1>1. Init => CacheInv
  BY DEF Init, CacheInv
<1>2. TypeOK /\ CacheInv /\ [Next]_vars => CacheInv'
  <2> SUFFICES ASSUME TypeOK, CacheInv, [Next]_vars PROVE CacheInv'
    OBVIOUS
  <2> USE DEF CacheInv
  <2>1. ASSUME NEW c \in Clients, NEW r \in Requests, Accept(c, r) PROVE CacheInv'
    BY <2>1 DEF Accept, TypeOK, store
  <2>2. ASSUME NEW c \in Clients, Begin(c) \/ Abort(c) PROVE CacheInv'
    BY <2>2 DEF Begin, Abort, AfterAbort, TypeOK, store
  <2>3. ASSUME NEW c \in Clients, Write(c) PROVE CacheInv'
    BY <2>3 DEF Write, SetObject, DeleteRelationsWithPrefix, DeleteObject, SetRelation, StoreRelation,
                DeleteRelation, Erase, SetManifest,
                UpdateModel, DeleteManifest, Wipe, Finish, TypeOK, store
  <2>4. CASE Restart \/ UNCHANGED vars
    BY <2>4 DEF Restart, LoadModel, vars, store
  <2> QED BY <2>1, <2>2, <2>3, <2>4 DEF Next
<1>3. CacheInv => CacheCommitted
  BY DEF CacheInv, CacheCommitted
<1> QED BY <1>1, <1>2, <1>3, TypeCorrect, PTL DEF Spec

-----------------------------------------------------------------------------
(* Requests that come one by one keep the cached model and the stored      *)
(* instances in step with the stored manifest, for every set of keys,      *)
(* contents and manifests, with failing transactions and restarts.         *)

\* One request at a time: while it is under way the model it was validated
\* against is the stored one, up to the gap between the commit of SetManifest
\* and its mc.UpdateModel.
Aligned ==
  /\ \A c, d \in UnderWay : c = d
  /\ \A c \in UnderWay : req[c].op # "DeleteManifest"
  /\ mc = manifest \/ \E c \in Clients : pc[c] = "updateModel"
  /\ \A c \in Clients :
       /\ pc[c] \in {"begin", "write"} => Valid(manifest, req[c])
       /\ pc[c] = "write" /\ req[c].op = "SetManifest" => CanUpdate(manifest, req[c].manifest)
       /\ pc[c] = "updateModel" => req[c].manifest = manifest
  /\ StoreConforms

\* The directory starts empty, with the model it has loaded.
LEMMA InitAligned == Init => Aligned
BY DEF Init, Aligned, UnderWay, StoreConforms

\* What the next step may lead to.
Alone == /\ \A c, d \in UnderWay' : c = d
         /\ \A c \in UnderWay' : req'[c].op # "DeleteManifest"

\* Accept validates against the stored model, since nobody is about to replace it.
LEMMA AcceptAligned ==
  ASSUME TypeOK, Aligned, Alone, NEW c \in Clients, NEW r \in Requests, Accept(c, r) PROVE Aligned'
<1>1. /\ pc' = [pc EXCEPT ![c] = "begin"] /\ req' = [req EXCEPT ![c] = r] /\ Valid(mc, r)
      /\ UNCHANGED <<objects, byObject, manifest, mc>>
  BY DEF Accept, store
<1>2. \A d \in Clients \ {c} : pc[d] = "idle" /\ pc'[d] = "idle"
  BY <1>1 DEF Alone, UnderWay, TypeOK
<1>3. mc = manifest
  BY <1>1, <1>2 DEF Aligned, Accept
<1>4. \A d \in Clients : pc'[d] # "idle" => d = c /\ pc'[d] = "begin" /\ req'[d] = r
  BY <1>1, <1>2 DEF TypeOK
<1>5. StoreConforms'
  BY <1>1 DEF Aligned, StoreConforms
<1> QED BY <1>1, <1>3, <1>4, <1>5 DEF Aligned, Alone

\* Begin checks a new manifest against the stored instances.
LEMMA BeginAligned ==
  ASSUME TypeOK, Aligned, Alone, NEW c \in Clients, Begin(c) PROVE Aligned'
<1>1. /\ pc[c] = "begin" /\ UNCHANGED <<objects, byObject, manifest, mc, req>>
      /\ \/ Proceeds(req[c]) /\ pc' = [pc EXCEPT ![c] = "write"]
         \/ pc' = [pc EXCEPT ![c] = "idle"]
  BY DEF Begin, store
<1>2. \A d \in Clients : pc[d] # "idle" => d = c
  BY <1>1 DEF Aligned, UnderWay
<1>3. mc = manifest
  BY <1>1, <1>2 DEF Aligned
<1>4. \A d \in Clients : pc'[d] # "idle" => d = c /\ pc'[d] = "write" /\ Proceeds(req[c])
  BY <1>1, <1>2 DEF TypeOK
<1>5. Proceeds(req[c]) /\ req[c].op = "SetManifest" => CanUpdate(manifest, req[c].manifest)
  BY <1>3 DEF Proceeds
<1>6. Valid(manifest, req[c])
  BY <1>1 DEF Aligned
<1>7. StoreConforms' /\ \A m \in Manifests : CanUpdate(manifest, m) => CanUpdate(manifest, m)'
  BY <1>1 DEF Aligned, StoreConforms, CanUpdate, InUse
<1>8. \A d \in Clients : pc'[d] = "write" /\ req'[d].op = "SetManifest" => CanUpdate(manifest, req[d].manifest)'
  BY <1>1, <1>4, <1>5 DEF CanUpdate, InUse
<1> QED BY <1>1, <1>3, <1>4, <1>6, <1>7, <1>8 DEF Aligned, Alone

\* A write stores what the model admits; SetManifest drops nothing that is in use.
LEMMA WriteAligned ==
  ASSUME TypeOK, Aligned, Alone, NEW c \in Clients, Write(c) PROVE Aligned'
<1>1. \A d \in Clients : pc[d] # "idle" => d = c
  BY DEF Aligned, UnderWay, Write, SetObject, DeleteRelationsWithPrefix, DeleteObject, SetRelation, DeleteRelation, SetManifest,
         UpdateModel, DeleteManifest
<1>2. req[c] \in Requests /\ c \in UnderWay /\ req[c].op # "DeleteManifest"
  BY WriteRequest DEF Aligned, UnderWay, Write, SetObject, DeleteRelationsWithPrefix, DeleteObject, SetRelation, DeleteRelation, SetManifest,
         UpdateModel, DeleteManifest
<1>3. CASE UpdateModel(c)
  <2>1. mc' = manifest /\ UNCHANGED <<objects, byObject, manifest>> /\ \A d \in Clients : pc'[d] = "idle"
    BY <1>1, <1>3 DEF UpdateModel, Aligned, store, TypeOK
  <2> QED BY <2>1 DEF Aligned, Alone, StoreConforms
<1>4. CASE SetManifest(c)
  <2>1. /\ manifest' = req[c].manifest /\ UNCHANGED <<objects, byObject, req>>
        /\ \A d \in Clients : pc'[d] # "idle" => d = c
        /\ pc'[c] = "updateModel" /\ pc[c] = "write" /\ req[c].op = "SetManifest"
    BY <1>1, <1>4 DEF SetManifest, TypeOK
  <2>2. CanUpdate(manifest, req[c].manifest)
    BY <2>1 DEF Aligned
  <2>3. StoreConforms'
    BY <2>1, <2>2 DEF Aligned, StoreConforms, CanUpdate, InUse
  <2> QED BY <2>1, <2>3 DEF Aligned, Alone
<1>5. CASE SetObject(c) \/ DeleteObject(c) \/ SetRelation(c) \/ DeleteRelation(c)
  <2>1. /\ UNCHANGED <<manifest, mc>> /\ (\A d \in Clients : pc'[d] = "idle") /\ mc = manifest
    BY <1>1, <1>5 DEF SetObject, DeleteObject, SetRelation, DeleteRelation, Finish, TypeOK, Aligned
  <2>2. req[c].key \in Admitted(manifest)
    BY <1>5 DEF SetObject, DeleteObject, SetRelation, DeleteRelation, Aligned, Valid
  <2>3. InUse' \subseteq InUse \cup {req[c].key}
    <3>1. CASE SetObject(c)
      BY <1>2, <3>1, RequestShape DEF SetObject, InUse, TypeOK, SetObjectRequest
    <3>2. CASE DeleteObject(c)
      BY <3>2 DEF DeleteObject, Erase, InUse, TypeOK
    <3>3. CASE SetRelation(c) \/ DeleteRelation(c)
      BY <3>3 DEF SetRelation, DeleteRelation, StoreRelation, Erase, InUse
    <3> QED BY <1>5, <3>1, <3>2, <3>3
  <2>4. StoreConforms'
    BY <2>1, <2>2, <2>3 DEF Aligned, StoreConforms, InUse
  <2> QED BY <2>1, <2>4 DEF Aligned, Alone
<1>6. CASE DeleteRelationsWithPrefix(c)
  <2>1. UNCHANGED <<objects, byObject, manifest, mc, pc, req>>
    BY <1>6 DEF DeleteRelationsWithPrefix, store
  <2> QED BY <2>1 DEF Aligned, UnderWay, Valid, StoreConforms, CanUpdate, InUse
<1> QED BY <1>2, <1>3, <1>4, <1>5, <1>6 DEF Write, DeleteManifest

\* A failed transaction and a restart leave the store as it was.
LEMMA FaultAligned ==
  ASSUME TypeOK, Aligned, Alone, (\E c \in Clients : Abort(c)) \/ Restart PROVE Aligned'
<1>1. UNCHANGED <<objects, byObject, manifest>>
  BY DEF Abort, Restart, store
<1>2. mc' = manifest /\ \A d \in Clients : pc'[d] = "idle"
  <2>1. ASSUME NEW c \in Clients, Abort(c) PROVE mc' = manifest /\ \A d \in Clients : pc'[d] = "idle"
    <3>1. \A d \in Clients : pc[d] # "idle" => d = c /\ pc[d] = "write"
      BY <2>1 DEF Abort, Aligned, UnderWay
    <3> QED BY <2>1, <3>1 DEF Abort, AfterAbort, Aligned, TypeOK
  <2>2. CASE Restart
    BY <2>2 DEF Restart, LoadModel
  <2> QED BY <2>1, <2>2
<1> QED BY <1>1, <1>2 DEF Aligned, Alone, StoreConforms

\* Every step of requests that come one by one keeps them in step.
LEMMA StepAligned == TypeOK /\ Aligned /\ Next /\ Alone => Aligned'
BY AcceptAligned, BeginAligned, WriteAligned, FaultAligned DEF Next

\* The requests of EitherSpec are requests of Spec.
LEMMA EitherTypes == EitherSpec => []TypeOK
<1>1. EitherInit => TypeOK
  BY InitType DEF EitherInit
<1>2. TypeOK /\ [EitherNext]_<<vars, oneByOne>> => TypeOK'
  BY StepType DEF EitherNext
<1> QED BY <1>1, <1>2, PTL DEF EitherSpec

\* The invariant of EitherSpec.
LEMMA OneByOneAligned == EitherSpec => [](oneByOne => Aligned)
<1>1. EitherInit => Aligned
  BY InitAligned DEF EitherInit
<1>2. TypeOK /\ (oneByOne => Aligned) /\ [EitherNext]_<<vars, oneByOne>> => (oneByOne => Aligned)'
  <2> SUFFICES ASSUME TypeOK, oneByOne => Aligned, [EitherNext]_<<vars, oneByOne>>, oneByOne'
               PROVE  Aligned'
    OBVIOUS
  <2>1. oneByOne /\ Aligned
    BY DEF EitherNext
  <2>2. CASE EitherNext
    BY <2>1, <2>2, StepAligned DEF EitherNext, Alone
  <2>3. CASE UNCHANGED <<vars, oneByOne>>
    BY <2>1, <2>3 DEF vars, store, Aligned, UnderWay, StoreConforms, CanUpdate, InUse
  <2> QED BY <2>2, <2>3
<1> QED BY <1>1, <1>2, EitherTypes, PTL DEF EitherSpec

\* SetManifest, its failure and a restart: with requests that come one by one,
\* none of them a DeleteManifest, the cached model is the stored one whenever no
\* request is under way.
THEOREM ModelInStep == EitherSpec => []CacheFreshOneByOne
<1>1. (oneByOne => Aligned) => CacheFreshOneByOne
  BY DEF Aligned, CacheFreshOneByOne, CacheFresh
<1> QED BY <1>1, OneByOneAligned, PTL

\* CanUpdate in SetManifest and Validate in the writers: with requests that come
\* one by one, nothing is stored that the stored manifest does not admit.
THEOREM NothingUnknown == EitherSpec => []StoreConformsOneByOne
<1>1. (oneByOne => Aligned) => StoreConformsOneByOne
  BY DEF Aligned, StoreConformsOneByOne
<1> QED BY <1>1, OneByOneAligned, PTL
=============================================================================
