------------------------------ MODULE Directory -----------------------------
(***************************************************************************)
(* The directory's Writer and Model services over a transactional store    *)
(* (internal/eds/pkg/directory/v3, ds, bdb, pgdb).                         *)
(*                                                                         *)
(* A request is validated against the cached model before its transaction  *)
(* starts; inside the transaction the handler reads what is stored, checks *)
(* the If-Match header against it and writes.  SetManifest checks If-Match *)
(* against the cached model and replaces that model after its commit.  Its *)
(* response is sent before the transaction; the status the client's call   *)
(* ends with is that of the handler's return.                              *)
(*                                                                         *)
(* Data abstraction: an object has a content, and its etag, a hash of the  *)
(* content, is the content itself; a relation has no content beyond its    *)
(* key.  A manifest is a model value with the set of keys it admits, and   *)
(* is its own etag.                                                        *)
(***************************************************************************)
EXTENDS Naturals, FiniteSets

CONSTANTS Objects, Relations,   \* keys
          ObjectOf, SubjectOf,  \* the two ends of a relation: [Relations -> Objects]
          Contents,             \* contents of objects, and their etags
          Manifests,            \* manifests a client may set
          Empty,                \* the empty manifest DeleteManifest stores
          NoManifest,           \* a store that was never given a manifest
          Admits,               \* [Manifests -> SUBSET Items]
          Clients,              \* requests that may be under way together
          None,                 \* absent: no content, no header, no lock holder
          Ops,                  \* operations the clients use
          Serial,               \* does a write transaction exclude the others?
          MaxRequests, MaxFaults

Items == Objects \cup Relations
ManifestEtags == Manifests \cup {Empty}
Stored == ManifestEtags \cup {NoManifest}

ASSUME DirectoryAssumption ==
  /\ Objects \cap Relations = {}
  /\ ObjectOf \in [Relations -> Objects] /\ SubjectOf \in [Relations -> Objects]
  /\ None \notin Contents \cup Clients \cup Relations \cup Stored
  /\ Empty \notin Manifests /\ NoManifest \notin Manifests \cup {Empty}
  /\ Admits \in [Manifests -> SUBSET Items] /\ Serial \in BOOLEAN
  /\ MaxRequests \in Nat /\ MaxFaults \in Nat

\* The requests, with their If-Match header.
SetObjectRequest == [op : {"SetObject"}, key : Objects, content : Contents,
                     ifMatch : Contents \cup {None}]
DeleteObjectRequest == [op : {"DeleteObject"}, key : Objects, withRelations : BOOLEAN,
                        ifMatch : Contents \cup {None}]
RelationRequest == [op : {"SetRelation", "DeleteRelation"}, key : Relations,
                    ifMatch : Relations \cup {None}]
SetManifestRequest == [op : {"SetManifest"}, manifest : Manifests, ifMatch : ManifestEtags \cup {None}]
DeleteManifestRequest == [op : {"DeleteManifest"}, ifMatch : ManifestEtags \cup {None}]
Requests == SetObjectRequest \cup DeleteObjectRequest \cup RelationRequest
            \cup SetManifestRequest \cup DeleteManifestRequest

VARIABLES
  objects,               \* [Objects -> Contents \cup {None}]
  byObject, bySubject,   \* the two indexes of the relations
  manifest,              \* the stored manifest and model
  mc,                    \* the cached model
  committed,             \* history: manifests that have been stored
  lock,                  \* client whose write transaction is open
  pc, req, seen,         \* per client; seen: etag read in the transaction
  found,                 \* per client: scans done for its DeleteObject, relations they found
  requests, faults

store == <<objects, byObject, bySubject, manifest>>
vars == <<store, mc, committed, lock, pc, req, seen, found, requests, faults>>

Admitted(m) == IF m \in Manifests THEN Admits[m] ELSE {}

NotScanned == [scans |-> 0, rels |-> {}]

\* A new database and, in it, whatever manifest was loaded from it.
Init ==
  /\ objects = [o \in Objects |-> None] /\ byObject = {} /\ bySubject = {}
  /\ manifest \in Manifests \cup {NoManifest}
  /\ mc = manifest /\ committed = {manifest}
  /\ lock = None /\ requests = 0 /\ faults = 0
  /\ pc = [c \in Clients |-> "idle"] /\ req = [c \in Clients |-> None]
  /\ seen = [c \in Clients |-> None] /\ found = [c \in Clients |-> NotScanned]

-----------------------------------------------------------------------------
(* Before the transaction.                                                 *)

\* Mutant: the object is not checked against the model.
ValidUnchecked(m, r) == r.op = "SetManifest" => r.ifMatch \in {None, m}

\* Mutant: SetManifest does not look at If-Match.
ValidIgnoringIfMatch(m, r) ==
  r.op \in {"SetObject", "DeleteObject", "SetRelation", "DeleteRelation"} => r.key \in Admitted(m)

\* Validate of objects and relations, and SetManifest's check of If-Match,
\* both against the cached model.
Valid(m, r) ==
  /\ r.op \in {"SetObject", "DeleteObject", "SetRelation", "DeleteRelation"} => r.key \in Admitted(m)
  /\ r.op = "SetManifest" => r.ifMatch \in {None, m}

\* A request that is not valid returns an error and changes nothing.
Accept(c, r) ==
  /\ pc[c] = "idle" /\ requests < MaxRequests
  /\ r.op \in Ops /\ Valid(mc, r)
  /\ req' = [req EXCEPT ![c] = r]
  /\ pc' = [pc EXCEPT ![c] = "begin"]
  /\ requests' = requests + 1
  /\ UNCHANGED <<store, mc, committed, lock, seen, found, faults>>

-----------------------------------------------------------------------------
(* The transaction: store.Update with the handler's function.              *)

\* Mutant: write transactions overlap.
CanBeginAnytime == TRUE

\* bolt admits one write transaction at a time; postgres runs them side by
\* side, each statement seeing what was committed before it.
CanBegin == Serial => lock = None
Release(c) == lock' = IF lock = c THEN None ELSE lock

\* The etag UpdateMetadata finds for the key: None for a new instance.
Etag(k) == IF k \in Objects THEN objects[k] ELSE IF k \in byObject THEN k ELSE None

\* Mutant: an update is let through whatever it is based on.
MatchesAlways(r, etag) == TRUE

\* The optimistic concurrency check: a set that inserts ignores If-Match, a
\* delete does not.
Matches(r, etag) ==
  \/ r.ifMatch = None
  \/ r.op \in {"SetObject", "SetRelation"} /\ etag = None
  \/ r.ifMatch = etag

\* Mutant: relations are not counted.
InUseObjects == {o \in Objects : objects[o] # None}

\* What CalculateStats counts.
InUse == {o \in Objects : objects[o] # None} \cup byObject

\* A model may only replace another when nothing stored needs what it drops
\* (external).
CanUpdate(cur, new) == InUse \cap Admitted(cur) \subseteq Admitted(new)

\* What the transaction reads, and whether it goes on to write.
Proceeds(r) ==
  CASE r.op = "SetManifest" -> CanUpdate(mc, r.manifest)
    [] r.op = "DeleteManifest" -> r.ifMatch \in {None, manifest}
    [] OTHER -> Matches(r, Etag(r.key))

Begin(c) ==
  /\ pc[c] = "begin" /\ CanBegin
  /\ IF Proceeds(req[c])
     THEN /\ lock' = c /\ pc' = [pc EXCEPT ![c] = "write"]
          /\ seen' = [seen EXCEPT ![c] = IF req[c].op \in {"SetObject", "DeleteObject"}
                                         THEN objects[req[c].key] ELSE None]
          /\ found' = [found EXCEPT ![c] = NotScanned]
     ELSE pc' = [pc EXCEPT ![c] = "idle"] /\ UNCHANGED <<lock, seen, found>>
  /\ UNCHANGED <<store, mc, committed, req, requests, faults>>

Finish(c) == pc' = [pc EXCEPT ![c] = "idle"] /\ Release(c)

\* SetObject; an object whose content is as requested is not written again.
SetObject(c) ==
  /\ pc[c] = "write" /\ req[c].op = "SetObject"
  /\ objects' = IF seen[c] = req[c].content THEN objects
                ELSE [objects EXCEPT ![req[c].key] = req[c].content]
  /\ Finish(c)
  /\ UNCHANGED <<byObject, bySubject, manifest, mc, committed, req, seen, found, requests, faults>>

\* The store writes a relation to both indexes,
StoreRelation(r) == byObject' = byObject \cup {r} /\ bySubject' = bySubject \cup {r}

\* Mutant: the subject index keeps what is removed.
EraseFromOne(gone) == byObject' = byObject \ gone /\ UNCHANGED bySubject

\* and removes it from both.
Erase(gone) == byObject' = byObject \ gone /\ bySubject' = bySubject \ gone

\* Mutant: both scans look at the subject.
RelationsTo(o, scan) == {r \in bySubject : SubjectOf[r] = o}

\* relationsByObject: the first scan is by subject, the second by object.
RelationsOf(o, scan) ==
  IF scan = 1 THEN {r \in bySubject : SubjectOf[r] = o} ELSE {r \in byObject : ObjectOf[r] = o}

\* deleteRelationsWithPrefix, one statement after the other; others see the
\* deletions when the transaction is committed.
DeleteRelationsWithPrefix(c) ==
  /\ pc[c] = "write" /\ req[c].op = "DeleteObject" /\ req[c].withRelations
  /\ found[c].scans < 2
  /\ LET scan == found[c].scans + 1
     IN  found' = [found EXCEPT ![c] =
           [scans |-> scan, rels |-> found[c].rels \cup RelationsOf(req[c].key, scan)]]
  /\ UNCHANGED <<store, mc, committed, lock, pc, req, seen, requests, faults>>

\* The rest of DeleteObject: all it deletes goes with its commit.
DeleteObject(c) ==
  /\ pc[c] = "write" /\ req[c].op = "DeleteObject"
  /\ req[c].withRelations => found[c].scans = 2
  /\ objects' = [objects EXCEPT ![req[c].key] = None]
  /\ Erase(found[c].rels)
  /\ Finish(c)
  /\ UNCHANGED <<manifest, mc, committed, req, seen, found, requests, faults>>

SetRelation(c) ==
  /\ pc[c] = "write" /\ req[c].op = "SetRelation"
  /\ StoreRelation(req[c].key)
  /\ Finish(c)
  /\ UNCHANGED <<objects, manifest, mc, committed, req, seen, found, requests, faults>>

DeleteRelation(c) ==
  /\ pc[c] = "write" /\ req[c].op = "DeleteRelation"
  /\ Erase({req[c].key})
  /\ Finish(c)
  /\ UNCHANGED <<objects, manifest, mc, committed, req, seen, found, requests, faults>>

\* setManifest stores the manifest and its model.
SetManifest(c) ==
  /\ pc[c] = "write" /\ req[c].op = "SetManifest"
  /\ manifest' = req[c].manifest /\ committed' = committed \cup {req[c].manifest}
  /\ pc' = [pc EXCEPT ![c] = "updateModel"] /\ Release(c)
  /\ UNCHANGED <<objects, byObject, bySubject, mc, req, seen, found, requests, faults>>

\* mc.UpdateModel, after the commit.
UpdateModel(c) ==
  /\ pc[c] = "updateModel"
  /\ mc' = req[c].manifest
  /\ pc' = [pc EXCEPT ![c] = "idle"]
  /\ UNCHANGED <<store, committed, lock, req, seen, found, requests, faults>>

\* The store empties all buckets.
Wipe == objects' = [o \in Objects |-> None] /\ byObject' = {} /\ bySubject' = {}

\* DeleteManifest wipes the store; the cached model is left as it is.
DeleteManifest(c) ==
  /\ pc[c] = "write" /\ req[c].op = "DeleteManifest"
  /\ Wipe
  /\ manifest' = Empty /\ committed' = committed \cup {Empty}
  /\ Finish(c)
  /\ UNCHANGED <<mc, req, seen, found, requests, faults>>

-----------------------------------------------------------------------------
(* Faults.                                                                 *)

Fault == faults < MaxFaults /\ faults' = faults + 1

\* Mutant: a failing SetManifest has already replaced the cached model.
AfterFailure(c) == IF req[c].op = "SetManifest" THEN "updateModel" ELSE "idle"

\* The handler returns the error of its transaction.
AfterAbort(c) == "idle"

\* The transaction cannot be committed: it leaves no trace.
Abort(c) ==
  /\ Fault /\ pc[c] = "write"
  /\ pc' = [pc EXCEPT ![c] = AfterAbort(c)] /\ Release(c)
  /\ UNCHANGED <<store, mc, committed, req, seen, found, requests>>

\* Mutant: a restarted service begins without a model.
LoadNothing == NoManifest

\* loadModel reads the stored model.
LoadModel == manifest

\* The process dies and is restarted.
Restart ==
  /\ Fault
  /\ mc' = LoadModel /\ lock' = None
  /\ pc' = [c \in Clients |-> "idle"]
  /\ UNCHANGED <<store, committed, req, seen, found, requests>>

-----------------------------------------------------------------------------
Write(c) == \/ SetObject(c) \/ DeleteRelationsWithPrefix(c) \/ DeleteObject(c)
            \/ SetRelation(c) \/ DeleteRelation(c)
            \/ SetManifest(c) \/ UpdateModel(c) \/ DeleteManifest(c)

Next == \/ \E c \in Clients : (\E r \in Requests : Accept(c, r)) \/ Begin(c) \/ Write(c) \/ Abort(c)
        \/ Restart

Spec == Init /\ [][Next]_vars
-----------------------------------------------------------------------------
(* Properties.                                                             *)

\* Every variable has its type.
TypeOK ==
  /\ objects \in [Objects -> Contents \cup {None}]
  /\ byObject \subseteq Relations /\ bySubject \subseteq Relations
  /\ manifest \in Stored /\ mc \in Stored /\ committed \subseteq Stored
  /\ lock \in Clients \cup {None} /\ requests \in Nat /\ faults \in Nat
  /\ pc \in [Clients -> {"idle", "begin", "write", "updateModel"}]
  /\ req \in [Clients -> Requests \cup {None}]
  /\ seen \in [Clients -> Contents \cup {None}]
  /\ found \in [Clients -> [scans : 0..2, rels : SUBSET Relations]]
  /\ \A c \in Clients : pc[c] # "idle" => req[c] \in Requests
  /\ \A c \in Clients : pc[c] = "updateModel" => req[c].op = "SetManifest"

\* The object- and the subject-indexed view hold the same relations, whichever
\* way a relation was written or removed (SetRelation, DeleteRelation,
\* DeleteObject with relations, DeleteManifest).
IndexesAgree == byObject = bySubject

\* In a store that serialises write transactions, what a handler has read in
\* its transaction is still so when it writes, and it satisfied If-Match; a
\* DeleteObject has found all the relations its scans have looked for.
TxInv ==
  Serial => \A c \in Clients : pc[c] = "write" =>
    /\ lock = c
    /\ req[c].op \in {"SetObject", "DeleteObject"} =>
         seen[c] = objects[req[c].key] /\ Matches(req[c], seen[c])
    /\ req[c].op = "DeleteObject" /\ req[c].withRelations =>
         \A scan \in 1..found[c].scans : RelationsOf(req[c].key, scan) \subseteq found[c].rels

\* No lost update: a SetObject or DeleteObject with an If-Match header changes
\* only the object its caller has seen, whatever other requests did since; a
\* set may also insert (the check in Writer.SetObject and DeleteObject).
ConditionalWrites ==
  [][\A c \in Clients, o \in Objects :
       /\ pc[c] = "write" /\ pc'[c] # "write" /\ objects'[o] # objects[o]
       /\ req[c].op \in {"SetObject", "DeleteObject"} /\ req[c].ifMatch # None
       => /\ o = req[c].key
          /\ \/ objects[o] = req[c].ifMatch
             \/ objects[o] = None /\ req[c].op = "SetObject"]_vars

\* When DeleteObject with relations is committed, neither index mentions the
\* object, whatever other requests did while its scans were under way.
RelationsGone ==
  [][\A c \in Clients :
       /\ pc[c] = "write" /\ pc'[c] # "write" /\ objects' # objects
       /\ req[c].op = "DeleteObject" /\ req[c].withRelations
       => \A r \in byObject' \cup bySubject' : req[c].key \notin {ObjectOf[r], SubjectOf[r]}]_vars

\* The cached model is one that was stored at some time: a SetManifest whose
\* transaction is refused or fails never becomes the model in use.
CacheCommitted == mc \in committed

\* When no request is under way the cached model is the stored one; a store
\* without manifest and one with the empty manifest have the same, empty model.
CacheFresh ==
  (\A c \in Clients : pc[c] = "idle") =>
    mc = manifest \/ {mc, manifest} \subseteq {Empty, NoManifest}

\* Nothing is stored that the stored manifest does not admit: a type in use is
\* not dropped, and only instances of known types are written.
StoreConforms ==
  {o \in Objects : objects[o] # None} \cup byObject \subseteq Admitted(manifest)

\* A SetManifest with an If-Match header replaces only the manifest its caller
\* has seen (the check at the top of Model.SetManifest).
ConditionalManifest ==
  [][\A c \in Clients :
       /\ pc[c] = "write" /\ pc'[c] = "updateModel" /\ req[c].ifMatch # None
       => manifest = req[c].ifMatch]_vars
=============================================================================
