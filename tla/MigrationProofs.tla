-------------------------- MODULE MigrationProofs ---------------------------
(***************************************************************************)
(* What openBoltDB serves holds all that the file held, for any number of  *)
(* processes and crashes and for every file that its version's code wrote. *)
(*                                                                         *)
(* The argument is about the phase a file is in.  mig007 deletes before it *)
(* copies, and from then on a file is either carried over by the very      *)
(* attempt that began, or never gets past mig007 again, because no later   *)
(* backup has a manifest in the old encoding.                              *)
(***************************************************************************)
EXTENDS Migration, TLAPS

V1 == "manifestV1"
V2 == "manifestV2"

(* The data in the encoding before and after mig007. *)
OldData(f) ==
  /\ had.objects => f.bucket["objects"] = "json"
  /\ had.relations => f.bucket["relations_obj"] = "json"
NewObjects == had.objects => file.bucket["objects"] = "proto"
NewRelations ==
  had.relations => file.bucket["relations_obj"] = "proto" /\ file.bucket["relations_sub"] = "proto"
NewManifest == had.manifest => file.bucket[V2] = "proto"

(* The types. *)
Process == [at : Ats, cur : Nat, next : Nat, ro : File, i : Nat]
Types ==
  /\ file \in File
  /\ proc \in [Processes -> Process]
  /\ stale \in BOOLEAN

(* bolt.Open: whoever has the file open is the only one. *)
Locking == \A p \in Processes : proc[p].at \in {"backup", "execute", "serving"} <=> lock = p

(* getCurrent plans one version up, to the required one at most; create,   *)
(* which has no backup, goes there at once.                                *)
Executing(p) == proc[p].at = "execute"
Plans ==
  \A p \in Processes :
    /\ proc[p].at \in {"migrate", "backup", "execute"} =>
         proc[p].next \in 5 .. Required /\ (Executing(p) \/ proc[p].cur + 1 = proc[p].next)
    /\ Executing(p) => proc[p].i >= 1 /\ (~proc[p].ro.exists => proc[p].next = Required)

(* Nobody has gone further than mig007. *)
Early ==
  \A p \in Processes :
    /\ proc[p].at \in {"migrate", "backup", "execute"} => proc[p].next <= 7
    /\ proc[p].at \notin {"open", "serving"}
Before == \A p \in Processes : proc[p].at \in {"off", "check"}

(* The phases of a file.  There is none yet. *)
Absent == ~file.exists /\ file = NoFile /\ Before /\ ~had.manifest /\ ~had.objects /\ ~had.relations

(* create is at work on it. *)
Making(p) ==
  /\ Executing(p) /\ ~proc[p].ro.exists /\ proc[p].next = Required
  /\ proc[p].i > 1 => file.bucket["_system"] # "none"
  /\ \A q \in Processes \ {p} : proc[q].at \in {"off", "check"}
  /\ file.exists /\ file.version = 0 /\ file.bucket[V1] # "json"
  /\ ~had.manifest /\ ~had.objects /\ ~had.relations

(* It is too new. *)
Ten == file.exists /\ file.version = Required + 1 /\ Before

(* It is in the old encoding, its manifest included. *)
Begins(p) ==
  /\ proc[p].i <= 3 /\ proc[p].ro.exists /\ proc[p].ro.bucket[V1] = "json" /\ OldData(proc[p].ro)
  /\ proc[p].next = 7 /\ proc[p].i = 3 => file.bucket["_system"] # "none"
Old ==
  /\ file.exists /\ file.version <= 6 /\ file.bucket[V1] = "json" /\ OldData(file)
  /\ Early
  /\ \A p \in Processes : Executing(p) => Begins(p)

(* mig007 has deleted the manifest and works from its backup. *)
Seven(p) ==
  /\ Executing(p) /\ proc[p].next = 7 /\ proc[p].i \in 4 .. 14
  /\ proc[p].ro.exists /\ proc[p].ro.bucket[V1] = "json" /\ OldData(proc[p].ro)
  /\ file.exists /\ file.version <= 6 /\ file.bucket["_system"] # "none" /\ file.bucket[V1] # "json"
  /\ proc[p].i >= 9 => NewObjects
  /\ proc[p].i = 14 => NewRelations
  /\ Early

(* It has no manifest in the old encoding, and is not past mig007. *)
Stuck(p) == proc[p].ro.exists /\ proc[p].ro.bucket[V1] # "json" /\ (proc[p].next = 7 => proc[p].i <= 5)
Lost ==
  /\ file.exists /\ file.version <= 6 /\ file.bucket[V1] # "json"
  /\ Early
  /\ \A p \in Processes : Executing(p) => Stuck(p)

(* It is in the new encoding; from version 9 on the manifest is in its new *)
(* place.                                                                  *)
Placed(p) == (Executing(p) /\ proc[p].next = 9 /\ proc[p].i >= 5) \/ proc[p].at \in {"open", "serving"}
Mature ==
  /\ file.exists /\ file.version <= Required /\ file.bucket[V1] # "json"
  /\ NewObjects /\ NewRelations
  /\ \A p \in Processes : (Executing(p) => Stuck(p)) /\ (Placed(p) => NewManifest)
  /\ file.version = Required => NewManifest

Phase ==
  \/ Absent \/ Ten \/ Old \/ Lost \/ Mature
  \/ \E p \in Processes : Making(p) \/ Seven(p)

(* As long as no migration began on another version than it was planned    *)
(* for, a file that is about to be served has the required version and     *)
(* nobody is at work on it.                                                *)
Versioned ==
  ~stale => \A p \in Processes : proc[p].at \in {"open", "serving"} =>
    file.version = Required /\ \A q \in Processes : proc[q].at \notin {"backup", "execute"}

Inv == Types /\ Locking /\ Plans /\ Phase /\ Versioned

-----------------------------------------------------------------------------
(* The functions of the migrations.                                        *)

(* CreateBucketIfNotExists adds a bucket and changes no other. *)
Kept(f, g, b) == g.bucket[b] = f.bucket[b] \/ (f.bucket[b] = "none" /\ g.bucket[b] = "empty")
Grown(f, g) ==
  /\ g.exists = f.exists /\ g.version = f.version
  /\ \A b \in Buckets : Kept(f, g, b)

(* What Put does to a file. *)
LEMMA PutFile ==
  ASSUME NEW f \in File, NEW b \in Buckets, NEW c \in Content
  PROVE  /\ Put(f, b, c) \in File
         /\ Put(f, b, c).exists = f.exists /\ Put(f, b, c).version = f.version
         /\ Put(f, b, c).bucket[b] = c
         /\ \A d \in Buckets \ {b} : Put(f, b, c).bucket[d] = f.bucket[d]
BY DEF Put, File

(* CreateBucketIfNotExists: the bucket is there afterwards. *)
LEMMA CreateOne ==
  ASSUME NEW f \in File, NEW b \in Buckets
  PROVE  /\ CreateIfNotExists(f, b) \in File /\ Grown(f, CreateIfNotExists(f, b))
         /\ CreateIfNotExists(f, b).bucket[b] # "none"
<1>1. CASE f.bucket[b] = "none"
  <2>1. "empty" \in Content
    BY DEF Content
  <2> QED
    BY <1>1, <2>1, PutFile DEF CreateIfNotExists, Grown, Kept
<1>2. CASE f.bucket[b] # "none"
  BY <1>2 DEF CreateIfNotExists, Grown, Kept
<1> QED
  BY <1>1, <1>2

(* CreateBucket of mig.go, along the path of the bucket. *)
LEMMA CreateFile ==
  ASSUME NEW f \in File, NEW b \in Buckets
  PROVE  /\ CreateBucket(f, b).ok /\ CreateBucket(f, b).file \in File
         /\ Grown(f, CreateBucket(f, b).file) /\ CreateBucket(f, b).file.bucket[b] # "none"
<1>1. V2 \in Buckets
  BY DEF Buckets, V2
<1>2. CreateIfNotExists(f, V2) \in File /\ Grown(f, CreateIfNotExists(f, V2))
  BY <1>1, CreateOne
<1> DEFINE g == CreateIfNotExists(f, V2)
           h == CreateIfNotExists(g, b)
<1>3. h \in File /\ Grown(g, h) /\ h.bucket[b] # "none"
  BY <1>2, CreateOne
<1>4. Grown(f, h)
  BY <1>2, <1>3 DEF Grown, Kept
<1>5. CASE b = V1
  <2>1. CreateBucket(f, b) = Done(h)
    BY <1>5 DEF CreateBucket, V1, V2
  <2> QED
    BY <2>1, <1>3, <1>4 DEF Done
<1>6. CASE b # V1
  <2>1. CreateBucket(f, b) = Done(CreateIfNotExists(f, b))
    BY <1>6 DEF CreateBucket, V1
  <2> QED
    BY <2>1, CreateOne DEF Done
<1> QED
  BY <1>5, <1>6

(* DeleteBucket of mig.go; the version goes with _system. *)
LEMMA DeleteFile ==
  ASSUME NEW f \in File, NEW b \in Buckets
  PROVE  LET g == DeleteBucket(f, b).file
         IN  /\ DeleteBucket(f, b).ok /\ g \in File
             /\ g.exists = f.exists /\ g.version = (IF b = "_system" THEN 0 ELSE f.version)
             /\ g.bucket[b] = "none"
             /\ \A d \in Buckets \ {b} : g.bucket[d] = f.bucket[d]
<1> DEFINE h == Put(f, b, "none")
<1>1. /\ h \in File /\ h.exists = f.exists /\ h.version = f.version /\ h.bucket[b] = "none"
      /\ \A d \in Buckets \ {b} : h.bucket[d] = f.bucket[d]
  BY PutFile DEF Content
<1> HIDE DEF h
<1>2. DeleteBucket(f, b) = Done([h EXCEPT !.version = IF b = "_system" THEN 0 ELSE @])
  BY DEF DeleteBucket, h
<1> QED
  BY <1>1, <1>2 DEF Done, File

(* migMap: which list of functions a version has. *)
LEMMA Lists ==
  /\ \A v \in {5, 6, 8} : migMap[v] = mig004
  /\ migMap[7] = mig007 /\ migMap[9] = mig009
BY DEF migMap, Base, Required

(* The functions of mig004, mig005, mig006 and mig008. *)
LEMMA List4 ==
  /\ Len(mig004) = 6
  /\ mig004[1] = create("_system") /\ mig004[2] = create(V1) /\ mig004[3] = <<"model">>
  /\ \A i \in 4 .. 6 : \E b \in Buckets : mig004[i] = create(b)
<1>1. mig004[4] = create("objects") /\ mig004[5] = create("relations_obj") /\ mig004[6] = create("relations_sub")
  BY DEF mig004
<1>2. "objects" \in Buckets /\ "relations_obj" \in Buckets /\ "relations_sub" \in Buckets
  BY DEF Buckets
<1>3. \A i \in 4 .. 6 : i = 4 \/ i = 5 \/ i = 6
  OBVIOUS
<1>4. \A i \in 4 .. 6 : \E b \in Buckets : mig004[i] = create(b)
  BY <1>1, <1>2, <1>3
<1> QED
  BY <1>4 DEF mig004, V1

(* The functions of mig009. *)
LEMMA List9 ==
  /\ Len(mig009) = 7
  /\ mig009[1] = create("_system") /\ mig009[2] = delete(V1) /\ mig009[3] = create(V2)
  /\ mig009[4] = <<"manifest9">>
  /\ \A i \in 5 .. 7 : \E b \in Buckets : mig009[i] = create(b)
<1>1. mig009[5] = create("objects") /\ mig009[6] = create("relations_obj") /\ mig009[7] = create("relations_sub")
  BY DEF mig009
<1>2. "objects" \in Buckets /\ "relations_obj" \in Buckets /\ "relations_sub" \in Buckets
  BY DEF Buckets
<1>3. \A i \in 5 .. 7 : i = 5 \/ i = 6 \/ i = 7
  OBVIOUS
<1>4. \A i \in 5 .. 7 : \E b \in Buckets : mig009[i] = create(b)
  BY <1>1, <1>2, <1>3
<1> QED
  BY <1>4 DEF mig009, V1, V2

(* The functions of mig007. *)
LEMMA List7 ==
  /\ Len(mig007) = 13
  /\ mig007[1] = delete("_system") /\ mig007[2] = create("_system")
  /\ mig007[3] = delete(V1) /\ mig007[4] = create(V1) /\ mig007[5] = <<"manifest7">>
  /\ mig007[6] = delete("objects") /\ mig007[7] = create("objects") /\ mig007[8] = <<"objects7">>
  /\ mig007[9] = delete("relations_obj") /\ mig007[10] = create("relations_obj")
  /\ mig007[11] = delete("relations_sub") /\ mig007[12] = create("relations_sub")
  /\ mig007[13] = <<"relations7">>
BY DEF mig007, V1

(* Apply: a function that creates or deletes does not look at the backup. *)
LEMMA ApplyBucket ==
  ASSUME NEW f, NEW ro, NEW b
  PROVE  Apply(create(b), f, ro) = CreateBucket(f, b) /\ Apply(delete(b), f, ro) = DeleteBucket(f, b)
BY DEF Apply, create, delete

(* Apply: the others do nothing without a backup. *)
LEMMA ApplyUpdate ==
  ASSUME NEW f, NEW ro, NEW name, name \notin {"create", "delete"}
  PROVE  Apply(<<name>>, f, ro) = IF ro.exists THEN Update(name, f, ro) ELSE Done(f)
BY DEF Apply

(* Which function a name stands for. *)
LEMMA Updates ==
  ASSUME NEW f, NEW ro
  PROVE  /\ Update("model", f, ro) = MigrateModelV1(f, ro)
         /\ Update("manifest7", f, ro) = updateManifest7(f, ro)
         /\ Update("objects7", f, ro) = updateEncodingObjects(f, ro)
         /\ Update("relations7", f, ro) = updateEncodingRelations(f, ro)
         /\ Update("manifest9", f, ro) = updateManifest9(f, ro)
BY DEF Update

(* A function of mig004, mig005, mig006 or mig008 at most adds buckets, and *)
(* the third needs a manifest in the new encoding in the backup.            *)
LEMMA Run4 ==
  ASSUME NEW v \in {5, 6, 8}, NEW i \in 1 .. 6, NEW f \in File, NEW ro \in File, ro.exists,
         Apply(migMap[v][i], f, ro).ok
  PROVE  /\ Apply(migMap[v][i], f, ro).file \in File
         /\ Grown(f, Apply(migMap[v][i], f, ro).file)
         /\ i = 3 => ro.bucket[V1] = "proto"
<1>1. migMap[v] = mig004
  BY Lists
<1>2. CASE i = 3
  <2>1. Apply(migMap[v][i], f, ro) = Update("model", f, ro)
    BY <1>1, <1>2, List4, ApplyUpdate
  <2>2. Update("model", f, ro) = MigrateModelV1(f, ro)
    BY Updates
  <2>3. MigrateModelV1(f, ro) = Done(f) /\ ro.bucket[V1] = "proto"
    BY <2>1, <2>2 DEF MigrateModelV1, Done, Error, V1
  <2> QED
    BY <2>1, <2>2, <2>3 DEF Done, Grown, Kept
<1>3. CASE i # 3
  <2>1. PICK b \in Buckets : mig004[i] = create(b)
    <3>1. i = 1 \/ i = 2 \/ i \in 4 .. 6
      BY <1>3
    <3>2. "_system" \in Buckets /\ V1 \in Buckets
      BY DEF Buckets, V1
    <3> QED
      BY <3>1, <3>2, List4
  <2>2. Apply(migMap[v][i], f, ro) = CreateBucket(f, b)
    BY <1>1, <2>1, ApplyBucket
  <2> QED
    BY <1>3, <2>2, CreateFile
<1> QED
  BY <1>2, <1>3

(* A function of mig009 takes the manifest from its old place, and puts the *)
(* one of the backup in the new one; all else it keeps.                     *)
Nine(i, f, ro, g) ==
  /\ g \in File /\ g.exists = f.exists /\ g.version = f.version
  /\ \A b \in Buckets \ {V1, V2} : Kept(f, g, b)
  /\ i = 1 => g.bucket["_system"] # "none"
  /\ g.bucket[V1] \in {f.bucket[V1], "none"} \/ Kept(f, g, V1)
  /\ i = 4 /\ ro.exists => ro.bucket[V1] \in {"json", "proto"} /\ g.bucket[V2] = ro.bucket[V1]
  /\ i # 4 \/ ~ro.exists => Kept(f, g, V2)

(* Each function of mig009 does so. *)
LEMMA Run9 ==
  ASSUME NEW i \in 1 .. 7, NEW f \in File, NEW ro \in File, Apply(migMap[9][i], f, ro).ok
  PROVE  Nine(i, f, ro, Apply(migMap[9][i], f, ro).file)
<1> USE DEF Nine
<1> DEFINE r == Apply(migMap[9][i], f, ro)
<1>1. migMap[9] = mig009
  BY Lists
<1>2. V1 \in Buckets /\ V2 \in Buckets /\ V1 # V2 /\ "_system" \in Buckets /\ "_system" \notin {V1, V2}
  BY DEF Buckets, V1, V2
<1>3. CASE i = 4
  <2>1. r = IF ro.exists THEN Update("manifest9", f, ro) ELSE Done(f)
    BY <1>1, <1>3, List9, ApplyUpdate
  <2>2. CASE ~ro.exists
    BY <1>3, <2>1, <2>2 DEF Done, Kept
  <2>3. CASE ro.exists
    <3>1. r = updateManifest9(f, ro)
      BY <2>1, <2>3, Updates
    <3>2. ro.bucket[V1] \in {"json", "proto"} /\ r = Done(Put(f, V2, ro.bucket[V1]))
      BY <3>1 DEF updateManifest9, Error, V1, V2
    <3>3. ro.bucket[V1] \in Content
      BY <3>2 DEF Content
    <3> QED
      BY <1>2, <1>3, <2>3, <3>2, <3>3, PutFile DEF Done, Kept
  <2> QED
    BY <2>2, <2>3
<1>4. CASE i = 2
  <2>1. r = DeleteBucket(f, V1)
    BY <1>1, <1>4, List9, ApplyBucket
  <2> QED
    BY <1>2, <1>4, <2>1, DeleteFile DEF Kept, V1
<1>5. CASE i \notin {2, 4}
  <2>1. \E b \in Buckets : mig009[i] = create(b) /\ (i = 1 => b = "_system")
    <3>1. i = 1 \/ i = 3 \/ i \in 5 .. 7
      BY <1>5
    <3> QED
      BY <1>2, <3>1, List9
  <2>2. PICK b \in Buckets : mig009[i] = create(b) /\ (i = 1 => b = "_system")
    BY <2>1
  <2>3. r = CreateBucket(f, b)
    BY <1>1, <2>2, ApplyBucket
  <2> QED
    BY <1>2, <1>5, <2>2, <2>3, CreateFile DEF Grown
<1> QED
  BY <1>3, <1>4, <1>5

(* The functions of mig007 before the data: it ends at the fifth unless the *)
(* backup has a manifest in the old encoding.                               *)
SevenManifest(i, f, ro, g) ==
  /\ g \in File /\ g.exists = f.exists
  /\ g.version = IF i = 1 THEN 0 ELSE f.version
  /\ \A b \in Buckets \ {"_system", V1} : Kept(f, g, b)
  /\ i # 1 => Kept(f, g, "_system")
  /\ i = 2 => g.bucket["_system"] # "none"
  /\ i <= 2 \/ i = 4 => Kept(f, g, V1)
  /\ i = 3 => g.bucket[V1] = "none"
  /\ i = 5 => ro.bucket[V1] = "json" /\ g.bucket[V1] = "proto"

(* The first five functions of mig007 do so. *)
LEMMA Run7Manifest ==
  ASSUME NEW i \in 1 .. 5, NEW f \in File, NEW ro \in File, ro.exists, Apply(migMap[7][i], f, ro).ok
  PROVE  SevenManifest(i, f, ro, Apply(migMap[7][i], f, ro).file)
<1> USE DEF SevenManifest
<1> DEFINE r == Apply(migMap[7][i], f, ro)
<1>1. migMap[7] = mig007
  BY Lists
<1>2. V1 \in Buckets /\ "_system" \in Buckets /\ V1 # "_system"
  BY DEF Buckets, V1
<1>3. CASE i = 1
  <2>1. r = DeleteBucket(f, "_system")
    BY <1>1, <1>3, List7, ApplyBucket
  <2> QED
    BY <1>2, <1>3, <2>1, DeleteFile DEF Kept
<1>4. CASE i = 2
  <2>1. r = CreateBucket(f, "_system")
    BY <1>1, <1>4, List7, ApplyBucket
  <2> QED
    BY <1>2, <1>4, <2>1, CreateFile DEF Grown
<1>5. CASE i = 3
  <2>1. r = DeleteBucket(f, V1)
    BY <1>1, <1>5, List7, ApplyBucket
  <2> QED
    BY <1>2, <1>5, <2>1, DeleteFile DEF Kept
<1>6. CASE i = 4
  <2>1. r = CreateBucket(f, V1)
    BY <1>1, <1>6, List7, ApplyBucket
  <2> QED
    BY <1>2, <1>6, <2>1, CreateFile DEF Grown
<1>7. CASE i = 5
  <2>1. r = Update("manifest7", f, ro)
    BY <1>1, <1>7, List7, ApplyUpdate
  <2>2. r = updateManifest7(f, ro)
    BY <2>1, Updates
  <2>3. ro.bucket[V1] = "json" /\ r = Done(Put(f, V1, "proto"))
    BY <2>2 DEF updateManifest7, Error, V1
  <2>4. "proto" \in Content
    BY DEF Content
  <2> QED
    BY <1>2, <1>7, <2>3, <2>4, PutFile DEF Done, Kept
<1> HIDE DEF SevenManifest, r
<1>8. i = 1 \/ i = 2 \/ i = 3 \/ i = 4 \/ i = 5
  OBVIOUS
<1> QED
  BY <1>3, <1>4, <1>5, <1>6, <1>7, <1>8 DEF r

(* updateEncodingObjects and updateEncodingRelations: what the backup has in *)
(* the old encoding is in the new one afterwards.                            *)
LEMMA ReencodeFile ==
  ASSUME NEW f \in File, NEW ro \in File, NEW from, NEW to \in SUBSET Buckets, Reencode(f, ro, from, to).ok
  PROVE  LET g == Reencode(f, ro, from, to).file
         IN  /\ g \in File /\ g.exists = f.exists /\ g.version = f.version
             /\ \A b \in Buckets \ to : Kept(f, g, b)
             /\ ro.bucket[from] = "json" => \A b \in to : g.bucket[b] = "proto"
<1> DEFINE h == [f EXCEPT !.bucket = [b \in Buckets |-> IF b \in to THEN "proto" ELSE f.bucket[b]]]
<1>1. CASE ro.bucket[from] = "json"
  <2>1. Reencode(f, ro, from, to) = Done(h)
    BY <1>1 DEF Reencode
  <2>2. /\ h \in File /\ h.exists = f.exists /\ h.version = f.version
        /\ \A b \in Buckets : h.bucket[b] = IF b \in to THEN "proto" ELSE f.bucket[b]
    BY DEF File, Content
  <2>3. Done(h).file = h
    BY DEF Done
  <2> HIDE DEF h
  <2> QED
    BY <2>1, <2>2, <2>3 DEF Kept
<1>2. CASE ro.bucket[from] # "json"
  <2>1. Reencode(f, ro, from, to) = Done(f)
    BY <1>2 DEF Reencode, Error
  <2> QED
    BY <1>2, <2>1 DEF Done, Kept
<1> QED
  BY <1>1, <1>2

(* The functions of mig007 on the data, each from the backup. *)
SevenData(i, f, ro, g) ==
  /\ g \in File /\ g.exists = f.exists /\ g.version = f.version
  /\ Kept(f, g, "_system") /\ Kept(f, g, V1)
  /\ i > 8 => Kept(f, g, "objects")
  /\ i = 8 /\ ro.bucket["objects"] = "json" => g.bucket["objects"] = "proto"
  /\ i = 13 /\ ro.bucket["relations_obj"] = "json" =>
       g.bucket["relations_obj"] = "proto" /\ g.bucket["relations_sub"] = "proto"

(* The other functions of mig007 do so. *)
LEMMA Run7Data ==
  ASSUME NEW i \in 6 .. 13, NEW f \in File, NEW ro \in File, ro.exists, Apply(migMap[7][i], f, ro).ok
  PROVE  SevenData(i, f, ro, Apply(migMap[7][i], f, ro).file)
<1> USE DEF SevenData
<1> DEFINE r == Apply(migMap[7][i], f, ro)
<1>1. migMap[7] = mig007
  BY Lists
<1>2. /\ V1 \in Buckets /\ "_system" \in Buckets /\ "objects" \in Buckets
      /\ "relations_obj" \in Buckets /\ "relations_sub" \in Buckets
      /\ "objects" \notin {"_system", V1, "relations_obj", "relations_sub"}
      /\ "relations_obj" \notin {"_system", V1} /\ "relations_sub" \notin {"_system", V1}
  BY DEF Buckets, V1
<1>3. CASE i \in {6, 9, 11}
  <2>1. \E b \in {"objects", "relations_obj", "relations_sub"} :
          mig007[i] = delete(b) /\ (i > 8 => b # "objects")
    BY <1>2, <1>3, List7
  <2>2. PICK b \in {"objects", "relations_obj", "relations_sub"} :
          mig007[i] = delete(b) /\ (i > 8 => b # "objects")
    BY <2>1
  <2>3. r = DeleteBucket(f, b)
    BY <1>1, <2>2, ApplyBucket
  <2> QED
    BY <1>2, <1>3, <2>2, <2>3, DeleteFile DEF Kept
<1>4. CASE i \in {7, 10, 12}
  <2>1. \E b \in Buckets : mig007[i] = create(b)
    BY <1>2, <1>4, List7
  <2>2. PICK b \in Buckets : mig007[i] = create(b)
    BY <2>1
  <2>3. r = CreateBucket(f, b)
    BY <1>1, <2>2, ApplyBucket
  <2> QED
    BY <1>2, <1>4, <2>3, CreateFile DEF Grown
<1>5. CASE i = 8
  <2>1. r = Update("objects7", f, ro)
    BY <1>1, <1>5, List7, ApplyUpdate
  <2>2. r = Reencode(f, ro, "objects", {"objects"})
    BY <2>1, Updates DEF updateEncodingObjects
  <2>3. {"objects"} \in SUBSET Buckets
    BY <1>2
  <2> QED
    BY <1>2, <1>5, <2>2, <2>3, ReencodeFile
<1>6. CASE i = 13
  <2>1. r = Update("relations7", f, ro)
    BY <1>1, <1>6, List7, ApplyUpdate
  <2>2. r = Reencode(f, ro, "relations_obj", {"relations_obj", "relations_sub"})
    BY <2>1, Updates DEF updateEncodingRelations
  <2>3. {"relations_obj", "relations_sub"} \in SUBSET Buckets
    BY <1>2
  <2> QED
    BY <1>2, <1>6, <2>2, <2>3, ReencodeFile
<1>7. i \in {6, 9, 11} \/ i \in {7, 10, 12} \/ i = 8 \/ i = 13
  OBVIOUS
<1> QED
  BY <1>3, <1>4, <1>5, <1>6, <1>7

-----------------------------------------------------------------------------
(* The steps, by what they do to the file.                                 *)

Others(p) == had' = had /\ \A q \in Processes \ {p} : proc'[q] = proc[q]

(* A step has the lock or gives it back by what it does next. *)
Shared(p) ==
  /\ proc' \in [Processes -> Process] /\ stale' \in BOOLEAN /\ (stale => stale')
  /\ \A q \in Processes \ {p} : lock' = q <=> lock = q
  /\ lock' = p <=> proc'[p].at \in {"backup", "execute", "serving"}

(* A step that leaves the file alone, and does not begin with its functions. *)
Quiet(p) ==
  /\ file' = file
  /\ proc'[p].at # "execute"
  /\ proc'[p].at = "backup" =>
       /\ proc[p].at = "migrate" /\ proc'[p].next = proc[p].next /\ proc'[p].cur = proc[p].cur
       /\ stale' \/ GetVersion = proc[p].cur
  /\ proc'[p].at = "migrate" =>
       /\ proc[p].at = "current" /\ GetVersion # Required
       /\ proc'[p].next = GetVersion + 1 /\ proc'[p].cur = GetVersion
  /\ proc'[p].at = "open" => GetVersion = Required /\ lock = Nobody
  /\ proc'[p].at = "serving" => proc[p].at = "open"
  /\ proc[p].at = "execute" => proc'[p].at = "off"
  /\ proc[p].at \in {"off", "check"} /\ (~file.exists \/ file.version = Required + 1 \/ lock # Nobody) =>
       proc'[p].at \in {"off", "check"}

(* create begins. *)
Begun(p) ==
  /\ proc[p].at = "check" /\ lock = Nobody /\ ~file.exists
  /\ file' = [file EXCEPT !.exists = TRUE]
  /\ proc'[p].at = "execute" /\ proc'[p].next = Required /\ ~proc'[p].ro.exists /\ proc'[p].i = 1

(* The backup is made. *)
Copied(p) ==
  /\ proc[p].at = "backup" /\ file' = file
  /\ proc'[p].at = "execute" /\ proc'[p].next = proc[p].next /\ proc'[p].ro = file /\ proc'[p].i = 1

(* A function succeeds. *)
Ran(p) ==
  LET r == Apply(migMap[proc[p].next][proc[p].i], file, proc[p].ro)
  IN  /\ Executing(p) /\ proc[p].i <= Len(migMap[proc[p].next]) /\ r.ok /\ file' = r.file
      /\ proc'[p].at = "execute" /\ proc'[p].next = proc[p].next /\ proc'[p].ro = proc[p].ro
      /\ proc'[p].i = proc[p].i + 1

(* The version is stored. *)
Stored(p) ==
  /\ Executing(p) /\ proc[p].i > Len(migMap[proc[p].next])
  /\ file' = IF file.bucket["_system"] = "none" THEN file ELSE [file EXCEPT !.version = proc[p].next]
  /\ proc'[p].at = IF proc[p].ro.exists THEN "current" ELSE "open"

Kind(p) == Quiet(p) \/ Begun(p) \/ Copied(p) \/ Ran(p) \/ Stored(p)

(* Off has its type. *)
LEMMA OffProcess == Off \in Process /\ NoFile \in File
<1>1. NoFile \in File
  BY DEF NoFile, File, Content
<1> QED
  BY <1>1 DEF Off, Process, Ats

(* Every step is of one of these kinds. *)
LEMMA Kinds ==
  ASSUME Types, Locking, NEW p \in Processes, Step(p) \/ Crash(p)
  PROVE  Others(p) /\ Shared(p) /\ Kind(p)
<1>0. /\ proc \in [Processes -> Process] /\ proc[p] \in Process /\ stale \in BOOLEAN
      /\ GetVersion \in Nat /\ (file.version = Required + 1 => GetVersion > Required)
  BY DEF Types, GetVersion, File, Versions, Base, Required
<1>1. CASE Start(p)
  BY <1>0, <1>1 DEF Locking, Start, GoTo, Others, Shared, Kind, Quiet, Process, Ats
<1>2. CASE CheckSchemaVersion(p) /\ ~file.exists
  <2>1. /\ proc[p].at = "check" /\ lock = Nobody /\ lock' = p /\ had' = had /\ stale' = stale
        /\ file' = [file EXCEPT !.exists = TRUE]
        /\ proc' = [proc EXCEPT ![p] = [at |-> "execute", cur |-> 0, next |-> Required, ro |-> NoFile, i |-> 1]]
    BY <1>2 DEF CheckSchemaVersion, BeginCreate
  <2>2. [at |-> "execute", cur |-> 0, next |-> Required, ro |-> NoFile, i |-> 1] \in Process
    BY OffProcess DEF Process, Ats, Required
  <2>3. Begun(p)
    BY <1>0, <1>2, <2>1 DEF Begun, NoFile
  <2> QED
    BY <1>0, <2>1, <2>2, <2>3, ProcessesAssumption DEF Others, Shared, Kind
<1>3. CASE CheckSchemaVersion(p) /\ file.exists
  <2>1. file' = file /\ had' = had /\ proc[p].at = "check" /\ lock = Nobody /\ lock' = lock /\ stale' = stale
    BY <1>3 DEF CheckSchemaVersion
  <2>2. PICK at : GoTo(p, at) /\ at = (CASE GetVersion = Required -> "open"
                                         [] GetVersion < Required -> "current"
                                         [] GetVersion > Required -> "off")
    BY <1>3, Zenon DEF CheckSchemaVersion
  <2>3. /\ at \in {"open", "current", "off"} /\ (at = "open" => GetVersion = Required)
        /\ (GetVersion > Required => at = "off")
    BY <1>0, <2>2 DEF Required
  <2> QED
    BY <1>0, <1>3, <2>1, <2>2, <2>3, ProcessesAssumption DEF Locking, GoTo, Others, Shared, Kind, Quiet, Process, Ats
<1>4. CASE getCurrent(p)
  BY <1>0, <1>4 DEF Locking, getCurrent, GoTo, Others, Shared, Kind, Quiet, Process, Ats
<1>5. CASE OpenDB(p)
  BY <1>0, <1>5, ProcessesAssumption DEF Locking, OpenDB, GoTo, Others, Shared, Kind, Quiet, Process, Ats
<1>6. CASE Backup(p)
  BY <1>0, <1>6 DEF Types, Locking, Backup, Others, Shared, Kind, Copied, Process, Ats
<1>7. CASE execute(p)
  <2> DEFINE r == Apply(migMap[proc[p].next][proc[p].i], file, proc[p].ro)
  <2>1. /\ Executing(p) /\ proc[p].i <= Len(migMap[proc[p].next]) /\ had' = had /\ stale' = stale
        /\ \/ r.ok /\ file' = r.file /\ proc' = [proc EXCEPT ![p].i = @ + 1] /\ lock' = lock
           \/ file' = file /\ proc' = [proc EXCEPT ![p] = Off] /\ lock' = Nobody
    BY <1>7 DEF execute, Executing
  <2>2. lock = p
    BY <2>1 DEF Executing, Locking
  <2> HIDE DEF r
  <2>3. CASE r.ok /\ file' = r.file /\ proc' = [proc EXCEPT ![p].i = @ + 1] /\ lock' = lock
    <3>1. [proc[p] EXCEPT !.i = @ + 1] \in Process
      BY <1>0 DEF Process
    <3>2. /\ \A q \in Processes \ {p} : proc'[q] = proc[q]
          /\ proc' \in [Processes -> Process] /\ proc'[p] = [proc[p] EXCEPT !.i = @ + 1]
      BY <1>0, <2>3, <3>1
    <3>3. /\ proc'[p].at = "execute" /\ proc'[p].next = proc[p].next /\ proc'[p].ro = proc[p].ro
          /\ proc'[p].i = proc[p].i + 1
      BY <1>0, <2>1, <3>2 DEF Process, Executing
    <3> QED
      BY <1>0, <2>1, <2>2, <2>3, <3>2, <3>3 DEF Others, Shared, Kind, Ran, Executing, r
  <2>4. CASE file' = file /\ proc' = [proc EXCEPT ![p] = Off] /\ lock' = Nobody
    BY <1>0, <2>1, <2>2, <2>4, OffProcess, ProcessesAssumption
       DEF Others, Shared, Kind, Quiet, Off, Executing
  <2> QED
    BY <2>1, <2>3, <2>4
<1>8. CASE SetVersion(p)
  <2>1. lock = p
    BY <1>8 DEF SetVersion, SetVersionWith, Locking
  <2>2. [Off EXCEPT !.at = IF proc[p].ro.exists THEN "current" ELSE "open"] \in Process
    BY OffProcess DEF Off, Process, Ats
  <2> QED
    BY <1>0, <1>8, <2>1, <2>2, ProcessesAssumption
       DEF SetVersion, SetVersionWith, Others, Shared, Kind, Stored, Executing, Off
<1>9. CASE Recheck(p)
  BY <1>0, <1>9 DEF Locking, Recheck, GoTo, Others, Shared, Kind, Quiet, Process, Ats
<1>10. CASE OpenStore(p)
  BY <1>0, <1>10, ProcessesAssumption DEF Locking, OpenStore, GoTo, Others, Shared, Kind, Quiet, Process, Ats
<1>11. CASE LockTimeout(p)
  BY <1>0, <1>11, OffProcess DEF Locking, LockTimeout, Others, Shared, Kind, Quiet, Off
<1>12. CASE Crash(p)
  BY <1>0, <1>12, OffProcess, ProcessesAssumption DEF Locking, Crash, Others, Shared, Kind, Quiet, Off
<1>13. file.exists \/ ~file.exists
  OBVIOUS
<1> QED
  BY <1>1, <1>2, <1>3, <1>4, <1>5, <1>6, <1>7, <1>8, <1>9, <1>10, <1>11, <1>12, <1>13 DEF Step

(* The lengths of the lists. *)
LEMMA Lengths == Len(migMap[7]) = 13 /\ Len(migMap[9]) = 7 /\ \A v \in {5, 6, 8} : Len(migMap[v]) = 6
BY Lists, List4, List7, List9

(* What a function of a migration does to the file. *)
LEMMA RanFunction ==
  ASSUME Types, Plans, NEW p \in Processes, Ran(p)
  PROVE  /\ proc[p].i \in Nat \ {0} /\ proc[p].i <= Len(migMap[proc[p].next])
         /\ proc[p].next = 9 => Nine(proc[p].i, file, proc[p].ro, file')
         /\ proc[p].ro.exists /\ proc[p].next = 7 /\ proc[p].i <= 5 =>
              SevenManifest(proc[p].i, file, proc[p].ro, file')
         /\ proc[p].ro.exists /\ proc[p].next = 7 /\ proc[p].i > 5 =>
              SevenData(proc[p].i, file, proc[p].ro, file')
         /\ proc[p].ro.exists /\ proc[p].next \in {5, 6, 8} =>
              file' \in File /\ Grown(file, file') /\ (proc[p].i = 3 => proc[p].ro.bucket[V1] = "proto")
<1> DEFINE i == proc[p].i
           v == proc[p].next
           ro == proc[p].ro
<1>1. i \in Nat /\ i >= 1 /\ file \in File /\ ro \in File
  BY DEF Types, Process, Plans, Ran
<1>2. i <= Len(migMap[v]) /\ Apply(migMap[v][i], file, ro).ok /\ file' = Apply(migMap[v][i], file, ro).file
  BY DEF Ran
<1> HIDE DEF i, v, ro
<1>3. ASSUME v = 9 PROVE Nine(i, file, ro, file')
  <2>1. i <= Len(migMap[9])
    BY <1>2, <1>3
  <2>2. i \in 1 .. 7
    BY <1>1, <2>1, Lengths
  <2> QED
    BY <1>1, <1>2, <1>3, <2>2, Run9
<1>4. ASSUME ro.exists, v = 7, i <= 5 PROVE SevenManifest(i, file, ro, file')
  <2>1. i \in 1 .. 5
    BY <1>1, <1>4
  <2> QED
    BY <1>1, <1>2, <1>4, <2>1, Run7Manifest
<1>5. ASSUME ro.exists, v = 7, i > 5 PROVE SevenData(i, file, ro, file')
  <2>1. i <= Len(migMap[7])
    BY <1>2, <1>5
  <2>2. i \in 6 .. 13
    BY <1>1, <1>5, <2>1, Lengths
  <2> QED
    BY <1>1, <1>2, <1>5, <2>2, Run7Data
<1>6. ASSUME ro.exists, v \in {5, 6, 8} PROVE file' \in File /\ Grown(file, file') /\ (i = 3 => ro.bucket[V1] = "proto")
  <2>1. Len(migMap[v]) = 6
    BY <1>6, Lengths
  <2>2. i \in 1 .. 6
    BY <1>1, <1>2, <2>1
  <2> QED
    BY <1>1, <1>2, <1>6, <2>2, Run4, Zenon
<1>7. i \in Nat \ {0}
  BY <1>1
<1> QED
  BY <1>2, <1>3, <1>4, <1>5, <1>6, <1>7, Zenon DEF i, v, ro

(* A process past its first check has a file that is there and not too new. *)
LEMMA PastCheck ==
  ASSUME Types, Phase, NEW p \in Processes, proc[p].at \notin {"off", "check"}
  PROVE  file.exists /\ file.version <= Required
<1>0. file.version \in Nat
  BY DEF Types, File, Versions, Base, Required
<1>1. ~Absent /\ ~Ten
  BY DEF Absent, Ten, Before
<1>2. CASE Old \/ Lost \/ Mature
  BY <1>0, <1>2 DEF Old, Lost, Mature, Required
<1>3. CASE \E q \in Processes : Making(q) \/ Seven(q)
  BY <1>0, <1>3 DEF Making, Seven, Required
<1> QED
  BY <1>1, <1>2, <1>3 DEF Phase

-----------------------------------------------------------------------------
(* The phases.                                                             *)

(* A file that is not there stays so until create begins. *)
LEMMA AbsentStep ==
  ASSUME Types, NEW p \in Processes, Others(p), Kind(p), Absent
  PROVE  Absent' \/ Making(p)'
<1>1. Others(p) /\ (Quiet(p) \/ Begun(p) \/ Copied(p) \/ Ran(p) \/ Stored(p))
  BY DEF Kind
<1>2. proc[p].at \in {"off", "check"}
  BY DEF Absent, Before
<1>3. CASE Quiet(p)
  BY <1>1, <1>2, <1>3 DEF Others, Quiet, Absent, Before
<1>4. CASE Begun(p)
  <2>1. /\ file'.exists /\ file'.version = 0 /\ file'.bucket[V1] = "none"
    BY <1>4 DEF Begun, Absent, NoFile, Buckets, V1
  <2> QED
    BY <1>1, <1>4, <2>1 DEF Others, Begun, Absent, Before, Making, Executing, Required
<1> QED
  BY <1>1, <1>2, <1>3, <1>4 DEF Copied, Ran, Stored, Executing

(* Nobody migrates or serves a file that is too new. *)
LEMMA TenStep ==
  ASSUME Types, NEW p \in Processes, Others(p), Kind(p), Ten
  PROVE  Ten'
<1>1. Others(p) /\ (Quiet(p) \/ Begun(p) \/ Copied(p) \/ Ran(p) \/ Stored(p))
  BY DEF Kind
<1>2. proc[p].at \in {"off", "check"}
  BY DEF Ten, Before
<1>3. CASE Quiet(p)
  BY <1>1, <1>2, <1>3 DEF Others, Quiet, Ten, Before
<1> QED
  BY <1>1, <1>2, <1>3 DEF Begun, Copied, Ran, Stored, Executing, Ten

(* Only one process is at work on the file. *)
LEMMA OneWorks ==
  ASSUME Locking, NEW p \in Processes, NEW q \in Processes, p # q, Executing(p)
  PROVE  proc[q].at \notin {"backup", "execute", "serving"}
BY DEF Locking, Executing

(* The process that runs a function goes on to the next. *)
LEMMA RanOn ==
  ASSUME Types, Plans, NEW p \in Processes, Others(p), Ran(p)
  PROVE  /\ Executing(p) /\ Executing(p)' /\ proc'[p].ro = proc[p].ro /\ proc'[p].next = proc[p].next
         /\ proc'[p].i = proc[p].i + 1 /\ had' = had
         /\ proc[p].i \in Nat \ {0} /\ proc[p].next \in 5 .. 9 /\ (~proc[p].ro.exists => proc[p].next = 9)
<1>1. Executing(p) /\ Executing(p)' /\ proc'[p].ro = proc[p].ro /\ proc'[p].next = proc[p].next
  BY DEF Ran, Executing
<1>2. proc'[p].i = proc[p].i + 1 /\ had' = had
  BY DEF Ran, Others
<1>3. proc[p].i \in Nat /\ proc[p].i >= 1 /\ proc[p].next \in 5 .. 9 /\ (~proc[p].ro.exists => proc[p].next = 9)
  BY <1>1 DEF Plans, Executing, Types, Process, Required
<1> QED
  BY <1>1, <1>2, <1>3

(* create makes the file in one go, or leaves one with nothing in it. *)
LEMMA MakingStep ==
  ASSUME Types, Locking, Plans, NEW p \in Processes, Others(p), Kind(p), NEW m \in Processes, Making(m)
  PROVE  Making(m)' \/ Mature' \/ Lost'
<1>1. Others(p) /\ (Quiet(p) \/ Begun(p) \/ Copied(p) \/ Ran(p) \/ Stored(p))
  BY DEF Kind
<1>2. lock = m /\ lock # Nobody
  BY ProcessesAssumption DEF Making, Executing, Locking
<1>3. CASE p # m
  <2>1. proc[p].at \in {"off", "check"}
    BY <1>3 DEF Making
  <2>2. Quiet(p)
    BY <1>1, <2>1 DEF Begun, Copied, Ran, Stored, Executing, Making
  <2> QED
    BY <1>1, <1>2, <1>3, <2>1, <2>2 DEF Others, Quiet, Making, Executing
<1>4. CASE p = m /\ Quiet(m)
  BY <1>1, <1>4 DEF Others, Quiet, Making, Executing, Lost, Early
<1>5. CASE p = m /\ Ran(m)
  <2>1. proc[m].next = 9 /\ ~proc[m].ro.exists /\ proc[m].i \in Nat
    BY DEF Making, Types, Process, Required
  <2>2. Nine(proc[m].i, file, proc[m].ro, file') /\ proc[m].i \in Nat \ {0}
    BY <1>5, <2>1, RanFunction
  <2>3. file'.bucket["_system"] # "none"
    <3>1. "_system" \in Buckets \ {V1, V2}
      BY DEF Buckets, V1, V2
    <3> QED
      BY <2>1, <2>2, <3>1 DEF Nine, Making, Kept
  <2>4. file'.bucket[V1] # "json"
    BY <2>2 DEF Nine, Making, Kept
  <2> QED
    BY <1>1, <1>5, <2>1, <2>2, <2>3, <2>4, Zenon DEF Others, Nine, Ran, Making, Executing, Required
<1>6. CASE p = m /\ Stored(m)
  <2>1. proc[m].next = 9 /\ ~proc[m].ro.exists /\ file \in File /\ proc[m].i > 1
    BY <1>6, Lengths DEF Stored, Making, Types, Process, Required
  <2>2. file' = [file EXCEPT !.version = 9]
    BY <1>6, <2>1 DEF Stored, Making
  <2>3. file'.exists /\ file'.version = 9 /\ file'.bucket[V1] # "json"
    BY <2>1, <2>2 DEF Making, File
  <2> QED
    BY <1>1, <1>6, <2>3 DEF Others, Stored, Making, Executing, Mature, NewObjects, NewRelations, NewManifest, Required
<1> QED
  BY <1>1, <1>3, <1>4, <1>5, <1>6 DEF Begun, Copied, Making, Executing

(* With a version up to 6 stored, nobody gets further than mig007. *)
LEMMA EarlyStep ==
  ASSUME Types, Early, NEW p \in Processes, Others(p), file.version <= 6,
         Quiet(p) \/ Copied(p) \/ Ran(p) \/ (Stored(p) /\ proc[p].ro.exists)
  PROVE  Early'
<1>1. GetVersion \in Nat /\ GetVersion <= 6
  BY DEF GetVersion, Types, File, Versions, Base, Required
<1>2. CASE Quiet(p)
  BY <1>1, <1>2 DEF Quiet, Others, Early, Required
<1>3. CASE Copied(p) \/ Ran(p) \/ (Stored(p) /\ proc[p].ro.exists)
  BY <1>3 DEF Copied, Ran, Stored, Others, Early, Executing
<1> QED
  BY <1>2, <1>3

(* A file in the old encoding stays so until mig007 deletes its manifest. *)
LEMMA OldStep ==
  ASSUME Types, Locking, Plans, NEW p \in Processes, Others(p), Kind(p), Old
  PROVE  Old' \/ Seven(p)'
<1>1. Others(p) /\ (Quiet(p) \/ Begun(p) \/ Copied(p) \/ Ran(p) \/ Stored(p))
  BY DEF Kind
<1>2. ~Begun(p)
  BY DEF Begun, Old
<1>3. CASE Quiet(p)
  <2>1. Early'
    BY <1>1, <1>3, EarlyStep DEF Old
  <2>2. \A q \in Processes : Executing(q)' => q # p /\ Executing(q) /\ proc'[q] = proc[q]
    BY <1>1, <1>3 DEF Quiet, Others, Executing
  <2>3. file' = file /\ had' = had
    BY <1>1, <1>3 DEF Quiet, Others
  <2>4. /\ OldData(file)' <=> OldData(file)
        /\ \A q \in Processes : Executing(q)' => (OldData(proc[q].ro)' <=> OldData(proc[q].ro))
    BY <2>2, <2>3 DEF OldData
  <2>5. \A q \in Processes : Executing(q)' => (Begins(q)' <=> Begins(q))
    BY <2>2, <2>3, <2>4 DEF Begins
  <2> QED
    BY <2>1, <2>2, <2>3, <2>4, <2>5 DEF Old
<1>4. CASE Copied(p)
  <2>1. Early'
    BY <1>1, <1>4, EarlyStep DEF Old
  <2>2. \A q \in Processes \ {p} : Executing(q)' => Executing(q) /\ proc'[q] = proc[q]
    BY <1>1 DEF Others, Executing
  <2>3. file' = file /\ had' = had /\ proc'[p].i = 1 /\ proc'[p].ro = file
    BY <1>1, <1>4 DEF Copied, Others
  <2>4. Begins(p)'
    BY <2>3 DEF Old, OldData, Begins
  <2> QED
    BY <2>1, <2>2, <2>3, <2>4 DEF Old, OldData, Begins
<1>5. CASE Ran(p)
  <2>1. Early'
    BY <1>1, <1>5, EarlyStep DEF Old
  <2>2. /\ Executing(p) /\ proc[p].ro.exists /\ proc[p].ro.bucket[V1] = "json" /\ OldData(proc[p].ro)
        /\ proc[p].i <= 3 /\ proc[p].next \in {5, 6, 7}
    <3>1. Executing(p) /\ proc[p].next \in 5 .. 9
      BY <1>5, RanOn
    <3>2. Begins(p) /\ proc[p].next <= 7
      BY <3>1 DEF Old, Early, Executing
    <3> QED
      BY <3>1, <3>2 DEF Begins
  <2>3. \A q \in Processes \ {p} : ~Executing(q)'
    BY <1>1, <2>2, OneWorks DEF Others, Executing
  <2>4. V1 \in Buckets \ {"_system"} /\ "objects" \in Buckets \ {"_system", V1}
        /\ "relations_obj" \in Buckets \ {"_system", V1} /\ "_system" \in Buckets
    BY DEF Buckets, V1
  <2>5. /\ Executing(p)' /\ proc'[p].ro = proc[p].ro /\ proc'[p].next = proc[p].next
        /\ proc'[p].i = proc[p].i + 1 /\ had' = had /\ proc[p].i \in Nat \ {0}
    BY <1>5, RanOn
  <2>6. CASE proc[p].next \in {5, 6}
    <3>1. Grown(file, file') /\ proc[p].i # 3
      BY <1>5, <2>2, <2>6, RanFunction
    <3>2. file'.exists /\ file'.version <= 6 /\ file'.bucket[V1] = "json" /\ OldData(file)'
      BY <2>4, <2>5, <3>1 DEF Old, OldData, Grown, Kept
    <3>3. Begins(p)'
      BY <2>2, <2>5, <2>6, <3>1 DEF Begins, OldData
    <3> QED
      BY <2>1, <2>3, <3>2, <3>3 DEF Old
  <2>7. CASE proc[p].next = 7
    <3>1. SevenManifest(proc[p].i, file, proc[p].ro, file')
      <4>1. proc[p].i <= 5
        BY <2>2, <2>5
      <4> QED
        BY <1>5, <2>2, <2>7, <4>1, RanFunction
    <3>2. file'.exists /\ file'.version <= 6 /\ OldData(file)'
      BY <2>4, <2>5, <3>1 DEF Old, OldData, SevenManifest, Kept
    <3>3. CASE proc[p].i = 3
      <4>1. file'.bucket["_system"] # "none" /\ file'.bucket[V1] = "none"
        BY <2>2, <2>7, <3>1, <3>3 DEF SevenManifest, Kept, Old, Begins
      <4> QED
        BY <2>1, <2>2, <2>5, <2>7, <3>2, <3>3, <4>1 DEF Seven, OldData
    <3>4. CASE proc[p].i # 3
      <4>1. proc[p].i \in {1, 2}
        BY <2>2, <2>5, <3>4
      <4>2. file'.bucket[V1] = "json" /\ (proc[p].i = 2 => file'.bucket["_system"] # "none")
        BY <3>1, <4>1 DEF SevenManifest, Kept, Old
      <4>3. Begins(p)'
        BY <2>2, <2>5, <4>1, <4>2 DEF Begins, OldData
      <4> QED
        BY <2>1, <2>3, <3>2, <4>2, <4>3 DEF Old
    <3> QED
      BY <3>3, <3>4
  <2> QED
    BY <2>2, <2>6, <2>7
<1>6. ASSUME Stored(p) PROVE FALSE
  <2>1. Executing(p) /\ proc[p].i > Len(migMap[proc[p].next])
    BY <1>6 DEF Stored
  <2>2. proc[p].i <= 3 /\ proc[p].next \in {5, 6, 7} /\ proc[p].i \in Nat
    <3>1. Begins(p) /\ proc[p].next <= 7
      BY <2>1 DEF Old, Early, Executing
    <3>2. proc[p].next \in 5 .. 9 /\ proc[p].i \in Nat
      BY <2>1 DEF Executing, Plans, Required, Types, Process
    <3> QED
      BY <3>1, <3>2 DEF Begins
  <2>3. Len(migMap[proc[p].next]) = 6 \/ Len(migMap[proc[p].next]) = 13
    BY <2>2, Lengths
  <2>4. proc[p].i > 6 \/ proc[p].i > 13
    BY <2>1, <2>3, Zenon
  <2> QED
    BY <2>2, <2>4
<1> QED
  BY <1>1, <1>2, <1>3, <1>4, <1>5, <1>6

(* Once mig007 has deleted the manifest, the same attempt brings all over or *)
(* nobody does.                                                              *)
LEMMA SevenStep ==
  ASSUME Types, Locking, Plans, NEW p \in Processes, Others(p), Kind(p), NEW m \in Processes, Seven(m)
  PROVE  Seven(m)' \/ Mature' \/ Lost'
<1>1. Others(p) /\ (Quiet(p) \/ Begun(p) \/ Copied(p) \/ Ran(p) \/ Stored(p))
  BY DEF Kind
<1>2. Executing(m) /\ file.version <= 6 /\ Early
  BY DEF Seven
<1>3. \A q \in Processes \ {m} : ~Executing(q) /\ proc[q].at \notin {"backup", "execute", "serving"}
  BY <1>2, OneWorks DEF Executing
<1>4. CASE p # m
  <2>1. Quiet(p)
    BY <1>1, <1>3, <1>4 DEF Begun, Copied, Ran, Stored, Seven, Executing
  <2>2. Early'
    BY <1>1, <1>2, <2>1, EarlyStep
  <2> QED
    BY <1>1, <1>4, <2>1, <2>2 DEF Quiet, Others, Seven, Executing, OldData, NewObjects, NewRelations
<1>5. CASE p = m /\ Quiet(m)
  <2>1. Early'
    BY <1>1, <1>2, <1>5, EarlyStep
  <2>2. \A q \in Processes : ~Executing(q)'
    BY <1>1, <1>3, <1>5 DEF Quiet, Others, Executing
  <2> QED
    BY <1>5, <2>1, <2>2 DEF Quiet, Seven, Lost
<1>6. CASE p = m /\ Ran(m)
  <2>1. Early'
    BY <1>1, <1>2, <1>6, EarlyStep
  <2>2. /\ proc[m].ro.exists /\ proc[m].ro.bucket[V1] = "json" /\ OldData(proc[m].ro)
        /\ proc[m].next = 7 /\ proc[m].i \in 4 .. 13
    <3>1. proc[m].i <= Len(migMap[7]) /\ proc[m].next = 7 /\ proc[m].i \in 4 .. 14
      BY <1>6 DEF Ran, Seven
    <3> QED
      BY <3>1, Lengths DEF Seven
  <2>3. /\ Executing(m)' /\ proc'[m].ro = proc[m].ro /\ proc'[m].next = 7 /\ proc'[m].i = proc[m].i + 1
        /\ had' = had
    BY <1>6, <2>2, RanOn
  <2>4. OldData(proc[m].ro)' /\ proc'[m].i \in 4 .. 14
    BY <2>2, <2>3 DEF OldData
  <2>5. CASE proc[m].i <= 5
    <3>1. SevenManifest(proc[m].i, file, proc[m].ro, file')
      BY <1>6, <2>2, <2>5, RanFunction
    <3>2. /\ file'.exists /\ file'.version <= 6 /\ file'.bucket["_system"] # "none"
          /\ file'.bucket[V1] # "json"
      <4>1. file.exists /\ file.version <= 6 /\ file.bucket["_system"] # "none" /\ file.bucket[V1] # "json"
        BY DEF Seven
      <4> QED
        BY <2>2, <2>5, <3>1, <4>1 DEF SevenManifest, Kept
    <3>3. ~(proc'[m].i >= 9) /\ proc'[m].i # 14
      BY <2>2, <2>3, <2>5
    <3> QED
      BY <2>1, <2>2, <2>3, <2>4, <3>2, <3>3 DEF Seven
  <2>6. CASE proc[m].i > 5
    <3>1. SevenData(proc[m].i, file, proc[m].ro, file')
      BY <1>6, <2>2, <2>6, RanFunction
    <3>2. /\ file'.exists /\ file'.version <= 6 /\ file'.bucket["_system"] # "none"
          /\ file'.bucket[V1] # "json"
      BY <3>1 DEF SevenData, Kept, Seven
    <3>3. proc'[m].i >= 9 => NewObjects'
      <4>1. CASE proc[m].i = 8
        BY <2>2, <2>3, <3>1, <4>1 DEF SevenData, OldData, NewObjects
      <4>2. CASE proc[m].i > 8
        BY <2>2, <2>3, <3>1, <4>2 DEF SevenData, Kept, Seven, NewObjects
      <4> QED
        BY <2>2, <2>3, <4>1, <4>2
    <3>4. proc'[m].i = 14 => NewRelations'
      BY <2>2, <2>3, <3>1 DEF SevenData, OldData, NewRelations
    <3> QED
      BY <2>1, <2>2, <2>3, <2>4, <3>2, <3>3, <3>4 DEF Seven
  <2> QED
    BY <2>2, <2>5, <2>6
<1>7. CASE p = m /\ Stored(m)
  <2>1. proc[m].next = 7 /\ proc[m].i > 13 /\ proc[m].i \in 4 .. 14 /\ file \in File /\ proc[m].ro.exists
    BY <1>7, Lengths DEF Stored, Seven, Types
  <2>2. file' = [file EXCEPT !.version = 7] /\ NewObjects /\ NewRelations
    BY <1>7, <2>1 DEF Stored, Seven
  <2>3. /\ file'.exists /\ file'.version = 7 /\ file'.bucket = file.bucket
    BY <2>1, <2>2 DEF Seven, File
  <2>4. had' = had /\ \A q \in Processes : ~Executing(q)' /\ proc'[q].at \notin {"open", "serving"}
    BY <1>1, <1>2, <1>3, <1>7, <2>1 DEF Others, Stored, Executing, Early
  <2> QED
    BY <2>2, <2>3, <2>4 DEF Mature, Placed, Seven, NewObjects, NewRelations, Required
<1>8. CASE p = m /\ (Begun(m) \/ Copied(m))
  BY <1>2, <1>8 DEF Begun, Copied, Executing
<1> QED
  BY <1>1, <1>4, <1>5, <1>6, <1>7, <1>8

(* A file that lost its manifest on the way never gets past mig007. *)
LEMMA LostStep ==
  ASSUME Types, Locking, Plans, NEW p \in Processes, Others(p), Kind(p), Lost
  PROVE  Lost'
<1>1. Others(p) /\ (Quiet(p) \/ Begun(p) \/ Copied(p) \/ Ran(p) \/ Stored(p))
  BY DEF Kind
<1>2. file.version <= 6 /\ Early
  BY DEF Lost
<1>3. ~Begun(p)
  BY DEF Begun, Lost
<1>4. CASE Quiet(p)
  <2>1. Early'
    BY <1>1, <1>2, <1>4, EarlyStep
  <2> QED
    BY <1>1, <1>4, <2>1 DEF Quiet, Others, Lost, Stuck, Executing
<1>5. CASE Copied(p)
  <2>1. Early'
    BY <1>1, <1>2, <1>5, EarlyStep
  <2> QED
    BY <1>1, <1>5, <2>1 DEF Copied, Others, Lost, Stuck, Executing
<1>6. CASE Ran(p)
  <2>1. Early'
    BY <1>1, <1>2, <1>6, EarlyStep
  <2>2. /\ Executing(p) /\ proc[p].ro.exists /\ proc[p].ro.bucket[V1] # "json" /\ proc[p].next \in {5, 6, 7}
        /\ proc[p].next = 7 => proc[p].i <= 5
    <3>1. Executing(p) /\ proc[p].next \in 5 .. 9
      BY <1>6, RanOn
    <3>2. Stuck(p) /\ proc[p].next <= 7
      BY <1>2, <3>1 DEF Lost, Early, Executing
    <3> QED
      BY <3>1, <3>2 DEF Stuck
  <2>3. \A q \in Processes \ {p} : ~Executing(q)'
    BY <1>1, <2>2, OneWorks DEF Others, Executing
  <2>4. /\ Executing(p)' /\ proc'[p].ro = proc[p].ro /\ proc'[p].next = proc[p].next
        /\ proc'[p].i = proc[p].i + 1 /\ proc[p].i \in Nat \ {0}
    BY <1>6, RanOn
  <2>5. CASE proc[p].next \in {5, 6}
    <3>1. Grown(file, file')
      BY <1>6, <2>2, <2>5, RanFunction
    <3>2. V1 \in Buckets
      BY DEF V1, Buckets
    <3>3. file'.exists /\ file'.version <= 6 /\ file'.bucket[V1] # "json"
      BY <3>1, <3>2 DEF Lost, Grown, Kept
    <3> QED
      BY <2>1, <2>2, <2>3, <2>4, <2>5, <3>3 DEF Lost, Stuck
  <2>6. CASE proc[p].next = 7
    <3>1. SevenManifest(proc[p].i, file, proc[p].ro, file')
      BY <1>6, <2>2, <2>6, RanFunction
    <3>2. proc[p].i \in 1 .. 4
      <4>1. proc[p].i # 5
        BY <2>2, <3>1 DEF SevenManifest
      <4> QED
        BY <2>2, <2>4, <2>6, <4>1
    <3>3. file'.exists /\ file'.version <= 6 /\ file'.bucket[V1] # "json"
      BY <3>1, <3>2 DEF Lost, SevenManifest, Kept
    <3> QED
      BY <2>1, <2>2, <2>3, <2>4, <3>2, <3>3 DEF Lost, Stuck
  <2> QED
    BY <2>2, <2>5, <2>6
<1>7. CASE Stored(p)
  <2>0. Executing(p) /\ proc[p].i > Len(migMap[proc[p].next])
    BY <1>7 DEF Stored
  <2>1. /\ Executing(p) /\ proc[p].ro.exists /\ proc[p].next \in {5, 6, 7} /\ proc[p].i \in Nat
        /\ proc[p].next = 7 => proc[p].i <= 5
    <3>1. Stuck(p)
      BY <2>0 DEF Lost
    <3>2. proc[p].next \in 5 .. 9 /\ proc[p].next <= 7 /\ proc[p].i \in Nat
      BY <1>2, <2>0 DEF Executing, Early, Plans, Required, Types, Process
    <3> QED
      BY <2>0, <3>1, <3>2 DEF Stuck
  <2>2. proc[p].next # 7
    <3>1. proc[p].next = 7 => proc[p].i > 13
      BY <2>0, Lengths, Zenon
    <3> QED
      BY <2>1, <3>1
  <2>3. Early'
    BY <1>1, <1>2, <1>7, <2>1, EarlyStep
  <2>4. file'.exists /\ file'.version <= 6 /\ file'.bucket[V1] # "json"
    BY <1>7, <2>1, <2>2 DEF Stored, Lost, Types, File
  <2>5. \A q \in Processes : ~Executing(q)'
    BY <1>1, <1>7, <2>1, OneWorks DEF Others, Stored, Executing
  <2> QED
    BY <2>3, <2>4, <2>5 DEF Lost
<1> QED
  BY <1>1, <1>3, <1>4, <1>5, <1>6, <1>7

(* A file in the new encoding stays so, and is served with its manifest in *)
(* the new place.                                                          *)
LEMMA MatureStep ==
  ASSUME Types, Locking, Plans, NEW p \in Processes, Others(p), Kind(p), Mature
  PROVE  Mature'
<1>1. Others(p) /\ (Quiet(p) \/ Begun(p) \/ Copied(p) \/ Ran(p) \/ Stored(p))
  BY DEF Kind
<1>2. ~Begun(p)
  BY DEF Begun, Mature
<1>3. CASE Quiet(p)
  <2>1. GetVersion = Required => file.version = Required
    BY DEF GetVersion, Base, Required
  <2>2. file' = file /\ had' = had
    BY <1>1, <1>3 DEF Quiet, Others
  <2>3. \A q \in Processes \ {p} : proc'[q] = proc[q]
    BY <1>1 DEF Others
  <2>4. ~Executing(p)' /\ (Placed(p)' => Placed(p) \/ file.version = Required)
    BY <1>3, <2>1 DEF Quiet, Placed, Executing
  <2> QED
    BY <2>2, <2>3, <2>4 DEF Mature, Stuck, Placed, Executing, NewObjects, NewRelations, NewManifest
<1>4. CASE Copied(p)
  <2>1. file' = file /\ had' = had
    BY <1>1, <1>4 DEF Copied, Others
  <2>2. \A q \in Processes \ {p} : proc'[q] = proc[q]
    BY <1>1 DEF Others
  <2>3. Stuck(p)' /\ ~Placed(p)'
    BY <1>4 DEF Copied, Mature, Stuck, Placed, Executing
  <2> QED
    BY <2>1, <2>2, <2>3 DEF Mature, Stuck, Placed, Executing, NewObjects, NewRelations, NewManifest
<1>5. CASE Ran(p)
  <2>1. /\ Executing(p) /\ proc[p].ro.exists /\ proc[p].ro.bucket[V1] # "json"
        /\ proc[p].next = 7 => proc[p].i <= 5
        /\ proc[p].next \in 5 .. 9
    <3>1. Executing(p) /\ proc[p].next \in 5 .. 9
      BY <1>5, RanOn
    <3>2. Stuck(p)
      BY <3>1 DEF Mature
    <3> QED
      BY <3>1, <3>2 DEF Stuck
  <2>2. \A q \in Processes \ {p} : ~Executing(q)' /\ proc'[q] = proc[q]
    BY <1>1, <2>1, OneWorks DEF Others, Executing
  <2>3. /\ Executing(p)' /\ proc'[p].ro = proc[p].ro /\ proc'[p].next = proc[p].next
        /\ proc'[p].i = proc[p].i + 1 /\ proc[p].i \in Nat \ {0} /\ had' = had
    BY <1>5, RanOn
  <2>4. /\ V1 \in Buckets \ {"_system"} /\ V2 \in Buckets \ {"_system", V1}
        /\ "objects" \in Buckets \ {"_system", V1, V2}
        /\ "relations_obj" \in Buckets \ {"_system", V1, V2}
        /\ "relations_sub" \in Buckets \ {"_system", V1, V2}
    BY DEF Buckets, V1, V2
  <2>5. SUFFICES /\ file'.exists /\ file'.version <= Required /\ file'.bucket[V1] # "json"
                 /\ Kept(file, file', "objects")
                 /\ Kept(file, file', "relations_obj") /\ Kept(file, file', "relations_sub")
                 /\ file.bucket[V2] = "proto" => file'.bucket[V2] = "proto"
                 /\ proc[p].next = 7 => proc[p].i <= 4
                 /\ proc[p].next = 9 /\ proc[p].i = 4 => file'.bucket[V2] = "proto"
                 /\ file'.version \in {file.version, 0}
    <3>1. NewObjects' /\ NewRelations' /\ (NewManifest => NewManifest')
      BY <2>3, <2>5 DEF Mature, NewObjects, NewRelations, NewManifest, Kept
    <3>2. Placed(p)' => NewManifest'
      <4>1. Placed(p)' => proc[p].next = 9 /\ (proc[p].i = 4 \/ proc[p].i >= 5)
        BY <2>3 DEF Placed, Executing
      <4>2. CASE proc[p].next = 9 /\ proc[p].i = 4
        BY <2>5, <4>2 DEF NewManifest
      <4>3. CASE proc[p].next = 9 /\ proc[p].i >= 5
        BY <2>1, <3>1, <4>3 DEF Mature, Placed
      <4> QED
        BY <4>1, <4>2, <4>3
    <3>3. Stuck(p)'
      <4>1. proc[p].next = 7 => proc'[p].i <= 5
        BY <2>3, <2>5
      <4> QED
        BY <2>1, <2>3, <4>1 DEF Stuck
    <3>4. file'.version = Required => NewManifest'
      <4>1. 0 # Required
        BY DEF Required
      <4> QED
        BY <2>5, <3>1, <4>1 DEF Mature
    <3>5. \A q \in Processes \ {p} : Placed(q)' => Placed(q)
      BY <2>2 DEF Placed, Executing
    <3> QED
      BY <2>2, <2>5, <3>1, <3>2, <3>3, <3>4, <3>5 DEF Mature
  <2>6. CASE proc[p].next \in {5, 6, 8}
    <3>1. Grown(file, file')
      BY <1>5, <2>1, <2>6, RanFunction
    <3>2. file.exists /\ file.version <= Required /\ file.bucket[V1] # "json"
      BY DEF Mature
    <3> QED
      BY <2>4, <2>6, <3>1, <3>2 DEF Grown, Kept
  <2>7. CASE proc[p].next = 7
    <3>1. SevenManifest(proc[p].i, file, proc[p].ro, file')
      BY <1>5, <2>1, <2>7, RanFunction
    <3>2. proc[p].i \in 1 .. 4
      <4>1. proc[p].i # 5
        BY <2>1, <3>1 DEF SevenManifest
      <4> QED
        BY <2>1, <2>3, <2>7, <4>1
    <3>3. file.exists /\ file.version <= Required /\ file.bucket[V1] # "json" /\ 0 <= Required
      <4>1. 0 <= Required
        BY DEF Required
      <4> QED
        BY <4>1 DEF Mature
    <3>4. /\ file'.exists /\ file'.version \in {file.version, 0}
          /\ Kept(file, file', V2) /\ Kept(file, file', "objects")
          /\ Kept(file, file', "relations_obj") /\ Kept(file, file', "relations_sub")
      BY <2>4, <3>1, <3>3 DEF SevenManifest
    <3>5. file'.bucket[V1] # "json"
      BY <3>1, <3>2, <3>3 DEF SevenManifest, Kept
    <3> QED
      BY <2>7, <3>2, <3>3, <3>4, <3>5 DEF Kept
  <2>8. CASE proc[p].next = 9
    <3>1. Nine(proc[p].i, file, proc[p].ro, file')
      BY <1>5, <2>8, RanFunction
    <3>2. file.exists /\ file.version <= Required /\ file.bucket[V1] # "json"
      BY DEF Mature
    <3>3. /\ file'.exists /\ file'.version = file.version /\ Kept(file, file', "objects")
          /\ Kept(file, file', "relations_obj") /\ Kept(file, file', "relations_sub")
      BY <2>4, <3>1, <3>2 DEF Nine
    <3>4. file'.bucket[V1] # "json"
      BY <3>1, <3>2 DEF Nine, Kept
    <3>5. IF proc[p].i = 4 THEN file'.bucket[V2] = "proto" ELSE Kept(file, file', V2)
      BY <2>1, <3>1 DEF Nine
    <3> QED
      BY <2>8, <3>2, <3>3, <3>4, <3>5 DEF Kept
  <2>9. proc[p].next \in {5, 6, 8} \/ proc[p].next = 7 \/ proc[p].next = 9
    BY <2>1
  <2> QED
    BY <2>6, <2>7, <2>8, <2>9
<1>6. CASE Stored(p)
  <2>1. /\ Executing(p) /\ proc[p].ro.exists /\ proc[p].next \in 5 .. 9 /\ proc[p].i \in Nat
    <3>1. Executing(p)
      BY <1>6 DEF Stored
    <3>2. Stuck(p)
      BY <3>1 DEF Mature
    <3>3. proc[p].next \in 5 .. 9 /\ proc[p].i \in Nat
      BY <3>1 DEF Executing, Plans, Required, Types, Process
    <3> QED
      BY <3>1, <3>2, <3>3 DEF Stuck
  <2>2. proc[p].next = 9 => NewManifest
    <3>1. proc[p].next = 9 => proc[p].i > 7
      BY <1>6, Lengths, Zenon DEF Stored
    <3>2. proc[p].next = 9 => Placed(p)
      BY <2>1, <3>1 DEF Placed
    <3> QED
      BY <3>2 DEF Mature
  <2>3. file'.bucket = file.bucket /\ file'.exists /\ file'.version \in {file.version, proc[p].next}
    BY <1>6, <2>1 DEF Stored, Mature, Types, File
  <2>4. \A q \in Processes : ~Executing(q)' /\ (proc'[q].at \in {"open", "serving"} => proc'[q] = proc[q])
    BY <1>1, <1>6, <2>1, OneWorks DEF Others, Stored, Executing
  <2>5. NewObjects' /\ NewRelations' /\ (NewManifest => NewManifest')
    BY <1>1, <2>3 DEF Others, Mature, NewObjects, NewRelations, NewManifest
  <2>6. \A q \in Processes : Placed(q)' => Placed(q)
    BY <2>4 DEF Placed
  <2>7. /\ file'.version <= Required /\ file'.bucket[V1] # "json"
        /\ file'.version = Required => file.version = Required \/ proc[p].next = 9
    BY <2>1, <2>3 DEF Mature, Required
  <2> QED
    BY <2>2, <2>3, <2>4, <2>5, <2>6, <2>7 DEF Mature
<1> QED
  BY <1>1, <1>2, <1>3, <1>4, <1>5, <1>6

(* Every step takes a file from a phase to a phase. *)
LEMMA PhaseStep ==
  ASSUME Types, Locking, Plans, Phase, NEW p \in Processes, Others(p), Kind(p)
  PROVE  Phase'
<1>1. CASE Absent
  BY <1>1, AbsentStep DEF Phase
<1>2. CASE Ten
  BY <1>2, TenStep DEF Phase
<1>3. CASE Old
  BY <1>3, OldStep DEF Phase
<1>4. CASE Lost
  BY <1>4, LostStep DEF Phase
<1>5. CASE Mature
  BY <1>5, MatureStep DEF Phase
<1>6. CASE \E m \in Processes : Making(m)
  BY <1>6, MakingStep DEF Phase
<1>7. CASE \E m \in Processes : Seven(m)
  BY <1>7, SevenStep DEF Phase
<1> QED
  BY <1>1, <1>2, <1>3, <1>4, <1>5, <1>6, <1>7 DEF Phase

(* A process without a backup is the one that makes the file. *)
LEMMA NoBackup ==
  ASSUME Phase, NEW p \in Processes, Locking, Executing(p), ~proc[p].ro.exists
  PROVE  Making(p)
<1>1. ~Absent /\ ~Ten
  BY DEF Absent, Ten, Before, Executing
<1>2. ~Old /\ ~Lost /\ ~Mature
  BY DEF Old, Begins, Lost, Mature, Stuck
<1>3. ASSUME NEW m \in Processes, Making(m) \/ Seven(m) PROVE m = p
  BY <1>3, OneWorks DEF Making, Seven, Executing
<1>4. ~Seven(p)
  BY DEF Seven
<1> QED
  BY <1>1, <1>2, <1>3, <1>4 DEF Phase

(* The types are kept. *)
LEMMA TypesStep ==
  ASSUME Types, Plans, NEW p \in Processes, Others(p), Shared(p), Kind(p)
  PROVE  Types'
<1>1. CASE Quiet(p) \/ Copied(p)
  BY <1>1 DEF Quiet, Copied, Shared, Types
<1>2. CASE Begun(p)
  BY <1>2 DEF Begun, Shared, Types, File
<1>3. CASE Ran(p)
  <2> SUFFICES file' \in File
    BY DEF Shared, Types
  <2>1. /\ proc[p].next \in 5 .. 9 /\ (proc[p].ro.exists \/ proc[p].next = 9)
        /\ proc[p].i <= 5 \/ proc[p].i > 5
    BY <1>3, RanOn
  <2>2. CASE proc[p].next = 9
    BY <1>3, <2>2, RanFunction DEF Nine
  <2>3. CASE proc[p].next = 7 /\ proc[p].i <= 5
    <3>1. SevenManifest(proc[p].i, file, proc[p].ro, file')
      <4>1. proc[p].ro.exists
        BY <2>1, <2>3
      <4> QED
        BY <1>3, <2>3, <4>1, RanFunction
    <3> QED
      BY <3>1 DEF SevenManifest
  <2>4. CASE proc[p].next = 7 /\ proc[p].i > 5
    <3>1. SevenData(proc[p].i, file, proc[p].ro, file')
      <4>1. proc[p].ro.exists
        BY <2>1, <2>4
      <4> QED
        BY <1>3, <2>4, <4>1, RanFunction
    <3> QED
      BY <3>1 DEF SevenData
  <2>5. CASE proc[p].next \in {5, 6, 8}
    <3>1. proc[p].ro.exists
      BY <2>1, <2>5
    <3> QED
      BY <1>3, <2>5, <3>1, RanFunction
  <2> QED
    BY <2>1, <2>2, <2>3, <2>4, <2>5
<1>4. CASE Stored(p)
  <2>1. proc[p].next \in Versions
    BY <1>4 DEF Stored, Executing, Plans, Versions, Base, Required
  <2> QED
    BY <1>4, <2>1 DEF Stored, Shared, Types, File
<1> QED
  BY <1>1, <1>2, <1>3, <1>4 DEF Kind

(* The lock is had by whom it says. *)
LEMMA LockingStep ==
  ASSUME Locking, NEW p \in Processes, Others(p), Shared(p)
  PROVE  Locking'
BY DEF Locking, Others, Shared

(* A plan is one version up, and ends at the required one. *)
LEMMA PlansStep ==
  ASSUME Types, Plans, Phase, NEW p \in Processes, Others(p), Kind(p)
  PROVE  Plans'
<1> USE DEF Plans, Executing, Others
<1>1. CASE Quiet(p)
  <2>1. proc[p].at = "current" => GetVersion \in 4 .. 9
    BY PastCheck DEF GetVersion, Types, File, Versions, Base, Required
  <2>2. proc'[p].at = "migrate" => proc'[p].next \in 5 .. Required /\ proc'[p].cur + 1 = proc'[p].next
    BY <1>1, <2>1 DEF Quiet, Required
  <2> QED
    BY <1>1, <2>2 DEF Quiet
<1>2. CASE Begun(p)
  BY <1>2 DEF Begun, Required
<1>3. CASE Copied(p)
  <2>1. file.exists
    BY <1>3, PastCheck DEF Copied
  <2> QED
    BY <1>3, <2>1 DEF Copied
<1>4. CASE Ran(p)
  <2>1. /\ proc'[p].i >= 1 /\ proc[p].next = proc'[p].next /\ proc'[p].ro = proc[p].ro
        /\ proc[p].at = "execute" /\ proc'[p].at = "execute"
    BY <1>4, RanOn
  <2> QED
    BY <2>1 DEF Required
<1>5. CASE Stored(p)
  BY <1>5 DEF Stored
<1> QED
  BY <1>1, <1>2, <1>3, <1>4, <1>5 DEF Kind

(* What is open or served keeps its version while no plan is out of date. *)
LEMMA VersionedStep ==
  ASSUME Types, Locking, Plans, Phase, Versioned, NEW p \in Processes, Others(p), Shared(p), Kind(p)
  PROVE  Versioned'
<1>1. SUFFICES ASSUME ~stale', NEW q \in Processes, proc'[q].at \in {"open", "serving"}
               PROVE  file'.version = Required /\ \A r \in Processes : proc'[r].at \notin {"backup", "execute"}
  BY DEF Versioned
<1>2. ~stale
  BY <1>1 DEF Shared
<1>3. GetVersion \in Nat /\ (GetVersion = Required <=> file.version = Required)
  BY DEF Types, GetVersion, File, Versions, Base, Required
<1>4. ASSUME NEW r \in Processes, proc[r].at \in {"open", "serving"}
      PROVE  file.version = Required /\ \A x \in Processes : proc[x].at \notin {"backup", "execute"}
  BY <1>2, <1>4 DEF Versioned
<1>5. CASE Quiet(p)
  <2>1. file.version = Required /\ \A x \in Processes : proc[x].at \notin {"backup", "execute"}
    <3>1. CASE q # p \/ proc'[q].at = "serving"
      BY <1>1, <1>4, <1>5, <3>1 DEF Others, Quiet
    <3>2. CASE q = p /\ proc'[q].at = "open"
      BY <1>3, <1>5, <3>2, ProcessesAssumption DEF Quiet, Locking
    <3> QED
      BY <1>1, <3>1, <3>2
  <2>2. proc'[p].at # "backup"
    <3>1. SUFFICES ASSUME proc'[p].at = "backup" PROVE FALSE
      OBVIOUS
    <3>2. proc[p].at = "migrate" /\ GetVersion = proc[p].cur
      BY <1>1, <1>5, <3>1 DEF Quiet
    <3>3. proc[p].cur + 1 \in 5 .. 9
      BY <3>2 DEF Plans, Executing, Required
    <3> QED
      BY <1>3, <2>1, <3>2, <3>3 DEF Required
  <2> QED
    BY <1>5, <2>1, <2>2 DEF Quiet, Others
<1>6. CASE Begun(p)
  <2>1. \A r \in Processes : proc[r].at \in {"off", "check"}
    BY <1>6, PastCheck DEF Begun
  <2> QED
    BY <1>1, <1>6, <2>1 DEF Begun, Others
<1>7. CASE Copied(p) \/ Ran(p)
  <2>1. q # p /\ proc[q].at \in {"open", "serving"} /\ proc[p].at \in {"backup", "execute"}
    BY <1>1, <1>7 DEF Copied, Ran, Others, Executing
  <2> QED
    BY <1>4, <2>1
<1>8. CASE Stored(p)
  <2>1. Executing(p) /\ q = p
    <3>1. Executing(p)
      BY <1>8 DEF Stored
    <3> QED
      BY <1>1, <1>4, <3>1 DEF Others, Executing
  <2>2. Making(p)
    BY <1>1, <1>8, <2>1, NoBackup DEF Stored
  <2>3. proc[p].next = 9 /\ proc[p].i > 1
    <3>1. proc[p].next = 9 /\ proc[p].i > 7 /\ proc[p].i \in Nat
      BY <1>8, <2>2, Lengths DEF Stored, Making, Required, Types, Process
    <3> QED
      BY <3>1
  <2>4. file' = [file EXCEPT !.version = 9]
    BY <1>8, <2>2, <2>3 DEF Stored, Making
  <2>5. file'.version = Required
    BY <2>4 DEF Types, File, Required
  <2>6. \A r \in Processes : proc'[r].at \notin {"backup", "execute"}
    BY <1>1, <2>1, OneWorks DEF Others
  <2> QED
    BY <2>5, <2>6
<1> QED
  BY <1>5, <1>6, <1>7, <1>8 DEF Kind

-----------------------------------------------------------------------------
(* The invariant.                                                          *)

(* It holds of every file that its version's code wrote. *)
LEMMA Initially ==
  ASSUME Init
  PROVE  Inv
<1>1. /\ file \in Files /\ file \in File /\ lock = Nobody /\ ~stale /\ stale \in BOOLEAN
      /\ \A p \in Processes : proc[p] = Off
      /\ proc = [p \in Processes |-> Off]
  BY FilesAssumption, Zenon DEF Init
<1>2. Types
  BY <1>1, OffProcess DEF Types
<1>3. Locking
  BY <1>1, ProcessesAssumption DEF Locking, Off
<1>4. Plans /\ Versioned /\ Before /\ Early /\ \A p \in Processes : ~Executing(p) /\ proc[p].at = "off"
  BY <1>1 DEF Plans, Versioned, Before, Early, Executing, Off
<1>5. Phase
  <2>1. Written(file) /\ (file.exists \/ file = NoFile)
    BY <1>1, FilesAssumption
  <2>2. /\ had.objects <=> file.bucket["objects"] \in {"json", "proto"}
        /\ had.relations <=> file.bucket["relations_obj"] \in {"json", "proto"}
        /\ had.manifest <=> file.bucket[V1] \in {"json", "proto"} \/ file.bucket[V2] \in {"json", "proto"}
    BY Zenon DEF Init, Holds, V1, V2
  <2>3. /\ V1 \in Buckets /\ V2 \in Buckets /\ "objects" \in Buckets
        /\ "relations_obj" \in Buckets /\ "relations_sub" \in Buckets
    BY DEF Buckets, V1, V2
  <2>4. /\ \A b \in Buckets : file.bucket[b] \in {"none", "empty", Encoding(file.version)}
        /\ file.bucket["relations_sub"] = file.bucket["relations_obj"]
        /\ file.version >= 9 => file.bucket[V1] \in {"none", "empty"}
    BY <2>1 DEF Written, V1
  <2>5. file.version \in 0 .. 10
    BY <1>1 DEF File, Versions, Base, Required
  <2>6. CASE ~file.exists
    <3>1. file = NoFile
      BY <2>1, <2>6
    <3>2. ~had.objects /\ ~had.relations /\ ~had.manifest
      BY <2>2, <2>3, <3>1 DEF NoFile
    <3> QED
      BY <1>4, <2>6, <3>1, <3>2 DEF Phase, Absent
  <2>7. CASE file.exists /\ file.version <= 6
    <3>1. \A b \in Buckets : file.bucket[b] \in {"none", "empty", "json"}
      BY <2>4, <2>5, <2>7 DEF Encoding
    <3>2. OldData(file)
      BY <2>2, <2>3, <3>1 DEF OldData
    <3> QED
      BY <1>4, <2>7, <3>2 DEF Phase, Old, Lost
  <2>8. CASE file.exists /\ file.version \in 7 .. 9
    <3>1. \A b \in Buckets : file.bucket[b] \in {"none", "empty", "proto"}
      BY <2>4, <2>8 DEF Encoding
    <3>2. NewObjects /\ NewRelations /\ file.bucket[V1] # "json"
      BY <2>2, <2>3, <2>4, <3>1 DEF NewObjects, NewRelations
    <3>3. file.version = 9 => NewManifest
      BY <2>2, <2>3, <2>4, <3>1 DEF NewManifest
    <3> QED
      BY <1>4, <2>8, <3>2, <3>3 DEF Phase, Mature, Placed, Required
  <2>9. CASE file.exists /\ file.version = 10
    BY <1>4, <2>9 DEF Phase, Ten, Required
  <2> QED
    BY <2>5, <2>6, <2>7, <2>8, <2>9
<1> QED
  BY <1>2, <1>3, <1>4, <1>5 DEF Inv

(* Every step keeps it. *)
LEMMA Inductive ==
  ASSUME Inv, [Next]_vars
  PROVE  Inv'
<1>1. CASE Next
  <2>1. PICK p \in Processes : Step(p) \/ Crash(p)
    BY <1>1 DEF Next
  <2>2. Others(p) /\ Shared(p) /\ Kind(p)
    BY <2>1, Kinds DEF Inv
  <2> QED
    BY <2>2, TypesStep, LockingStep, PlansStep, PhaseStep, VersionedStep DEF Inv
<1>2. CASE UNCHANGED vars
  <2>1. file' = file /\ lock' = lock /\ proc' = proc /\ had' = had /\ stale' = stale
    BY <1>2 DEF vars
  <2>2. Types' /\ Locking' /\ Plans' /\ Versioned'
    BY <2>1 DEF Inv, Types, Locking, Plans, Versioned, Executing
  <2>3. /\ Absent => Absent'
        /\ Ten => Ten'
    BY <2>1 DEF Absent, Ten, Before
  <2>4. Early => Early'
    BY <2>1 DEF Early
  <2>5. Old => Old'
    BY <2>1, <2>4 DEF Old, OldData, Begins, Executing
  <2>6. Lost => Lost'
    BY <2>1, <2>4 DEF Lost, Stuck, Executing
  <2>7. Mature => Mature'
    BY <2>1 DEF Mature, Stuck, Placed, Executing, NewObjects, NewRelations, NewManifest
  <2>8. ASSUME NEW p \in Processes PROVE (Making(p) => Making(p)') /\ (Seven(p) => Seven(p)')
    BY <2>1, <2>4 DEF Making, Seven, Executing, OldData, NewObjects, NewRelations
  <2> QED
    BY <2>2, <2>3, <2>5, <2>6, <2>7, <2>8 DEF Inv, Phase
<1> QED
  BY <1>1, <1>2

(* The invariant says that what is served is intact. *)
LEMMA Intact ==
  ASSUME Inv
  PROVE  ServingIntact
<1> SUFFICES ASSUME NEW p \in Processes, proc[p].at = "serving"
             PROVE  (~stale => file.version = Required) /\ NewManifest /\ NewObjects /\ NewRelations
  BY DEF ServingIntact, NewManifest, NewObjects, NewRelations, V2
<1>1. ~stale => file.version = Required
  BY DEF Inv, Versioned
<1>2. ~Absent /\ ~Ten /\ ~Old /\ ~Lost
  BY DEF Absent, Ten, Before, Old, Lost, Early
<1>3. \A m \in Processes : ~Making(m) /\ ~Seven(m)
  BY DEF Making, Seven, Early, Executing
<1>4. Mature
  BY <1>2, <1>3 DEF Inv, Phase
<1> QED
  BY <1>1, <1>4 DEF Mature, Placed

(* openBoltDB: for any number of processes and crashes, and for every file   *)
(* that its version's code wrote, what is served holds in the new encoding,  *)
(* in both relation indexes and in the new place all that the file held      *)
(* before the migrations, and has the required version unless a migration    *)
(* began on a file that another process had migrated since.                  *)
THEOREM ServedIsIntact == Spec => []ServingIntact
<1>1. Init => Inv
  BY Initially
<1>2. Inv /\ [Next]_vars => Inv'
  BY Inductive
<1>3. Inv => ServingIntact
  BY Intact
<1> QED
  BY <1>1, <1>2, <1>3, PTL DEF Spec

=============================================================================
