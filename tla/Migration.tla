----------------------------- MODULE Migration ------------------------------
(* Opening the BoltDB file of the directory: openBoltDB of                   *)
(* internal/eds/pkg/directory/directory.go with CheckSchemaVersion and       *)
(* Migrate of internal/eds/pkg/bdb/migrations/migrate and the migrations     *)
(* mig004 to mig009 (the directory requires 0.0.9).                          *)
(*                                                                           *)
(* A migration copies the file to a backup named after the old version,      *)
(* then runs a list of functions, each a bolt transaction of its own, that   *)
(* change the file and read the backup, then stores the new version.  The    *)
(* process may stop between any two transactions and is started again;       *)
(* every opening of the file takes its lock, and gives it back on closing.   *)
(* Version 0.0.v is the number v, a version that is not stored is 0.         *)
EXTENDS Naturals, Sequences

CONSTANTS
  Processes,    \* daemons started on the same file
  Files,        \* the files to begin with
  MaxCrashes    \* bound on crashes

Required == 9   \* schemaVersion of directory.go
Base == 4       \* baseVersion of common.go
Buckets == {"_system", "manifestV1", "manifestV2", "objects", "relations_obj", "relations_sub"}
Content == {"none", "empty", "json", "proto"}   \* "none": there is no bucket
Versions == Base .. Required + 1
File == [exists : BOOLEAN, version : {0} \cup Versions, bucket : [Buckets -> Content]]
Nobody == "nobody"
NoFile == [exists |-> FALSE, version |-> 0, bucket |-> [b \in Buckets |-> "none"]]

\* A file is as the code of its version wrote it: mig007 changed the encoding,
\* mig009 the place of the manifest.
Encoding(v) == IF v < 7 THEN "json" ELSE "proto"
Written(f) ==
  /\ \A b \in Buckets : f.bucket[b] \in {"none", "empty", Encoding(f.version)}
  /\ f.bucket["relations_sub"] = f.bucket["relations_obj"]
  /\ f.version >= 9 => f.bucket["manifestV1"] \in {"none", "empty"}

ASSUME FilesAssumption ==
  /\ Files \subseteq File /\ NoFile \in Files
  /\ \A f \in Files : Written(f) /\ (f.exists \/ f = NoFile)
ASSUME ProcessesAssumption == Nobody \notin Processes

-----------------------------------------------------------------------------
(* The migrations: what each function of an fnMap does to the file f, reading *)
(* the backup ro; the create flow has none.  [ok |-> FALSE] is an error.     *)

Done(f) == [ok |-> TRUE, file |-> f]
Error(f) == [ok |-> FALSE, file |-> f]
Put(f, b, c) == [f EXCEPT !.bucket[b] = c]

\* _manifest/default holds the bucket _manifest/default/0.0.1.
CreateIfNotExists(f, b) == IF f.bucket[b] = "none" THEN Put(f, b, "empty") ELSE f
CreateBucket(f, b) ==
  Done(IF b = "manifestV1" THEN CreateIfNotExists(CreateIfNotExists(f, "manifestV2"), b)
                           ELSE CreateIfNotExists(f, b))

\* The version is a key of _system.
DeleteBucket(f, b) ==
  Done([Put(f, b, "none") EXCEPT !.version = IF b = "_system" THEN 0 ELSE @])

\* MigrateModelV1 decodes the manifest of the backup with proto.Unmarshal and
\* stores the model made from it.
MigrateModelV1(f, ro) ==
  IF ro.bucket["manifestV1"] = "proto" /\ f.bucket["manifestV1"] # "none" THEN Done(f) ELSE Error(f)

\* mig007: decode with protojson, encode with proto.  A manifest has to be there,
\* objects and relations may be none.
updateManifest7(f, ro) ==
  IF ro.bucket["manifestV1"] = "json" THEN Done(Put(f, "manifestV1", "proto")) ELSE Error(f)
Reencode(f, ro, from, to) ==
  CASE ro.bucket[from] = "json" -> Done([f EXCEPT !.bucket = [b \in Buckets |->
                                            IF b \in to THEN "proto" ELSE f.bucket[b]]])
    [] ro.bucket[from] = "empty" -> Done(f)
    [] OTHER -> Error(f)
updateEncodingObjects(f, ro) == Reencode(f, ro, "objects", {"objects"})
updateEncodingRelations(f, ro) == Reencode(f, ro, "relations_obj", {"relations_obj", "relations_sub"})

\* mig009: copy body, model and metadata as they are to the new path.
updateManifest9Lenient(f, ro) ==
  IF ro.bucket["manifestV1"] \in {"json", "proto"}
  THEN Done(Put(f, "manifestV2", ro.bucket["manifestV1"])) ELSE Done(f)
updateManifest9(f, ro) ==
  IF ro.bucket["manifestV1"] \in {"json", "proto"} /\ f.bucket["manifestV2"] # "none"
  THEN Done(Put(f, "manifestV2", ro.bucket["manifestV1"])) ELSE Error(f)

Update(name, f, ro) ==
  CASE name = "model" -> MigrateModelV1(f, ro)
    [] name = "manifest7" -> updateManifest7(f, ro)
    [] name = "objects7" -> updateEncodingObjects(f, ro)
    [] name = "relations7" -> updateEncodingRelations(f, ro)
    [] name = "manifest9" -> updateManifest9(f, ro)

\* A function that reads the backup does nothing in the create flow.
Apply(fn, f, ro) ==
  CASE fn[1] = "create" -> CreateBucket(f, fn[2])
    [] fn[1] = "delete" -> DeleteBucket(f, fn[2])
    [] OTHER -> IF ro.exists THEN Update(fn[1], f, ro) ELSE Done(f)

create(b) == <<"create", b>>
delete(b) == <<"delete", b>>
mig004 ==   \* mig005, 6 and 8 too
  <<create("_system"), create("manifestV1"), <<"model">>,
    create("objects"), create("relations_obj"), create("relations_sub")>>
mig007 ==
  <<delete("_system"), create("_system"),
    delete("manifestV1"), create("manifestV1"), <<"manifest7">>,
    delete("objects"), create("objects"), <<"objects7">>,
    delete("relations_obj"), create("relations_obj"),
    delete("relations_sub"), create("relations_sub"), <<"relations7">>>>
mig009 ==
  <<create("_system"), delete("manifestV1"), create("manifestV2"), <<"manifest9">>,
    create("objects"), create("relations_obj"), create("relations_sub")>>
\* mig010 is in the map too, for a version above the required one: never reached.
migMap == [v \in Base .. Required |-> CASE v = 7 -> mig007 [] v = 9 -> mig009 [] OTHER -> mig004]

-----------------------------------------------------------------------------
VARIABLES
  file,         \* the database file
  backup,       \* per version, the backup file
  lock,         \* the process that has the file open
  proc,         \* per process, where it is
  had,          \* what the file held in the beginning: version, manifest, objects, relations
  interrupted,  \* some migration ended without storing its version
  stale,        \* some migration began on a file that had another version by then
  crashes

vars == <<file, backup, lock, proc, had, interrupted, stale, crashes>>

Off == [at |-> "off", cur |-> 0, next |-> 0, ro |-> NoFile, i |-> 0]
Ats == {"off", "check", "current", "migrate", "backup", "execute", "recheck", "open", "serving"}
Holds(b) == file.bucket[b] \in {"json", "proto"}

Init ==
  /\ file \in Files
  /\ backup = [v \in Versions |-> NoFile]
  /\ lock = Nobody
  /\ proc = [p \in Processes |-> Off]
  /\ had = [version |-> file.version, manifest |-> Holds("manifestV1") \/ Holds("manifestV2"),
            objects |-> Holds("objects"), relations |-> Holds("relations_obj")]
  /\ interrupted = FALSE
  /\ stale = FALSE
  /\ crashes = 0

\* GetVersion: a missing bucket or key is the base version.
GetVersion == IF file.version = 0 THEN Base ELSE file.version

GoTo(p, at) == proc' = [proc EXCEPT ![p].at = at]

Start(p) ==
  /\ proc[p].at = "off"
  /\ GoTo(p, "check")
  /\ UNCHANGED <<file, backup, lock, had, interrupted, stale, crashes>>

\* create: execute with no backup, on a file that OpenDB makes.
BeginCreate(p) ==
  /\ lock' = p
  /\ file' = [file EXCEPT !.exists = TRUE]
  /\ proc' = [proc EXCEPT ![p] = [at |-> "execute", cur |-> 0, next |-> Required, ro |-> NoFile, i |-> 1]]

\* CheckSchemaVersion, with the switch of openBoltDB on what it returns.
CheckSchemaVersion(p) ==
  /\ proc[p].at = "check"
  /\ lock = Nobody
  /\ \/ ~file.exists /\ BeginCreate(p)
     \/ /\ file.exists
        /\ GoTo(p, CASE GetVersion = Required -> "open"
                     [] GetVersion < Required -> "current"
                     [] GetVersion > Required -> "off")
        /\ UNCHANGED <<file, lock>>
  /\ UNCHANGED <<backup, had, interrupted, stale, crashes>>

\* Migrate: getCurrent, at the start and after every migration.
getCurrent(p) ==
  /\ proc[p].at = "current"
  /\ lock = Nobody
  /\ IF GetVersion = Required
     THEN GoTo(p, "recheck")
     ELSE proc' = [proc EXCEPT ![p].at = "migrate", ![p].cur = GetVersion, ![p].next = GetVersion + 1]
  /\ UNCHANGED <<file, backup, lock, had, interrupted, stale, crashes>>

\* migrate: OpenDB, and the os.Create of Backup that empties an older backup.
OpenDB(p) ==
  /\ proc[p].at = "migrate"
  /\ lock = Nobody
  /\ lock' = p
  /\ backup' = [backup EXCEPT ![proc[p].cur] = NoFile]
  /\ GoTo(p, "backup")
  /\ stale' = (stale \/ GetVersion # proc[p].cur)
  /\ UNCHANGED <<file, had, interrupted, crashes>>

\* The copy of Backup, and OpenReadOnlyDB.
Backup(p) ==
  /\ proc[p].at = "backup"
  /\ backup' = [backup EXCEPT ![proc[p].cur] = file]
  /\ proc' = [proc EXCEPT ![p].at = "execute", ![p].ro = file, ![p].i = 1]
  /\ UNCHANGED <<file, lock, had, interrupted, stale, crashes>>

\* One function of the fnMap; an error ends Migrate, and with it the process.
\* Every version up to the required one has its migration.
execute(p) ==
  /\ proc[p].at = "execute"
  /\ proc[p].i <= Len(migMap[proc[p].next])
  /\ LET r == Apply(migMap[proc[p].next][proc[p].i], file, proc[p].ro) IN
     \/ /\ r.ok
        /\ file' = r.file
        /\ proc' = [proc EXCEPT ![p].i = @ + 1]
        /\ UNCHANGED <<lock, interrupted>>
     \/ /\ ~r.ok
        /\ proc' = [proc EXCEPT ![p] = Off]
        /\ lock' = Nobody
        /\ interrupted' = TRUE
        /\ UNCHANGED file
  /\ UNCHANGED <<backup, had, stale, crashes>>

\* SetVersion, Sync and Close.  Migrate goes on with getCurrent, create is done.
SetVersionWith(p, version) ==
  /\ proc[p].at = "execute"
  /\ proc[p].i > Len(migMap[proc[p].next])
  /\ file' = IF file.bucket["_system"] = "none" THEN file ELSE [file EXCEPT !.version = version]
  /\ lock' = Nobody
  /\ proc' = [proc EXCEPT ![p] = [Off EXCEPT !.at = IF proc[p].ro.exists THEN "current" ELSE "open"]]
  /\ UNCHANGED <<backup, had, interrupted, stale, crashes>>
SetVersionForgotten(p) == SetVersionWith(p, file.version)
SetVersion(p) == SetVersionWith(p, proc[p].next)

\* The second CheckSchemaVersion of openBoltDB.
Recheck(p) ==
  /\ proc[p].at = "recheck"
  /\ lock = Nobody
  /\ GoTo(p, IF file.exists /\ GetVersion = Required THEN "open" ELSE "off")
  /\ UNCHANGED <<file, backup, lock, had, interrupted, stale, crashes>>

\* The Open at the end of openBoltDB; the directory is served until the process ends.
OpenStore(p) ==
  /\ proc[p].at = "open"
  /\ lock = Nobody
  /\ lock' = p
  /\ GoTo(p, "serving")
  /\ UNCHANGED <<file, backup, had, interrupted, stale, crashes>>

\* Another process has the file open until the timeout of bolt.Open passes.
LockTimeout(p) ==
  /\ proc[p].at \in {"check", "current", "migrate", "recheck", "open"}
  /\ lock # Nobody
  /\ proc' = [proc EXCEPT ![p] = Off]
  /\ UNCHANGED <<file, backup, lock, had, interrupted, stale, crashes>>

Crash(p) ==
  /\ proc[p].at # "off"
  /\ crashes < MaxCrashes
  /\ crashes' = crashes + 1
  /\ interrupted' = (interrupted \/ proc[p].at = "execute")
  /\ lock' = IF lock = p THEN Nobody ELSE lock
  /\ proc' = [proc EXCEPT ![p] = Off]
  /\ UNCHANGED <<file, backup, had, stale>>

Step(p) ==
  \/ Start(p) \/ CheckSchemaVersion(p) \/ getCurrent(p) \/ OpenDB(p) \/ Backup(p) \/ execute(p)
  \/ SetVersion(p) \/ Recheck(p) \/ OpenStore(p) \/ LockTimeout(p)
Next == \E p \in Processes : Step(p) \/ Crash(p)
Spec == Init /\ [][Next]_vars

\* A process that can go on does, and one that ended is started again.
FairSpec == Spec /\ \A p \in Processes : WF_vars(Step(p))

-----------------------------------------------------------------------------
(* Properties.                                                             *)

\* openBoltDB: what is served holds, readable for the current code and in both
\* relation indexes, all that the file held before the migrations, wherever
\* earlier attempts crashed and also when two processes migrate together.  Its
\* version is the required one unless a migration began on a file that another
\* process had migrated since: that one stores the version it planned.
ServingIntact ==
  \A p \in Processes : proc[p].at = "serving" =>
    /\ ~stale => file.version = Required
    /\ had.manifest => file.bucket["manifestV2"] = "proto"
    /\ had.objects => file.bucket["objects"] = "proto"
    /\ had.relations => file.bucket["relations_obj"] = "proto" /\ file.bucket["relations_sub"] = "proto"

\* Migrate: a new file and a file of version 0.0.6 to 0.0.9 with a manifest are
\* served in the end, unless a migration was cut short.
Serves ==
  (had.version = 0 \/ (had.version \in 6 .. Required /\ had.manifest))
    ~> (interrupted \/ \E p \in Processes : proc[p].at = "serving")
=============================================================================
