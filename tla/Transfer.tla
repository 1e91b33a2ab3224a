------------------------------ MODULE Transfer ------------------------------
(***************************************************************************)
(* Moving a directory's contents: the client jobs of                       *)
(* mrld/clients/directory and mrld-db over the Exporter, Importer and Model*)
(* services of a source and a destination directory, and the passes of the *)
(* Entra plugin, whose source is a tenant of Entra ID.                     *)
(*                                                                         *)
(*   backup   BackupToFile, then RestoreFromFile: manifest, objects and    *)
(*            relations are fetched one after the other, and put back so   *)
(*   data     Backup, then Restore: one Export stream, one Import stream,  *)
(*            no manifest                                                  *)
(*   mixed    Backup, then RestoreFromFile                                 *)
(*   crossed  BackupToFile, then Restore                                   *)
(*   migrate  migrate-to-postgres: Export and Import at once, over a pipe  *)
(*   load     Import of files                                              *)
(*   feed     an Import stream of rows of any operation                    *)
(*   entra    the plugin's sync: groups, then users with their relations,  *)
(*            each written by a call of its own                            *)
(*                                                                         *)
(* An Import is three processes: the server's handler in one transaction,  *)
(* and the client's sender and receiver, which share a context.            *)
(*                                                                         *)
(* Data abstraction: a directory is a function from items to their content,*)
(* 0 for none; a manifest is the set of items it admits; a row is          *)
(* <<operation, item, content>>.                                           *)
(***************************************************************************)
EXTENDS Naturals, Sequences, FiniteSets, SequencesExt

CONSTANTS ObjectOrder, RelationOrder,  \* the items, in the order they are scanned
          EndsOf,                      \* per relation, the objects at its ends
          Groups,                      \* of a tenant's objects the groups; the others are users
          Models,                      \* manifests: sets of items
          Contents,                    \* contents, without 0
          Jobs, Stores,                \* jobs, and pairs of source and destination stores
          Sources, Targets,            \* what the two directories may hold at first
          LoadFiles,                   \* the files of a load: [key, rows]
          Feed,                        \* the rows of a feed
          MaxWrites, MaxFaults, MaxTries

Objects == ToSet(ObjectOrder)
Relations == ToSet(RelationOrder)
Items == Objects \cup Relations

ASSUME TransferAssumption ==
  /\ Jobs \subseteq {"backup", "data", "mixed", "crossed", "migrate", "load", "feed", "entra"}
  /\ Groups \subseteq Objects /\ \A r \in Relations : \E u \in EndsOf[r] : u \notin Groups
  /\ Stores \subseteq {"bolt", "postgres"} \X {"bolt", "postgres"}
  /\ Objects \cap Relations = {} /\ IsInjective(ObjectOrder) /\ IsInjective(RelationOrder)
  /\ EndsOf \in [Relations -> SUBSET Objects] /\ Models \subseteq SUBSET Items
  /\ 0 \notin Contents /\ Sources \cup Targets \subseteq [Items -> Contents \cup {0}]
  /\ MaxWrites \in Nat /\ MaxFaults \in Nat /\ MaxTries \in Nat

VARIABLES
  job, srcStore, dstStore,  \* the job, and the stores of the two directories
  at, result,               \* the step of the job, and "run", "failed" or "ok"
  src, srcModel,            \* the source directory
  dst, dstModel,            \* the destination
  file,                     \* the files at hand: [manifest, objects, relations]
  archive,                  \* the archive: a sequence of [name, body]
  exp,                      \* the Export stream: [on, rows, snap]
  pipe,                     \* the pipe: [row, w, r]
  imp,                      \* the Import: its processes srv, snd and rcv, whether it is cancelled,
                            \* what the client has left and what is on the way (input, wire), the
                            \* transaction (staged), what it returned (ret); before and all are history
  during,                   \* history: the source since the job began
  dst0,                     \* history: the destination at first
  writes, faults, tries

vars == <<job, srcStore, dstStore, at, result, src, srcModel, dst, dstModel, file, archive, exp, pipe,
          imp, during, dst0, writes, faults, tries>>
conf == <<job, srcStore, dstStore, dst0>>
source == <<src, srcModel, during, writes>>

BackupToFile == <<"GetManifest", "ExportObjects", "ExportRelations", "CreateTar">>
RestoreFromFile == <<"ExtractFiles", "SetManifest", "ImportObjects", "ImportRelations">>
Backup == <<"ExportData", "CreateTar">>
Restore == <<"ImportData">>
MigrateToPostgres == <<"GetManifest", "SetManifest", "Stream">>
sync == <<"ListGroups", "SetGroups", "ListUsers", "SetUsers">>

Program ==
  [backup  |-> BackupToFile \o RestoreFromFile, data    |-> Backup \o Restore,
   mixed   |-> Backup \o RestoreFromFile,       crossed |-> BackupToFile \o Restore,
   migrate |-> MigrateToPostgres, load |-> <<"ImportFiles">>, feed |-> <<"ImportFeed">>, entra |-> sync]

Running(step) == result = "run" /\ Program[job][at] = step
Exporting == result = "run" /\ Program[job][at] \in {"ExportObjects", "ExportRelations", "ExportData", "Stream"}
Streaming == Running("Stream")

\* The next step of the job, or its success.
Advance ==
  IF at = Len(Program[job]) THEN result' = "ok" /\ at' = at ELSE at' = at + 1 /\ result' = result
Fail == result' = "failed" /\ at' = at

NoExport == [on |-> "none", rows |-> <<>>, snap |-> src]
NoImport == [ret |-> "idle", srv |-> "none", snd |-> "none", rcv |-> "none", cancelled |-> FALSE,
             input |-> <<>>, wire |-> <<>>, staged |-> dst, before |-> dst, all |-> <<>>]
NoFiles == [manifest |-> {}, objects |-> <<>>, relations |-> <<>>]
NoPipe == [row |-> <<>>, w |-> "open", r |-> "open"]

-----------------------------------------------------------------------------
(* Manifests.                                                              *)

GetManifest ==
  /\ Running("GetManifest")
  /\ file' = [NoFiles EXCEPT !.manifest = srcModel]
  /\ Advance
  /\ UNCHANGED <<conf, source, dst, dstModel, archive, exp, pipe, imp, faults, tries>>

\* A manifest is refused while the directory holds what it does not admit.
CanUpdate(D, m) == \A i \in Items : D[i] # 0 => i \in m

SetManifest ==
  /\ Running("SetManifest")
  /\ IF CanUpdate(dst, file.manifest) THEN dstModel' = file.manifest /\ Advance
     ELSE dstModel' = dstModel /\ Fail
  /\ UNCHANGED <<conf, source, dst, file, archive, exp, pipe, imp, faults, tries>>

-----------------------------------------------------------------------------
(* The Exporter and its clients.                                           *)

Scan(D, order) ==
  LET held == SelectSeq(order, LAMBDA i : D[i] # 0)
  IN  [j \in 1..Len(held) |-> <<"set", held[j], D[held[j]]>>]

exportObjects(D) == Scan(D, ObjectOrder)

\* Mutant: the relations are read in a transaction of their own.
exportRelationsNow(snap) == Scan(src, RelationOrder)

\* bolt reads them in the View's snapshot, postgres as they are by then.
exportRelations(snap) == Scan(IF srcStore = "bolt" THEN snap ELSE src, RelationOrder)

\* Export: one View; the options of the step say what is sent.
Export ==
  /\ Exporting
  /\ \/ /\ exp.on = "none"
        /\ exp' = IF Running("ExportRelations")
                  THEN [on |-> "relations", rows |-> exportRelations(src), snap |-> src]
                  ELSE [on |-> "objects", rows |-> exportObjects(src), snap |-> src]
     \/ /\ exp.on = "objects" /\ exp.rows = <<>> /\ pipe.row = <<>>
        /\ exp' = IF Running("ExportObjects") THEN [exp EXCEPT !.on = "eof"]
                  ELSE [exp EXCEPT !.on = "relations", !.rows = exportRelations(exp.snap)]
     \/ /\ exp.on = "relations" /\ exp.rows = <<>> /\ pipe.row = <<>>
        /\ exp' = [exp EXCEPT !.on = "eof"]
  /\ UNCHANGED <<conf, at, result, source, dst, dstModel, file, archive, pipe, imp, faults, tries>>

\* The client writes a row to the file of its kind; at the stream's end the
\* step is done.
Receive ==
  /\ \/ /\ exp.rows # <<>>
        /\ file' = [file EXCEPT ![exp.on] = Append(@, Head(exp.rows))]
        /\ exp' = [exp EXCEPT !.rows = Tail(@)]
        /\ UNCHANGED <<at, result>>
     \/ exp.on = "eof" /\ exp' = NoExport /\ file' = file /\ Advance
  /\ UNCHANGED <<conf, source, dst, dstModel, archive, pipe, imp, faults, tries>>

ExportToFile == (Running("ExportObjects") \/ Running("ExportRelations")) /\ Receive
createBackupFiles == Running("ExportData") /\ Receive

\* The Export stream breaks and the client gives up: there is no archive.
ExportBreaks ==
  /\ Exporting /\ ~Streaming /\ exp.on \in {"objects", "relations"} /\ faults < MaxFaults
  /\ faults' = faults + 1 /\ exp' = NoExport /\ Fail
  /\ UNCHANGED <<conf, source, dst, dstModel, file, archive, pipe, imp, tries>>

-----------------------------------------------------------------------------
(* Archives.                                                               *)

\* The names the two kinds of backup give their entries.
addToArchive(name, body) == [name |-> name, body |-> body]

\* Backup archives a file per kind, BackupToFile the manifest as well.
createTar ==
  /\ Running("CreateTar")
  /\ archive' = IF job \in {"data", "mixed"}
                THEN <<addToArchive("objects.json", file.objects), addToArchive("relations.json", file.relations)>>
                ELSE <<addToArchive("manifest.yaml", file.manifest), addToArchive("objects.jsonl", file.objects),
                       addToArchive("relations.jsonl", file.relations)>>
  /\ file' = NoFiles
  /\ Advance
  /\ UNCHANGED <<conf, source, dst, dstModel, exp, pipe, imp, faults, tries>>

\* An entry of another name, or a second one of the same, is refused.
Extractable ==
  /\ \A j \in DOMAIN archive : archive[j].name \in {"manifest.yaml", "objects.jsonl", "relations.jsonl"}
  /\ \A j, k \in DOMAIN archive : archive[j].name = archive[k].name => j = k

Body(name) == archive[CHOOSE j \in DOMAIN archive : archive[j].name = name].body

extractFiles ==
  /\ Running("ExtractFiles")
  /\ IF Extractable
     THEN /\ file' = [manifest |-> Body("manifest.yaml"), objects |-> Body("objects.jsonl"),
                      relations |-> Body("relations.jsonl")]
          /\ Advance
     ELSE file' = file /\ Fail
  /\ UNCHANGED <<conf, source, dst, dstModel, archive, exp, pipe, imp, faults, tries>>

-----------------------------------------------------------------------------
(* The pipe of migrateData: a write waits until its row has been read.     *)

Encode ==
  /\ Streaming /\ exp.rows # <<>> /\ pipe.row = <<>> /\ pipe.r = "open"
  /\ pipe' = [pipe EXCEPT !.row = Head(exp.rows)]
  /\ exp' = [exp EXCEPT !.rows = Tail(@)]
  /\ UNCHANGED <<conf, at, result, source, dst, dstModel, file, archive, imp, faults, tries>>

CloseWithError(err) == [pipe EXCEPT !.w = IF err THEN "err" ELSE "eof"]

\* ExportToFile returns: at the end of the stream, when a write finds the
\* reader gone, or when the stream breaks or is cancelled between two writes.
ExporterReturns ==
  /\ Streaming /\ exp.on \in {"objects", "relations", "eof"}
  /\ \/ exp.on = "eof" /\ faults' = faults /\ exp' = [exp EXCEPT !.on = "ok"]
     \/ /\ exp.on # "eof"
        /\ \/ pipe.r = "closed" /\ (pipe.row # <<>> \/ exp.rows # <<>>) /\ faults' = faults
           \/ pipe.row = <<>> /\ imp.ret = "err" /\ faults' = faults
           \/ pipe.row = <<>> /\ faults < MaxFaults /\ faults' = faults + 1
        /\ exp' = [exp EXCEPT !.on = "err"]
  /\ pipe' = CloseWithError(exp'.on = "err")
  /\ UNCHANGED <<conf, at, result, source, dst, dstModel, file, archive, imp, tries>>

\* The error group cancels the import once the exporter has failed.
ExporterCancels ==
  /\ Streaming /\ exp.on = "err" /\ imp.ret = "run" /\ ~imp.cancelled
  /\ imp' = [imp EXCEPT !.cancelled = TRUE]
  /\ UNCHANGED <<conf, at, result, source, dst, dstModel, file, archive, exp, pipe, faults, tries>>

-----------------------------------------------------------------------------
(* The Importer's handlers: what a row does to the transaction.            *)

\* Mutant: an object that exists is kept.
objectInsertHandler(D, i, c) == IF i \in dstModel /\ D[i] = 0 THEN [D EXCEPT ![i] = c] ELSE D

objectSetHandler(D, i, c) == IF i \in dstModel THEN [D EXCEPT ![i] = c] ELSE D
objectDeleteHandler(D, i) == IF i \in dstModel THEN [D EXCEPT ![i] = 0] ELSE D
objectDeleteWithRelationsHandler(D, i) ==
  IF i \notin dstModel THEN D
  ELSE [j \in Items |-> IF j = i \/ (j \in Relations /\ i \in EndsOf[j]) THEN 0 ELSE D[j]]
relationSetHandler(D, i, c) == IF i \in dstModel THEN [D EXCEPT ![i] = c] ELSE D
relationDeleteHandler(D, i) == IF i \in dstModel THEN [D EXCEPT ![i] = 0] ELSE D

\* An unknown operation, and a relation to be deleted with its relations,
\* are refused; the client is told and the import goes on.
handleImportRequest(D, row) ==
  LET op == row[1]  i == row[2]
  IN  CASE i \in Objects /\ op = "set"               -> objectSetHandler(D, i, row[3])
        [] i \in Objects /\ op = "delete"            -> objectDeleteHandler(D, i)
        [] i \in Objects /\ op = "deleteWithRelations" -> objectDeleteWithRelationsHandler(D, i)
        [] i \in Relations /\ op = "set"             -> relationSetHandler(D, i, row[3])
        [] i \in Relations /\ op = "delete"          -> relationDeleteHandler(D, i)
        [] OTHER                                     -> D

Apply(D, rows) == FoldLeft(handleImportRequest, D, rows)

-----------------------------------------------------------------------------
(* An import.                                                              *)

Settled == imp.srv \in {"none", "committed", "failed"}

\* A row that cannot be read, and one with a field that is not known.
Bad == <<"bad">>
Known(rows) == SelectSeq(rows, LAMBDA r : r[1] # "unknown")

\* loadObjects and loadRelations leave out rows with unknown fields.
loadObjects(rows) == Known(rows)
loadRelations(rows) == Known(rows)

\* importHandler and importFile: the files whose key says objects or relations.
importFile(f) ==
  CASE f.key = "objects"   -> loadObjects(f.rows)
    [] f.key = "relations" -> loadRelations(f.rows)
    [] OTHER               -> <<>>
importHandler == FlattenSeq([j \in 1..Len(LoadFiles) |-> importFile(LoadFiles[j])])

\* restoreHandler: the archive's entries in their order; js.NewReader does
\* not read an entry that is no JSON object with an array.
NewReader(entry) == entry.name \in {"objects.json", "relations.json"}
restoreHandler ==
  FlattenSeq([j \in 1..Len(archive) |->
    IF ~NewReader(archive[j]) THEN <<Bad>>
    ELSE IF archive[j].name = "objects.json" THEN loadObjects(archive[j].body)
    ELSE loadRelations(archive[j].body)])

\* What the sender reads; a stream's rows come over the pipe.
Input ==
  CASE Running("ImportObjects")   -> file.objects
    [] Running("ImportRelations") -> file.relations
    [] Running("ImportData")      -> restoreHandler
    [] Running("ImportFiles")     -> importHandler
    [] Running("ImportFeed")      -> Feed
    [] OTHER                      -> <<>>

Importing == result = "run" /\ Program[job][at] \in
  {"ImportObjects", "ImportRelations", "ImportData", "ImportFiles", "ImportFeed", "Stream"}

\* ImportFromFile, Restore and Import open the stream; its transaction waits
\* for the one of an import that is still being worked on.
ImportBegins ==
  /\ Importing /\ imp.ret = "idle" /\ Settled
  /\ imp' = [ret |-> "run", srv |-> "open", snd |-> "run", rcv |-> "run", cancelled |-> FALSE,
             input |-> Input, wire |-> <<>>, staged |-> dst, before |-> dst,
             all |-> IF Streaming THEN Scan(src, ObjectOrder) \o Scan(src, RelationOrder) ELSE Input]
  /\ UNCHANGED <<conf, at, result, source, dst, dstModel, file, archive, exp, pipe, faults, tries>>

\* importFromReader, loadObjects and loadRelations send a row.
Send ==
  /\ imp.snd = "run" /\ (IF Streaming THEN pipe.row # <<>> ELSE imp.input # <<>>)
  /\ IF imp.cancelled \/ imp.srv # "open" \/ (~Streaming /\ Head(imp.input) = Bad)
     THEN imp' = [imp EXCEPT !.snd = "err", !.cancelled = TRUE]
     ELSE imp' = [imp EXCEPT !.wire = Append(@, IF Streaming THEN pipe.row ELSE Head(imp.input)),
                             !.input = IF Streaming THEN @ ELSE Tail(@)]
  /\ pipe' = IF Streaming THEN [pipe EXCEPT !.row = <<>>] ELSE pipe
  /\ UNCHANGED <<conf, at, result, source, dst, dstModel, file, archive, exp, faults, tries>>

\* sender: the input has ended, CloseSend; or the pipe was closed with an error.
SenderEnds ==
  /\ imp.snd = "run"
  /\ IF Streaming
     THEN /\ pipe.row = <<>> /\ pipe.w # "open"
          /\ imp' = IF pipe.w = "eof" THEN [imp EXCEPT !.snd = "closed"]
                    ELSE [imp EXCEPT !.snd = "err", !.cancelled = TRUE]
     ELSE imp.input = <<>> /\ imp' = [imp EXCEPT !.snd = "closed"]
  /\ UNCHANGED <<conf, at, result, source, dst, dstModel, file, archive, exp, pipe, faults, tries>>

\* Import: the server's loop.  A row that is received is handled, the end of
\* the stream ends the loop, and a cancelled context ends it without error.
Import ==
  /\ imp.srv = "open"
  /\ \/ /\ imp.wire # <<>>
        /\ imp' = [imp EXCEPT !.staged = handleImportRequest(@, Head(imp.wire)), !.wire = Tail(@)]
     \/ imp.wire = <<>> /\ imp.snd = "closed" /\ ~imp.cancelled /\ imp' = [imp EXCEPT !.srv = "eof"]
     \/ imp.cancelled /\ imp' = [imp EXCEPT !.srv = "commit"]
  /\ UNCHANGED <<conf, at, result, source, dst, dstModel, file, archive, exp, pipe, faults, tries>>

\* The response that ends the stream; if it cannot be sent the transaction
\* is rolled back.
FinalSend ==
  /\ imp.srv = "eof"
  /\ imp' = [imp EXCEPT !.srv = IF imp.cancelled THEN "failed" ELSE "commit"]
  /\ UNCHANGED <<conf, at, result, source, dst, dstModel, file, archive, exp, pipe, faults, tries>>

\* Mutant: postgres commits whether or not the context is cancelled.
CanCommitAlways == TRUE

\* postgres commits with the request's context, bolt without one.
CanCommit == dstStore = "bolt" \/ ~imp.cancelled

Batch ==
  /\ imp.srv = "commit"
  /\ \/ /\ CanCommit /\ dst' = imp.staged /\ faults' = faults
        /\ imp' = [imp EXCEPT !.srv = "committed"]
     \/ /\ ~CanCommit \/ faults < MaxFaults
        /\ dst' = dst /\ faults' = IF CanCommit THEN faults + 1 ELSE faults
        /\ imp' = [imp EXCEPT !.srv = "failed"]
  /\ UNCHANGED <<conf, at, result, source, dstModel, file, archive, exp, pipe, tries>>

\* bolt runs the functions of a batch again, without the one that failed:
\* another import, which came with this one (SpecBatch only).
BatchAgain ==
  /\ dstStore = "bolt" /\ imp.srv = "commit" /\ faults < MaxFaults
  /\ faults' = faults + 1 /\ imp' = [imp EXCEPT !.srv = "open", !.staged = dst]
  /\ UNCHANGED <<conf, at, result, source, dst, dstModel, file, archive, exp, pipe, tries>>

\* Mutant: the last response is taken for success.
RecvEndsEarly ==
  /\ imp.rcv = "run"
  /\ \/ imp.srv \in {"commit", "committed"} /\ ~imp.cancelled /\ imp' = [imp EXCEPT !.rcv = "ok"]
     \/ (imp.srv = "failed" \/ imp.cancelled) /\ imp' = [imp EXCEPT !.rcv = "err", !.cancelled = TRUE]
  /\ UNCHANGED <<conf, at, result, source, dst, dstModel, file, archive, exp, pipe, faults, tries>>

\* recv and receiver: they ignore what is said of single rows.
RecvEnds ==
  /\ imp.rcv = "run"
  /\ \/ imp.srv = "committed" /\ ~imp.cancelled /\ imp' = [imp EXCEPT !.rcv = "ok"]
     \/ (imp.srv = "failed" \/ imp.cancelled) /\ imp' = [imp EXCEPT !.rcv = "err", !.cancelled = TRUE]
  /\ UNCHANGED <<conf, at, result, source, dst, dstModel, file, archive, exp, pipe, faults, tries>>

\* The client is interrupted, or loses the connection.
Interrupt ==
  /\ imp.ret = "run" /\ ~imp.cancelled /\ faults < MaxFaults
  /\ faults' = faults + 1 /\ imp' = [imp EXCEPT !.cancelled = TRUE]
  /\ UNCHANGED <<conf, at, result, source, dst, dstModel, file, archive, exp, pipe, tries>>

\* Mutant: the reader's end of the pipe stays open.
ClosePipeNot(p) == p

ClosePipe(p) == [p EXCEPT !.r = "closed"]

\* Both of the import's goroutines have returned.
ImportReturns ==
  /\ imp.ret = "run" /\ imp.snd # "run" /\ imp.rcv # "run"
  /\ LET ok == imp.snd = "closed" /\ imp.rcv = "ok"
     IN  IF Streaming
         THEN /\ imp' = [imp EXCEPT !.ret = IF ok THEN "ok" ELSE "err"]
              /\ pipe' = ClosePipe(pipe) /\ UNCHANGED <<at, result>>
         ELSE /\ imp' = [imp EXCEPT !.ret = "idle"] /\ pipe' = pipe
              /\ IF ok THEN Advance ELSE Fail
  /\ UNCHANGED <<conf, source, dst, dstModel, file, archive, exp, faults, tries>>

\* migrateData waits for both sides.
MigrateReturns ==
  /\ Streaming /\ exp.on \in {"ok", "err"} /\ imp.ret \in {"ok", "err"}
  /\ IF exp.on = "ok" /\ imp.ret = "ok" THEN Advance ELSE Fail
  /\ UNCHANGED <<conf, source, dst, dstModel, file, archive, exp, pipe, imp, faults, tries>>

-----------------------------------------------------------------------------
(* A pass of the Entra plugin.                                             *)

\* A list that cannot be had ends the pass.  Its pages are read at once here.
Listed(rows) ==
  /\ \/ file' = [NoFiles EXCEPT !.objects = rows] /\ Advance /\ faults' = faults
     \/ faults < MaxFaults /\ faults' = faults + 1 /\ file' = file /\ Fail
  /\ UNCHANGED <<conf, source, dst, dstModel, archive, exp, pipe, imp, tries>>

listGroups == Running("ListGroups") /\ Listed(SelectSeq(exportObjects(src), LAMBDA row : row[2] \in Groups))

\* A user's identifier and memberships come with the user.
RelationsOf(u) == SelectSeq(Scan(src, RelationOrder), LAMBDA row : u \in EndsOf[row[2]])
WithRelations(row) == <<row>> \o RelationsOf(row[2])
listUsers ==
  /\ Running("ListUsers")
  /\ LET users == SelectSeq(exportObjects(src), LAMBDA row : row[2] \notin Groups)
     IN  Listed(FlattenSeq([j \in 1..Len(users) |-> WithRelations(users[j])]))

\* One row, by SetObject or SetRelation; the first that is refused, or cannot be
\* written, ends the pass.  Nothing is ever deleted.
setRow(rows) ==
  LET row == Head(rows)
      may == row[2] \in dstModel
  IN  /\ \/ /\ may /\ dst' = [dst EXCEPT ![row[2]] = row[3]] /\ faults' = faults
            /\ file' = [file EXCEPT !.objects = Tail(@)]
            /\ IF Len(rows) = 1 THEN Advance ELSE UNCHANGED <<at, result>>
         \/ /\ ~may \/ faults < MaxFaults
            /\ faults' = (IF may THEN faults + 1 ELSE faults)
            /\ Fail /\ UNCHANGED <<dst, file>>
      /\ UNCHANGED <<conf, source, dstModel, archive, exp, pipe, imp, tries>>

setNone ==
  /\ file.objects = <<>> /\ Advance
  /\ UNCHANGED <<conf, source, dst, dstModel, file, archive, exp, pipe, imp, faults, tries>>

IsHead(kind) == file.objects # <<>> /\ Head(file.objects)[2] \in kind
setGroup == Running("SetGroups") /\ IsHead(Groups) /\ setRow(file.objects)
setUser == Running("SetUsers") /\ IsHead(Objects) /\ setRow(file.objects)
syncUserMemberships == Running("SetUsers") /\ IsHead(Relations) /\ setRow(file.objects)
nothingToSet == (Running("SetGroups") \/ Running("SetUsers")) /\ setNone

\* runSync logs what a pass returned, and the ticker starts the next one.
scheduler ==
  /\ job = "entra" /\ result # "run" /\ tries < MaxTries
  /\ tries' = tries + 1 /\ result' = "run" /\ at' = 1
  /\ file' = NoFiles /\ during' = {src} /\ dst0' = dst
  /\ UNCHANGED <<job, srcStore, dstStore, src, srcModel, writes, archive, dst, dstModel, exp, pipe, imp, faults>>

-----------------------------------------------------------------------------

\* Others write to the source while it is read.
Writable == /\ job \in {"backup", "data", "entra"} /\ writes < MaxWrites
            /\ Exporting \/ Running("GetManifest") \/ job = "entra"

\* A tenant's objects are there for its relations, and go with them.
Gone(i, c) == IF job = "entra" /\ c = 0 THEN {r \in Relations : i \in EndsOf[r]} ELSE {}

Write(i, c) ==
  /\ Writable /\ src[i] # c /\ writes' = writes + 1
  /\ c # 0 => IF job = "entra" THEN i \in Relations => \A o \in EndsOf[i] : src[o] # 0 ELSE i \in srcModel
  /\ src' = [j \in Items |-> IF j = i THEN c ELSE IF j \in Gone(i, c) THEN 0 ELSE src[j]] /\ during' = during \cup {src'}
  /\ UNCHANGED <<conf, at, result, srcModel, dst, dstModel, file, archive, exp, pipe, imp, faults, tries>>

WriteManifest(m) ==
  /\ Writable /\ job # "entra" /\ m # srcModel /\ CanUpdate(src, m) /\ writes' = writes + 1
  /\ srcModel' = m
  /\ UNCHANGED <<conf, at, result, src, during, dst, dstModel, file, archive, exp, pipe, imp, faults, tries>>

\* A failed job is run again: a backup, or a restore of the archive there is.
RestartAt == IF archive = <<>> THEN 1 ELSE 1 + Len(IF job \in {"data", "mixed"} THEN Backup ELSE BackupToFile)

Retry ==
  /\ job # "entra" /\ result = "failed" /\ tries < MaxTries /\ Settled
  /\ tries' = tries + 1 /\ result' = "run" /\ at' = RestartAt
  /\ exp' = NoExport /\ pipe' = NoPipe /\ imp' = NoImport
  /\ IF RestartAt = 1
     THEN file' = NoFiles /\ during' = {src}
     ELSE UNCHANGED <<file, during>>
  /\ UNCHANGED <<conf, src, srcModel, writes, archive, dst, dstModel, faults>>

Init ==
  /\ job \in Jobs /\ \E s \in Stores : srcStore = s[1] /\ dstStore = s[2]
  /\ job = "migrate" => srcStore = "bolt" /\ dstStore = "postgres"
  /\ src \in Sources /\ dst \in Targets /\ dst0 = dst
  /\ srcModel \in {m \in Models : CanUpdate(src, m)} /\ dstModel \in {m \in Models : CanUpdate(dst, m)}
  /\ at = 1 /\ result = "run" /\ file = NoFiles /\ archive = <<>>
  /\ exp = NoExport /\ pipe = NoPipe /\ imp = NoImport
  /\ during = {src} /\ writes = 0 /\ faults = 0 /\ tries = 0

Client == \/ GetManifest \/ SetManifest \/ ExportToFile \/ createBackupFiles
          \/ createTar \/ extractFiles \/ ImportBegins \/ Send \/ SenderEnds
          \/ RecvEnds \/ ImportReturns \/ Encode \/ ExporterReturns \/ ExporterCancels \/ MigrateReturns
Pass == listGroups \/ listUsers \/ setGroup \/ setUser \/ syncUserMemberships \/ nothingToSet
Server == Export \/ Import \/ FinalSend \/ Batch
Others == ExportBreaks \/ Interrupt \/ Retry \/ scheduler
          \/ \E i \in Items : \E c \in Contents \cup {0} : Write(i, c)
          \/ \E m \in Models : WriteManifest(m)

Next == Client \/ Pass \/ Server \/ Others

\* Goroutines and handlers that can go on do.
Spec == Init /\ [][Next]_vars /\ WF_vars(Client \/ Pass) /\ WF_vars(Server)
SpecBatch == Init /\ [][Next \/ BatchAgain]_vars

-----------------------------------------------------------------------------
(* Properties.                                                             *)

\* A job that reports success has put into the destination what the source
\* held all the while it was read, and nothing that it never held, however
\* often it failed before (migrate: "Safe to re-run after a failed attempt").
\* What the destination's manifest does not admit is left out; where the job
\* carries the manifest over, nothing is that the source held all the while.
\* The same is said of each pass of the Entra plugin, with the tenant as the
\* source and the directory at the start of the pass as the one to compare with.
TransferFaithful ==
  result = "ok" /\ job \notin {"load", "feed"} =>
    \A i \in Items :
      /\ \A c \in Contents :
           (\A S \in during : S[i] = c) /\ (job = "data" => i \in dstModel)
             => dst[i] = c
      /\ dst[i] # dst0[i] => \E S \in during : dst[i] = S[i]

\* The archive of one Export stream of a bolt directory holds one state the
\* directory was in (exportObjects and exportRelations share a View).
ArchiveOneState ==
  job = "data" /\ archive # <<>> /\ srcStore = "bolt" =>
    \E S \in during : /\ Body("objects.json") = Scan(S, ObjectOrder)
                      /\ Body("relations.json") = Scan(S, RelationOrder)

\* An import the client was told has succeeded has stored every row of its
\* input that the destination's manifest admits.
AckedStored == imp.rcv = "ok" => dst = Apply(imp.before, imp.all)

\* An import that has come to its end has left the destination as it was or
\* with all of its rows; one that was cut short leaves the rows before the
\* cut with bolt, which commits them, and none with postgres.
AllOrNothing ==
  imp.srv \in {"committed", "failed"} =>
    \/ dst = imp.before
    \/ dst = Apply(imp.before, imp.all)
    \/ /\ dstStore = "bolt" /\ imp.cancelled
       /\ \E n \in 0..Len(imp.all) : dst = Apply(imp.before, SubSeq(imp.all, 1, n))

\* A job comes to an end: no side of it waits for the other for good.
JobEnds == (result = "run") ~> (result # "run")

=============================================================================
