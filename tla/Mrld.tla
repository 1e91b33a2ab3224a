-------------------------------- MODULE Mrld --------------------------------
(***************************************************************************)
(* The command line mrld: processes that share a home directory (the file  *)
(* topaz.json, the configurations, the certificates, the downloaded        *)
(* templates) and one docker engine.  A process reads topaz.json once, when*)
(* it starts, works on that copy and writes the whole file back; nothing   *)
(* locks any of it.  A command is the sequence of its steps; another       *)
(* process, a kill or the container may come between any two.              *)
(*                                                                         *)
(* Data abstraction: a container is known by its name, which is that of a  *)
(* configuration unless the command line gives another.  A directory is its manifest and the set of its items; a data    *)
(* file is a set of items, a policy the set of items it allows.  All       *)
(* generated configurations listen on the same ports, so that docker runs  *)
(* at most one of them, beside containers of other programs.  The names in Templates are those of the policies, *)
(* as in every template of the repository.                                 *)
(***************************************************************************)
EXTENDS Naturals, FiniteSets, Assertions

CONSTANTS Procs,          \* processes
          Names,          \* configurations; "config" is config.yaml
          Containers,     \* container names; that of a configuration is its own
          Others,         \* per start, the containers of other programs that run
          Matches,        \* per name filter, the container names it hits
          Templates,      \* per template: manifest, data (files), tests (files of assertions)
          Admits,         \* per manifest, the items it admits
          Rows,           \* per data file, its items
          Allows,         \* per policy, the items it allows
          Commands,       \* the commands that are given
          Stale,          \* what the databases may hold at first
          NoChecks,       \* the values of no_check in topaz.json at first
          Together,       \* whether a command may be given while another is at work
          MaxCommands, MaxFaults

None == "none"

ASSUME MrldAssumption ==
  /\ Procs \subseteq Nat /\ "config" \in Names /\ None \notin Containers
  /\ Names \subseteq Containers /\ Others \subseteq SUBSET (Containers \ Names)
  /\ Matches \in [Containers \cup {"", "*"} -> SUBSET Containers]
  /\ Names \subseteq Matches["*"] /\ \A n \in Containers : n \in Matches[n]
  /\ NoChecks \subseteq BOOLEAN /\ Together \in BOOLEAN
  /\ MaxCommands \in Nat /\ MaxFaults \in Nat

VARIABLES
  json,     \* topaz.json: [active, running, noCheck]
  files,    \* the configuration files
  db,       \* the databases, by the configuration they were made for
  tmplDir,  \* the downloaded templates, by directory
  certs,    \* per certificate file, the generation that wrote it, 0 when absent
  image,    \* whether the image is in the local store
  box,      \* the container of this program that runs
  others,   \* containers of other programs that run
  held,     \* names held by containers that never started
  proc,     \* the processes
  gens,     \* how often certificates were generated
  begun, faults,  \* commands given, and faults so far
  mess      \* history: what happened that voids a promise

vars == <<json, files, db, tmplDir, certs, image, box, others, held, proc, gens, begun, faults, mess>>

-----------------------------------------------------------------------------

\* The configuration file of an active configuration: before any command the
\* active one is named "config.yaml" and its file is that of "config".
ConfigFile(active) == IF active = "default" THEN "config" ELSE active
ContainerName(configFile) == configFile

templatePreamble(name) == [st |-> "ok", db |-> name]
opaLocalPolicyImage(policy) == [policy |-> policy, from |-> "local"]
opaRemotePolicyImage(policy) == [policy |-> policy, from |-> "remote"]
LocalImageTemplate(name, policy) == templatePreamble(name) @@ opaLocalPolicyImage(policy)
RemoteImageTemplate(name, policy) == templatePreamble(name) @@ opaRemotePolicyImage(policy)
NoFile == [st |-> None, db |-> None, policy |-> None, from |-> None]

Exists(name) == name \in Names /\ files[name].st # None
\* A file just created is empty: it loads, and has no ports.
HasPorts(name) == files[name].st = "ok"

Gateway == <<"gateway.key", "gateway.crt", "gateway-ca.crt">>
GRPC == <<"grpc.key", "grpc.crt", "grpc-ca.crt">>
CertFiles == ToSet(Gateway \o GRPC)
FindExisting(c) == {f \in CertFiles : c[f] # 0}

NoBox == [st |-> "off", name |-> None, cfg |-> None, db |-> None, policy |-> None,
          by |-> None, todo |-> <<>>, gen |-> 0]
\* What a dial to its services meets: an open port may still be starting up.
Running == box.st # "off"
Open == box.st \in {"open", "serving"}

\* A docker name filter matches every name that contains it; it has to hit
\* exactly one container.
IsRunning(name) ==
  Cardinality({c \in others \cup (IF Running THEN {box.name} ELSE {}) : c \in Matches[name]}) = 1

\* CheckRunStatus, when docker answers (e is FALSE) or not.
CheckRunStatus(cfg, name, running, e) == ~cfg.noCheck /\ ~e /\ IsRunning(name) = running

-----------------------------------------------------------------------------

\* Commands as the sequences of their steps.
StopSteps(wait) == <<"StopCheck", "DockerStop">> \o (IF wait THEN <<"WaitClosed">> ELSE <<>>) \o <<"StopSave">>
StartSteps(wait) == <<"StartCheck", "EnsureImage", "DockerStart", "SaveRunning">>
                      \o (IF wait THEN <<"WaitOpened">> ELSE <<>>)
RunSteps == <<"StartCheck", "EnsureImage", "DockerRun", "RunWaits", "SaveRunning">>
RestartSteps(wait) == StopSteps(TRUE) \o StartSteps(wait)
UninstallSteps == StopSteps(TRUE) \o <<"RemoveImage", "RemoveFiles">>
NewSteps == <<"NewActive", "GenerateCerts", "Create", "GenerateConfig">>
UseSteps == <<"UseCheck", "UseSave">>
DeleteSteps == <<"DeleteCheck", "ClearActive", "RemoveFile">>
RenameSteps == <<"RenameCheck", "RenameActive", "RenameFile">>
DataSteps(c) == [i \in DOMAIN Templates[c.tmpl].data |-> "DownloadData"]
DownloadSteps(c) == <<"DownloadModel">> \o DataSteps(c) \o <<"DownloadTests">>
ApplySteps == <<"ApplyCheck", "Confirm", "DeleteManifest", "SetManifest", "ImportData", "RunTests">>
prepareEamerald == StopSteps(TRUE) \o NewSteps \o UseSteps \o StartSteps(TRUE)
Install(c) == <<"DeleteManifest", "DownloadModel", "SetManifest">> \o DataSteps(c) \o <<"ImportData">>
runTemplateTests == <<"DownloadTests", "RunTests">>
installTemplate(c) == prepareEamerald \o <<"Health">> \o Install(c) \o (IF c.flag THEN runTemplateTests ELSE <<>>)

Steps(c) ==
  CASE c.op = "start"     -> StartSteps(c.flag)
    [] c.op = "run"       -> RunSteps
    [] c.op = "stop"      -> StopSteps(c.flag)
    [] c.op = "restart"   -> RestartSteps(c.flag)
    [] c.op = "install"   -> <<"InstallCheck", "PullImage">>
    [] c.op = "update"    -> <<"PullImage">>
    [] c.op = "uninstall" -> UninstallSteps
    [] c.op = "new"       -> NewSteps
    [] c.op = "use"       -> UseSteps
    [] c.op = "delete"    -> DeleteSteps
    [] c.op = "rename"    -> RenameSteps
    [] c.op = "templates install" -> <<"Confirm", "GetTemplate">> \o installTemplate(c)
    [] c.op = "templates download" -> DownloadSteps(c)
    [] c.op = "templates apply"    -> ApplySteps
    [] c.op = "certs generate"     -> <<"GenerateCerts">>
    [] c.op = "certs remove"       -> <<"RemoveTrusted", "RemoveCerts">>
    [] OTHER                       -> <<"RunTests">>

-----------------------------------------------------------------------------

cmd(p) == proc[p].cmd
At(p, step) == proc[p].out = "run" /\ Head(proc[p].todo) = step

\* The process after its step: with the rest of its steps, or done.
NoCmd == [op |-> None, name |-> None, to |-> None, tmpl |-> None, flag |-> FALSE, local |-> FALSE, cname |-> ""]
Ended(out) == [cmd |-> NoCmd, todo |-> <<>>, out |-> out, mem |-> [active |-> "", running |-> None, noCheck |-> FALSE],
               name |-> "", gen |-> 0, healthy |-> FALSE]
Go(q, todo) == IF todo = <<>> THEN Ended("ok") ELSE [q EXCEPT !.todo = todo]
Then(q) == Go(q, Tail(q.todo))
SkipPast(q, step) == Go(q, SubSeq(q.todo, 1 + SelectInSeq(q.todo, LAMBDA s : s = step), Len(q.todo)))

Next1(p, q) == proc' = [proc EXCEPT ![p] = q]
Done(p) == Next1(p, Then(proc[p]))
Err(p) == Next1(p, Ended("err"))
IfElse(p, ok) == Next1(p, IF ok THEN Then(proc[p]) ELSE Ended("err"))

\* What a step leaves alone, beside what it names.
KeepDocker == UNCHANGED <<image, box, others, held>>
KeepHome == UNCHANGED <<json, files, tmplDir, certs, gens>>
KeepRest == UNCHANGED <<db, begun, faults, mess>>

\* A docker call that fails where its failure is only printed.
DockerError(e) ==
  /\ e => faults < MaxFaults
  /\ faults' = IF e THEN faults + 1 ELSE faults
  /\ mess' = IF e THEN mess \cup {"docker"} ELSE mess
  /\ UNCHANGED <<db, begun>>

Idle(p) == proc[p].out # "run"
Waiting(p) == At(p, "RunWaits")
Overlaps(p) == \E o \in Procs \ {p} : ~Idle(o) /\ ~Waiting(o)

\* A process starts (the lowest idle one stands for any): NewConfig reads
\* topaz.json, and the command line takes its default container name from it, if
\* --container-name does not give one.
NewConfig(p, c) ==
  /\ Idle(p) /\ (\A o \in Procs : Idle(o) => p <= o) /\ begun < MaxCommands
  /\ Together \/ ~Overlaps(p)
  /\ Next1(p, [cmd |-> c, todo |-> Steps(c), out |-> "run", mem |-> json,
               name |-> IF c.cname # "" THEN c.cname ELSE ContainerName(ConfigFile(json.active)), gen |-> 0, healthy |-> FALSE])
  /\ begun' = begun + 1
  /\ mess' = IF Overlaps(p) THEN mess \cup {"overlap"} ELSE mess
  /\ KeepDocker /\ KeepHome /\ UNCHANGED <<db, faults>>

\* PromptYesNo, unless the command is forced: the answer may be no.
Confirm(p) ==
  /\ At(p, "Confirm")
  /\ (Done(p) \/ Next1(p, Ended("ok")))
  /\ KeepDocker /\ KeepHome /\ KeepRest

IsInstall(p) == cmd(p).op = "templates install"
StopName(p) == IF IsInstall(p) THEN "*" ELSE proc[p].name
StartName(p) == IF IsInstall(p) THEN ContainerName(cmd(p).name) ELSE proc[p].name

-----------------------------------------------------------------------------

\* stop: it never bypasses its own check, and says so in topaz.json when it saves.
StopCheck(p) ==
  /\ At(p, "StopCheck")
  /\ \E e \in BOOLEAN :
       LET q == [proc[p] EXCEPT !.mem.noCheck = FALSE]
       IN  /\ DockerError(e)
           /\ Next1(p, IF CheckRunStatus(q.mem, StopName(p), FALSE, e) THEN SkipPast(q, "StopSave") ELSE Then(q))
  /\ KeepDocker /\ KeepHome

\* Every container that the name hits is stopped.
DockerStop(p) ==
  /\ At(p, "DockerStop")
  /\ box' = IF box.name \in Matches[StopName(p)] THEN NoBox ELSE box
  /\ others' = others \ Matches[StopName(p)]
  /\ Done(p)
  /\ KeepHome /\ KeepRest /\ UNCHANGED <<image, held>>

\* Mutant: the wait has no timeout.
WaitForPortsLong(p, name, status) ==
  \/ ~Exists(name) /\ Err(p)
  \/ Exists(name) /\ (~HasPorts(name) \/ status) /\ Done(p)
\* WaitForPorts gives up after its timeout, so the wait ends either way.
WaitForPorts(p, name, status) ==
  \/ ~Exists(name) /\ Err(p)
  \/ Exists(name) /\ (~HasPorts(name) \/ status) /\ Done(p)
  \/ Exists(name) /\ HasPorts(name) /\ ~status /\ Err(p)

WaitClosed(p) ==
  /\ At(p, "WaitClosed")
  /\ WaitForPorts(p, proc[p].mem.running, ~Open)
  /\ KeepDocker /\ KeepHome /\ KeepRest

SaveContextConfig(p, mem) == json' = mem /\ Next1(p, Then([proc[p] EXCEPT !.mem = mem]))

StopSave(p) ==
  /\ At(p, "StopSave")
  /\ SaveContextConfig(p, [proc[p].mem EXCEPT !.running = None])
  /\ KeepDocker /\ KeepRest /\ UNCHANGED <<files, tmplDir, certs, gens>>

\* start and run: the check, the configuration, the image, the container.
StartCheck(p) ==
  /\ At(p, "StartCheck")
  /\ \E e \in BOOLEAN :
       LET mem == proc[p].mem
           file == ConfigFile(mem.active)
       IN  /\ DockerError(e)
           /\ Next1(p, IF CheckRunStatus(mem, StartName(p), TRUE, e) \/ ~Exists(file)
                       THEN Ended("err")
                       ELSE Then([proc[p] EXCEPT !.mem.running = file]))
  /\ KeepDocker /\ KeepHome

EnsureImage(p) ==
  /\ At(p, "EnsureImage")
  /\ image' = TRUE
  /\ Done(p)
  /\ KeepHome /\ KeepRest /\ UNCHANGED <<box, others, held>>

NewBox(p) == [NoBox EXCEPT !.st = "new", !.name = StartName(p), !.cfg = proc[p].mem.running, !.by = p]

\* The engine refuses a name in use, and a port in use once the container is created.
CanCreate(p) == StartName(p) \notin held \cup others /\ (Running => box.name # StartName(p))

\* Start removes the container it could not start.
DockerStart(p) ==
  /\ At(p, "DockerStart")
  /\ LET ok == CanCreate(p) /\ ~Running /\ image
     IN  box' = (IF ok THEN NewBox(p) ELSE box) /\ IfElse(p, ok)
  /\ KeepHome /\ KeepRest /\ UNCHANGED <<image, others, held>>

\* Run does not: the name stays taken.
DockerRun(p) ==
  /\ At(p, "DockerRun")
  /\ LET ok == CanCreate(p) /\ ~Running /\ image
     IN  /\ box' = (IF ok THEN NewBox(p) ELSE box)
         /\ held' = (IF CanCreate(p) /\ image /\ Running THEN held \cup {StartName(p)} ELSE held)
         /\ IfElse(p, ok)
  /\ KeepHome /\ KeepRest /\ UNCHANGED <<image, others>>

\* run waits for its container; when it then saves what it read before, it may
\* undo what others wrote.
RunWaits(p) ==
  /\ At(p, "RunWaits") /\ ~(Running /\ box.by = p)
  /\ Done(p)
  /\ mess' = IF Overlaps(p) \/ json.active # proc[p].mem.active THEN mess \cup {"overlap"} ELSE mess
  /\ KeepDocker /\ KeepHome /\ UNCHANGED <<db, begun, faults>>

SaveRunning(p) ==
  /\ At(p, "SaveRunning")
  /\ SaveContextConfig(p, proc[p].mem)
  /\ KeepDocker /\ KeepRest /\ UNCHANGED <<files, tmplDir, certs, gens>>

WaitOpened(p) ==
  /\ At(p, "WaitOpened")
  /\ WaitForPorts(p, ConfigFile(proc[p].mem.active), Open)
  /\ KeepDocker /\ KeepHome /\ KeepRest

-----------------------------------------------------------------------------

\* install asks by the name of the configuration, not of its file: for "config"
\* that is a name no container has.
InstallCheck(p) ==
  /\ At(p, "InstallCheck")
  /\ \E e \in BOOLEAN :
       /\ DockerError(e)
       /\ IfElse(p, proc[p].mem.active = "config" \/ ~CheckRunStatus(proc[p].mem, proc[p].name, TRUE, e))
  /\ KeepDocker /\ KeepHome

PullImage(p) ==
  /\ At(p, "PullImage")
  /\ image' = TRUE
  /\ Done(p)
  /\ KeepHome /\ KeepRest /\ UNCHANGED <<box, others, held>>

\* The engine keeps an image that a container runs.
RemoveImage(p) ==
  /\ At(p, "RemoveImage")
  /\ image' = (image /\ Running)
  /\ IfElse(p, ~(image /\ Running))
  /\ KeepHome /\ KeepRest /\ UNCHANGED <<box, others, held>>

\* uninstall removes directory.db, which no generated configuration uses, and config.yaml.
RemoveFiles(p) ==
  /\ At(p, "RemoveFiles")
  /\ files' = [files EXCEPT !["config"] = NoFile]
  /\ Done(p)
  /\ KeepDocker /\ KeepRest /\ UNCHANGED <<json, tmplDir, certs, gens>>

-----------------------------------------------------------------------------

\* config new: active in this process only; the file is created, then written.
NewActive(p) ==
  /\ At(p, "NewActive")
  /\ Next1(p, Then([proc[p] EXCEPT !.mem.active = cmd(p).name]))
  /\ KeepDocker /\ KeepHome /\ KeepRest

SetFile(p, content) ==
  /\ files' = [files EXCEPT ![cmd(p).name] = content]
  /\ Done(p)
  /\ KeepDocker /\ KeepRest /\ UNCHANGED <<json, tmplDir, certs, gens>>

Forced(p) == IsInstall(p) \/ cmd(p).flag

Create(p) ==
  /\ At(p, "Create")
  /\ \/ SetFile(p, [NoFile EXCEPT !.st = "empty"])
     \/ /\ ~Forced(p) /\ Exists(cmd(p).name)
        /\ Next1(p, Ended("ok"))
        /\ KeepDocker /\ KeepHome /\ KeepRest

GenerateConfig(p) ==
  /\ At(p, "GenerateConfig")
  /\ SetFile(p, IF cmd(p).local THEN LocalImageTemplate(cmd(p).name, cmd(p).tmpl)
                ELSE RemoteImageTemplate(cmd(p).name, cmd(p).tmpl))

\* config use: the file must exist, and no container of this image may run.
UseCheck(p) ==
  /\ At(p, "UseCheck")
  /\ IfElse(p, Exists(cmd(p).name) /\ ~Running)
  /\ KeepDocker /\ KeepHome /\ KeepRest

UseSave(p) ==
  /\ At(p, "UseSave")
  /\ SaveContextConfig(p, [proc[p].mem EXCEPT !.active = cmd(p).name])
  /\ mess' = mess \ {"install"}
  /\ KeepDocker /\ UNCHANGED <<files, tmplDir, certs, gens, db, begun, faults>>

\* config delete and rename ask docker for the container named after that
\* configuration.
NameIsFree(p, e) == ~CheckRunStatus(proc[p].mem, ContainerName(cmd(p).name), TRUE, e)

DeleteCheck(p) ==
  /\ At(p, "DeleteCheck")
  /\ \E e \in BOOLEAN : DockerError(e) /\ IfElse(p, NameIsFree(p, e))
  /\ KeepDocker /\ KeepHome

RenameCheck(p) ==
  /\ At(p, "RenameCheck")
  /\ \E e \in BOOLEAN : DockerError(e) /\ IfElse(p, NameIsFree(p, e))
  /\ KeepDocker /\ KeepHome

\* Only an active configuration of that name makes them write topaz.json.
Reactivate(p, active) ==
  IF proc[p].mem.active = cmd(p).name
  THEN SaveContextConfig(p, [proc[p].mem EXCEPT !.active = active])
  ELSE Done(p) /\ UNCHANGED json

ClearActive(p) ==
  /\ At(p, "ClearActive")
  /\ Reactivate(p, "")
  /\ KeepDocker /\ KeepRest /\ UNCHANGED <<files, tmplDir, certs, gens>>

RemoveFile(p) ==
  /\ At(p, "RemoveFile")
  /\ files' = [files EXCEPT ![cmd(p).name] = NoFile]
  /\ IfElse(p, Exists(cmd(p).name))
  /\ KeepDocker /\ KeepRest /\ UNCHANGED <<json, tmplDir, certs, gens>>

RenameActive(p) ==
  /\ At(p, "RenameActive")
  /\ Reactivate(p, cmd(p).to)
  /\ KeepDocker /\ KeepRest /\ UNCHANGED <<files, tmplDir, certs, gens>>

\* os.Rename replaces a file of the new name.
RenameFile(p) ==
  /\ At(p, "RenameFile")
  /\ LET old == cmd(p).name
         new == cmd(p).to
     IN  files' = IF Exists(old) /\ old # new
                  THEN [files EXCEPT ![new] = files[old], ![old] = NoFile] ELSE files
  /\ IfElse(p, Exists(cmd(p).name))
  /\ KeepDocker /\ KeepRest /\ UNCHANGED <<json, tmplDir, certs, gens>>

-----------------------------------------------------------------------------

\* certs generate: everything or, when any file exists and it is not forced, nothing.
\* Mutant: the files that are missing.
GenerateCertsMissing(p) ==
  /\ At(p, "GenerateCerts")
  /\ gens' = gens + 1
  /\ Next1(p, Go([proc[p] EXCEPT !.gen = gens + 1],
                 SelectSeq(Gateway \o GRPC, LAMBDA f : certs[f] = 0) \o Tail(proc[p].todo)))
  /\ KeepDocker /\ KeepRest /\ UNCHANGED <<json, files, tmplDir, certs>>
ForcesCerts(p) == cmd(p).op = "certs generate" /\ cmd(p).flag
GenerateCerts(p) ==
  /\ At(p, "GenerateCerts")
  /\ IF ForcesCerts(p) \/ FindExisting(certs) = {}
     THEN /\ gens' = gens + 1
          /\ Next1(p, Go([proc[p] EXCEPT !.gen = gens + 1], Gateway \o GRPC \o Tail(proc[p].todo)))
          /\ mess' = IF box.st \in {"new", "certs"} THEN mess \cup {"overlap"} ELSE mess
     ELSE Done(p) /\ UNCHANGED <<gens, mess>>
  /\ KeepDocker /\ UNCHANGED <<json, files, tmplDir, certs, db, begun, faults>>

\* One file of the set that this process generates.
Writing(p) == proc[p].out = "run" /\ Head(proc[p].todo) \in CertFiles
signCert(p) ==
  /\ Writing(p)
  /\ certs' = [certs EXCEPT ![Head(proc[p].todo)] = proc[p].gen]
  /\ Done(p)
  /\ KeepDocker /\ KeepRest /\ UNCHANGED <<json, files, tmplDir, gens>>

\* certs remove: a CA file is first taken from the trust store, which fails on
\* linux and may fail elsewhere, and ends the command.
RemoveTrusted(p) ==
  /\ At(p, "RemoveTrusted")
  /\ \/ FindExisting(certs) \cap {"gateway-ca.crt", "grpc-ca.crt"} # {} /\ Err(p)
     \/ Done(p)
  /\ KeepDocker /\ KeepHome /\ KeepRest

getFileList == <<"grpc-ca.crt", "gateway-ca.crt", "grpc.crt", "gateway.crt", "grpc.key", "gateway.key">>
RemoveCerts(p) ==
  /\ At(p, "RemoveCerts")
  /\ LET left == SelectSeq(getFileList, LAMBDA f : certs[f] # 0)
     IN  IF left = <<>> THEN Done(p) /\ UNCHANGED certs
         ELSE certs' = [certs EXCEPT ![left[1]] = 0] /\ UNCHANGED proc
  /\ KeepDocker /\ KeepRest /\ UNCHANGED <<json, files, tmplDir, gens>>

-----------------------------------------------------------------------------

\* templates install: topaz.json names the new configuration as active and as
\* running before anything else happens.
GetTemplate(p) ==
  /\ At(p, "GetTemplate")
  /\ SaveContextConfig(p, [proc[p].mem EXCEPT !.active = cmd(p).name, !.running = cmd(p).name])
  /\ mess' = mess \cup {"install"}
  /\ KeepDocker /\ UNCHANGED <<files, tmplDir, certs, gens, db, begun, faults>>

\* Not healthy in time is no error: the installation ends here.
ServiceHealthStatus(p) ==
  /\ At(p, "Health")
  /\ Next1(p, IF box.st = "serving" THEN Then([proc[p] EXCEPT !.healthy = TRUE]) ELSE Ended("ok"))
  /\ KeepDocker /\ KeepHome /\ KeepRest

Template(p) == Templates[cmd(p).tmpl]
Dir(p) == tmplDir[cmd(p).name]
\* bad and badTests: the data files, and the templates whose assertion files,
\* hold something else.
NoDir == [model |-> None, data |-> {}, bad |-> {}, tests |-> {}, badTests |-> {}]
Page == "page"

\* download: a file goes over the one of its name, and whatever else the
\* directory holds stays.  The status of the answer is not looked at, so what is
\* stored may be an error page.
Download(p, dir, page) ==
  /\ page => faults < MaxFaults
  /\ faults' = IF page THEN faults + 1 ELSE faults
  /\ tmplDir' = [tmplDir EXCEPT ![cmd(p).name] = dir]
  /\ Done(p)
  /\ KeepDocker /\ UNCHANGED <<json, files, certs, gens, db, begun, mess>>

Marked(set, x, page) == IF page THEN set \cup {x} ELSE set \ {x}

DownloadModel(p) ==
  /\ At(p, "DownloadModel")
  /\ \E page \in BOOLEAN :
       Download(p, [Dir(p) EXCEPT !.model = IF page THEN Page ELSE Template(p).manifest], page)

\* One of the template's data files, in their order.
DownloadData(p) ==
  /\ At(p, "DownloadData")
  /\ LET data == Template(p).data
         left == Len(SelectSeq(proc[p].todo, LAMBDA step : step = "DownloadData"))
         f == data[1 + Len(data) - left]
     IN  \E page \in BOOLEAN :
           Download(p, [Dir(p) EXCEPT !.data = @ \cup {f}, !.bad = Marked(@, f, page)], page)

DownloadTests(p) ==
  /\ At(p, "DownloadTests")
  /\ \E page \in BOOLEAN :
       Download(p, [Dir(p) EXCEPT !.tests = @ \cup {cmd(p).tmpl},
                                  !.badTests = Marked(@, cmd(p).tmpl, page)], page)

ApplyCheck(p) ==
  /\ At(p, "ApplyCheck")
  /\ IfElse(p, Dir(p) # NoDir)
  /\ KeepDocker /\ KeepHome /\ KeepRest

\* A call on the directory that is served, if one is.
OnDirectory(p, ok, store) ==
  /\ db' = IF box.st = "serving" /\ ok THEN [db EXCEPT ![box.db] = store] ELSE db
  /\ IfElse(p, box.st = "serving" /\ ok)
  /\ KeepDocker /\ KeepHome /\ UNCHANGED <<begun, faults, mess>>

EmptyStore == [manifest |-> None, items |-> {}]

\* Mutant: the directory is not reset.
DeleteManifestNot(p) == At(p, "DeleteManifest") /\ OnDirectory(p, TRUE, db[box.db])
DeleteManifest(p) == At(p, "DeleteManifest") /\ OnDirectory(p, TRUE, EmptyStore)

\* A manifest is refused when it is none, or what is stored does not conform to it.
SetManifest(p) ==
  /\ At(p, "SetManifest")
  /\ LET m == Dir(p).model
     IN  OnDirectory(p, m \notin {None, Page} /\ db[box.db].items \subseteq Admits[m], [db[box.db] EXCEPT !.manifest = m])

\* Every file of the data directory, whatever template it came with.  A file that
\* cannot be read as data is skipped, and rows that the manifest does not admit are
\* counted and left out: neither is an error.
ImportData(p) ==
  /\ At(p, "ImportData")
  /\ LET rows == UNION {Rows[f] : f \in Dir(p).data \ Dir(p).bad}
         all == IF IsInstall(p) /\ Template(p).data = <<>> THEN {} ELSE rows
         here == db[box.db]
     IN  OnDirectory(p, IsInstall(p) \/ Dir(p).data # {},
                     [here EXCEPT !.items = @ \cup (all \cap Admits[here.manifest])])

\* The assertion files of the command: the template's, those on the command
\* line, or those found in the directory that is applied.
TestFiles(p) ==
  IF cmd(p).op = "templates apply" THEN FlattenSeq(SetToSeq({Templates[t].tests : t \in Dir(p).tests}))
  ELSE Template(p).tests

\* One of the assertion files that were downloaded cannot be read.
Unreadable(p) == \/ cmd(p).op = "templates apply" /\ Dir(p).badTests # {}
                 \/ IsInstall(p) /\ cmd(p).tmpl \in Dir(p).badTests

Runner(p) ==
  LET up == IF box.st = "serving" THEN "up" ELSE "down"
  IN  CASE cmd(p).op = "directory test"  -> NewDirectoryTestRunner(up)
        [] cmd(p).op = "authorizer test" -> NewAuthorizerTestRunner(up)
        [] OTHER                         -> NewTestRunner(up)

RunTests(p) ==
  /\ At(p, "RunTests")
  /\ LET out == TestRunnerRun(Runner(p).ds, Runner(p).az, db[box.db].items, Allows[box.policy], TestFiles(p))
         dir == cmd(p).op = "templates apply" => Dir(p).tests # {}
     IN  Next1(p, Ended(IF ~dir \/ Unreadable(p) THEN "err" ELSE IF out = "error" THEN "err" ELSE out))
  /\ KeepDocker /\ KeepHome /\ KeepRest

-----------------------------------------------------------------------------

\* The daemon in the container reads its configuration and goes through its
\* services in any order.  Only the first can find its certificate files missing:
\* with a gateway it looks at both sets and generates both, and the exporter or the
\* importer, which have none, look at the gRPC set alone and generate that.
setupCerts ==
  /\ box.st = "new"
  /\ LET f == files[box.cfg]
     IN  \/ f.st # "ok" /\ box' = NoBox /\ UNCHANGED <<gens, mess>>
         \/ /\ f.st = "ok"
            /\ \E own \in {GRPC \o Gateway, GRPC} :
                 LET make == FindExisting(certs) \cap ToSet(own) = {}
                 IN  /\ box' = [box EXCEPT !.st = "certs", !.db = f.db, !.policy = f.policy,
                                           !.todo = IF make THEN own ELSE <<>>, !.gen = gens + 1]
                     /\ gens' = IF make THEN gens + 1 ELSE gens
                     /\ mess' = IF make /\ \E p \in Procs : Writing(p) THEN mess \cup {"overlap"} ELSE mess
  /\ UNCHANGED <<json, files, db, tmplDir, certs, image, others, held, proc, begun, faults>>

MakeDevCert ==
  /\ box.st = "certs" /\ box.todo # <<>>
  /\ certs' = [certs EXCEPT ![Head(box.todo)] = box.gen]
  /\ box' = [box EXCEPT !.todo = Tail(@)]
  /\ UNCHANGED <<json, files, db, tmplDir, image, others, held, proc, gens, begun, faults, mess>>

\* It serves only with a key and the certificate made for it, for each of its ports.
Listens ==
  /\ box.st = "certs" /\ box.todo = <<>>
  /\ LET ok == \A s \in {Gateway, GRPC} : certs[s[1]] # 0 /\ certs[s[1]] = certs[s[2]]
     IN  box' = IF ok THEN [box EXCEPT !.st = "open"] ELSE NoBox
  /\ UNCHANGED <<json, files, db, tmplDir, certs, image, others, held, proc, gens, begun, faults, mess>>

Serves ==
  /\ box.st = "open"
  /\ box' = [box EXCEPT !.st = "serving"]
  /\ UNCHANGED <<json, files, db, tmplDir, certs, image, others, held, proc, gens, begun, faults, mess>>

\* The container ends by itself, or the user of run ends it.
Exits ==
  /\ Running
  /\ (faults < MaxFaults \/ \E p \in Procs : Waiting(p) /\ box.by = p)
  /\ box' = NoBox
  /\ faults' = IF \E p \in Procs : Waiting(p) /\ box.by = p THEN faults ELSE faults + 1
  /\ UNCHANGED <<json, files, db, tmplDir, certs, image, others, held, proc, gens, begun, mess>>

\* A call of the next step fails, or the process is killed before it.
Breaks(p) ==
  /\ ~Idle(p) /\ faults < MaxFaults
  /\ faults' = faults + 1
  /\ Err(p)
  /\ mess' = mess \cup {"broken"} \cup (IF Writing(p) /\ ForcesCerts(p) THEN {"torn"} ELSE {})
  /\ KeepDocker /\ KeepHome /\ UNCHANGED <<db, begun>>

-----------------------------------------------------------------------------

\* The home directory at first: configurations made earlier, with the
\* certificates made for the first of them, any of them active.
Init ==
  /\ \E made \in {{}, Names \ {"config"}}, noCheck \in NoChecks :
       /\ json \in [active : {"default"} \cup made, running : {None}, noCheck : {noCheck}]
       /\ files = [n \in Names |-> IF n \in made THEN RemoteImageTemplate(n, None) ELSE NoFile]
       /\ certs = [f \in CertFiles |-> IF made = {} THEN 0 ELSE 1]
       /\ \E stale \in Stale : db = [n \in Names \cup {None} |-> IF n \in made THEN stale ELSE EmptyStore]
  /\ tmplDir = [n \in Names |-> NoDir]
  /\ image = FALSE
  /\ box = NoBox /\ others \in Others /\ held = {}
  /\ proc = [p \in Procs |-> Ended("ok")]
  /\ gens = 1 /\ begun = 0 /\ faults = 0 /\ mess = {}

Lifecycle(p) ==
  \/ StopCheck(p) \/ DockerStop(p) \/ WaitClosed(p) \/ StopSave(p)
  \/ StartCheck(p) \/ EnsureImage(p) \/ DockerStart(p) \/ DockerRun(p) \/ SaveRunning(p) \/ WaitOpened(p)
  \/ InstallCheck(p) \/ PullImage(p) \/ RemoveImage(p) \/ RemoveFiles(p)

Configure(p) ==
  \/ NewActive(p) \/ Create(p) \/ GenerateConfig(p) \/ UseCheck(p) \/ UseSave(p)
  \/ DeleteCheck(p) \/ ClearActive(p) \/ RemoveFile(p)
  \/ RenameCheck(p) \/ RenameActive(p) \/ RenameFile(p)
  \/ GenerateCerts(p) \/ signCert(p) \/ RemoveTrusted(p) \/ RemoveCerts(p)

Templating(p) ==
  \/ Confirm(p) \/ GetTemplate(p) \/ ServiceHealthStatus(p) \/ ApplyCheck(p)
  \/ DownloadModel(p) \/ DownloadData(p) \/ DownloadTests(p)
  \/ DeleteManifest(p) \/ SetManifest(p) \/ ImportData(p) \/ RunTests(p)

Step(p) == ~Idle(p) /\ (Lifecycle(p) \/ Configure(p) \/ Templating(p))
Daemon == setupCerts \/ MakeDevCert \/ Listens \/ Serves

Next ==
  \/ \E p \in Procs : Step(p) \/ RunWaits(p) \/ Breaks(p) \/ \E c \in Commands : NewConfig(p, c)
  \/ Daemon \/ Exits

\* The process waits for docker, for a download, for the directory, for the
\* system's trust store or for an answer of the user: none of these has a deadline.
Asks(p) ==
  /\ ~Idle(p)
  /\ \/ Head(proc[p].todo) \in
          {"StopCheck", "DockerStop", "StartCheck", "EnsureImage", "DockerStart", "DockerRun", "InstallCheck",
           "PullImage", "RemoveImage", "UseCheck", "DeleteCheck", "RenameCheck", "Confirm", "GetTemplate",
           "DownloadModel", "DownloadData", "DownloadTests", "DeleteManifest", "SetManifest", "ImportData",
           "RunTests", "RemoveTrusted"}
     \/ At(p, "Create") /\ ~Forced(p) /\ Exists(cmd(p).name)

\* A process that waits for nobody goes on.  Nothing is assumed of the daemon, the
\* engine, the network and the user.
Fairness == \A p \in Procs : WF_vars(Step(p) /\ ~Asks(p))

Spec == Init /\ [][Next]_vars /\ Fairness

-----------------------------------------------------------------------------

Alone == "overlap" \notin mess
Ends(p, out) == ~Idle(p) /\ proc'[p].out = out
Assertions(p) == UNION {ToSet(f) : f \in ToSet(TestFiles(p))}
Meets(a, truth) == (a.expected = "true") = truth

\* A template installation that ends without error, and saw the service
\* serving, leaves exactly the template in the directory: its manifest, the rows
\* that the manifest admits of those of its files that could be read, nothing of
\* what was stored before; and each of its assertions holds
\* (InstallTemplateCmd.installTemplate).  This is said of a process that was alone
\* and of a template directory that holds no files of another template.
Installed(p) ==
  /\ IsInstall(p) /\ Ends(p, "ok") /\ proc[p].healthy /\ Alone
  /\ Dir(p).data = ToSet(Template(p).data)
Holds(p, dataFiles) ==
  [manifest |-> Template(p).manifest,
   items |-> (UNION {Rows[f] : f \in dataFiles}) \cap Admits[Template(p).manifest]]
InstallComplete ==
  [][\A p \in Procs : Installed(p) =>
       LET d == db'[cmd(p).name]
       IN  /\ d = Holds(p, Dir(p).data \ Dir(p).bad)
           /\ cmd(p).flag => \A a \in Assertions(p) : Meets(a, Truth(d.items, Allows[cmd(p).tmpl], a))]_vars

\* It leaves the rows of all of its files (importData; a file that could not be
\* read is skipped).
InstallWhole ==
  [][\A p \in Procs : Installed(p) => db'[cmd(p).name] = Holds(p, Dir(p).data)]_vars

\* The test runner returns no error just when every assertion it could put came
\* out as expected, and every one it skipped expected false: none that failed,
\* could not be asked, was refused, or lacks its outcome, its check or the request
\* goes unnoticed, in whatever file and position (TestRunner.Run).  An expected
\* outcome that is no Boolean counts as false (GetBool).
WellFormed(a) == /\ a.expected # "absent" /\ a.key \in CheckTypes /\ getReqVersion(a.fields) # 0
                 /\ a.key = "check" => "object_type" \in a.fields
TestsExact ==
  [][\A p \in Procs :
       (At(p, "RunTests") /\ proc'[p] # proc[p] /\ faults' = faults)
       => LET client(a) == IF a.key = "authorizer_evaluation" THEN Runner(p).az ELSE Runner(p).ds
              right(a) == CASE client(a) = "nil" -> Meets(a, FALSE)
                            [] client(a) = "down" \/ a.fate # "fine" -> FALSE
                            [] OTHER -> Meets(a, Truth(db[box.db].items, Allows[box.policy], a))
          IN  (proc'[p].out = "ok") <=>
                /\ (cmd(p).op = "templates apply" => Dir(p).tests # {}) /\ ~Unreadable(p)
                /\ \A a \in Assertions(p) : WellFormed(a) /\ right(a)]_vars

\* config delete and config rename never touch the configuration file of the
\* container that runs (DeleteConfigCmd.Run, RenameConfigCmd.Run), when docker
\* answers and no_check is not set.
RunningKept ==
  [][\A p \in Procs :
       ((At(p, "RemoveFile") \/ At(p, "RenameFile")) /\ proc'[p] # proc[p] /\ Running
          /\ Alone /\ "docker" \notin mess /\ ~proc[p].mem.noCheck)
       => files'[box.cfg] = files[box.cfg]]_vars

\* The files of one set of certificates are of one generation, however often
\* generating or removing them broke off (GenerateCerts, setupCerts): a set may
\* be incomplete, and is never mixed, unless a forced generation is under way or
\* broke off.
CertsMatch ==
  (mess \cap {"overlap", "torn"} = {} /\ ~\E p \in Procs : Writing(p) /\ ForcesCerts(p))
  => \A s \in {Gateway, GRPC} : Cardinality({certs[f] : f \in ToSet(s) \cap FindExisting(certs)}) <= 1

\* A daemon that has gone through its services has both sets of certificates, when
\* nothing broke off (setupCerts).
CertsWhole ==
  (box.st = "certs" /\ box.todo = <<>> /\ faults = 0 /\ Alone)
  => FindExisting(certs) = ToSet(Gateway) \cup ToSet(GRPC)

\* Every command ends, whatever the container does, unless docker, the network,
\* the directory or the user leaves it without an answer for ever: no wait for
\* ports or for the health of the service holds it (WaitForPorts,
\* ServiceHealthStatus, Retry).  run lasts as long as its container.
CommandEnds == \A p \in Procs : []<>(Idle(p) \/ Waiting(p)) \/ <>[]Asks(p)

=============================================================================
