# Eamerald in TLA+

Specifications of Eamerald's concurrent and crash-sensitive parts, the TLC
instances that check them, and TLAPS proofs of most of the safety properties.
`PROJECT.json` maps every definition to the lines it models, and lists
components, runs, mutants, hazards, findings and theorems.

## The system

A process (`daemon/app`) starts one gRPC server, with an optional gateway, per
configured address (`daemon/service/builder`). The **directory**
(`internal/eds`) keeps objects, relations and a manifest in BoltDB or Postgres,
and offers Reader, Writer, Model, Importer and Exporter services and an Access
API. The **authorizer** (`daemon/authorizer`) evaluates Rego policies with OPA
and reads the directory; its policy comes from a bundle, which the **git
plugin** can fetch. The **edge plugin** schedules **data sync**, which copies a
hub directory to a local one. The **Entra plugin** fills a directory from
Microsoft Entra. Decisions are recorded in the **decision log**
(`internal/adl`). Older BoltDB files go through **schema migrations** when they
are opened. **`mrld`** is the command line: it manages configurations,
certificates, templates and the container, and moves directory contents.
Every part, modelled or not, is a component in `PROJECT.json`.

## Modules

| Module | Models | State and actions |
|---|---|---|
| `DataSync` | `internal/eds/pkg/datasync` | Hub, edge, cached model, watermark; per run the producer, the channel, the subscriber's transaction, the filter. Actions are the stages of a run, failures and crashes. |
| `Replica` | what data sync promises | The edge only moves towards a hub state that was read. `DataSync` implements it with `copy <- snap`. |
| `EdgeScheduler` | `plugins/edge/plugin.go` | Scheduler and task goroutines, ticker, flag `running`, contexts, Reconfigure, SyncNow, Stop. |
| `Directory` | Writer and Model services on either store | Objects, the two relation indexes, manifest, cached model. Each request is validation, begin, write, update of the model. `Serial` says whether write transactions are serialised (bolt) or not (Postgres). |
| `Reader` | Reader service, the directory's Access API, identity resolution | The store while others write, one request with its pages, scans and tokens. Bolt answers from one snapshot per View, Postgres statement by statement. |
| `Transfer` | Importer and Exporter, `mrld`'s backup and restore, `migrate-to-postgres`, loads, the Entra pass | Source and destination, the archive, and an Import as three processes: handler, sender and receiver, which share a context. |
| `AccessCache` | `impl/access.go`, `prepared_query_cache.go` | Policy selection, package list, cached queries, singleflight, compiler rotation (OPA, external). |
| `GitPlugin` | `plugins/git/plugin.go` | Remote, clones, active policy, `lastHash`, health; a sync in three steps, Reconfigure, restart. A process that ends inside a clone may leave a part of it. |
| `Daemon` | `eamerald.go`, `service_manager.go`, OPA plugin start, decision log | Boot and its failures, start by dependency, health, requests, drain and forced stop, cleanups, closing of the log. |
| `Migration` | `bdb/migrations`, `openBoltDB` | File, backups, lock; every function of every migration is a transaction, and processes crash in between. |
| `Mrld` | `mrld`'s commands | `topaz.json`, configurations, databases, templates, certificates, the container and others whose names match. A command is the sequence of its steps; kills, failing docker calls and a second process come in between. |
| `Assertions` | `mrld`'s test runner | Operators: one assertion, a file, a run with its counters and verdict. `Mrld` uses them. |

`MC*` modules give the constants for TLC; `*Proofs` modules hold the theorems.
`MCDirectoryRequests` adds the variable `oneByOne`, which separates behaviours
whose requests overlap from those whose requests do not.

Abstractions. The cuckoo filter is an ideal set with a capacity, and may be
given false positives. A hub always has a manifest; one that came in several
messages has another etag than the same bytes stored by the edge (`Chunked`).
The watermark keeps the count that sizes the filter, not the timestamp, which
the exporter ignores. In `DataSync` an export is one snapshot, as on bolt;
`Transfer` has both kinds. Contents are model values, and a manifest is the set
of items it admits. In `Reader` a key is its fields, ordered by `KeyOrder`, and
a page token is a place in that order. A bucket of a migrated file is its
encoding. In `Transfer` an Entra list is read at once, and a row that the store
itself refuses is left out. `openOrClone` of the git plugin is one step. In
`Reader` a permission is a union of relations. An assertion has one check.
Docker, OPA, bbolt, azm and go-git are external and modelled as far as the code
relies on them.

## Runs

| Run | Shows | States |
|---|---|---|
| `datasync` | One run at a time in every mode, a changing hub, one failure or crash: the edge moves only towards an exported state, equals it after a Diff run, conforms to its manifest, and reaches a hub at rest. | 322,734 |
| `scheduler` | A scheduler has one thing going until somebody calls SyncNow; the flag `running` is never left set; one run in four is a Diff; an enabled plugin keeps running Diffs, a disabled or stopped one comes to rest. | 387,646 |
| `directory_requests` | Two clients, all operations, serialised transactions: the indexes agree, conditional writes lose no update, no relation is left behind, the model in use was committed. One by one: cached and stored model are the same, and the store conforms. | 950,725 |
| `reader` | A listing in pages misses nothing that was there all the time; bolt's answers are of one instant of the store; either store's answers have their grounds, also when Views fail; GetRelation finds the one relation asked for. | 3,509,890 |
| `transfer` | A job that succeeds has moved what was there all the while; an archive from bolt is one state; an acknowledged import is stored, an ended one is whole or nothing; every job ends. | 344,451 |
| `access_serving` | Which cached values can be stale, decisions never go back, nobody waits for a preparation that is over. | 952,712 |
| `access_stale` | Violation: a stale query stays cached after an eviction. | |
| `git_follow` | The policy follows the ref through failures, broken commits, restarts, also inside a clone, and Reconfigure between syncs. | 2,350,987 |
| `daemon_life` | Five configurations, one with the directory at two addresses and one whose servers cannot all start: the boot waits for none of its own servers, announced services are served, the store outlives requests unless stopped by force, shutdown ends. | 125,752 |
| `daemon_adl` | Violation: decisions answered while draining have no record. | |
| `migration_restart` | Two processes and two crashes: what is served has all its data; a migration that is not cut short ends in service. | 340,842 |
| `mrld` | What a successful template installation leaves, what a green test run means, that certificates are never mixed, that every command ends which is not left without an answer. | 196,830 |

Each property of a passing run has a mutant in `PROJECT.json`: a plausible bug
in one definition under which TLC finds the property violated.

Bounds. One object and one relation are enough for replication and for transfers
(which have a second object the manifest may refuse), because items do not
interact except through the manifest, the filter and the order of rows, and
these are small enough to bite; a channel of one makes producer and subscriber
block. Two clients, workers, tasks and processes give every pairwise
interleaving. Two schedulers, with two Reconfigures, are needed for an old
scheduler to survive; two Reconfigures are also what the race in `GitPlugin`
needs. `Reader` has ids of which one begins another, because prefix scans are
where a key filter can go wrong, and pages of one and two, so that a token is
needed. `Mrld` has configuration names of which one is a prefix of another,
because docker's name filter matches substrings, and another container that the
filter may match. `GitPlugin` has a cache directory that two repositories share.
The bounds on requests, faults, pushes, writes and crashes only cap counters.
Two runs join questions that would be too large together: `CallsAlone` keeps
callers of SyncNow apart from Reconfigures and faults, of which there are two
together, and `MCDirectoryRequests` allows one overlapping request less than
requests in sequence. `Mrld` starts no two commands at once in its run
(`Together = FALSE`), since overlapping commands do lose updates (below).
CHECK_DEADLOCK is off where bounds end the behaviour or the process may stop;
`AccessCache` and `Migration` are checked for deadlock.

Fairness. Goroutines, handlers, client steps and command steps that can go on do
(weak fairness); of `mrld`'s only those that wait for nobody, since its calls of
docker, the network and the directory, and its prompts, have no deadline. A send
to a select that is repeatedly ready succeeds some time, and senders on a
channel are served in turn (strong fairness, `CallFairness`, only for callers of
SyncNow). The start of a Diff run is strongly fair in `DataSync`, which the
scheduler's cycle of four justifies (`DiffInFour`). The poll ticker of git goes
on; its first sync, in the start of the process, is only sure to end once the
context is done. Shutdown's timeout passes, and a transaction whose connection
it cut ends. The edge scheduler's ticker, which waits 15 s at least, is taken to
fire after the task that reset it has ended. Nothing is assumed of faults,
clients, pushes, crashes, handlers' duration or the end of a container.

## Proofs

All theorems are for every value of the constants under the named `ASSUME`s of
the modules. These only give types and say what the code fixes: None-like
values are no members, a configuration has the services it names
(`ConfigsAssumption`), and an old file is as its version's code wrote it
(`FilesAssumption`). TLC evaluates them on every run.

- `DataSyncProofs`, any number of concurrent runs. Types. `Invariants`:
  `TypeOK /\ TxInv /\ FilterInv`. `TxInv` says an open transaction differs from
  the edge by exported items only, which is what makes its commit an abstract
  step; `FilterInv` says a completed export is all in the filter, which makes
  the diff safe. From it `Refinement` (of `Replica`) and `DeletionSafety`. All but
  types assume `FilterFits`: every item fits into the smallest filter, 100000
  in the code.
- `DataSyncOneRunProofs`, one run at a time. `AloneConforms`, from `Conform`: the
  cached model differs from the stored one only between the commit of
  setManifest and UpdateModel, when no transaction is open. `AloneExact`, from
  `Exact`: what the filter holds is what was exported. It also assumes
  `FilterFits` and no false positives; with one, an item the hub has deleted
  stays.
- `EdgeSchedulerProofs`. Types; `NoOverlapNoStall` from `ActivityInv`, which adds
  that no mode is queued and that tasks belong to a scheduler that was started,
  and holds until the first call of SyncNow; `FlagCleared` from `FlagInv`, with
  callers, which adds that nothing goes on after a panic; `DiffInFour` from
  `DiffInv` (`sinceDiff < cycle`) and `QuietInv` (`ActivityInv` until the first call
  of SyncNow), by which no tick meets the flag and uses up a turn.
- `DirectoryProofs`. Types, `Indexes` and
  `CachedModelCommitted` for either store; `CacheInv` adds the manifest about to
  be cached. `NoLostUpdate` and `NoDanglingRelations` assume `Serial` and rest on
  `Transactions` (what a serialised transaction read stays current). `ModelInStep` and `NothingUnknown`,
  for requests one by one, rest on `Aligned`: a request under way is valid for
  the stored manifest, and the gap between commit and UpdateModel is one
  client's.
- `GitPluginProofs`. `RememberedIsActive` from `SyncInv`: as long as no
  Reconfigure fell into a sync, the directory a sync opened is the configured
  one and holds the commit it will remember, whatever it was cloned from.
- `AccessCacheProofs`. `NobodyWaitsInVain` from `FlightInv` (a flight is led by
  the handler it names, for its key). `DecisionsDoNotFlipBack` from `AgeInv`, which
  orders the versions answered, cached, being stored and being evaluated for a
  key, and needs `FlightInv` for there being one preparation per key.
  `OnlyOverlapsAreStale` from `StaleInv`, which says of every handler about to
  store that it read the current compiler or overlapped a rotation.
- `DaemonProofs`. `StoreOutlivesCalls`: a request is handled at a server that
  serves or drains, and only the cleanup of a directory address
  that is stopped closes the store; so none of it is under way there, unless
  the directory has another address that was stopped before.
- `MigrationProofs`. `ServedIsIntact`, any number of processes and crashes. The
  invariant gives the file a phase: absent, being created, too new, in the old
  encoding (`Old`), in the hands of the mig007 that has deleted its manifest
  (`Seven`), without a manifest mig007 could read (`Lost`), in the new encoding
  (`Mature`). In the first six nobody serves. The only
  way from `Old` to `Mature` is through `Seven` to its end, because a later attempt
  makes its own backup, which no longer has what mig007 needs. `Plans` says that a
  process migrates one version at a time, `Locking` that one at a time has the
  file open, `Versioned` that what is served has the required version.
  What each list of functions does to a file is a lemma of its own.

`TypeOK`, `TxInv` and `FilterInv` are proved and not part of a listed run;
`DataSync_two.cfg`, with two runs at once, checks them.

Only model-checked:

- all liveness (`Converges`, `KeepsSyncing`, `ComesToRest`, `FollowsRemote`,
  `HealthKept`, `Boots`, `ShutsDown`, `Serves`, `CommandEnds`, `JobEnds`): fairness and
  ENABLED are out of the prover's reach;
- `PagesExact`, `SnapshotAnswers`, `AnswersBracketed`, `GetRelationExact` of `Reader`,
  and `TransferFaithful`, `AckedStored`, `AllOrNothing`, `ArchiveOneState` of
  `Transfer`: they are about what filters, scans and folds over sequences of any
  length compute, which takes an induction over data;
- `InstallComplete`, `TestsExact` and `CertsMatch` of `Mrld`, for the
  same reason (the test runner is a fold) or because of the size of `Mrld`.

## Known limits of the code

What follows does **not** hold. The passing runs leave the case out, do not claim
the property, or check it under a condition that excludes the case. The first
two are runs and findings; those with a configuration can be reproduced with it
("with it": the run's configuration, with this property instead of its own);
for the others TLC found the case when the condition was removed from the
property.

| Property | What happens | Instance |
|---|---|---|
| `CacheFresh` (AccessCache) | A query prepared from the old compiler is stored after the eviction. | run `access_stale` |
| `DecisionLogged` | The log closes when the context ends, while servers drain. | run `daemon_adl` |
| `StoreConforms`, two clients | Validation precedes the transaction; an object of a dropped type is stored. | `Directory_race.cfg` |
| `ConditionalManifest`, two clients | If-Match is compared outside the transaction. | `Directory_ifmatch.cfg` |
| `CacheFresh` (Directory) with DeleteManifest | The cached model stays. | `Directory_delete.cfg` |
| `RelationsGone`, not `Serial` | A relation is added behind the scans of DeleteObject. | `Directory_dangling.cfg` |
| `ConditionalWrites`, not `Serial` | On read-committed transactions an update is lost. | `Directory_postgres.cfg` |
| `OneInstant` on Postgres | The statements of one View see different states. | `Reader_run.cfg` with it |
| `GetRelationMatches` on bolt | A key filter narrows by leading fields and by the beginning of the last id; GetRelation filters no further. | `Reader_run.cfg` with it |
| `AckedStored` with another import in the batch | A bolt batch whose other import fails is run again, and the streams have been read by then. | `Transfer_batch.cfg` |
| `DeletesOnlyAbsent`, small filter | An insert fails unnoticed and the diff deletes an item the hub has. | `DataSync_filter.cfg` |
| `DiffExact` with a batch run again | The second run of the subscriber's function finds the channel drained. | `DataSync_batch.cfg` |
| `RunEnds` | A subscriber that cannot begin its transaction leaves the producer at a full channel for ever; `Converges` exempts it (`Stalled`). | `DataSync_run.cfg` with it |
| `AlwaysConverges` | A manifest that drops a type is refused while instances exist, and the run that would delete them ends. | `DataSync_typeremoval.cfg` |
| `QueuedModeRuns` | A queued mode meets `running` still set; nothing re-arms the ticker. | `EdgeScheduler_ondemand.cfg` |
| `DisabledNotServing` | A finishing task sets SERVING on a disabled plugin. | `EdgeScheduler_health.cfg` |
| `StopIsFinal` | A Stop that overtakes an enabling Reconfigure cancels the context that is then replaced. | `EdgeScheduler_stop.cfg` |
| `NoPanic`, interval 0 | `Ticker.Reset(0)` panics. | `EdgeScheduler_panic.cfg` |
| one living scheduler | Disable and enable between two rounds leave the old one alive. | condition removed |
| `ActiveIsLastHash` after a race | A Reconfigure inside a sync activates another checkout than the one remembered. | condition removed |
| `AlwaysFollows` | A clone cut off before it had its origin, or one of another repository in the same `cache_dir`, is opened for ever and never replaced; `FollowsRemote` exempts both (`CloneFits`). | `GitPlugin_follow.cfg` with it |
| active path is the configured one | A Reconfigure of the path alone meets an unchanged hash. | condition removed |
| `Serves` after a crash | mig007 and mig009 delete before they copy, and a retry overwrites the backup. A file cut short inside mig007 never gets past it again (phase `Lost`); its data is lost, and is not served. | condition removed |
| version in `ServingIntact`, two processes | A late process stores an older version on a migrated file; the data is intact. | condition removed |
| `StoreOpenForCalls` after a forced stop | A handler that outlives the timeout finds the store closed. | condition removed |
| `StoreOpenForCalls`, `ShutsDown`, directory at two addresses | Each address closes the one store when it stops: calls at the other fail, and a transaction open there holds the shutdown up. | condition removed |
| `HealthKept`, not `Startable` | An address with two dependents, or a dependency cycle, never starts, though its services are announced. | condition removed |
| `InstallWhole` | An error page saved in place of a data file is skipped by the import, and install reports success. | `Mrld_run.cfg` with it |
| `RunningKept` | The check asks for another container name than `--container-name` gave, and rename may move a file onto the one that runs. | `Mrld_run.cfg` with it |
| `CertsWhole` | A boot whose first service is the exporter or importer makes the gRPC set only. | `Mrld_run.cfg` with it |

By reading, while modelling; the models follow the code in these, except where
it says so:

- Boot: the first sync of the git plugin holds it up for as long as the
  repository does not answer. A git poll that fails between ready and
  CheckPluginsStatus fails the boot. Plugin statuses are not tracked afterwards.
- Migration: a panic is recovered and `Migrate` returns nil (not modelled).
- Importer: it retries a receive error until its context ends; an error of the
  store on one row is answered and the rest is committed (not modelled).
- Git: a Reconfigure inside openOrClone can clone into the other configuration's
  directory (not modelled).
- Reader: the model is cached outside the View, so the answers of one Checks may
  go by two models; Check answers a failed View with false and a reason.
- Entra: passes add and never delete; relations of an old user name stay; a
  custom `user_object_type` never resolves; with a legacy manifest a pass fails at
  its first user.
- Identity: a failed Check of the direction is ignored, the direction can be
  stale when it is used, and a missing user object is made up.
- Transfer: errors of Backup's row writes are only printed, and BackupCmd
  truncates its target first (neither modelled).
- `mrld`, processes: overlapping commands lose each other's changes to
  `topaz.json` and can mix certificates; a broken-off forced generation leaves a
  mixed set, a broken-off rename a dangling active configuration.
- `mrld`, checks: `--no-check` is read before the flags are parsed, and stop stores
  `no_check` as false; rename overwrites an existing target; uninstall removes
  `directory.db` though configurations use `<name>.db`; apply resets the directory
  before it looks for the files; `IsRunning` holds only for exactly one match, so a
  docker error counts as not running.
- `mrld`, containers and templates: a health timeout lets install return without
  error; installing over a running instance, and restart or stop of one that is
  not recorded as running, fail after stopping it; re-using a configuration name
  for another template imports the old files too; a container whose start failed
  keeps its name.
- `mrld`, tests: a skipped assertion counts as passed if it expects false and as
  failed if it expects true; an expected outcome that is no Boolean reads as false.

## Not modelled

- Rego evaluation, Is, Query and DecisionTree, the built-ins: OPA's on one
  request, without state of the repository's own.
- gRPC servers, middlewares, authentication, configuration structures: wrapping
  or reading of one request or file, without state between them.
- Token and certificate contents, file syntax, size limits, SQL text, YAML:
  contents of data the properties do not tell apart.
- Entra: token requests, and a Reconfigure in the middle of a pass.
- `mrld`: `--no-configure`, local template files, console, status, listing, editing,
  verify; the boltdb backup plugin: one call each, or no state of the modelled
  parts.

Which component is covered how far is in `PROJECT.json`.
