----------------------------- MODULE GitPlugin ------------------------------
(***************************************************************************)
(* The git policy source: a plugin of the policy runtime that polls a      *)
(* repository, checks the configured ref out into a cache directory and    *)
(* activates what it finds there as the bundle the runtime serves.         *)
(*                                                                         *)
(* A configuration names a repository (the ref has the same name in all),  *)
(* a cache directory and a path inside the checkout; an explicit cache_dir *)
(* may be given to two repositories.  A commit stands for its hash.        *)
(* Repository, worktree and policy store are external (go-git, OPA) and    *)
(* modelled by what the plugin makes of them.                              *)
(***************************************************************************)
EXTENDS Naturals, FiniteSets

CONSTANTS Repos, Commits, Dirs, Paths,
          Configs,       \* configurations Reconfigure may install
          RepoOf, DirOf, PathOf,
          Broken,        \* commits that no bundle can be activated from
          None,
          Cut,           \* origin of a clone that was cut off before it had one
          MaxPushes, MaxFaults, MaxReconfigures, MaxRestarts   \* bounds

ASSUME ConstantsAssumption ==
    /\ RepoOf \in [Configs -> Repos] /\ DirOf \in [Configs -> Dirs] /\ PathOf \in [Configs -> Paths]
    /\ Broken \subseteq Commits /\ None \notin Commits \cup [commit : Commits, path : Paths]
    /\ None \notin Repos /\ Cut \notin Repos \cup {None}
    /\ {MaxPushes, MaxFaults, MaxReconfigures, MaxRestarts} \subseteq Nat

VARIABLES
    remote,    \* commit the ref points to in each repository, None while empty
    origin,    \* repository cloned into each directory, None without a clone
    worktree,  \* commit checked out in each directory, or None
    policy,    \* the active bundle: [commit, path], or None
    config,    \* Plugin.config, and with it cacheDir
    lastHash,  \* Plugin.lastHash
    stopped,   \* the plugin's context is cancelled
    pc,        \* where the plugin's goroutine is
    opened,    \* directory of the repository a sync works on
    hash,      \* commit fetchAndCheckout returned
    starting,  \* the sync in progress is the one Start makes
    health,    \* health status of the service "git"
    status,    \* plugin status the runtime sees
    raced,     \* history: a Reconfigure fell into a sync
    used       \* history: how often each bounded event has happened

disk  == <<origin, worktree>>
run   == <<pc, opened, hash, starting>>
shown == <<health, status>>
vars  == <<remote, disk, policy, config, lastHash, stopped, run, shown, raced, used>>

cacheDir == DirOf[config]

(* newGitPlugin and Start: the runtime sees StateOK before the first sync. *)
Fresh ==
    /\ lastHash = None /\ policy = None
    /\ stopped = FALSE /\ starting = TRUE
    /\ pc = "open" /\ opened = cacheDir /\ hash = None
    /\ health = "NOT_SERVING" /\ status = "OK"

Init ==
    /\ remote \in [Repos -> Commits \cup {None}]
    /\ origin = [d \in Dirs |-> None] /\ worktree = [d \in Dirs |-> None]
    /\ config \in Configs
    /\ Fresh
    /\ raced = FALSE
    /\ used = [e \in {"push", "fault", "reconfigure", "restart"} |-> 0]

Spend(event, bound) ==
    used[event] < bound /\ used' = [used EXCEPT ![event] = @ + 1]

(* Somebody pushes to a repository, or resets its ref. *)
Push(r) ==
    /\ Spend("push", MaxPushes)
    /\ \E c \in Commits \ {remote[r]} : remote' = [remote EXCEPT ![r] = c]
    /\ UNCHANGED <<disk, policy, config, lastHash, stopped, run, shown, raced>>

----------------------------------------------------------------------------
(* How a sync ends.                                                        *)

(* Start leaves the health status alone when its sync fails; the           *)
(* scheduler reports every result.                                         *)
SyncFails ==
    /\ pc' = "wait" /\ starting' = FALSE
    /\ status' = IF starting THEN status ELSE "ERROR"
    /\ health' = IF starting THEN health ELSE "NOT_SERVING"

SyncSucceeds ==
    /\ pc' = "wait" /\ starting' = FALSE
    /\ status' = IF starting THEN status ELSE "OK"
    /\ health' = "SERVING"

(* The network, the disk or the credentials fail the current step. *)
StepFails ==
    /\ pc \in {"open", "fetch", "activate"}
    /\ Spend("fault", MaxFaults)
    /\ SyncFails
    /\ UNCHANGED <<remote, disk, policy, config, lastHash, stopped, opened, hash, raced>>

(* A directory with a clone is opened, whatever it was cloned from. *)
openOrClone ==
    /\ pc = "open"
    /\ opened' = cacheDir
    /\ \/ /\ origin[cacheDir] # None \/ remote[RepoOf[config]] # None
          /\ origin' = [origin EXCEPT ![cacheDir] = IF @ = None THEN RepoOf[config] ELSE @]
          /\ pc' = "fetch"
          /\ UNCHANGED <<starting, shown>>
       \/ /\ origin[cacheDir] = None /\ remote[RepoOf[config]] = None   \* empty: clone cleans up
          /\ SyncFails
          /\ UNCHANGED origin
    /\ UNCHANGED <<remote, worktree, policy, config, lastHash, stopped, hash, raced, used>>

(* What the ref resolves to in the clone's origin. *)
resolveRef == IF origin[opened] = Cut THEN None ELSE remote[origin[opened]]

(* Mutant: a commit that is checked out already ends the sync. *)
fetchAndCheckoutSkipsSame ==
    LET c == resolveRef IN
    /\ pc = "fetch"
    /\ hash' = c
    /\ worktree' = [worktree EXCEPT ![opened] = IF c = None THEN @ ELSE c]
    /\ \/ c = None /\ SyncFails
       \/ c # None /\ c = worktree[opened] /\ SyncSucceeds
       \/ c # None /\ c # worktree[opened] /\ pc' = "activate" /\ UNCHANGED <<starting, shown>>
    /\ UNCHANGED <<remote, origin, policy, config, lastHash, stopped, opened, raced, used>>

(* Fetch, resolve the ref among what was fetched, and check it out; a      *)
(* commit that is active already ends the sync.                            *)
fetchAndCheckout ==
    LET c == resolveRef IN
    /\ pc = "fetch"
    /\ hash' = c
    /\ worktree' = [worktree EXCEPT ![opened] = IF c = None THEN @ ELSE c]
    /\ \/ c = None /\ SyncFails
       \/ c # None /\ c = lastHash /\ SyncSucceeds
       \/ c # None /\ c # lastHash /\ pc' = "activate" /\ UNCHANGED <<starting, shown>>
    /\ UNCHANGED <<remote, origin, policy, config, lastHash, stopped, opened, raced, used>>

Loadable == worktree[cacheDir] # None /\ worktree[cacheDir] \notin Broken

(* Load the bundle from the cache directory, which is read afresh, and     *)
(* activate it in one transaction of the policy store.  Only an activated  *)
(* commit is remembered.                                                   *)
activateRemembersFirst ==
    /\ pc = "activate"
    /\ lastHash' = hash
    /\ \/ /\ Loadable
          /\ policy' = [commit |-> worktree[cacheDir], path |-> PathOf[config]]
          /\ SyncSucceeds
       \/ ~Loadable /\ SyncFails /\ UNCHANGED policy
    /\ UNCHANGED <<remote, disk, config, stopped, opened, hash, raced, used>>

activate ==
    /\ pc = "activate"
    /\ \/ /\ Loadable
          /\ policy' = [commit |-> worktree[cacheDir], path |-> PathOf[config]]
          /\ lastHash' = hash
          /\ SyncSucceeds
       \/ ~Loadable /\ SyncFails /\ UNCHANGED <<policy, lastHash>>
    /\ UNCHANGED <<remote, disk, config, stopped, opened, hash, raced, used>>

(* scheduler: the next tick of the poll interval, or the end. *)
Tick ==
    /\ pc = "wait"
    /\ pc' = "open" /\ hash' = None
    /\ UNCHANGED <<remote, disk, policy, config, lastHash, stopped, opened, starting, shown, raced, used>>

Done ==
    /\ pc = "wait" /\ stopped
    /\ pc' = "gone"
    /\ UNCHANGED <<remote, disk, policy, config, lastHash, stopped, opened, hash, starting, shown, raced, used>>

Stop ==
    /\ ~stopped /\ ~starting
    /\ stopped' = TRUE /\ status' = "NOT_READY"
    /\ UNCHANGED <<remote, disk, policy, config, lastHash, run, health, raced, used>>

(* Replaces configuration and cache directory, in the middle of a sync or  *)
(* not; what the last sync remembered stays.                               *)
Reconfigure(c) ==
    /\ ~starting /\ Spend("reconfigure", MaxReconfigures)
    /\ config' = c
    /\ raced' = (raced \/ pc \in {"fetch", "activate"})
    /\ UNCHANGED <<remote, disk, policy, lastHash, stopped, run, shown>>

(* A clone that the end of the process cuts off may leave a repository     *)
(* behind, with its origin or before it has one.                           *)
CutClone ==
    origin' \in {origin} \cup
        IF pc = "open" /\ origin[cacheDir] = None
        THEN {[origin EXCEPT ![cacheDir] = o] : o \in {RepoOf[config], Cut}}
        ELSE {}

(* A new process finds the cache directories of the old one. *)
Restart ==
    /\ Spend("restart", MaxRestarts)
    /\ CutClone
    /\ lastHash' = None /\ policy' = None
    /\ stopped' = FALSE /\ starting' = TRUE
    /\ pc' = "open" /\ opened' = cacheDir /\ hash' = None
    /\ health' = "NOT_SERVING" /\ status' = "OK"
    /\ UNCHANGED <<remote, worktree, config, raced>>

Sync == openOrClone \/ fetchAndCheckout \/ activate \/ Tick

Next == \/ \E r \in Repos : Push(r)
        \/ Sync \/ StepFails \/ Done \/ Stop
        \/ \E c \in Configs : Reconfigure(c)
        \/ Restart

(* The poll ticker ticks again and again and a started sync goes on. *)
Spec == Init /\ [][Next]_vars /\ WF_vars(Sync)

----------------------------------------------------------------------------
(* Properties.                                                             *)

(* The commit the plugin compares the next fetch with (lastHash) is the    *)
(* one that is active: a commit that failed to load is never taken for     *)
(* active and skipped.  Holds unless a Reconfigure fell into a sync, which *)
(* reads the cache directory a second time.                                *)
ActiveIsLastHash ==
    ~raced => IF policy = None THEN lastHash = None ELSE lastHash = policy.commit

(* The cache directory holds no clone, or one of the configured            *)
(* repository: none that was cut off before it had an origin, and none     *)
(* that another configuration with the same cache_dir left.                *)
CloneFits == origin[cacheDir] \in {None, RepoOf[config]}

(* Once the configured ref settles on a commit that can be activated, that *)
(* commit becomes the active policy and stays it: an empty repository,     *)
(* broken commits, failed steps, restarts - in the middle of a clone too - *)
(* and Reconfigure between syncs are all recovered from by polling, unless *)
(* the cache directory keeps a clone that does not fit (openOrClone).      *)
FollowsRemote ==
    \A c \in Commits \ Broken :
        <>[](remote[RepoOf[config]] = c /\ ~stopped /\ ~raced /\ CloneFits)
            => <>[](policy # None /\ policy.commit = c /\ health = "SERVING")

(* The same whatever the cache directory keeps. *)
AlwaysFollows ==
    \A c \in Commits \ Broken :
        <>[](remote[RepoOf[config]] = c /\ ~stopped /\ ~raced)
            => <>[](policy # None /\ policy.commit = c /\ health = "SERVING")

=============================================================================
