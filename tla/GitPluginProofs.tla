-------------------------- MODULE GitPluginProofs ---------------------------
(***************************************************************************)
(* What the git plugin remembers as active is active, for any number of    *)
(* repositories, commits, configurations, pushes, failures and restarts.   *)
(***************************************************************************)
EXTENDS GitPlugin, TLAPS

(* The types the argument needs. *)
Types ==
    /\ config \in Configs
    /\ remote \in [Repos -> Commits \cup {None}]
    /\ origin \in [Dirs -> Repos \cup {None, Cut}]
    /\ worktree \in [Dirs -> Commits \cup {None}]
    /\ opened \in Dirs
    /\ pc \in {"open", "fetch", "activate", "wait", "gone"}
    /\ pc = "fetch" => origin[opened] # None

(* While no Reconfigure has fallen into a sync, the directory the sync     *)
(* opened is the configured one, and from the checkout on it holds the     *)
(* commit fetchAndCheckout returned: the bundle that activate loads, which *)
(* reads the directory afresh, is of the commit it remembers.              *)
SyncInv ==
    ~raced =>
        /\ pc \in {"fetch", "activate"} => opened = cacheDir
        /\ pc = "activate" => hash = worktree[opened]

Inv == Types /\ SyncInv /\ ActiveIsLastHash

(* newGitPlugin and Start begin without policy and without a hash. *)
LEMMA InitInv == Init => Inv
  BY ConstantsAssumption DEF Init, Fresh, Inv, Types, SyncInv, ActiveIsLastHash, cacheDir

(* Every step of the plugin keeps the invariant. *)
LEMMA NextInv == Inv /\ [Next]_vars => Inv'
  <1> SUFFICES ASSUME Inv, [Next]_vars PROVE Inv'
    OBVIOUS
  <1> USE ConstantsAssumption DEF Inv, Types, SyncInv, ActiveIsLastHash, cacheDir
  <1>1. ASSUME NEW r \in Repos, Push(r) PROVE Inv'
    BY <1>1 DEF Push, disk, run, shown
  <1>2. CASE openOrClone
    BY <1>2 DEF openOrClone, SyncFails, shown
  <1>3. CASE fetchAndCheckout
    BY <1>3 DEF fetchAndCheckout, resolveRef, SyncFails, SyncSucceeds, shown
  <1>4. CASE activate
    BY <1>4 DEF activate, Loadable, SyncFails, SyncSucceeds, disk
  <1>5. CASE Tick
    BY <1>5 DEF Tick, disk, shown
  <1>6. CASE StepFails
    BY <1>6 DEF StepFails, SyncFails, disk
  <1>7. CASE Done
    BY <1>7 DEF Done, disk, shown
  <1>8. CASE Stop
    BY <1>8 DEF Stop, disk, run
  <1>9. ASSUME NEW c \in Configs, Reconfigure(c) PROVE Inv'
    BY <1>9 DEF Reconfigure, disk, run, shown
  <1>10. CASE Restart
    BY <1>10 DEF Restart, CutClone
  <1>11. CASE UNCHANGED vars
    BY <1>11 DEF vars, disk, run, shown
  <1> QED
    BY <1>1, <1>2, <1>3, <1>4, <1>5, <1>6, <1>7, <1>8, <1>9, <1>10, <1>11 DEF Next, Sync

(* The hash that sync compares the next fetch with is the one of the       *)
(* active bundle, unless a Reconfigure fell into a sync: a commit that     *)
(* failed to load or to activate is tried again.                           *)
THEOREM RememberedIsActive == Spec => []ActiveIsLastHash
  <1>1. Inv => ActiveIsLastHash
    BY DEF Inv
  <1> QED
    BY <1>1, InitInv, NextInv, PTL DEF Spec
=============================================================================
