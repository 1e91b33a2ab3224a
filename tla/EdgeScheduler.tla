---------------------------- MODULE EdgeScheduler ---------------------------
(***************************************************************************)
(* The edge plugin's scheduler (daemon/authorizer/plugins/edge/plugin.go). *)
(*                                                                         *)
(* A scheduler goroutine waits for its ticker, for an on-demand request or *)
(* for its context to be cancelled, and starts a task goroutine that syncs *)
(* and re-arms the ticker.  Reconfigure disables and enables the plugin    *)
(* from outside, cancelling the context and starting a new scheduler.      *)
(*                                                                         *)
(* A sync mode is the set of its bits.  A sync itself (DataSync) is one    *)
(* step that succeeds or fails.  Time is abstracted: an armed ticker may   *)
(* fire at any moment, but not before the task that has just reset it is   *)
(* gone, since it waits for 15 seconds at least.                           *)
(***************************************************************************)
EXTENDS Naturals, Sequences, FiniteSets

CONSTANTS Schedulers,     \* scheduler goroutines: Start's and one per enabling
          Tasks,          \* bound: task goroutines alive together
          Callers,        \* callers of SyncNow
          CallerModes,    \* the modes they ask for
          Intervals,      \* values of sync_interval a configuration may have
          MaxReconfigures,
          MaxFaults       \* bound: syncs that fail

ASSUME SchedulerAssumption ==
  /\ Schedulers \subseteq Nat /\ 1 \in Schedulers
  /\ Intervals \subseteq Nat /\ Intervals # {}
  /\ CallerModes \subseteq SUBSET {"Full", "Diff", "Watermark", "Manifest"} \ {{}}
  /\ MaxReconfigures \in Nat /\ MaxFaults \in Nat

VARIABLES
  enabled, interval,  \* p.config
  health,             \* health status of the service "sync"
  ctx, cancelled,     \* p.ctx, and the contexts that are cancelled
  stopped,            \* Stop was called
  overtaken,          \* history: Stop came while a Reconfigure was enabling
  rc, newEnabled, newInterval, reconfigures,   \* a Reconfigure under way
  pc, selected,       \* scheduler goroutines; selected: the context of the select
  armed, cycle, intervalMode, onDemandMode, running,   \* their local variables
  tpc, owner, mode, runs,   \* task goroutines; runs: the syncs still to do
  want,               \* on-demand mode each caller is waiting to hand over
  called,             \* history: somebody has called SyncNow
  panicked, faults,
  sinceDiff           \* history: runs dispatched since the last Diff run, per
                      \* scheduler, until somebody calls SyncNow

cfgVars == <<enabled, interval, health, ctx, cancelled, stopped, overtaken>>
rcVars == <<rc, newEnabled, newInterval, reconfigures>>
schVars == <<pc, selected, armed, cycle, intervalMode, onDemandMode, running, sinceDiff>>
taskVars == <<tpc, owner, mode, runs>>
callVars == <<want, called>>
vars == <<cfgVars, rcVars, schVars, taskVars, callVars, panicked, faults>>

cycles == 4

\* newEdgePlugin and Start; a disabled plugin is never created.  A scheduler's
\* ticker is armed when it starts, with the startup delay.
Init ==
  /\ enabled = TRUE /\ interval \in Intervals /\ health = "NOT_SERVING"
  /\ ctx = 1 /\ cancelled = {} /\ stopped = FALSE /\ overtaken = FALSE
  /\ rc = "idle" /\ newEnabled = TRUE /\ newInterval = interval /\ reconfigures = 0
  /\ pc = [s \in Schedulers |-> IF s = 1 THEN "top" ELSE "none"]
  /\ selected = [s \in Schedulers |-> 0] /\ armed = [s \in Schedulers |-> s = 1]
  /\ cycle = [s \in Schedulers |-> cycles] /\ intervalMode = [s \in Schedulers |-> {}]
  /\ onDemandMode = [s \in Schedulers |-> {}] /\ running = [s \in Schedulers |-> FALSE]
  /\ tpc = [t \in Tasks |-> "none"] /\ owner = [t \in Tasks |-> 1]
  /\ mode = [t \in Tasks |-> {}] /\ runs = [t \in Tasks |-> << >>]
  /\ want = [c \in Callers |-> {}] /\ called = FALSE
  /\ panicked = FALSE /\ faults = 0 /\ sinceDiff = [s \in Schedulers |-> 0]

-----------------------------------------------------------------------------
(* The scheduler goroutine.                                                *)

\* The select statement reads p.ctx each time round the loop.
Select(s) ==
  /\ pc[s] = "top"
  /\ pc' = [pc EXCEPT ![s] = "select"] /\ selected' = [selected EXCEPT ![s] = ctx]
  /\ UNCHANGED <<cfgVars, rcVars, armed, cycle, intervalMode, onDemandMode, running, sinceDiff,
                 taskVars, callVars, panicked, faults>>

\* case <-p.ctx.Done(), with the deferred interval.Stop.
Done(s) ==
  /\ pc[s] = "select" /\ selected[s] \in cancelled
  /\ pc' = [pc EXCEPT ![s] = "done"] /\ armed' = [armed EXCEPT ![s] = FALSE]
  /\ UNCHANGED <<cfgVars, rcVars, selected, cycle, intervalMode, onDemandMode, running, sinceDiff,
                 taskVars, callVars, panicked, faults>>

\* Mutant: a Diff only after four other runs.
IsDiffTurnLate(n) == n % (cycles + 1) = 0

\* if cycle%cycles == 0.
IsDiffTurn(n) == n % cycles = 0

\* case t := <-interval.C.
Tick(s) ==
  /\ pc[s] = "select" /\ armed[s] /\ ~\E t \in Tasks : tpc[t] = "rearmed" /\ owner[t] = s
  /\ pc' = [pc EXCEPT ![s] = "dispatch"] /\ armed' = [armed EXCEPT ![s] = FALSE]
  /\ IF IsDiffTurn(cycle[s])
     THEN /\ intervalMode' = [intervalMode EXCEPT ![s] = {"Diff"}]
          /\ cycle' = [cycle EXCEPT ![s] = 1]
     ELSE /\ intervalMode' = [intervalMode EXCEPT ![s] = {"Watermark"}]
          /\ cycle' = [cycle EXCEPT ![s] = @ + 1]
  /\ UNCHANGED <<cfgVars, rcVars, selected, onDemandMode, running, sinceDiff, taskVars, callVars,
                 panicked, faults>>

\* case mode := <-p.syncNow; fold is the union of the bits.
Receive(s, m) ==
  /\ pc[s] = "select"
  /\ pc' = [pc EXCEPT ![s] = "dispatch"] /\ armed' = [armed EXCEPT ![s] = FALSE]
  /\ onDemandMode' = [onDemandMode EXCEPT ![s] = @ \cup m]
  /\ UNCHANGED <<cfgVars, rcVars, selected, cycle, intervalMode, running, sinceDiff, owner, mode, runs,
                 panicked, faults>>

\* The channel is unbuffered: a caller hands its mode over directly,
SyncNow(s, c) ==
  /\ want[c] # {} /\ Receive(s, want[c])
  /\ want' = [want EXCEPT ![c] = {}]
  /\ UNCHANGED <<tpc, called>>

\* and so does a task that found a queued mode.
Resend(s, t) ==
  /\ tpc[t] = "send" /\ Receive(s, mode[t])
  /\ tpc' = [tpc EXCEPT ![t] = "exit"]
  /\ UNCHANGED callVars

\* The syncs a task performs for a mode, in order.
Runs(m) ==
  IF m = {} THEN <<"Full">>
  ELSE (IF "Watermark" \in m THEN <<"Watermark">> ELSE << >>) \o
       (IF "Diff" \in m THEN <<"Diff">>
        ELSE IF "Full" \in m THEN <<"Full">>
        ELSE IF "Manifest" \in m /\ "Watermark" \notin m THEN <<"Manifest">>
        ELSE << >>)

\* if !running.Load(): a task is started in the on-demand mode, else in the
\* interval mode.
RunMode(s) == IF onDemandMode[s] # {} THEN onDemandMode[s] ELSE intervalMode[s]

\* The runs since the last Diff when s dispatches a run now.
SinceDiff(s) == IF "Diff" \in RunMode(s) THEN 0 ELSE sinceDiff[s] + 1

Dispatch(s, t) ==
  /\ pc[s] = "dispatch" /\ ~running[s] /\ tpc[t] = "none"
  /\ pc' = [pc EXCEPT ![s] = "top"] /\ onDemandMode' = [onDemandMode EXCEPT ![s] = {}]
  /\ tpc' = [tpc EXCEPT ![t] = "spawned"] /\ owner' = [owner EXCEPT ![t] = s]
  /\ mode' = [mode EXCEPT ![t] = RunMode(s)] /\ runs' = [runs EXCEPT ![t] = Runs(RunMode(s))]
  /\ sinceDiff' = [sinceDiff EXCEPT ![s] = IF called THEN @ ELSE SinceDiff(s)]
  /\ UNCHANGED <<cfgVars, rcVars, selected, armed, cycle, intervalMode, running, callVars, panicked,
                 faults>>

\* Otherwise nothing is started and the loop goes on.
Skip(s) ==
  /\ pc[s] = "dispatch" /\ running[s]
  /\ pc' = [pc EXCEPT ![s] = "top"]
  /\ UNCHANGED <<cfgVars, rcVars, selected, armed, cycle, intervalMode, onDemandMode, running,
                 sinceDiff, taskVars, callVars, panicked, faults>>

-----------------------------------------------------------------------------
(* The task goroutine.                                                     *)

\* running.Store(true).
TaskStart(t) ==
  /\ tpc[t] = "spawned"
  /\ running' = [running EXCEPT ![owner[t]] = TRUE]
  /\ tpc' = [tpc EXCEPT ![t] = "sync"]
  /\ UNCHANGED <<cfgVars, rcVars, pc, selected, armed, cycle, intervalMode, onDemandMode, sinceDiff,
                 owner, mode, runs, callVars, panicked, faults>>

\* exec: the sync succeeds, and p.config.Enabled is read.
Sync(t) ==
  /\ tpc[t] = "sync" /\ runs[t] # << >>
  /\ runs' = [runs EXCEPT ![t] = Tail(@)]
  /\ tpc' = [tpc EXCEPT ![t] = IF enabled THEN "serving" ELSE "sync"]
  /\ UNCHANGED <<cfgVars, rcVars, schVars, owner, mode, callVars, panicked, faults>>

\* exec reports an error; a task that cannot connect does no sync at all.
SyncFails(t) ==
  /\ faults < MaxFaults /\ faults' = faults + 1
  /\ tpc[t] = "sync" /\ runs[t] # << >>
  /\ \E rest \in {Tail(runs[t]), << >>} : runs' = [runs EXCEPT ![t] = rest]
  /\ UNCHANGED <<cfgVars, rcVars, schVars, tpc, owner, mode, callVars, panicked>>

\* SetServiceStatus, whatever has happened to the configuration since.
Serving(t) ==
  /\ tpc[t] = "serving"
  /\ health' = "SERVING"
  /\ tpc' = [tpc EXCEPT ![t] = "sync"]
  /\ UNCHANGED <<enabled, interval, ctx, cancelled, stopped, overtaken, rcVars, schVars, owner, mode,
                 runs, callVars, panicked, faults>>

\* calcInterval: seconds between two runs.
calcInterval(minutes) == (minutes * 60) \div cycles

\* Mutant: the ticker stays stopped.
ResetForgotten(s) == UNCHANGED armed

\* interval.Reset.
Reset(s) == armed' = [armed EXCEPT ![s] = TRUE]

\* Mutant: the flag is left set.
UnflagForgotten(s) == UNCHANGED running

\* The deferred running.Store(false).
Unflag(s) == running' = [running EXCEPT ![s] = FALSE]

\* The goroutine is gone.
Free(t) == /\ tpc' = [tpc EXCEPT ![t] = "none"] /\ owner' = [owner EXCEPT ![t] = 1]
           /\ mode' = [mode EXCEPT ![t] = {}] /\ UNCHANGED runs

\* p.task has returned.
Finished(t) == tpc[t] = "sync" /\ runs[t] = << >>

\* No on-demand mode is queued: the goroutine will arm the ticker again,
TaskIdles(t) ==
  /\ Finished(t) /\ onDemandMode[owner[t]] = {}
  /\ tpc' = [tpc EXCEPT ![t] = "rearm"]
  /\ UNCHANGED <<cfgVars, rcVars, schVars, owner, mode, runs, callVars, panicked, faults>>

\* does so,
TaskRearms(t) ==
  /\ tpc[t] = "rearm" /\ calcInterval(interval) # 0
  /\ Reset(owner[t]) /\ tpc' = [tpc EXCEPT ![t] = "rearmed"]
  /\ UNCHANGED <<cfgVars, rcVars, pc, selected, cycle, intervalMode, onDemandMode, running, sinceDiff,
                 owner, mode, runs, callVars, panicked, faults>>

\* and ends.  A mode that was queued meanwhile is sent to the scheduler,
TaskResends(t) ==
  /\ Finished(t) /\ onDemandMode[owner[t]] # {}
  /\ tpc' = [tpc EXCEPT ![t] = "send"] /\ mode' = [mode EXCEPT ![t] = onDemandMode[owner[t]]]
  /\ UNCHANGED <<cfgVars, rcVars, schVars, owner, runs, callVars, panicked, faults>>

\* and the goroutine ends after SyncNow has returned; the deferred function
\* clears the flag.
TaskExit(t) ==
  /\ tpc[t] \in {"rearmed", "exit"}
  /\ Unflag(owner[t]) /\ Free(t)
  /\ UNCHANGED <<cfgVars, rcVars, pc, selected, armed, cycle, intervalMode, onDemandMode, sinceDiff,
                 callVars, panicked, faults>>

\* Reset panics on a wait of zero, outside task's recover: the process dies.
TaskPanics(t) ==
  /\ tpc[t] = "rearm" /\ calcInterval(interval) = 0
  /\ panicked' = TRUE /\ stopped' = TRUE /\ rc' = "idle"
  /\ pc' = [s \in Schedulers |-> "done"] /\ tpc' = [u \in Tasks |-> "none"]
  /\ UNCHANGED <<enabled, interval, health, ctx, cancelled, overtaken, newEnabled, newInterval,
                 reconfigures, selected, armed, cycle, intervalMode, onDemandMode, running, sinceDiff, owner, mode,
                 runs, callVars, faults>>

-----------------------------------------------------------------------------
(* Reconfigure, Stop and the callers of SyncNow.                           *)

\* Reconfigure compares the enabled flags ...
Reconfigure(e, i) ==
  /\ rc = "idle" /\ ~stopped /\ reconfigures < MaxReconfigures
  /\ newEnabled' = e /\ newInterval' = i /\ reconfigures' = reconfigures + 1
  /\ rc' = IF e = enabled THEN "assign" ELSE IF e THEN "enable" ELSE "disable"
  /\ UNCHANGED <<cfgVars, schVars, taskVars, callVars, panicked, faults>>

\* ... to enable: resetContext and go p.scheduler();
Enable(s) ==
  /\ rc = "enable" /\ rc' = "assign"
  /\ ctx' = ctx + 1
  /\ pc[s] = "none" /\ \A r \in Schedulers : r < s => pc[r] # "none"
  /\ pc' = [pc EXCEPT ![s] = "top"] /\ armed' = [armed EXCEPT ![s] = TRUE]
  /\ UNCHANGED <<enabled, interval, health, cancelled, stopped, overtaken, newEnabled, newInterval,
                 reconfigures, selected, cycle, intervalMode, onDemandMode, running, sinceDiff, taskVars,
                 callVars, panicked, faults>>

\* to disable: the health status first,
Disable ==
  /\ rc = "disable" /\ rc' = "cancel"
  /\ health' = "NOT_SERVING"
  /\ UNCHANGED <<enabled, interval, ctx, cancelled, stopped, overtaken, newEnabled, newInterval,
                 reconfigures, schVars, taskVars, callVars, panicked, faults>>

\* Mutant: the context is left alone.
CancelNothing == cancelled

\* p.cancel(): the contexts cancelled after it.
CancelCurrent == cancelled \cup {ctx}

\* then p.cancel(),
Cancel ==
  /\ rc = "cancel" /\ rc' = "assign"
  /\ cancelled' = CancelCurrent
  /\ UNCHANGED <<enabled, interval, health, ctx, stopped, overtaken, newEnabled, newInterval,
                 reconfigures, schVars, taskVars, callVars, panicked, faults>>

\* and in every case the new configuration takes effect at the end.
Assign ==
  /\ rc = "assign" /\ rc' = "idle"
  /\ enabled' = newEnabled /\ interval' = newInterval
  /\ UNCHANGED <<health, ctx, cancelled, stopped, overtaken, newEnabled, newInterval, reconfigures,
                 schVars, taskVars, callVars, panicked, faults>>

\* Stop cancels the current context, at any moment of a Reconfigure.
Stop ==
  /\ ~stopped
  /\ stopped' = TRUE /\ cancelled' = CancelCurrent /\ overtaken' = (rc = "enable")
  /\ UNCHANGED <<enabled, interval, health, ctx, rcVars, schVars, taskVars, callVars, panicked, faults>>

\* Somebody calls SyncNow and blocks until a scheduler takes the mode.
Call(c, m) ==
  /\ want[c] = {} /\ ~stopped
  /\ want' = [want EXCEPT ![c] = m] /\ called' = TRUE
  /\ sinceDiff' = [s \in Schedulers |-> 0]
  /\ UNCHANGED <<cfgVars, rcVars, pc, selected, armed, cycle, intervalMode, onDemandMode, running,
                 taskVars, panicked, faults>>

-----------------------------------------------------------------------------
Loop(s) == Select(s) \/ Done(s) \/ Tick(s) \/ (\E t \in Tasks : Dispatch(s, t)) \/ Skip(s)
Work(t) == TaskStart(t) \/ Sync(t) \/ Serving(t) \/ TaskIdles(t) \/ TaskRearms(t) \/ TaskResends(t)
           \/ TaskExit(t) \/ TaskPanics(t)
Handover == \E s \in Schedulers : (\E c \in Callers : SyncNow(s, c)) \/ (\E t \in Tasks : Resend(s, t))
ReconfigureStep == (\E s \in Schedulers : Enable(s)) \/ Disable \/ Cancel \/ Assign

Next ==
  \/ \E s \in Schedulers : Loop(s)
  \/ \E t \in Tasks : Work(t) \/ SyncFails(t)
  \/ Handover \/ ReconfigureStep
  \/ \E e \in BOOLEAN, i \in Intervals : Reconfigure(e, i)
  \/ Stop
  \/ \E c \in Callers, m \in CallerModes : Call(c, m)

Spec == Init /\ [][Next]_vars

\* Goroutines go on, Reconfigure runs to its end, and a select with several ready
\* cases does not pass over the same one for ever.
Fairness ==
  /\ \A s \in Schedulers : WF_vars(Loop(s)) /\ SF_vars(Done(s))
  /\ \A t \in Tasks : WF_vars(Work(t))
  /\ WF_vars(ReconfigureStep)

\* Senders on a channel are served in the order in which they came.
CallFairness ==
  /\ \A c \in Callers : SF_vars(\E s \in Schedulers : SyncNow(s, c))
  /\ \A t \in Tasks : SF_vars(\E s \in Schedulers : Resend(s, t))

FairSpec == Spec /\ Fairness
FairCallSpec == FairSpec /\ CallFairness

-----------------------------------------------------------------------------
(* Properties.                                                             *)

Modes == {"Full", "Diff", "Watermark", "Manifest"}
Alive(s) == pc[s] \in {"top", "select", "dispatch"}
Busy(t, s) == tpc[t] # "none" /\ owner[t] = s

\* Every variable has its type; cycle counts from 1 to 4.
TypeOK ==
  /\ enabled \in BOOLEAN /\ interval \in Intervals /\ health \in {"SERVING", "NOT_SERVING"}
  /\ ctx \in Nat /\ cancelled \subseteq Nat /\ panicked \in BOOLEAN
  /\ stopped \in BOOLEAN /\ overtaken \in BOOLEAN
  /\ rc \in {"idle", "enable", "disable", "cancel", "assign"} /\ faults \in Nat
  /\ newEnabled \in BOOLEAN /\ newInterval \in Intervals /\ reconfigures \in Nat
  /\ pc \in [Schedulers -> {"none", "top", "select", "dispatch", "done"}]
  /\ selected \in [Schedulers -> Nat] /\ armed \in [Schedulers -> BOOLEAN]
  /\ cycle \in [Schedulers -> 1..cycles] /\ intervalMode \in [Schedulers -> SUBSET Modes]
  /\ onDemandMode \in [Schedulers -> SUBSET Modes] /\ running \in [Schedulers -> BOOLEAN]
  /\ tpc \in [Tasks -> {"none", "spawned", "sync", "serving", "rearm", "rearmed", "send", "exit"}]
  /\ owner \in [Tasks -> Schedulers] /\ mode \in [Tasks -> SUBSET Modes]
  /\ runs \in [Tasks -> Seq(Modes)]
  /\ want \in [Callers -> SUBSET Modes] /\ called \in BOOLEAN /\ sinceDiff \in [Schedulers -> Nat]

\* A task that has armed the ticker has only the flag left to clear.
Working(t, s) == Busy(t, s) /\ tpc[t] # "rearmed"

\* A living scheduler has exactly one thing going.
OneThingGoing ==
  \A s \in Schedulers : Alive(s) =>
    /\ \A t, u \in Tasks : Busy(t, s) /\ Busy(u, s) => t = u
    /\ armed[s] => pc[s] # "dispatch"
    /\ armed[s] \/ pc[s] = "dispatch" <=> ~\E t \in Tasks : Working(t, s)

\* Until somebody calls SyncNow, a scheduler always has exactly one thing going:
\* an armed ticker, a run to dispatch or one task.  So its tasks never overlap and
\* it never goes to sleep without a wake-up (scheduler, with the flag running,
\* interval.Stop and interval.Reset).
OneActivity == ~called => OneThingGoing

\* Also with on-demand callers: the flag running of a living scheduler is set
\* only while it has a task, so that it cannot keep the scheduler from
\* dispatching for ever.
FlagNotStuck ==
  \A s \in Schedulers : Alive(s) /\ running[s] => \E t \in Tasks : Busy(t, s)

\* Until somebody calls SyncNow, of any four consecutive runs that a scheduler
\* dispatches one is a Diff run: the turn of a Diff is never used up by a tick that
\* the flag running makes the scheduler skip.
DiffDue == ~called => \A s \in Schedulers : sinceDiff[s] < cycles

\* An enabled plugin starts Diff runs again and again, whatever enabling and
\* disabling came before and whatever syncs fail, if nobody calls SyncNow.
KeepsSyncing ==
  <>[](enabled /\ rc = "idle" /\ ~stopped /\ ~called) =>
    []<>(\E t \in Tasks : tpc[t] = "sync" /\ runs[t] # << >> /\ Head(runs[t]) = "Diff")

\* Every scheduler has returned and every task has ended.
AtRest == (\A s \in Schedulers : ~Alive(s)) /\ (\A t \in Tasks : tpc[t] = "none")

\* A plugin that stays disabled or is stopped comes to rest, if nobody calls
\* SyncNow: every scheduler returns and every task ends.  Stop may come at any
\* moment, also while Reconfigure disables the plugin or assigns its configuration.
ComesToRest ==
  <>[](~called /\ ((stopped /\ ~overtaken) \/ (~enabled /\ rc = "idle"))) => <>[]AtRest

\* The same for a Stop while Reconfigure enables the plugin, which then replaces
\* the context that Stop has cancelled (Reconfigure, resetContext).
StopIsFinal == <>[](~called /\ stopped) => <>[]AtRest

\* A disabled plugin does not report itself as serving (Reconfigure).
DisabledNotServing == ~enabled /\ rc = "idle" => health = "NOT_SERVING"

\* An on-demand mode that a scheduler has queued is run some time, as long as
\* the scheduler lives (SyncNow, and the task's check after its run).
QueuedModeRuns ==
  \A s \in Schedulers : onDemandMode[s] # {} ~> onDemandMode[s] = {} \/ ~Alive(s)

\* The scheduler does not bring the process down.
NoPanic == ~panicked
=============================================================================
