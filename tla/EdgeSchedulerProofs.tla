------------------------- MODULE EdgeSchedulerProofs ------------------------
(***************************************************************************)
(* Proofs about EdgeScheduler, for every number of schedulers, tasks and   *)
(* reconfigurations.                                                       *)
(***************************************************************************)
EXTENDS EdgeScheduler, TLAPS

\* Runs yields sync modes only.
LEMMA RunsType == ASSUME NEW m \in SUBSET Modes PROVE Runs(m) \in Seq(Modes)
<1> DEFINE first == IF "Watermark" \in m THEN <<"Watermark">> ELSE << >>
           rest == IF "Diff" \in m THEN <<"Diff">>
                   ELSE IF "Full" \in m THEN <<"Full">>
                   ELSE IF "Manifest" \in m /\ "Watermark" \notin m THEN <<"Manifest">>
                   ELSE << >>
<1>1. /\ << >> \in Seq(Modes) /\ <<"Full">> \in Seq(Modes) /\ <<"Diff">> \in Seq(Modes)
      /\ <<"Watermark">> \in Seq(Modes) /\ <<"Manifest">> \in Seq(Modes)
  BY DEF Modes
<1>2. first \in Seq(Modes)
  BY <1>1
<1>3. rest \in Seq(Modes)
  BY <1>1
<1> HIDE DEF first, rest
<1>4. first \o rest \in Seq(Modes)
  BY <1>2, <1>3
<1>5. Runs(m) = IF m = {} THEN <<"Full">> ELSE first \o rest
  BY DEF Runs, first, rest
<1> QED BY <1>1, <1>4, <1>5

\* Type correctness of the initial states.
LEMMA InitType == Init => TypeOK
<1> SUFFICES ASSUME Init PROVE TypeOK
  OBVIOUS
<1>1. runs \in [Tasks -> Seq(Modes)]
  <2>1. << >> \in Seq(Modes)
    OBVIOUS
  <2> QED BY <2>1 DEF Init
<1>2. armed \in [Schedulers -> BOOLEAN]
  BY Zenon DEF Init
<1>3. cycle \in [Schedulers -> 1..cycles]
  BY DEF Init, cycles
<1> QED BY <1>1, <1>2, <1>3, SchedulerAssumption DEF Init, TypeOK

\* The steps of the scheduler goroutines preserve the types.
LEMMA LoopType ==
  ASSUME TypeOK, NEW s \in Schedulers, Loop(s) PROVE TypeOK'
<1> USE DEF cfgVars, rcVars, taskVars, callVars
<1>1. CASE Select(s)
  BY <1>1 DEF Select, TypeOK
<1>2. CASE Done(s)
  BY <1>2 DEF Done, TypeOK
<1>3. CASE Tick(s)
  <2>1. {"Diff"} \in SUBSET Modes /\ {"Watermark"} \in SUBSET Modes
    BY DEF Modes
  <2>2. CASE IsDiffTurn(cycle[s])
    <3> cycle' = [cycle EXCEPT ![s] = 1]
      BY <1>3, <2>2, Zenon DEF Tick
    <3>1. cycle' \in [Schedulers -> 1..cycles]
      BY DEF TypeOK, cycles
    <3>2. intervalMode' \in [Schedulers -> SUBSET Modes]
      BY <1>3, <2>1, <2>2 DEF Tick, TypeOK
    <3> QED BY <1>3, <3>1, <3>2 DEF Tick, TypeOK
  <2>3. CASE ~IsDiffTurn(cycle[s])
    <3>1. cycle' = [cycle EXCEPT ![s] = cycle[s] + 1]
      BY <1>3, <2>3, Zenon DEF Tick
    <3>2. cycle[s] # 4
      BY <2>3 DEF IsDiffTurn, cycles
    <3>3. cycle' \in [Schedulers -> 1..cycles]
      <4>1. cycle \in [Schedulers -> 1..4]
        BY DEF TypeOK, cycles
      <4>2. cycle[s] + 1 \in 1..4
        BY <3>2, <4>1
      <4> QED BY <3>1, <4>1, <4>2 DEF cycles
    <3>4. intervalMode' \in [Schedulers -> SUBSET Modes]
      BY <1>3, <2>1, <2>3 DEF Tick, TypeOK
    <3> QED BY <1>3, <3>3, <3>4 DEF Tick, TypeOK
  <2> QED BY <2>2, <2>3
<1>4. ASSUME NEW t \in Tasks, Dispatch(s, t) PROVE TypeOK'
  <2>1. RunMode(s) \in SUBSET Modes
    BY DEF TypeOK, RunMode
  <2>2. Runs(RunMode(s)) \in Seq(Modes)
    BY <2>1, RunsType
  <2>3. sinceDiff' \in [Schedulers -> Nat]
    <3>1. SinceDiff(s) \in Nat
      BY DEF SinceDiff, TypeOK
    <3>2. PICK n \in Nat : sinceDiff' = [sinceDiff EXCEPT ![s] = n]
      BY <1>4, <3>1 DEF Dispatch, TypeOK
    <3> QED BY <3>2 DEF TypeOK
  <2> QED BY <1>4, <2>1, <2>2, <2>3 DEF Dispatch, TypeOK
<1>5. CASE Skip(s)
  BY <1>5 DEF Skip, TypeOK
<1> QED BY <1>1, <1>2, <1>3, <1>4, <1>5 DEF Loop

\* The steps of the task goroutines preserve the types.
LEMMA WorkType ==
  ASSUME TypeOK, NEW t \in Tasks, Work(t) \/ SyncFails(t) PROVE TypeOK'
<1> USE SchedulerAssumption DEF cfgVars, rcVars, schVars, taskVars, callVars
<1>1. CASE TaskStart(t)
  BY <1>1 DEF TaskStart, TypeOK
<1>2. CASE Sync(t)
  <2>1. runs' \in [Tasks -> Seq(Modes)]
    BY <1>2 DEF Sync, TypeOK
  <2> QED BY <1>2, <2>1 DEF Sync, TypeOK
<1>3. CASE SyncFails(t)
  <2>1. Tail(runs[t]) \in Seq(Modes) /\ << >> \in Seq(Modes)
    BY <1>3 DEF SyncFails, TypeOK
  <2>2. PICK rest \in Seq(Modes) : runs' = [runs EXCEPT ![t] = rest]
    BY <1>3, <2>1 DEF SyncFails
  <2>3. runs' \in [Tasks -> Seq(Modes)]
    BY <2>2 DEF TypeOK
  <2>4. faults' \in Nat
    BY <1>3 DEF SyncFails, TypeOK
  <2> QED BY <1>3, <2>3, <2>4 DEF SyncFails, TypeOK
<1>4. CASE Serving(t)
  BY <1>4 DEF Serving, TypeOK
<1>5. CASE TaskRearms(t)
  BY <1>5 DEF TaskRearms, Reset, TypeOK
<1>6. CASE TaskResends(t)
  <2>1. onDemandMode[owner[t]] \in SUBSET Modes
    BY DEF TypeOK
  <2>2. mode' \in [Tasks -> SUBSET Modes]
    BY <1>6, <2>1 DEF TaskResends, TypeOK
  <2>3. tpc' \in [Tasks -> {"none", "spawned", "sync", "serving", "rearm", "rearmed", "send", "exit"}]
    BY <1>6 DEF TaskResends, TypeOK
  <2> QED BY <1>6, <2>2, <2>3 DEF TaskResends, TypeOK
<1>7. CASE TaskPanics(t)
  BY <1>7 DEF TaskPanics, TypeOK
<1>8. CASE TaskExit(t)
  BY <1>8 DEF TaskExit, Unflag, Free, TypeOK
<1>9. CASE TaskIdles(t)
  BY <1>9 DEF TaskIdles, TypeOK
<1> QED BY <1>1, <1>2, <1>3, <1>4, <1>5, <1>6, <1>7, <1>8, <1>9 DEF Work

\* Every step preserves the types.
LEMMA StepType == TypeOK /\ [Next]_vars => TypeOK'
<1> SUFFICES ASSUME TypeOK, [Next]_vars PROVE TypeOK'
  OBVIOUS
<1> USE SchedulerAssumption DEF cfgVars, rcVars, schVars, taskVars, callVars
<1>1. ASSUME NEW s \in Schedulers, NEW c \in Callers, SyncNow(s, c) PROVE TypeOK'
  BY <1>1 DEF SyncNow, Receive, TypeOK
<1>2. ASSUME NEW s \in Schedulers, NEW t \in Tasks, Resend(s, t) PROVE TypeOK'
  BY <1>2 DEF Resend, Receive, TypeOK
<1>3. ASSUME NEW e \in BOOLEAN, NEW i \in Intervals, Reconfigure(e, i) PROVE TypeOK'
  <2>1. /\ newEnabled' \in BOOLEAN /\ newInterval' \in Intervals /\ reconfigures' \in Nat
        /\ rc' \in {"idle", "enable", "disable", "cancel", "assign"}
    BY <1>3 DEF Reconfigure, TypeOK
  <2> QED BY <1>3, <2>1 DEF Reconfigure, TypeOK
<1>4. ASSUME NEW s \in Schedulers, Enable(s) PROVE TypeOK'
  <2>1. ctx' \in Nat /\ pc' \in [Schedulers -> {"none", "top", "select", "dispatch", "done"}]
        /\ armed' \in [Schedulers -> BOOLEAN]
    BY <1>4 DEF Enable, TypeOK
  <2> QED BY <1>4, <2>1 DEF Enable, TypeOK
<1>5. CASE Disable \/ Cancel \/ Assign
  <2>1. CASE Disable
    BY <2>1 DEF Disable, TypeOK
  <2>2. CASE Cancel
    BY <2>2 DEF Cancel, CancelCurrent, TypeOK
  <2>3. CASE Assign
    BY <2>3 DEF Assign, TypeOK
  <2> QED BY <1>5, <2>1, <2>2, <2>3
<1>6. CASE Stop
  BY <1>6 DEF Stop, CancelCurrent, TypeOK
<1>7. ASSUME NEW c \in Callers, NEW m \in CallerModes, Call(c, m) PROVE TypeOK'
  <2>1. m \in SUBSET Modes
    BY DEF Modes
  <2>2. sinceDiff' \in [Schedulers -> Nat]
    BY <1>7 DEF Call
  <2> QED BY <1>7, <2>1, <2>2 DEF Call, TypeOK
<1>8. CASE UNCHANGED vars
  BY <1>8 DEF vars, TypeOK
<1> QED BY <1>1, <1>2, <1>3, <1>4, <1>5, <1>6, <1>7, <1>8, LoopType, WorkType
        DEF Next, Handover, ReconfigureStep

\* Every reachable state is well typed.
THEOREM TypeCorrect == Spec => []TypeOK
BY InitType, StepType, PTL DEF Spec

\* What OneActivity needs to be inductive until somebody calls SyncNow: no
\* on-demand mode is ever queued, a task belongs to a scheduler that was
\* started, the flag running is set only while there is a task (by a scheduler
\* that was started), and no tick comes before the task that has armed the ticker
\* is gone.
ActivityInv ==
  /\ \A s \in Schedulers : onDemandMode[s] = {}
  /\ \A t \in Tasks : /\ tpc[t] \in {"none", "spawned", "sync", "serving", "rearm", "rearmed"}
                      /\ tpc[t] # "none" => pc[owner[t]] # "none"
                      /\ tpc[t] = "rearmed" => pc[owner[t]] # "dispatch"
  /\ \A s \in Schedulers : running[s] => pc[s] # "none"
  /\ FlagNotStuck
  /\ OneThingGoing

\* It is about these variables only.
LEMMA ActivityFrame ==
  ASSUME ActivityInv, UNCHANGED <<pc, armed, running, onDemandMode, tpc, owner>> PROVE ActivityInv'
<1>1. \A s \in Schedulers :
        Alive(s)' = Alive(s) /\ \A t \in Tasks : Busy(t, s)' = Busy(t, s) /\ Working(t, s)' = Working(t, s)
  BY DEF Alive, Busy, Working
<1>2. OneThingGoing' /\ FlagNotStuck'
  BY <1>1 DEF ActivityInv, OneThingGoing, FlagNotStuck
<1> QED BY <1>2 DEF ActivityInv

\* Steps of the scheduler goroutines preserve it.
LEMMA LoopActivity ==
  ASSUME TypeOK, ActivityInv, NEW s \in Schedulers, Loop(s) PROVE ActivityInv'
<1> USE DEF ActivityInv, OneThingGoing, FlagNotStuck, Alive, Busy, Working, TypeOK, taskVars
<1>1. CASE Select(s)
  BY <1>1 DEF Select
<1>2. CASE Done(s)
  BY <1>2 DEF Done
<1>3. CASE Tick(s)
  BY <1>3 DEF Tick
<1>4. ASSUME NEW t \in Tasks, Dispatch(s, t) PROVE ActivityInv'
  <2>1. /\ pc[s] = "dispatch" /\ tpc[t] = "none"
        /\ pc' = [pc EXCEPT ![s] = "top"] /\ tpc' = [tpc EXCEPT ![t] = "spawned"]
        /\ owner' = [owner EXCEPT ![t] = s] /\ onDemandMode' = [onDemandMode EXCEPT ![s] = {}]
        /\ UNCHANGED <<armed, running>>
    BY <1>4 DEF Dispatch
  <2>2. ~armed[s] /\ ~\E u \in Tasks : Busy(u, s)
    BY <2>1
  <2>3. \A r \in Schedulers : \A u \in Tasks :
          Busy(u, r)' <=> IF u = t THEN r = s ELSE Busy(u, r)
    BY <2>1
  <2>4. \A r \in Schedulers \ {s} : \A u \in Tasks : Busy(u, r)' <=> Busy(u, r)
    BY <2>1, <2>3
  <2>5. OneThingGoing'
    <3> SUFFICES ASSUME NEW r \in Schedulers, Alive(r)'
                 PROVE  /\ \A u, v \in Tasks : Busy(u, r)' /\ Busy(v, r)' => u = v
                        /\ armed'[r] => pc'[r] # "dispatch"
                        /\ armed'[r] \/ pc'[r] = "dispatch" <=> ~\E u \in Tasks : Working(u, r)'
      BY DEF OneThingGoing
    <3>1. CASE r = s
      <4>1. /\ \A u \in Tasks : Busy(u, r)' <=> u = t
            /\ ~armed'[r] /\ pc'[r] # "dispatch"
        BY <2>1, <2>2, <2>3, <3>1
      <4>2. Working(t, r)'
        BY <2>1, <4>1
      <4> QED
        BY <4>1, <4>2
    <3>2. CASE r # s
      BY <2>1, <2>4, <3>2
    <3> QED BY <3>1, <3>2
  <2>6. FlagNotStuck'
    BY <2>1, <2>2, <2>3, <2>4
  <2> QED BY <2>1, <2>5, <2>6
<1>5. CASE Skip(s)
  BY <1>5 DEF Skip
<1> QED BY <1>1, <1>2, <1>3, <1>4, <1>5 DEF Loop

\* Steps of the task goroutines preserve it.
LEMMA WorkActivity ==
  ASSUME TypeOK, ActivityInv, NEW t \in Tasks, Work(t) \/ SyncFails(t) PROVE ActivityInv'
<1> USE DEF ActivityInv, OneThingGoing, FlagNotStuck, Alive, Busy, Working, TypeOK, schVars
<1>1. CASE TaskStart(t)
  BY <1>1 DEF TaskStart
<1>2. CASE Sync(t)
  BY <1>2 DEF Sync
<1>3. CASE SyncFails(t)
  BY <1>3, ActivityFrame DEF SyncFails
<1>4. CASE Serving(t)
  BY <1>4 DEF Serving
<1>5. CASE TaskRearms(t)
  BY <1>5 DEF TaskRearms, Reset
<1>6. CASE TaskResends(t)
  BY <1>6 DEF TaskResends
<1>7. CASE TaskPanics(t)
  BY <1>7 DEF TaskPanics
<1>8. CASE TaskExit(t)
  <2> DEFINE o == owner[t]
  <2>1. /\ tpc[t] = "rearmed" /\ o \in Schedulers /\ pc[o] # "none" /\ pc[o] # "dispatch"
        /\ tpc' = [tpc EXCEPT ![t] = "none"] /\ running' = [running EXCEPT ![o] = FALSE]
        /\ owner' = [owner EXCEPT ![t] = 1] /\ UNCHANGED <<pc, armed, onDemandMode>>
    BY <1>8 DEF TaskExit, Unflag, Free
  <2>2. \A r \in Schedulers, u \in Tasks : /\ Busy(u, r)' <=> u # t /\ Busy(u, r)
                                           /\ Working(u, r)' <=> Working(u, r)
    BY <2>1
  <2>3. OneThingGoing'
    <3> SUFFICES ASSUME NEW r \in Schedulers, Alive(r)'
                 PROVE  /\ \A u, v \in Tasks : Busy(u, r)' /\ Busy(v, r)' => u = v
                        /\ armed'[r] => pc'[r] # "dispatch"
                        /\ armed'[r] \/ pc'[r] = "dispatch" <=> ~\E u \in Tasks : Working(u, r)'
      BY DEF OneThingGoing
    <3>1. Alive(r) /\ armed'[r] = armed[r] /\ pc'[r] = pc[r]
      BY <2>1
    <3>2. /\ \A u, v \in Tasks : Busy(u, r) /\ Busy(v, r) => u = v
          /\ armed[r] => pc[r] # "dispatch"
          /\ armed[r] \/ pc[r] = "dispatch" <=> ~\E u \in Tasks : Working(u, r)
      BY <3>1
    <3> HIDE DEF Busy, Working
    <3> QED BY <2>2, <3>1, <3>2, Zenon
  <2>4. FlagNotStuck'
    <3> SUFFICES ASSUME NEW r \in Schedulers, Alive(r)', running'[r]
                 PROVE  \E u \in Tasks : Busy(u, r)'
      BY DEF FlagNotStuck
    <3>1. r # o /\ running[r] /\ Alive(r)
      BY <2>1
    <3>2. PICK u \in Tasks : Busy(u, r)
      BY <3>1
    <3>3. u # t
      BY <3>1, <3>2
    <3> QED BY <2>2, <3>2, <3>3
  <2>5. \A u \in Tasks : /\ tpc'[u] \in {"none", "spawned", "sync", "serving", "rearm", "rearmed"}
                         /\ tpc'[u] # "none" => pc'[owner'[u]] # "none"
                         /\ tpc'[u] = "rearmed" => pc'[owner'[u]] # "dispatch"
    BY <2>1
  <2> QED BY <2>1, <2>3, <2>4, <2>5
<1>9. CASE TaskIdles(t)
  BY <1>9 DEF TaskIdles, Finished
<1> QED BY <1>1, <1>2, <1>3, <1>4, <1>5, <1>6, <1>7, <1>8, <1>9 DEF Work

\* Until somebody calls SyncNow nobody waits to hand a mode over either.
NobodyWaits == \A c \in Callers : want[c] = {}
QuietInv == ~called => ActivityInv /\ NobodyWaits

\* It is an invariant.
LEMMA Quiet == Spec => []QuietInv
<1>1. Init => QuietInv
  <2> SUFFICES ASSUME Init PROVE ActivityInv /\ NobodyWaits
    BY DEF QuietInv
  <2>1. \A s \in Schedulers : ~running[s] /\ (armed[s] <=> s = 1) /\ onDemandMode[s] = {}
    BY Zenon DEF Init
  <2>2. \A s \in Schedulers : pc[s] = IF s = 1 THEN "top" ELSE "none"
    BY DEF Init
  <2>3. (\A t \in Tasks : tpc[t] = "none") /\ \A c \in Callers : want[c] = {}
    BY DEF Init
  <2> QED BY <2>1, <2>2, <2>3 DEF ActivityInv, OneThingGoing, FlagNotStuck, Alive, Busy, Working, NobodyWaits
<1>2. TypeOK /\ QuietInv /\ [Next]_vars => QuietInv'
  <2> SUFFICES ASSUME TypeOK, QuietInv, [Next]_vars, ~called'
               PROVE  ActivityInv' /\ NobodyWaits'
    BY DEF QuietInv
  <2>0. UNCHANGED callVars \/ Handover \/ \E c \in Callers, m \in CallerModes : Call(c, m)
    BY DEF Next, Loop, Select, Done, Tick, Dispatch, Skip, Work, TaskStart, Sync, SyncFails, Serving,
           TaskIdles, TaskRearms, TaskResends, TaskExit, TaskPanics, Reconfigure, ReconfigureStep, Enable,
           Disable, Cancel, Assign, Stop, vars
  <2>a. ~called /\ \A c \in Callers, m \in CallerModes : ~Call(c, m)
    <3>1. \A c \in Callers, m \in CallerModes : ~Call(c, m)
      BY DEF Call
    <3>2. Handover => called' = called
      BY DEF Handover, SyncNow, Resend, callVars
    <3> QED BY <2>0, <3>1, <3>2 DEF callVars
  <2>b. ActivityInv /\ NobodyWaits
    BY <2>a DEF QuietInv
  <2>1. ~Handover
    BY <2>b DEF Handover, Resend, SyncNow, ActivityInv, NobodyWaits
  <2>c. NobodyWaits'
    BY <2>0, <2>a, <2>b, <2>1 DEF callVars, NobodyWaits
  <2> ActivityInv
    BY <2>b
  <2>2. ASSUME NEW s \in Schedulers, Enable(s) PROVE ActivityInv'
    <3>1. /\ pc[s] = "none" /\ pc' = [pc EXCEPT ![s] = "top"]
          /\ armed' = [armed EXCEPT ![s] = TRUE] /\ UNCHANGED <<running, onDemandMode, tpc, owner>>
      BY <2>2 DEF Enable, taskVars
    <3>2. /\ pc \in [Schedulers -> {"none", "top", "select", "dispatch", "done"}]
          /\ armed \in [Schedulers -> BOOLEAN] /\ owner \in [Tasks -> Schedulers]
          /\ running \in [Schedulers -> BOOLEAN]
      BY DEF TypeOK
    <3>3. ~\E t \in Tasks : Busy(t, s)
      BY <3>1 DEF ActivityInv, Busy
    <3>4. ~\E t \in Tasks : Busy(t, s)' \/ Working(t, s)'
      BY <3>1, <3>3 DEF Busy, Working
    <3>5. \A r \in Schedulers \ {s} : /\ pc'[r] = pc[r] /\ armed'[r] = armed[r]
                                      /\ \A t \in Tasks : Busy(t, r)' = Busy(t, r)
                                      /\ \A t \in Tasks : Working(t, r)' = Working(t, r)
      BY <3>1, <3>2 DEF Busy, Working
    <3>6. pc'[s] = "top" /\ armed'[s] /\ ~running'[s]
      <4>1. ~running[s]
        BY <3>1, <3>3 DEF ActivityInv
      <4> QED BY <3>1, <3>2, <4>1
    <3>7. OneThingGoing'
      <4> SUFFICES ASSUME NEW r \in Schedulers, Alive(r)'
                   PROVE  /\ \A t, u \in Tasks : Busy(t, r)' /\ Busy(u, r)' => t = u
                          /\ armed'[r] => pc'[r] # "dispatch"
                          /\ armed'[r] \/ pc'[r] = "dispatch" <=> ~\E t \in Tasks : Working(t, r)'
        BY DEF OneThingGoing
      <4>1. CASE r = s
        BY <3>4, <3>6, <4>1
      <4>2. CASE r # s
        BY <3>5, <4>2 DEF ActivityInv, OneThingGoing, Alive
      <4> QED BY <4>1, <4>2
    <3>8. FlagNotStuck'
      BY <3>1, <3>4, <3>5, <3>6 DEF ActivityInv, FlagNotStuck, Alive
    <3>9. \A t \in Tasks : /\ tpc'[t] # "none" => pc'[owner'[t]] # "none"
                           /\ tpc'[t] = "rearmed" => pc'[owner'[t]] # "dispatch"
      BY <3>1, <3>2 DEF ActivityInv
    <3>10. \A r \in Schedulers : running'[r] => pc'[r] # "none"
      <4>1. \A r \in Schedulers : running[r] => pc[r] # "none"
        BY DEF ActivityInv
      <4> QED BY <3>1, <3>5, <3>6, <4>1
    <3> HIDE DEF OneThingGoing, FlagNotStuck
    <3> QED BY <3>1, <3>7, <3>8, <3>9, <3>10 DEF ActivityInv
  <2>3. ASSUME UNCHANGED <<schVars, taskVars>> PROVE ActivityInv'
    BY <2>3, ActivityFrame DEF schVars, taskVars
  <2>4. ASSUME NEW e \in BOOLEAN, NEW i \in Intervals, Reconfigure(e, i)
        PROVE  UNCHANGED <<schVars, taskVars>>
    BY <2>4 DEF Reconfigure
  <2>5. Disable \/ Cancel \/ Assign \/ Stop \/ UNCHANGED vars => UNCHANGED <<schVars, taskVars>>
    BY DEF Disable, Cancel, Assign, Stop, vars
  <2> QED BY <2>a, <2>1, <2>2, <2>3, <2>4, <2>5, <2>c, LoopActivity, WorkActivity
          DEF Next, ReconfigureStep
<1> QED BY <1>1, <1>2, TypeCorrect, PTL DEF Spec

\* Until somebody calls SyncNow the tasks of a scheduler never overlap and a
\* living scheduler always has a wake-up to come, through any sequence of
\* failing syncs, disabling, enabling and stopping.
THEOREM NoOverlapNoStall == Spec => []OneActivity
<1>1. QuietInv => OneActivity
  BY DEF QuietInv, ActivityInv, OneActivity
<1> QED BY <1>1, Quiet, PTL

\* What FlagNotStuck needs with callers of SyncNow, whose tasks may overlap: a
\* scheduler with the flag set has a task, and after a panic nothing goes on.
FlagInv ==
  /\ panicked => /\ stopped /\ rc = "idle"
                 /\ \A s \in Schedulers : pc[s] = "done"
                 /\ \A t \in Tasks : tpc[t] = "none"
  /\ ~panicked => \A s \in Schedulers : running[s] => \E t \in Tasks : Busy(t, s)

\* The steps that neither set nor clear a flag and end no task.
LEMMA FlagFrame ==
  ASSUME FlagInv, ~panicked, UNCHANGED <<panicked, running>>,
         \A s \in Schedulers, t \in Tasks : Busy(t, s) => Busy(t, s)'
  PROVE  FlagInv'
BY DEF FlagInv

\* Steps of the scheduler goroutines preserve it: a task is given to a free place.
LEMMA LoopFlag == ASSUME TypeOK, FlagInv, NEW s \in Schedulers, Loop(s) PROVE FlagInv'
<1>1. ~panicked
  BY DEF FlagInv, Loop, Select, Done, Tick, Dispatch, Skip
<1>2. UNCHANGED <<panicked, running>>
  BY DEF Loop, Select, Done, Tick, Dispatch, Skip
<1>3. \A r \in Schedulers, t \in Tasks : Busy(t, r) => Busy(t, r)'
  <2>1. ASSUME NEW u \in Tasks, Dispatch(s, u) PROVE \A r \in Schedulers, t \in Tasks : Busy(t, r) => Busy(t, r)'
    BY <2>1 DEF Dispatch, Busy, TypeOK
  <2>2. CASE UNCHANGED taskVars
    BY <2>2 DEF taskVars, Busy
  <2> QED BY <2>1, <2>2 DEF Loop, Select, Done, Tick, Skip
<1> QED BY <1>1, <1>2, <1>3, FlagFrame

\* Steps of the task goroutines preserve it: a task that ends clears the flag.
LEMMA WorkFlag == ASSUME TypeOK, FlagInv, NEW t \in Tasks, Work(t) \/ SyncFails(t) PROVE FlagInv'
<1>1. ~panicked /\ owner[t] \in Schedulers
  BY DEF FlagInv, Work, TaskStart, Sync, SyncFails, Serving, TaskIdles, TaskRearms, TaskResends,
         TaskExit, TaskPanics, Finished, TypeOK
<1>2. CASE TaskStart(t)
  BY <1>1, <1>2 DEF TaskStart, FlagInv, Busy, TypeOK
<1>3. CASE Sync(t) \/ SyncFails(t) \/ Serving(t) \/ TaskIdles(t) \/ TaskRearms(t) \/ TaskResends(t)
  <2>1. UNCHANGED <<panicked, running>>
    BY <1>3 DEF Sync, SyncFails, Serving, TaskIdles, TaskRearms, TaskResends, schVars
  <2>2. \A s \in Schedulers, u \in Tasks : Busy(u, s) => Busy(u, s)'
    BY <1>3 DEF Sync, SyncFails, Serving, TaskIdles, TaskRearms, TaskResends, Busy, TypeOK
  <2> QED BY <1>1, <2>1, <2>2, FlagFrame
<1>4. CASE TaskExit(t)
  <2>1. /\ running' = [running EXCEPT ![owner[t]] = FALSE] /\ UNCHANGED panicked
        /\ tpc' = [tpc EXCEPT ![t] = "none"] /\ owner' = [owner EXCEPT ![t] = 1]
    BY <1>4 DEF TaskExit, Unflag, Free
  <2>2. \A s \in Schedulers : running'[s] => s # owner[t] /\ running[s]
    BY <1>1, <2>1 DEF TypeOK
  <2>3. \A s \in Schedulers, u \in Tasks : s # owner[t] /\ Busy(u, s) => Busy(u, s)'
    BY <2>1 DEF Busy, TypeOK
  <2> QED BY <1>1, <2>1, <2>2, <2>3 DEF FlagInv
<1>5. CASE TaskPanics(t)
  BY <1>5 DEF TaskPanics, FlagInv
<1> QED BY <1>2, <1>3, <1>4, <1>5 DEF Work

\* The flag running of a living scheduler is set only while it has a task, also
\* when callers of SyncNow make its tasks overlap: it cannot keep the scheduler
\* from dispatching for ever.
THEOREM FlagCleared == Spec => []FlagNotStuck
<1>1. Init => FlagInv
  <2> SUFFICES ASSUME Init PROVE FlagInv
    OBVIOUS
  <2>1. ~panicked /\ \A s \in Schedulers : ~running[s]
    BY Zenon DEF Init
  <2> QED BY <2>1 DEF FlagInv
<1>2. TypeOK /\ FlagInv /\ [Next]_vars => FlagInv'
  <2> SUFFICES ASSUME TypeOK, FlagInv, [Next]_vars PROVE FlagInv'
    OBVIOUS
  <2>1. CASE Handover
    <3>1. ~panicked /\ UNCHANGED <<panicked, running>>
      BY <2>1 DEF Handover, SyncNow, Resend, Receive, FlagInv
    <3>2. \A s \in Schedulers, u \in Tasks : Busy(u, s) => Busy(u, s)'
      BY <2>1 DEF Handover, SyncNow, Resend, Receive, Busy, TypeOK
    <3> QED BY <3>1, <3>2, FlagFrame
  <2>2. ASSUME NEW s \in Schedulers, Enable(s) PROVE FlagInv'
    BY <2>2 DEF Enable, FlagInv, taskVars, Busy
  <2>3. ASSUME UNCHANGED <<schVars, taskVars, panicked>>, panicked => rc' = rc /\ stopped' PROVE FlagInv'
    BY <2>3 DEF schVars, taskVars, FlagInv, Busy
  <2>4. CASE Disable \/ Cancel \/ Assign \/ Stop \/ UNCHANGED vars
    BY <2>3, <2>4 DEF Disable, Cancel, Assign, Stop, vars, cfgVars, rcVars, FlagInv
  <2>5. ASSUME NEW e \in BOOLEAN, NEW i \in Intervals, Reconfigure(e, i) PROVE FlagInv'
    BY <2>3, <2>5 DEF Reconfigure, cfgVars, FlagInv
  <2>6. ASSUME NEW c \in Callers, NEW m \in CallerModes, Call(c, m) PROVE FlagInv'
    BY <2>6 DEF Call, cfgVars, rcVars, taskVars, FlagInv, Busy
  <2> QED BY <2>1, <2>2, <2>4, <2>5, <2>6, LoopFlag, WorkFlag DEF Next, ReconfigureStep
<1>3. FlagInv => FlagNotStuck
  BY DEF FlagInv, FlagNotStuck, Alive
<1> QED BY <1>1, <1>2, <1>3, TypeCorrect, PTL DEF Spec

\* What DiffDue needs, until somebody calls SyncNow: between two runs the counter
\* cycle is ahead of the runs since the last Diff, and a run that is about to be
\* dispatched is that Diff or keeps it so.
DiffInv ==
  \A s \in Schedulers :
    /\ sinceDiff[s] < 4
    /\ pc[s] \in {"none", "top", "select"} => sinceDiff[s] < cycle[s]
    /\ pc[s] = "dispatch" => \/ intervalMode[s] = {"Diff"} /\ cycle[s] = 1
                             \/ intervalMode[s] = {"Watermark"} /\ sinceDiff[s] + 1 < cycle[s]

\* Steps of the scheduler goroutines preserve it.  The flag running is not set
\* when a run is to be dispatched, so no Diff is skipped.
LEMMA LoopDiff ==
  ASSUME TypeOK, ActivityInv, ~called, DiffInv, NEW s \in Schedulers, Loop(s) PROVE DiffInv'
<1>0. /\ cycle \in [Schedulers -> 1..4] /\ sinceDiff \in [Schedulers -> Nat]
      /\ pc \in [Schedulers -> {"none", "top", "select", "dispatch", "done"}]
      /\ intervalMode \in [Schedulers -> SUBSET Modes]
  BY DEF TypeOK, cycles
<1>1. CASE Select(s) \/ Done(s)
  BY <1>0, <1>1 DEF Select, Done, DiffInv
<1>2. CASE Tick(s)
  <2>1. pc[s] = "select" /\ pc' = [pc EXCEPT ![s] = "dispatch"] /\ UNCHANGED sinceDiff
    BY <1>2 DEF Tick
  <2>2. sinceDiff[s] < cycle[s]
    BY <2>1 DEF DiffInv
  <2>3. CASE IsDiffTurn(cycle[s])
    <3>1. cycle' = [cycle EXCEPT ![s] = 1] /\ intervalMode' = [intervalMode EXCEPT ![s] = {"Diff"}]
      BY <1>2, <2>3, Zenon DEF Tick
    <3> QED BY <1>0, <2>1, <3>1 DEF DiffInv
  <2>4. CASE ~IsDiffTurn(cycle[s])
    <3>1. /\ cycle' = [cycle EXCEPT ![s] = cycle[s] + 1]
          /\ intervalMode' = [intervalMode EXCEPT ![s] = {"Watermark"}]
      BY <1>2, <2>4, Zenon DEF Tick
    <3> QED BY <1>0, <2>1, <2>2, <3>1 DEF DiffInv
  <2> QED BY <2>3, <2>4
<1>3. ASSUME NEW t \in Tasks, Dispatch(s, t) PROVE DiffInv'
  <2>1. /\ pc[s] = "dispatch" /\ pc' = [pc EXCEPT ![s] = "top"] /\ UNCHANGED <<cycle, intervalMode>>
        /\ sinceDiff' = [sinceDiff EXCEPT ![s] = SinceDiff(s)]
    BY <1>3 DEF Dispatch
  <2>2. RunMode(s) = intervalMode[s]
    BY DEF RunMode, ActivityInv
  <2>3. SinceDiff(s) \in Nat /\ SinceDiff(s) < cycle[s]
    BY <1>0, <2>1, <2>2 DEF SinceDiff, DiffInv
  <2> QED BY <1>0, <2>1, <2>3 DEF DiffInv
<1>4. ~Skip(s)
  <2> SUFFICES ASSUME pc[s] = "dispatch", running[s] PROVE FALSE
    BY DEF Skip
  <2>1. PICK t \in Tasks : Busy(t, s)
    BY DEF ActivityInv, FlagNotStuck, Alive
  <2>2. ~Working(t, s)
    BY DEF ActivityInv, OneThingGoing, Alive
  <2> QED BY <2>1, <2>2 DEF ActivityInv, Busy, Working
<1> QED BY <1>1, <1>2, <1>3, <1>4 DEF Loop

\* Until somebody calls SyncNow, of any four consecutive runs that a scheduler
\* dispatches one is a Diff run: no turn of a Diff is lost to a skipped tick.
THEOREM DiffInFour == Spec => []DiffDue
<1> DEFINE Inv == ~called => DiffInv
<1>1. Init => Inv
  BY DEF Init, DiffInv, cycles
<1>2. TypeOK /\ QuietInv /\ Inv /\ [Next]_vars => Inv'
  <2> SUFFICES ASSUME TypeOK, QuietInv, Inv, [Next]_vars, ~called' PROVE DiffInv'
    OBVIOUS
  <2>1. ~called
    BY DEF Next, Loop, Select, Done, Tick, Dispatch, Skip, Work, TaskStart, Sync, SyncFails, Serving,
           TaskIdles, TaskRearms, TaskResends, TaskExit, TaskPanics, Handover, SyncNow, Resend,
           Reconfigure, ReconfigureStep, Enable, Disable, Cancel, Assign, Stop, Call, callVars, vars
  <2>2. ActivityInv /\ NobodyWaits /\ DiffInv
    BY <2>1 DEF QuietInv
  <2> HIDE DEF Inv
  <2>3. ASSUME UNCHANGED <<pc, cycle, intervalMode, sinceDiff>> PROVE DiffInv'
    BY <2>2, <2>3 DEF DiffInv
  <2>4. ASSUME NEW s \in Schedulers, Loop(s) PROVE DiffInv'
    BY <2>1, <2>2, <2>4, LoopDiff
  <2>5. ASSUME NEW t \in Tasks, Work(t) \/ SyncFails(t) PROVE DiffInv'
    <3>1. CASE TaskPanics(t)
      BY <2>2, <3>1 DEF TaskPanics, DiffInv
    <3>2. CASE ~TaskPanics(t)
      BY <2>3, <2>5, <3>2 DEF Work, TaskStart, Sync, SyncFails, Serving, TaskIdles, TaskRearms,
                              TaskResends, TaskExit, schVars
    <3> QED BY <3>1, <3>2
  <2>6. ~Handover
    BY <2>2 DEF Handover, Resend, SyncNow, ActivityInv, NobodyWaits
  <2>7. ASSUME NEW s \in Schedulers, Enable(s) PROVE DiffInv'
    <3>1. pc[s] = "none" /\ pc' = [pc EXCEPT ![s] = "top"] /\ UNCHANGED <<cycle, intervalMode, sinceDiff>>
      BY <2>7 DEF Enable
    <3>2. pc \in [Schedulers -> {"none", "top", "select", "dispatch", "done"}]
      BY DEF TypeOK
    <3> QED BY <2>2, <3>1, <3>2 DEF DiffInv
  <2>8. Disable \/ Cancel \/ Assign \/ Stop \/ UNCHANGED vars => UNCHANGED <<pc, cycle, intervalMode, sinceDiff>>
    BY DEF Disable, Cancel, Assign, Stop, schVars, vars
  <2>9. ASSUME NEW e \in BOOLEAN, NEW i \in Intervals, Reconfigure(e, i)
        PROVE  UNCHANGED <<pc, cycle, intervalMode, sinceDiff>>
    BY <2>9 DEF Reconfigure, schVars
  <2>10. \A c \in Callers, m \in CallerModes : ~Call(c, m)
    BY DEF Call
  <2> QED BY <2>3, <2>4, <2>5, <2>6, <2>7, <2>8, <2>9, <2>10 DEF Next, ReconfigureStep
<1>3. Inv => DiffDue
  BY DEF DiffInv, DiffDue, cycles
<1> QED BY <1>1, <1>2, <1>3, TypeCorrect, Quiet, PTL DEF Spec
=============================================================================
