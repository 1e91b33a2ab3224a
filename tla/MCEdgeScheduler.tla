-------------------------- MODULE MCEdgeScheduler ---------------------------
(* Instances of EdgeScheduler for TLC.                                     *)
EXTENDS EdgeScheduler, TLC

TaskSymmetry == Permutations(Tasks)

\* The bound on one run with both: reconfigurations and failing syncs, two of
\* them together, or calls of SyncNow and a configuration without interval.
CallsAlone == /\ called \/ 0 \in {interval, newInterval} => reconfigures = 0 /\ faults = 0
              /\ reconfigures + faults <= 2
=============================================================================
