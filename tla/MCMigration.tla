---------------------------- MODULE MCMigration -----------------------------
(* Instances of Migration for TLC.                                         *)
EXTENDS Migration, TLC

ProcessSymmetry == Permutations(Processes)

\* A file as version v wrote it, with everything in it, or with nothing.
At(v, full) ==
  [exists |-> TRUE, version |-> v,
   bucket |-> [b \in Buckets |->
     CASE b = "_system" -> "empty"
       [] b = "manifestV1" -> IF v >= 9 THEN "none" ELSE IF full THEN Encoding(v) ELSE "empty"
       [] b = "manifestV2" -> IF v >= 9 /\ full THEN "proto" ELSE "empty"
       [] OTHER -> IF full THEN Encoding(v) ELSE "empty"]]
OldFiles == {NoFile} \cup {At(v, full) : v \in 5 .. 10, full \in BOOLEAN}
=============================================================================
