------------------------------ MODULE Replica -------------------------------
(***************************************************************************)
(* What replication promises of an edge directory, without any mechanism:  *)
(* a replicating process copies the hub as it is at one instant, and from  *)
(* then on only moves edge items towards that copy.  It may stop halfway,  *)
(* at any time, and it never removes an item its copy contains.            *)
(***************************************************************************)
EXTENDS Naturals

CONSTANTS Items,   \* keys of objects and relations
          Copiers  \* replicating processes

VARIABLES hub,     \* [Items -> Nat], 0 is absent
          edge,    \* [Items -> Nat]
          copy     \* [Copiers -> [Items -> Nat]]

vars == <<hub, edge, copy>>
Nothing == [k \in Items |-> 0]

Init ==
  /\ hub \in [Items -> Nat]
  /\ edge = Nothing
  /\ copy = [c \in Copiers |-> Nothing]

HubChange == hub' \in [Items -> Nat] /\ UNCHANGED <<edge, copy>>

Take(c) ==
  /\ copy' = [copy EXCEPT ![c] = hub]
  /\ UNCHANGED <<hub, edge>>

\* A new attempt starts without a copy.
Forget(c) ==
  /\ copy' = [copy EXCEPT ![c] = Nothing]
  /\ UNCHANGED <<hub, edge>>

\* Some items of the copy are written to the edge, in one step.
Upsert(c) ==
  /\ \E K \in SUBSET {k \in Items : copy[c][k] # 0} :
       edge' = [k \in Items |-> IF k \in K THEN copy[c][k] ELSE edge[k]]
  /\ UNCHANGED <<hub, copy>>

\* Some items the copy does not have are removed from the edge, in one step.
Remove(c) ==
  /\ \E K \in SUBSET {k \in Items : copy[c][k] = 0} :
       edge' = [k \in Items |-> IF k \in K THEN 0 ELSE edge[k]]
  /\ UNCHANGED <<hub, copy>>

Next == HubChange \/ \E c \in Copiers : Take(c) \/ Forget(c) \/ Upsert(c) \/ Remove(c)

Spec == Init /\ [][Next]_vars
=============================================================================
