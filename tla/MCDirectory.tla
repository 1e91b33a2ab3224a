---------------------------- MODULE MCDirectory -----------------------------
(* Instances of Directory for TLC.                                         *)
EXTENDS Directory, TLC

ClientSymmetry == Permutations(Clients)

\* r1 leads from a to b, r2 from a to a.
Ends1 == [r \in Relations |-> "a"]
Ends2 == [r \in Relations |-> IF r = "r1" THEN "b" ELSE "a"]

\* The narrow manifest knows neither the type of object a nor any relation.
NarrowOrWide == [m \in Manifests |-> IF m = "narrow" THEN Items \ ({"a"} \cup Relations) ELSE Items]

WriterOps == {"SetObject", "DeleteObject", "SetRelation", "DeleteRelation"}
AllOps == WriterOps \cup {"SetManifest", "DeleteManifest"}
WithoutDelete == WriterOps \cup {"SetManifest"}
=============================================================================
