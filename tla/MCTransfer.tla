----------------------------- MODULE MCTransfer -----------------------------
(* Two objects and a relation between them, and a manifest that does not    *)
(* admit the second object.                                                 *)
EXTENDS Transfer

MCObjectOrder == <<"a", "b">>
MCRelationOrder == <<"r">>
MCEndsOf == [r |-> {"a"}]
MCGroups == {"b"}
MCModels == {{"a", "b", "r"}, {"a", "r"}}
MCContents == {1, 2}
D(a, b, r) == [i \in {"a", "b", "r"} |-> CASE i = "a" -> a [] i = "b" -> b [] OTHER -> r]
MCSources == {D(1, 1, 1)}
MCTargets == {D(2, 1, 0), D(2, 0, 1)}
\* The source and the destination do not see each other's store.
MCStores == {<<"bolt", "postgres">>, <<"postgres", "bolt">>}
MCLoadFiles == <<[key |-> "objects", rows |-> <<<<"set", "a", 2>>, <<"unknown", "b", 2>>>>],
                 [key |-> "policies", rows |-> <<<<"set", "b", 2>>>>],
                 [key |-> "relations", rows |-> <<<<"set", "r", 2>>>>]>>
MCFeed == <<<<"set", "a", 2>>, <<"deleteWithRelations", "a", 0>>, <<"set", "b", 1>>, <<"set", "r", 1>>,
            <<"deleteWithRelations", "r", 0>>, <<"delete", "r", 0>>, <<"delete", "b", 0>>>>
=============================================================================
