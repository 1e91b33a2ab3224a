--------------------------- MODULE MCAccessCache ---------------------------
(* Two handlers, one default policy and one doelbinding, two activations.  *)
EXTENDS AccessCache

MCAuthz == <<<<"authz">>, "read">>
MCPurpose == <<<<"doelbinding", "a">>, "read">>

MCBundles == {{MCAuthz, MCPurpose}, {MCPurpose}, {MCAuthz, <<<<"other", "lib">>, "read">>}}

MCSub(s) == [context |-> s, action |-> "read"]

MCRequests == {[context |-> None, single |-> TRUE, subs |-> <<MCSub(None)>>],
               [context |-> None, single |-> FALSE, subs |-> <<MCSub(None), MCSub("a")>>]}

MCSelections == {"a"}
MCActions == {"read"}
=============================================================================
