---------------------------- MODULE MCGitPlugin -----------------------------
(* Two repositories, each with a cache directory; the third configuration  *)
(* gives the first one's directory to the second repository.               *)
EXTENDS GitPlugin, TLC

CONSTANTS r1, r2, d1, d2, g1, g2, g3

MCRepoOf == g1 :> r1 @@ g2 :> r2 @@ g3 :> r2
MCDirOf == g1 :> d1 @@ g2 :> d2 @@ g3 :> d1
MCPathOf == g1 :> "" @@ g2 :> "" @@ g3 :> "policies"
MCPaths == {"", "policies"}
=============================================================================
