------------------------------ MODULE MCDaemon ------------------------------
(* Instances of Daemon for TLC.                                            *)
EXTENDS Daemon, TLC

CallSymmetry == Permutations(Calls)

\* The ports of the generated configuration: the directory on one address, the
\* authorizer and the console on others; the authorizer needs the reader.
Needs(s) == IF s = "reader" THEN {"model"} ELSE IF s = "authorizer" THEN {"reader"} ELSE {}
Config(where, directory, some) ==
  [at |-> where, plugins |-> some, needs |-> [s \in DOMAIN where |-> Needs(s)], resolver |-> directory]
Four == {"model", "reader", "authorizer", "console"}
Generated == Config([s \in Four |-> IF s \in EdgeServices THEN "ds" ELSE s], "ds", {"git", "entra"})
\* All services on one address.
Single == Config([s \in Four |-> "ds"], "ds", {"edge", "git", "bundle"})
\* A directory elsewhere: the local one is disabled.
Remote == Config([s \in Four |-> IF s \in EdgeServices THEN "ds" ELSE s], "remote", {})

\* The directory at two addresses.
Split == Config([s \in {"model", "reader"} |-> s], "reader", {})
\* Two addresses wait for the one that sends Started once.
Waiting ==
  [Generated EXCEPT !.needs = [s \in Four |-> IF s = "console" THEN {"model"} ELSE Needs(s)], !.plugins = {}]

AllConfigs == {Generated, Single, Remote, Split, Waiting}
OneConfig == {Generated}
=============================================================================
