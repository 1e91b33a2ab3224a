------------------------------- MODULE MCMrld -------------------------------
(***************************************************************************)
(* Instances of Mrld.  "eamerald" is part of every container name but      *)
(* "mine", which only the command line gives, "eamerald-" of that of       *)
(* another program, and "eamerald-a" of "eamerald-ab"; the database of a   *)
(* configuration may hold the item of another template.                    *)
(***************************************************************************)
EXTENDS Mrld

MCMatches == [config |-> {"config", "a", "ab", "other"}, a |-> {"a", "ab"}, ab |-> {"ab"},
              mine |-> {"mine"}, other |-> {"other"}]
               @@ ("" :> {"a", "ab", "other"}) @@ ("*" :> {"config", "a", "ab", "other"})

Says(key, field, expected, of, want) ==
  [key |-> key, fields |-> {field}, fate |-> "fine", expected |-> expected, of |-> of, want |-> want]

MCTemplates ==
  [a |-> [manifest |-> "ma", data |-> <<"fx", "fy">>,
          tests |-> <<<<Says("check", "object_type", "true", <<"x">>, <<>>),
                        Says("authorizer_evaluation", "action", "true", <<"y">>, <<>>),
                        Says("evaluation", "action", "false", <<"z">>, <<>>)>>,
                      <<Says("evaluations", "evaluations", "true", <<"z", "x">>, <<FALSE, TRUE>>),
                        Says("subject_search", "resource", "true", <<"z", "y", "x">>, <<"x", "y">>)>>>>],
   ab |-> [manifest |-> "mb", data |-> <<"fz">>,
           tests |-> <<<<Says("resource_search", "action", "true", <<"x", "z">>, <<"z">>),
                         Says("action_search", "resource", "false", <<"z">>, <<>>),
                         Says("authorizer_evaluation", "action", "false", <<"y">>, <<>>)>>>>],
   skips |-> [manifest |-> None, data |-> <<>>,
              tests |-> <<<<Says("authorizer_evaluation", "action", "false", <<"y">>, <<>>),
                            Says("evaluation", "resource", "true", <<"x">>, <<>>)>>>>],
   empty |-> [manifest |-> None, data |-> <<>>,
              tests |-> <<<<Says("evaluations", "evaluations", "true", <<>>, <<>>)>>>>],
   blank |-> [manifest |-> None, data |-> <<>>,
              tests |-> <<<<Says("evaluations", "evaluations", "true", <<>>, <<>>)>>,
                          <<Says("check", "object_type", "absent", <<"x">>, <<>>)>>>>],
   text |-> [manifest |-> None, data |-> <<>>,
             tests |-> <<<<Says("evaluation", "action", "text", <<"z">>, <<>>)>>>>],
   refused |-> [manifest |-> None, data |-> <<>>,
                tests |-> <<<<[Says("resource_search", "action", "true", <<"x">>, <<>>) EXCEPT !.fate = "refused"]>>>>],
   unreadable |-> [manifest |-> None, data |-> <<>>,
                   tests |-> <<<<[Says("check", "object_type", "false", <<"z">>, <<>>) EXCEPT !.fate = "unreadable"]>>>>],
   old |-> [manifest |-> None, data |-> <<>>,
            tests |-> <<<<Says("evaluations", "evaluations", "true", <<>>, <<>>), Says("check", "object", "true", <<"x">>, <<>>)>>>>]]

MCAdmits == [ma |-> {"x", "y", "z"}, mb |-> {"x", "z"}, none |-> {}]
MCRows == [fx |-> {"x"}, fy |-> {"y"}, fz |-> {"y", "z"}]
MCAllows == [a |-> {"y"}, ab |-> {"x"}, none |-> {}]
MCStale == {[manifest |-> "mb", items |-> {"x", "z"}]}

Cmd(op, name, flag) == [op |-> op, name |-> name, to |-> "", tmpl |-> "a", flag |-> flag, local |-> FALSE, cname |-> ""]

Instance == {Cmd("start", "", TRUE), [Cmd("start", "", FALSE) EXCEPT !.cname = "mine"], Cmd("run", "", FALSE), Cmd("stop", "", FALSE), Cmd("restart", "", FALSE),
             Cmd("install", "", FALSE), Cmd("update", "", FALSE), Cmd("uninstall", "", FALSE)}
Configs == {Cmd("new", "ab", FALSE), [Cmd("new", "config", TRUE) EXCEPT !.local = TRUE],
            Cmd("use", "a", FALSE), Cmd("delete", "a", FALSE), Cmd("delete", "ab", FALSE),
            [Cmd("rename", "a", FALSE) EXCEPT !.to = "ab"], [Cmd("rename", "ab", FALSE) EXCEPT !.to = "config"]}
Certs == {Cmd("certs generate", "", FALSE), Cmd("certs generate", "", TRUE), Cmd("certs remove", "", FALSE)}
Installs == {Cmd("templates install", "a", TRUE), [Cmd("templates install", "ab", FALSE) EXCEPT !.tmpl = "ab"],
             Cmd("templates download", "ab", FALSE), Cmd("templates apply", "a", FALSE),
             Cmd("templates apply", "ab", FALSE),
             Cmd("authorizer test", "a", FALSE)}
Tests == {[Cmd("directory test", "a", FALSE) EXCEPT !.tmpl = t] : t \in {"skips", "empty", "blank", "old", "text", "refused", "unreadable"}}
MCCommands == Instance \cup Configs \cup Certs \cup Installs \cup Tests

=============================================================================
