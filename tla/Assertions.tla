----------------------------- MODULE Assertions -----------------------------
(***************************************************************************)
(* The assertion runner of mrld (mrld/cmd/common): it reads files of       *)
(* assertions, puts each one to the directory or the authorizer, and says  *)
(* whether all came out as expected.                                       *)
(*                                                                         *)
(* Data abstraction: what the directory grants is a set D of items, what   *)
(* the authorizer's policy allows a set P.  An assertion is                *)
(*   [key      |-> the one check it names (or "other"),                    *)
(*    fields   |-> the field names of its request,                         *)
(*    fate     |-> "fine", "unreadable" when the request does not fit its  *)
(*                 message, or "refused" when the service answers an error,*)
(*    expected |-> "true", "false", "text" (no Boolean) or "absent",       *)
(*    of       |-> the items it asks for, in their order,                  *)
(*    want     |-> the decisions or results it wants, for the list checks] *)
(***************************************************************************)
EXTENDS Naturals, Sequences, SequencesExt

CheckTypes == {"check", "evaluation", "authorizer_evaluation", "evaluations",
               "subject_search", "resource_search", "action_search"}

GetCheckType(a) == IF a.key \in CheckTypes THEN a.key ELSE "unknown"

reqVersionFields ==
  <<<<"object_type", 3>>, <<"object", 2>>, <<"identity_context", 2>>,
    <<"action", 1>>, <<"resource", 1>>, <<"evaluations", 1>>>>

\* The version of the first of these fields that the request has, else 0.
getReqVersion(fields) ==
  LET have == SelectSeq(reqVersionFields, LAMBDA f : f[1] \in fields)
  IN  IF have = <<>> THEN 0 ELSE have[1][2]

\* One question to one client, which is "nil", "down" or "up".  An answer that
\* never came, or is an error, is compared like an empty one.
Ask(client, a, answered, unanswered) ==
  CASE client = "nil" -> [outcome |-> FALSE, err |-> "skipped"]
    [] client # "nil" /\ a.fate = "unreadable" -> [outcome |-> FALSE, err |-> "error"]
    [] client # "nil" /\ a.fate # "unreadable" /\ (client = "down" \/ a.fate = "refused") ->
         [outcome |-> unanswered, err |-> "error"]
    [] OTHER -> [outcome |-> answered, err |-> "none"]

checkV3(ds, D, a) == Ask(ds, a, a.of[1] \in D, FALSE)
evaluationV1(ds, D, a) == Ask(ds, a, a.of[1] \in D, FALSE)
authorizerEvaluationV1(az, P, a) == Ask(az, a, a.of[1] \in P, FALSE)

\* Lists: decisions are compared position by position, results as bags.
decisionsOf(D, of) == [j \in DOMAIN of |-> of[j] \in D]
boolSliceEqual(a, b) == a = b
stringSetEqual(a, b) ==
  /\ Len(a) = Len(b)
  /\ \A v \in ToSet(a) \cup ToSet(b) :
       Len(SelectSeq(a, LAMBDA x : x = v)) = Len(SelectSeq(b, LAMBDA x : x = v))

evaluationsV1(ds, D, a) == Ask(ds, a, boolSliceEqual(decisionsOf(D, a.of), a.want), a.want = <<>>)
search(ds, D, a) == Ask(ds, a, stringSetEqual(SelectSeq(a.of, LAMBDA i : i \in D), a.want), a.want = <<>>)
subjectSearchV1(ds, D, a) == search(ds, D, a)
resourceSearchV1(ds, D, a) == search(ds, D, a)
actionSearchV1(ds, D, a) == search(ds, D, a)

\* A check of another version than 3 has no result: exec dereferences nil.
setCheckType(ds, az, D, P, a) ==
  CASE a.key = "check" /\ getReqVersion(a.fields) = 3 -> checkV3(ds, D, a)
    [] a.key = "evaluation"            -> evaluationV1(ds, D, a)
    [] a.key = "authorizer_evaluation" -> authorizerEvaluationV1(az, P, a)
    [] a.key = "evaluations"           -> evaluationsV1(ds, D, a)
    [] a.key = "subject_search"        -> subjectSearchV1(ds, D, a)
    [] a.key = "resource_search"       -> resourceSearchV1(ds, D, a)
    [] a.key = "action_search"         -> actionSearchV1(ds, D, a)
    [] OTHER                           -> [outcome |-> FALSE, err |-> "panic"]

\* A field that is no Boolean reads as false.
GetBool(a) == a.expected = "true"

NewTestResults == [passed |-> 0, failed |-> 0, skipped |-> 0, errored |-> 0, ret |-> "run"]

\* Passed counts a skipped or an errored assertion too, by its outcome.
Passed(t, passed) == IF passed THEN [t EXCEPT !.passed = @ + 1] ELSE [t EXCEPT !.failed = @ + 1]

assertion(ds, az, D, P, t, a) ==
  IF t.ret # "run" THEN t
  ELSE IF a.expected = "absent" \/ GetCheckType(a) = "unknown" \/ getReqVersion(a.fields) = 0
  THEN [t EXCEPT !.ret = "error"]
  ELSE LET r == setCheckType(ds, az, D, P, a)
           u == Passed(t, r.outcome = GetBool(a))
       IN  CASE r.err = "panic"   -> [t EXCEPT !.ret = "panic"]
             [] r.err = "skipped" -> [u EXCEPT !.skipped = @ + 1]
             [] r.err = "error"   -> [u EXCEPT !.errored = @ + 1]
             [] OTHER             -> u

\* Mutant: the verdict leaves out the assertions that could not be asked.
execFailed(ds, az, D, P, asserts) ==
  LET Step(t, a) == assertion(ds, az, D, P, t, a)
      t == FoldLeft(Step, NewTestResults, asserts)
  IN  [t EXCEPT !.ret = IF @ # "run" THEN @ ELSE IF t.failed # 0 THEN "error" ELSE "ok"]
\* exec: the assertions of a file, then the verdict.
exec(ds, az, D, P, asserts) ==
  LET Step(t, a) == assertion(ds, az, D, P, t, a)
      t == FoldLeft(Step, NewTestResults, asserts)
  IN  [t EXCEPT !.ret = IF @ # "run" THEN @ ELSE IF t.failed # 0 \/ t.errored # 0 THEN "error" ELSE "ok"]

\* The runner goes through its files until one fails.
TestRunnerRun(ds, az, D, P, files) ==
  LET verdict(ret, f) == IF ret = "ok" THEN exec(ds, az, D, P, f).ret ELSE ret
  IN  FoldLeft(verdict, "ok", files)

-----------------------------------------------------------------------------

\* The runners of the three commands: which clients they have.
NewDirectoryTestRunner(up) == [ds |-> up, az |-> "nil"]
NewAuthorizerTestRunner(up) == [ds |-> "nil", az |-> up]
NewTestRunner(up) == [ds |-> up, az |-> up]

\* What an assertion says, read off the two sets themselves: the decision, the
\* decisions one by one, or the set found.
Truth(D, P, a) ==
  CASE a.key \in {"check", "evaluation"} -> a.of[1] \in D
    [] a.key = "authorizer_evaluation"   -> a.of[1] \in P
    [] a.key = "evaluations"             -> \A j \in DOMAIN a.of : (a.of[j] \in D) = a.want[j]
    [] OTHER                             -> ToSet(a.of) \cap D = ToSet(a.want)

=============================================================================
