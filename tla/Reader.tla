------------------------------- MODULE Reader -------------------------------
(***************************************************************************)
(* The directory's Reader service (internal/eds/pkg/directory/v3/reader.go *)
(* and access.go) over its two stores (bdb, pgdb), while others write.     *)
(*                                                                         *)
(* A listing takes one View per page and carries a token between pages.  A *)
(* check or a set of checks, and an object with its relations, take one    *)
(* View: in bolt that is one snapshot, in postgres every statement of it   *)
(* sees what was committed before the statement (read committed).  What    *)
(* names mean is not read in the View but in the model cache that all      *)
(* requests share, and that a SetManifest replaces at any time.  The       *)
(* authorizer resolves an identity to a user by two calls of the reader.   *)
(*                                                                         *)
(* Data abstraction: fields are strings, "" is an unset field; a key is    *)
(* the sequence of its fields, its place among the keys is given by        *)
(* KeyOrder, and that one id begins with another by IdPrefix.  A page      *)
(* token is the place of the key it names, 0 for none.  A model gives the  *)
(* relations and permissions of a type, <<type, name>>, the relations that *)
(* grant them: a relation itself, a permission any of a set (those with an *)
(* intersection or an exclusion are left out).  An etag is the item.       *)
(***************************************************************************)
EXTENDS Naturals, Sequences, FiniteSets, SequencesExt

CONSTANTS Backends,      \* stores to consider, of "bolt" and "postgres"
          Objects,       \* objects that may be stored: [type, id]
          Relations,     \* relations that may be stored: [ot, oid, rel, st, sid, sr]
          ObjectOrder,   \* Objects in the order of their keys
          KeyOrder,      \* per direction, Relations in the order of their keys
          IdPrefix,      \* pairs <<a, b>> of ids, b beginning with a
          Cases,         \* a request with what is stored at first: [req, objs, rels, mc]
          Written(_),    \* what others write during a request: [objs, rels, models]
          MaxWrites

Directions == {"object", "subject"}
Wildcard == "*"

ASSUME ReaderAssumption ==
  /\ Backends \subseteq {"bolt", "postgres"} /\ MaxWrites \in Nat
  /\ \A c \in Cases : c.objs \subseteq Objects /\ c.rels \subseteq Relations
  /\ ToSet(ObjectOrder) = Objects /\ IsInjective(ObjectOrder)
  /\ \A d \in Directions : ToSet(KeyOrder[d]) = Relations /\ IsInjective(KeyOrder[d])
  /\ \A r \in Relations : <<r.sid, r.sid>> \in IdPrefix /\ <<r.oid, r.oid>> \in IdPrefix

VARIABLES
  backend,       \* the store that is configured
  objs, rels,    \* what is stored
  mc,            \* the model in the cache
  req,           \* the request under way, or asked last
  pc,            \* "idle", "running", "done"
  view,          \* the store when the View began
  token, got,    \* of a listing: the next page's token, the items so far
  work,          \* of checks: each check's progress
  err,           \* the error the request ended with, "" for none
  during,        \* history: the stores there have been since the request began
  writes

vars == <<backend, objs, rels, mc, req, pc, view, token, got, work, err, during, writes>>

Store == [objs |-> objs, rels |-> rels, mc |-> mc]

-----------------------------------------------------------------------------
(* Keys and filters.                                                       *)

\* writeObjKey and writeSubKey.
Key(dir, r) ==
  IF dir = "object" THEN <<r.ot, r.oid, r.rel, r.st, r.sid, r.sr>>
  ELSE <<r.st, r.sid, r.rel, r.ot, r.oid, r.sr>>

Complete(type, id) == type # "" /\ id # ""

\* The index a scan is anchored on: the object's if it is complete, then the
\* subject's, and without either the object's with no filter.
Direction(f) ==
  IF Complete(f.ot, f.oid) \/ ~Complete(f.st, f.sid) THEN "object" ELSE "subject"

ObjectOnlyFilter(dir, type, id) ==
  [ot  |-> IF dir = "object" THEN type ELSE "", oid |-> IF dir = "object" THEN id ELSE "",
   rel |-> "", sr |-> "", hasSr |-> FALSE,
   st  |-> IF dir = "object" THEN "" ELSE type, sid |-> IF dir = "object" THEN "" ELSE id]

\* Mutant: the filter ends with the relation.
KeyFilterShort(dir, f) ==
  LET k == Key(dir, f) IN IF k[1] = "" \/ k[2] = "" THEN <<>> ELSE SubSeq(k, 1, IF k[3] = "" THEN 2 ELSE 3)

\* writeObjFilter and writeSubFilter: the leading fields that are set; none
\* when the type and the id that lead are not.
KeyFilter(dir, f) ==
  LET k == Key(dir, f)
  IN  IF k[1] = "" \/ k[2] = "" THEN <<>>
      ELSE IF k[3] = "" THEN SubSeq(k, 1, 2)
      ELSE IF k[4] = "" THEN SubSeq(k, 1, 3)
      ELSE IF k[5] = "" THEN SubSeq(k, 1, 4) ELSE SubSeq(k, 1, 5)

\* bytes.HasPrefix of a key and a filter.  Every field of a filter is closed
\* by a separator except the last id, which therefore also matches the ids
\* that begin with it, whatever follows.
HasPrefix(k, p) ==
  \A i \in 1..Len(p) : IF i = 5 THEN <<p[i], k[i]>> \in IdPrefix ELSE k[i] = p[i]

\* The WHERE clause of postgres: every field that is set.
Conditions(f, r) ==
  /\ f.ot # "" => r.ot = f.ot
  /\ f.oid # "" => r.oid = f.oid
  /\ f.rel # "" => r.rel = f.rel
  /\ f.st # "" => r.st = f.st
  /\ f.sid # "" => r.sid = f.sid
  /\ f.hasSr => r.sr = f.sr

\* The filter on what was decoded, the same for both stores.
ValueFilter(f, r) ==
  /\ f.ot \in {"", r.ot} /\ f.oid \in {"", r.oid} /\ f.rel \in {"", r.rel}
  /\ f.st \in {"", r.st} /\ f.sid \in {"", r.sid}
  /\ f.hasSr => f.sr = r.sr

Place(order, x) == CHOOSE i \in 1..Len(order) : order[i] = x

\* The rows of an index from the token's place on.
Rows(S, dir, tok) ==
  SelectSeq(KeyOrder[dir], LAMBDA r : r \in S.rels /\ Place(KeyOrder[dir], r) >= tok)

\* bolt's cursor starts at the token, or else at the filter, and ends at the
\* first key without the prefix: keys with a common prefix are neighbours.
ScanIterator(S, dir, f, tok) ==
  SelectSeq(Rows(S, dir, tok), LAMBDA r : HasPrefix(Key(dir, r), KeyFilter(dir, f)))

\* The rows postgres selects, in the order of the direction's index.
relationIterator(S, dir, f, tok) == SelectSeq(Rows(S, dir, tok), LAMBDA r : Conditions(f, r))

\* Mutant: the scan resumes behind the token.
ScanRelationsBehind(S, dir, f, tok) ==
  LET next == IF tok = 0 THEN 0 ELSE tok + 1
  IN  IF backend = "bolt" THEN ScanIterator(S, dir, f, next) ELSE relationIterator(S, dir, f, next)

ScanRelations(S, dir, f, tok) ==
  IF backend = "bolt" THEN ScanIterator(S, dir, f, tok) ELSE relationIterator(S, dir, f, tok)

\* ScanObjects of one type, or of all.
ScanObjects(S, type, tok) ==
  SelectSeq(ObjectOrder, LAMBDA o :
    o \in S.objs /\ Place(ObjectOrder, o) >= tok /\ type \in {"", o.type})

\* ScanRelationsFiltered, with which checks read relations.
ScanRelationsFiltered(S, f) ==
  {r \in ToSet(ScanRelations(S, Direction(f), f, 0)) : ValueFilter(f, r)}

RelationsExistForObject(S, dir, type, id) ==
  ScanRelations(S, dir, ObjectOnlyFilter(dir, type, id), 0) # <<>>

relationsByObject(S, dir, type, id) == ScanRelations(S, dir, ObjectOnlyFilter(dir, type, id), 0)

-----------------------------------------------------------------------------
(* The model cache.                                                        *)

Declares(m, type, name) == <<type, name>> \in DOMAIN m

\* Validate of a request with a relation filter: the relation it names is
\* one of the object type it names.
Valid(m, f) == f.ot # "" /\ f.rel # "" => Declares(m, f.ot, f.rel)

\* What a relation or a permission of an object comes down to.
Expand(m, type, id, name) ==
  IF Declares(m, type, name) THEN {<<type, id, x>> : x \in m[<<type, name>>]} ELSE {}

-----------------------------------------------------------------------------
(* Listings: one View per page.                                            *)

\* Page and the loop of GetRelations: the first `size' rows that are kept,
\* and the key of the row behind them if there is one.  Size 0 has no limit.
Page(rows, keep, size, order) ==
  LET good == SelectSeq([i \in 1..Len(rows) |-> i], LAMBDA i : keep[i])
      full == size > 0 /\ Len(good) >= size
      last == IF full THEN good[size] ELSE Len(rows)
  IN  [items |-> [j \in 1..(IF full THEN size ELSE Len(good)) |-> rows[good[j]]],
       token |-> IF full /\ last < Len(rows) THEN Place(order, rows[last + 1]) ELSE 0]

RelationsPage(S, f, tok, size) ==
  LET rows == ScanRelations(S, Direction(f), f, tok)
  IN  Page(rows, [i \in 1..Len(rows) |-> ValueFilter(f, rows[i])], size, KeyOrder[Direction(f)])

ObjectsPage(S, type, tok, size) ==
  LET rows == ScanObjects(S, type, tok)
  IN  Page(rows, [i \in 1..Len(rows) |-> TRUE], size, ObjectOrder)

\* The client appends the page and asks for the next one while there is a token.
TakePage(page) ==
  /\ got' = got \o page.items /\ token' = page.token
  /\ pc' = IF page.token = 0 THEN "done" ELSE "running"
  /\ UNCHANGED <<backend, objs, rels, mc, req, view, work, err, during, writes>>

\* A request the model does not allow ends before its View.
Refused ==
  /\ err' = "refused" /\ pc' = "done"
  /\ UNCHANGED <<backend, objs, rels, mc, req, view, token, got, work, during, writes>>

GetRelations ==
  /\ pc = "running" /\ req.op = "relations"
  /\ IF Valid(mc, req.f) THEN TakePage(RelationsPage(Store, req.f, token, req.size)) ELSE Refused

GetObjects ==
  /\ pc = "running" /\ req.op = "objects"
  /\ TakePage(ObjectsPage(Store, req.type, token, req.size))

-----------------------------------------------------------------------------
(* Requests that take one View.                                            *)

\* Mutant: bolt reads what is stored now.
SeenNow == Store

\* What a statement of the View sees.
Seen == IF backend = "bolt" THEN view ELSE Store

\* GetRelation decides by the number of rows.  (An If-None-Match that names
\* the relation's etag leaves out no more than its objects.)
GetRelation ==
  /\ pc = "running" /\ req.op = "relation"
  /\ LET f == req.f
         rows == ScanRelations(Store, Direction(f), f, 0)
     IN  /\ err' = IF ~Valid(mc, f) THEN "refused"
                   ELSE IF ~Complete(f.ot, f.oid) /\ ~Complete(f.st, f.sid) THEN "incomplete"
                   ELSE IF Len(rows) = 0 THEN "not found"
                   ELSE IF Len(rows) # 1 THEN "multiple" ELSE ""
         /\ got' = IF err' = "" THEN rows ELSE <<>>
  /\ pc' = "done"
  /\ UNCHANGED <<backend, objs, rels, mc, req, view, token, work, during, writes>>

\* GetObject with its relations: the object, unless the client has it, then
\* the relations to it, then those from it.
GetObject ==
  /\ pc = "running" /\ req.op = "object"
  /\ \/ /\ work[1].phase = "new" /\ [type |-> req.type, id |-> req.id] \notin Seen.objs
        /\ err' = "not found" /\ pc' = "done"
        /\ UNCHANGED <<work, got>>
     \/ /\ work[1].phase = "new" /\ [type |-> req.type, id |-> req.id] \in Seen.objs \cap req.ifNoneMatch
        /\ err' = "not modified" /\ pc' = "done"
        /\ UNCHANGED <<work, got>>
     \/ /\ work[1].phase = "new" /\ [type |-> req.type, id |-> req.id] \in Seen.objs \ req.ifNoneMatch
        /\ work' = [work EXCEPT ![1].phase = "incoming"]
        /\ UNCHANGED <<pc, got, err>>
     \/ /\ work[1].phase = "incoming"
        /\ work' = [work EXCEPT ![1].phase = "outgoing"]
        /\ got' = relationsByObject(Seen, "subject", req.type, req.id)
        /\ UNCHANGED <<pc, err>>
     \/ /\ work[1].phase = "outgoing"
        /\ got' = got \o relationsByObject(Seen, "object", req.type, req.id)
        /\ pc' = "done"
        /\ UNCHANGED <<work, err>>
  /\ UNCHANGED <<backend, objs, rels, mc, req, view, token, during, writes>>

\* GetObjectMany: object by object, and the first that is missing fails it.
GetObjectMany ==
  /\ pc = "running" /\ req.op = "many"
  /\ LET o == req.param[Len(got) + 1]
     IN  IF Len(got) = Len(req.param) THEN pc' = "done" /\ UNCHANGED <<got, err>>
         ELSE IF o \in Seen.objs THEN got' = Append(got, o) /\ UNCHANGED <<pc, err>>
         ELSE err' = "not found" /\ pc' = "done" /\ got' = got
  /\ UNCHANGED <<backend, objs, rels, mc, req, view, token, work, during, writes>>

\* CountObjects, then CountRelations: the rows that were counted.
CalculateStats ==
  /\ pc = "running" /\ req.op = "stats"
  /\ \/ /\ work[1].phase = "new" /\ work' = [work EXCEPT ![1].phase = "counted"]
        /\ got' = ScanObjects(Seen, "", 0) /\ pc' = pc
     \/ /\ work[1].phase = "counted" /\ UNCHANGED work
        /\ got' = got \o ScanRelations(Seen, "object", ObjectOnlyFilter("object", "", ""), 0)
        /\ pc' = "done"
  /\ UNCHANGED <<backend, objs, rels, mc, req, view, token, err, during, writes>>

\* The counters a row adds one to: of its object type, and within that of its
\* relation, of the subject's type (a wildcard has its own) and relation.
incObject(o) == {<<"objects", o.type>>}
incRelation(r) ==
  LET st == IF r.sid = Wildcard THEN <<r.st, Wildcard>> ELSE <<r.st>>
  IN  {<<"relations", r.ot>>, <<"relations", r.ot, r.rel>>, <<"relations", r.ot, r.rel, st>>}
      \cup IF r.sr = "" THEN {} ELSE {<<"relations", r.ot, r.rel, st, r.sr>>}
Counters(x) == IF "type" \in DOMAIN x THEN incObject(x) ELSE incRelation(x)

\* Mutant: the subject is looked for among the objects.
ExistsAsObject(S, q, phase) ==
  IF phase = "subject" THEN RelationsExistForObject(S, "object", q.st, q.sid)
  ELSE RelationsExistForObject(S, "object", q.ot, q.oid)

\* RelationIdentifiersExist: a check is refused unless some relation has its
\* subject for a subject and some relation its object for an object.
Exists(S, q, phase) ==
  IF phase = "subject" THEN RelationsExistForObject(S, "subject", q.st, q.sid)
  ELSE RelationsExistForObject(S, "object", q.ot, q.oid)

\* The graph search of the model (external): it reads the relations of one
\* object at a time; a subject with a relation of its own leads further.
Grants(rs, q) == \E r \in rs : r.sr = "" /\ r.st = q.st /\ r.sid \in {q.sid, Wildcard}
Leads(m, rs) == UNION {Expand(m, r.st, r.sid, r.sr) : r \in {r \in rs : r.sr # ""}}
SubjectsOf(rs, type) == {r.sid : r \in {r \in rs : r.sr = "" /\ r.st = type}}
RelationsOf(S, node) ==
  ScanRelationsFiltered(S, [ot |-> node[1], oid |-> node[2], rel |-> node[3],
                            st |-> "", sid |-> "", sr |-> "", hasSr |-> FALSE])

Answered(w, a) == [w EXCEPT !.phase = "answered", !.answer = a]

\* Validate asks the model cache whether the object's type has the relation.
CheckValidate(i) ==
  LET w == work[i]  q == req.checks[i]
  IN  /\ w.phase = "new"
      /\ work' = [work EXCEPT ![i] =
           IF Declares(mc, q.ot, q.rel) THEN [w EXCEPT !.phase = "subject"] ELSE Answered(w, FALSE)]
      /\ view' = view

\* The two statements of RelationIdentifiersExist, one at a time.  The View of
\* a Check begins here, that of Checks has begun when it was asked.
CheckExists(i) ==
  LET w == work[i]  q == req.checks[i]
      begins == req.op = "check" /\ w.phase = "subject"
  IN  /\ w.phase \in {"subject", "object"}
      /\ view' = IF begins THEN Store ELSE view
      /\ work' = [work EXCEPT ![i] =
           IF ~Exists(IF begins THEN Store ELSE Seen, q, w.phase) THEN Answered(w, FALSE)
           ELSE IF w.phase = "subject" THEN [w EXCEPT !.phase = "object"]
           ELSE [w EXCEPT !.phase = "load"]]

\* cache.Check takes the model that is in the cache, once.
CheckLoad(i) ==
  LET w == work[i]  q == req.checks[i]
  IN  /\ w.phase = "load" /\ view' = view
      /\ work' = [work EXCEPT ![i] = [w EXCEPT !.phase = "search", !.model = mc,
                                               !.todo = Expand(mc, q.ot, q.oid, q.rel)]]

\* One step of the search.
CheckSearch(i) ==
  LET w == work[i]  q == req.checks[i]
  IN  /\ w.phase = "search" /\ view' = view
      /\ IF w.todo = {} THEN work' = [work EXCEPT ![i] = Answered(w, FALSE)]
         ELSE \E node \in w.todo :
                LET rs == RelationsOf(Seen, node)
                    seen == w.seen \cup {node}
                IN  work' = [work EXCEPT ![i] =
                      IF Grants(rs, q) THEN Answered(w, TRUE)
                      ELSE [w EXCEPT !.seen = seen, !.todo = (w.todo \cup Leads(w.model, rs)) \ seen]]

\* Check, and Checks: the checks of a request are worked off in parallel in
\* one View, and the answers returned when all are there.
Checks ==
  /\ pc = "running" /\ req.op \in {"check", "checks"}
  /\ \E i \in DOMAIN work : CheckValidate(i) \/ CheckExists(i) \/ CheckLoad(i) \/ CheckSearch(i)
  /\ UNCHANGED <<backend, objs, rels, mc, req, pc, token, got, err, during, writes>>

Wait ==
  /\ pc = "running" /\ req.op \in {"check", "checks"}
  /\ \A i \in DOMAIN work : work[i].phase = "answered"
  /\ pc' = "done"
  /\ UNCHANGED <<backend, objs, rels, mc, req, view, token, got, work, err, during, writes>>

\* GetGraph for an object and a relation: the same search, to its end, with
\* every subject it meets for a result.
GetGraph ==
  LET w == work[1]
  IN  /\ pc = "running" /\ req.op = "graph"
      /\ \/ /\ w.phase = "new" /\ Declares(mc, req.ot, req.rel)
            /\ work' = [work EXCEPT ![1].phase = "view"]
            /\ UNCHANGED <<view, pc, err>>
         \/ /\ w.phase = "new" /\ ~Declares(mc, req.ot, req.rel)
            /\ err' = "refused" /\ pc' = "done"
            /\ UNCHANGED <<view, work>>
         \/ /\ w.phase = "view" /\ view' = Store
            /\ work' = [work EXCEPT ![1].phase = "load"]
            /\ UNCHANGED <<pc, err>>
         \/ /\ w.phase = "load"
            /\ work' = [work EXCEPT ![1] = [w EXCEPT !.phase = "search", !.model = mc,
                                                     !.todo = Expand(mc, req.ot, req.oid, req.rel)]]
            /\ UNCHANGED <<view, pc, err>>
         \/ \E node \in w.todo :
              LET rs == RelationsOf(Seen, node)
                  seen == w.seen \cup {node}
              IN  /\ work' = [work EXCEPT ![1] =
                       [w EXCEPT !.seen = seen, !.todo = (w.todo \cup Leads(w.model, rs)) \ seen,
                                 !.found = w.found \cup SubjectsOf(rs, req.st)]]
                  /\ UNCHANGED <<view, pc, err>>
         \/ /\ w.phase = "search" /\ w.todo = {} /\ pc' = "done"
            /\ UNCHANGED <<view, work, err>>
      /\ UNCHANGED <<backend, objs, rels, mc, req, token, got, during, writes>>

-----------------------------------------------------------------------------
(* A View that fails.                                                      *)

\* Whether a View is under way, and whether it has only begun.
InView ==
  CASE req.op \in {"check", "graph"} -> work[1].phase # "new"
    [] req.op = "identity" -> work[1].phase \in {"relation", "objects"}
    [] OTHER -> TRUE
ViewBegins ==
  CASE req.op \in {"relations", "objects", "relation"} -> TRUE
    [] req.op = "check" -> work[1].phase = "subject"
    [] req.op = "graph" -> work[1].phase = "view"
    [] req.op = "identity" -> work[1].phase = "relation"
    [] OTHER -> got = <<>> /\ \A i \in DOMAIN work : work[i].phase = "new"

\* A bolt that was closed begins no View.  A postgres transaction can fail at
\* its beginning, with any statement, and at its commit, and after a statement
\* that failed the commit fails.  So requests end with an error, those that
\* dropped the statement's error too (the iterators, getWithObjects, the
\* checks of a Checks).  Only Check returns no error but an answer with a
\* reason: FALSE, or what it had found before the commit.
ViewFails ==
  /\ pc = "running" /\ pc' = "done"
  /\ InView /\ (backend = "bolt" => ViewBegins)
  /\ IF req.op = "check" THEN work' = [work EXCEPT ![1].broken = TRUE] /\ err' = err
     ELSE err' = "failed" /\ work' = work
  /\ UNCHANGED <<backend, objs, rels, mc, req, view, token, got, during, writes>>

-----------------------------------------------------------------------------
(* The Access service (access.go) puts its requests to the reader.         *)

\* evaluations: every evaluation, completed from the request's default.
evaluations(default, evals) ==
  [op |-> "checks",
   checks |-> [i \in 1..Len(evals) |->
     [x \in {"ot", "oid", "rel", "st", "sid"} |-> IF evals[i][x] = "" THEN default[x] ELSE evals[i][x]]]]

evaluation(q) == [op |-> "check", checks |-> <<q>>]

\* actionSearch: one check per permission that the model in the cache has for
\* the object's type when the request arrives.
actionSearch(q, m) ==
  LET permissions == SetToSeq({x[2] : x \in {x \in DOMAIN m : x[1] = q.ot /\ m[x] # {x[2]}}})
  IN  evaluations(q, [i \in 1..Len(permissions) |->
        [ot |-> "", oid |-> "", rel |-> permissions[i], st |-> "", sid |-> ""]])

subjectSearch(q) == [op |-> "graph", ot |-> q.ot, oid |-> q.oid, rel |-> q.rel, st |-> q.st]

-----------------------------------------------------------------------------
(* The authorizer resolves the identity of a request to a user.            *)

\* The subject of a token, "" for none: without issuers in the configuration
\* only its times are validated, and else its signature too, with the keys of
\* its issuer, and its audience if one is expected.
ResolveSubject(t, issuers, expected) ==
  IF /\ t.issuer # "" /\ t.fresh
     /\ issuers # {} => t.issuer \in issuers /\ t.signed /\ expected \in {"", t.audience}
  THEN t.subject ELSE ""

\* An identity of type manual names no user, nor does none.
resolveSubjectFromIdentityContext(q) ==
  IF q.kind = "jwt" THEN ResolveSubject(q.token, q.issuers, q.audience) ELSE q.token.subject

\* user -> identity unless the manifest is known to have no such relation.
directionIn(m) == IF Declares(m, "user", "identifier") THEN "user" ELSE "identity"

IdentifierFilter(dir, id) ==
  [ot  |-> dir, oid |-> IF dir = "user" THEN "" ELSE id, rel |-> "identifier",
   st  |-> IF dir = "user" THEN "identity" ELSE "user", sid |-> IF dir = "user" THEN id ELSE "",
   sr |-> "", hasSr |-> FALSE]
UserOf(r) == [type |-> "user", id |-> IF r.ot = "user" THEN r.oid ELSE r.sid]

resolveIdentityContext ==
  /\ pc = "running" /\ req.op = "identity" /\ work[1].phase = "new"
  /\ LET id == resolveSubjectFromIdentityContext(req)
     IN  \/ /\ req.kind = "none" \/ (req.kind = "manual" /\ id # "")
            /\ pc' = "done" /\ UNCHANGED <<work, err>>
         \/ /\ req.kind # "none" /\ id = ""
            /\ err' = "no subject" /\ pc' = "done" /\ work' = work
         \/ /\ req.kind \in {"sub", "jwt"} /\ id # ""
            /\ work' = [work EXCEPT ![1].phase = "direction"] /\ UNCHANGED <<pc, err>>
  /\ UNCHANGED <<backend, objs, rels, mc, req, view, token, got, during, writes>>

\* A Check whose reason tells; that it failed is not looked at.
resolutionDirection ==
  /\ pc = "running" /\ req.op = "identity" /\ work[1].phase = "direction"
  /\ \E broken \in BOOLEAN :
       work' = [work EXCEPT ![1].phase = "relation", ![1].broken = broken,
                            ![1].todo = {IF broken THEN "user" ELSE directionIn(mc)}]
  /\ UNCHANGED <<backend, objs, rels, mc, req, pc, view, token, got, err, during, writes>>

\* GetRelation with objects, in a View of its own: the relation ...
resolveIdentity ==
  /\ pc = "running" /\ req.op = "identity" /\ work[1].phase = "relation"
  /\ LET dir == CHOOSE d \in work[1].todo : TRUE
         f == IdentifierFilter(dir, resolveSubjectFromIdentityContext(req))
         rows == ScanRelations(Store, Direction(f), f, 0)
     IN  /\ err' = IF ~Valid(mc, f) THEN "refused" ELSE IF Len(rows) = 0 THEN "not found"
                   ELSE IF Len(rows) # 1 THEN "multiple" ELSE ""
         /\ got' = IF err' = "" THEN rows ELSE <<>>
  /\ IF err' = "" THEN work' = [work EXCEPT ![1].phase = "objects"] /\ pc' = pc
     ELSE pc' = "done" /\ work' = work
  /\ view' = Store
  /\ UNCHANGED <<backend, objs, rels, mc, req, token, during, writes>>

\* ... and the objects at its ends; one that is not stored is made up.
getWithObjects ==
  /\ pc = "running" /\ req.op = "identity" /\ work[1].phase = "objects"
  /\ work' = [work EXCEPT ![1].found = {<<UserOf(got[1]), UserOf(got[1]) \in Seen.objs>>}]
  /\ pc' = "done"
  /\ UNCHANGED <<backend, objs, rels, mc, req, view, token, got, err, during, writes>>

-----------------------------------------------------------------------------

NewWork == [phase |-> "new", todo |-> {}, seen |-> {}, found |-> {}, model |-> <<>>,
            answer |-> FALSE, broken |-> FALSE]

\* A valid request arrives and its View begins.
Ask(r) ==
  /\ pc = "idle" /\ pc' = "running" /\ req' = r
  /\ view' = Store /\ during' = {Store}
  /\ work' = [i \in 1..(IF r.op \in {"check", "checks"} THEN Len(r.checks) ELSE 1) |-> NewWork]
  /\ UNCHANGED <<backend, objs, rels, mc, token, got, err, writes>>

\* Others write: each write is one transaction (Directory).
Write(os, rs, m) ==
  /\ pc = "running" /\ writes < MaxWrites /\ writes' = writes + 1
  /\ objs' = os /\ rels' = rs /\ mc' = m /\ Store' # Store
  /\ during' = during \cup {Store'}
  /\ UNCHANGED <<backend, req, pc, view, token, got, work, err>>

RelationsOfObject(o) ==
  {r \in rels : <<o.type, o.id>> \in {<<r.ot, r.oid>>, <<r.st, r.sid>>}}

\* A model in which the relations rs may be stored.
Admitted(rs, m) ==
  \A r \in rs : Declares(m, r.ot, r.rel) /\ (r.sr # "" => Declares(m, r.st, r.sr))

Init ==
  /\ backend \in Backends
  /\ \E c \in Cases : objs = c.objs /\ rels = c.rels /\ mc = c.mc /\ req = c.req
  /\ pc = "idle" /\ view = Store
  /\ token = 0 /\ got = <<>> /\ work = <<>> /\ err = "" /\ during = {} /\ writes = 0

Next ==
  \/ Ask(req)
  \/ GetRelations \/ GetObjects \/ GetRelation \/ GetObject \/ GetObjectMany
  \/ CalculateStats \/ GetGraph \/ Checks \/ Wait \/ ViewFails
  \/ resolveIdentityContext \/ resolutionDirection \/ resolveIdentity \/ getWithObjects
  \/ \E o \in Written(req).objs : \/ Write(objs \cup {o}, rels, mc)
                                  \/ Write(objs \ {o}, rels, mc)
                                  \/ Write(objs \ {o}, rels \ RelationsOfObject(o), mc)
  \/ \E r \in Written(req).rels : \/ Admitted({r}, mc) /\ Write(objs, rels \cup {r}, mc)
                                  \/ Write(objs, rels \ {r}, mc)
  \/ \E m \in Written(req).models : Admitted(rels, m) /\ Write(objs, rels, m)

Spec == Init /\ [][Next]_vars

-----------------------------------------------------------------------------
(* Properties.                                                             *)

\* What a filter means, whatever index it is looked up in.
Matches(f, r) ==
  /\ \A x \in {"ot", "oid", "rel", "st", "sid"} : f[x] # "" => r[x] = f[x]
  /\ f.hasSr => r.sr = f.sr

Increasing(order, s) == \A i, j \in 1..Len(s) : i < j => Place(order, s[i]) < Place(order, s[j])

\* A listing that was read to its end (GetObjects, GetRelations: pages with a
\* token in between, each one a View of its own) has every matching item that
\* was there all the time, nothing that was never there, nothing twice, and
\* is in the order of the keys, whatever was written between two pages.
PagesExact ==
  /\ pc = "done" /\ err = "" /\ req.op = "relations" =>
       /\ Increasing(KeyOrder[Direction(req.f)], got)
       /\ \A r \in ToSet(got) : Matches(req.f, r) /\ \E S \in during : r \in S.rels
       /\ \A r \in Relations :
            Matches(req.f, r) /\ (\A S \in during : r \in S.rels) => r \in ToSet(got)
  /\ pc = "done" /\ err = "" /\ req.op = "objects" =>
       /\ Increasing(ObjectOrder, got)
       /\ \A o \in ToSet(got) : req.type \in {"", o.type} /\ \E S \in during : o \in S.objs
       /\ \A o \in Objects :
            req.type \in {"", o.type} /\ (\A S \in during : o \in S.objs) => o \in ToSet(got)

\* The nodes a search from a check's object reaches among the relations rs.
Reached(rs, m, q) ==
  LET next(N) == N \cup Leads(m, {r \in rs : <<r.ot, r.oid, r.rel>> \in N})
      reach[n \in 0..Cardinality(rs)] == IF n = 0 THEN Expand(m, q.ot, q.oid, q.rel) ELSE next(reach[n - 1])
  IN  reach[Cardinality(rs)]

\* That the relations rs give the subject what the check asks, by the model.
Granted(rs, m, q) ==
  \E r \in rs : /\ <<r.ot, r.oid, r.rel>> \in Reached(rs, m, q)
                /\ r.sr = "" /\ r.st = q.st /\ r.sid \in {q.sid, Wildcard}

\* That both ends of the check occur in some relation.
Known(rs, q) ==
  /\ \E r \in rs : r.st = q.st /\ r.sid = q.sid
  /\ \E r \in rs : r.ot = q.ot /\ r.oid = q.oid

Answer(rs, m, q) == Known(rs, q) /\ Granted(rs, m, q)

\* The subjects of a type a search finds.
Subjects(rs, m, q) == {r.sid : r \in {r \in rs : /\ <<r.ot, r.oid, r.rel>> \in Reached(rs, m, q)
                                                /\ r.sr = "" /\ r.st = q.st}}

Models == {S.mc : S \in during}

\* All the answers of a Checks request, the subjects a GetGraph returns, an
\* object with its relations, many objects, and the statistics, are those of
\* the relations and objects of one state the directory was in while the
\* request was worked on.  The model is not read in the View: each check goes
\* by some model that was in the cache meanwhile, not all by the same.
OneInstant ==
  pc = "done" /\ err \notin {"failed", "refused"} =>
    /\ req.op = "checks" \/ (req.op = "check" /\ ~work[1].broken) =>
         \E S \in during : \A i \in DOMAIN work :
           \E m \in Models : work[i].answer = Answer(S.rels, m, req.checks[i])
    /\ req.op = "graph" =>
         \E S \in during : \E m \in Models : work[1].found = Subjects(S.rels, m, req)
    /\ req.op = "object" =>
         LET o == [type |-> req.type, id |-> req.id]
         IN  \E S \in during :
               CASE o \notin S.objs -> err = "not found"
                 [] o \in S.objs \cap req.ifNoneMatch -> err = "not modified"
                 [] OTHER -> err = "" /\ ToSet(got) =
                      {r \in S.rels : <<o.type, o.id>> \in {<<r.ot, r.oid>>, <<r.st, r.sid>>}}
    /\ req.op = "many" =>
         \E S \in during : IF ToSet(req.param) \subseteq S.objs THEN got = req.param ELSE err = "not found"
    /\ req.op = "stats" =>
         \E S \in during :
           \A c \in UNION {Counters(x) : x \in Objects \cup Relations} :
             Cardinality({i \in DOMAIN got : c \in Counters(got[i])})
               = Cardinality({x \in S.objs \cup S.rels : c \in Counters(x)})

\* With bolt, where a View is a snapshot, answers are of one instant, but for
\* the model of each check.
SnapshotAnswers == backend = "bolt" => OneInstant

\* The relations that resolve an identity, in the direction of the manifest.
Identified(S, id) == {r \in S.rels : Matches(IdentifierFilter(directionIn(S.mc), id), r)}

\* What every model of the request grants a name by, and what any one does.
ByAll == [x \in {x \in DOMAIN mc : \A m \in Models : x \in DOMAIN m} |->
           {y \in mc[x] : \A m \in Models : y \in m[x]}]
ByAny == [x \in UNION {DOMAIN m : m \in Models} |->
           UNION {m[x] : m \in {m \in Models : x \in DOMAIN m}}]

\* With either store a check is granted, a subject found, or an identity
\* resolved, if its grounds (relations and model) were there all the time, and
\* only if each of them was there at some time.  What failed says so: Checks,
\* GetGraph and the resolution by an error, a Check by its reason only, and
\* then it is not granted, or was before the View's commit failed.  For an
\* identity the direction must also be known.
AnswersBracketed ==
  pc = "done" =>
    LET always == {r \in Relations : \A S \in during : r \in S.rels}
        ever   == UNION {S.rels : S \in during}
    IN  /\ req.op \in {"check", "checks"} => \A i \in DOMAIN work :
             /\ err = "" /\ ~work[i].broken /\ Answer(always, ByAll, req.checks[i]) => work[i].answer
             /\ work[i].answer => Answer(ever, ByAny, req.checks[i])
        /\ req.op = "graph" =>
             /\ err = "" => Subjects(always, ByAll, req) \subseteq work[1].found
             /\ work[1].found \subseteq Subjects(ever, ByAny, req)
             /\ err = "refused" => \E m \in Models : ~Declares(m, req.ot, req.rel)
        /\ req.op = "identity" /\ req.kind \in {"sub", "jwt"} =>
             LET id == req.token.subject
                 sound == req.kind = "jwt" /\ req.issuers # {} =>
                            /\ req.token.signed /\ req.token.issuer \in req.issuers
                            /\ req.audience \in {"", req.token.audience}
             IN  /\ \A u \in work[1].found :
                      /\ sound
                      /\ \E S \in during : \E r \in ever :
                           UserOf(r) = u[1] /\ Matches(IdentifierFilter(directionIn(S.mc), id), r)
                      /\ \E S \in during : (u[1] \in S.objs) = u[2]
                 /\ \A r \in always :
                      /\ ~work[1].broken /\ err \notin {"no subject", "failed"}
                      /\ \A S \in during : Identified(S, id) = {r}
                      => \E u \in work[1].found : u[1] = UserOf(r)

\* GetRelation answers with the only relation that has every field it was
\* asked for, or reports that there is none or more than one.
GetRelationMatches ==
  pc = "done" /\ req.op = "relation" /\ err \notin {"incomplete", "refused", "failed"} =>
    LET rs == {r \in rels : Matches(req.f, r)}
    IN  /\ err = IF rs = {} THEN "not found" ELSE IF Cardinality(rs) > 1 THEN "multiple" ELSE ""
        /\ ToSet(got) = IF err = "" THEN rs ELSE {}

\* The filters whose fields lead in the key without a gap and end before the
\* second id: those bolt's key filter states in full.
Leading(f) ==
  LET k == Key(Direction(f), f)
  IN  ~f.hasSr /\ k[5] = "" /\ \A i \in 1..3 : k[i] = "" => k[i + 1] = ""

\* That holds with postgres, and with bolt for the filters its keys can state.
GetRelationExact ==
  req.op = "relation" /\ (backend = "postgres" \/ Leading(req.f)) => GetRelationMatches

=============================================================================
