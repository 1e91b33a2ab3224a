------------------------------ MODULE MCReader ------------------------------
(* Two users, one of whose ids begins with the other's, a group and two     *)
(* documents, one in the other's reach through the group, and an identity.   *)
EXTENDS Reader

Rel(ot, oid, rel, st, sid, sr) ==
  [ot |-> ot, oid |-> oid, rel |-> rel, st |-> st, sid |-> sid, sr |-> sr]
Obj(type, id) == [type |-> type, id |-> id]

MemberA  == Rel("group", "g", "member", "user", "a", "")
MemberAB == Rel("group", "g", "member", "user", "ab", "")
ViewA    == Rel("doc", "d", "viewer", "user", "a", "")
ViewAB   == Rel("doc", "d", "viewer", "user", "ab", "")
ViewG    == Rel("doc", "d", "viewer", "group", "g", "member")
ViewAll  == Rel("doc", "e", "viewer", "user", "*", "")

IdA      == Rel("user", "a", "identifier", "identity", "i", "")
IdAB     == Rel("user", "ab", "identifier", "identity", "i", "")
IdLegacy == Rel("identity", "i", "identifier", "user", "a", "")

Graph == {MemberA, MemberAB, ViewA, ViewAB, ViewG, ViewAll}
Identifiers == {IdA, IdAB, IdLegacy}
MCRelations == Graph \cup Identifiers
\* doc:d|viewer|group:g|member, doc:d|viewer|user:a, ...:ab, doc:e|..., group:g|..., identity:i|..., user:ab|..., user:a|...
\* group:g|viewer|doc:d|member, identity:i|identifier|user:ab, ...:a, user:*|..., user:ab|member.., user:ab|viewer.., user:a|identifier..., ...
MCKeyOrder == [object  |-> <<ViewG, ViewA, ViewAB, ViewAll, MemberA, MemberAB, IdLegacy, IdAB, IdA>>,
               subject |-> <<ViewG, IdA, IdAB, ViewAll, MemberAB, ViewAB, IdLegacy, MemberA, ViewA>>]
Plain == {Obj("doc", "d"), Obj("doc", "e"), Obj("group", "g")}
UserA == Obj("user", "a")
MCObjects == Plain \cup {UserA}
MCObjectOrder == <<Obj("doc", "d"), Obj("doc", "e"), Obj("group", "g"), UserA>>
MCIdPrefix == {<<i, i>> : i \in {"a", "ab", "*", "g", "d", "e", "i"}} \cup {<<"a", "ab">>}

Filter(ot, oid, rel, st, sid) ==
  [ot |-> ot, oid |-> oid, rel |-> rel, st |-> st, sid |-> sid, sr |-> "", hasSr |-> FALSE]
Check(ot, oid, rel, st, sid) == [ot |-> ot, oid |-> oid, rel |-> rel, st |-> st, sid |-> sid]

Listings ==
  {[op |-> "relations", f |-> f, size |-> n] :
     f \in {Filter("", "", "", "", ""), Filter("doc", "d", "viewer", "user", "a"),
            Filter("doc", "d", "", "user", ""), Filter("", "", "viewer", "user", "ab")}, n \in {0, 1, 2}}
  \cup {[op |-> "relations", f |-> Filter("doc", "d", "editor", "", ""), size |-> 1]}
  \cup {[op |-> "objects", type |-> t, size |-> n] : t \in {"", "doc"}, n \in {1, 2}}
Singles ==
  {[op |-> "relation", f |-> f] :
     f \in {Filter("doc", "d", "viewer", "user", "a"), Filter("doc", "d", "viewer", "user", ""),
            Filter("", "", "", "user", "ab"), Filter("doc", "", "viewer", "user", ""),
            Filter("doc", "d", "editor", "", "")}}
\* Models: documents without a permission, and with one of their viewers or
\* of their owners; users or identities, or both, with an identifier.
Plainly == [x \in {<<"doc", "viewer">>, <<"doc", "owner">>, <<"group", "member">>} |-> {x[2]}]
ReadBy(rel) == (<<"doc", "can_read">> :> {rel}) @@ Plainly
GraphModels == {Plainly, ReadBy("viewer"), ReadBy("owner")}
IdModels == {[x \in ts \X {"identifier"} |-> {"identifier"}] : ts \in (SUBSET {"user", "identity"}) \ {{}}}
UserModel == [x \in {"user"} \X {"identifier"} |-> {"identifier"}]

Views ==
  {[op |-> "many", param |-> SubSeq(MCObjectOrder, 1, 3)], [op |-> "stats"]}
  \cup {[op |-> "object", type |-> o.type, id |-> o.id, ifNoneMatch |-> have] :
          o \in {Obj("doc", "d"), Obj("group", "g")}, have \in {{}, {Obj("group", "g")}}}
Permitted ==
  {subjectSearch(Check("doc", "d", "can_read", "user", "")),
   evaluation(Check("doc", "d", "can_read", "user", "ab")),
   actionSearch(Check("doc", "d", "", "user", "a"), ReadBy("viewer")),
   evaluations(Check("doc", "d", "can_read", "user", "ab"),
               <<Check("", "", "", "", ""), Check("doc", "e", "", "", "a")>>)}
Token(issuer, signed, fresh, audience) ==
  [issuer |-> issuer, signed |-> signed, fresh |-> fresh, audience |-> audience, subject |-> "i"]
Subs == {[op |-> "identity", kind |-> k, token |-> Token("", FALSE, FALSE, ""), issuers |-> {}, audience |-> ""] :
           k \in {"none", "manual", "sub"}}
Jwts == {[op |-> "identity", kind |-> "jwt", token |-> t, issuers |-> allowed, audience |-> aud] :
           t \in {Token("iss", TRUE, TRUE, "aud"), Token("iss", TRUE, TRUE, "else"), Token("iss", FALSE, TRUE, "aud"),
                  Token("iss", TRUE, FALSE, "aud"), Token("other", TRUE, TRUE, "aud"), Token("", TRUE, TRUE, "aud")},
           allowed \in {{}, {"iss"}}, aud \in {"", "aud"}}

\* Any relations with all the objects, and any objects with two relations.
Contents == [objs : {Plain}, rels : SUBSET Graph, mc : {ReadBy("viewer")}]
            \cup [objs : SUBSET Plain, rels : {{ViewA, MemberA}}, mc : {ReadBy("viewer")}]
Granting == [objs : {Plain}, rels : SUBSET Graph, mc : {ReadBy("viewer")}]
\* Any identifiers the manifest admits.
IdContents == {S \in [objs : SUBSET {UserA}, rels : SUBSET Identifiers, mc : IdModels] :
                 Admitted(S.rels, S.mc)}

Case(q, S) == [req |-> q, objs |-> S.objs, rels |-> S.rels, mc |-> S.mc]
MCCases == {Case(q, S) : q \in Listings \cup Singles \cup Views, S \in Contents}
           \cup {Case(q, S) : q \in Subs, S \in IdContents}
           \cup {Case(q, S) : q \in Permitted, S \in Granting}
           \cup {Case(q, [objs |-> {UserA}, rels |-> {IdA}, mc |-> UserModel]) : q \in Jwts}
MCWritten(q) ==
  CASE q.op = "identity" -> [objs |-> {UserA}, rels |-> Identifiers, models |-> IdModels]
    [] q.op \in {"check", "checks", "graph"} -> [objs |-> {}, rels |-> Graph, models |-> GraphModels]
    [] OTHER -> [objs |-> Plain, rels |-> Graph, models |-> {}]
=============================================================================
