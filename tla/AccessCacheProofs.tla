------------------------- MODULE AccessCacheProofs --------------------------
(***************************************************************************)
(* The cache of prepared queries, for any number of handlers, requests and *)
(* bundle activations: nobody waits in vain, decisions do not flip back,   *)
(* and only a preparation that overlapped a rotation leaves a stale entry. *)
(***************************************************************************)
EXTENDS AccessCache, SequenceTheorems, TLAPS

Leading == {"validate", "prepare", "put", "deliver"}
Asking == Leading \cup {"lookup", "miss", "joined", "eval"}
Subs == [context : Selections \cup {None}, action : Actions]

(* The state without the requests; a handler that asks has a key. *)
Types ==
    /\ bundles \in Seq(Bundles) /\ Len(bundles) = store
    /\ store \in Versions /\ compiler \in Versions /\ compiler <= store
    /\ rotation \in {"none", "committed", "trigger", "drop"}
    /\ watcher \in {"none", "claimed", "registered"}
    /\ packages = None \/ packages \in 0..store
    /\ entries \in [Keys -> Versions \cup {None}]
    /\ flight \in [Keys -> Workers \cup {None}]
    /\ pc \in [Workers -> Phases]
    /\ listed \in [Workers -> 0..store]
    /\ key \in [Workers -> Keys \cup {None}]
    /\ version \in [Workers -> Versions]
    /\ floor \in [Keys -> Versions]
    /\ base \in [Workers -> Versions]
    /\ overlapped \subseteq Keys /\ listOverlap \in BOOLEAN
    /\ \A w \in Workers : pc[w] \in Asking => key[w] \in Keys

(* A handler at work has a sub-request left. *)
RequestTypes ==
    /\ request \in [Workers -> [context : Selections \cup {None}, subs : Seq(Subs), naming : BOOLEAN]]
    /\ \A w \in Workers : pc[w] # "idle" => request[w].subs # <<>>

(* prepGroup: a flight is led by the handler it names, which prepares the  *)
(* query of that key, and a handler that joined has a flight to wait for.  *)
FlightInv ==
    /\ \A k \in Keys : flight[k] # None => key[flight[k]] = k /\ pc[flight[k]] \in Leading
    /\ \A w \in Workers : pc[w] \in Leading => flight[key[w]] = w
    /\ \A w \in Workers : pc[w] = "joined" => flight[key[w]] # None

(* What has been answered for a key is not newer than what is about to be  *)
(* answered, than what is cached, and than what is being stored.           *)
KeyAge(k) ==
    /\ floor[k] <= compiler
    /\ entries[k] # None => floor[k] <= entries[k] /\ entries[k] <= compiler

HandlerAge(w) ==
    /\ pc[w] \in Leading \cup {"miss", "joined"} => base[w] <= floor[key[w]]
    /\ pc[w] \in {"validate", "prepare", "put"} => entries[key[w]] = None
    /\ pc[w] \in {"put", "deliver"} => floor[key[w]] <= version[w] /\ version[w] <= compiler
    /\ pc[w] = "deliver" => entries[key[w]] \in {None, version[w]}
    /\ pc[w] = "eval" => /\ base[w] <= version[w] /\ version[w] <= compiler
                         /\ entries[key[w]] # None => version[w] <= entries[key[w]]

PairAge(w, x) ==
    pc[w] = "eval" /\ pc[x] \in {"put", "deliver"} /\ key[x] = key[w] => version[w] <= version[x]

AgeInv ==
    /\ \A k \in Keys : KeyAge(k)
    /\ \A w \in Workers : HandlerAge(w)
    /\ \A w, x \in Workers : PairAge(w, x)

(* Apart from what overlapped a rotation, what is cached and what is about *)
(* to be cached was read from the current compiler; while the trigger runs *)
(* nothing is said of what it still has to drop.                           *)
StaleInv ==
    /\ rotation # "committed" => compiler = store
    /\ \A w \in Workers : pc[w] = "put" => version[w] = compiler \/ key[w] \in overlapped
    /\ \A w \in Workers : pc[w] = "publish" => listed[w] = compiler \/ listOverlap
    /\ rotation \in {"none", "committed"} =>
            \A k \in Keys : entries[k] \in {None, compiler} \/ k \in overlapped
    /\ rotation # "trigger" => packages \in {None, compiler} \/ listOverlap

----------------------------------------------------------------------------
(* policyPath answers one of the paths that cacheKey is made of, or an     *)
(* error.                                                                  *)
LEMMA PolicyPathKey ==
    ASSUME Types, NEW v \in 0..store, NEW s \in Selections \cup {None}, NEW a \in Actions,
           policyPath(Packages(v), s) # None
    PROVE  <<policyPath(Packages(v), s), a>> \in Keys
  <1>1. Rules(v) \subseteq UNION Bundles
    BY InputsOK DEF Types, Rules, Versions
  <1>2. CASE s # None
    BY <1>2 DEF policyPath, doelbindingPolicy, Keys
  <1>3. CASE s = None
    <2> DEFINE roots == defaultPolicyRoots(Packages(v))
    <2>1. roots \subseteq Roots
      BY <1>1 DEF defaultPolicyRoots, PolicyRoots, Packages, Roots
    <2>2. SelectPolicyRoot(roots) \in roots \cup {None}
      BY DEF SelectPolicyRoot
    <2> QED
      BY <1>3, <2>1, <2>2 DEF policyPath, Keys
  <1> QED
    BY <1>2, <1>3

(* evaluate up to decisionQuery changes nothing but the handler's own      *)
(* request, key and place.                                                 *)
LEMMA SelectPolicyTypes ==
    ASSUME Types, RequestTypes, NEW w \in Workers, NEW v \in 0..store, pc[w] # "idle",
           SelectPolicy(w, v)
    PROVE  /\ request' \in [Workers -> [context : Selections \cup {None}, subs : Seq(Subs), naming : BOOLEAN]]
           /\ key' \in [Workers -> Keys \cup {None}]
           /\ \E phase \in {"packages", "lookup", "idle"} :
                 pc' = [pc EXCEPT ![w] = phase] /\ (phase = "lookup" => key'[w] \in Keys)
           /\ \A x \in Workers : key'[x] = key[x] \/ (x = w /\ pc'[x] = "lookup")
           /\ \A x \in Workers : pc'[x] # "idle" => request'[x].subs # <<>>
  <1> DEFINE path == policyPath(Packages(v), Selected(w))
  <1>1. Head(request[w].subs) \in Subs
    BY DEF RequestTypes
  <1>2. Selected(w) \in Selections \cup {None}
    BY <1>1 DEF Selected, RequestTypes, Subs
  <1>3. path # None => <<path, Head(request[w].subs).action>> \in Keys
    BY <1>1, <1>2, PolicyPathKey DEF Subs
  <1>4. NoRequest \in [context : Selections \cup {None}, subs : Seq(Subs), naming : BOOLEAN]
    BY DEF NoRequest
  <1> HIDE DEF path
  <1>5. CASE request[w].naming /\ request' = [request EXCEPT ![w].naming = FALSE] /\ Go(w, "packages") /\ UNCHANGED key
    BY <1>5, Zenon DEF Go, Types, RequestTypes
  <1>6. CASE ~request[w].naming /\ path # None /\ key' = [key EXCEPT ![w] = <<path, Head(request[w].subs).action>>]
             /\ Go(w, "lookup") /\ UNCHANGED request
    BY <1>3, <1>6 DEF Go, Types, RequestTypes
  <1>7. CASE ~request[w].naming /\ request' = [request EXCEPT ![w] = NoRequest] /\ Go(w, "idle") /\ UNCHANGED key
    BY <1>4, <1>7 DEF Go, Types, RequestTypes
  <1> QED
    BY <1>5, <1>6, <1>7 DEF SelectPolicy, path

----------------------------------------------------------------------------
(* The state the process starts with: nothing cached, nobody at work. *)
LEMMA InitTypes == Init => Types /\ RequestTypes
  <1> SUFFICES ASSUME Init PROVE Types /\ RequestTypes
    OBVIOUS
  <1>1. NoRequest \in [context : Selections \cup {None}, subs : Seq(Subs), naming : BOOLEAN]
    BY DEF NoRequest
  <1>2. RequestTypes
    BY <1>1 DEF Init, RequestTypes
  <1>3. Types
    <2>1. bundles \in Seq(Bundles) /\ Len(bundles) = store
      BY DEF Init
    <2>2. 0 \in Versions /\ 0 \in 0..0
      BY InputsOK DEF Versions
    <2>3. /\ entries \in [Keys -> Versions \cup {None}]
          /\ flight \in [Keys -> Workers \cup {None}]
          /\ key \in [Workers -> Keys \cup {None}]
          /\ listed \in [Workers -> 0..store]
      BY <2>2 DEF Init
    <2>4. /\ version \in [Workers -> Versions]
          /\ floor \in [Keys -> Versions]
          /\ base \in [Workers -> Versions]
      BY <2>2 DEF Init
    <2>5. pc \in [Workers -> Phases] /\ \A w \in Workers : pc[w] \notin Asking
      BY DEF Init, Phases, Asking, Leading
    <2>6. /\ store \in Versions /\ compiler \in Versions /\ compiler <= store
          /\ rotation = "none" /\ watcher = "none" /\ packages = None
      BY <2>2 DEF Init
    <2>7. overlapped \subseteq Keys /\ listOverlap \in BOOLEAN
      BY Zenon DEF Init
    <2> QED
      BY <2>1, <2>3, <2>4, <2>5, <2>6, <2>7 DEF Types
  <1> QED
    BY <1>2, <1>3

(* Every step of OPA and of a handler keeps the types. *)
LEMMA NextTypes == Types /\ RequestTypes /\ [Next]_vars => (Types /\ RequestTypes)'
  <1> SUFFICES ASSUME Types, RequestTypes, [Next]_vars PROVE Types' /\ RequestTypes'
    OBVIOUS
  <1> DEFINE Request == [context : Selections \cup {None}, subs : Seq(Subs), naming : BOOLEAN]
  <1>0. NoRequest \in Request
    BY DEF NoRequest
  <1> USE InputsOK DEF Go, Phases, Asking, Leading
  <1>1. CASE Commit
    <2>1. PICK b \in Bundles : bundles' = Append(bundles, b)
      BY <1>1 DEF Commit
    <2>2. bundles' \in Seq(Bundles) /\ Len(bundles') = store + 1
      BY <2>1, AppendProperties DEF Types
    <2> QED
      BY <1>1, <2>2 DEF Commit, cache, hist, Types, RequestTypes, Versions
  <1>2. CASE SetCompiler
    BY <1>2 DEF SetCompiler, cache, Types, RequestTypes, Versions
  <1>3. CASE DropPackages
    BY <1>3 DEF DropPackages, hist, Types, RequestTypes
  <1>4. CASE DropEntries
    BY <1>4 DEF DropEntries, hist, Types, RequestTypes
  <1>5. ASSUME NEW w \in Workers, Evaluations(w) PROVE Types' /\ RequestTypes'
    <2>1. PICK q \in Requests : request' = [request EXCEPT ![w] = [context |-> q.context, subs |-> q.subs, naming |-> ~q.single]]
      BY <1>5, Zenon DEF Evaluations
    <2>2. RequestOK(q)
      OBVIOUS
    <2>3. [context |-> q.context, subs |-> q.subs, naming |-> ~q.single] \in Request /\ q.subs # <<>>
      BY <2>2 DEF RequestOK, Subs
    <2>4. RequestTypes'
      BY <1>5, <2>1, <2>3 DEF Evaluations, RequestTypes, Types
    <2>5. Types'
      BY <1>5 DEF Evaluations, opa, cache, hist, Types
    <2> QED
      BY <2>4, <2>5
  <1>6. ASSUME NEW w \in Workers, Work(w) PROVE Types' /\ RequestTypes'
    <2>1. CASE ensureCompilerWatcher(w)
      BY <2>1 DEF ensureCompilerWatcher, opa, hist, Types, RequestTypes
    <2>2. CASE RegisterCompilerTrigger(w)
      BY <2>2 DEF RegisterCompilerTrigger, opa, hist, Types, RequestTypes
    <2>3. CASE policyPackages(w)
      <3>1. CASE packages # None /\ SelectPolicy(w, packages)
        <4>1. packages \in 0..store /\ pc[w] # "idle"
          BY <2>3, <3>1 DEF policyPackages, Types
        <4>2. RequestTypes'
          BY <3>1, <4>1, SelectPolicyTypes DEF RequestTypes
        <4>3. PICK phase \in {"packages", "lookup", "idle"} :
                 pc' = [pc EXCEPT ![w] = phase] /\ (phase = "lookup" => key'[w] \in Keys)
          BY <3>1, <4>1, SelectPolicyTypes
        <4>4. /\ key' \in [Workers -> Keys \cup {None}]
              /\ \A x \in Workers : key'[x] = key[x] \/ (x = w /\ pc'[x] = "lookup")
          BY <3>1, <4>1, SelectPolicyTypes
        <4> QED
          BY <2>3, <4>2, <4>3, <4>4, Zenon DEF policyPackages, opa, cache, hist, Types
      <3>2. CASE Go(w, "list") /\ UNCHANGED <<request, key>>
        BY <2>3, <3>2 DEF policyPackages, opa, cache, hist, Types, RequestTypes
      <3> QED
        BY <2>3, <3>1, <3>2 DEF policyPackages
    <2>4. CASE GetPolicyPackages(w)
      BY <2>4 DEF GetPolicyPackages, opa, cache, hist, Types, RequestTypes, Versions
    <2>5. CASE GetPolicyPackagesFails(w)
      <3>1. RequestTypes'
        <4>1. CASE request' = [request EXCEPT ![w].naming = FALSE] /\ Go(w, "packages")
          <5>1. request[w] \in Request /\ request[w].subs # <<>>
            BY <2>5 DEF GetPolicyPackagesFails, RequestTypes
          <5>3. [request[w] EXCEPT !.naming = FALSE] \in Request
            BY <5>1, Zenon
          <5>2. request' = [request EXCEPT ![w] = [request[w] EXCEPT !.naming = FALSE]]
            BY <4>1
          <5> QED
            BY <4>1, <5>1, <5>2, <5>3 DEF Types, RequestTypes
        <4>2. CASE request' = [request EXCEPT ![w] = NoRequest] /\ Go(w, "idle")
          BY <1>0, <4>2 DEF Types, RequestTypes
        <4> QED
          BY <2>5, <4>1, <4>2 DEF GetPolicyPackagesFails
      <3>2. Types'
        <4>1. PICK phase \in {"packages", "idle"} : pc' = [pc EXCEPT ![w] = phase]
          BY <2>5 DEF GetPolicyPackagesFails
        <4> QED
          BY <2>5, <4>1 DEF GetPolicyPackagesFails, opa, cache, hist, Types
      <3> QED
        BY <3>1, <3>2
    <2>6. CASE StorePackages(w)
      <3>1. listed[w] \in 0..store /\ pc[w] # "idle" /\ SelectPolicy(w, listed[w])
        BY <2>6 DEF StorePackages, Types
      <3>2. \A x \in Workers : [listed EXCEPT ![w] = 0][x] \in 0..store
        BY DEF Types, Versions
      <3>3. RequestTypes'
        BY <3>1, SelectPolicyTypes DEF RequestTypes
      <3>4. PICK phase \in {"packages", "lookup", "idle"} :
               pc' = [pc EXCEPT ![w] = phase] /\ (phase = "lookup" => key'[w] \in Keys)
        BY <3>1, SelectPolicyTypes
      <3>5. /\ key' \in [Workers -> Keys \cup {None}]
            /\ \A x \in Workers : key'[x] = key[x] \/ (x = w /\ pc'[x] = "lookup")
        BY <3>1, SelectPolicyTypes
      <3> QED
        BY <2>6, <3>1, <3>2, <3>3, <3>4, <3>5, Zenon DEF StorePackages, opa, hist, Types
    <2>7. CASE LoadEntry(w)
      <3>1. key[w] \in Keys /\ pc[w] = "lookup"
        BY <2>7 DEF LoadEntry, Types
      <3>2. base' \in [Workers -> Versions]
        BY <2>7, <3>1 DEF LoadEntry, Types
      <3>3. PICK phase \in {"eval", "miss"} : pc' = [pc EXCEPT ![w] = phase]
        BY <2>7 DEF LoadEntry
      <3>4. version' \in [Workers -> Versions]
        BY <2>7, <3>1 DEF LoadEntry, Types
      <3>5. RequestTypes'
        BY <2>7, <3>1, <3>3 DEF LoadEntry, RequestTypes, Types
      <3> QED
        BY <2>7, <3>1, <3>2, <3>3, <3>4, <3>5, Zenon DEF LoadEntry, opa, cache, Types
    <2>8. CASE EnterFlight(w)
      <3>1. PICK phase \in {"deliver", "validate", "joined"} : pc' = [pc EXCEPT ![w] = phase]
        BY <2>8 DEF EnterFlight, Recheck
      <3>2. key[w] \in Keys /\ pc[w] = "miss"
        BY <2>8 DEF EnterFlight, Types
      <3>3. flight' \in [Keys -> Workers \cup {None}] /\ version' \in [Workers -> Versions]
        <4>1. UNCHANGED flight \/ flight' = [flight EXCEPT ![key[w]] = w]
          BY <2>8 DEF EnterFlight
        <4>2. UNCHANGED version \/ (entries[key[w]] # None /\ version' = [version EXCEPT ![w] = entries[key[w]]])
          BY <2>8 DEF EnterFlight, Recheck
        <4>3. flight' \in [Keys -> Workers \cup {None}]
          BY <3>2, <4>1 DEF Types
        <4>4. entries[key[w]] # None => entries[key[w]] \in Versions
          BY <3>2 DEF Types
        <4> QED
          BY <4>2, <4>3, <4>4, Zenon DEF Types
      <3>4. RequestTypes'
        BY <2>8, <3>1 DEF EnterFlight, RequestTypes, Types
      <3> QED
        BY <2>8, <3>1, <3>2, <3>3, <3>4, Zenon DEF EnterFlight, opa, hist, Types
    <2>9. CASE ValidateRule(w)
      BY <2>9 DEF ValidateRule, opa, cache, hist, Types, RequestTypes
    <2>14. CASE PreparationFails(w)
      <3>1. RequestTypes'
        BY <2>14, <1>0 DEF PreparationFails, Land, Return, RequestTypes
      <3>2. flight' \in [Keys -> Workers \cup {None}] /\ pc' \in [Workers -> Phases]
        BY <2>14, Zenon DEF PreparationFails, Land, Types
      <3>3. key' \in [Workers -> Keys \cup {None}] /\ base' \in [Workers -> Versions]
        BY <2>14 DEF PreparationFails, Return, Types, Versions
      <3>4. \A x \in Workers : pc'[x] \in Asking => key'[x] \in Keys
        BY <2>14 DEF PreparationFails, Land, Return, Types
      <3> QED
        BY <2>14, <3>1, <3>2, <3>3, <3>4 DEF PreparationFails, opa, Types
    <2>10. CASE PrepareForEval(w)
      BY <2>10 DEF PrepareForEval, opa, cache, hist, Types, RequestTypes
    <2>11. CASE StoreEntry(w)
      BY <2>11 DEF StoreEntry, opa, hist, Types, RequestTypes
    <2>12. CASE Deliver(w)
      BY <2>12 DEF Deliver, Land, Aboard, opa, hist, Types, RequestTypes
    <2>13. CASE Eval(w)
      <3> DEFINE rest == Tail(request[w].subs)
      <3>1. rest \in Seq(Subs)
        BY <2>13 DEF Eval, RequestTypes
      <3>2. key[w] \in Keys /\ 0 \in Versions
        BY <2>13 DEF Eval, Types, Versions
      <3>3. floor' \in [Keys -> Versions] /\ version' \in [Workers -> Versions]
        BY <2>13, <3>2 DEF Eval, Types
      <3>4. CASE request' = [request EXCEPT ![w].subs = rest] /\ rest # <<>> /\ Go(w, "packages") /\ UNCHANGED <<key, base>>
        <4>1. RequestTypes'
          <5>1. [request[w] EXCEPT !.subs = rest] \in Request
            BY <3>1, Zenon DEF RequestTypes
          <5>2. request' = [request EXCEPT ![w] = [request[w] EXCEPT !.subs = rest]]
            BY <3>4
          <5> QED
            BY <3>4, <5>1, <5>2 DEF Types, RequestTypes
        <4> QED
          BY <2>13, <3>3, <3>4, <4>1 DEF Eval, opa, cache, Types
      <3>5. CASE Go(w, "idle") /\ Return({w})
        <4>1. RequestTypes'
          BY <3>5, <1>0 DEF Return, Types, RequestTypes
        <4> QED
          BY <2>13, <3>2, <3>3, <3>5, <4>1 DEF Eval, Return, opa, cache, Types
      <3> QED
        BY <2>13, <3>4, <3>5 DEF Eval
    <2> QED
      BY <1>6, <2>1, <2>2, <2>3, <2>4, <2>5, <2>6, <2>7, <2>8, <2>9, <2>10, <2>11, <2>12, <2>13, <2>14 DEF Work
  <1>7. CASE UNCHANGED vars
    BY <1>7 DEF vars, opa, cache, hist, Types, RequestTypes
  <1> QED
    BY <1>1, <1>2, <1>3, <1>4, <1>5, <1>6, <1>7 DEF Next, Rotate

----------------------------------------------------------------------------
(* Before it asks for a query a handler touches nothing of the queries:    *)
(* the steps of a request up to getOrPrepare.                              *)
Selecting(w) ==
    \/ Evaluations(w) \/ ensureCompilerWatcher(w) \/ RegisterCompilerTrigger(w)
    \/ policyPackages(w) \/ GetPolicyPackages(w) \/ GetPolicyPackagesFails(w) \/ StorePackages(w)

(* What such a step leaves alone, and where it leads. *)
LEMMA SelectingFrame ==
    ASSUME Types, RequestTypes, NEW w \in Workers, Selecting(w)
    PROVE  /\ pc[w] \notin Asking
           /\ \E phase \in {"idle", "packages", "register", "list", "publish", "lookup"} :
                 pc' = [pc EXCEPT ![w] = phase]
           /\ \A x \in Workers \ {w} : key'[x] = key[x]
           /\ UNCHANGED <<opa, entries, flight, version, hist>>
  <1> USE DEF Go, Asking, Leading, opa, hist, cache
  <1>1. CASE Evaluations(w)
    BY <1>1 DEF Evaluations
  <1>2. CASE ensureCompilerWatcher(w)
    BY <1>2 DEF ensureCompilerWatcher
  <1>3. CASE RegisterCompilerTrigger(w)
    BY <1>3 DEF RegisterCompilerTrigger
  <1>4. CASE policyPackages(w)
    <2>1. CASE packages # None /\ SelectPolicy(w, packages)
      <3>1. packages \in 0..store /\ pc[w] # "idle"
        BY <1>4, <2>1 DEF policyPackages, Types
      <3> QED
        BY <1>4, <2>1, <3>1, SelectPolicyTypes DEF policyPackages
    <2>2. CASE Go(w, "list") /\ UNCHANGED <<request, key>>
      BY <1>4, <2>2 DEF policyPackages
    <2> QED
      BY <1>4, <2>1, <2>2 DEF policyPackages
  <1>5. CASE GetPolicyPackages(w)
    BY <1>5 DEF GetPolicyPackages
  <1>6. CASE GetPolicyPackagesFails(w)
    BY <1>6 DEF GetPolicyPackagesFails
  <1>7. CASE StorePackages(w)
    <2>1. listed[w] \in 0..store /\ pc[w] # "idle" /\ SelectPolicy(w, listed[w])
      BY <1>7 DEF StorePackages, Types
    <2> QED
      BY <1>7, <2>1, SelectPolicyTypes DEF StorePackages
  <1> QED
    BY <1>1, <1>2, <1>3, <1>4, <1>5, <1>6, <1>7 DEF Selecting

(* Singleflight: whoever leads a flight has it, and every way out of the   *)
(* preparation ends it for all who joined.                                 *)
LEMMA NextFlight == Types /\ RequestTypes /\ FlightInv /\ [Next]_vars => FlightInv'
  <1> SUFFICES ASSUME Types, RequestTypes, FlightInv, [Next]_vars PROVE FlightInv'
    OBVIOUS
  <1>0. /\ None \notin Workers
        /\ pc \in [Workers -> Phases] /\ key \in [Workers -> Keys \cup {None}]
        /\ flight \in [Keys -> Workers \cup {None}]
        /\ \A w \in Workers : pc[w] \in Asking => key[w] \in Keys
    BY InputsOK DEF Types
  <1> USE DEF Asking, Leading
  <1>1. CASE Rotate
    BY <1>1 DEF Rotate, Commit, SetCompiler, DropPackages, DropEntries, cache, FlightInv
  <1>2. ASSUME NEW w \in Workers, Selecting(w) PROVE FlightInv'
    <2>1. PICK phase \in {"idle", "packages", "register", "list", "publish", "lookup"} :
             pc' = [pc EXCEPT ![w] = phase]
      BY <1>2, SelectingFrame
    <2>2. pc[w] \notin Asking /\ (\A x \in Workers \ {w} : key'[x] = key[x]) /\ UNCHANGED flight
      BY <1>2, SelectingFrame
    <2> QED
      BY <1>0, <2>1, <2>2 DEF FlightInv
  <1>3. ASSUME NEW w \in Workers, Work(w), ~Selecting(w) PROVE FlightInv'
    <2> USE DEF Go
    <2>1. CASE LoadEntry(w)
      <3>1. PICK phase \in {"eval", "miss"} : pc' = [pc EXCEPT ![w] = phase]
        BY <2>1 DEF LoadEntry
      <3> QED
        BY <1>0, <2>1, <3>1 DEF LoadEntry, cache, FlightInv
    <2>2. CASE EnterFlight(w)
      <3>1. CASE flight[key[w]] = None /\ flight' = [flight EXCEPT ![key[w]] = w] /\ Recheck(w)
        <4>1. PICK phase \in {"deliver", "validate"} : pc' = [pc EXCEPT ![w] = phase]
          BY <3>1 DEF Recheck
        <4> QED
          BY <1>0, <2>2, <3>1, <4>1 DEF EnterFlight, FlightInv
      <3>2. CASE flight[key[w]] # None /\ Go(w, "joined") /\ UNCHANGED <<flight, version>>
        BY <1>0, <2>2, <3>2 DEF EnterFlight, FlightInv
      <3> QED
        BY <2>2, <3>1, <3>2 DEF EnterFlight
    <2>3. CASE ValidateRule(w)
      BY <1>0, <2>3 DEF ValidateRule, cache, FlightInv
    <2>8. CASE PreparationFails(w)
      <3>1. pc[w] \in {"validate", "prepare"}
        BY <2>8 DEF PreparationFails
      <3>2. /\ \A x \in Workers : pc'[x] = IF x \in Aboard(w) THEN "idle" ELSE pc[x]
            /\ \A x \in Workers \ Aboard(w) : key'[x] = key[x]
            /\ flight' = [flight EXCEPT ![key[w]] = None]
        BY <1>0, <2>8, <3>1, Zenon DEF PreparationFails, Land, Return, FlightInv
      <3>3. /\ \A x \in Aboard(w) : key[x] = key[w]
            /\ \A x \in Workers : pc[x] \in Leading \cup {"joined"} /\ key[x] = key[w] => x \in Aboard(w)
        BY <1>0, <3>1 DEF FlightInv, Aboard
      <3> QED
        BY <1>0, <3>1, <3>2, <3>3 DEF FlightInv
    <2>4. CASE PrepareForEval(w)
      BY <1>0, <2>4 DEF PrepareForEval, cache, FlightInv
    <2>5. CASE StoreEntry(w)
      BY <1>0, <2>5 DEF StoreEntry, FlightInv
    <2>6. CASE Deliver(w)
      <3>1. /\ \A x \in Workers : pc'[x] = IF x \in Aboard(w) THEN "eval" ELSE pc[x]
            /\ flight' = [flight EXCEPT ![key[w]] = None] /\ UNCHANGED key /\ pc[w] = "deliver"
        BY <1>0, <2>6, Zenon DEF Deliver, Land, FlightInv
      <3>2. /\ \A x \in Aboard(w) : key[x] = key[w]
            /\ \A x \in Workers : pc[x] \in Leading \cup {"joined"} /\ key[x] = key[w] => x \in Aboard(w)
        BY <1>0, <3>1 DEF FlightInv, Aboard
      <3> QED
        BY <1>0, <3>1, <3>2 DEF FlightInv
    <2>7. CASE Eval(w)
      <3>1. PICK phase \in {"packages", "idle"} : pc' = [pc EXCEPT ![w] = phase]
        BY <2>7 DEF Eval
      <3>2. \A x \in Workers \ {w} : key'[x] = key[x]
        BY <2>7 DEF Eval, Return
      <3> QED
        BY <1>0, <2>7, <3>1, <3>2 DEF Eval, cache, FlightInv
    <2> QED
      BY <1>3, <2>1, <2>2, <2>3, <2>4, <2>5, <2>6, <2>7, <2>8 DEF Work, Selecting
  <1>4. CASE UNCHANGED vars
    BY <1>4 DEF vars, cache, FlightInv
  <1> QED
    BY <1>1, <1>2, <1>3, <1>4 DEF Next, Work, Selecting

(* What the argument about ages needs of the types. *)
Numbers ==
    /\ store \in Nat /\ compiler \in Nat /\ compiler <= store
    /\ \A w \in Workers : version[w] \in Nat /\ base[w] \in Nat
    /\ \A w \in Workers : pc[w] \in Asking => key[w] \in Keys
    /\ \A k \in Keys : floor[k] \in Nat /\ (entries[k] # None => entries[k] \in Nat)

(* Versions are numbers. *)
LEMMA TypesNumbers == Types => Numbers
  <1> SUFFICES ASSUME Types PROVE Numbers
    OBVIOUS
  <1>1. Versions \subseteq Nat
    BY InputsOK DEF Versions
  <1> QED
    BY <1>1 DEF Types, Numbers

(* A rotation only moves the compiler forward and drops entries.           *)
LEMMA AgeRotate ==
    ASSUME Types, FlightInv, AgeInv, Rotate
    PROVE  AgeInv'
  <1>1. /\ compiler <= compiler' /\ compiler' \in Nat
        /\ UNCHANGED entries \/ entries' = [k \in Keys |-> None]
        /\ UNCHANGED <<pc, key, version, floor, base>>
    BY TypesNumbers DEF Rotate, Commit, SetCompiler, DropPackages, DropEntries, cache, hist, Numbers
  <1>2. Numbers
    BY TypesNumbers
  <1>3. ASSUME NEW k \in Keys PROVE KeyAge(k)'
    BY <1>1, <1>2 DEF AgeInv, Numbers, Asking, Leading, KeyAge
  <1>4. ASSUME NEW x \in Workers PROVE HandlerAge(x)'
    BY <1>1, <1>2 DEF AgeInv, Numbers, Asking, Leading, KeyAge, HandlerAge
  <1>5. ASSUME NEW x \in Workers, NEW y \in Workers PROVE PairAge(x, y)'
    BY <1>1, <1>2 DEF AgeInv, Numbers, Asking, Leading, HandlerAge, PairAge
  <1> QED
    BY <1>3, <1>4, <1>5 DEF AgeInv

(* Choosing a policy touches neither queries nor ages.                     *)
LEMMA AgeSelecting ==
    ASSUME Types, FlightInv, AgeInv, NEW w \in Workers, RequestTypes, Selecting(w)
    PROVE  AgeInv'
  <1>1. /\ pc'[w] \in {"idle", "packages", "register", "list", "publish", "lookup"}
        /\ \A x \in Workers \ {w} : pc'[x] = pc[x] /\ key'[x] = key[x]
        /\ UNCHANGED <<compiler, entries, version, floor, base>>
    BY TypesNumbers, SelectingFrame DEF opa, hist, Types
  <1>2. Numbers
    BY TypesNumbers
  <1>3. ASSUME NEW k \in Keys PROVE KeyAge(k)'
    BY <1>1, <1>2 DEF AgeInv, Numbers, Asking, Leading, KeyAge
  <1>4. ASSUME NEW x \in Workers PROVE HandlerAge(x)'
    BY <1>1, <1>2 DEF AgeInv, Numbers, Asking, Leading, KeyAge, HandlerAge
  <1>5. ASSUME NEW x \in Workers, NEW y \in Workers PROVE PairAge(x, y)'
    BY <1>1, <1>2 DEF AgeInv, Numbers, Asking, Leading, HandlerAge, PairAge
  <1> QED
    BY <1>3, <1>4, <1>5 DEF AgeInv

(* A cached query is as new as everything answered so far.                 *)
LEMMA AgeLoadEntry ==
    ASSUME Types, FlightInv, AgeInv, NEW w \in Workers, LoadEntry(w)
    PROVE  AgeInv'
  <1>1. /\ pc[w] = "lookup" /\ base'[w] = floor[key[w]]
        /\ \A x \in Workers \ {w} : pc'[x] = pc[x] /\ version'[x] = version[x] /\ base'[x] = base[x]
        /\ \/ entries[key[w]] # None /\ version'[w] = entries[key[w]] /\ pc'[w] = "eval"
           \/ pc'[w] = "miss"
        /\ UNCHANGED <<compiler, entries, key, floor>>
    BY TypesNumbers DEF LoadEntry, Go, opa, cache, Types
  <1>2. Numbers
    BY TypesNumbers
  <1>3. ASSUME NEW k \in Keys PROVE KeyAge(k)'
    BY <1>1, <1>2 DEF AgeInv, Numbers, Asking, Leading, KeyAge
  <1>4. ASSUME NEW x \in Workers PROVE HandlerAge(x)'
    BY <1>1, <1>2 DEF AgeInv, Numbers, Asking, Leading, KeyAge, HandlerAge
  <1>5. ASSUME NEW x \in Workers, NEW y \in Workers PROVE PairAge(x, y)'
    <2>1. /\ HandlerAge(y) /\ PairAge(x, y)
          /\ version[x] \in Nat /\ base[x] \in Nat /\ compiler \in Nat
          /\ version[y] \in Nat /\ base[y] \in Nat /\ compiler \in Nat
      BY <1>1, <1>2 DEF AgeInv, Numbers, Asking, Leading
    <2>2. CASE x = w
      BY <1>1, <2>1, <2>2 DEF Leading, HandlerAge, PairAge
    <2>3. CASE x # w
      BY <1>1, <2>1, <2>3 DEF Leading, HandlerAge, PairAge
    <2> QED
      BY <2>2, <2>3
  <1> QED
    BY <1>3, <1>4, <1>5 DEF AgeInv

(* The leader of a flight that finds the entry delivers it.                *)
LEMMA AgeEnterFlight ==
    ASSUME Types, FlightInv, AgeInv, NEW w \in Workers, EnterFlight(w)
    PROVE  AgeInv'
  <1>1. /\ pc[w] = "miss"
        /\ \/ pc'[w] = "deliver" /\ entries[key[w]] # None /\ version'[w] = entries[key[w]]
           \/ pc'[w] = "validate" /\ entries[key[w]] = None
           \/ pc'[w] = "joined"
        /\ \A x \in Workers \ {w} : pc'[x] = pc[x] /\ version'[x] = version[x]
        /\ UNCHANGED <<compiler, entries, key, floor, base>>
    BY TypesNumbers DEF EnterFlight, Recheck, Go, opa, hist, Types
  <1>2. Numbers
    BY TypesNumbers
  <1>3. ASSUME NEW k \in Keys PROVE KeyAge(k)'
    BY <1>1, <1>2 DEF AgeInv, Numbers, Asking, Leading, KeyAge
  <1>4. ASSUME NEW x \in Workers PROVE HandlerAge(x)'
    BY <1>1, <1>2 DEF AgeInv, Numbers, Asking, Leading, KeyAge, HandlerAge
  <1>5. ASSUME NEW x \in Workers, NEW y \in Workers PROVE PairAge(x, y)'
    <2>1. /\ HandlerAge(x) /\ HandlerAge(y) /\ PairAge(x, y)
      BY <1>2 DEF AgeInv, Numbers
    <2> QED
      BY <1>1, <1>2, <2>1 DEF Numbers, Asking, Leading, HandlerAge, PairAge
  <1> QED
    BY <1>3, <1>4, <1>5 DEF AgeInv

(* A failed preparation sends the handlers home, a rule that is there lets *)
(* the one that leads go on.                                               *)
LEMMA AgeValidateRule ==
    ASSUME Types, FlightInv, AgeInv, NEW w \in Workers, ValidateRule(w) \/ PreparationFails(w)
    PROVE  AgeInv'
  <1>1. /\ pc[w] \in {"validate", "prepare"}
        /\ \A x \in Workers : \/ pc'[x] = pc[x] /\ key'[x] = key[x] /\ base'[x] = base[x]
                              \/ pc'[x] = "idle"
                              \/ x = w /\ pc'[x] = "prepare" /\ key'[x] = key[x] /\ base'[x] = base[x]
        /\ UNCHANGED <<compiler, entries, version, floor>>
    BY TypesNumbers DEF ValidateRule, PreparationFails, Land, Return, Go, opa, cache, hist, Types
  <1>2. Numbers
    BY TypesNumbers
  <1>3. ASSUME NEW k \in Keys PROVE KeyAge(k)'
    BY <1>1, <1>2 DEF AgeInv, Numbers, Asking, Leading, KeyAge
  <1>4. ASSUME NEW x \in Workers PROVE HandlerAge(x)'
    BY <1>1, <1>2 DEF AgeInv, Numbers, Asking, Leading, KeyAge, HandlerAge
  <1>5. ASSUME NEW x \in Workers, NEW y \in Workers PROVE PairAge(x, y)'
    BY <1>1, <1>2 DEF AgeInv, Numbers, Asking, Leading, HandlerAge, PairAge
  <1> QED
    BY <1>3, <1>4, <1>5 DEF AgeInv

(* The compiler is as new as everything answered so far.                   *)
LEMMA AgePrepareForEval ==
    ASSUME Types, FlightInv, AgeInv, NEW w \in Workers, PrepareForEval(w)
    PROVE  AgeInv'
  <1>1. /\ pc[w] = "prepare" /\ pc'[w] = "put" /\ version'[w] = compiler
        /\ \A x \in Workers \ {w} : pc'[x] = pc[x] /\ version'[x] = version[x]
        /\ UNCHANGED <<compiler, entries, key, floor, base>>
    BY TypesNumbers DEF PrepareForEval, Go, opa, cache, hist, Types
  <1>2. Numbers
    BY TypesNumbers
  <1>3. ASSUME NEW k \in Keys PROVE KeyAge(k)'
    BY <1>1, <1>2 DEF AgeInv, Numbers, Asking, Leading, KeyAge
  <1>4. ASSUME NEW x \in Workers PROVE HandlerAge(x)'
    <2>1. /\ HandlerAge(x)
          /\ version[x] \in Nat /\ base[x] \in Nat /\ compiler \in Nat
          /\ pc[x] \in Asking => KeyAge(key[x]) /\ floor[key[x]] \in Nat /\ key[x] \in Keys
      BY <1>1, <1>2 DEF AgeInv, Numbers, Asking, Leading
    <2>2. CASE x = w
      BY <1>1, <2>1, <2>2 DEF Leading, Asking, KeyAge, HandlerAge
    <2>3. CASE x # w
      BY <1>1, <2>1, <2>3 DEF Leading, Asking, KeyAge, HandlerAge
    <2> QED
      BY <2>2, <2>3
  <1>5. ASSUME NEW x \in Workers, NEW y \in Workers PROVE PairAge(x, y)'
    BY <1>1, <1>2 DEF AgeInv, Numbers, Asking, Leading, HandlerAge, PairAge
  <1> QED
    BY <1>3, <1>4, <1>5 DEF AgeInv

(* Nobody else prepares the query that is stored.                          *)
LEMMA AgeStoreEntry ==
    ASSUME Types, FlightInv, AgeInv, NEW w \in Workers, StoreEntry(w)
    PROVE  AgeInv'
  <1>1. /\ pc[w] = "put" /\ pc'[w] = "deliver" /\ key[w] \in Keys
        /\ \A x \in Workers \ {w} : pc'[x] = pc[x]
        /\ \A x \in Workers \ {w} : pc[x] \in Leading => key[x] # key[w]
        /\ \A k \in Keys : entries'[k] = IF k = key[w] THEN version[w] ELSE entries[k]
        /\ UNCHANGED <<compiler, version, key, floor, base>>
    BY TypesNumbers DEF StoreEntry, Go, opa, hist, Types, FlightInv, Asking, Leading
  <1>2. Numbers
    BY TypesNumbers
  <1>3. ASSUME NEW k \in Keys PROVE KeyAge(k)'
    BY <1>1, <1>2 DEF AgeInv, Numbers, Asking, Leading, KeyAge, HandlerAge
  <1>4. ASSUME NEW x \in Workers PROVE HandlerAge(x)'
    <2>1. /\ HandlerAge(x) /\ PairAge(x, w)
          /\ version[x] \in Nat /\ base[x] \in Nat /\ compiler \in Nat /\ version[w] \in Nat
          /\ pc[x] \in Asking => KeyAge(key[x]) /\ floor[key[x]] \in Nat /\ key[x] \in Keys
      BY <1>1, <1>2 DEF AgeInv, Numbers, Asking, Leading
    <2>2. CASE x = w
      BY <1>1, <2>1, <2>2 DEF Leading, Asking, KeyAge, HandlerAge, PairAge
    <2>3. CASE x # w
      <3>1. /\ pc'[x] = pc[x] /\ (pc[x] \in Leading => key[x] # key[w])
            /\ UNCHANGED <<compiler, version, key, floor, base>>
        BY <1>1, <2>3
      <3>2. pc[x] \in Asking => \/ key[x] # key[w] /\ entries'[key[x]] = entries[key[x]]
                                \/ key[x] = key[w] /\ entries'[key[x]] = version[w]
        BY <1>1, <2>1
      <3>3. pc[x] = "eval" => (entries'[key[x]] # None => version[x] <= entries'[key[x]])
        BY <1>1, <2>1, <3>2 DEF Asking, HandlerAge, PairAge
      <3>4. pc[x] \in Leading => entries'[key[x]] = entries[key[x]]
        BY <3>1, <3>2 DEF Asking
      <3> QED
        BY <2>1, <3>1, <3>3, <3>4 DEF Leading, HandlerAge
    <2> QED
      BY <2>2, <2>3
  <1>5. ASSUME NEW x \in Workers, NEW y \in Workers PROVE PairAge(x, y)'
    BY <1>1, <1>2 DEF AgeInv, Numbers, Asking, Leading, HandlerAge, PairAge
  <1> QED
    BY <1>3, <1>4, <1>5 DEF AgeInv

(* Those aboard are given a query as new as everything answered so far.    *)
LEMMA AgeDeliver ==
    ASSUME Types, FlightInv, AgeInv, NEW w \in Workers, Deliver(w)
    PROVE  AgeInv'
  <1>1. /\ pc[w] = "deliver"
        /\ \A x \in Workers : pc'[x] = IF x \in Aboard(w) THEN "eval" ELSE pc[x]
        /\ \A x \in Workers : version'[x] = IF x \in Aboard(w) THEN version[w] ELSE version[x]
        /\ UNCHANGED <<key, entries, floor, base, compiler>>
    BY TypesNumbers DEF Deliver, Land, opa, hist
  <1>2. Numbers
    BY TypesNumbers
  <1>6. /\ w \in Aboard(w)
        /\ \A x \in Aboard(w) : key[x] = key[w] /\ (x = w \/ pc[x] = "joined")
        /\ \A x \in Workers : pc[x] \in {"put", "deliver"} /\ key[x] = key[w] => x = w
    BY <1>1 DEF Aboard, FlightInv, Leading
  <1>3. ASSUME NEW k \in Keys PROVE KeyAge(k)'
    BY <1>1, <1>2 DEF AgeInv, Numbers, Asking, Leading, KeyAge
  <1>4. ASSUME NEW x \in Workers PROVE HandlerAge(x)'
    <2>1. /\ HandlerAge(x) /\ HandlerAge(w)
          /\ version[x] \in Nat /\ base[x] \in Nat /\ compiler \in Nat /\ version[w] \in Nat
          /\ floor[key[w]] \in Nat /\ (entries[key[w]] # None => entries[key[w]] \in Nat)
      BY <1>1, <1>2, <1>6 DEF AgeInv, Numbers, Asking, Leading
    <2>2. CASE x \in Aboard(w)
      <3>1. /\ base[x] <= floor[key[w]] /\ key[x] = key[w]
            /\ floor[key[w]] <= version[w] /\ version[w] <= compiler
            /\ entries[key[w]] # None => entries[key[w]] = version[w]
        BY <1>1, <2>1, <2>2, <1>6 DEF Leading, HandlerAge
      <3>2. /\ pc'[x] = "eval" /\ version'[x] = version[w] /\ key'[x] = key[w]
            /\ UNCHANGED <<entries, compiler, base>>
        BY <1>1, <2>2, <3>1
      <3>3. base[x] <= version[w] /\ (entries[key[w]] # None => version[w] <= entries[key[w]])
        BY <2>1, <3>1
      <3> QED
        BY <3>1, <3>2, <3>3 DEF Leading, HandlerAge
    <2>3. CASE x \notin Aboard(w)
      BY <1>1, <2>1, <2>3, <1>6 DEF Leading, HandlerAge
    <2> QED
      BY <2>2, <2>3
  <1>5. ASSUME NEW x \in Workers, NEW y \in Workers PROVE PairAge(x, y)'
    BY <1>1, <1>2, <1>6 DEF AgeInv, Numbers, Asking, Leading, HandlerAge, PairAge
  <1> QED
    BY <1>3, <1>4, <1>5 DEF AgeInv

(* An answer moves the floor up to its own version.                        *)
LEMMA AgeEval ==
    ASSUME Types, FlightInv, AgeInv, NEW w \in Workers, Eval(w)
    PROVE  AgeInv'
  <1>1. /\ pc[w] = "eval" /\ pc'[w] \in {"packages", "idle"} /\ key[w] \in Keys
        /\ \A x \in Workers \ {w} : /\ pc'[x] = pc[x] /\ key'[x] = key[x]
                                     /\ base'[x] = base[x] /\ version'[x] = version[x]
        /\ \A k \in Keys : \/ floor'[k] = floor[k]
                           \/ k = key[w] /\ floor'[k] = version[w] /\ version[w] > floor[k]
        /\ UNCHANGED <<entries, compiler>>
    BY TypesNumbers DEF Eval, Return, Go, opa, cache, Types, Asking
  <1>2. Numbers
    BY TypesNumbers
  <1>3. ASSUME NEW k \in Keys PROVE KeyAge(k)'
    BY <1>1, <1>2 DEF AgeInv, Numbers, Asking, Leading, KeyAge, HandlerAge
  <1>4. ASSUME NEW x \in Workers PROVE HandlerAge(x)'
    <2>1. /\ HandlerAge(x) /\ PairAge(w, x)
          /\ version[x] \in Nat /\ base[x] \in Nat /\ compiler \in Nat /\ version[w] \in Nat
          /\ pc[x] \in Asking => floor[key[x]] \in Nat /\ key[x] \in Keys
      BY <1>1, <1>2 DEF AgeInv, Numbers, Asking, Leading
    <2>2. CASE x = w
      BY <1>1, <2>1, <2>2 DEF Leading, Asking, HandlerAge, PairAge
    <2>3. CASE x # w
      <3>1. /\ pc'[x] = pc[x] /\ key'[x] = key[x] /\ base'[x] = base[x] /\ version'[x] = version[x]
            /\ UNCHANGED <<entries, compiler>>
        BY <1>1, <2>3
      <3>2. ASSUME pc[x] \in Asking
            PROVE  \/ floor'[key[x]] = floor[key[x]]
                   \/ key[x] = key[w] /\ floor'[key[x]] = version[w] /\ version[w] > floor[key[x]]
        BY <1>1, <2>1, <3>2
      <3>3. /\ pc[x] \in Leading \cup {"miss", "joined"} => base[x] <= floor'[key[x]]
            /\ pc[x] \in {"put", "deliver"} => floor'[key[x]] <= version[x]
        <4>1. pc[x] \in Leading \cup {"miss", "joined"} => base[x] <= floor'[key[x]]
          <5>1. SUFFICES ASSUME pc[x] \in Leading \cup {"miss", "joined"}
                         PROVE  base[x] <= floor'[key[x]]
            OBVIOUS
          <5>2. pc[x] \in Asking
            BY <5>1 DEF Leading, Asking
          <5>3. base[x] <= floor[key[x]]
            BY <2>1, <5>1 DEF HandlerAge
          <5>4. floor'[key[x]] = floor[key[x]] \/ (floor'[key[x]] > floor[key[x]] /\ floor'[key[x]] \in Nat)
            BY <2>1, <3>2, <5>2
          <5> QED
            BY <2>1, <5>2, <5>3, <5>4
        <4>2. pc[x] \in {"put", "deliver"} => floor'[key[x]] <= version[x]
          BY <1>1, <2>1, <3>2 DEF Leading, Asking, HandlerAge, PairAge
        <4> QED
          BY <4>1, <4>2
      <3> QED
        BY <2>1, <3>1, <3>3 DEF Leading, HandlerAge
    <2> QED
      BY <2>2, <2>3
  <1>5. ASSUME NEW x \in Workers, NEW y \in Workers PROVE PairAge(x, y)'
    BY <1>1, <1>2 DEF AgeInv, Numbers, Asking, Leading, HandlerAge, PairAge
  <1> QED
    BY <1>3, <1>4, <1>5 DEF AgeInv

(* The age of what is answered, cached and prepared for a key never goes   *)
(* back, since one handler at a time prepares its query.                   *)
LEMMA NextAge == Types /\ RequestTypes /\ FlightInv /\ AgeInv /\ [Next]_vars => AgeInv'
  <1> SUFFICES ASSUME Types, RequestTypes, FlightInv, AgeInv, [Next]_vars PROVE AgeInv'
    OBVIOUS
  <1>1. CASE Rotate
    BY <1>1, AgeRotate
  <1>2. ASSUME NEW w \in Workers, Selecting(w) PROVE AgeInv'
    BY <1>2, AgeSelecting
  <1>3. ASSUME NEW w \in Workers, Work(w), ~Selecting(w) PROVE AgeInv'
    BY <1>3, AgeLoadEntry, AgeEnterFlight, AgeValidateRule, AgePrepareForEval, AgeStoreEntry, AgeDeliver,
       AgeEval DEF Work, Selecting
  <1>4. CASE UNCHANGED vars
    BY <1>4 DEF vars, opa, cache, hist, AgeInv, KeyAge, HandlerAge, PairAge
  <1> QED
    BY <1>1, <1>2, <1>3, <1>4 DEF Next, Work, Selecting

(* The trigger of ensureCompilerWatcher leaves nothing of the old policy   *)
(* but what overlapped the rotation.                                       *)
LEMMA NextStale == Types /\ RequestTypes /\ StaleInv /\ [Next]_vars => StaleInv'
  <1> SUFFICES ASSUME Types, RequestTypes, StaleInv, [Next]_vars PROVE StaleInv'
    OBVIOUS
  <1>0. /\ None \notin Versions
        /\ rotation \in {"none", "committed", "trigger", "drop"}
        /\ pc \in [Workers -> Phases] /\ key \in [Workers -> Keys \cup {None}]
        /\ entries \in [Keys -> Versions \cup {None}]
        /\ version \in [Workers -> Versions]
        /\ listed \in [Workers -> 0..store]
        /\ \A w \in Workers : pc[w] \in Asking => key[w] \in Keys
    BY InputsOK DEF Types, Versions
  <1> USE DEF Asking, Leading
  <1>1. CASE Commit
    BY <1>1 DEF Commit, cache, hist, StaleInv
  <1>2. CASE SetCompiler
    BY <1>0, <1>2, Zenon DEF SetCompiler, cache, StaleInv
  <1>3. CASE DropPackages
    BY <1>3 DEF DropPackages, hist, StaleInv
  <1>4. CASE DropEntries
    BY <1>0, <1>4 DEF DropEntries, hist, StaleInv
  <1>5. ASSUME NEW w \in Workers, Selecting(w) PROVE StaleInv'
    <2>1. PICK phase \in {"idle", "packages", "register", "list", "publish", "lookup"} :
             pc' = [pc EXCEPT ![w] = phase]
      BY <1>5, SelectingFrame
    <2>2. /\ pc[w] \notin Asking /\ (\A x \in Workers \ {w} : key'[x] = key[x])
          /\ UNCHANGED <<store, compiler, rotation, entries, version, overlapped, listOverlap>>
      BY <1>5, SelectingFrame DEF opa, hist
    <2>3. CASE GetPolicyPackages(w)
      BY <1>0, <2>1, <2>2, <2>3 DEF GetPolicyPackages, cache, StaleInv
    <2>4. CASE StorePackages(w)
      <3>1. pc'[w] # "publish"
        BY <1>0, <2>4 DEF StorePackages, SelectPolicy, Go
      <3>2. pc[w] = "publish" /\ packages' = listed[w] /\ listed' = [listed EXCEPT ![w] = 0]
        BY <2>4 DEF StorePackages
      <3> QED
        BY <1>0, <2>1, <2>2, <3>1, <3>2 DEF StaleInv
    <2>5. ASSUME ~GetPolicyPackages(w), ~StorePackages(w)
          PROVE  UNCHANGED <<packages, listed>> /\ pc'[w] # "publish"
      BY <1>0, <1>5, <2>5 DEF Selecting, Evaluations, ensureCompilerWatcher, RegisterCompilerTrigger,
                   policyPackages, GetPolicyPackagesFails, SelectPolicy, Go, cache
    <2> QED
      BY <1>0, <2>1, <2>2, <2>3, <2>4, <2>5 DEF StaleInv
  <1>6. ASSUME NEW w \in Workers, Work(w), ~Selecting(w) PROVE StaleInv'
    <2> USE DEF Go
    <2>1. CASE LoadEntry(w)
      BY <1>0, <2>1 DEF LoadEntry, opa, cache, StaleInv
    <2>2. CASE EnterFlight(w)
      BY <1>0, <2>2 DEF EnterFlight, Recheck, opa, hist, StaleInv
    <2>3. CASE ValidateRule(w)
      BY <1>0, <2>3 DEF ValidateRule, opa, cache, hist, StaleInv
    <2>8. CASE PreparationFails(w)
      BY <1>0, <2>8 DEF PreparationFails, Land, Return, opa, StaleInv
    <2>4. CASE PrepareForEval(w)
      BY <1>0, <2>4 DEF PrepareForEval, opa, cache, hist, StaleInv
    <2>5. CASE StoreEntry(w)
      BY <1>0, <2>5 DEF StoreEntry, opa, hist, StaleInv
    <2>6. CASE Deliver(w)
      BY <1>0, <2>6 DEF Deliver, Land, opa, hist, StaleInv
    <2>7. CASE Eval(w)
      BY <1>0, <2>7 DEF Eval, Return, opa, cache, StaleInv
    <2> QED
      BY <1>6, <2>1, <2>2, <2>3, <2>4, <2>5, <2>6, <2>7, <2>8 DEF Work, Selecting
  <1>7. CASE UNCHANGED vars
    BY <1>7 DEF vars, opa, cache, hist, StaleInv
  <1> QED
    BY <1>1, <1>2, <1>3, <1>4, <1>5, <1>6, <1>7 DEF Next, Rotate, Work, Selecting

----------------------------------------------------------------------------
(* The inductive invariant: the types, singleflight, the age of queries    *)
(* and what may be stale.                                                  *)
Inv == Types /\ RequestTypes /\ FlightInv /\ AgeInv /\ StaleInv

(* Nothing is cached and nobody is at work in the beginning. *)
LEMMA InitInv == Init => Inv
  <1> SUFFICES ASSUME Init PROVE FlightInv /\ AgeInv /\ StaleInv
    BY InitTypes DEF Inv
  <1>1. FlightInv
    BY DEF Init, FlightInv, Leading
  <1>2. AgeInv
    BY DEF Init, AgeInv, KeyAge, HandlerAge, PairAge, Leading
  <1>3. StaleInv
    BY DEF Init, StaleInv
  <1> QED
    BY <1>1, <1>2, <1>3

(* The invariant holds throughout. *)
LEMMA Invariance == Spec => []Inv
  <1>1. Inv /\ [Next]_vars => Inv'
    BY NextTypes, NextFlight, NextAge, NextStale DEF Inv
  <1> QED
    BY <1>1, InitInv, PTL DEF Spec

(* A handler that joined a preparation waits for one in progress: every    *)
(* way out of the singleflight function, its errors included, lets go of   *)
(* all who joined.                                                         *)
THEOREM NobodyWaitsInVain == Spec => []NoOrphanWait
  <1>1. Inv => NoOrphanWait
    <2> SUFFICES ASSUME Inv, NEW w \in Workers, pc[w] = "joined"
                 PROVE  \E x \in Workers : /\ flight[key[w]] = x /\ key[x] = key[w]
                                           /\ pc[x] \in Leading
      BY DEF NoOrphanWait, Leading
    <2>1. key[w] \in Keys /\ flight[key[w]] \in Workers
      BY DEF Inv, Types, FlightInv, Asking
    <2> QED
      BY <2>1, InputsOK DEF Inv, FlightInv
  <1> QED
    BY <1>1, Invariance, PTL

(* getOrPrepare: a request that asks after another has been answered is    *)
(* never answered by an older policy.                                      *)
THEOREM DecisionsDoNotFlipBack == Spec => []MonotoneReads
  <1>1. Inv => MonotoneReads
    BY InputsOK DEF Inv, Types, Versions, AgeInv, HandlerAge, MonotoneReads
  <1> QED
    BY <1>1, Invariance, PTL

(* ensureCompilerWatcher: between rotations only what overlapped one is    *)
(* stale.                                                                  *)
THEOREM OnlyOverlapsAreStale == Spec => []StaleOnlyIfOverlapped
  <1>1. Inv => StaleOnlyIfOverlapped
    BY DEF Inv, StaleInv, StaleOnlyIfOverlapped
  <1> QED
    BY <1>1, Invariance, PTL
=============================================================================
