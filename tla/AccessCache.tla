---------------------------- MODULE AccessCache ----------------------------
(***************************************************************************)
(* The AuthZEN Access API of the authorizer: evaluation requests, the      *)
(* cache of prepared queries they share, and the rotation of the policy    *)
(* compiler underneath them.                                               *)
(*                                                                         *)
(* A policy version is the number of bundle activations so far; version 0  *)
(* is the empty policy.  bundles[v] is the set of rules of version v, a    *)
(* rule being a pair <<package, name>> and a package a sequence of path    *)
(* elements.  The store and the compiler belong to OPA (external): a       *)
(* commit replaces the policy under the store's read lock, then installs   *)
(* the compiler and calls the registered triggers before releasing it.     *)
(***************************************************************************)
EXTENDS Naturals, Sequences, FiniteSets

CONSTANTS Workers,       \* gRPC handlers serving at the same time
          Bundles,       \* the rule sets a bundle may carry
          Requests,      \* the requests callers send, see RequestOK
          Actions,       \* action names
          Selections,    \* doelbindings a request may select
          PolicyRoot,    \* opa.policy_root, or None
          None,          \* "not set"
          MaxRotations   \* bound: bundle activations

Doelbinding == "doelbinding"

Package(rule) == rule[1]

(* What cacheKey makes of a path and an action: a root outside the         *)
(* doelbinding namespace, or a package in it that a request can name.      *)
Roots == {Package(rule)[1] : rule \in UNION Bundles} \ {Doelbinding}
Keys == ({<<root>> : root \in Roots} \cup {<<Doelbinding, s>> : s \in Selections}) \X Actions

Versions == 0..MaxRotations

(* evaluations refuses an empty batch before it looks at the policy.       *)
RequestOK(q) ==
    /\ q.context \in Selections \cup {None}
    /\ q.single \in BOOLEAN
    /\ q.subs \in Seq([context : Selections \cup {None}, action : Actions])
    /\ q.subs # <<>> /\ (q.single => Len(q.subs) = 1)

ASSUME InputsOK == /\ \A q \in Requests : RequestOK(q)
                   /\ None \notin Selections /\ None \notin Workers /\ None \notin Versions
                   /\ MaxRotations \in Nat

VARIABLES
    bundles,    \* rules of each activated version
    store,      \* version of the policy in OPA's store
    compiler,   \* version the plugin manager's compiler was built from
    rotation,   \* progress of a commit: "none" when the store is unlocked
    watcher,    \* watcherOnce and the trigger: "none", "claimed", "registered"
    packages,   \* version whose package list is cached, or None
    entries,    \* entries[k]: version the cached query was prepared from, or None
    flight,     \* prepGroup: the worker preparing k, or None
    pc,         \* what each worker does next
    request,    \* the sub-requests a worker still has to evaluate, batch context included
    listed,     \* version of the package list a worker holds
    key,        \* the <<package, action>> a worker is asking for
    version,    \* version of the query a worker prepared or was given
    floor,      \* history: newest version a finished evaluation of k used
    base,       \* history: floor[k] when the worker asked for its query
    overlapped, \* history: keys whose preparation overlapped a rotation
    listOverlap \* history: a read of the package list overlapped a rotation

opa   == <<bundles, store, compiler, rotation>>
cache == <<watcher, packages, entries, flight>>
hist  == <<floor, base, overlapped, listOverlap>>
vars  == <<opa, cache, pc, request, listed, key, version, hist>>

Phases == {"idle", "packages", "register", "list", "publish", "lookup", "miss", "joined",
           "validate", "prepare", "put", "deliver", "eval"}

NoRequest == [context |-> None, subs |-> <<>>, naming |-> FALSE]

Rules(v) == IF v = 0 THEN {} ELSE bundles[v]
Packages(v) == {Package(rule) : rule \in Rules(v)}

Init ==
    /\ bundles = <<>> /\ store = 0 /\ compiler = 0 /\ rotation = "none"
    /\ watcher = "none" /\ packages = None
    /\ entries = [k \in Keys |-> None]
    /\ flight = [k \in Keys |-> None]
    /\ pc = [w \in Workers |-> "idle"]
    /\ request = [w \in Workers |-> NoRequest]
    /\ listed = [w \in Workers |-> 0]
    /\ key = [w \in Workers |-> None]
    /\ version = [w \in Workers |-> 0]
    /\ floor = [k \in Keys |-> 0]
    /\ base = [w \in Workers |-> 0]
    /\ overlapped = {} /\ listOverlap = FALSE

----------------------------------------------------------------------------
(* Bundle activation, as OPA's store and plugin manager carry it out.      *)

Commit ==
    /\ rotation = "none" /\ store < MaxRotations
    /\ \E b \in Bundles : bundles' = Append(bundles, b)
    /\ store' = store + 1
    /\ rotation' = "committed"
    /\ UNCHANGED <<compiler, cache, pc, request, listed, key, version, hist>>

(* Preparations that have read the old compiler, and every cached value    *)
(* when no trigger is registered yet, survive this rotation.               *)
SetCompiler ==
    /\ rotation = "committed"
    /\ compiler' = store
    /\ rotation' = IF watcher = "registered" THEN "trigger" ELSE "none"
    /\ overlapped' = overlapped
         \cup {key[w] : w \in {x \in Workers : pc[x] = "put"}}
         \cup (IF watcher = "registered" THEN {} ELSE Keys)
    /\ listOverlap' = (listOverlap \/ watcher # "registered" \/ \E w \in Workers : pc[w] = "publish")
    /\ UNCHANGED <<bundles, store, cache, pc, request, listed, key, version, floor, base>>

(* The trigger ensureCompilerWatcher registers, in its two steps. *)
DropPackages ==
    /\ rotation = "trigger"
    /\ packages' = None
    /\ rotation' = "drop"
    /\ UNCHANGED <<bundles, store, compiler, watcher, entries, flight, pc, request, listed,
                   key, version, hist>>

DropEntriesForgotten ==
    /\ rotation = "drop"
    /\ rotation' = "none"
    /\ UNCHANGED <<bundles, store, compiler, cache, pc, request, listed, key, version, hist>>

DropEntries ==
    /\ rotation = "drop"
    /\ entries' = [k \in Keys |-> None]
    /\ rotation' = "none"
    /\ UNCHANGED <<bundles, store, compiler, watcher, packages, flight, pc, request, listed,
                   key, version, hist>>

----------------------------------------------------------------------------
(* policyPath: which package a request is evaluated against.               *)

PolicyRoots(pkgs) == {p[1] : p \in pkgs}

defaultPolicyRoots(pkgs) == PolicyRoots(pkgs) \ {Doelbinding}

SelectPolicyRoot(roots) ==
    CASE roots = {} -> None
      [] roots # {} /\ PolicyRoot # None -> IF PolicyRoot \in roots THEN PolicyRoot ELSE None
      [] OTHER -> IF Cardinality(roots) = 1 THEN CHOOSE root \in roots : TRUE ELSE None

doelbindingPolicy(pkgs, selected) ==
    LET path == <<Doelbinding, selected>> IN IF path \in pkgs THEN path ELSE None

(* The package, or None for the errors of the Go function. *)
policyPath(pkgs, selected) ==
    IF selected # None THEN doelbindingPolicy(pkgs, selected)
    ELSE LET root == SelectPolicyRoot(defaultPolicyRoots(pkgs))
         IN  IF root = None THEN None ELSE <<root>>

----------------------------------------------------------------------------
(* Requests.                                                               *)

Go(w, phase) == pc' = [pc EXCEPT ![w] = phase]

(* Evaluation evaluates its one request; Evaluations first asks for the    *)
(* batch's own path, which only the decision record uses.                  *)
Evaluations(w) ==
    /\ pc[w] = "idle"
    /\ \E q \in Requests :
         request' = [request EXCEPT ![w] =
                       [context |-> q.context, subs |-> q.subs, naming |-> ~q.single]]
    /\ Go(w, "packages")
    /\ UNCHANGED <<opa, cache, listed, key, version, hist>>

Selected(w) ==
    IF request[w].naming \/ Head(request[w].subs).context = None
    THEN request[w].context ELSE Head(request[w].subs).context

(* evaluate up to decisionQuery, with the package list of version v: the   *)
(* path, then the identity, whose resolution in the directory may fail.  A *)
(* failing sub-request ends the batch; a failing batch path only leaves    *)
(* the record without one.                                                 *)
SelectPolicy(w, v) ==
    LET path == policyPath(Packages(v), Selected(w)) IN
    \/ /\ request[w].naming
       /\ request' = [request EXCEPT ![w].naming = FALSE]
       /\ Go(w, "packages")
       /\ UNCHANGED key
    \/ /\ ~request[w].naming /\ path # None
       /\ key' = [key EXCEPT ![w] = <<path, Head(request[w].subs).action>>]
       /\ Go(w, "lookup")
       /\ UNCHANGED request
    \/ /\ ~request[w].naming
       /\ request' = [request EXCEPT ![w] = NoRequest]
       /\ Go(w, "idle")
       /\ UNCHANGED key

(* The first caller registers the trigger; nobody waits until it has. *)
ensureCompilerWatcher(w) ==
    /\ pc[w] = "packages" /\ watcher = "none"
    /\ watcher' = "claimed"
    /\ Go(w, "register")
    /\ UNCHANGED <<opa, packages, entries, flight, request, listed, key, version, hist>>

RegisterCompilerTrigger(w) ==
    /\ pc[w] = "register"
    /\ watcher' = "registered"
    /\ Go(w, "packages")
    /\ UNCHANGED <<opa, packages, entries, flight, request, listed, key, version, hist>>

policyPackages(w) ==
    /\ pc[w] = "packages" /\ watcher # "none"
    /\ IF packages # None THEN SelectPolicy(w, packages)
                          ELSE Go(w, "list") /\ UNCHANGED <<request, key>>
    /\ UNCHANGED <<opa, cache, listed, version, hist>>

GetPolicyPackages(w) ==
    /\ pc[w] = "list" /\ rotation = "none"
    /\ listed' = [listed EXCEPT ![w] = store]
    /\ Go(w, "publish")
    /\ UNCHANGED <<opa, cache, request, key, version, hist>>

(* Reading or parsing the modules fails: a batch goes on without the path  *)
(* for its record, an evaluation ends.                                     *)
GetPolicyPackagesFails(w) ==
    /\ pc[w] = "list"
    /\ \/ /\ request[w].naming
          /\ request' = [request EXCEPT ![w].naming = FALSE]
          /\ Go(w, "packages")
       \/ /\ ~request[w].naming
          /\ request' = [request EXCEPT ![w] = NoRequest]
          /\ Go(w, "idle")
    /\ UNCHANGED <<opa, cache, listed, key, version, hist>>

StorePackages(w) ==
    /\ pc[w] = "publish"
    /\ packages' = listed[w]
    /\ SelectPolicy(w, listed[w])
    /\ listed' = [listed EXCEPT ![w] = 0]
    /\ UNCHANGED <<opa, watcher, entries, flight, version, hist>>

(* getOrPrepare: the cached query, or one prepared under singleflight. *)
LoadEntry(w) ==
    LET k == key[w] IN
    /\ pc[w] = "lookup"
    /\ base' = [base EXCEPT ![w] = floor[k]]
    /\ IF entries[k] # None THEN version' = [version EXCEPT ![w] = entries[k]] /\ Go(w, "eval")
                            ELSE version' = version /\ Go(w, "miss")
    /\ UNCHANGED <<opa, cache, request, listed, key, floor, overlapped, listOverlap>>

(* Under the flight the entry is looked up again. *)
Recheck(w) ==
    LET k == key[w] IN
    IF entries[k] # None THEN version' = [version EXCEPT ![w] = entries[k]] /\ Go(w, "deliver")
                         ELSE version' = version /\ Go(w, "validate")

EnterWithoutSingleflight(w) ==
    /\ pc[w] = "miss"
    /\ Recheck(w)
    /\ UNCHANGED <<opa, cache, request, listed, key, hist>>

EnterFlight(w) ==
    LET k == key[w] IN
    /\ pc[w] = "miss"
    /\ \/ flight[k] = None /\ flight' = [flight EXCEPT ![k] = w] /\ Recheck(w)
       \/ flight[k] # None /\ Go(w, "joined") /\ UNCHANGED <<flight, version>>
    /\ UNCHANGED <<opa, watcher, packages, entries, request, listed, key, hist>>

(* The flight of w is over: w and every worker that joined it go on. *)
Aboard(w) == {x \in Workers : x = w \/ (flight[key[w]] = w /\ pc[x] = "joined" /\ key[x] = key[w])}

Land(w, phase) ==
    /\ flight' = [flight EXCEPT ![key[w]] = IF @ = w THEN None ELSE @]
    /\ pc' = [x \in Workers |-> IF x \in Aboard(w) THEN phase ELSE pc[x]]

(* What a handler knew is gone when it returns. *)
Return(X) ==
    /\ request' = [x \in Workers |-> IF x \in X THEN NoRequest ELSE request[x]]
    /\ key' = [x \in Workers |-> IF x \in X THEN None ELSE key[x]]
    /\ base' = [x \in Workers |-> IF x \in X THEN 0 ELSE base[x]]

ValidateRule(w) ==
    /\ pc[w] = "validate"
    /\ key[w] \in Rules(compiler)
    /\ Go(w, "prepare")
    /\ UNCHANGED <<opa, cache, request, listed, key, version, hist>>

(* The compiler lacks the rule, or the query made of it is refused or      *)
(* cannot be prepared: all who wait for it get the error.                  *)
PreparationFailsKeepsFlight(w) ==
    /\ \/ pc[w] = "validate" /\ key[w] \notin Rules(compiler)
       \/ pc[w] = "prepare"
    /\ Go(w, "idle") /\ Return({w})
    /\ UNCHANGED <<opa, cache, listed, version, floor, overlapped, listOverlap>>

PreparationFails(w) ==
    /\ \/ pc[w] = "validate" /\ key[w] \notin Rules(compiler)
       \/ pc[w] = "prepare"
    /\ Land(w, "idle") /\ Return(Aboard(w))
    /\ UNCHANGED <<opa, watcher, packages, entries, listed, version, floor, overlapped, listOverlap>>

PrepareForEval(w) ==
    /\ pc[w] = "prepare"
    /\ version' = [version EXCEPT ![w] = compiler]
    /\ Go(w, "put")
    /\ UNCHANGED <<opa, cache, request, listed, key, hist>>

StoreEntry(w) ==
    /\ pc[w] = "put"
    /\ entries' = [entries EXCEPT ![key[w]] = version[w]]
    /\ Go(w, "deliver")
    /\ UNCHANGED <<opa, watcher, packages, flight, request, listed, key, version, hist>>

Deliver(w) ==
    /\ pc[w] = "deliver"
    /\ version' = [x \in Workers |-> IF x \in Aboard(w) THEN version[w] ELSE version[x]]
    /\ Land(w, "eval")
    /\ UNCHANGED <<opa, watcher, packages, entries, request, listed, key, hist>>

(* query.Eval opens a read transaction of its own; an undefined or badly   *)
(* typed result is an error, which ends the batch.                         *)
Eval(w) ==
    LET k == key[w] rest == Tail(request[w].subs) IN
    /\ pc[w] = "eval" /\ rotation = "none"
    /\ floor' = [floor EXCEPT ![k] = IF version[w] > @ THEN version[w] ELSE @]
    /\ \/ /\ k \in Rules(version[w]) /\ rest # <<>>
          /\ request' = [request EXCEPT ![w].subs = rest]
          /\ Go(w, "packages")
          /\ UNCHANGED <<key, base>>
       \/ Go(w, "idle") /\ Return({w})
    /\ version' = [version EXCEPT ![w] = 0]
    /\ UNCHANGED <<opa, cache, listed, overlapped, listOverlap>>

Rotate == Commit \/ SetCompiler \/ DropPackages \/ DropEntries

Work(w) ==
    \/ ensureCompilerWatcher(w) \/ RegisterCompilerTrigger(w)
    \/ policyPackages(w) \/ GetPolicyPackages(w) \/ GetPolicyPackagesFails(w) \/ StorePackages(w)
    \/ LoadEntry(w) \/ EnterFlight(w) \/ ValidateRule(w) \/ PreparationFails(w)
    \/ PrepareForEval(w) \/ StoreEntry(w) \/ Deliver(w) \/ Eval(w)

Next == Rotate \/ \E w \in Workers : Evaluations(w) \/ Work(w)

Spec == Init /\ [][Next]_vars

----------------------------------------------------------------------------
(* Properties.                                                             *)

(* A request that asks for its query after another evaluation of the same  *)
(* policy and action has finished is never answered by an older policy:    *)
(* decisions do not flip back.  Rests on singleflight serialising the      *)
(* preparations of a key in getOrPrepare.                                  *)
MonotoneReads == \A w \in Workers : pc[w] = "eval" => version[w] >= base[w]

(* Between rotations, a cached query or package list that is not the       *)
(* current policy's was put there by a preparation that had read the old   *)
(* one when the compiler was replaced, or before the trigger was           *)
(* registered; every other entry the trigger of ensureCompilerWatcher      *)
(* removed.                                                                *)
StaleOnlyIfOverlapped ==
    rotation = "none" =>
        /\ \A k \in Keys : entries[k] \in {None, compiler} \/ k \in overlapped
        /\ packages \in {None, store} \/ listOverlap

(* "when the OPA plugin manager rebuilds the compiler ..., we evict the    *)
(* entire cache": with no rotation and no request in progress, a query     *)
(* that is cached was prepared with the current compiler.                  *)
CacheFresh ==
    (rotation = "none" /\ \A w \in Workers : pc[w] = "idle") =>
        \A k \in Keys : entries[k] \in {None, compiler}

(* A handler waiting for a preparation another one leads waits for one in  *)
(* progress: every way out of the singleflight function, its errors        *)
(* included, ends the flight for all who joined.                           *)
NoOrphanWait ==
    \A w \in Workers : pc[w] = "joined" =>
        \E x \in Workers : /\ flight[key[w]] = x /\ key[x] = key[w]
                           /\ pc[x] \in {"validate", "prepare", "put", "deliver"}

=============================================================================
