------------------------------- MODULE Wiring ------------------------------
(* The dependency graph of an operation: what the check made when a router
   is built accepts, and what the engine then builds inside and outside a
   request. A wiring `w` is
     providers   the registered keys: [factory, lifetime, kind]
     params      the parameters of each factory: sequences of
                 [key, hasDefault, annotated], `annotated` saying whether
                 the annotation names the key: "bare" | "none" (key | None)
                 | "union" (several classes, a key of no class) | "missing"
     concrete    the classes that can be built without being registered
     asynchronous  whether the operation is *)
EXTENDS Naturals, Sequences, SequencesExt, FiniteSets
CONSTANTS None, HttpRequest

Lifetime == {"singleton", "scoped", "transient"}
AsyncKinds == {"coroutine", "asyncGenerator"}
Provider(w, key) == w.providers[key]
Registered(w) == DOMAIN w.providers

(* Container.plan: a parameter without annotation is skipped when it has a default and refuses the
   factory when it has none. *)
Uninspectable(w, factory) == \E i \in DOMAIN w.params[factory] : w.params[factory][i].annotated = "missing" /\ ~w.params[factory][i].hasDefault
Plan(w, factory) == SelectSeq(w.params[factory], LAMBDA p : p.annotated # "missing")
(* without_none: with a default, `Service | None` asks for Service; without one the union itself is
   asked for, a key nothing provides. *)
KeyOf(p) == IF p.annotated = "bare" \/ (p.annotated = "none" /\ p.hasDefault) THEN p.key ELSE None
Autowires(w, key) == key \in w.concrete \ {HttpRequest}
IsKnown(w, key, instances) == key \in Registered(w) \cup instances

(* override: for the length of a test the key is a singleton that is already built. *)
Overridden(w, key) ==
  [w EXCEPT !.providers = [k \in Registered(w) \cup {key} |->
     IF k = key THEN [factory |-> "value", lifetime |-> "singleton", kind |-> "value"] ELSE w.providers[k]]]

(***************************** DependencyChecker ***************************)
Seen(seen) == [error |-> None, seen |-> seen]
Refused(why) == [error |-> why, seen |-> {}]
Effective(owner, lifetime) == IF "singleton" \in {owner, lifetime} THEN "singleton" ELSE lifetime
MarkerOfKey(key, owner) == <<key, FALSE>>
Marker(key, owner) == <<key, owner = "singleton">>

RECURSIVE CheckKey(_, _, _, _, _), CheckAll(_, _, _, _, _)
CheckKey(w, key, stack, owner, seen) ==
  LET p == IF key \in Registered(w) THEN Provider(w, key) ELSE [factory |-> key, lifetime |-> "transient", kind |-> "plain"]
  IN IF key \in ToSet(stack) THEN Refused("circular")
     ELSE IF key = HttpRequest THEN IF owner = "singleton" THEN Refused("captive") ELSE Seen(seen)
     ELSE IF key \notin Registered(w) /\ ~Autowires(w, key) THEN Refused("unknown")
     ELSE IF p.lifetime = "scoped" /\ owner = "singleton" THEN Refused("captive")
     ELSE IF ~w.asynchronous /\ p.kind \in AsyncKinds THEN Refused("async")
     ELSE IF Marker(key, owner) \in seen THEN Seen(seen)
     ELSE IF p.kind = "value" THEN Seen(seen)
     ELSE IF Uninspectable(w, p.factory) THEN Refused("uninspectable")
     ELSE CheckAll(w, Plan(w, p.factory), Append(stack, key), Effective(owner, p.lifetime), seen \cup {Marker(key, owner)})
CheckAll(w, plan, stack, owner, seen) ==
  IF plan = <<>> THEN Seen(seen)
  ELSE LET p == Head(plan)
           one == IF p.hasDefault /\ ~IsKnown(w, KeyOf(p), {}) THEN Seen(seen) ELSE CheckKey(w, KeyOf(p), stack, owner, seen)
       IN IF one.error # None THEN one ELSE CheckAll(w, Tail(plan), stack, owner, one.seen)
Check(w, key) == CheckKey(w, key, <<>>, "transient", {}).error

(***************************** ResolutionEngine ****************************)
(* A value remembers the key it was built for and whether it holds on to the request: the request
   itself, or something built for one scope. `built` logs every factory call that is kept. *)
Value(key, captured) == [key |-> key, captured |-> captured]
Fails(st, why) == [st EXCEPT !.error = why]
Gives(st, value) == [st EXCEPT !.value = value]
NoScope(st) == [st EXCEPT !.scope = [k \in {} |-> None]]
Kept(where, key, value) == [k \in DOMAIN where \cup {key} |-> IF k = key THEN value ELSE where[k]]
(* Singletons never see the scope: their factory's own dependencies resolve outside it. *)
BuildsWhereAsked(inScope) == inScope
BuildsIn(inScope) == FALSE

RECURSIVE ResolveKey(_, _, _, _, _), Build(_, _, _, _, _, _), Arguments(_, _, _, _, _, _)
ResolveKey(w, key, stack, inScope, st) ==
  IF key \in ToSet(stack) THEN Fails(st, "circular")
  ELSE IF inScope /\ key \in DOMAIN st.scope THEN Gives(st, st.scope[key])
  ELSE IF key \notin Registered(w)
       THEN IF Autowires(w, key) THEN Build(w, key, [factory |-> key, kind |-> "plain"], Append(stack, key), inScope, st)
            ELSE Fails(st, "unknown")
  ELSE LET p == Provider(w, key)
       IN CASE p.lifetime = "transient" -> Build(w, key, p, Append(stack, key), inScope, st)
            [] p.lifetime = "scoped" ->
                 IF ~inScope THEN Fails(st, "noScope")
                 ELSE LET b == Build(w, key, p, Append(stack, key), TRUE, st)
                          v == Value(key, TRUE)
                      IN IF b.error # None THEN b
                         ELSE [b EXCEPT !.scope = Kept(b.scope, key, v), !.value = v, !.built = Append(b.built, key)]
            [] p.lifetime = "singleton" ->
                 IF key \in DOMAIN st.root THEN Gives(st, st.root[key])
                 ELSE LET b == Build(w, key, p, Append(stack, key), BuildsIn(inScope), st)
                      IN IF b.error # None THEN b
                         ELSE [b EXCEPT !.root = Kept(b.root, key, b.value), !.built = Append(b.built, key)]
Build(w, key, p, stack, inScope, st) ==
  IF p.kind = "value" THEN Gives(st, Value(key, FALSE))
  ELSE IF ~w.asynchronous /\ p.kind \in AsyncKinds THEN Fails(st, "async")
  ELSE IF Uninspectable(w, p.factory) THEN Fails(st, "uninspectable")
  ELSE LET a == Arguments(w, Plan(w, p.factory), stack, inScope, st, FALSE)
       IN IF a.error # None THEN a ELSE Gives(a, Value(key, a.value.captured))
Arguments(w, plan, stack, inScope, st, captured) ==
  IF plan = <<>> THEN Gives(st, Value(None, captured))
  ELSE LET p == Head(plan)
       IN IF p.hasDefault /\ ~IsKnown(w, KeyOf(p), IF inScope THEN DOMAIN st.scope ELSE {})
          THEN Arguments(w, Tail(plan), stack, inScope, st, captured)
          ELSE LET one == ResolveKey(w, KeyOf(p), stack, inScope, st)
               IN IF one.error # None THEN one ELSE Arguments(w, Tail(plan), stack, inScope, one, captured \/ one.value.captured)

Started == [error |-> None, value |-> None, scope |-> [k \in {} |-> None], root |-> [k \in {} |-> None], built |-> <<>>]
(* request_scope: the scope of a request holds the request. *)
Opened(st) == [st EXCEPT !.scope = [k \in {HttpRequest} |-> Value(HttpRequest, TRUE)], !.built = <<>>]
Resolve(w, key, st) == IF st.error # None THEN st ELSE ResolveKey(w, key, <<>>, TRUE, st)
(* The controller, then each injected parameter, in the scope of one request. *)
Serve(w, keys, st) == FoldLeft(LAMBDA s, k : Resolve(w, k, s), Opened(st), keys)

(********************************* Properties ******************************)
(* The check of a key answers exactly what a resolution in a request of a fresh container would. *)
CheckIsExact(w, keys) == \A k \in ToSet(keys) : (Check(w, k) = None) <=> (Serve(w, <<k>>, Started).error = None)
(* Checked keys are served together, in one request after another, and with one of them overridden. *)
Served(w, keys) ==
  LET first == Serve(w, keys, Started) second == Serve(w, keys, first)
  IN /\ first.error = None /\ second.error = None
     /\ \A k \in ToSet(keys) \cup Registered(w) : Serve(Overridden(w, k), keys, first).error = None
(* A scope builds each of its keys once, and no singleton holds on to a request. *)
NothingCaptive(w, keys) ==
  LET first == Serve(w, keys, Started) second == Serve(w, keys, first)
  IN /\ \A k \in DOMAIN second.root : ~second.root[k].captured
     /\ IsInjective(first.built) /\ IsInjective(second.built)
     /\ ToSet(first.built) \cap ToSet(second.built) \cap DOMAIN second.root = {}
CheckedGraphResolves(w, keys) ==
  /\ CheckIsExact(w, keys)
  /\ (\A k \in ToSet(keys) : Check(w, k) = None) => Served(w, keys)
  /\ NothingCaptive(w, keys)
=============================================================================
