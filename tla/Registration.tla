----------------------------- MODULE Registration ----------------------------
(* What as_router() accepts, and what the accepted operation then does when
   it is called. An operation `o` is a record:
     variants      kind of its method and of its async variant, None without
                   one: "sync" "generator" "async" "asyncGenerator"
     mode, asyncMode  of the controller ("sync" "async" "auto"), of the settings
     layers, own   the options of the controller, the farthest layer first
                   (settings, classes, as_router()), and of the operation:
                   atomic hooks permissions also policies auth throttle document
     container     "none" "resolver" "scopes" "asyncOnly"; singleton, needsArgs
     before, after, replay  how the controller overrides the method: "base" "sync" "async"
     bindings      injected parameters: "inject", "asyncResolve"
     raises, rules the exceptions it names, and the status of those with a rule
     methods, response, model, parameters  for its documented statuses *)
EXTENDS Naturals, Sequences, FiniteSets
CONSTANT None

(******************************** Options *********************************)
Merged(layers, key) ==
  LET has == {i \in DOMAIN layers : key \in DOMAIN layers[i]}
      nearest == CHOOSE i \in has : \A j \in has : j <= i
  IN IF has = {} THEN None ELSE layers[nearest][key]
Given(o, key, missing) == LET g == Merged(o.layers, key) IN IF g = None THEN missing ELSE g
Own(o, key, missing) == IF key \in DOMAIN o.own THEN o.own[key] ELSE missing
Option(o, key, missing) == Own(o, key, Given(o, key, missing))
Hooks(o) == Given(o, "hooks", {}) \cup Own(o, "hooks", {})
Permissions(o) == IF "also" \in DOMAIN o.own THEN Given(o, "permissions", {}) \cup o.own.also ELSE Option(o, "permissions", {})
Policies(o) == Given(o, "policies", 0) + Own(o, "policies", 0)
Atomic(o) == Option(o, "atomic", FALSE)

ResolvedMode(o) == IF o.mode = "auto" THEN o.asyncMode ELSE o.mode
Implementation(o) == IF o.variants[2] # None /\ ResolvedMode(o) = "async" THEN o.variants[2] ELSE o.variants[1]
IsAsync(o) == Implementation(o) \in {"async", "asyncGenerator"}
IsGenerator(o) == Implementation(o) \in {"generator", "asyncGenerator"}

(****************************** Registration ******************************)
(* A permission is the set of its leaves, each a pair: is the check a coroutine, does it look at
   the object. Combinators look at every leaf. *)
RequiresAsync(permission) == \E leaf \in permission : leaf.async
ObjectDependent(permission) == \E leaf \in permission : leaf.object
Resolves(o) == o.container \in {"resolver", "scopes"}
SupportsSync(o) == o.singleton \/ o.container = "none" \/ Resolves(o)

ProvidesInstances(o) == (o.container = "none" => ~o.needsArgs) /\ (o.singleton => o.container = "none" \/ Resolves(o))
SyncRules(o) ==
  ~IsAsync(o) => /\ SupportsSync(o)
                 /\ \A p \in Permissions(o) : ~RequiresAsync(p)
                 /\ o.before # "async" /\ o.after # "async"
                 /\ \A h \in Hooks(o) : h # "asyncOnly"
AtomicRulesLoose(o) == Atomic(o) => ~IsAsync(o)
AtomicRules(o) == Atomic(o) => ~IsAsync(o) /\ ~IsGenerator(o)
BindingRules(o) == ("inject" \in o.bindings => o.container # "none") /\ ("asyncResolve" \in o.bindings => IsAsync(o))
RaisesRules(o) == o.raises \subseteq DOMAIN o.rules
IdempotencyRules(o) ==
  /\ Policies(o) <= 1
  /\ Policies(o) = 1 =>
       /\ ~IsGenerator(o)
       /\ (\E p \in Permissions(o) : ObjectDependent(p)) => o.replay # "base"
       /\ ~IsAsync(o) => o.replay # "async"
Registers(o) == ProvidesInstances(o) /\ SyncRules(o) /\ AtomicRules(o) /\ BindingRules(o) /\ RaisesRules(o) /\ IdempotencyRules(o)

(******************************* Invocation *******************************)
(* What each view does with the plan made for it. A coroutine is only awaited on the event loop. *)
ViewKeeps == [sync |-> {"transaction", "key", "after"}, generator |-> {}, async |-> {"key", "after"}, asyncGenerator |-> {}]
Awaits(o) == IsAsync(o)
Promised(o) == (IF Atomic(o) THEN {"transaction"} ELSE {}) \cup (IF Policies(o) > 0 THEN {"key"} ELSE {})
               \cup (IF o.after # "base" THEN {"after"} ELSE {})
Coroutines(o) ==
  {x \in {"before", "after", "replay"} : o[x] = "async" /\ (x = "replay" => Policies(o) > 0)}
  \cup (IF \E p \in Permissions(o) : RequiresAsync(p) THEN {"permission"} ELSE {})
  \cup (IF "asyncOnly" \in Hooks(o) THEN {"hook"} ELSE {}) \cup (IF "asyncResolve" \in o.bindings THEN {"value"} ELSE {})
(* InstanceProvider: a scope when the container opens them, else its resolver, else the class. *)
HasInstance(o) == IF o.container = "none" THEN ~o.needsArgs ELSE Resolves(o) \/ (~o.singleton /\ Awaits(o))
(* The promises of its options a call would silently leave out, or could not keep. *)
LeftOut(o) ==
  (Promised(o) \ ViewKeeps[Implementation(o)])
  \cup (IF Awaits(o) THEN {} ELSE Coroutines(o))
  \cup (IF HasInstance(o) THEN {} ELSE {"instance"})
  \cup (IF "inject" \in o.bindings /\ o.container = "none" THEN {"inject"} ELSE {})
  \cup {e \in o.raises : e \notin DOMAIN o.rules}
  \cup (IF Policies(o) > 1 THEN {"key"} ELSE {})
  \cup (IF Policies(o) > 0 /\ o.replay = "base" /\ \E p \in Permissions(o) : ObjectDependent(p) THEN {"replay"} ELSE {})

(******************************** Statuses ********************************)
BodyMethods == {"POST", "PUT", "PATCH", "QUERY"}
ConditionalWrites == {"update", "partial_update", "destroy"}
(* documented_errors of a model controller and of its bindings. *)
OfModel(o) ==
  IF o.model = None THEN {}
  ELSE (IF o.model.lookup \/ o.model.parent THEN {404} ELSE {})
       \cup (IF o.model.tenant THEN {403} ELSE {})
       \cup (IF o.model.etag # "none" /\ o.model.name \in ConditionalWrites
             THEN IF o.model.etag = "required" THEN {412, 428} ELSE {412} ELSE {})
HasParameters(o) == o.parameters \/ (o.model # None /\ (o.model.lookup \/ o.model.parent))
Codes(o) ==
  OfModel(o)
  \cup (IF Option(o, "auth", "none") # "none" THEN {401} ELSE {})
  \cup (IF Permissions(o) # {} THEN {403} ELSE {})
  \cup (IF HasParameters(o) \/ o.bindings # {} THEN {422} \cup (IF o.methods \cap BodyMethods # {} THEN {400} ELSE {}) ELSE {})
  \cup (IF Option(o, "throttle", "none") # "none" THEN {429} ELSE {})
  \cup {o.rules[e] : e \in o.raises \cap DOMAIN o.rules}
Documented(o) == IF Option(o, "document", TRUE) THEN o.response \cup Codes(o) ELSE o.response

(* What a request can be answered with: a guard of the router, of the permissions, of the bindings
   or of the model controller, or an exception the operation raises. *)
Answers(o) ==
  o.response
  \cup {s \in {400, 401, 403, 404, 412, 422, 428, 429} :
     \/ s = 401 /\ Option(o, "auth", "none") # "none"
     \/ s = 403 /\ (Permissions(o) # {} \/ (o.model # None /\ o.model.tenant))
     \/ s = 404 /\ o.model # None /\ (o.model.lookup \/ o.model.parent)
     \/ s = 422 /\ HasParameters(o)
     \/ s = 400 /\ HasParameters(o) /\ o.methods \cap BodyMethods # {}
     \/ s = 412 /\ o.model # None /\ o.model.etag # "none" /\ o.model.name \in ConditionalWrites
     \/ s = 428 /\ o.model # None /\ o.model.etag = "required" /\ o.model.name \in ConditionalWrites
     \/ s = 429 /\ Option(o, "throttle", "none") # "none"}
  \cup {o.rules[e] : e \in o.raises}

(********************************* Cases **********************************)
Kinds == {"sync", "generator", "async", "asyncGenerator"}
IsCase(o) ==
  /\ o.variants[1] \in Kinds /\ (o.variants[2] # None => o.variants[2] \in Kinds)
  /\ o.container \in {"none", "resolver", "scopes", "asyncOnly"} /\ o.singleton \in BOOLEAN /\ o.needsArgs \in BOOLEAN
  /\ {o.before, o.after, o.replay} \subseteq {"base", "sync", "async"} /\ o.bindings \subseteq {"inject", "asyncResolve"}
  /\ Atomic(o) \in BOOLEAN /\ Policies(o) \in Nat
  /\ \A p \in Permissions(o) : \A leaf \in p : leaf.async \in BOOLEAN /\ leaf.object \in BOOLEAN
  /\ o.raises \cap {"transaction", "key", "after", "before", "replay", "permission", "hook", "value", "instance", "inject"} = {}

(******************************* Properties *******************************)
(* as_router() accepts an operation exactly when a call of it does all its options promise: the
   validation (compiler.py:338-384) agrees with the four kinds of view (invocation.py). The one
   thing accepted and left out is after_operation() of a streaming operation. *)
RegisteredRuns(o) ==
  Registers(o) <=> LeftOut(o) \subseteq (IF IsGenerator(o) /\ (o.after = "sync" \/ IsAsync(o)) THEN {"after"} ELSE {})
(* A registered operation answers nothing its OpenAPI document leaves out. *)
AnswersAreDocumented(o) == Registers(o) /\ Option(o, "document", TRUE) => Answers(o) \subseteq Documented(o)
=============================================================================
