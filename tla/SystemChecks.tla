----------------------------- MODULE SystemChecks -----------------------------
(***************************************************************************)
(* What is looked at before a request comes: by as_router() when a         *)
(* controller is mounted, and by `manage.py check`                         *)
(* (configuration/checks.py, ModelController.checks).  A project `p` has   *)
(*   controllers  name -> [model, schema, related, service]                *)
(*   routers      router -> [mount, children], mount being None or         *)
(*                [controller, container, plugins]                         *)
(*   listed       CHECK_APIS: [is, routers], is being "api", "missing" or  *)
(*                "other"                                                  *)
(*   live         the mounts of all routers, in the order they were built  *)
(* A model is name -> kind; "query" is the query name of a reverse         *)
(* relation whose accessor is called otherwise ("accessor").               *)
(***************************************************************************)
EXTENDS Naturals, Sequences, FiniteSets
LOCAL INSTANCE SequencesExt
CONSTANT None

(******************************* The model ********************************)
Kind(model, name) == IF name \in DOMAIN model THEN model[name] ELSE None
\* _meta.get_field() finds it; the class, and so an instance, has the attribute.
IsFound(model, name) == Kind(model, name) \in {"column", "forward", "m2m", "reverse", "reverseM2m", "query"}
HasAttribute(model, name) == Kind(model, name) \in {"column", "forward", "m2m", "reverse", "reverseM2m", "accessor", "property"}
ModelField(model, name) == Kind(model, name) \in {"column", "forward", "m2m"}

(**************************** manage.py check *****************************)
\* A schema field: [name, alias, dotted, resolved, hidden, required, limit, hints].
Named(f) == f.name  \* mutant: the alias is not looked at
Attribute(f) == IF f.alias = None THEN f.name ELSE f.alias
FieldIsFound(c, f) == f.resolved \/ f.dotted \/ IsFound(c.model, Attribute(f))  \* mutant: reverse query names pass
FieldIsRead(c, f) == f.resolved \/ f.dotted \/ ModelField(c.model, Attribute(f)) \/ HasAttribute(c.model, Attribute(f))
Hints(c) == c.related \cup UNION {f.hints : f \in c.schema}
\* expand_limit_target: a reverse relation, of whichever kind.
LimitTarget(c, attribute) == Kind(c.model, attribute) \in {"reverse", "reverseM2m", "query"}
\* The constructor's parameters: [default, variadic].
Required(service) == {x \in service : ~x.default /\ ~x.variadic}
Checks(c, container) ==
  {<<"W003", f.name>> : f \in {g \in c.schema : ~FieldIsRead(c, g)}}
  \cup {<<"W005", f.name>> : f \in {g \in c.schema : g.hidden /\ g.required}}
  \cup {<<"W006", h>> : h \in {g \in Hints(c) : ~ModelField(c.model, g)}}
  \cup {<<"W007", f.name>> : f \in {g \in c.schema : g.limit # None /\ ~LimitTarget(c, Attribute(g))}}
  \cup {<<"E004", "service_class">> : x \in IF c.service # None /\ ~container THEN Required(c.service) ELSE {}}

TopControllers(routers, pending) ==  \* mutant: the routers of routers are not looked at
  LET mounted == SelectSeq(pending, LAMBDA r : routers[r].mount # None) IN [i \in DOMAIN mounted |-> routers[mounted[i]].mount]
RECURSIVE ApiControllers(_, _)
ApiControllers(routers, pending) ==   \* the last router first, and below it
  IF pending = <<>> THEN <<>> ELSE
  LET r == routers[Last(pending)]
  IN (IF r.mount = None THEN <<>> ELSE <<r.mount>>) \o ApiControllers(routers, Front(pending) \o r.children)
ImportErrors(p) == {i \in DOMAIN p.listed : p.listed[i].is # "api"}
Built(p) == IF p.listed = <<>> THEN p.live
            ELSE FlattenSeq([i \in DOMAIN p.listed |-> IF i \in ImportErrors(p) THEN <<>> ELSE ApiControllers(p.routers, p.listed[i].routers)])
\* check_controllers: a controller is asked once, for the first of its mounts, and so are its plugins.
Asked(p) == LET built == Built(p)
            IN {built[i] : i \in {j \in DOMAIN built : \A n \in 1..(j - 1) : built[n].controller # built[j].controller}}
Messages(p) ==
  {<<"E001", i>> : i \in ImportErrors(p)}
  \cup UNION {{<<m.controller, found>> : found \in Checks(p.controllers[m.controller], m.container)} : m \in Asked(p)}
  \cup UNION {{<<m.controller, <<"plugin", x>>>> : x \in m.plugins} : m \in Asked(p)}

(*************************** What requests meet ***************************)
\* _apply_hints: a forward relation is joined, another field is prefetched by its attribute, and a
\* name that is no field is left out.
Loads(c, hint) == \/ Kind(c.model, hint) = "forward"
                  \/ IsFound(c.model, hint) /\ HasAttribute(c.model, hint) /\ Kind(c.model, hint) # "column"
\* get_service: the container's, or one made without arguments.
ServiceIsMade(c, container) == c.service = None \/ container \/ \A x \in c.service : x.default \/ x.variadic

(******************************** as_router *******************************)
\* A controller `k`: mro, the classes closest first, [library, attributes], the attributes named like an
\* option: [name, is]; operations, none disabled: [name, path, async, throttles]; routes, the names it overrides; and
\* the merged options throttles, middleware and allowMixedPath.  None stands for an option not given.
Ahead(k) == {i \in DOMAIN k.mro : \A n \in 1..i : ~k.mro[n].library}
OptionAttributes(k) == {a \in UNION {k.mro[i].attributes : i \in Ahead(k)} : a.is = "value"}
IsRefused(k) == \/ OptionAttributes(k) # {} \/ k.operations = {}
                \/ k.routes \ {op.name : op \in k.operations} # {}
Mixes(k, path) == {op.async : op \in {o \in k.operations : o.path = path}} = BOOLEAN
WarnsOf(k) == IF k.allowMixedPath THEN {} ELSE {path \in {op.path : op \in k.operations} : Mixes(k, path)}
\* _install_middleware: the headers come with any rate throttle, unless they are there.
ThrottlesOfController(k) == IF k.throttles = None THEN {} ELSE k.throttles  \* mutant: operations are not asked
Throttles(k) == (IF k.throttles = None THEN {} ELSE k.throttles) \cup UNION {op.throttles : op \in {o \in k.operations : o.throttles # None}}
Installed(k) == k.middleware \o IF "rate" \in Throttles(k) /\ "headers" \notin Range(k.middleware) THEN <<"headers">> ELSE <<>>
\* Ninja, external: one asynchronous operation makes the view of its path asynchronous.
InThread(k, op) == ~op.async /\ \E o \in k.operations : o.path = op.path /\ o.async

(******************************* Properties *******************************)
\* Every router below a listed API, or every live one, has its controller asked exactly once, and a
\* listed path that is no API is reported (checks.py:1-8); a controller of which nothing is said can, as
\* it was mounted where it was asked, build its service, read every field of its schema, leave out those
\* that can be hidden, load what its hints name and apply its limits.  A hint that names a column
\* and an alias with a dot pass unchecked.
PassedWorks(p) ==
  LET step(found) == found \cup UNION {Range(p.routers[r].children) : r \in found}
      under == step(step(UNION {Range(p.listed[i].routers) : i \in DOMAIN p.listed}))
      mounts == IF p.listed = <<>> THEN Range(p.live) ELSE {p.routers[r].mount : r \in under} \ {None}
  IN /\ \A m \in mounts : Cardinality({a \in Asked(p) : a.controller = m.controller}) = 1
     /\ Asked(p) \subseteq mounts
     /\ \A i \in DOMAIN p.listed : p.listed[i].is = "api" \/ <<"E001", i>> \in Messages(p)
     /\ \A m \in Asked(p) : LET c == p.controllers[m.controller] IN
          (\A found \in Messages(p) : found[1] = m.controller => found[2][1] = "plugin") =>
            /\ ServiceIsMade(c, m.container)
            /\ \A f \in c.schema : LET attribute == IF f.alias = None THEN f.name ELSE f.alias IN
                 /\ f.resolved \/ f.dotted \/ HasAttribute(c.model, attribute)
                 /\ f.hidden => ~f.required
                 /\ f.limit # None => Kind(c.model, attribute) \in {"reverse", "reverseM2m", "query"}
            /\ \A h \in Hints(c) : Kind(c.model, h) # "column" => Loads(c, h)
\* What is mounted keeps its options: none is a plain attribute of a class in front of Controller, where
\* it would be ignored (controller.py:425-441); no synchronous operation runs in a thread without a
\* warning; an operation whose throttles count has the headers, once, and the declared middleware stays.
MountedAsDeclared(k) ==
  ~IsRefused(k) =>
    /\ \A i \in DOMAIN k.mro : (\A n \in 1..i : ~k.mro[n].library) => \A a \in k.mro[i].attributes : a.is # "value"
    /\ \A op \in k.operations : InThread(k, op) => k.allowMixedPath \/ op.path \in WarnsOf(k)
    /\ \A op \in k.operations : "rate" \in (IF op.throttles # None THEN op.throttles ELSE IF k.throttles # None THEN k.throttles ELSE {}) =>
         Cardinality({i \in DOMAIN Installed(k) : Installed(k)[i] = "headers"}) = 1
    /\ IsPrefix(k.middleware, Installed(k))
=============================================================================
