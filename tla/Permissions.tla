----------------------------- MODULE Permissions -----------------------------
(***************************************************************************)
(* What a request may do: the permissions of the built-in classes, trees of *)
(* them, the pass before an operation and the pass when it has loaded an   *)
(* object, the scope of a controller's queries, and the visibility of      *)
(* fields, each in its synchronous and asynchronous form; and who a        *)
(* request is, however often and from wherever it is asked.                *)
(***************************************************************************)
EXTENDS Integers, Sequences, FiniteSets

CONSTANTS Users,   \* name -> [staff, super, active, perms, groups]
          None, Unset

Actions == {"view", "add", "change", "delete"}
\* security/permissions.py:283 and object_permissions.py:70
PermsMap == [GET |-> {"view"}, HEAD |-> {"view"}, QUERY |-> {"view"}, OPTIONS |-> {},
             POST |-> {"add"}, PUT |-> {"change"}, PATCH |-> {"change"}, DELETE |-> {"delete"}]
Safe == {"GET", "HEAD", "OPTIONS", "QUERY"}
Required(method) == IF method \in DOMAIN PermsMap THEN PermsMap[method] ELSE {}

(**************************** Who is asking *******************************)
\* A request has what authentication left in request.auth (nothing, a token that is no
\* user, or a user), the user of its session, which may still be a lazy object, and may
\* be looked at from an event loop.
IsUser(auth) == auth \in DOMAIN Users
RequestUser(q) == IF IsUser(q.auth) THEN q.auth
                  ELSE IF q.lazy /\ q.inLoop /\ ~q.loaded THEN None ELSE q.session
\* arequest_user() loads the session's user without blocking and remembers it.
ARequestUser(q) == IF IsUser(q.auth) THEN q.auth ELSE q.session
Prepared(q) == [q EXCEPT !.loaded = ~IsUser(q.auth) /\ q.session # None]

HasPerms(u, perms) == u # None /\ Users[u].active /\ (Users[u].super \/ perms \subseteq Users[u].perms)

(****************************** One permission *****************************)
\* The grants of an object are pairs <<holder, action>>, a holder is a user or a group.
Granted(u, obj) ==
  IF u = None THEN {}
  ELSE IF ~Users[u].active THEN {}
  ELSE {g[2] : g \in {p \in obj.grants : p[1] \in {u} \cup Users[u].groups}}
BackendHas(u, action, obj) ==
  \/ u # None /\ Users[u].active /\ Users[u].super
  \/ action \in Granted(u, obj)
ObjectHolds(ctl, u, action, obj) ==
  BackendHas(u, action, obj) \/ (ctl.modelPerms /\ HasPerms(u, {action}))
HoldsAll(ctl, u, method, obj) == \A a \in Required(method) : ObjectHolds(ctl, u, a, obj)

\* GrantsBackend.filter_queryset(), one EXISTS per permission that is needed to view.
BackendFilter(u, actions, obj) ==
  IF u = None THEN FALSE
  ELSE IF Users[u].active /\ Users[u].super THEN TRUE
  ELSE Users[u].active /\ \A a \in actions : \E g \in obj.grants :
         g[2] = a /\ g[1] \in {u} \cup Users[u].groups
FilterNoModelPerms(ctl, u, obj) ==  \* mutant: the model-wide permission is forgotten
  BackendFilter(u, Required("GET"), obj)
Filter(ctl, u, obj) == (ctl.modelPerms /\ HasPerms(u, Required("GET")))
                       \/ BackendFilter(u, Required("GET"), obj)

\* A predicate of an application, as django-rules calls it: no object, or its owner.
Rule(u, obj) == obj = None \/ (u # None /\ obj.owner = u)

HasPermission(leaf, q, u) ==
  CASE leaf = "AllowAny" -> TRUE
    [] leaf = "DenyAll" -> FALSE
    [] leaf = "IsAuthenticated" -> q.auth # None \/ u # None
    [] leaf = "IsAuthenticatedOrReadOnly" -> q.method \in Safe \/ q.auth # None \/ u # None
    [] leaf = "IsReadOnly" -> q.method \in Safe
    [] leaf = "IsStaff" -> u # None /\ Users[u].staff
    [] leaf = "IsSuperuser" -> u # None /\ Users[u].super
    [] leaf = "DjangoModelPermissions" -> q.method \in DOMAIN PermsMap /\ HasPerms(u, Required(q.method))
    [] leaf = "ObjectPermissions" -> u # None
    [] leaf = "HasRule" -> Rule(u, None)
    [] OTHER -> TRUE
ChecksObjects(leaf) == leaf \in {"IsOwner", "ObjectPermissions", "HasRule"}
\* ObjectPermissions raises Http404 for a caller who may not even view the object.
HasObjectPermission(ctl, leaf, q, u, obj) ==
  CASE leaf = "IsOwner" -> IF u # None /\ obj.owner = u THEN "yes" ELSE "no"
    [] leaf = "HasRule" -> IF Rule(u, obj) THEN "yes" ELSE "no"
    [] leaf = "ObjectPermissions" ->
         IF HoldsAll(ctl, u, q.method, obj) THEN "yes"
         ELSE IF ctl.hide /\ ~HoldsAll(ctl, u, "GET", obj) THEN "404" ELSE "no"
    [] OTHER -> "yes"
LeafRequestOnly(ctl, leaf, q, u, obj) ==  \* mutant: the object pass skips the request check
  IF obj = None THEN IF ~HasPermission(leaf, q, u) THEN "no"
                     ELSE IF ChecksObjects(leaf) THEN "later" ELSE "yes"
  ELSE HasObjectPermission(ctl, leaf, q, u, obj)
Leaf(ctl, leaf, q, u, obj) ==
  IF ~HasPermission(leaf, q, u) THEN "no"
  ELSE IF obj # None THEN HasObjectPermission(ctl, leaf, q, u, obj)
  ELSE IF ChecksObjects(leaf) THEN "later" ELSE "yes"

(***************************** Trees of them ******************************)
\* A tree is the sequence of its nodes, the operands of a node before it: the last is the root.
\* A node is [op, of, leaf], of the places of its operands.
AsNode(op, of) == [op |-> op, of |-> of, leaf |-> None]
AsLeaf(name) == <<[op |-> "leaf", of |-> <<>>, leaf |-> name]>>
Root(t) == Len(t)
First(places) == CHOOSE i \in places : \A j \in places : i <= j
Last(places) == CHOOSE i \in places : \A j \in places : j <= i

\* What a node decides, and who refused, from what its operands decide; own is what a leaf says.
Decided(allowed, by) == [allowed |-> allowed, by |-> by]
Negated(verdict) == CASE verdict.allowed = "yes" -> Decided("no", "Not")
                      [] verdict.allowed = "no" -> Decided("yes", None)
                      [] OTHER -> verdict
Decide(node, own, below) ==
  LET stops == {i \in DOMAIN node.of : \/ below[i].allowed = "404"
                                       \/ node.op = "all" /\ below[i].allowed = "no"
                                       \/ node.op = "any" /\ below[i].allowed = "yes"}
      refusers == {i \in DOMAIN node.of : below[i].by # None}
  IN IF node.op = "leaf" THEN Decided(own, IF own = "no" THEN node.leaf ELSE None)
     ELSE IF node.op = "not" THEN Negated(below[1])
     ELSE IF stops # {} THEN below[First(stops)]
     ELSE IF \E i \in DOMAIN node.of : below[i].allowed = "later" THEN Decided("later", None)
     ELSE IF node.op = "all" THEN Decided("yes", None)
     ELSE Decided("no", IF refusers = {} THEN "AnyOf" ELSE below[Last(refusers)].by)
Verdicts(t, says) ==
  LET verdict[n \in DOMAIN t] == Decide(t[n], says[n], [i \in DOMAIN t[n].of |-> verdict[t[n].of[i]]]) IN verdict
Evaluate(ctl, t, q, u, obj) == Verdicts(t, [n \in DOMAIN t |-> Leaf(ctl, t[n].leaf, q, u, obj)])[Root(t)]

Status(by) == IF by \in {"IsAuthenticated", "IsAuthenticatedOrReadOnly"} THEN 401 ELSE 403
\* check_permissions(), check_object_permissions(): the first that refuses; 0 if none does.
Check(ctl, list, q, u, obj) ==
  LET verdict == [i \in DOMAIN list |-> Evaluate(ctl, list[i], q, u, obj)]
      bad == {i \in DOMAIN list : verdict[i].allowed \in {"no", "404"}}
  IN IF bad = {} THEN 0
     ELSE IF verdict[First(bad)].allowed = "404" THEN 404 ELSE Status(verdict[First(bad)].by)

(****************************** An operation ******************************)
\* ModelController.merged_options() and Registration._permissions().
Merged(ctl) == (IF ctl.owned THEN <<AsLeaf("IsAuthenticated")>> ELSE <<>>) \o ctl.permissions
               \o (IF ctl.grants THEN <<AsLeaf("ObjectPermissions")>> ELSE <<>>)
               \o (IF ctl.owned THEN <<AsLeaf("IsOwner")>> ELSE <<>>)
Permissions(ctl, declared) == CASE declared.how = "inherit" -> Merged(ctl)
                                [] declared.how = "also" -> Merged(ctl) \o declared.list
                                [] OTHER -> declared.list
\* scoped_queryset(): tenant, object permissions, owner.
InScope(ctl, q, u, obj) ==
  /\ ctl.tenants => q.tenant # None /\ obj.tenant = q.tenant
  /\ ctl.grants /\ ctl.filterLists => Filter(ctl, u, obj)
  /\ ctl.owned /\ ctl.scopeToOwner => u # None /\ obj.owner = u
\* The answer to an operation that loads obj, or looks for it in vain (None); 0 is success.
Answer(ctl, declared, q, obj) ==
  LET u == IF q.inLoop THEN ARequestUser(q) ELSE RequestUser(q)
      scopeUser == RequestUser(IF q.inLoop THEN Prepared(q) ELSE q)
      list == Permissions(ctl, declared)
      before == Check(ctl, list, q, u, None)
  IN IF before # 0 THEN before
     ELSE IF ctl.tenants /\ q.tenant = None THEN 403
     ELSE IF obj = None THEN 404
     ELSE IF ~InScope(ctl, q, scopeUser, obj) THEN 404
     ELSE Check(ctl, list, q, u, obj)

\* GET /{pk}/transitions asks the permissions of the controller and of the transition about
\* the object, with the request it came with; POST /{pk}/<name> is an operation of its own.
Listed(ctl, own, q, obj) ==
  LET list == Merged(ctl) \o own
  IN \A i \in DOMAIN list : Evaluate(ctl, list[i], [q EXCEPT !.method = "GET"], ARequestUser(q), obj).allowed = "yes"

(*************************** Visibility of fields *************************)
\* VisibleTo: each leaf is its request check and its object check; without an object
\* a leaf that checks objects refuses.
Shows(node, own, below) ==
  CASE node.op = "all" -> \A i \in DOMAIN node.of : below[i]
    [] node.op = "any" -> \E i \in DOMAIN node.of : below[i]
    [] node.op = "not" -> ~below[1]
    [] OTHER -> own
LeafShows(ctl, leaf, q, u, source) == /\ HasPermission(leaf, q, u)
                                      /\ ChecksObjects(leaf) => source # None /\ Leaf(ctl, leaf, q, u, source) = "yes"
Truths(t, holds) == LET shown[n \in DOMAIN t] == Shows(t[n], holds[n], [i \in DOMAIN t[n].of |-> shown[t[n].of[i]]]) IN shown
Visible(ctl, t, q, u, source) == Truths(t, [n \in DOMAIN t |-> LeafShows(ctl, t[n].leaf, q, u, source)])[Root(t)]

(************************* Asked again and again **************************)
\* The user and the tenant of a request, from synchronous code, from code in the event loop, in
\* a thread, and awaited, and the RequestContext a container builds.
\* What the request remembers: the tenant that was found, whether its lazy user was loaded,
\* and how often the resolver ran (the n-th run answers the n-th of its tenants).
State == [tenant |-> Unset, loaded |-> FALSE, runs |-> 0]
Answered(state, answer) == [state |-> state, answer |-> answer]
InLoop(how) == how = "loop"

(********************************** User **********************************)
\* A synchronous look outside of the loop evaluates the lazy user in passing.
User(c, state, how) ==
  LET q == [c.q EXCEPT !.inLoop = InLoop(how), !.loaded = state.loaded]
      u == IF how = "await" THEN ARequestUser(q) ELSE RequestUser(q)
      looked == ~IsUser(q.auth) /\ ~InLoop(how)
  IN Answered([state EXCEPT !.loaded = @ \/ looked], u)
CurrentUser(c, state, how) ==
  LET asked == User(c, state, how) IN IF asked.answer = None THEN Answered(asked.state, "401") ELSE asked

(********************************* Tenant *********************************)
\* request_context(): the container's factory needs the user, then asks for its tenant.
RequestContext(c, state, how) ==
  LET user == CurrentUser(c, state, how)
  IN IF user.answer = "401" THEN user ELSE Answered(user.state, IF c.tenantOf = None THEN None ELSE c.tenantOf[user.answer])
Resolved(c, state) == Answered([state EXCEPT !.runs = @ + 1], c.resolver.tenants[state.runs + 1])
FromContext(c, how) == c.context /\ IF how = "await" THEN c.invocation # "none" ELSE c.invocation = "resolver"
\* An awaited question asks the container's asynchronous resolver, which awaits the user.
Source(c, state, how) ==
  IF c.resolver # None /\ c.resolver.async /\ how # "await" THEN Answered(state, "TypeError")
  ELSE IF c.resolver # None THEN Resolved(c, state)
  ELSE IF FromContext(c, how) /\ c.invocation = "bare" THEN Answered(state, None)
  ELSE IF FromContext(c, how)
       THEN RequestContext(c, state, IF how # "await" THEN how ELSE IF c.asyncContainer THEN "await" ELSE "loop")
  ELSE Answered(state, c.requestTenant)
Raises(answer) == answer \in {"401", "TypeError"}
RequiredTenant(tenant) == IF tenant = None THEN "403" ELSE tenant
RememberFound(state, tenant) == IF tenant = None THEN state ELSE [state EXCEPT !.tenant = tenant]  \* mutant: only a tenant is remembered
Remember(state, tenant) == [state EXCEPT !.tenant = tenant]
CurrentTenant(c, state, how) ==
  LET found == Source(c, state, how)
  IN IF state.tenant # Unset THEN Answered(state, RequiredTenant(state.tenant))
     ELSE IF Raises(found.answer) THEN found
     ELSE Answered(Remember(found.state, found.answer), RequiredTenant(found.answer))

(******************************** A request *******************************)
Ask(c, state, ask) == IF ask.what = "user" THEN User(c, state, ask.how) ELSE CurrentTenant(c, state, ask.how)
\* aprepare_request(): what an asynchronous operation loads before any synchronous code.
PreparedEarly(c, state) == state  \* mutant: the asynchronous operation loads nothing first
Prepare(c, state) == LET tenant == CurrentTenant(c, User(c, state, "await").state, "await") IN tenant.state
After(c, first, asks) ==
  LET after[n \in 0 .. Len(asks)] == IF n = 0 THEN first ELSE Ask(c, after[n - 1], asks[n]).state IN after
Answers(c, first, asks) == [n \in DOMAIN asks |-> Ask(c, After(c, first, asks)[n - 1], asks[n]).answer]
SyncAnswers(c) == Answers(c, State, [n \in DOMAIN c.asks |-> [c.asks[n] EXCEPT !.how = "sync"]])
AsyncAnswers(c) == Answers(c, Prepare(c, State), c.asks)

(******************************* Properties *******************************)
\* A case is an operation, a request and an object.
Nodes == [op : {"leaf", "all", "any", "not"}, of : Seq(Nat), leaf : STRING \cup {None}]
IsTree(t) ==
  /\ t \in Seq(Nodes) /\ t # <<>>
  /\ \A n \in DOMAIN t :
       /\ \A i \in DOMAIN t[n].of : t[n].of[i] \in 1 .. n - 1
       /\ t[n].op = "leaf" => t[n].leaf # None
       /\ t[n].op = "not" => Len(t[n].of) = 1
AreTrees(list) == list \in Seq(Seq(Nodes)) /\ \A i \in DOMAIN list : IsTree(list[i])
Accounts == [staff : BOOLEAN, super : BOOLEAN, active : BOOLEAN, perms : SUBSET STRING, groups : SUBSET STRING]
Requests == [method : STRING, auth : STRING \cup {None}, session : DOMAIN Users \cup {None}, lazy : BOOLEAN,
             inLoop : BOOLEAN, loaded : BOOLEAN, tenant : STRING \cup {None}]
Controllers == [owned : BOOLEAN, grants : BOOLEAN, permissions : Seq(Seq(Nodes)), modelPerms : BOOLEAN, hide : BOOLEAN,
                filterLists : BOOLEAN, tenants : BOOLEAN, scopeToOwner : BOOLEAN]
Objects == [owner : STRING, tenant : STRING, grants : SUBSET (STRING \X STRING)]
IsCase(c) ==
  /\ c.q \in Requests
  /\ c.ctl \in Controllers /\ AreTrees(c.ctl.permissions)
  /\ c.declared \in [how : {"inherit", "also", "replace"}, list : Seq(Seq(Nodes))] /\ AreTrees(c.declared.list)
  /\ c.obj \in Objects
Mentions(t, leaf) == \E n \in DOMAIN t : t[n].leaf = leaf
Negates(t) == \E n \in DOMAIN t : t[n].op = "not"
Combined(list) == \E i \in DOMAIN list : list[i][Root(list[i])].op # "leaf" /\ Mentions(list[i], "ObjectPermissions")
Sync(c) == Answer(c.ctl, c.declared, [c.q EXCEPT !.inLoop = FALSE], c.obj)

\* The two passes of a request, before the operation and once it has its object, together
\* decide what the tree says when every leaf is its request check and its object check
\* (_permission_eval_async.py:28-35): nothing is let through by one pass and lost by the
\* other, and sync and async operations answer alike, lazy users included.  Only an
\* ObjectPermissions below another operator may answer 404 where the tree holds.
PermissionsDecide(c) ==
  LET u == ARequestUser(c.q)
      list == Permissions(c.ctl, c.declared)
      holds == \A i \in DOMAIN list : Visible(c.ctl, list[i], c.q, u, c.obj)
      inScope == (c.ctl.tenants => c.q.tenant # None) /\ InScope(c.ctl, Prepared(c.q), u, c.obj)
  IN /\ Sync(c) = Answer(c.ctl, c.declared, [c.q EXCEPT !.inLoop = TRUE], c.obj)
     /\ Sync(c) = 0 => inScope /\ holds
     /\ inScope /\ holds /\ ~Combined(list) => Sync(c) = 0
     /\ Sync(c) = 401 => c.q.auth = None /\ u = None

\* GET /{pk}/transitions names exactly the transitions whose POST is let through
\* (transitions.py:128), as long as no permission looks at the method of the request.
MethodLeaves == {"IsReadOnly", "IsAuthenticatedOrReadOnly", "DjangoModelPermissions", "ObjectPermissions"}
ListedTransitionsRun(c) ==
  LET list == Merged(c.ctl) \o c.declared.list
      q == [c.q EXCEPT !.method = "POST"]
  IN (\A i \in DOMAIN list, leaf \in MethodLeaves : ~Mentions(list[i], leaf)) /\
     (c.ctl.tenants => q.tenant # None) /\ InScope(c.ctl, Prepared(q), ARequestUser(q), c.obj) =>
       (Listed(c.ctl, c.declared.list, c.q, c.obj) <=> Answer(c.ctl, [c.declared EXCEPT !.how = "also"], q, c.obj) = 0)

\* What a list leaves out is what GET refuses, and with hide_forbidden a caller who may
\* not view an object gets the answer of one that does not exist, whatever the method
\* (object_permissions.py:315-320, docs/guide/object-permissions.md:37).
HiddenLooksMissing(c) ==
  LET u == ARequestUser(c.q) IN
  c.ctl.grants =>
    /\ Filter(c.ctl, u, c.obj) = (u # None /\ HoldsAll(c.ctl, u, "GET", c.obj))
    /\ c.ctl.hide /\ c.ctl.filterLists /\ ~HoldsAll(c.ctl, u, "GET", c.obj) =>
         Sync(c) = Answer(c.ctl, c.declared, [c.q EXCEPT !.inLoop = FALSE], None)

\* A field whose rule needs an object is hidden without one, and a rule that shows a
\* field without the object shows it with every object; this is not so below a negation
\* (visibility.py:77-93).
VisibilityFailsClosed(c) ==
  \A i \in DOMAIN c.declared.list :
    ~Negates(c.declared.list[i]) /\ Visible(c.ctl, c.declared.list[i], c.q, RequestUser(c.q), None) =>
      Visible(c.ctl, c.declared.list[i], c.q, RequestUser(c.q), c.obj)

\* What is asked: what, and how.  No user and no tenant is called as an error is.
Codes == {"401", "403", "TypeError", Unset}
Tenants == (STRING \cup {None}) \ Codes
IsAsked(c) ==
  /\ c.q \in Requests
  /\ c.resolver = None \/ c.resolver \in [async : BOOLEAN, tenants : Seq(Tenants) \ {<<>>}]
  /\ c.invocation \in {"none", "bare", "resolver"} /\ c.context \in BOOLEAN /\ c.asyncContainer \in BOOLEAN
  /\ c.tenantOf = None \/ c.tenantOf \in [DOMAIN Users -> Tenants]
  /\ c.requestTenant \in Tenants
  /\ c.asks \in Seq([what : {"user", "tenant"}, how : {"await", "loop", "thread"}])
\* A request has one user and one tenant: however often they are asked for, from whichever
\* kind of code, every answer is the first one; an asynchronous operation that has prepared
\* itself is told what a synchronous one is told; the resolver is asked once.  Left out are a
\* resolver that only asynchronous operations can have, and a context without a container,
\* which synchronous operations replace by request.tenant (tenancy.py:69-119, auth.py:48-92).
OneIdentity(c) ==
  LET asynchronous == c.resolver # None /\ c.resolver.async
      alone == c.context /\ c.resolver = None /\ c.invocation \in {"none", "bare"}
      sure == \A n \in DOMAIN c.asks : ~Raises(AsyncAnswers(c)[n])
  IN /\ sure =>
          \A n, m \in DOMAIN c.asks : c.asks[n].what = c.asks[m].what => AsyncAnswers(c)[n] = AsyncAnswers(c)[m]
     /\ ~asynchronous =>
          \A n, m \in DOMAIN c.asks : c.asks[n].what = c.asks[m].what => SyncAnswers(c)[n] = SyncAnswers(c)[m]
     /\ (~asynchronous /\ ~alone) => SyncAnswers(c) = AsyncAnswers(c)
     /\ \A n \in DOMAIN c.asks : (c.asks[n].what = "tenant" /\ c.resolver # None) =>
          AsyncAnswers(c)[n] = RequiredTenant(c.resolver.tenants[1])
=============================================================================
