------------------------------- MODULE Sharing -------------------------------
(***************************************************************************)
(* Object grants: the backend that holds them, the rows of the grants app, *)
(* what a user object remembers of them, and the operations by which       *)
(* clients share an object (crud/sharing.py).                              *)
(***************************************************************************)
EXTENDS Integers, Sequences, FiniteSets

CONSTANTS Users,   \* name -> [active, super, groups]
          Groups, None

\* An object is [model, pk]; a row is one permission of one holder on one object.
Models == {"doc", "note"}
Permission(action, model) == [model |-> model, action |-> action]
Row(perm, obj, holder) == [perm |-> perm, obj |-> obj, holder |-> holder]

(******************************* The backend ******************************)
\* The setting wins, then the grants app, then django-guardian; Django's own only checks.
GetBackend(w) == IF w.configured # None THEN w.configured
                 ELSE IF w.grantsApp THEN "grants"
                 ELSE IF w.guardian THEN "guardian"
                 ELSE "django"
Stores(w) == GetBackend(w) \in {"grants", "guardian"}
IsSuper(u) == u \in DOMAIN Users /\ Users[u].active /\ Users[u].super
Holders(u) == {u} \cup Users[u].groups
ObjectPermissionsOf(w, u, obj) ==
  IF u \notin DOMAIN Users THEN {}
  ELSE IF ~Users[u].active THEN {}
  ELSE {r.perm : r \in {x \in w.rows : x.obj = obj /\ x.holder \in Holders(u)}}

\* A user object [name, cache] remembers the permissions of every object it was asked about.
Ask(w, user, obj) ==
  IF obj \in DOMAIN user.cache THEN user
  ELSE [user EXCEPT !.cache = [o \in DOMAIN user.cache \cup {obj} |->
                                 IF o = obj THEN ObjectPermissionsOf(w, user.name, obj) ELSE user.cache[o]]]
HasPerm(w, user, perm, obj) ==
  \/ IsSuper(user.name)
  \/ (GetBackend(w) # "django" \/ w.authBackend) /\ perm \in Ask(w, user, obj).cache[obj]
FilterQueryset(w, u, perms, objs) ==
  IF IsSuper(u) THEN objs
  ELSE IF u \notin DOMAIN Users THEN {}
  ELSE {o \in objs : Users[u].active /\ \A p \in perms : \E r \in w.rows : r.perm = p /\ r.obj = o /\ r.holder \in Holders(u)}
GetPerms(w, user, obj, perms) == {p \in perms : HasPerm(w, user, p, obj)}

(*********************** Granting and taking back *************************)
ForgetNothing(user, holder) == user  \* mutant: a change leaves what the user object remembers
Forget(user, holder) == IF user.name = holder THEN [user EXCEPT !.cache = [o \in {} |-> {}]] ELSE user
\* One permission after the other, in one transaction.
Assign(w, perms, holder, obj) == [w EXCEPT !.rows = @ \cup {Row(perm, obj, holder) : perm \in perms}]
RemoveByPk(w, perms, holder, obj) ==  \* mutant: the rows are looked up by primary key alone
  [w EXCEPT !.rows = {r \in @ : \A perm \in perms : ~(r.perm.action = perm.action /\ r.obj.pk = obj.pk /\ r.holder = holder)}]
Remove(w, perms, holder, obj) == [w EXCEPT !.rows = @ \ {Row(perm, obj, holder) : perm \in perms}]
Collect(w, obj) ==
  LET rows == {r \in w.rows : r.obj = obj}
  IN {[holder |-> h, permissions |-> {r.perm : r \in {x \in rows : x.holder = h}}] : h \in {r.holder : r \in rows}}

(****************************** The operations ****************************)
\* payload: the identifiers that were sent, and permissions by action or by full name.
OneHolder(p) == (p.user = None) # (p.group = None)
HolderOf(p) == IF p.user # None THEN (IF p.user \in DOMAIN Users THEN p.user ELSE None)
               ELSE IF p.group \in Groups THEN p.group ELSE None
AllShareable(ctl, model) == {Permission(a, model) : a \in ctl.shareable}
FullPermission(name, model) == IF name.model = None THEN Permission(name.action, model) ELSE name
SharingObject(ctl, w, caller, obj) ==
  IF caller.name \notin DOMAIN Users THEN 401
  ELSE IF obj \notin ctl.scope THEN 404
  ELSE IF ~HasPerm(w, caller, Permission(ctl.sharing, obj.model), obj) THEN 403
  ELSE 0
Refused(status, w) == [status |-> status, world |-> w, answer |-> {}]
Shared(w, obj) == [status |-> 200, world |-> w, answer |-> Collect(w, obj)]

SetPermissions(ctl, w, caller, obj, p) ==
  LET refused == SharingObject(ctl, w, caller, obj)
      wanted == {FullPermission(n, obj.model) : n \in p.permissions}
      holder == HolderOf(p)
      all == AllShareable(ctl, obj.model)
      granted == Assign(w, wanted, holder, obj)
  IN IF ~OneHolder(p) THEN Refused(422, w)
     ELSE IF refused # 0 THEN Refused(refused, w)
     ELSE IF ~(wanted \subseteq all) THEN Refused(422, w)
     ELSE IF holder = None THEN Refused(422, w)
     ELSE IF ~ctl.mayHold[holder] THEN Refused(422, w)
     ELSE Shared(Remove(granted, all \ wanted, holder, obj), obj)
RevokePermissions(ctl, w, caller, obj, p) ==
  LET refused == SharingObject(ctl, w, caller, obj)
      holder == HolderOf(p)
  IN IF ~OneHolder(p) THEN Refused(422, w)
     ELSE IF refused # 0 THEN Refused(refused, w)
     ELSE IF holder = None THEN Refused(422, w)
     ELSE Shared(Remove(w, AllShareable(ctl, obj.model), holder, obj), obj)
ListPermissions(ctl, w, caller, obj) ==
  LET refused == SharingObject(ctl, w, caller, obj)
  IN IF refused # 0 THEN Refused(refused, w) ELSE Shared(w, obj)

(******************************* Properties *******************************)
Fresh(name) == [name |-> name, cache |-> [o \in {} |-> {}]]
\* The holders of rows exist, and a request comes with a user object of its own.
IsCase(k) ==
  /\ DOMAIN k.world = {"configured", "grantsApp", "guardian", "authBackend", "rows"}
  /\ \A r \in k.world.rows : r = Row(r.perm, r.obj, r.holder) /\ r.holder \in DOMAIN Users \cup Groups
  /\ k.caller = Fresh(k.caller.name)
Held(w, obj, holder) == {r.perm : r \in {x \in w.rows : x.obj = obj /\ x.holder = holder}}
\* A shared object has exactly the grants that were asked for: of the shareable permissions
\* the holder keeps those of the payload, the others stay as they were, no other holder and no
\* other object (one of another model with the same key included) changes, and a refusal at
\* any point changes nothing (sharing.py:97-132).
SharedAsAsked(k) ==
  LET all == AllShareable(k.ctl, k.obj.model)
      AsAsked(r, wanted) ==
        IF r.status # 200 THEN r.world = k.world
        ELSE LET h == HolderOf(k.payload)
             IN /\ Held(r.world, k.obj, h) = wanted \cup (Held(k.world, k.obj, h) \ all)
                /\ {x \in r.world.rows : x.obj # k.obj \/ x.holder # h} = {x \in k.world.rows : x.obj # k.obj \/ x.holder # h}
                /\ r.answer = {g \in [holder : DOMAIN Users \cup Groups, permissions : {Held(r.world, k.obj, z) : z \in DOMAIN Users \cup Groups}] :
                                 g.permissions = Held(r.world, k.obj, g.holder) /\ g.permissions # {}}
  IN /\ Stores(k.world) =>
          /\ AsAsked(SetPermissions(k.ctl, k.world, k.caller, k.obj, k.payload), {FullPermission(n, k.obj.model) : n \in k.payload.permissions})
          /\ AsAsked(RevokePermissions(k.ctl, k.world, k.caller, k.obj, k.payload), {})
     /\ LET l == ListPermissions(k.ctl, k.world, k.caller, k.obj)
        IN (l.status = 200 /\ ~IsSuper(k.caller.name)) =>
             Permission(k.ctl.sharing, k.obj.model) \in UNION {g.permissions : g \in {x \in l.answer : x.holder \in Holders(k.caller.name)}}
\* What a list shows and what a check of one object allows agree for every user, group member,
\* superuser and inactive user, and a user object that was asked before a grant to that user
\* sees the grant when asked again (object_permissions.py:214-218, backends.py:92-125).
GrantsAgree(k) ==
  LET perms == {Permission(a, k.obj.model) : a \in {"view", "change"}}
      after == Assign(k.world, {Permission("view", k.obj.model)}, k.caller.name, k.obj)
  IN Stores(k.world) =>
       /\ \A u \in DOMAIN Users, need \in SUBSET perms : LET objs == k.ctl.scope
          IN (need # {} /\ Users[u].active) => FilterQueryset(k.world, u, need, objs) = {o \in objs : \A p \in need : HasPerm(k.world, Fresh(u), p, o)}
       /\ (k.caller.name \in DOMAIN Users /\ Users[k.caller.name].active)
            => Permission("view", k.obj.model) \in GetPerms(after, Forget(Ask(k.world, k.caller, k.obj), k.caller.name), k.obj, perms)
=============================================================================
