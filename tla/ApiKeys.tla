------------------------------ MODULE ApiKeys ------------------------------
(***************************************************************************)
(* contrib/apikeys: one key from its creation, the managers that revoke or *)
(* rotate it from an instance they loaded earlier, and requests that       *)
(* authenticate with one of its secrets.  A secret stands for the prefix   *)
(* that finds the row and the secret whose digest the row holds.           *)
(***************************************************************************)
EXTENDS Integers, FiniteSets
CONSTANTS Requests, Managers, Grantable, Required, MaxTime, None
VARIABLES row, active, now, held, plan, used, found, pc, replaced, since
vars == <<row, active, now, held, plan, used, found, pc, replaced, since>>
\* held[m], found[r]: the instances m and r loaded.  replaced: secrets that a later one
\* took the place of.  since[r]: what was revoked and replaced when r began.

\* A scope is a resource and an action; "*" covers every action, or everything.
All == <<"*", "*">>
ScopeSets == {{<<"orders", "read">>}, {<<"orders", "*">>}, {All}}
Secrets == 0 .. Cardinality(Managers)
Plans == [act : {"revoke"}, scopes : {None}, expires : {None}]
         \cup [act : {"rotate"}, scopes : {None} \cup ScopeSets, expires : {None, MaxTime}]

Init ==
  /\ row = None /\ active = TRUE /\ now = 0 /\ replaced = {}
  /\ held = [m \in Managers |-> None] /\ plan = [m \in Managers |-> None]
  /\ used \in [Requests -> Secrets]
  /\ found = [r \in Requests |-> None] /\ since = [r \in Requests |-> None]
  /\ pc = [r \in Requests |-> "start"]

(* create_key(): a scope outside grantable_scopes is refused before anything is stored. *)
Create ==
  /\ row = None
  /\ \E s \in ScopeSets, e \in {MaxTime, MaxTime + 1} :
       /\ Grantable = None \/ s \subseteq Grantable
       /\ row' = [secret |-> 0, revoked |-> FALSE, scopes |-> s, expires |-> e, used |-> None]
  /\ UNCHANGED <<active, now, held, plan, used, found, pc, replaced, since>>

(* save(update_fields=...) of an instance loaded earlier. *)
SavedAll(instance, columns) == instance
Saved(instance, columns) == [c \in DOMAIN row |-> IF c \in columns THEN instance[c] ELSE row[c]]

(* A manager loads the key, then calls revoke_api_key() or rotate_api_key() on it. *)
Load(m) ==
  /\ held[m] = None /\ row # None
  /\ held' = [held EXCEPT ![m] = row]
  /\ \E p \in Plans : plan' = [plan EXCEPT ![m] = p]
  /\ UNCHANGED <<row, active, now, used, found, pc, replaced, since>>

Finish(m) == plan' = [plan EXCEPT ![m] = None]
Revoke(m) ==
  /\ plan[m] # None /\ plan[m].act = "revoke"
  /\ row' = Saved([held[m] EXCEPT !.revoked = TRUE], {"revoked"})
  /\ Finish(m)
  /\ UNCHANGED <<active, now, held, used, found, pc, replaced, since>>

Unused == Secrets \ (replaced \cup {row.secret})
Rotate(m) ==
  LET p == plan[m]
      given == {c \in {"scopes", "expires"} : p[c] # None}
  IN
  /\ p # None /\ p.act = "rotate" /\ ~held[m].revoked
  /\ \E s \in Unused :
       row' = Saved([held[m] EXCEPT !.secret = s, !.scopes = IF "scopes" \in given THEN p.scopes ELSE @,
                                    !.expires = IF "expires" \in given THEN p.expires ELSE @],
                    {"secret"} \cup given)
  /\ replaced' = replaced \cup {row.secret}
  /\ Finish(m)
  /\ UNCHANGED <<active, now, held, used, found, pc, since>>
RotateRefused(m) ==
  /\ plan[m] # None /\ plan[m].act = "rotate" /\ held[m].revoked
  /\ Finish(m)
  /\ UNCHANGED <<row, active, now, held, used, found, pc, replaced, since>>

(* _authenticate(): the row with the prefix is read once, with its user. *)
Begin(r) ==
  /\ pc[r] = "start"
  /\ since' = [since EXCEPT ![r] = [revoked |-> row # None /\ row.revoked, replaced |-> replaced]]
  /\ pc' = [pc EXCEPT ![r] = "find"]
  /\ UNCHANGED <<row, active, now, held, plan, used, found, replaced>>
Find(r) ==
  /\ pc[r] = "find"
  /\ found' = [found EXCEPT ![r] = IF row # None /\ row.secret = used[r] THEN [row |-> row, active |-> active] ELSE None]
  /\ pc' = [pc EXCEPT ![r] = "check"]
  /\ UNCHANGED <<row, active, now, held, plan, used, replaced, since>>

ValidAnyway(f) == f # None /\ f.row.expires > now /\ f.active
Valid(f) == f # None /\ ~f.row.revoked /\ f.row.expires > now /\ f.active
Refuse(r) ==
  /\ pc[r] = "check" /\ ~Valid(found[r])
  /\ pc' = [pc EXCEPT ![r] = "refused"]
  /\ UNCHANGED <<row, active, now, held, plan, used, found, replaced, since>>
Accept(r) ==
  /\ pc[r] = "check" /\ Valid(found[r])
  /\ pc' = [pc EXCEPT ![r] = IF found[r].row.used = None \/ now > found[r].row.used THEN "touch" ELSE "scope"]
  /\ UNCHANGED <<row, active, now, held, plan, used, found, replaced, since>>
(* An UPDATE of one column, whatever happened to the row since it was read. *)
TouchedAll(r) == [found[r].row EXCEPT !.used = now]
Touched(r) == [row EXCEPT !.used = now]
Touch(r) ==
  /\ pc[r] = "touch"
  /\ row' = Touched(r)
  /\ pc' = [pc EXCEPT ![r] = "scope"]
  /\ UNCHANGED <<active, now, held, plan, used, found, replaced, since>>

(* HasScopes on what authentication read: scope_allows() for every RequiresScope. *)
ScopeAllows(granted, scope) == granted \cap {scope, All, <<scope[1], "*">>} # {}
HasScopes(r) ==
  /\ pc[r] = "scope"
  /\ pc' = [pc EXCEPT ![r] = IF \A s \in Required : ScopeAllows(found[r].row.scopes, s) THEN "allowed" ELSE "denied"]
  /\ UNCHANGED <<row, active, now, held, plan, used, found, replaced, since>>

Deactivate ==
  /\ active /\ active' = FALSE
  /\ UNCHANGED <<row, now, held, plan, used, found, pc, replaced, since>>
Tick ==
  /\ now < MaxTime /\ now' = now + 1
  /\ UNCHANGED <<row, active, held, plan, used, found, pc, replaced, since>>

Next ==
  \/ Create \/ Deactivate \/ Tick
  \/ \E m \in Managers : Load(m) \/ Revoke(m) \/ Rotate(m) \/ RotateRefused(m)
  \/ \E r \in Requests : Begin(r) \/ Find(r) \/ Refuse(r) \/ Accept(r) \/ Touch(r) \/ HasScopes(r)
Spec == Init /\ [][Next]_vars

\* auth.py:103 "The old secret stops working immediately": a request that begins after a
\* revocation, or after a rotation away from its secret, is refused, whatever ran meanwhile.
RefusedOnceReplaced ==
  \A r \in Requests : pc[r] \in {"touch", "scope", "allowed", "denied"} => ~since[r].revoked /\ used[r] \notin since[r].replaced
\* auth.py:106 "A revoked key stays revoked": rotations and uses that read the key before
\* write only their own columns, so they bring back neither it nor a secret or a scope.
NothingComesBack ==
  [][row # None => /\ row.revoked => row'.revoked
                   /\ row'.secret \notin replaced
                   /\ row'.scopes = row.scopes \/ \E m \in Managers : plan[m] # None /\ plan[m].scopes = row'.scopes /\ plan'[m] = None]_vars
=============================================================================
