------------------------------ MODULE Resources ------------------------------
(***************************************************************************)
(* A model controller as it is declared - owner, tenant, parent, accepted  *)
(* fields, soft deletion - what is refused when its router is built, and   *)
(* what the operations of the others do to a row for a request.            *)
(***************************************************************************)
EXTENDS Integers, Sequences, FiniteSets

CONSTANT None

(******************************** The model *******************************)
\* Rows have a project (the parent), an author, an org, stamps, a title and the mark of
\* deleted rows.  A path is a sequence of names; the last name may be a foreign key's.
Columns == {"pk", "title", "author", "org", "project", "mark", "updated_by"}
Fixed == {"pk", "updated_by"}   \* the primary key, and what editable=False leaves out
Related == {"org", "lead"}
ModelField(name) == IF name = "project_id" THEN "project" ELSE IF name \in Columns THEN name ELSE None
ResolveField(path) == IF Len(path) = 1 THEN path[1] \in Columns ELSE path[1] = "project" /\ path[2] \in Related
Value(w, row, path) == IF Len(path) = 1 THEN row[path[1]] ELSE w.projects[row[path[1]]][path[2]]
Direct(path) == path # None /\ Len(path) = 1

(****************************** Declarations ******************************)
\* AutoSchemas: names minus what is left out, of the database's making or read only.
ModelSchemas(auto) ==
  LET groups == auto.exclude \cup auto.readOnly \cup auto.writeOnly
      chosen == Columns \ auto.exclude
  IN IF ~(groups \subseteq Columns) THEN None
     ELSE [output |-> chosen \ auto.writeOnly, input |-> (chosen \ Fixed) \ auto.readOnly]
Inputs(d) == IF d.auto = None THEN d.inputs ELSE ModelSchemas(d.auto).input

ParentValid(d) == d.parent = None \/ (ResolveField(<<d.parent.field>>) /\ d.parent.field = "project")
ContextFields(d) == {p[1] : p \in {x \in {d.owner, d.tenant} : Direct(x)}} \cup (IF d.parent = None THEN {} ELSE {d.parent.field})
CheckInputByName(d, hooked) ==  \* mutant: the column behind project_id is not looked up
  d.service \/ hooked \/ (\A n \in Inputs(d) : ModelField(n) # None /\ n \notin ContextFields(d))
CheckInputSchema(d, hooked) ==
  d.service \/ hooked \/ (\A n \in Inputs(d) : ModelField(n) # None /\ ModelField(n) \notin ContextFields(d))
OwnerIsSet(d) == d.owner = None \/ Direct(d.owner) \/ d.hookCreate
ThroughParent(d) == d.parent # None /\ d.parent.tenantField /\ d.tenant[1] = d.parent.field
TenantIsSet(d) == d.tenant = None \/ Direct(d.tenant) \/ ThroughParent(d) \/ d.hookCreate

\* SoftDelete.resolved(): the two values of the mark, or None where it must be told them.
SoftResolved(soft) ==
  LET deleted == IF soft.deleted # "infer" THEN soft.deleted ELSE IF soft.kind = "boolean" THEN "true" ELSE "now"
      active == IF soft.active # "infer" THEN soft.active
                ELSE IF soft.kind = "boolean" THEN (IF deleted = "false" THEN "true" ELSE "false")
                ELSE "null"
  IN IF soft.kind = "other" /\ "infer" \in {soft.deleted, soft.active} THEN None
     ELSE [deleted |-> deleted, active |-> active]

\* Every customize_operation(), operation_bindings() and check of a controller's operations.
Registered(d) ==
  /\ \A path \in {d.owner, d.tenant} : path # None => ResolveField(path)
  /\ ParentValid(d)
  /\ d.auto # None => ModelSchemas(d.auto) # None
  /\ "create" \in d.operations => CheckInputSchema(d, d.hookCreate) /\ OwnerIsSet(d) /\ TenantIsSet(d)
  /\ "update" \in d.operations => CheckInputSchema(d, d.hookUpdate)
  /\ d.soft # None => SoftResolved(d.soft) # None

(********************************* Lookups ********************************)
\* A segment is [name, conv, var]; {pk} stands for the controller's lookup segment.
HasLookup(d, path) == \E i \in DOMAIN path : path[i].var /\ (path[i].name = d.lookupParam \/ (path[i].name = "pk" /\ path[i].conv = ""))
LookupSegment(d) == [name |-> d.lookupParam, conv |-> IF d.converter THEN d.lookupType ELSE "", var |-> TRUE]
KeepPk(d, path) == path  \* mutant: {pk} stays where the segment has another name
WithPathConverter(d, path) ==
  [i \in DOMAIN path |-> IF path[i].var /\ path[i].conv = "" /\ path[i].name \in {"pk", d.lookupParam} THEN LookupSegment(d) ELSE path[i]]
InstanceParameter(d) == d.lookupParam

(*************************** What a request sees **************************)
Marked(d, row) == d.soft # None /\ row.mark # SoftResolved(d.soft).active
\* scoped_queryset() of ModelController; SoftDeleteMixin's leaves out the marked rows.
QuerysetWithDeleted(w, d, q, row) ==
  /\ row # None
  /\ d.tenant # None => Value(w, row, d.tenant) = q.tenant
  /\ d.parent # None => row[d.parent.field] = q.parent
  /\ (d.owner # None /\ d.scopeToOwner) => Value(w, row, d.owner) = q.user
ScopedQueryset(w, d, q, row) == QuerysetWithDeleted(w, d, q, row) /\ ~Marked(d, row)
IsOwner(w, d, q, row) == d.owner = None \/ Value(w, row, d.owner) = q.user
\* Permissions, then the parent of the URL, then the tenant.
Guard(w, d, q) ==
  IF d.owner # None /\ q.user = None THEN 401
  ELSE IF d.parent # None /\ d.parent.tenantField /\ q.tenant = None THEN 403
  ELSE IF d.parent # None /\ (q.parent \notin DOMAIN w.projects \/ (d.parent.tenantField /\ w.projects[q.parent].org # q.tenant)) THEN 404
  ELSE IF d.tenant # None /\ q.tenant = None THEN 403
  ELSE None
GetObjectFrom(w, d, q, row, inQueryset) ==
  IF Guard(w, d, q) # None THEN Guard(w, d, q)
  ELSE IF ~inQueryset THEN 404
  ELSE IF ~IsOwner(w, d, q, row) THEN 403
  ELSE None

(****************************** Operations ********************************)
\* Every operation answers [status, row]: the row that the database has afterwards.
Answer(status, row) == [status |-> status, row |-> row]
Context(d, q) ==
  [n \in ContextFields(d) \cup {"updated_by"} |->
     IF d.parent # None /\ n = d.parent.field THEN q.parent
     ELSE IF Direct(d.owner) /\ n = d.owner[1] THEN q.user
     ELSE IF Direct(d.tenant) /\ n = d.tenant[1] THEN q.tenant
     ELSE q.user]
Save(row, data) == [n \in DOMAIN row |-> LET sent == {m \in DOMAIN data : ModelField(m) = n}
                                         IN IF sent = {} THEN row[n] ELSE data[CHOOSE m \in sent : TRUE]]
RefreshTrusting(w, d, q, before, after, status) == Answer(status, after)  \* mutant: nothing is verified without refresh_after_write
Refresh(w, d, q, before, after, status) ==   \* inside write_scope(): a refusal undoes the write
  IF ~ScopedQueryset(w, d, q, after) THEN Answer(404, before)
  ELSE IF ~IsOwner(w, d, q, after) THEN Answer(403, before)
  ELSE Answer(status, after)
New(d, q) == [title |-> "", author |-> None, org |-> None, project |-> "p1", updated_by |-> None,
              mark |-> IF d.soft = None THEN "null" ELSE SoftResolved(d.soft).active]
Create(w, d, q, payload) ==
  IF Guard(w, d, q) # None THEN Answer(Guard(w, d, q), None)
  ELSE Refresh(w, d, q, None, Save(Save(New(d, q), payload), Context(d, q)), 201)
Retrieve(w, d, q, row) ==
  LET refused == GetObjectFrom(w, d, q, row, ScopedQueryset(w, d, q, row)) IN Answer(IF refused = None THEN 200 ELSE refused, row)
ListOf(w, d, q, rows) == IF Guard(w, d, q) # None THEN {} ELSE {r \in rows : ScopedQueryset(w, d, q, r)}
Update(w, d, q, row, payload) ==
  LET refused == GetObjectFrom(w, d, q, row, ScopedQueryset(w, d, q, row))
  IN IF refused # None THEN Answer(refused, row)
     ELSE Refresh(w, d, q, row, Save(Save(row, payload), [updated_by |-> q.user]), 200)
Destroy(w, d, q, row) ==
  LET refused == GetObjectFrom(w, d, q, row, ScopedQueryset(w, d, q, row))
  IN IF refused # None THEN Answer(refused, row)
     ELSE Answer(204, IF d.soft = None THEN None ELSE [row EXCEPT !.mark = SoftResolved(d.soft).deleted])
RestoredAnyones(w, d, q, row) ==   \* mutant: restore() looks among the rows of everyone
  GetObjectFrom(w, d, q, row, row # None)
Restored(w, d, q, row) == GetObjectFrom(w, d, q, row, QuerysetWithDeleted(w, d, q, row))
Restore(w, d, q, row) ==   \* no transaction of its own: what refresh() refuses stays written
  LET after == [row EXCEPT !.mark = SoftResolved(d.soft).active]
  IN IF Restored(w, d, q, row) # None THEN Answer(Restored(w, d, q, row), row)
     ELSE Answer(Refresh(w, d, q, row, after, 200).status, after)

(************************* Fields and their rules *************************)
\* A rule is None or [who, hidden]: staff (a check of the request), the owner of the object
\* (a check of the object), or either; hidden is "null" or "omit".
Allows(rule, q, source) ==
  \/ rule.who \in {"staff", "either"} /\ q.staff
  \/ rule.who \in {"owner", "either"} /\ source # None /\ source.owner = q.user
MayShow(rule, q, source) == rule = None \/ (q # None /\ Allows(rule, q, source))
\* WriteVisibleTo: nothing is known of the object when the payload arrives.
WriteMarkers(input) == {f \in input : f.rule # None}
ForbiddenWrites(input, sent, q) == {f.name : f \in {g \in WriteMarkers(input) : g.name \in sent /\ ~MayShow(g.rule, q, None)}}
\* The names each operation looks at: the fields that were set, or all that PUT writes.
SentOnly(op, input, given) == given  \* mutant: PUT looks at what was sent, and writes the rest too
Sent(op, input, given) == IF op = "update" THEN {f.name : f \in input} ELSE given
Written(op, input, given) == IF op = "update" THEN {f.name : f \in input} ELSE given
Write(c, op) == IF ForbiddenWrites(c.input, Sent(op, c.input, c.given), c.q) # {} THEN {} ELSE Written(op, c.input, c.given)

(******************************* Properties *******************************)
\* An owner that is found is a user and a tenant an organisation; rows have the columns of the
\* model but their key, no schema writes the key, and a payload names the parent once.
Ends(path, at) == path = None \/ (path \in Seq(STRING) \ {<<>>} /\ (ResolveField(path) => path \in at))
Values == STRING \cup {"", "p1", "null", "now", "true", "false"} \cup {None}
Rows == [Columns \ {"pk"} -> Values]
IsCase(c) ==
  LET d == c.declared IN
  /\ Ends(d.owner, {<<"author">>, <<"project", "lead">>}) /\ Ends(d.tenant, {<<"org">>, <<"project", "org">>})
  /\ d.parent = None \/ d.parent \in [field : STRING, tenantField : BOOLEAN]
  /\ d.soft = None \/ d.soft \in [kind : STRING, deleted : STRING, active : STRING]
  /\ d.inputs \subseteq STRING \ {"pk"} /\ (d.auto # None => d.auto \in [exclude : SUBSET STRING, readOnly : SUBSET STRING, writeOnly : SUBSET STRING])
  /\ c.row \in Rows /\ c.request \in [user : Values, tenant : Values, parent : STRING]
  /\ Registered(d) => DOMAIN c.payload \subseteq Inputs(d)
  /\ ~({"project", "project_id"} \subseteq DOMAIN c.payload) /\ \A n \in DOMAIN c.payload : c.payload[n] \in Values

Ours(w, d, q, row) == QuerysetWithDeleted(w, d, q, row) /\ IsOwner(w, d, q, row)
Honoured(payload, row) == \A n \in DOMAIN payload : ModelField(n) # "updated_by" => row[ModelField(n)] = payload[n]
\* A controller that registers, with the library's own writes, gives every row that it
\* creates the request's tenant, owner and parent, whatever was sent, and the request can read
\* it back; no update moves a row out of its tenant, parent or owner, or hides it; no field
\* that was accepted is dropped, what is refused leaves the row alone, and every write is
\* stamped (controllers.py:447-482, 583-614, 833-865).
WritesStayInScope(c) ==
  LET w == c.world
      d == c.declared
      q == c.request
      made == Create(w, d, q, c.payload)
      changed == Update(w, d, q, c.row, c.payload)
  IN (Registered(d) /\ ~d.service) =>
       /\ ("create" \in d.operations /\ ~d.hookCreate) =>
            IF made.status # 201 THEN made.row = None /\ (Guard(w, d, q) = None => Marked(d, Save(New(d, q), c.payload)))
            ELSE /\ \A n \in ContextFields(d) : made.row[n] = Context(d, q)[n]
                 /\ Honoured(c.payload, made.row) /\ made.row.updated_by = q.user
                 /\ Retrieve(w, d, q, made.row).status = 200 /\ made.row \in ListOf(w, d, q, {made.row, c.row})
       /\ ("update" \in d.operations /\ ~d.hookUpdate) =>
            IF changed.status # 200 THEN changed.row = c.row
            ELSE /\ Ours(w, d, q, c.row) /\ Ours(w, d, q, changed.row) /\ ~Marked(d, changed.row)
                 /\ Honoured(c.payload, changed.row) /\ changed.row.updated_by = q.user
                 /\ \A n \in ContextFields(d) : changed.row[n] = c.row[n]
\* A deleted row is gone from every operation but restore, which only a request that could
\* have read it may ask for, and which gives back the row as it was (soft_delete.py:106-192).
DeletedIsGone(c) ==
  LET w == c.world
      d == c.declared
      gone == Destroy(w, d, c.request, c.row)
      told == d.soft # None /\ SoftResolved(d.soft).deleted # SoftResolved(d.soft).active
  IN (Registered(d) /\ gone.status = 204 /\ (d.soft # None => told)) =>
       /\ Ours(w, d, c.request, c.row)
       /\ \A q \in c.others :
            /\ {Retrieve(w, d, q, gone.row).status, Update(w, d, q, gone.row, c.payload).status, Destroy(w, d, q, gone.row).status} \subseteq {401, 403, 404}
            /\ d.soft # None =>
                 LET back == Restore(w, d, q, gone.row)
                 IN /\ ListOf(w, d, q, {gone.row}) = {}
                    /\ IF back.status # 200 THEN back.row = gone.row
                       ELSE Ours(w, d, q, c.row) /\ [back.row EXCEPT !.mark = c.row.mark] = c.row /\ ~Marked(d, back.row)
            /\ (d.soft # None /\ q = c.request) => Restore(w, d, q, gone.row).status = 200
\* Wherever an operation may load the object of its path, the path has the segment that the
\* parameter reads (annotations.py:70-92, 129-158).
LookupsAreRead(c) ==
  HasLookup(c.declared, c.path) =>
    \E i \in DOMAIN c.path : LET s == WithPathConverter(c.declared, c.path)[i] IN s.var /\ s.name = InstanceParameter(c.declared)
\* No create, update or partial update changes a field that the request may not write, and
\* one that sends no such field is not refused, except a PUT, which writes them all
\* (controllers.py:215-226, visibility.py:153-216).
WritesAreAllowed(c) ==
  \A op \in {"create", "update", "partial_update"} :
    /\ \A f \in c.input : f.name \in Write(c, op) => MayShow(f.rule, c.q, None)
    /\ (op # "update" /\ \A f \in c.input : f.name \in c.given => MayShow(f.rule, c.q, None)) => Write(c, op) = c.given
================================================================================
