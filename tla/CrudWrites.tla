----------------------------- MODULE CrudWrites -----------------------------
(***************************************************************************)
(* Concurrent writes to one object through the CRUD controllers: PUT/PATCH *)
(* and DELETE (crud/controllers.py) with and without an ETag, transitions, *)
(* soft deletion and restore, nested children, bulk update and delete.     *)
(* The database is READ COMMITTED with row locks: a writer waits for the   *)
(* lock of the row and keeps it until its transaction ends; a plain read   *)
(* takes no lock and sees what is committed.                               *)
(***************************************************************************)
EXTENDS FiniteSets

CONSTANTS Requests,        \* concurrent requests, one operation each
          Moves,           \* the declared transition: [source, target]
          Kids,            \* rows named by soft_delete_cascade
          TagByField,      \* ETag(field="updated_at") instead of ETag()
          None             \* no row, no request, no If-Match

States == {Moves.source, Moves.target}
\* saved is the request whose full save wrote the other columns, updated_at among them.
Row == [saved : Requests \cup {None}, state : States, deleted : BOOLEAN]
Ops == {"update", "destroy", "transition", "bulk_update", "bulk_destroy", "restore"}
ASSUME CrudAssumption ==
  /\ Moves.source # Moves.target /\ TagByField \in BOOLEAN
  /\ None \notin Requests /\ None \notin Row /\ None \notin Ops

VARIABLES setup,   \* [etag, soft]: what the controller class declares
          db,      \* committed: [row, items, kids]
          work,    \* the same as the transaction that holds the lock sees it
          holder,  \* the request whose transaction holds the row lock
          req      \* per request: [op, pc, fetched, snap, sent]
vars == <<setup, db, work, holder, req>>

Tables == [row : Row \cup {None}, items : SUBSET Requests, kids : SUBSET Kids]
Representation(row) == <<row.saved, row.state>>
\* representation_tag(): the hash of the output schema, or of one field.
Tag(row) == IF TagByField THEN <<row.saved>> ELSE Representation(row)
\* exclude_deleted() is part of scoped_queryset().
Visible(row) == row # None /\ (setup.soft => ~row.deleted)
Requested == [op : Ops \cup {None}, pc : {"idle", "fetched", "read", "saved", "marked", "done"},
              fetched : Row \cup {None}, snap : Row \cup {None}, sent : SUBSET Requests]

TypeOK ==
  /\ setup \in [etag : BOOLEAN, soft : BOOLEAN]
  /\ db \in Tables /\ work \in Tables
  /\ holder \in Requests \cup {None}
  /\ req \in [Requests -> Requested]

Init ==
  /\ setup \in [etag : BOOLEAN, soft : BOOLEAN]
  /\ db = [row |-> [saved |-> None, state |-> Moves.source, deleted |-> FALSE],
           items |-> {}, kids |-> Kids]
  /\ work = db /\ holder = None
  /\ req = [r \in Requests |-> [op |-> None, pc |-> "idle", fetched |-> None,
                                snap |-> None, sent |-> {}]]

(*************************** Steps of a request ***************************)
Goes(r, pc) == req' = [req EXCEPT ![r].pc = pc]
Ends(r) == Goes(r, "done") /\ holder' = IF holder = r THEN None ELSE holder

\* The client has a representation and its ETag, or none, and sends a write with or
\* without If-Match; a PUT names the nested children it keeps and adds one of its own.
Fetch(r) ==
  /\ req[r].pc = "idle"
  /\ \E op \in IF setup.soft THEN Ops ELSE Ops \ {"restore"}, match \in {None, db.row},
        kept \in SUBSET db.items :
       /\ match # None => op \in {"update", "destroy"} /\ setup.etag /\ Visible(db.row)
       /\ op # "update" => kept = {}
       /\ req' = [req EXCEPT ![r] = [@ EXCEPT !.op = op, !.pc = "fetched", !.fetched = match,
                                     !.sent = kept]]
  /\ UNCHANGED <<setup, db, work, holder>>

\* get_object(lock=...): updates and deletes lock when there is an etag, transitions
\* always; the bulk operations and restore() never.
LocksTransitions(r) == req[r].op = "transition"  \* mutant: updates read with lock=False
LocksButTransition(r) ==  \* mutant: the transition reads without a lock
  req[r].op \in {"update", "destroy"} /\ setup.etag
Locks(r) == req[r].op = "transition" \/ (req[r].op \in {"update", "destroy"} /\ setup.etag)
\* check_preconditions(), and the guard of perform_transition().
Refused(r) ==
  \/ setup.etag /\ req[r].fetched # None /\ Tag(db.row) # Tag(req[r].fetched)
  \/ req[r].op = "transition" /\ db.row.state # Moves.source
\* The object is read: 404, 412 and 409 end the request.
Read(r) ==
  /\ req[r].pc = "fetched" /\ req[r].op # "restore"
  /\ Locks(r) => holder = None
  /\ IF ~Visible(db.row) \/ Refused(r)
       THEN Goes(r, "done") /\ UNCHANGED <<holder, work>>
       ELSE /\ req' = [req EXCEPT ![r].pc = "read", ![r].snap = db.row]
            /\ IF Locks(r) THEN holder' = r /\ work' = db ELSE UNCHANGED <<holder, work>>
  /\ UNCHANGED <<setup, db>>

\* _sync_children() reads the children after the parent's row is saved, so under its lock;
\* one that was sent and has gone is inserted again.
Existing(r) == db.items
SyncedAdding(r) ==  \* mutant: nothing is removed
  IF req[r].op = "update" THEN db.items \cup req[r].sent \cup {r} ELSE db.items
Synced(r) == IF req[r].op = "update"
             THEN (db.items \ (Existing(r) \ req[r].sent)) \cup req[r].sent \cup {r}
             ELSE db.items
\* save_instance() writes every column of the instance that was read; if the row has
\* gone, Model.save() inserts it again.
SavedWithoutMarker(r) ==  \* mutant: the marker column is left to its default
  [saved |-> r, state |-> req[r].snap.state, deleted |-> None]
Saved(r) == [saved |-> r, state |-> req[r].snap.state, deleted |-> req[r].snap.deleted]
SaveAll(r) ==
  /\ work' = [row |-> Saved(r), items |-> Synced(r), kids |-> db.kids]
  /\ Goes(r, "saved")
\* save(update_fields=[state]): no other column, updated_at included; it raises, and so
\* changes nothing, when the row has gone.
SaveState(r) ==
  /\ work' = IF db.row = None THEN db ELSE [db EXCEPT !.row.state = Moves.target]
  /\ Goes(r, "saved")
\* delete(), or the marker and then the cascade.
Remove(r) ==
  /\ work' = IF ~setup.soft THEN [row |-> None, items |-> {}, kids |-> {}]
             ELSE [db EXCEPT !.row.deleted = TRUE, !.kids = {}]
  /\ Goes(r, "saved")
Save(r) ==
  /\ req[r].pc = "read" /\ holder \in {None, r}
  /\ CASE req[r].op \in {"update", "bulk_update"} -> SaveAll(r) /\ holder' = r
       [] req[r].op = "transition" -> SaveState(r) /\ holder' = r
       [] OTHER -> Remove(r) /\ holder' = r
  /\ UNCHANGED <<setup, db>>

\* refresh(), on_change() and the hooks pass, or raise and undo everything.
Commit(r) == req[r].pc = "saved" /\ db' = work /\ Ends(r) /\ UNCHANGED <<setup, work>>
Rollback(r) ==
  /\ req[r].pc \in {"read", "saved"} /\ Ends(r) /\ UNCHANGED <<setup, db>>
  /\ work' = IF holder = r THEN db ELSE work

\* restore() opens no transaction: the marker and the cascade are written one after
\* the other, and each is committed at once.
RestoreRead(r) ==
  /\ req[r].pc = "fetched" /\ req[r].op = "restore"
  /\ IF db.row = None THEN Goes(r, "done") ELSE Goes(r, "read")
  /\ UNCHANGED <<setup, db, work, holder>>
RestoreMark(r) ==
  /\ req[r].pc = "read" /\ req[r].op = "restore" /\ holder = None
  /\ db' = [db EXCEPT !.row.deleted = FALSE] /\ work' = db' /\ Goes(r, "marked")
  /\ UNCHANGED <<setup, holder>>
RestoreKids(r) ==
  /\ req[r].pc = "marked" /\ holder = None
  /\ db' = [db EXCEPT !.kids = Kids] /\ work' = db' /\ Goes(r, "done")
  /\ UNCHANGED <<setup, holder>>

Done == \A r \in Requests : req[r].pc = "done"
Finished == Done /\ UNCHANGED vars
Step(r) == Read(r) \/ (req[r].op # "restore" /\ Save(r)) \/ Commit(r) \/ Rollback(r)
           \/ RestoreRead(r) \/ RestoreMark(r) \/ RestoreKids(r)
Next == (\E r \in Requests : Fetch(r) \/ Step(r)) \/ Finished
Spec == Init /\ [][Next]_vars

(******************************* Properties *******************************)
Commits(r) == req[r].pc = "saved" /\ req'[r].pc = "done" /\ db' = work
Blind(r) == req[r].op \in {"bulk_update", "bulk_destroy"} \/ (req[r].op # "transition" /\ ~setup.etag)

\* conditional.py:12: "compare If-Match with the current object and fail with 412 when
\* it changed in between (optimistic locking)".  A conditional write that is committed
\* replaces or deletes exactly the representation its client had fetched.
ConditionalWriteIsCurrent ==
  [][\A r \in Requests : Commits(r) /\ req[r].fetched # None =>
        Visible(db.row) /\ Representation(db.row) = Representation(req[r].fetched)]_vars

\* An object that was deleted comes back only through restore() or through a write that
\* read it without a lock (controllers.py:917, soft_delete.py:186, bulk.py:344).
OnlyBlindWritesRevive ==
  [][\A r \in Requests : Commits(r) /\ ~Visible(db.row) /\ Visible(db'.row) => Blind(r)]_vars

\* The state moves along the declared transition and back only by a write that read the
\* row without a lock; two transitions of one state never both succeed
\* (transitions.py:98-124).
StateFollowsTransitions ==
  [][\A r \in Requests : Commits(r) /\ db.row # None /\ db'.row # None /\ ~Blind(r) =>
        IF req[r].op = "transition"
        THEN db.row.state = Moves.source /\ db'.row.state = Moves.target
        ELSE db'.row.state = db.row.state]_vars

\* When an update with children is committed, the object has the children it sent and no
\* other: two updates are never mixed, and nothing that a request added in between
\* survives unseen (nested_writes.py:172-205).
NestedIsWhatWasSent ==
  [][\A r \in Requests : Commits(r) /\ req[r].op = "update" =>
        db'.items = req[r].sent \cup {r}]_vars
=============================================================================
