----------------------------- MODULE AuditTrail ----------------------------
(***************************************************************************)
(* contrib/audit: AuditMixin around the writes of a controller, and the    *)
(* privacy policy of what is kept.  A write and its entry are one          *)
(* transaction; any call in it may raise.  An update or a delete reads its *)
(* row with a lock when the controller has an etag, and else without.      *)
(***************************************************************************)
EXTENDS Integers, Sequences, FiniteSets
CONSTANTS Requests, Policy, Values, Metadata, None, Hidden, MaxEntries
VARIABLES row, log, changes, locking, holder, pc, instance, saved, entry
vars == <<row, log, changes, locking, holder, pc, instance, saved, entry>>
\* row, log: committed.  changes[f]: how often committed writes changed f.
\* locking: the controller has an etag and no bulk writes, which never lock what they read.
\* holder: the request whose transaction has the row, which a lock and the first write give.
\* instance[r]: what r read; saved[r], entry[r]: what its open transaction wrote.

Fields == DOMAIN Policy.kept
Kept(f) == Policy.kept[f]   \* "plain", "redact" or "exclude"

\* audit_snapshot(): the concrete fields of an instance, None for no instance.
Snapshot(i) == [f \in {g \in Fields : Kept(g) # "exclude"} |-> IF i = None THEN None ELSE i[f]]
Diff(before, after) ==
  [f \in {g \in DOMAIN before : before[g] # after[g]} |-> <<before[f], after[f]>>]
\* AuditPrivacy.changes(): a redacted change stays visible, its values do not.
Shown(v) == v
Redacted(v) == IF v = None THEN None ELSE Hidden
Private(d) ==
  [f \in DOMAIN d |-> IF Kept(f) = "redact" THEN <<Redacted(d[f][1]), Redacted(d[f][2])>> ELSE d[f]]
\* AuditPrivacy.metadata(): a value is hidden when a key on its path, in any case, is one of
\* a credential; a path stands for the keys of nested mappings, lists left out.
Folded(name) == Policy.folded[name]
PrivateMetadata(m) ==
  [p \in {q \in DOMAIN m : Policy.metadata = None \/ q[1] \in Policy.metadata} |->
     IF \E i \in DOMAIN p : Folded(p[i]) \in Policy.credentials THEN Hidden ELSE m[p]]

\* record(): one row of the log, written with the same database connection.
Entry(action, d) == [action |-> action, changes |-> Private(d), metadata |-> PrivateMetadata(Metadata)]

Init ==
  /\ row = None /\ log = <<>> /\ holder = None
  /\ locking \in BOOLEAN
  /\ changes = [f \in Fields |-> 0]
  /\ pc = [r \in Requests |-> "idle"]
  /\ instance = [r \in Requests |-> None]
  /\ saved = [r \in Requests |-> None]
  /\ entry = [r \in Requests |-> None]

\* The handler opens a transaction; an update or a delete loads its row.
Begin(r) ==
  /\ pc[r] = "idle" /\ Len(log) < MaxEntries
  /\ instance' = [instance EXCEPT ![r] = row]
  /\ UNCHANGED <<row, log, changes, locking, saved, entry>>
BeginCreate(r) ==
  /\ row = None
  /\ Begin(r)
  /\ pc' = [pc EXCEPT ![r] = "create"]
  /\ UNCHANGED holder
Load(r) ==
  /\ ~locking /\ row # None
  /\ Begin(r)
  /\ pc' = [pc EXCEPT ![r] = "write"]
  /\ UNCHANGED holder
LoadLocked(r) ==
  /\ row # None /\ holder = None
  /\ Begin(r)
  /\ pc' = [pc EXCEPT ![r] = "write"]
  /\ holder' = r

\* A write waits for whoever has the row.  The key of a row is unique.
Write(r) ==
  /\ holder \in {None, r}
  /\ holder' = r
  /\ pc' = [pc EXCEPT ![r] = "record"]
  /\ UNCHANGED <<row, log, changes, locking, instance, entry>>
Create(r) ==
  /\ pc[r] = "create" /\ row = None
  /\ \E new \in [Fields -> Values] : saved' = [saved EXCEPT ![r] = new]
  /\ Write(r)
\* perform_update() of the controller below saves every column of what was loaded, and
\* inserts a row that was deleted meanwhile.
Update(r) ==
  /\ pc[r] = "write"
  /\ \E f \in Fields, v \in Values : saved' = [saved EXCEPT ![r] = [instance[r] EXCEPT ![f] = v]]
  /\ Write(r)
Destroy(r) ==
  /\ pc[r] = "write"
  /\ saved' = [saved EXCEPT ![r] = None]
  /\ Write(r)

ActionOf(before, after) == IF before = None THEN "create" ELSE IF after = None THEN "delete" ELSE "update"
RecordedAfterwards(before, after) == Diff(Snapshot(after), Snapshot(after))
\* Every field of a create or a delete, the changed ones of an update.
Recorded(before, after) ==
  IF before = None \/ after = None
    THEN [f \in DOMAIN Snapshot(None) |-> <<Snapshot(before)[f], Snapshot(after)[f]>>]
    ELSE Diff(Snapshot(before), Snapshot(after))
Record(r) ==
  /\ pc[r] = "record"
  /\ entry' = [entry EXCEPT ![r] = Entry(ActionOf(instance[r], saved[r]), Recorded(instance[r], saved[r]))]
  /\ pc' = [pc EXCEPT ![r] = "commit"]
  /\ UNCHANGED <<row, log, changes, locking, holder, instance, saved>>

Left(r) ==
  /\ holder' = IF holder = r THEN None ELSE holder
  /\ instance' = [instance EXCEPT ![r] = None]
  /\ saved' = [saved EXCEPT ![r] = None]
  /\ entry' = [entry EXCEPT ![r] = None]
  /\ pc' = [pc EXCEPT ![r] = "idle"]
  /\ UNCHANGED locking
Commit(r) ==
  /\ pc[r] = "commit"
  /\ row' = saved[r]
  /\ log' = Append(log, entry[r])
  /\ changes' = [f \in Fields |-> changes[f] + IF row = None \/ saved[r] = None \/ row[f] # saved[r][f] THEN 1 ELSE 0]
  /\ Left(r)
Abort(r) ==
  /\ pc[r] # "idle"
  /\ Left(r)
  /\ UNCHANGED <<row, log, changes>>

Next ==
  \E r \in Requests :
    \/ BeginCreate(r) \/ Load(r) \/ LoadLocked(r)
    \/ Create(r) \/ Update(r) \/ Destroy(r)
    \/ Record(r) \/ Commit(r) \/ Abort(r)
Spec == Init /\ [][Next]_vars

Mentions(f) == {i \in DOMAIN log : f \in DOMAIN log[i].changes}
Before(f, i) == {j \in Mentions(f) : j < i}
Last(js) == CHOOSE j \in js : \A k \in js : k <= j
\* What was told last; where writes overlap, something that was told.
Follows(value, f, js) ==
  js # {} => IF locking THEN value = log[Last(js)].changes[f][2] ELSE \E j \in js : value = log[j].changes[f][2]
\* audit/log.py:165 "Record creates, updates and deletes": where the row is locked from its
\* reading on, the entries of a field follow one from the other and end at what the row
\* holds, and each change of a field has its entry; where it is not, an entry still tells no
\* value, and the row has none, that no earlier entry brought.  A redacted value and a
\* credential are in none.
LogTellsTheRow ==
  \A f \in Fields :
    /\ Kept(f) = "plain" =>
         /\ \A i \in Mentions(f) : Follows(log[i].changes[f][1], f, Before(f, i))
         /\ Follows(Snapshot(row)[f], f, Mentions(f))
    /\ locking /\ Kept(f) # "exclude" => Cardinality(Mentions(f)) = changes[f]
    /\ Kept(f) = "redact" => \A i \in Mentions(f) : \A v \in {log[i].changes[f][1], log[i].changes[f][2]} : v \in {None, Hidden}
    /\ Kept(f) = "exclude" => Mentions(f) = {}
    /\ \A i \in DOMAIN log : \A p \in DOMAIN log[i].metadata :
         (\E k \in DOMAIN p : Folded(p[k]) \in Policy.credentials) => log[i].metadata[p] = Hidden
=============================================================================
