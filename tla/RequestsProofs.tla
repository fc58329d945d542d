--------------------------- MODULE RequestsProofs ---------------------------
(***************************************************************************)
(* Proofs about what requests do to the rows, and what one request does on *)
(* its way: the locked writes of CrudWrites, for any number of requests    *)
(* and children, and the way of one request through Requests, for any      *)
(* middlewares, hooks and plans.                                           *)
(***************************************************************************)
EXTENDS Services, TLAPS

(***************************************************************************)
(* Locked writes.  A transaction that has read the row with the lock, or   *)
(* has saved it, holds the lock; only the holder, or somebody when there   *)
(* is none, changes the row: what the holder has checked is still true     *)
(* when it commits.                                                        *)
(***************************************************************************)
\* What a request that reads with the lock knows of the row until it ends.
Knows(r) ==
  /\ Visible(db.row)
  /\ req[r].snap = db.row
  /\ ~TagByField /\ req[r].fetched # None => Representation(db.row) = Representation(req[r].fetched)
  /\ req[r].op = "transition" => db.row.state = Moves.source

\* What it has written, when it has.
Wrote(r) ==
  /\ work.row # None => work.row.state = IF req[r].op = "transition" THEN Moves.target
                                         ELSE db.row.state
\* The lock is held from the read, or the save, to the end.
LockInv(r) ==
  /\ req[r].pc = "saved" => holder = r
  /\ req[r].pc = "read" /\ Locks(r) => holder = r
  /\ req[r].pc \in {"read", "saved"} /\ Locks(r) => Knows(r)
  /\ req[r].pc = "saved" /\ Locks(r) => Wrote(r)
  /\ req[r].pc = "saved" /\ req[r].op = "update" =>
        work.items = req[r].sent \cup {r}
  /\ req[r].fetched # None => setup.etag /\ req[r].op \in {"update", "destroy"}
\* Soft-deleted rows stay in the table, and what is written back has been read.
RowInv(r) ==
  /\ setup.soft => db.row # None /\ work.row # None
  /\ req[r].op = "restore" => setup.soft /\ req[r].pc # "saved"
  /\ req[r].pc = "marked" => req[r].op = "restore"
  /\ req[r].pc # "idle" => req[r].op \in Ops
  /\ req[r].pc = "read" /\ req[r].op # "restore" => req[r].snap # None
Inv == TypeOK /\ \A r \in Requests : LockInv(r) /\ RowInv(r)

\* At the start nobody holds the lock.
LEMMA InitInv == Init => Inv
<1> SUFFICES ASSUME Init PROVE Inv
    OBVIOUS
<1>1. TypeOK
    BY CrudAssumption DEF Init, TypeOK, Tables, Row, States, Requested, Ops
<1>2. ASSUME NEW r \in Requests PROVE LockInv(r) /\ RowInv(r)
  <2>1. db.row \in Row /\ work.row \in Row
      BY DEF Init, Row, States
  <2> QED BY <2>1, CrudAssumption DEF Init, LockInv, RowInv, Ops
<1> QED BY <1>1, <1>2 DEF Inv

\* A step of one request leaves what another one knows as it is, unless the other has
\* no lock.
LEMMA Frame ==
  ASSUME NEW q \in Requests, LockInv(q), RowInv(q), req'[q] = req[q], setup' = setup,
         holder = q => holder' = q /\ db' = db /\ work' = work,
         setup.soft => db'.row # None /\ work'.row # None
  PROVE  LockInv(q)' /\ RowInv(q)'
<1>1. RowInv(q)'
    BY DEF RowInv
<1>2. Locks(q)' <=> Locks(q)
    BY DEF Locks
<1>3. CASE holder = q
  <2>1. Knows(q) => Knows(q)'
      BY <1>3 DEF Knows, Visible, Representation
  <2>2. Wrote(q) => Wrote(q)'
      BY <1>3 DEF Wrote
  <2> QED BY <1>1, <1>2, <1>3, <2>1, <2>2 DEF LockInv
<1>4. CASE holder # q
  <2>1. ~(req[q].pc = "saved") /\ ~(req[q].pc = "read" /\ Locks(q))
      BY <1>4 DEF LockInv
  <2>2. req[q].fetched # None => setup.etag /\ req[q].op \in {"update", "destroy"}
      BY DEF LockInv
  <2> QED BY <1>1, <1>2, <2>1, <2>2 DEF LockInv
<1> QED BY <1>3, <1>4

\* Type correctness: the tables, the lock and every request keep their shape.
LEMMA TypeStep == Inv /\ [Next]_vars => TypeOK'
<1> SUFFICES ASSUME Inv, [Next]_vars PROVE TypeOK'
    OBVIOUS
<1> USE CrudAssumption DEF TypeOK, Tables, Row, States, Requested, Ops
<1> TypeOK /\ \A r \in Requests : RowInv(r)
    BY DEF Inv
<1>1. CASE UNCHANGED vars
      BY <1>1 DEF vars
<1>2. ASSUME NEW r \in Requests, Fetch(r) PROVE TypeOK'
  <2> PICK op \in Ops, match \in {None, db.row}, kept \in SUBSET db.items :
        req' = [req EXCEPT ![r] = [@ EXCEPT !.op = op, !.pc = "fetched", !.fetched = match,
                                            !.sent = kept]]
      BY <1>2 DEF Fetch
  <2> /\ op \in Ops \cup {None} /\ match \in Row \cup {None} /\ kept \in SUBSET Requests
      /\ req[r] \in Requested
      OBVIOUS
  <2>1. [req[r] EXCEPT !.op = op, !.pc = "fetched", !.fetched = match, !.sent = kept] \in Requested
      BY DEF Requested
  <2> QED BY <1>2, <2>1 DEF Fetch
<1>3. ASSUME NEW r \in Requests, Read(r) PROVE TypeOK'
      BY <1>3 DEF Read, Goes, Visible
<1>4. ASSUME NEW r \in Requests, req[r].op # "restore", Save(r) PROVE TypeOK'
  <2>1. req' \in [Requests -> Requested] /\ holder' = r /\ UNCHANGED <<setup, db>>
      BY <1>4 DEF Save, SaveAll, SaveState, Remove, Goes
  <2>2. CASE req[r].op \in {"update", "bulk_update"}
    <3>1. Saved(r) \in Row \cup {None}
        BY <1>4 DEF Saved, RowInv, Save
    <3>2. Synced(r) \in SUBSET Requests /\ db.kids \in SUBSET Kids
        BY DEF Synced, Existing
    <3>3. work' = [row |-> Saved(r), items |-> Synced(r), kids |-> db.kids]
        BY <1>4, <2>2 DEF Save, SaveAll
    <3>4. work' \in Tables
        BY <3>1, <3>2, <3>3
    <3> QED BY <2>1, <3>4
  <2>3. CASE req[r].op = "transition"
    <3>1. work' \in Tables
        BY <1>4, <2>3 DEF Save, SaveState
    <3> QED BY <2>1, <3>1
  <2>4. CASE req[r].op \notin {"update", "bulk_update", "transition"}
    <3>1. work' = IF ~setup.soft THEN [row |-> None, items |-> {}, kids |-> {}]
                  ELSE [db EXCEPT !.row.deleted = TRUE, !.kids = {}]
        BY <1>4, <2>4 DEF Save, Remove
    <3>2. CASE setup.soft
        BY <2>1, <3>1, <3>2 DEF RowInv
    <3>3. CASE ~setup.soft
        BY <2>1, <3>1, <3>3
    <3> QED BY <3>2, <3>3
  <2> QED BY <2>2, <2>3, <2>4
<1>5. ASSUME NEW r \in Requests, Commit(r) PROVE TypeOK'
      BY <1>5 DEF Commit, Ends, Goes
<1>6. ASSUME NEW r \in Requests, Rollback(r) PROVE TypeOK'
      BY <1>6 DEF Rollback, Ends, Goes
<1>7. ASSUME NEW r \in Requests, RestoreRead(r) \/ RestoreMark(r) \/ RestoreKids(r) PROVE TypeOK'
  <2>1. CASE RestoreRead(r)
      BY <2>1 DEF RestoreRead, Goes
  <2>2. CASE RestoreMark(r)
    <3>1. db.row # None
        BY <2>2 DEF RestoreMark, RowInv
    <3>2. db' \in Tables
        BY <2>2, <3>1 DEF RestoreMark
    <3> QED BY <2>2, <3>2 DEF RestoreMark, Goes
  <2>3. CASE RestoreKids(r)
      BY <2>3 DEF RestoreKids, Goes
  <2> QED BY <1>7, <2>1, <2>2, <2>3
<1>8. CASE Finished
      BY <1>8 DEF Finished, vars
<1> QED BY <1>1, <1>2, <1>3, <1>4, <1>5, <1>6, <1>7, <1>8 DEF Next, Step

\* Only the holder of the lock, or somebody when there is none, changes the row; what a
\* request has read with the lock is still so when it commits.
LEMMA LockStep == Inv /\ [Next]_vars => (\A q \in Requests : LockInv(q) /\ RowInv(q))'
<1> SUFFICES ASSUME Inv, [Next]_vars, NEW q \in Requests PROVE LockInv(q)' /\ RowInv(q)'
    OBVIOUS
<1> /\ TypeOK /\ LockInv(q) /\ RowInv(q)
    /\ \A r \in Requests : LockInv(r) /\ RowInv(r)
    BY DEF Inv
<1>1. CASE UNCHANGED vars
      BY <1>1, Frame DEF vars, RowInv
<1>2. ASSUME NEW r \in Requests, Fetch(r) PROVE LockInv(q)' /\ RowInv(q)'
  <2>1. CASE q # r
      BY <1>2, <2>1, Frame DEF Fetch, TypeOK, RowInv
  <2>2. CASE q = r
    <3>1. PICK op \in Ops, match \in {None, db.row}, kept \in SUBSET db.items :
          /\ req' = [req EXCEPT ![r] = [@ EXCEPT !.op = op, !.pc = "fetched", !.fetched = match,
                                              !.sent = kept]]
          /\ match # None => op \in {"update", "destroy"} /\ setup.etag
          /\ op = "restore" => setup.soft
        BY <1>2 DEF Fetch
    <3>2. req'[r].pc = "fetched" /\ req'[r].fetched = match /\ req'[r].op = op
        BY <3>1 DEF TypeOK, Requested
    <3> QED BY <1>2, <2>2, <3>1, <3>2 DEF Fetch, LockInv, RowInv
  <2> QED BY <2>1, <2>2
<1>3. ASSUME NEW r \in Requests, Read(r) PROVE LockInv(q)' /\ RowInv(q)'
  <2>1. CASE q # r
      BY <1>3, <2>1, Frame, CrudAssumption DEF Read, Goes, TypeOK, RowInv
  <2>2. CASE q = r /\ (~Visible(db.row) \/ Refused(r))
      BY <1>3, <2>2 DEF Read, Goes, TypeOK, Requested, LockInv, RowInv
  <2>3. CASE q = r /\ Visible(db.row) /\ ~Refused(r)
    <3>1. /\ req'[r].pc = "read" /\ req'[r].snap = db.row /\ req'[r].op = req[r].op
          /\ req'[r].fetched = req[r].fetched /\ req[r].op # "restore"
          /\ req[r].pc = "fetched" /\ UNCHANGED <<setup, db>>
          /\ IF Locks(r) THEN holder' = r /\ work' = db ELSE UNCHANGED <<holder, work>>
        BY <1>3, <2>3 DEF Read, TypeOK, Requested
    <3>2. Locks(r)' <=> Locks(r)
        BY <3>1 DEF Locks
    <3>3. Locks(r) => Knows(r)'
        BY <2>3, <3>1 DEF Knows, Refused, Visible, LockInv, Tag, Representation
    <3>4. RowInv(r)'
        BY <2>3, <3>1 DEF RowInv, Visible
    <3> QED BY <2>3, <3>1, <3>2, <3>3, <3>4 DEF LockInv
  <2> QED BY <2>1, <2>2, <2>3
<1>4. ASSUME NEW r \in Requests, req[r].op # "restore", Save(r) PROVE LockInv(q)' /\ RowInv(q)'
  <2>1. /\ req'[r].pc = "saved" /\ req[r].pc = "read" /\ holder \in {None, r} /\ holder' = r
        /\ req'[r].op = req[r].op /\ req'[r].fetched = req[r].fetched
        /\ req'[r].snap = req[r].snap /\ req'[r].sent = req[r].sent
        /\ \A p \in Requests \ {r} : req'[p] = req[p]
        /\ UNCHANGED <<setup, db>>
      BY <1>4 DEF Save, SaveAll, SaveState, Remove, Goes, TypeOK, Requested
  <2>2. req[r].op \in {"update", "bulk_update"} =>
          /\ work'.row = Saved(r) /\ work'.row # None
          /\ work'.items = Synced(r)
    <3>1. Saved(r) \in Row
        BY <1>4, <2>1 DEF RowInv, Saved, TypeOK, Requested, Row
    <3> QED BY <1>4, <3>1, CrudAssumption DEF Save, SaveAll
  <2>3. req[r].op = "transition" =>
          /\ work'.row # None => work'.row.state = Moves.target
          /\ db.row # None => work'.row # None
      BY <1>4, CrudAssumption DEF Save, SaveState, TypeOK, Tables, Row, States
  <2>4. req[r].op \notin {"update", "bulk_update", "transition"} =>
          /\ work'.row # None => work'.row.state = db.row.state
          /\ setup.soft => work'.row # None
    <3> SUFFICES ASSUME req[r].op \notin {"update", "bulk_update", "transition"}
                 PROVE  /\ work'.row # None => work'.row.state = db.row.state
                        /\ setup.soft => work'.row # None
        OBVIOUS
    <3>1. work' = IF ~setup.soft THEN [row |-> None, items |-> {}, kids |-> {}]
                  ELSE [db EXCEPT !.row.deleted = TRUE, !.kids = {}]
        BY <1>4 DEF Save, Remove
    <3>2. CASE setup.soft
      <4>1. db.row \in Row
          BY <3>2 DEF TypeOK, Tables, RowInv
      <4>2. work'.row = [db.row EXCEPT !.deleted = TRUE]
          BY <3>1, <3>2 DEF TypeOK, Tables
      <4>3. work'.row \in Row /\ work'.row.state = db.row.state
          BY <4>1, <4>2 DEF Row
      <4> QED BY <4>3, CrudAssumption
    <3>3. CASE ~setup.soft
        BY <3>1, <3>3
    <3> QED BY <3>2, <3>3
  <2>5. setup.soft => db'.row # None /\ work'.row # None
      BY <2>1, <2>2, <2>3, <2>4 DEF RowInv
  <2>6. CASE q # r
      BY <2>1, <2>5, <2>6, Frame, CrudAssumption
  <2>7. CASE q = r
    <3>1. Locks(r)' <=> Locks(r)
        BY <2>1 DEF Locks
    <3>2. Locks(r) => Knows(r)'
        BY <2>1, <2>7 DEF LockInv, Knows, Visible, Representation
    <3>3. Locks(r) => Wrote(r)'
        BY <2>1, <2>2, <2>3, <2>4, <2>7 DEF LockInv, Knows, Wrote, Saved, Locks
    <3>4. req[r].op = "update" => work'.items = req[r].sent \cup {r}
        BY <2>2 DEF Synced, Existing
    <3>5. RowInv(r)'
        BY <1>4, <2>1, <2>5 DEF RowInv
    <3> QED BY <2>1, <2>7, <3>1, <3>2, <3>3, <3>4, <3>5 DEF LockInv
  <2> QED BY <2>6, <2>7
<1>5. ASSUME NEW r \in Requests, Commit(r) \/ Rollback(r) PROVE LockInv(q)' /\ RowInv(q)'
  <2>1. /\ req[r].pc # "idle" /\ req'[r].pc = "done" /\ req'[r].op = req[r].op /\ req'[r].fetched = req[r].fetched
        /\ \A p \in Requests \ {r} : req'[p] = req[p]
        /\ setup' = setup /\ holder' = IF holder = r THEN None ELSE holder
        /\ holder # r => db' = db /\ work' = work
        /\ setup.soft => db'.row # None /\ work'.row # None
      BY <1>5 DEF Commit, Rollback, Ends, Goes, TypeOK, Requested, LockInv, RowInv
  <2>2. CASE q # r
      BY <2>1, <2>2, Frame
  <2>3. CASE q = r
      BY <2>1, <2>3 DEF LockInv, RowInv
  <2> QED BY <2>2, <2>3
<1>6. ASSUME NEW r \in Requests, RestoreRead(r) \/ RestoreMark(r) \/ RestoreKids(r)
      PROVE LockInv(q)' /\ RowInv(q)'
  <2>1. /\ req'[r].pc # "saved" /\ req'[r].op = "restore" /\ req[r].op = "restore"
        /\ req[r].pc # "idle" /\ req'[r].fetched = req[r].fetched
        /\ \A p \in Requests \ {r} : req'[p] = req[p]
        /\ setup' = setup /\ holder' = holder
        /\ holder # None => db' = db /\ work' = work
      BY <1>6 DEF RestoreRead, RestoreMark, RestoreKids, Goes, TypeOK, Requested, RowInv
  <2>2. setup.soft => db'.row # None /\ work'.row # None
    <3>1. CASE RestoreRead(r)
        BY <3>1 DEF RestoreRead, RowInv
    <3>2. CASE RestoreMark(r)
        BY <3>2, CrudAssumption DEF RestoreMark, RowInv, TypeOK, Tables, Row
    <3>3. CASE RestoreKids(r)
        BY <3>3 DEF RestoreKids, RowInv, TypeOK, Tables
    <3> QED BY <1>6, <3>1, <3>2, <3>3
  <2>3. CASE q # r
      BY <2>1, <2>2, <2>3, Frame, CrudAssumption
  <2>4. CASE q = r
      BY <2>1, <2>2, <2>4 DEF LockInv, RowInv, Locks
  <2> QED BY <2>3, <2>4
<1>7. CASE Finished
      BY <1>7, Frame DEF Finished, vars, RowInv
<1> QED BY <1>1, <1>2, <1>3, <1>4, <1>5, <1>6, <1>7 DEF Next, Step

\* The tables, the lock and the requests keep their shape, and the locks their meaning.
LEMMA Invariance == Spec => []Inv
<1>1. Inv /\ [Next]_vars => Inv'
    BY TypeStep, LockStep DEF Inv
<1> QED BY InitInv, <1>1, PTL DEF Spec

\* Type correctness for any number of requests and children.
THEOREM TypeCorrect == Spec => []TypeOK
<1>1. Inv => TypeOK
    BY DEF Inv
<1> QED BY Invariance, <1>1, PTL

\* A commit is a step of one request, which holds the lock.
LEMMA CommitStep ==
  ASSUME Inv, [Next]_vars, NEW r \in Requests, Commits(r)
  PROVE  holder = r /\ (~Blind(r) => Locks(r)) /\ LockInv(r)
  BY DEF Inv, LockInv, RowInv, Commits, Blind, Locks, TypeOK, Requested, Ops

\* With the ETag of the whole representation, a conditional write that is committed
\* replaces what its client had fetched (conditional.py, controllers.py:917-923).
THEOREM NoLostUpdate ==
  ASSUME ~TagByField PROVE Spec => ConditionalWriteIsCurrent
<1>1. Inv /\ [Next]_vars =>
        [\A r \in Requests : Commits(r) /\ req[r].fetched # None =>
            Visible(db.row) /\ Representation(db.row) = Representation(req[r].fetched)]_vars
    BY CommitStep DEF LockInv, Knows, Commits, Locks
<1> QED BY Invariance, <1>1, PTL DEF Spec, ConditionalWriteIsCurrent

\* Deleted objects come back through restore() and unlocked writes only.
THEOREM LockedWritesReviveNothing == Spec => OnlyBlindWritesRevive
<1>1. Inv /\ [Next]_vars =>
        [\A r \in Requests : Commits(r) /\ ~Visible(db.row) /\ Visible(db'.row) => Blind(r)]_vars
    BY CommitStep DEF LockInv, Knows, Commits
<1> QED BY Invariance, <1>1, PTL DEF Spec, OnlyBlindWritesRevive

\* No two transitions leave one state, and no locked write moves the state otherwise.
THEOREM TransitionsAreFollowed == Spec => StateFollowsTransitions
<1>1. Inv /\ [Next]_vars =>
        [\A r \in Requests : Commits(r) /\ db.row # None /\ db'.row # None /\ ~Blind(r) =>
            IF req[r].op = "transition"
            THEN db.row.state = Moves.source /\ db'.row.state = Moves.target
            ELSE db'.row.state = db.row.state]_vars
    BY CommitStep DEF LockInv, Knows, Wrote, Commits
<1> QED BY Invariance, <1>1, PTL DEF Spec, StateFollowsTransitions

\* Nested children are what was kept and added, and nothing else.
THEOREM NestedIsSynced == Spec => NestedIsWhatWasSent
<1>1. Inv /\ [Next]_vars =>
        [\A r \in Requests : Commits(r) /\ req[r].op = "update" =>
            db'.items = req[r].sent \cup {r}]_vars
    BY CommitStep DEF LockInv, Commits
<1> QED BY Invariance, <1>1, PTL DEF Spec, NestedIsWhatWasSent

(***************************************************************************)
(* One request: whatever raises on the way, everything that was entered is *)
(* left, in reverse, and the answer tells the fate of what the handler     *)
(* wrote.                                                                  *)
(***************************************************************************)

(***************************************************************************)
(* The order of the calls of a view.  Rank numbers the steps of the        *)
(* framework; the hooks come first.                                        *)
(***************************************************************************)
Rank(x) ==
  CASE x = "permissions" -> 2 [] x = "scope" -> 3 [] x = "resolve" -> 4 [] x = "bindings" -> 5
    [] x = "before" -> 6 [] x = "authorize" -> 7 [] x = "acquire" -> 8 [] x = "call" -> 10
    [] x = "after" -> 11 [] x = "tx" -> (IF r_plan.idempotent THEN 9 ELSE 1) [] OTHER -> 0
Names == Range(Hooks) \cup R!Steps
(* The calls of s are in order and rank at most h.                         *)
Ordered(s, h) ==
  /\ s \in Seq(Names) /\ \A i \in DOMAIN s : Rank(s[i]) <= h
  /\ \A i, j \in DOMAIN s : i < j => Rank(s[i]) < Rank(s[j]) \/ (Rank(s[i]) = 0 /\ Rank(s[j]) = 0)

LEMMA RankType == \A x : Rank(x) \in Nat
  BY DEF Rank

LEMMA Concatenated ==
  ASSUME NEW s \in Seq(Names), NEW t \in Seq(Names)
  PROVE  /\ s \o t \in Seq(Names) /\ Len(s \o t) = Len(s) + Len(t)
         /\ \A i \in DOMAIN s : i \in DOMAIN (s \o t) /\ (s \o t)[i] = s[i]
         /\ \A i \in DOMAIN t : Len(s) + i \in DOMAIN (s \o t) /\ (s \o t)[Len(s) + i] = t[i]
         /\ \A k \in DOMAIN (s \o t) : k \in DOMAIN s \/ (k - Len(s) \in DOMAIN t /\ (s \o t)[k] = t[k - Len(s)])
  OBVIOUS

(* What is put behind a sequence and ranks higher keeps the order.         *)
LEMMA OrderedConcat ==
  ASSUME NEW h \in Nat, NEW g \in Nat, h <= g, NEW s, Ordered(s, h), NEW t, Ordered(t, g),
         \A i \in DOMAIN t : Rank(t[i]) > h
  PROVE  Ordered(s \o t, g)
<1>1. s \in Seq(Names) /\ t \in Seq(Names)
  BY DEF Ordered
<1> DEFINE u == s \o t
<1>2. /\ u \in Seq(Names) /\ Len(u) = Len(s) + Len(t) /\ DOMAIN s \subseteq Nat
      /\ \A k \in DOMAIN u : IF k \in DOMAIN s THEN u[k] = s[k]
                             ELSE k > Len(s) /\ k - Len(s) \in DOMAIN t /\ u[k] = t[k - Len(s)]
  BY <1>1, Concatenated
<1>3. \A k \in DOMAIN u : IF k \in DOMAIN s THEN Rank(u[k]) <= h ELSE h < Rank(u[k]) /\ Rank(u[k]) <= g
  BY <1>2 DEF Ordered
<1>4. ASSUME NEW i \in DOMAIN u, NEW j \in DOMAIN u, i < j
      PROVE  Rank(u[i]) < Rank(u[j]) \/ (Rank(u[i]) = 0 /\ Rank(u[j]) = 0)
  <2>1. CASE j \in DOMAIN s
    BY <1>1, <1>2, <1>4, <2>1 DEF Ordered
  <2>2. CASE j \notin DOMAIN s /\ i \in DOMAIN s
    BY <1>3, <2>2, RankType
  <2>3. CASE j \notin DOMAIN s /\ i \notin DOMAIN s
    <3>1. i - Len(s) < j - Len(s)
      BY <1>1, <1>2, <1>4
    <3> QED BY <1>2, <2>3, <3>1 DEF Ordered
  <2> QED BY <2>1, <2>2, <2>3
<1>5. \A k \in DOMAIN u : Rank(u[k]) <= g
  BY <1>3, RankType
<1> HIDE DEF u
<1>6. Ordered(u, g)
  BY <1>2, <1>4, <1>5 DEF Ordered
<1> QED BY <1>6 DEF u

(* The pieces the calls are put together from, with what they rank.        *)
LEMMA Pieces ==
  /\ \A h : Ordered(<<>>, h)
  /\ ~r_plan.idempotent => Ordered(<<"tx">>, 1)
  /\ r_plan.idempotent => Ordered(<<"tx">>, 9)
  /\ Ordered(<<"permissions">>, 2) /\ Ordered(<<"scope">>, 3) /\ Ordered(<<"resolve", "bindings", "before">>, 6)
  /\ Ordered(<<"authorize", "acquire">>, 8) /\ Ordered(<<"call", "after">>, 11)
  BY DEF Ordered, Rank, Names, R!Steps

LEMMA RangeConcat ==
  ASSUME NEW s \in Seq(Names), NEW t \in Seq(Names)
  PROVE  Range(s \o t) = Range(s) \cup Range(t)
<1>1. Range(s \o t) \subseteq Range(s) \cup Range(t)
  <2> SUFFICES ASSUME NEW k \in DOMAIN (s \o t) PROVE (s \o t)[k] \in Range(s) \cup Range(t)
    BY DEF Range
  <2>1. k \in DOMAIN s \/ (k - Len(s) \in DOMAIN t /\ (s \o t)[k] = t[k - Len(s)])
    BY Concatenated
  <2>2. k \in DOMAIN s => (s \o t)[k] = s[k]
    BY Concatenated
  <2> QED BY <2>1, <2>2 DEF Range
<1>2. Range(s) \cup Range(t) \subseteq Range(s \o t)
  <2>1. ASSUME NEW k \in DOMAIN s PROVE s[k] \in Range(s \o t)
    BY Concatenated DEF Range
  <2>2. ASSUME NEW k \in DOMAIN t PROVE t[k] \in Range(s \o t)
    <3>1. Len(s) + k \in DOMAIN (s \o t) /\ (s \o t)[Len(s) + k] = t[k]
      BY Concatenated
    <3> QED BY <3>1 DEF Range
  <2> QED BY <2>1, <2>2 DEF Range
<1> QED BY <1>1, <1>2

(* What the proofs below need to know of Program.                          *)
ProgramFacts ==
  /\ R!Program \in Seq(Names) /\ Ordered(R!Program, 11)
  /\ \A i \in DOMAIN R!Program : /\ R!Program[i] = "tx" => r_plan.atomic
                                 /\ R!Program[i] = "acquire" => r_plan.idempotent
  /\ r_plan.atomic => \E i \in DOMAIN R!Program : R!Program[i] = "tx"
  /\ r_plan.scoped => \E i \in DOMAIN R!Program : /\ i + 1 \in DOMAIN R!Program
                                                  /\ R!Program[i] = "scope" /\ R!Program[i + 1] = "resolve"

LEMMA ProgramShape ==
  ASSUME r_plan \in RequestPlans, R!Valid(r_plan)
  PROVE  ProgramFacts
<1> DEFINE G1 == R!Given(r_plan.atomic /\ ~r_plan.idempotent, <<"tx">>)
           G2 == R!Given(r_plan.scoped, <<"scope">>)
           G3 == R!Given(r_plan.idempotent, <<"authorize", "acquire">>)
           G4 == R!Given(r_plan.atomic /\ r_plan.idempotent, <<"tx">>)
           G5 == R!Given(~R!Streaming, <<"call", "after">>)
           P1 == Hooks \o G1
           P2 == P1 \o <<"permissions">>
           P3 == P2 \o G2
           P4 == P3 \o <<"resolve", "bindings", "before">>
           P5 == P4 \o G3
           P6 == P5 \o G4
           P7 == P6 \o G5
<1>1. R!Program = P7
  BY DEF R!Program
<1>2. /\ G1 \in {<<>>, <<"tx">>} /\ G2 \in {<<>>, <<"scope">>} /\ G3 \in {<<>>, <<"authorize", "acquire">>}
      /\ G4 \in {<<>>, <<"tx">>} /\ G5 \in {<<>>, <<"call", "after">>}
      /\ G1 # <<>> => G1 = <<"tx">> /\ r_plan.atomic /\ ~r_plan.idempotent
      /\ r_plan.atomic /\ ~r_plan.idempotent => G1 = <<"tx">>
      /\ r_plan.scoped => G2 = <<"scope">>
      /\ G3 # <<>> => r_plan.idempotent
      /\ G4 # <<>> => r_plan.atomic /\ r_plan.idempotent
      /\ r_plan.atomic /\ r_plan.idempotent => G4 = <<"tx">>
  BY DEF R!Given
<1> HIDE DEF G1, G2, G3, G4, G5
<1>3. Ordered(Hooks, 0) /\ Hooks \in Seq(Names)
  <2>1. \A i \in DOMAIN Hooks : Hooks[i] \in Range(Hooks) /\ Hooks[i] \notin R!Steps
    BY RequestsAssumption DEF Range
  <2>2. \A i \in DOMAIN Hooks : Rank(Hooks[i]) = 0
    BY <2>1 DEF Rank, R!Steps
  <2>3. Hooks \in Seq(Names)
    BY <2>1, RequestsAssumption DEF Names
  <2> QED BY <2>2, <2>3 DEF Ordered
<1>4. Ordered(P1, 1)
  <2>1. Ordered(G1, 1) /\ \A i \in DOMAIN G1 : Rank(G1[i]) > 0
    BY <1>2, Pieces DEF Rank
  <2> QED BY <1>3, <2>1, OrderedConcat
<1>5. Ordered(P2, 2)
  <2>1. \A i \in DOMAIN <<"permissions">> : Rank(<<"permissions">>[i]) > 1
    BY DEF Rank
  <2> HIDE DEF P1
  <2> QED BY <1>4, <2>1, OrderedConcat, Pieces
<1>6. Ordered(P3, 3)
  <2>1. Ordered(G2, 3) /\ \A i \in DOMAIN G2 : Rank(G2[i]) > 2
    BY <1>2, Pieces DEF Rank
  <2> HIDE DEF P2
  <2> QED BY <1>5, <2>1, OrderedConcat
<1>7. Ordered(P4, 6)
  <2>1. \A i \in DOMAIN <<"resolve", "bindings", "before">> : Rank(<<"resolve", "bindings", "before">>[i]) > 3
    BY DEF Rank
  <2> HIDE DEF P3
  <2> QED BY <1>6, <2>1, OrderedConcat, Pieces
<1>8. Ordered(P5, 8)
  <2>1. Ordered(G3, 8) /\ \A i \in DOMAIN G3 : Rank(G3[i]) > 6
    BY <1>2, Pieces DEF Rank
  <2> HIDE DEF P4
  <2> QED BY <1>7, <2>1, OrderedConcat
<1>9. Ordered(P6, 9)
  <2>1. Ordered(G4, 9) /\ \A i \in DOMAIN G4 : Rank(G4[i]) > 8
    BY <1>2, Pieces DEF Rank
  <2> HIDE DEF P5
  <2> QED BY <1>8, <2>1, OrderedConcat
<1>10. Ordered(P7, 11)
  <2>1. Ordered(G5, 11) /\ \A i \in DOMAIN G5 : Rank(G5[i]) > 9
    BY <1>2, Pieces DEF Rank
  <2> HIDE DEF P6
  <2> QED BY <1>9, <2>1, OrderedConcat
<1>11. /\ P1 \in Seq(Names) /\ P2 \in Seq(Names) /\ P3 \in Seq(Names) /\ P4 \in Seq(Names)
       /\ P5 \in Seq(Names) /\ P6 \in Seq(Names) /\ P7 \in Seq(Names)
       /\ G1 \in Seq(Names) /\ G2 \in Seq(Names) /\ G3 \in Seq(Names) /\ G4 \in Seq(Names) /\ G5 \in Seq(Names)
  <2>1. /\ G1 \in Seq(Names) /\ G2 \in Seq(Names) /\ G3 \in Seq(Names) /\ G4 \in Seq(Names) /\ G5 \in Seq(Names)
    BY <1>2, Pieces DEF Ordered
  <2> HIDE DEF P1, P2, P3, P4, P5, P6, P7
  <2> QED BY <2>1, <1>4, <1>5, <1>6, <1>7, <1>8, <1>9, <1>10 DEF Ordered
<1>12. Range(P7) = Range(Hooks) \cup Range(G1) \cup {"permissions"} \cup Range(G2) \cup {"resolve", "bindings", "before"}
                     \cup Range(G3) \cup Range(G4) \cup Range(G5)
  <2>9. /\ <<"permissions">> \in Seq(Names) /\ <<"resolve", "bindings", "before">> \in Seq(Names)
    BY Pieces DEF Ordered
  <2>1. /\ Range(<<"permissions">>) = {"permissions"}
        /\ Range(<<"resolve", "bindings", "before">>) = {"resolve", "bindings", "before"}
    BY DEF Range
  <2>2. Range(P1) = Range(Hooks) \cup Range(G1)
    BY <1>3, <1>11, RangeConcat
  <2>3. Range(P2) = Range(P1) \cup {"permissions"}
    <3> DEFINE t == <<"permissions">>
    <3>1. t \in Seq(Names) /\ Range(t) = {"permissions"} /\ P2 = P1 \o t
      BY <2>1, <2>9
    <3> HIDE DEF P1, P2, t
    <3> QED BY <1>11, <3>1, RangeConcat
  <2>4. Range(P3) = Range(P2) \cup Range(G2)
    <3> HIDE DEF P2
    <3> QED BY <1>11, RangeConcat
  <2>5. Range(P4) = Range(P3) \cup {"resolve", "bindings", "before"}
    <3> DEFINE t == <<"resolve", "bindings", "before">>
    <3>1. t \in Seq(Names) /\ Range(t) = {"resolve", "bindings", "before"} /\ P4 = P3 \o t
      BY <2>1, <2>9
    <3> HIDE DEF P3, P4, t
    <3> QED BY <1>11, <3>1, RangeConcat
  <2>6. Range(P5) = Range(P4) \cup Range(G3)
    <3> HIDE DEF P4
    <3> QED BY <1>11, RangeConcat
  <2>7. Range(P6) = Range(P5) \cup Range(G4)
    <3> HIDE DEF P5
    <3> QED BY <1>11, RangeConcat
  <2>8. Range(P7) = Range(P6) \cup Range(G5)
    <3> HIDE DEF P6
    <3> QED BY <1>11, RangeConcat
  <2> HIDE DEF P1, P2, P3, P4, P5, P6, P7
  <2> QED BY <2>2, <2>3, <2>4, <2>5, <2>6, <2>7, <2>8
<1>13. /\ Range(<<>>) = {} /\ Range(<<"tx">>) = {"tx"} /\ Range(<<"scope">>) = {"scope"}
       /\ Range(<<"authorize", "acquire">>) = {"authorize", "acquire"} /\ Range(<<"call", "after">>) = {"call", "after"}
       /\ Range(Hooks) \cap {"tx", "acquire"} = {}
  <2>1. Range(Hooks) \cap {"tx", "acquire"} = {}
    BY RequestsAssumption DEF R!Steps
  <2>2. Range(<<>>) = {} /\ Range(<<"tx">>) = {"tx"} /\ Range(<<"scope">>) = {"scope"}
    BY DEF Range
  <2>3. /\ Range(<<"authorize", "acquire">>) = {"authorize", "acquire"}
        /\ Range(<<"call", "after">>) = {"call", "after"}
    BY DEF Range
  <2> QED BY <2>1, <2>2, <2>3
<1>14. /\ "tx" \in Range(P7) <=> r_plan.atomic
       /\ "acquire" \in Range(P7) => r_plan.idempotent
  <2> HIDE DEF P7
  <2> QED BY <1>2, <1>12, <1>13
<1>15. r_plan.scoped => \E i \in DOMAIN P7 : i + 1 \in DOMAIN P7 /\ P7[i] = "scope" /\ P7[i + 1] = "resolve"
  <2> SUFFICES ASSUME r_plan.scoped
               PROVE  \E i \in DOMAIN P7 : i + 1 \in DOMAIN P7 /\ P7[i] = "scope" /\ P7[i + 1] = "resolve"
    OBVIOUS
  <2> DEFINE k == Len(P3)
  <2>1. k \in DOMAIN P3 /\ P3[k] = "scope"
    <3>1. G2 = <<"scope">>
      BY <1>2
    <3> HIDE DEF P2
    <3> QED BY <3>1, <1>11, Concatenated
  <2>2. k \in DOMAIN P4 /\ k + 1 \in DOMAIN P4 /\ P4[k] = "scope" /\ P4[k + 1] = "resolve"
    <3>1. <<"resolve", "bindings", "before">> \in Seq(Names) /\ 1 \in DOMAIN <<"resolve", "bindings", "before">>
      BY Pieces DEF Ordered
    <3> HIDE DEF P3
    <3> QED BY <2>1, <3>1, <1>11, Concatenated
  <2> HIDE DEF k
  <2>3. k \in DOMAIN P5 /\ k + 1 \in DOMAIN P5 /\ P5[k] = "scope" /\ P5[k + 1] = "resolve"
    <3> HIDE DEF P4
    <3>1. \A i \in DOMAIN P4 : i \in DOMAIN (P4 \o G3) /\ (P4 \o G3)[i] = P4[i]
      BY <1>11, Concatenated
    <3> QED BY <2>2, <3>1
  <2>4. k \in DOMAIN P6 /\ k + 1 \in DOMAIN P6 /\ P6[k] = "scope" /\ P6[k + 1] = "resolve"
    <3> HIDE DEF P5
    <3>1. \A i \in DOMAIN P5 : i \in DOMAIN (P5 \o G4) /\ (P5 \o G4)[i] = P5[i]
      BY <1>11, Concatenated
    <3> QED BY <2>3, <3>1
  <2>5. k \in DOMAIN P7 /\ k + 1 \in DOMAIN P7 /\ P7[k] = "scope" /\ P7[k + 1] = "resolve"
    <3> HIDE DEF P6
    <3>1. \A i \in DOMAIN P6 : i \in DOMAIN (P6 \o G5) /\ (P6 \o G5)[i] = P6[i]
      BY <1>11, Concatenated
    <3> QED BY <2>4, <3>1
  <2> QED BY <2>5
<1> HIDE DEF P7
<1> QED BY <1>1, <1>10, <1>11, <1>14, <1>15 DEF ProgramFacts, Range

(* What the order of the calls means for the transaction, the scope and    *)
(* the claim.                                                              *)
LEMMA ProgramOrder ==
  ASSUME ProgramFacts
  PROVE  /\ R!Program \in Seq(Names)
         /\ \A i, j \in DOMAIN R!Program :
              /\ R!Program[i] = "tx" /\ R!Program[j] = "tx" => i = j
              /\ R!Program[i] = "acquire" /\ R!Program[j] = "acquire" => i = j
              /\ R!Program[i] \in {"acquire", "tx"} /\ R!Program[j] = "call" => i < j
              /\ i < j /\ i \in R!Places /\ R!Program[j] = "tx" => R!Program[i] \notin R!Inside
         /\ \A j \in DOMAIN R!Program : r_plan.scoped /\ R!Program[j] = "resolve" =>
              j - 1 \in R!Places /\ R!Program[j - 1] = "scope"
         /\ \A i \in R!Places : R!Program[i] \notin {"none", "replay"}
         /\ \A i \in DOMAIN R!Program : R!Program[i] = "tx" => i \in R!Places
<1>1. /\ R!Program \in Seq(Names)
      /\ \A i, j \in DOMAIN R!Program :
            i < j => Rank(R!Program[i]) < Rank(R!Program[j]) \/ (Rank(R!Program[i]) = 0 /\ Rank(R!Program[j]) = 0)
  BY DEF ProgramFacts, Ordered
<1>2. \A i, j \in DOMAIN R!Program : Rank(R!Program[i]) = Rank(R!Program[j]) /\ Rank(R!Program[i]) > 0 => i = j
  BY <1>1, RankType
<1>3. \A i, j \in DOMAIN R!Program : Rank(R!Program[i]) < Rank(R!Program[j]) => i < j
  BY <1>1, RankType
<1>4. ASSUME NEW i \in DOMAIN R!Program, NEW j \in DOMAIN R!Program
      PROVE  /\ R!Program[i] = "tx" /\ R!Program[j] = "tx" => i = j
             /\ R!Program[i] = "acquire" /\ R!Program[j] = "acquire" => i = j
             /\ R!Program[i] \in {"acquire", "tx"} /\ R!Program[j] = "call" => i < j
  BY <1>2, <1>3 DEF Rank
<1>5. ASSUME NEW i \in R!Places, NEW j \in DOMAIN R!Program, i < j, R!Program[j] = "tx"
      PROVE  R!Program[i] \notin R!Inside
  <2>1. /\ i \in DOMAIN R!Program /\ R!Program[i] \in Range(Hooks) \cup {"tx", "scope"}
    BY DEF R!Places, R!Managers, R!Range, Range
  <2>2. Rank(R!Program[i]) < Rank(R!Program[j])
    BY <1>1, <1>5, <2>1 DEF Rank
  <2>3. CASE R!Program[i] \in Range(Hooks)
    BY <2>3, RequestsAssumption DEF R!Inside, R!Steps
  <2>4. CASE R!Program[i] = "tx"
    BY <1>5, <2>2, <2>4, RankType
  <2>5. CASE R!Program[i] = "scope"
    BY <1>5, <2>2, <2>5 DEF Rank, R!Inside
  <2> QED BY <2>1, <2>3, <2>4, <2>5
<1>6. ASSUME NEW j \in DOMAIN R!Program, r_plan.scoped, R!Program[j] = "resolve"
      PROVE  j - 1 \in R!Places /\ R!Program[j - 1] = "scope"
  <2>1. PICK i \in DOMAIN R!Program : i + 1 \in DOMAIN R!Program /\ R!Program[i] = "scope" /\ R!Program[i + 1] = "resolve"
    BY <1>6 DEF ProgramFacts
  <2>2. i + 1 = j
    BY <1>2, <1>6, <2>1 DEF Rank
  <2>3. j - 1 = i
    BY <1>1, <2>1, <2>2
  <2> QED BY <2>1, <2>3 DEF R!Places, R!Managers
<1>7. \A i \in R!Places : R!Program[i] \notin {"none", "replay"}
  BY RequestsAssumption DEF R!Places, R!Managers, R!Range, Range
<1>8. \A i \in DOMAIN R!Program : R!Program[i] = "tx" => i \in R!Places
  BY DEF R!Places, R!Managers
<1> QED BY <1>1, <1>4, <1>5, <1>6, <1>7, <1>8

(* The end of a stack.                                                     *)
LEMMA LastFront ==
  ASSUME NEW S, NEW s \in Seq(S), s # <<>>
  PROVE  /\ R!Front(s) \in Seq(S) /\ Len(R!Front(s)) = Len(s) - 1
         /\ Len(s) \in DOMAIN s /\ R!Last(s) = s[Len(s)] /\ R!Last(s) \in S
         /\ \A i \in DOMAIN R!Front(s) : i \in DOMAIN s /\ i < Len(s) /\ R!Front(s)[i] = s[i]
         /\ \A i \in DOMAIN s : i = Len(s) \/ (i \in DOMAIN R!Front(s) /\ R!Front(s)[i] = s[i])
<1>1. R!Front(s) = SubSeq(s, 1, Len(s) - 1) /\ R!Last(s) = s[Len(s)] /\ Len(s) \in Nat \ {0}
  BY DEF R!Front, R!Last
<1>2. DOMAIN s = 1..Len(s) /\ \A i \in DOMAIN s : s[i] \in S
  OBVIOUS
<1>3. Len(SubSeq(s, 1, Len(s) - 1)) = Len(s) - 1 /\ SubSeq(s, 1, Len(s) - 1) \in Seq(S)
  BY <1>1, <1>2
<1>4. \A i \in 1..(Len(s) - 1) : SubSeq(s, 1, Len(s) - 1)[i] = s[i]
  BY <1>1, <1>2
<1>5. DOMAIN R!Front(s) = 1..(Len(s) - 1)
  BY <1>1, <1>3
<1> QED BY <1>1, <1>2, <1>3, <1>4, <1>5

(***************************************************************************)
(* The inductive invariant.                                                *)
(***************************************************************************)
RequestTypes == R!TypeOK /\ R!Valid(r_plan) /\ r_pc \in 1..(Len(R!Program) + 1)
(* The middlewares entered and not yet told are the outer ones; the others *)
(* were told from the inside out.                                          *)
Onion ==
  /\ Len(r_entered) + Len(r_told) = r_mw - 1
  /\ \A i \in DOMAIN r_entered : r_entered[i] = Middlewares[i]
  /\ \A i \in DOMAIN r_told : r_told[i][1] = Middlewares[r_mw - i]
  /\ \A i, j \in DOMAIN r_told : i < j /\ r_told[i][2] = "exception" => r_told[j][2] = "exception"
  /\ r_phase \in {"request", "view"} \/ (r_phase = "unwind" /\ ~r_started) => r_told = <<>>
  /\ r_phase = "response" => \A i \in DOMAIN r_told : r_told[i][2] = "response"
  /\ r_phase \in {"stream", "done"} \/ r_started => r_entered = <<>>
  /\ \A m \in Loggers : r_counting[m] = "stored" => \E i \in DOMAIN r_entered : r_entered[i] = m
(* The managers passed are open, left or lost; what is left lay further in *)
(* than what is open.                                                      *)
Stack ==
  /\ \A i, j \in DOMAIN r_open : i < j => r_open[i] < r_open[j]
  /\ \A i, j \in DOMAIN r_left : i < j => r_left[i][1] > r_left[j][1]
  /\ \A i \in DOMAIN r_left, j \in DOMAIN r_open : r_left[i][1] > r_open[j]
  /\ \A k \in R!Places : k < r_pc <=> \/ \E i \in DOMAIN r_open : r_open[i] = k
                                      \/ \E i \in DOMAIN r_left : r_left[i][1] = k
                                      \/ k \in r_lost
  /\ \A i \in DOMAIN r_open : r_open[i] \notin r_lost
  /\ \A i \in DOMAIN r_left : r_left[i][1] \notin r_lost
Unread == R!Streaming /\ r_failed = "none" /\ ~r_started
Phases ==
  /\ r_phase \in {"request", "view"} => r_left = <<>> /\ r_lost = {} /\ r_failed = "none" /\ r_answer = "none" /\ ~r_started
  /\ r_phase = "request" => r_pc = 1 /\ r_open = <<>> /\ r_written = "no" /\ r_claim = "none"
  /\ r_phase = "unwind" /\ ~r_started => r_answer = "none"
  /\ r_started => R!Streaming /\ r_phase \in {"stream", "unwind", "done"}
  /\ r_phase = "stream" => R!Streaming /\ r_failed = "none"
  /\ r_answer = "ok" /\ ~r_started => r_failed = "none"
  /\ r_phase \in {"response", "exception", "done"} => r_open = <<>> \/ Unread
  /\ \A i \in r_lost : (R!Program[i] = "scope" /\ r_failed = "resolve") \/ (r_phase = "done" /\ Unread)
  /\ r_claim = "complete" => r_phase \in {"response", "exception", "done"} /\ r_open = <<>>
(* What was written waits for the transaction, which decides once.         *)
Fate ==
  /\ r_written = "pending" => \E i \in DOMAIN r_open : R!Program[r_open[i]] = "tx"
  /\ r_written = "undone" => r_failed \notin {"none", "replay"}
  /\ r_phase = "view" /\ r_written # "no" => \E j \in DOMAIN R!Program : j < r_pc /\ R!Program[j] = "call"
  /\ r_phase = "view" /\ r_claim # "none" => \E j \in DOMAIN R!Program : j < r_pc /\ R!Program[j] = "acquire"
  /\ r_claim # "none" => r_plan.idempotent
  /\ r_failed = "replay" => r_written = "no" /\ r_claim = "none"
  /\ r_plan.atomic =>
       /\ r_phase = "view" => r_written # "committed"
       /\ r_written = "committed" =>
            /\ r_failed \notin R!Inside
            /\ \A i \in DOMAIN r_open, j \in DOMAIN R!Program : R!Program[j] = "tx" => r_open[i] < j
RequestIInv == RequestTypes /\ Onion /\ Stack /\ Phases /\ Fate

LEMMA PlanFacts == ASSUME RequestTypes
  PROVE  ProgramFacts /\ (r_plan.atomic \/ r_plan.idempotent => ~R!Streaming)
<1>1. r_plan \in RequestPlans /\ R!Valid(r_plan)
  BY DEF RequestTypes, R!TypeOK
<1> QED BY <1>1, ProgramShape DEF R!Valid, R!Streaming

LEMMA SamePlan == ASSUME r_plan' = r_plan
  PROVE  /\ R!Program' = R!Program /\ R!Streaming' = R!Streaming /\ R!Places' = R!Places
         /\ R!Inside' = R!Inside /\ R!Valid(r_plan)' = R!Valid(r_plan)
  BY DEF R!Program, R!Streaming, R!Places, R!Inside, R!Given, R!Valid

LEMMA InitRequest == R!Init => RequestIInv
<1> SUFFICES ASSUME R!Init PROVE RequestIInv
  OBVIOUS
<1>1. /\ r_plan \in RequestPlans /\ R!Valid(r_plan)
      /\ r_phase = "request" /\ r_pc = 1 /\ r_mw = 1 /\ r_entered = <<>> /\ r_told = <<>>
      /\ r_counting = [m \in Loggers |-> "off"]
      /\ r_open = <<>> /\ r_left = <<>> /\ r_lost = {} /\ r_failed = "none"
      /\ r_written = "no" /\ r_claim = "none" /\ r_answer = "none" /\ r_started = FALSE
  BY DEF R!Init
<1>2. R!Program \in Seq(Names) /\ R!Places \subseteq Nat /\ \A k \in R!Places : k >= 1
  BY <1>1, ProgramShape DEF ProgramFacts, R!Places
<1>3. RequestTypes
  <2>1. Len(Middlewares) \in Nat /\ Len(R!Program) \in Nat
    BY <1>2, RequestsAssumption
  <2>2. 1 \in 1..(Len(Middlewares) + 1) /\ 1 \in 1..(Len(R!Program) + 1)
    BY <2>1
  <2>3. \A S : <<>> \in Seq(S)
    OBVIOUS
  <2>4. /\ r_mw \in 1..(Len(Middlewares) + 1) /\ r_pc \in 1..(Len(R!Program) + 1) /\ r_pc \in Nat
        /\ r_entered \in Seq(R!Range(Middlewares)) /\ r_told \in Seq(R!Range(Middlewares) \X {"response", "exception"})
        /\ r_open \in Seq(R!Places) /\ r_left \in Seq(R!Places \X {"fine", "error"})
    BY <1>1, <2>2, <2>3
  <2>5. r_lost \subseteq R!Places /\ r_started \in BOOLEAN /\ r_counting \in [Loggers -> {"off", "entered", "stored"}]
    BY <1>1
  <2> HIDE DEF R!Places
  <2> QED BY <1>1, <2>4, <2>5 DEF RequestTypes, R!TypeOK
<1>4. Onion
  BY <1>1 DEF Onion
<1>5. Stack
  BY <1>1, <1>2 DEF Stack
<1>6. Phases /\ Fate
  BY <1>1 DEF Phases, Fate
<1> QED BY <1>3, <1>4, <1>5, <1>6 DEF RequestIInv

(***************************************************************************)
(* The steps of the middlewares.                                           *)
(***************************************************************************)
LEMMA AppendAt ==
  ASSUME NEW S, NEW s \in Seq(S), NEW e \in S
  PROVE  /\ Append(s, e) \in Seq(S) /\ Len(Append(s, e)) = Len(s) + 1
         /\ \A i \in DOMAIN s : i \in DOMAIN Append(s, e) /\ i < Len(s) + 1 /\ Append(s, e)[i] = s[i]
         /\ Append(s, e)[Len(s) + 1] = e
         /\ \A i \in DOMAIN Append(s, e) : i \in DOMAIN s \/ i = Len(s) + 1
  OBVIOUS

LEMMA ViewRests ==
  ASSUME RequestIInv, R!ViewUnchanged
  PROVE  /\ Stack' /\ R!Program' = R!Program /\ R!Places' = R!Places /\ R!Streaming' = R!Streaming
         /\ R!Inside' = R!Inside /\ R!Valid(r_plan)' = R!Valid(r_plan)
         /\ UNCHANGED <<r_plan, r_pc, r_open, r_left, r_lost, r_failed, r_written, r_claim, r_started>>
<1>1. UNCHANGED <<r_plan, r_pc, r_open, r_left, r_lost, r_failed, r_written, r_claim, r_started>>
  BY DEF R!ViewUnchanged
<1>2. /\ R!Program' = R!Program /\ R!Places' = R!Places /\ R!Streaming' = R!Streaming
      /\ R!Inside' = R!Inside /\ R!Valid(r_plan)' = R!Valid(r_plan)
  BY <1>1, SamePlan
<1> QED BY <1>1, <1>2 DEF RequestIInv, Stack

LEMMA TypesAfter ==
  ASSUME RequestIInv, R!ViewUnchanged, r_mw' \in 1..(Len(Middlewares) + 1),
         r_phase' \in {"request", "view", "response", "exception", "stream", "done"},
         r_entered' \in Seq(R!Range(Middlewares)),
         r_told' \in Seq(R!Range(Middlewares) \X {"response", "exception"}),
         r_counting' \in [Loggers -> {"off", "entered", "stored"}],
         r_answer' \in {"none", "ok", "replay", "error", "raised", "short"}
  PROVE  RequestTypes'
<1>1. /\ R!Program' = R!Program /\ R!Places' = R!Places /\ R!Valid(r_plan)' = R!Valid(r_plan)
      /\ UNCHANGED <<r_plan, r_pc, r_open, r_left, r_lost, r_failed, r_written, r_claim, r_started>>
  BY ViewRests
<1> QED BY <1>1 DEF RequestIInv, RequestTypes, R!TypeOK

LEMMA CounterType ==
  ASSUME RequestIInv, NEW m, NEW c \in {"off", "entered", "stored"}
  PROVE  /\ R!Counter(m, c) \in [Loggers -> {"off", "entered", "stored"}]
         /\ \A l \in Loggers : R!Counter(m, c)[l] = IF l = m THEN c ELSE r_counting[l]
  BY DEF R!Counter, RequestIInv, RequestTypes, R!TypeOK

LEMMA MwRequestStep == ASSUME RequestIInv, R!MwRequest PROVE RequestIInv'
<1> DEFINE m == Middlewares[r_mw]
<1>1. /\ r_phase = "request" /\ r_mw <= Len(Middlewares) /\ r_entered' = Append(r_entered, m) /\ r_mw' = r_mw + 1
      /\ r_told' = r_told /\ R!ViewUnchanged
      /\ \/ r_phase' = "request" /\ r_answer' = r_answer /\ r_counting' = R!Counter(m, "stored")
         \/ r_phase' = "response" /\ r_answer' = "short" /\ r_counting' = r_counting
         \/ r_phase' = "exception" /\ r_answer' = "raised" /\ r_counting' = R!Counter(m, "entered")
  BY DEF R!MwRequest
<1>2. /\ r_mw \in DOMAIN Middlewares /\ m \in R!Range(Middlewares) /\ r_mw' \in 1..(Len(Middlewares) + 1)
      /\ r_entered \in Seq(R!Range(Middlewares)) /\ r_told = <<>> /\ Len(r_entered) = r_mw - 1
      /\ r_mw \in Nat
  BY <1>1, RequestsAssumption DEF RequestIInv, RequestTypes, R!TypeOK, Onion, R!Range
<1> HIDE DEF m
<1>3. /\ r_entered' \in Seq(R!Range(Middlewares)) /\ Len(r_entered') = r_mw /\ r_entered'[r_mw] = m
      /\ r_mw \in DOMAIN r_entered'
      /\ \A i \in DOMAIN r_entered : i \in DOMAIN r_entered' /\ r_entered'[i] = r_entered[i]
      /\ \A i \in DOMAIN r_entered' : i \in DOMAIN r_entered \/ i = r_mw
  BY <1>1, <1>2, AppendAt
<1>4. /\ r_counting' \in [Loggers -> {"off", "entered", "stored"}]
      /\ \A l \in Loggers : r_counting'[l] = r_counting[l] \/ l = m
  BY <1>1, CounterType DEF RequestIInv, RequestTypes, R!TypeOK
<1>5. RequestTypes'
  BY <1>1, <1>2, <1>3, <1>4, TypesAfter DEF RequestIInv, RequestTypes, R!TypeOK
<1>6. Onion'
  <2>1. Len(r_entered') + Len(r_told') = r_mw' - 1 /\ \A i \in DOMAIN r_entered' : r_entered'[i] = Middlewares[i]
    BY <1>1, <1>2, <1>3 DEF RequestIInv, Onion, m
  <2>2. \A l \in Loggers : r_counting'[l] = "stored" => \E i \in DOMAIN r_entered' : r_entered'[i] = l
    BY <1>3, <1>4 DEF RequestIInv, Onion
  <2>3. ~r_started'
    BY <1>1, ViewRests DEF RequestIInv, Phases
  <2> QED BY <1>1, <1>2, <2>1, <2>2, <2>3 DEF Onion
<1>7. Phases' /\ Fate'
  BY <1>1, ViewRests DEF RequestIInv, Phases, Fate, Unread
<1> QED BY <1>1, <1>5, <1>6, <1>7, ViewRests DEF RequestIInv

LEMMA MwCallStep == ASSUME RequestIInv, R!MwCall PROVE RequestIInv'
<1>1. /\ r_phase = "request" /\ r_phase' = "view" /\ R!ViewUnchanged
      /\ UNCHANGED <<r_mw, r_entered, r_told, r_counting, r_answer>>
  BY DEF R!MwCall
<1>2. RequestTypes'
  BY <1>1, TypesAfter DEF RequestIInv, RequestTypes, R!TypeOK
<1>3. Onion' /\ Phases' /\ Fate'
  BY <1>1, ViewRests DEF RequestIInv, Onion, Phases, Fate, Unread
<1> QED BY <1>1, <1>2, <1>3, ViewRests DEF RequestIInv

LEMMA MwDoneStep == ASSUME RequestIInv, R!MwDone PROVE RequestIInv'
<1>1. /\ r_phase \in {"response", "exception"} /\ r_entered = <<>> /\ R!ViewUnchanged
      /\ r_phase' = IF r_phase = "response" /\ r_answer = "ok" /\ R!Streaming THEN "stream" ELSE "done"
      /\ UNCHANGED <<r_mw, r_entered, r_told, r_counting, r_answer>>
  BY DEF R!MwDone
<1>2. RequestTypes'
  BY <1>1, TypesAfter DEF RequestIInv, RequestTypes, R!TypeOK
<1>3. Onion' /\ Fate'
  BY <1>1, ViewRests DEF RequestIInv, Onion, Phases, Fate
<1>4. Phases'
  BY <1>1, ViewRests, PlanFacts DEF RequestIInv, Phases, Fate, Unread
<1> QED BY <1>1, <1>2, <1>3, <1>4, ViewRests DEF RequestIInv

(* The innermost middleware is told, or its process_response() raises.     *)
LEMMA MwTellStep == ASSUME RequestIInv, R!MwResponse \/ R!MwException PROVE RequestIInv'
<1> DEFINE m == R!Last(r_entered)
<1>1. /\ r_phase \in {"response", "exception"} /\ r_entered # <<>> /\ r_mw' = r_mw /\ R!ViewUnchanged
      /\ r_counting' \in {r_counting, R!Counter(m, "off")}
      /\ \/ /\ r_entered' = R!Front(r_entered) /\ r_phase' = r_phase /\ r_answer' = r_answer
            /\ r_told' = Append(r_told, <<m, r_phase>>)
            /\ m \in Loggers /\ r_counting[m] = "stored" => r_counting' = R!Counter(m, "off")
         \/ /\ r_entered' = r_entered /\ r_told' = r_told /\ r_phase' = "exception" /\ r_answer' = "raised"
  BY DEF R!MwResponse, R!MwException
<1>2. /\ r_entered \in Seq(R!Range(Middlewares)) /\ m \in R!Range(Middlewares)
      /\ r_told \in Seq(R!Range(Middlewares) \X {"response", "exception"})
      /\ <<m, r_phase>> \in R!Range(Middlewares) \X {"response", "exception"}
  BY <1>1, LastFront DEF RequestIInv, RequestTypes, R!TypeOK
<1>3. /\ R!Front(r_entered) \in Seq(R!Range(Middlewares)) /\ Len(R!Front(r_entered)) = Len(r_entered) - 1
      /\ Len(r_entered) \in DOMAIN r_entered /\ m = r_entered[Len(r_entered)]
      /\ \A i \in DOMAIN R!Front(r_entered) : i \in DOMAIN r_entered /\ R!Front(r_entered)[i] = r_entered[i]
      /\ \A i \in DOMAIN r_entered :
            i = Len(r_entered) \/ (i \in DOMAIN R!Front(r_entered) /\ R!Front(r_entered)[i] = r_entered[i])
  BY <1>1, <1>2, LastFront
<1>4. /\ Append(r_told, <<m, r_phase>>) \in Seq(R!Range(Middlewares) \X {"response", "exception"})
      /\ Len(Append(r_told, <<m, r_phase>>)) = Len(r_told) + 1
      /\ \A i \in DOMAIN r_told : i < Len(r_told) + 1 /\ Append(r_told, <<m, r_phase>>)[i] = r_told[i]
      /\ Append(r_told, <<m, r_phase>>)[Len(r_told) + 1] = <<m, r_phase>>
      /\ \A i \in DOMAIN Append(r_told, <<m, r_phase>>) : i \in DOMAIN r_told \/ i = Len(r_told) + 1
  BY <1>2, AppendAt
<1>5. /\ r_counting' \in [Loggers -> {"off", "entered", "stored"}]
      /\ \A l \in Loggers : r_counting'[l] = "stored" => r_counting[l] = "stored"
      /\ r_counting' = R!Counter(m, "off") => \A l \in Loggers : r_counting'[l] = "stored" => l # m
  BY <1>1, CounterType DEF RequestIInv, RequestTypes, R!TypeOK
<1>6. r_mw \in Nat /\ r_mw \in 1..(Len(Middlewares) + 1) /\ Len(r_entered) + Len(r_told) = r_mw - 1
      /\ Len(r_entered) \in Nat /\ Len(r_told) \in Nat /\ ~r_started
      /\ r_answer \in {"none", "ok", "replay", "error", "raised", "short"}
  <2>1. Len(r_entered) \in Nat /\ Len(r_told) \in Nat
    BY <1>2
  <2>2. r_mw \in 1..(Len(Middlewares) + 1) /\ r_answer \in {"none", "ok", "replay", "error", "raised", "short"}
    BY DEF RequestIInv, RequestTypes, R!TypeOK
  <2>3. ~r_started /\ Len(r_entered) + Len(r_told) = r_mw - 1
    BY <1>1 DEF RequestIInv, Onion, Phases
  <2>4. Len(Middlewares) \in Nat
    BY RequestsAssumption
  <2> QED BY <2>1, <2>2, <2>3, <2>4
<1> HIDE DEF m
<1>7. RequestTypes'
  BY <1>1, <1>2, <1>3, <1>4, <1>5, <1>6, TypesAfter
<1>8. /\ Len(r_entered') + Len(r_told') = r_mw' - 1
      /\ \A i \in DOMAIN r_entered' : r_entered'[i] = Middlewares[i]
      /\ \A i \in DOMAIN r_told' : r_told'[i][1] = Middlewares[r_mw' - i]
  <2>1. CASE r_entered' = r_entered /\ r_told' = r_told
    BY <1>1, <1>6, <2>1 DEF RequestIInv, Onion
  <2>2. CASE r_entered' = R!Front(r_entered) /\ r_told' = Append(r_told, <<m, r_phase>>)
    <3>1. m = Middlewares[r_mw - (Len(r_told) + 1)]
      <4>1. m = Middlewares[Len(r_entered)] /\ Len(r_entered) = r_mw - (Len(r_told) + 1)
        BY <1>3, <1>6 DEF RequestIInv, Onion
      <4> QED BY <4>1
    <3>2. <<m, r_phase>>[1] = m
      OBVIOUS
    <3>3. \A i \in DOMAIN r_told' : r_told'[i][1] = Middlewares[r_mw' - i]
      BY <1>1, <1>4, <2>2, <3>1, <3>2 DEF RequestIInv, Onion
    <3>4. Len(r_entered') + Len(r_told') = r_mw' - 1
      <4>1. Len(r_entered') = Len(r_entered) - 1 /\ Len(r_told') = Len(r_told) + 1 /\ r_mw' = r_mw
        BY <1>1, <1>3, <1>4, <2>2
      <4> QED BY <1>6, <4>1
    <3>5. \A i \in DOMAIN r_entered' : r_entered'[i] = Middlewares[i]
      BY <1>3, <2>2 DEF RequestIInv, Onion
    <3> QED BY <3>3, <3>4, <3>5
  <2> QED BY <1>1, <2>1, <2>2
<1>9. /\ \A i, j \in DOMAIN r_told' : i < j /\ r_told'[i][2] = "exception" => r_told'[j][2] = "exception"
      /\ r_phase' = "response" => \A i \in DOMAIN r_told' : r_told'[i][2] = "response"
  <2>1. CASE r_told' = r_told
    BY <1>1, <2>1 DEF RequestIInv, Onion
  <2>2. CASE r_told' = Append(r_told, <<m, r_phase>>) /\ r_phase' = r_phase
    <3>1. <<m, r_phase>>[2] = r_phase
      OBVIOUS
    <3>2. CASE r_phase = "response"
      BY <1>4, <2>2, <3>1, <3>2 DEF RequestIInv, Onion
    <3>3. CASE r_phase = "exception"
      BY <1>2, <1>4, <2>2, <3>1, <3>3 DEF RequestIInv, Onion
    <3> QED BY <1>1, <3>2, <3>3
  <2> QED BY <1>1, <2>1, <2>2
<1>10. \A l \in Loggers : r_counting'[l] = "stored" => \E i \in DOMAIN r_entered' : r_entered'[i] = l
  <2> SUFFICES ASSUME NEW l \in Loggers, r_counting'[l] = "stored" PROVE \E i \in DOMAIN r_entered' : r_entered'[i] = l
    OBVIOUS
  <2>1. PICK i \in DOMAIN r_entered : r_entered[i] = l
    BY <1>5 DEF RequestIInv, Onion
  <2> QED BY <1>1, <1>3, <1>5, <2>1
<1>11. Onion'
  BY <1>1, <1>6, <1>8, <1>9, <1>10, ViewRests DEF Onion
<1>12. Phases' /\ Fate'
  BY <1>1, ViewRests DEF RequestIInv, Phases, Fate, Unread
<1> QED BY <1>1, <1>7, <1>11, <1>12, ViewRests DEF RequestIInv

(***************************************************************************)
(* The steps of the view.                                                  *)
(***************************************************************************)
LEMMA MwRests ==
  ASSUME RequestIInv, R!MwUnchanged
  PROVE  /\ UNCHANGED <<r_plan, r_mw, r_entered, r_told, r_counting>>
         /\ R!Program' = R!Program /\ R!Places' = R!Places /\ R!Streaming' = R!Streaming
         /\ R!Inside' = R!Inside /\ R!Valid(r_plan)' = R!Valid(r_plan)
<1>1. UNCHANGED <<r_plan, r_mw, r_entered, r_told, r_counting>>
  BY DEF R!MwUnchanged
<1> QED BY <1>1, SamePlan

LEMMA OnionAfter ==
  ASSUME RequestIInv, R!MwUnchanged,
         r_phase' \in {"request", "view", "response"} \/ (r_phase' = "unwind" /\ ~r_started') => r_told = <<>>,
         r_phase' \in {"stream", "done"} \/ r_started' => r_entered = <<>>
  PROVE  Onion'
  BY MwRests DEF RequestIInv, Onion

LEMMA ViewTypesAfter ==
  ASSUME RequestIInv, R!MwUnchanged, r_pc' \in 1..(Len(R!Program) + 1), r_pc' \in Nat,
         r_phase' \in {"view", "unwind", "response", "exception", "stream", "done"},
         r_open' \in Seq(R!Places), r_left' \in Seq(R!Places \X {"fine", "error"}), r_lost' \subseteq R!Places,
         r_started' \in BOOLEAN, r_written' \in {"no", "pending", "committed", "undone"},
         r_claim' \in {"none", "running", "complete"},
         r_answer' \in {"none", "ok", "replay", "error", "raised", "short"}
  PROVE  RequestTypes'
<1>1. /\ UNCHANGED <<r_plan, r_mw, r_entered, r_told, r_counting>>
      /\ R!Program' = R!Program /\ R!Places' = R!Places /\ R!Valid(r_plan)' = R!Valid(r_plan)
  BY MwRests
<1> QED BY <1>1 DEF RequestIInv, RequestTypes, R!TypeOK

(* While the view goes on, every manager passed is open.                   *)
LEMMA InTheView ==
  ASSUME RequestIInv, r_phase = "view", r_pc <= Len(R!Program)
  PROVE  /\ r_pc \in DOMAIN R!Program /\ r_pc \in Nat /\ r_pc + 1 \in 1..(Len(R!Program) + 1)
         /\ R!Places \subseteq DOMAIN R!Program /\ R!Places \subseteq Nat
         /\ r_open \in Seq(R!Places) /\ \A i \in DOMAIN r_open : r_open[i] \in R!Places /\ r_open[i] < r_pc
         /\ \A k \in R!Places : k < r_pc => \E i \in DOMAIN r_open : r_open[i] = k
         /\ r_left = <<>> /\ r_lost = {} /\ r_failed = "none" /\ r_answer = "none" /\ r_started = FALSE
         /\ r_told = <<>> /\ r_claim # "complete"
         /\ r_pc \in R!Places <=> R!Step \in R!Managers
<1>1. R!Program \in Seq(Names) /\ r_pc \in 1..(Len(R!Program) + 1) /\ r_open \in Seq(R!Places)
  BY PlanFacts DEF RequestIInv, RequestTypes, R!TypeOK, ProgramFacts
<1>2. r_pc \in DOMAIN R!Program /\ r_pc \in Nat /\ r_pc + 1 \in 1..(Len(R!Program) + 1)
  BY <1>1
<1>3. R!Places \subseteq DOMAIN R!Program /\ R!Places \subseteq Nat /\ (r_pc \in R!Places <=> R!Step \in R!Managers)
  BY <1>1, <1>2 DEF R!Places, R!Step
<1>4. /\ r_left = <<>> /\ r_lost = {} /\ r_failed = "none" /\ r_answer = "none" /\ r_started = FALSE
      /\ r_told = <<>> /\ r_claim # "complete"
  BY DEF RequestIInv, RequestTypes, R!TypeOK, Phases, Onion
<1>5. \A i \in DOMAIN r_open : r_open[i] \in R!Places
  BY <1>1
<1>6. \A k \in R!Places : k < r_pc <=> \E i \in DOMAIN r_open : r_open[i] = k
  BY <1>4 DEF RequestIInv, Stack
<1> HIDE DEF R!Places, R!Step
<1> QED BY <1>1, <1>2, <1>3, <1>4, <1>5, <1>6

LEMMA WritesInTheView ==
  ASSUME RequestIInv, r_phase = "view", r_pc <= Len(R!Program), R!Writes
  PROVE  /\ r_written' \in {"no", "pending", "committed", "undone"}
         /\ r_written' = "pending" => \E i \in DOMAIN r_open : R!Program[r_open[i]] = "tx"
         /\ r_written' # "undone" /\ (r_plan.atomic => r_written' # "committed")
         /\ r_written' # "no" => r_written' = r_written \/ R!Step = "call"
         /\ R!Step # "call" => r_written' = r_written
<1>2. CASE R!Step # "call"
  <2>1. r_written' = r_written
    BY <1>2 DEF R!Writes
  <2>2. r_failed = "none" /\ r_written \in {"no", "pending", "committed", "undone"}
    BY InTheView DEF RequestIInv, RequestTypes, R!TypeOK
  <2> QED BY <1>2, <2>1, <2>2 DEF RequestIInv, Fate
<1>3. CASE R!Step = "call"
  <2>1. /\ r_written' \in {"no", "pending", "committed"}
        /\ r_written' = "pending" => \E i \in R!Range(r_open) : R!Program[i] = "tx"
        /\ r_written' = "committed" => ~\E i \in R!Range(r_open) : R!Program[i] = "tx"
    BY <1>3 DEF R!Writes
  <2>2. r_plan.atomic => \E i \in DOMAIN r_open : R!Program[r_open[i]] = "tx"
    <3> SUFFICES ASSUME r_plan.atomic PROVE \E i \in DOMAIN r_open : R!Program[r_open[i]] = "tx"
      OBVIOUS
    <3>1. PICK j \in DOMAIN R!Program : R!Program[j] = "tx"
      BY PlanFacts DEF RequestIInv, ProgramFacts
    <3>2. j \in R!Places /\ j < r_pc
      BY <1>3, <3>1, PlanFacts, ProgramOrder, InTheView DEF RequestIInv, R!Step
    <3> QED BY <3>1, <3>2, InTheView
  <2>3. r_written' = "pending" => \E i \in DOMAIN r_open : R!Program[r_open[i]] = "tx"
    BY <2>1 DEF R!Range
  <2>4. r_plan.atomic => r_written' # "committed"
    BY <2>1, <2>2 DEF R!Range
  <2> QED BY <1>3, <2>1, <2>3, <2>4
<1> QED BY <1>2, <1>3

LEMMA ViewStepStep == ASSUME RequestIInv, R!ViewStep PROVE RequestIInv'
<1>1. /\ r_phase = "view" /\ r_pc <= Len(R!Program) /\ r_pc' = r_pc + 1 /\ R!Writes /\ R!MwUnchanged
      /\ r_open' = IF R!Step \in R!Managers THEN Append(r_open, r_pc) ELSE r_open
      /\ r_claim' \in IF R!Step = "acquire" THEN {"running", "none"} ELSE {r_claim}
      /\ UNCHANGED <<r_phase, r_left, r_lost, r_failed, r_answer, r_started>>
  BY DEF R!ViewStep
<1>2. /\ r_pc \in DOMAIN R!Program /\ r_pc \in Nat /\ r_pc + 1 \in 1..(Len(R!Program) + 1)
      /\ R!Places \subseteq DOMAIN R!Program /\ R!Places \subseteq Nat
      /\ r_open \in Seq(R!Places) /\ \A i \in DOMAIN r_open : r_open[i] \in R!Places /\ r_open[i] < r_pc
      /\ \A k \in R!Places : k < r_pc => \E i \in DOMAIN r_open : r_open[i] = k
      /\ r_left = <<>> /\ r_lost = {} /\ r_failed = "none" /\ r_answer = "none" /\ r_started = FALSE
      /\ r_told = <<>> /\ r_claim # "complete"
      /\ r_pc \in R!Places <=> R!Step \in R!Managers
  BY <1>1, InTheView
<1>3. /\ r_open' \in Seq(R!Places)
      /\ \A i \in DOMAIN r_open : i \in DOMAIN r_open' /\ r_open'[i] = r_open[i]
      /\ \A i \in DOMAIN r_open' : IF i \in DOMAIN r_open THEN r_open'[i] = r_open[i]
                                  ELSE i = Len(r_open) + 1 /\ r_open'[i] = r_pc /\ r_pc \in R!Places
      /\ r_pc \in R!Places => \E i \in DOMAIN r_open' : r_open'[i] = r_pc
  <2>1. CASE r_pc \in R!Places
    <3>1. r_open' = Append(r_open, r_pc)
      BY <1>1, <1>2, <2>1
    <3>2. Len(r_open) + 1 \in DOMAIN Append(r_open, r_pc)
      BY <1>2
    <3> HIDE DEF R!Places
    <3> QED BY <1>2, <2>1, <3>1, <3>2, AppendAt
  <2>2. CASE r_pc \notin R!Places
    BY <1>1, <1>2, <2>2
  <2> QED BY <2>1, <2>2
<1> HIDE DEF R!Places, R!Step, R!Managers
<1>4. RequestTypes'
  <2>1. r_written' \in {"no", "pending", "committed", "undone"}
    BY <1>1, WritesInTheView
  <2>2. /\ r_left' \in Seq(R!Places \X {"fine", "error"}) /\ r_lost' \subseteq R!Places /\ r_started' \in BOOLEAN
        /\ r_claim' \in {"none", "running", "complete"} /\ r_answer' \in {"none", "ok", "replay", "error", "raised", "short"}
    BY <1>1, <1>2 DEF RequestIInv, RequestTypes, R!TypeOK
  <2>3. r_pc' \in 1..(Len(R!Program) + 1) /\ r_pc' \in Nat /\ r_phase' = "view"
    BY <1>1, <1>2
  <2> QED BY <1>1, <1>3, <2>1, <2>2, <2>3, ViewTypesAfter
<1>5. Onion'
  BY <1>1, <1>2, OnionAfter
<1>6. Stack'
  <2>1. \A i, j \in DOMAIN r_open' : i < j => r_open'[i] < r_open'[j]
    <3> SUFFICES ASSUME NEW i \in DOMAIN r_open', NEW j \in DOMAIN r_open', i < j PROVE r_open'[i] < r_open'[j]
      OBVIOUS
    <3>1. i \in DOMAIN r_open
      <4>1. DOMAIN r_open' \subseteq Nat /\ \A k \in DOMAIN r_open' : k \in DOMAIN r_open \/ k = Len(r_open) + 1
        BY <1>3
      <4>2. Len(r_open) \in Nat /\ DOMAIN r_open = 1..Len(r_open)
        BY <1>2
      <4> QED BY <4>1, <4>2
    <3>2. CASE j \in DOMAIN r_open
      BY <1>3, <3>1, <3>2 DEF RequestIInv, Stack
    <3>3. CASE j \notin DOMAIN r_open
      BY <1>2, <1>3, <3>1, <3>3
    <3> QED BY <3>2, <3>3
  <2>2. \A k \in R!Places : k < r_pc' <=> \E i \in DOMAIN r_open' : r_open'[i] = k
    <3> SUFFICES ASSUME NEW k \in R!Places PROVE k < r_pc' <=> \E i \in DOMAIN r_open' : r_open'[i] = k
      OBVIOUS
    <3>1. k \in Nat /\ (k < r_pc' <=> k < r_pc \/ k = r_pc)
      BY <1>1, <1>2
    <3> QED BY <1>2, <1>3, <3>1
  <2>3. DOMAIN r_left' = {} /\ r_lost' = {} /\ R!Places' = R!Places
    BY <1>1, <1>2, MwRests
  <2>4. \A k \in R!Places' : k < r_pc' <=> \/ \E i \in DOMAIN r_open' : r_open'[i] = k
                                           \/ \E i \in DOMAIN r_left' : r_left'[i][1] = k
                                           \/ k \in r_lost'
    BY <2>2, <2>3
  <2> QED BY <2>1, <2>3, <2>4 DEF Stack
<1>7. Phases'
  BY <1>1, <1>2 DEF RequestIInv, Phases
<1>8. Fate'
  <2>1. r_written' = "pending" => \E i \in DOMAIN r_open' : R!Program[r_open'[i]] = "tx"
    BY <1>1, <1>3, WritesInTheView
  <2>2. r_written' # "no" => \E j \in DOMAIN R!Program : j < r_pc' /\ R!Program[j] = "call"
    BY <1>1, <1>2, WritesInTheView DEF RequestIInv, Fate, R!Step
  <2>3. r_claim' # "none" => \E j \in DOMAIN R!Program : j < r_pc' /\ R!Program[j] = "acquire"
    BY <1>1, <1>2 DEF RequestIInv, Fate, R!Step
  <2>4. r_claim' # "none" => r_plan.idempotent
    BY <2>3, PlanFacts DEF RequestIInv, ProgramFacts
  <2> QED BY <1>1, <1>2, <2>1, <2>2, <2>3, <2>4, MwRests, WritesInTheView DEF Fate
<1> QED BY <1>4, <1>5, <1>6, <1>7, <1>8 DEF RequestIInv

(* acquire() is reached once, and before the handler: a replay wrote       *)
(* nothing.                                                                *)
LEMMA ViewReplayStep == ASSUME RequestIInv, R!ViewReplay PROVE RequestIInv'
<1>1. /\ r_phase = "view" /\ r_pc <= Len(R!Program) /\ R!Step = "acquire" /\ R!MwUnchanged
      /\ r_failed' = "replay" /\ r_phase' = "unwind"
      /\ UNCHANGED <<r_pc, r_open, r_left, r_lost, r_written, r_claim, r_answer, r_started>>
  BY DEF R!ViewReplay
<1>2. /\ r_pc \in DOMAIN R!Program /\ R!Program[r_pc] = "acquire" /\ r_pc \in Nat
      /\ r_left = <<>> /\ r_lost = {} /\ r_answer = "none" /\ r_started = FALSE /\ r_told = <<>> /\ r_claim # "complete"
  BY <1>1, InTheView DEF R!Step
<1>3. RequestTypes'
  BY <1>1, ViewTypesAfter DEF RequestIInv, RequestTypes, R!TypeOK
<1>4. Onion'
  BY <1>1, <1>2, OnionAfter
<1>5. Stack'
  BY <1>1, MwRests DEF RequestIInv, Stack
<1>6. Phases'
  BY <1>1, <1>2, MwRests DEF Phases
<1>7. \A j \in DOMAIN R!Program : j < r_pc => R!Program[j] \notin {"call", "acquire"}
  <2>1. ProgramFacts /\ DOMAIN R!Program \subseteq Nat
    BY PlanFacts DEF RequestIInv, ProgramFacts
  <2> QED BY <1>2, <2>1, ProgramOrder
<1>8. r_written = "no" /\ r_claim = "none"
  BY <1>1, <1>7 DEF RequestIInv, Fate
<1>9. Fate'
  BY <1>1, <1>8, MwRests DEF Fate
<1> QED BY <1>3, <1>4, <1>5, <1>6, <1>9 DEF RequestIInv

(* Right before the controller is resolved, the innermost manager is the   *)
(* scope.                                                                  *)
LEMMA ScopeIsLast ==
  ASSUME RequestIInv, r_phase = "view", r_pc <= Len(R!Program), R!Step = "resolve", r_plan.scoped
  PROVE  /\ r_open # <<>> /\ R!Last(r_open) \in R!Places /\ R!Program[R!Last(r_open)] = "scope"
<1>1. /\ r_pc \in DOMAIN R!Program /\ R!Program[r_pc] = "resolve" /\ r_pc \in Nat /\ R!Places \subseteq Nat
      /\ r_open \in Seq(R!Places) /\ \A i \in DOMAIN r_open : r_open[i] \in R!Places /\ r_open[i] < r_pc
      /\ \A k \in R!Places : k < r_pc => \E i \in DOMAIN r_open : r_open[i] = k
  BY InTheView DEF R!Step
<1>2. r_pc - 1 \in R!Places /\ R!Program[r_pc - 1] = "scope"
  BY <1>1, PlanFacts, ProgramOrder DEF RequestIInv
<1> HIDE DEF R!Places
<1>3. PICK i \in DOMAIN r_open : r_open[i] = r_pc - 1
  BY <1>1, <1>2
<1>4. r_open # <<>> /\ Len(r_open) \in DOMAIN r_open /\ R!Last(r_open) = r_open[Len(r_open)] /\ i <= Len(r_open)
  <2>1. DOMAIN r_open = 1..Len(r_open) /\ Len(r_open) \in Nat
    BY <1>1
  <2>2. r_open # <<>> /\ i <= Len(r_open) /\ Len(r_open) \in DOMAIN r_open
    BY <1>3, <2>1
  <2> QED BY <1>1, <2>2, LastFront
<1>5. \A k, l \in DOMAIN r_open : k < l => r_open[k] < r_open[l]
  BY DEF RequestIInv, Stack
<1>6. r_open[Len(r_open)] = r_pc - 1
  <2>1. CASE i = Len(r_open)
    BY <1>3, <2>1
  <2>2. CASE i < Len(r_open)
    <3>1. r_open[i] < r_open[Len(r_open)]
      BY <1>4, <1>5, <2>2
    <3>2. r_open[Len(r_open)] \in Nat /\ r_open[Len(r_open)] < r_pc
      BY <1>1, <1>4
    <3> QED BY <1>1, <1>3, <3>1, <3>2
  <2>3. i \in Nat /\ Len(r_open) \in Nat
    BY <1>1
  <2> QED BY <1>4, <2>1, <2>2, <2>3
<1> QED BY <1>2, <1>4, <1>6

LEMMA ViewRaiseStep == ASSUME RequestIInv, R!ViewRaise PROVE RequestIInv'
<1>1. /\ r_phase = "view" /\ r_pc <= Len(R!Program) /\ R!MwUnchanged /\ R!Writes
      /\ r_failed' = R!Step /\ r_phase' = "unwind"
      /\ \/ /\ R!Step = "resolve" /\ r_plan.scoped
            /\ r_open' = R!Front(r_open) /\ r_lost' = {R!Last(r_open)}
         \/ r_open' = r_open /\ r_lost' = r_lost
      /\ UNCHANGED <<r_pc, r_left, r_claim, r_answer, r_started>>
  BY DEF R!ViewRaise
<1>2. /\ r_pc \in DOMAIN R!Program /\ R!Step = R!Program[r_pc] /\ r_pc \in Nat
      /\ R!Program \in Seq(Names) /\ r_open \in Seq(R!Places) /\ R!Places \subseteq Nat
      /\ r_left = <<>> /\ r_lost = {} /\ r_answer = "none" /\ r_started = FALSE /\ r_told = <<>> /\ r_claim # "complete"
  BY <1>1, InTheView, PlanFacts DEF R!Step, ProgramFacts, RequestIInv
<1>3. R!Step \notin {"none", "replay"}
  <2>1. R!Step \in Names
    BY <1>2
  <2> QED BY <2>1, RequestsAssumption DEF Names, R!Steps
<1> HIDE DEF R!Step, R!Places
\* In the scoped case what is lost is the scope.
<1>4. /\ r_open' \in Seq(R!Places) /\ r_lost' \subseteq R!Places
      /\ \A i \in DOMAIN r_open' : i \in DOMAIN r_open /\ r_open'[i] = r_open[i]
      /\ \A i \in DOMAIN r_open : (i \in DOMAIN r_open' /\ r_open'[i] = r_open[i]) \/ r_open[i] \in r_lost'
      /\ \A k \in r_lost' : R!Program[k] = "scope" /\ R!Step = "resolve" /\ \E i \in DOMAIN r_open : r_open[i] = k
      /\ \A i \in DOMAIN r_open' : r_open'[i] \notin r_lost'
  <2>1. CASE r_open' = r_open /\ r_lost' = r_lost
    BY <1>2, <2>1
  <2>2. CASE R!Step = "resolve" /\ r_plan.scoped /\ r_open' = R!Front(r_open) /\ r_lost' = {R!Last(r_open)}
    <3>1. r_open # <<>> /\ R!Last(r_open) \in R!Places /\ R!Program[R!Last(r_open)] = "scope"
      BY <1>1, <2>2, ScopeIsLast
    <3>2. /\ R!Front(r_open) \in Seq(R!Places)
          /\ Len(r_open) \in DOMAIN r_open /\ R!Last(r_open) = r_open[Len(r_open)]
          /\ \A i \in DOMAIN R!Front(r_open) : i \in DOMAIN r_open /\ i < Len(r_open) /\ R!Front(r_open)[i] = r_open[i]
          /\ \A i \in DOMAIN r_open :
                i = Len(r_open) \/ (i \in DOMAIN R!Front(r_open) /\ R!Front(r_open)[i] = r_open[i])
      BY <1>2, <3>1, LastFront
    <3>3. \A i \in DOMAIN r_open : r_open[i] \in Nat
      BY <1>1, InTheView
    <3>4. \A i \in DOMAIN R!Front(r_open) : r_open[i] < r_open[Len(r_open)]
      BY <3>2 DEF RequestIInv, Stack
    <3>5. \A i \in DOMAIN R!Front(r_open) : R!Front(r_open)[i] # R!Last(r_open)
      BY <3>2, <3>3, <3>4
    <3> QED BY <2>2, <3>1, <3>2, <3>5
  <2> QED BY <1>1, <2>1, <2>2
<1>5. r_written' \in {"no", "pending", "committed", "undone"}
  BY <1>1, WritesInTheView
<1>6. RequestTypes'
  BY <1>1, <1>2, <1>4, <1>5, ViewTypesAfter DEF RequestIInv, RequestTypes, R!TypeOK
<1>7. Onion'
  BY <1>1, <1>2, OnionAfter
<1>8. Stack'
  <2>1. \A i, j \in DOMAIN r_open' : i < j => r_open'[i] < r_open'[j]
    BY <1>4 DEF RequestIInv, Stack
  <2>2. \A k \in R!Places : k < r_pc <=> \E i \in DOMAIN r_open : r_open[i] = k
    BY <1>2 DEF RequestIInv, Stack
  <2>3. \A k \in R!Places : k < r_pc' <=> (\E i \in DOMAIN r_open' : r_open'[i] = k) \/ k \in r_lost'
    BY <1>1, <1>4, <2>2
  <2>4. DOMAIN r_left' = {} /\ R!Places' = R!Places
    BY <1>1, <1>2, MwRests
  <2>5. \A i \in DOMAIN r_open' : r_open'[i] \notin r_lost'
    BY <1>4
  <2>6. \A k \in R!Places' : k < r_pc' <=> \/ \E i \in DOMAIN r_open' : r_open'[i] = k
                                           \/ \E i \in DOMAIN r_left' : r_left'[i][1] = k
                                           \/ k \in r_lost'
    <3> SUFFICES ASSUME NEW k \in R!Places
                 PROVE  k < r_pc' <=> \/ \E i \in DOMAIN r_open' : r_open'[i] = k
                                      \/ \E i \in DOMAIN r_left' : r_left'[i][1] = k
                                      \/ k \in r_lost'
      BY <2>4
    <3>1. ~\E i \in DOMAIN r_left' : r_left'[i][1] = k
      BY <2>4
    <3> QED BY <2>3, <3>1
  <2>7. /\ \A i, j \in DOMAIN r_left' : i < j => r_left'[i][1] > r_left'[j][1]
        /\ \A i \in DOMAIN r_left', j \in DOMAIN r_open' : r_left'[i][1] > r_open'[j]
        /\ \A i \in DOMAIN r_left' : r_left'[i][1] \notin r_lost'
    BY <2>4
  <2> QED BY <2>1, <2>5, <2>6, <2>7 DEF Stack
<1>9. Phases'
  BY <1>1, <1>2, <1>4, MwRests DEF Phases
<1>10. Fate'
  <2>1. r_written' = "pending" => \E i \in DOMAIN r_open' : R!Program[r_open'[i]] = "tx"
    <3>1. r_written' = "pending" => \E i \in DOMAIN r_open : R!Program[r_open[i]] = "tx"
      BY <1>1, WritesInTheView
    <3> QED BY <1>4, <3>1
  <2>2. r_written' # "undone" /\ (r_plan.atomic => r_written' # "committed")
    BY <1>1, WritesInTheView
  <2>3. r_claim # "none" => r_plan.idempotent
    BY DEF RequestIInv, Fate
  <2> QED BY <1>1, <1>3, <2>1, <2>2, <2>3, MwRests DEF Fate
<1> QED BY <1>6, <1>7, <1>8, <1>9, <1>10 DEF RequestIInv

LEMMA ViewReturnStep == ASSUME RequestIInv, R!ViewReturn PROVE RequestIInv'
<1>1. /\ r_phase = "view" /\ R!MwUnchanged
      /\ \/ R!Streaming /\ r_phase' = "response" /\ r_answer' = "ok"
         \/ ~R!Streaming /\ r_phase' = "unwind" /\ r_answer' = r_answer
      /\ UNCHANGED <<r_pc, r_open, r_left, r_lost, r_failed, r_written, r_claim, r_started>>
  BY DEF R!ViewReturn
<1>2. /\ r_left = <<>> /\ r_lost = {} /\ r_failed = "none" /\ r_answer = "none" /\ r_started = FALSE
      /\ r_told = <<>> /\ r_claim # "complete"
  BY <1>1 DEF RequestIInv, RequestTypes, R!TypeOK, Phases, Onion
<1>3. RequestTypes'
  BY <1>1, ViewTypesAfter DEF RequestIInv, RequestTypes, R!TypeOK
<1>4. Onion'
  BY <1>1, <1>2, OnionAfter
<1>5. Stack' /\ Fate'
  BY <1>1, MwRests DEF RequestIInv, Stack, Fate
<1>6. Phases'
  BY <1>1, <1>2, MwRests DEF Phases, Unread
<1> QED BY <1>3, <1>4, <1>5, <1>6 DEF RequestIInv

(* One manager is left.  The transaction is further in than whatever is    *)
(* still open once it has decided.                                         *)
LEMMA UnwindStep == ASSUME RequestIInv, R!Unwind PROVE RequestIInv'
<1> DEFINE last == R!Last(r_open)
           seen == <<last, R!Seen>>
<1>1. /\ r_phase = "unwind" /\ r_open # <<>> /\ R!MwUnchanged
      /\ r_open' = R!Front(r_open) /\ r_left' = Append(r_left, seen)
      /\ \/ /\ r_failed' = r_failed
            /\ r_written' = IF R!Program[last] = "tx" /\ r_written = "pending"
                              THEN IF R!Seen = "fine" THEN "committed" ELSE "undone"
                              ELSE r_written
         \/ /\ r_failed' = IF R!Raised THEN r_failed ELSE R!Program[last]
            /\ r_written' = IF R!Program[last] = "tx" /\ r_written = "pending" THEN "undone" ELSE r_written
      /\ UNCHANGED <<r_phase, r_pc, r_lost, r_claim, r_answer, r_started>>
  BY DEF R!Unwind
<1>2. /\ r_open \in Seq(R!Places) /\ R!Places \subseteq DOMAIN R!Program /\ R!Places \subseteq Nat
      /\ r_left \in Seq(R!Places \X {"fine", "error"}) /\ R!Seen \in {"fine", "error"}
  BY PlanFacts DEF RequestIInv, RequestTypes, R!TypeOK, ProgramFacts, R!Places, R!Seen
<1>3. ProgramFacts /\ (r_plan.atomic \/ r_plan.idempotent => ~R!Streaming)
  BY PlanFacts DEF RequestIInv
<1> HIDE DEF R!Places, R!Seen
<1>4. /\ R!Front(r_open) \in Seq(R!Places) /\ last \in R!Places
      /\ Len(r_open) \in DOMAIN r_open /\ last = r_open[Len(r_open)]
      /\ \A i \in DOMAIN R!Front(r_open) : i \in DOMAIN r_open /\ i < Len(r_open) /\ R!Front(r_open)[i] = r_open[i]
      /\ \A i \in DOMAIN r_open :
            i = Len(r_open) \/ (i \in DOMAIN R!Front(r_open) /\ R!Front(r_open)[i] = r_open[i])
  BY <1>1, <1>2, LastFront
<1> HIDE DEF last
<1>5. seen \in R!Places \X {"fine", "error"} /\ seen[1] = last
  BY <1>2, <1>4
<1> HIDE DEF seen
<1>6. /\ r_left' \in Seq(R!Places \X {"fine", "error"})
      /\ Len(r_left) + 1 \in DOMAIN r_left' /\ r_left'[Len(r_left) + 1][1] = last
      /\ \A i \in DOMAIN r_left : i \in DOMAIN r_left' /\ i < Len(r_left) + 1 /\ r_left'[i] = r_left[i]
      /\ \A i \in DOMAIN r_left' : i \in DOMAIN r_left \/ i = Len(r_left) + 1
  <2>1. Len(r_left) + 1 \in DOMAIN Append(r_left, seen)
    BY <1>2, <1>5
  <2> QED BY <1>1, <1>2, <1>5, <2>1, AppendAt
<1>7. /\ \A i \in DOMAIN r_open : r_open[i] \in R!Places
      /\ \A i \in DOMAIN r_open' : i \in DOMAIN r_open /\ r_open'[i] = r_open[i] /\ r_open'[i] < last
      /\ \A i \in DOMAIN r_open : r_open[i] = last \/ (i \in DOMAIN r_open' /\ r_open'[i] = r_open[i])
  <2>1. \A i \in DOMAIN R!Front(r_open) : r_open[i] < last
    BY <1>4 DEF RequestIInv, Stack
  <2> QED BY <1>1, <1>2, <1>4, <2>1
<1>8. r_written \in {"no", "pending", "committed", "undone"}
  BY DEF RequestIInv, RequestTypes, R!TypeOK
<1>9. r_written' \in {"no", "pending", "committed", "undone"}
  BY <1>1, <1>8
<1>10. RequestTypes'
  BY <1>1, <1>4, <1>6, <1>9, ViewTypesAfter DEF RequestIInv, RequestTypes, R!TypeOK
<1>11. Onion'
  <2>1. /\ r_phase' = "unwind" /\ ~r_started' => r_told = <<>>
        /\ r_started' => r_entered = <<>>
    BY <1>1 DEF RequestIInv, Onion
  <2> QED BY <1>1, <2>1, OnionAfter
<1>12. Stack'
  <2>1. \A i, j \in DOMAIN r_open' : i < j => r_open'[i] < r_open'[j]
    BY <1>7 DEF RequestIInv, Stack
  <2>2. \A i \in DOMAIN r_left : r_left[i][1] > last
    BY <1>4 DEF RequestIInv, Stack
  <2>3. \A i \in DOMAIN r_left' : IF i \in DOMAIN r_left THEN r_left'[i] = r_left[i] ELSE i = Len(r_left) + 1 /\ r_left'[i][1] = last
    BY <1>6
  <2>4. \A i, j \in DOMAIN r_left' : i < j => r_left'[i][1] > r_left'[j][1]
    <3> SUFFICES ASSUME NEW i \in DOMAIN r_left', NEW j \in DOMAIN r_left', i < j PROVE r_left'[i][1] > r_left'[j][1]
      OBVIOUS
    <3>1. i \in DOMAIN r_left
      <4>1. Len(r_left) \in Nat /\ i \in Nat /\ j \in Nat
        BY <1>2, <1>6
      <4>2. i # Len(r_left) + 1
        BY <1>6, <4>1
      <4> QED BY <2>3, <4>2
    <3>2. CASE j \in DOMAIN r_left
      BY <2>3, <3>1, <3>2 DEF RequestIInv, Stack
    <3>3. CASE j \notin DOMAIN r_left
      BY <2>2, <2>3, <3>1, <3>3
    <3> QED BY <3>2, <3>3
  <2>5. \A i \in DOMAIN r_left', j \in DOMAIN r_open' : r_left'[i][1] > r_open'[j]
    <3> SUFFICES ASSUME NEW i \in DOMAIN r_left', NEW j \in DOMAIN r_open' PROVE r_left'[i][1] > r_open'[j]
      OBVIOUS
    <3>1. CASE i \in DOMAIN r_left
      BY <1>7, <2>3, <3>1 DEF RequestIInv, Stack
    <3>2. CASE i \notin DOMAIN r_left
      <4>1. r_open'[j] \in Nat /\ last \in Nat /\ r_open'[j] < last
        BY <1>2, <1>4, <1>7
      <4> QED BY <2>3, <3>2, <4>1
    <3> QED BY <3>1, <3>2
  <2>6. ASSUME NEW k \in R!Places
        PROVE  (k < r_pc) <=> ((\E i \in DOMAIN r_open' : r_open'[i] = k) \/ (\E i \in DOMAIN r_left' : r_left'[i][1] = k) \/ k \in r_lost)
    <3>1. (k < r_pc) <=> ((\E i \in DOMAIN r_open : r_open[i] = k) \/ (\E i \in DOMAIN r_left : r_left[i][1] = k) \/ k \in r_lost)
      BY DEF RequestIInv, Stack
    <3>2. (\E i \in DOMAIN r_open : r_open[i] = k) <=> ((\E i \in DOMAIN r_open' : r_open'[i] = k) \/ k = last)
      BY <1>4, <1>7
    <3>3. (\E i \in DOMAIN r_left' : r_left'[i][1] = k) <=> ((\E i \in DOMAIN r_left : r_left[i][1] = k) \/ k = last)
      BY <1>6, <2>3
    <3> QED BY <3>1, <3>2, <3>3
  <2>7. /\ \A i \in DOMAIN r_open' : r_open'[i] \notin r_lost
        /\ \A i \in DOMAIN r_left' : r_left'[i][1] \notin r_lost
    BY <1>4, <1>7, <2>3 DEF RequestIInv, Stack
  <2> QED BY <1>1, <2>1, <2>4, <2>5, <2>6, <2>7, MwRests DEF Stack
<1>13. R!Program[last] \notin {"none", "replay"}
  BY <1>3, <1>4, ProgramOrder
<1>14. r_failed' = r_failed \/ (r_failed \in {"none", "replay"} /\ r_failed' = R!Program[last])
  BY <1>1 DEF R!Raised
<1>15. Phases'
  <2>1. /\ r_started => R!Streaming
        /\ ~r_started => r_answer = "none"
        /\ \A i \in r_lost : R!Program[i] = "scope" /\ r_failed = "resolve"
        /\ r_claim # "complete"
    BY <1>1 DEF RequestIInv, Phases
  <2>2. \A i \in r_lost : R!Program[i] = "scope" /\ r_failed' = "resolve"
    BY <1>14, <2>1
  <2> QED BY <1>1, <2>1, <2>2, MwRests DEF Phases
<1>16. Fate'
  <2>1. r_written' = "pending" => \E i \in DOMAIN r_open' : R!Program[r_open'[i]] = "tx"
    <3> SUFFICES ASSUME r_written' = "pending" PROVE \E i \in DOMAIN r_open' : R!Program[r_open'[i]] = "tx"
      OBVIOUS
    <3>1. r_written = "pending" /\ R!Program[last] # "tx"
      BY <1>1 DEF R!Seen
    <3>2. PICK i \in DOMAIN r_open : R!Program[r_open[i]] = "tx"
      BY <3>1 DEF RequestIInv, Fate
    <3> QED BY <1>7, <3>1, <3>2
  <2>2. r_written' = "undone" => r_failed' \notin {"none", "replay"}
    BY <1>1, <1>13 DEF R!Seen, R!Raised, RequestIInv, Fate
  <2>3. r_failed' = "replay" => r_written' = "no" /\ r_claim = "none"
    <3>1. r_failed' = "replay" => r_failed = "replay"
      BY <1>13, <1>14
    <3> QED BY <1>1, <3>1 DEF RequestIInv, Fate
  <2>4. ASSUME r_plan.atomic, r_written' = "committed"
        PROVE  /\ r_failed' \notin R!Inside
               /\ \A i \in DOMAIN r_open', j \in DOMAIN R!Program : R!Program[j] = "tx" => r_open'[i] < j
    <3>1. CASE r_written = "committed"
      <4>1. /\ r_failed \notin R!Inside
            /\ \A i \in DOMAIN r_open, j \in DOMAIN R!Program : R!Program[j] = "tx" => r_open[i] < j
        BY <2>4, <3>1 DEF RequestIInv, Fate
      <4>2. PICK j \in DOMAIN R!Program : R!Program[j] = "tx"
        BY <1>3, <2>4 DEF ProgramFacts
      <4>3. R!Program[last] \notin R!Inside
        <5>1. last < j /\ last \in DOMAIN R!Program
          BY <1>2, <1>4, <4>1, <4>2
        <5> QED BY <1>3, <1>4, <4>2, <5>1, ProgramOrder
      <4> QED BY <1>7, <1>14, <4>1, <4>3
    <3>2. CASE r_written # "committed"
      <4>1. R!Program[last] = "tx" /\ R!Seen = "fine" /\ r_failed' = r_failed
        BY <1>1, <2>4, <3>2
      <4>2. r_failed \in {"none", "replay"}
        BY <1>3, <2>4, <4>1 DEF R!Seen, R!Raised
      <4>3. R!Inside \subseteq R!Steps
        BY DEF R!Inside, R!Steps
      <4>4. r_failed' \notin R!Inside
        BY <4>1, <4>2, <4>3 DEF R!Steps
      <4>5. \A j \in DOMAIN R!Program : R!Program[j] = "tx" => j = last
        BY <1>2, <1>3, <1>4, <4>1, ProgramOrder
      <4> QED BY <1>7, <4>4, <4>5
    <3> QED BY <3>1, <3>2
  <2>5. r_claim # "none" => r_plan.idempotent
    BY DEF RequestIInv, Fate
  <2> QED BY <1>1, <2>1, <2>2, <2>3, <2>4, <2>5, MwRests DEF Fate
<1> QED BY <1>10, <1>11, <1>12, <1>15, <1>16 DEF RequestIInv

LEMMA UnwoundStep == ASSUME RequestIInv, R!Unwound PROVE RequestIInv'
<1>1. /\ r_phase = "unwind" /\ r_open = <<>> /\ R!MwUnchanged
      /\ \/ r_started /\ r_phase' = "done" /\ r_claim' = r_claim /\ r_answer' = r_answer
         \/ /\ ~r_started /\ r_phase' = "response" /\ r_claim' = R!Finished
            /\ r_answer' = IF R!Raised THEN "error" ELSE IF r_failed = "replay" THEN "replay" ELSE "ok"
         \/ ~r_started /\ r_phase' = "exception" /\ r_answer' = "raised" /\ r_claim' = r_claim
      /\ UNCHANGED <<r_pc, r_open, r_left, r_lost, r_failed, r_written, r_started>>
  BY DEF R!Unwound, RequestIInv, RequestTypes, R!TypeOK
<1>2. /\ r_claim' \in {"none", "running", "complete"} /\ (r_claim' # "none" <=> r_claim # "none")
      /\ r_answer' \in {"none", "ok", "replay", "error", "raised", "short"}
      /\ r_answer' = "ok" /\ ~r_started => r_failed = "none"
  BY <1>1 DEF RequestIInv, RequestTypes, R!TypeOK, R!Finished, R!Raised
<1>3. RequestTypes'
  BY <1>1, <1>2, ViewTypesAfter DEF RequestIInv, RequestTypes, R!TypeOK
<1>4. Onion'
  <2>1. r_started \in BOOLEAN /\ (~r_started => r_told = <<>>) /\ (r_started => r_entered = <<>>)
    BY <1>1 DEF RequestIInv, RequestTypes, R!TypeOK, Onion
  <2> QED BY <1>1, <2>1, OnionAfter
<1>5. Stack'
  BY <1>1, MwRests DEF RequestIInv, Stack
<1>6. Phases'
  <2>1. /\ r_started => R!Streaming
        /\ \A i \in r_lost : R!Program[i] = "scope" /\ r_failed = "resolve"
        /\ r_claim # "complete"
    BY <1>1 DEF RequestIInv, Phases
  <2> QED BY <1>1, <1>2, <2>1, MwRests DEF Phases
<1>7. Fate'
  BY <1>1, <1>2, MwRests DEF RequestIInv, Fate
<1> QED BY <1>3, <1>4, <1>5, <1>6, <1>7 DEF RequestIInv

(***************************************************************************)
(* The steps of a stream: its operation has neither a transaction nor a    *)
(* claim, and nothing has failed so far.                                   *)
(***************************************************************************)
LEMMA InTheStream ==
  ASSUME RequestIInv, r_phase = "stream"
  PROVE  /\ R!Streaming /\ r_failed = "none" /\ r_entered = <<>> /\ r_lost = {}
         /\ ~r_plan.atomic /\ r_claim = "none" /\ r_written # "undone"
<1>1. R!Streaming /\ r_failed = "none" /\ r_entered = <<>> /\ r_lost = {} /\ r_written # "undone"
  BY DEF RequestIInv, Phases, Onion, Fate
<1> QED BY <1>1, PlanFacts DEF RequestIInv, Fate

LEMMA StreamStep ==
  ASSUME RequestIInv, R!StreamStart \/ R!StreamEnd \/ (R!StreamClosed /\ r_plan.kind = "agenerator")
  PROVE  RequestIInv'
<1>1. /\ r_phase = "stream" /\ R!MwUnchanged /\ r_started' = TRUE /\ r_phase' \in {"stream", "unwind"}
      /\ r_failed' \in {"none", "body"} /\ (r_phase' = "stream" => r_failed' = "none")
      /\ UNCHANGED <<r_pc, r_open, r_left, r_lost, r_written, r_claim, r_answer>>
  <2>1. r_failed = "none" /\ r_started \in BOOLEAN
    BY InTheStream DEF R!StreamStart, R!StreamEnd, R!StreamClosed, RequestIInv, RequestTypes, R!TypeOK
  <2> QED BY <2>1 DEF R!StreamStart, R!StreamEnd, R!StreamClosed
<1>2. RequestTypes'
  BY <1>1, ViewTypesAfter DEF RequestIInv, RequestTypes, R!TypeOK
<1>3. Onion'
  BY <1>1, InTheStream, OnionAfter
<1>4. Stack'
  BY <1>1, MwRests DEF RequestIInv, Stack
<1>5. Phases'
  BY <1>1, InTheStream, MwRests DEF Phases
<1>6. Fate'
  BY <1>1, InTheStream, MwRests DEF RequestIInv, Fate
<1> QED BY <1>2, <1>3, <1>4, <1>5, <1>6 DEF RequestIInv

(* The managers a plain generator that nobody reads has taken over are     *)
(* lost.                                                                   *)
LEMMA StreamDropped ==
  ASSUME RequestIInv, R!StreamClosed, r_plan.kind # "agenerator"
  PROVE  RequestIInv'
<1>1. /\ r_phase = "stream" /\ R!MwUnchanged /\ ~r_started /\ r_phase' = "done" /\ r_open' = <<>>
      /\ r_lost' = r_lost \cup R!Range(r_open)
      /\ UNCHANGED <<r_pc, r_left, r_failed, r_written, r_claim, r_answer, r_started>>
  BY DEF R!StreamClosed
<1>2. /\ r_open \in Seq(R!Places) /\ r_lost' = {r_open[i] : i \in DOMAIN r_open}
      /\ \A i \in DOMAIN r_open : r_open[i] \in R!Places
      /\ R!Places \subseteq Nat
  <2>1. R!Places \subseteq Nat
    BY PlanFacts DEF RequestIInv, R!Places, ProgramFacts
  <2>2. r_open \in Seq(R!Places)
    BY DEF RequestIInv, RequestTypes, R!TypeOK
  <2> HIDE DEF R!Places
  <2>3. \A i \in DOMAIN r_open : r_open[i] \in R!Places
    BY <2>2
  <2>4. r_lost' = {r_open[i] : i \in DOMAIN r_open}
    BY <1>1, InTheStream DEF R!Range
  <2> QED BY <2>1, <2>2, <2>3, <2>4
<1>3. RequestTypes'
  <2> HIDE DEF R!Places
  <2> QED BY <1>1, <1>2, ViewTypesAfter DEF RequestIInv, RequestTypes, R!TypeOK
<1>4. Onion'
  BY <1>1, InTheStream, OnionAfter
<1>5. Stack'
  <2> HIDE DEF R!Places
  <2>1. \A i \in DOMAIN r_left : r_left[i][1] \in R!Places
    BY DEF RequestIInv, RequestTypes, R!TypeOK
  <2>2. \A i \in DOMAIN r_left : r_left[i][1] \notin r_lost'
    <3> SUFFICES ASSUME NEW i \in DOMAIN r_left, NEW j \in DOMAIN r_open, r_left[i][1] = r_open[j] PROVE FALSE
      BY <1>2
    <3>1. r_left[i][1] > r_open[j] /\ r_open[j] \in Nat
      BY <1>2 DEF RequestIInv, Stack
    <3> QED BY <3>1
  <2>3. \A k \in R!Places : (k < r_pc) <=> ((\E i \in DOMAIN r_left : r_left[i][1] = k) \/ k \in r_lost')
    BY <1>1, <1>2, InTheStream DEF RequestIInv, Stack
  <2>4. /\ \A i, j \in DOMAIN r_left : i < j => r_left[i][1] > r_left[j][1]
        /\ DOMAIN r_open' = {} /\ R!Places' = R!Places
    BY <1>1, MwRests DEF RequestIInv, Stack
  <2> QED BY <1>1, <2>2, <2>3, <2>4 DEF Stack
<1>6. Phases'
  BY <1>1, InTheStream, MwRests DEF RequestIInv, Phases, Unread
<1>7. Fate'
  <2>1. r_written # "pending"
    <3> SUFFICES ASSUME r_written = "pending" PROVE FALSE
      OBVIOUS
    <3>1. PICK i \in DOMAIN r_open : R!Program[r_open[i]] = "tx"
      BY DEF RequestIInv, Fate
    <3>2. r_open[i] \in DOMAIN R!Program
      BY <1>2 DEF R!Places
    <3> QED BY <1>1, <3>1, <3>2, InTheStream, PlanFacts DEF RequestIInv, ProgramFacts
  <2> QED BY <1>1, <2>1, InTheStream, MwRests DEF RequestIInv, Fate
<1> QED BY <1>3, <1>4, <1>5, <1>6, <1>7 DEF RequestIInv

LEMMA RequestInductive == R!Spec => []RequestIInv
<1>1. R!Init => RequestIInv
  BY InitRequest
<1>2. RequestIInv /\ [R!Next]_(R!vars) => RequestIInv'
  <2> SUFFICES ASSUME RequestIInv, [R!Next]_(R!vars) PROVE RequestIInv'
    OBVIOUS
  <2>1. CASE R!MwRequest \/ R!MwCall \/ R!MwResponse \/ R!MwException \/ R!MwDone
    BY <2>1, MwRequestStep, MwCallStep, MwTellStep, MwDoneStep
  <2>2. CASE R!ViewStep \/ R!ViewReplay \/ R!ViewRaise \/ R!ViewReturn
    BY <2>2, ViewStepStep, ViewReplayStep, ViewRaiseStep, ViewReturnStep
  <2>3. CASE R!Unwind \/ R!Unwound
    BY <2>3, UnwindStep, UnwoundStep
  <2>4. CASE R!StreamStart \/ R!StreamEnd \/ R!StreamClosed
    BY <2>4, StreamStep, StreamDropped
  <2>5. CASE R!Finish \/ UNCHANGED R!vars
    <3>1. R!ViewUnchanged /\ UNCHANGED <<r_phase, r_mw, r_entered, r_told, r_counting, r_answer>>
      BY <2>5 DEF R!Finish, R!vars, R!ViewUnchanged
    <3>2. RequestTypes'
      <4>1. /\ UNCHANGED <<r_plan, r_pc, r_open, r_left, r_lost, r_failed, r_written, r_claim, r_started>>
            /\ R!Program' = R!Program /\ R!Places' = R!Places /\ R!Valid(r_plan)' = R!Valid(r_plan)
        BY <3>1, ViewRests
      <4> QED BY <3>1, <4>1 DEF RequestIInv, RequestTypes, R!TypeOK
    <3>3. Onion' /\ Phases' /\ Fate'
      BY <3>1, ViewRests DEF RequestIInv, Onion, Phases, Fate, Unread
    <3> QED BY <3>1, <3>2, <3>3, ViewRests DEF RequestIInv
  <2> QED BY <2>1, <2>2, <2>3, <2>4, <2>5 DEF R!Next
<1> QED BY <1>1, <1>2, PTL DEF R!Spec

(***************************************************************************)
(* What the run checks.                                                    *)
(***************************************************************************)
LEMMA UnwindsInOrder == ASSUME RequestIInv PROVE R!MiddlewareUnwinds
<1> SUFFICES ASSUME r_phase = "done"
             PROVE  /\ [i \in DOMAIN r_told |-> r_told[i][1]] = R!Reverse(SubSeq(Middlewares, 1, r_mw - 1))
                    /\ \A i, j \in DOMAIN r_told : i < j /\ r_told[i][2] = "exception" => r_told[j][2] = "exception"
                    /\ \A m \in Loggers : r_counting[m] # "stored"
  BY DEF R!MiddlewareUnwinds
<1>1. r_entered = <<>> /\ Len(r_told) = r_mw - 1 /\ \A i \in DOMAIN r_told : r_told[i][1] = Middlewares[r_mw - i]
  BY DEF RequestIInv, RequestTypes, R!TypeOK, Onion
<1>2. /\ r_mw \in 1..(Len(Middlewares) + 1) /\ Len(Middlewares) \in Nat /\ Middlewares \in Seq(R!Range(Middlewares))
      /\ r_told \in Seq(R!Range(Middlewares) \X {"response", "exception"})
  BY RequestsAssumption DEF RequestIInv, RequestTypes, R!TypeOK, R!Range, Range
<1> DEFINE s == SubSeq(Middlewares, 1, r_mw - 1)
<1>3. Len(s) = r_mw - 1 /\ \A i \in 1..(r_mw - 1) : s[i] = Middlewares[i]
  BY <1>2
<1>4. DOMAIN r_told = 1..(r_mw - 1)
  BY <1>1, <1>2
<1>5. R!Reverse(s) = [i \in 1..(r_mw - 1) |-> s[(r_mw - 1) - i + 1]]
  BY <1>3 DEF R!Reverse
<1> HIDE DEF s
<1>6. \A i \in 1..(r_mw - 1) : s[(r_mw - 1) - i + 1] = r_told[i][1]
  <2> SUFFICES ASSUME NEW i \in 1..(r_mw - 1) PROVE s[(r_mw - 1) - i + 1] = r_told[i][1]
    OBVIOUS
  <2>1. (r_mw - 1) - i + 1 = r_mw - i /\ r_mw - i \in 1..(r_mw - 1)
    BY <1>2
  <2> QED BY <1>1, <1>3, <1>4, <2>1
<1>7. [i \in DOMAIN r_told |-> r_told[i][1]] = R!Reverse(s)
  BY <1>4, <1>5, <1>6
<1>8. \A m \in Loggers : r_counting[m] # "stored"
  BY <1>1 DEF RequestIInv, Onion
<1> QED BY <1>7, <1>8 DEF s, RequestIInv, Onion

LEMMA AnswersTellTheFate == ASSUME RequestIInv PROVE R!WholeOrNothing /\ R!ClaimSettled
<1>1. /\ r_answer \in {"none", "ok", "replay", "error", "raised", "short"} /\ r_started \in BOOLEAN
      /\ r_phase \in {"request", "view", "unwind", "response", "exception", "stream", "done"}
      /\ r_written \in {"no", "pending", "committed", "undone"}
      /\ r_plan.atomic \/ r_plan.idempotent => ~R!Streaming
  BY PlanFacts DEF RequestIInv, RequestTypes, R!TypeOK
<1>2. r_answer = "ok" /\ ~R!Streaming => r_failed = "none" /\ r_open = <<>> /\ r_phase \in {"response", "exception", "done"}
  BY <1>1 DEF RequestIInv, Phases, Unread
<1>3. r_open = <<>> => r_written # "pending"
  BY DEF RequestIInv, Fate
<1>4. R!WholeOrNothing
  BY <1>1, <1>2, <1>3 DEF R!WholeOrNothing, RequestIInv, Fate
<1>5. R!ClaimSettled
  BY <1>1, <1>2, <1>3 DEF R!ClaimSettled, RequestIInv, Phases, Fate
<1> QED BY <1>4, <1>5

LEMMA EverythingIsLeft == ASSUME RequestIInv PROVE R!ManagersLeft
<1> SUFFICES ASSUME r_phase = "done", R!Streaming /\ r_failed = "none" => r_started
             PROVE  /\ r_open = <<>> /\ \A i \in r_lost : R!Program[i] = "scope" /\ r_failed = "resolve"
                    /\ {r_left[i][1] : i \in DOMAIN r_left} = {i \in R!Places : i < r_pc} \ r_lost
                    /\ \A i, j \in DOMAIN r_left : i < j => r_left[i][1] > r_left[j][1]
  BY DEF R!ManagersLeft
<1>1. ~Unread
  BY DEF Unread
<1>2. r_open = <<>> /\ \A i \in r_lost : R!Program[i] = "scope" /\ r_failed = "resolve"
  BY <1>1 DEF RequestIInv, Phases
<1>3. r_left \in Seq(R!Places \X {"fine", "error"})
  BY DEF RequestIInv, RequestTypes, R!TypeOK
<1> HIDE DEF R!Places
<1>4. \A i \in DOMAIN r_left : r_left[i][1] \in R!Places /\ r_left[i][1] \notin r_lost
  BY <1>3 DEF RequestIInv, Stack
<1>5. \A k \in R!Places : (k < r_pc) <=> ((\E i \in DOMAIN r_left : r_left[i][1] = k) \/ k \in r_lost)
  BY <1>2 DEF RequestIInv, Stack
<1>6. {r_left[i][1] : i \in DOMAIN r_left} = {i \in R!Places : i < r_pc} \ r_lost
  BY <1>4, <1>5
<1> QED BY <1>2, <1>6 DEF RequestIInv, Stack

(* One request, with any middlewares, hooks and plans: every middleware    *)
(* hears once of its end, every manager entered is left once and in        *)
(* reverse, the claim on its key is settled, and its answer tells the fate *)
(* of what the handler wrote (http/middleware.py:89-150,                   *)
(* routing/invocation.py:89-190).                                          *)
THEOREM RequestsUnwindAlways == R!Spec => []RequestsUnwind
<1>1. RequestIInv => RequestsUnwind
  BY UnwindsInOrder, AnswersTellTheFate, EverythingIsLeft DEF RequestIInv, RequestTypes, RequestsUnwind
<1> QED BY <1>1, RequestInductive, PTL
=============================================================================
