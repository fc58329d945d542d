--------------------------- MODULE IdempotencyProofs ---------------------------
(***************************************************************************)
(* Proofs about Idempotency for every set of requests and keys, every      *)
(* assignment of keys and fingerprints and every retention.                *)
(***************************************************************************)
EXTENDS Idempotency, TLAPS

(* A row, in the table or as some request read it, belongs to a request    *)
(* with that key and fingerprint; a complete one holds the response of its *)
(* owner, whose handler ran.                                               *)
RowInv(row, k) ==
  /\ row.state = "absent" => row = Absent
  /\ row.state # "absent" =>
       /\ row.token \in Requests
       /\ KeyOf[row.token] = k /\ FingerprintOf[row.token] = row.fingerprint
  /\ row.state = "complete" =>
       row.content = row.token /\ row.content \in executed /\ row.expires \in Nat

RowsInv ==
  /\ \A k \in Keys : RowInv(record[k], k)
  /\ \A r \in Requests : RowInv(seen[r], KeyOf[r])

(* A request past acquire() finds its own running record, unless an        *)
(* operator has deleted it.                                                *)
OwnerInv ==
  /\ \A r \in Requests :
       Owns(r) => r \in reconciled \/ (Mine(r).state = "running" /\ Mine(r).token = r)
  /\ \A r \in Requests : pc[r] = "ran" => r \in executed
  /\ \A r \in Requests : pc[r] = "decide" => seen[r].state # "absent"

IInv == TypeOK /\ RowsInv /\ OwnerInv /\ ReplayIsFaithful

LEMMA OwnedType == \A r \in Requests : Owned(r) \in Row
  BY ConstantsAssumption DEF Owned, Row

LEMMA InitInv == Init => IInv
  BY ConstantsAssumption
  DEF Init, IInv, TypeOK, RowsInv, RowInv, OwnerInv, ReplayIsFaithful, Owns, Absent, Row

LEMMA StepInv == IInv /\ [Next]_vars => IInv'
<1> SUFFICES ASSUME IInv, [Next]_vars PROVE IInv'
  OBVIOUS
<1> USE ConstantsAssumption DEF IInv
<1>0. CASE UNCHANGED vars
  BY <1>0 DEF vars, TypeOK, RowsInv, RowInv, OwnerInv, ReplayIsFaithful, Owns, Mine
<1>1. CASE Tick
  BY <1>1 DEF Tick, TypeOK, RowsInv, RowInv, OwnerInv, ReplayIsFaithful, Owns, Mine
<1>2. ASSUME NEW r \in Requests, Get(r) PROVE IInv'
  <2>1. TypeOK'
    BY <1>2 DEF Get, TypeOK, Mine, Goto
  <2>2. RowsInv'
    BY <1>2 DEF Get, TypeOK, RowsInv, RowInv, Mine
  <2>3. OwnerInv'
    BY <1>2 DEF Get, TypeOK, OwnerInv, Owns, Mine, Goto
  <2>4. ReplayIsFaithful'
    BY <1>2 DEF Get, TypeOK, ReplayIsFaithful, Goto
  <2> QED BY <2>1, <2>2, <2>3, <2>4
<1>3. ASSUME NEW r \in Requests, Insert(r) PROVE IInv'
  <2>1. TypeOK'
    BY <1>3, OwnedType DEF Insert, TypeOK, Goto
  <2>2. RowsInv'
    BY <1>3 DEF Insert, TypeOK, RowsInv, RowInv, Owned
  <2>3. OwnerInv'
    BY <1>3 DEF Insert, TypeOK, OwnerInv, Owns, Mine, Goto, Owned
  <2>4. ReplayIsFaithful'
    BY <1>3 DEF Insert, TypeOK, ReplayIsFaithful, Goto
  <2> QED BY <2>1, <2>2, <2>3, <2>4
<1>4. ASSUME NEW r \in Requests, GetAgain(r) PROVE IInv'
  <2>1. TypeOK'
    BY <1>4 DEF GetAgain, TypeOK, Mine, Goto
  <2>2. RowsInv'
    BY <1>4 DEF GetAgain, TypeOK, RowsInv, RowInv, Mine
  <2>3. OwnerInv'
    BY <1>4 DEF GetAgain, TypeOK, OwnerInv, Owns, Mine, Goto
  <2>4. ReplayIsFaithful'
    BY <1>4 DEF GetAgain, TypeOK, ReplayIsFaithful, Goto
  <2> QED BY <2>1, <2>2, <2>3, <2>4
<1>5. ASSUME NEW r \in Requests, TakeOver(r) PROVE IInv'
  <2>1. TypeOK'
    BY <1>5, OwnedType DEF TakeOver, TypeOK, Goto
  <2>2. RowsInv'
    BY <1>5 DEF TakeOver, TypeOK, RowsInv, RowInv, Owned
  <2>3. OwnerInv'
    BY <1>5 DEF TakeOver, TypeOK, OwnerInv, Owns, Mine, Goto, Owned, Unchanged, Expired
  <2>4. ReplayIsFaithful'
    BY <1>5 DEF TakeOver, TypeOK, ReplayIsFaithful, Goto
  <2> QED BY <2>1, <2>2, <2>3, <2>4
<1>6. ASSUME NEW r \in Requests, Conflict(r) \/ Mismatch(r) PROVE IInv'
  BY <1>6 DEF Conflict, Mismatch, TypeOK, RowsInv, RowInv, OwnerInv, ReplayIsFaithful, Owns,
      Mine, Goto
<1>7. ASSUME NEW r \in Requests, Replay(r) PROVE IInv'
  <2>1. TypeOK'
    BY <1>7 DEF Replay, TypeOK, Row, Goto
  <2>2. RowsInv'
    BY <1>7 DEF Replay, RowsInv, RowInv
  <2>3. OwnerInv'
    BY <1>7 DEF Replay, TypeOK, OwnerInv, Owns, Mine, Goto
  <2>4. ReplayIsFaithful'
    BY <1>7 DEF Replay, TypeOK, ReplayIsFaithful, Goto, SameRequest, RowsInv, RowInv
  <2> QED BY <2>1, <2>2, <2>3, <2>4
<1>8. ASSUME NEW r \in Requests, Execute(r) PROVE IInv'
  <2>1. TypeOK'
    BY <1>8 DEF Execute, TypeOK, Goto
  <2>2. RowsInv'
    BY <1>8 DEF Execute, RowsInv, RowInv
  <2>3. OwnerInv'
    BY <1>8 DEF Execute, TypeOK, OwnerInv, Owns, Mine, Goto
  <2>4. ReplayIsFaithful'
    BY <1>8 DEF Execute, TypeOK, ReplayIsFaithful, Goto
  <2> QED BY <2>1, <2>2, <2>3, <2>4
<1>9. ASSUME NEW r \in Requests, Finish(r) PROVE IInv'
  <2> DEFINE done == [Mine(r) EXCEPT !.state = "complete", !.content = r, !.expires = now + TTL]
  <2>1. /\ KeyOf[r] \in Keys /\ Mine(r) \in Row /\ now + TTL \in Nat
    BY DEF TypeOK, Mine
  <2>2. /\ done \in Row /\ done.state = "complete" /\ done.content = r /\ done.expires \in Nat
        /\ done.token = Mine(r).token /\ done.fingerprint = Mine(r).fingerprint
    BY <2>1 DEF Row
  <2>3. record' = IF Finishable(r) THEN [record EXCEPT ![KeyOf[r]] = done] ELSE record
    BY <1>9 DEF Finish, Mine
  <2>4. TypeOK'
    <3>1. record' \in [Keys -> Row]
      BY <2>1, <2>2, <2>3 DEF TypeOK
    <3> QED BY <1>9, <3>1 DEF Finish, TypeOK, Goto
  <2>5. RowsInv'
    <3>1. r \in executed /\ executed' = executed /\ seen' = seen
      BY <1>9 DEF Finish, OwnerInv
    <3>2. Finishable(r) => RowInv(done, KeyOf[r])
      BY <2>1, <2>2, <3>1 DEF Finishable, RowsInv, RowInv, Mine
    <3> QED BY <2>1, <2>3, <3>1, <3>2 DEF TypeOK, RowsInv, RowInv
  <2>6. OwnerInv'
    BY <1>9, <2>3 DEF Finish, TypeOK, OwnerInv, Owns, Mine, Goto, Finishable
  <2>7. ReplayIsFaithful'
    BY <1>9 DEF Finish, TypeOK, ReplayIsFaithful, Goto
  <2> QED BY <2>4, <2>5, <2>6, <2>7
<1>10. ASSUME NEW r \in Requests, Abandon(r) PROVE IInv'
  <2>1. TypeOK'
    BY <1>10 DEF Abandon, TypeOK, Goto
  <2>2. RowsInv'
    BY <1>10 DEF Abandon, RowsInv, RowInv
  <2>3. OwnerInv'
    BY <1>10 DEF Abandon, TypeOK, OwnerInv, Owns, Mine, Goto
  <2>4. ReplayIsFaithful'
    BY <1>10 DEF Abandon, TypeOK, ReplayIsFaithful, Goto
  <2> QED BY <2>1, <2>2, <2>3, <2>4
<1>11. ASSUME NEW k \in Keys, Reconcile(k) PROVE IInv'
  <2>1. Absent \in Row /\ record[k].token \in Requests
    BY <1>11 DEF Absent, Row, Reconcile, RowsInv, RowInv
  <2>2. TypeOK'
    BY <1>11, <2>1 DEF Reconcile, TypeOK
  <2>3. RowsInv'
    BY <1>11 DEF Reconcile, TypeOK, RowsInv, RowInv, Absent
  <2>4. OwnerInv'
    BY <1>11 DEF Reconcile, TypeOK, OwnerInv, Owns, Mine
  <2>5. ReplayIsFaithful'
    BY <1>11 DEF Reconcile, ReplayIsFaithful
  <2> QED BY <2>2, <2>3, <2>4, <2>5
<1> QED
  BY <1>0, <1>1, <1>2, <1>3, <1>4, <1>5, <1>6, <1>7, <1>8, <1>9, <1>10, <1>11 DEF Next

(* The inductive invariant holds in every reachable state.                 *)
THEOREM Invariance == Spec => []IInv
<1>1. Init => IInv
  BY InitInv
<1>2. IInv /\ [Next]_vars => IInv'
  BY StepInv
<1> QED BY <1>1, <1>2, PTL DEF Spec

(* Records, snapshots and tokens have the types TypeOK gives, for any constants. *)
THEOREM TypeCorrect == Spec => []TypeOK
<1>1. IInv => TypeOK
  BY DEF IInv
<1> QED BY <1>1, Invariance, PTL

LEMMA OwnerExcludes == IInv => ExclusiveUnlessReconciled
  BY DEF IInv, OwnerInv, ExclusiveUnlessReconciled, Mine

(* Requests with one key never run the operation at the same time, unless  *)
(* an operator has deleted the running record of one of them.              *)
THEOREM Exclusive == Spec => []ExclusiveUnlessReconciled
  BY Invariance, OwnerExcludes, PTL

(* Every replay is the response of an execution of the same request.       *)
THEOREM FaithfulReplay == Spec => []ReplayIsFaithful
<1>1. IInv => ReplayIsFaithful
  BY DEF IInv
<1> QED BY <1>1, Invariance, PTL

LEMMA StepRetains ==
  ASSUME IInv, Next, NEW k \in Keys, record[k].state = "complete", record'[k] # record[k]
  PROVE  record[k].expires <= now
<1>1. CASE \E r \in Requests : Insert(r)
  BY <1>1 DEF Insert, Mine, IInv, TypeOK
<1>2. CASE \E r \in Requests : TakeOver(r)
  BY <1>2 DEF TakeOver, Unchanged, Expired, Mine, IInv, TypeOK
<1>3. CASE \E r \in Requests : Finish(r)
  BY <1>3 DEF Finish, Finishable, Mine, IInv, TypeOK
<1>4. CASE \E j \in Keys : Reconcile(j)
  BY <1>4 DEF Reconcile, IInv, TypeOK
<1> QED BY <1>1, <1>2, <1>3, <1>4
  DEF Next, Tick, Get, GetAgain, Conflict, Mismatch, Replay, Execute, Abandon

(* A complete record is kept until its retention has passed.               *)
THEOREM Retained == Spec => CompletedIsRetained
<1>1. IInv /\ [Next]_vars =>
        [\A k \in Keys : record[k].state = "complete" /\ record'[k] # record[k] =>
           record[k].expires <= now]_vars
  BY StepRetains
<1> QED BY <1>1, Invariance, PTL DEF Spec, CompletedIsRetained

LEMMA StepOwned ==
  ASSUME IInv, Next, NEW k \in Keys, record[k].state = "running", record'[k] # record[k]
  PROVE  \/ record'[k] = Absent
         \/ /\ record'[k].state = "complete"
            /\ record'[k].token = record[k].token /\ record'[k].content = record[k].token
<1>1. CASE \E r \in Requests : Insert(r)
  BY <1>1 DEF Insert, Mine, IInv, TypeOK
<1>2. CASE \E r \in Requests : TakeOver(r)
  BY <1>2 DEF TakeOver, Unchanged, Expired, Mine, IInv, TypeOK
<1>3. CASE \E r \in Requests : Finish(r)
  BY <1>3 DEF Finish, Finishable, Mine, IInv, TypeOK, Row
<1>4. CASE \E j \in Keys : Reconcile(j)
  BY <1>4 DEF Reconcile, IInv, TypeOK
<1> QED BY <1>1, <1>2, <1>3, <1>4
  DEF Next, Tick, Get, GetAgain, Conflict, Mismatch, Replay, Execute, Abandon

(* A running record is completed by its owner alone, or deleted.           *)
THEOREM OwnedRecord == Spec => RunningIsOwned
<1>1. IInv /\ [Next]_vars =>
        [\A k \in Keys : record[k].state = "running" /\ record'[k] # record[k] =>
           \/ record'[k] = Absent
           \/ /\ record'[k].state = "complete"
              /\ record'[k].token = record[k].token /\ record'[k].content = record[k].token]_vars
  BY StepOwned
<1> QED BY <1>1, Invariance, PTL DEF Spec, RunningIsOwned
=============================================================================
