------------------------- MODULE WebhookOutboxProofs -------------------------
(***************************************************************************)
(* Proofs about WebhookOutbox for every set of endpoints, events, workers, *)
(* editors and tokens, every retry schedule and every bound on the clock.  *)
(***************************************************************************)
EXTENDS WebhookOutbox, TLAPS

Active == {"claimed", "sending", "sent"}

(* A worker past its claim knows its row and its token, and the event of   *)
(* the row was committed; a worker without a claim has no token.           *)
ClaimKnown ==
  \A w \in Workers :
    IF worker[w].pc \in Active
    THEN worker[w].d # Null /\ worker[w].token # Null
         /\ event[worker[w].d[1]].state \in {"stored", "pruned"}
    ELSE worker[w].token = Null

(* A worker knows when it sent, and a 2xx answer means a receiver accepted. *)
AnswerKnown ==
  \A w \in Workers :
    worker[w].pc = "sent" =>
      worker[w].at \in Nat /\ (worker[w].ok => received[worker[w].d])

TokensDistinct ==
  \A w1, w2 \in Workers :
    worker[w1].token = worker[w2].token /\ worker[w1].token # Null => w1 = w2

WorkerInv == ClaimKnown /\ AnswerKnown /\ TokensDistinct

(* A row exists only while its event is stored.                            *)
EventInv ==
  \A d \in Deliveries : row[d].status # "absent" => event[d[1]].state = "stored"

(* A PENDING row has an attempt left in the schedule.                      *)
AttemptsInv ==
  \A d \in Deliveries : row[d].status = "pending" => row[d].attempts <= Len(Schedule)

IInv == TypeOK /\ RowCoherent /\ AttemptsInv /\ EventInv /\ WorkerInv /\ OnlyCommittedEventsAreSent

(* What RowCoherent and AttemptsInv say of one row.                        *)
RowOK(r) ==
  IF r.status = "pending" THEN r.nextAt # Null /\ r.attempts <= Len(Schedule)
  ELSE r.nextAt = Null /\ r.lease = Null

-----------------------------------------------------------------------------
(* The values written by the actions.                                      *)

LEMMA NewRowType ==
  ASSUME NEW at \in Nat
  PROVE  /\ NewRow(at) \in DeliveryRow /\ NewRow(at).status = "pending"
         /\ RowOK(NewRow(at))
<1>1. Len(Schedule) \in Nat /\ at # Null
  BY ConstantsAssumption
<1>2. NewRow(at).status = "pending" /\ NewRow(at).attempts = 0 /\ NewRow(at).nextAt = at
  BY DEF NewRow, NoRow
<1>3. NewRow(at) \in DeliveryRow
  BY DEF NewRow, NoRow, DeliveryRow, Time
<1> QED BY <1>1, <1>2, <1>3 DEF RowOK

LEMMA NoRowType == NoRow \in DeliveryRow /\ NoRow.status = "absent" /\ RowOK(NoRow)
  BY DEF NoRow, DeliveryRow, Time, RowOK

LEMMA IdleType == Idle \in WorkerState /\ Idle.pc = "idle" /\ Idle.token = Null
  BY DEF Idle, WorkerState, Time

LEMMA RestType ==
  ASSUME NEW todo \in SUBSET Deliveries
  PROVE  /\ Rest(todo) \in WorkerState
         /\ Rest(todo).pc \in {"idle", "batch"} /\ Rest(todo).token = Null
  BY DEF Rest, Idle, WorkerState, Time

LEMMA ClosedType ==
  ASSUME TypeOK, WorkerInv, NEW w \in Workers, worker[w].pc = "sent",
         NEW status \in {"succeeded", "failed"}
  PROVE  /\ worker[w].d \in Deliveries /\ Attempt(w) \in Nat
         /\ TargetOf(w) \in Endpoints /\ endpoint[TargetOf(w)] \in EndpointRow
         /\ Closed(w, status) \in DeliveryRow /\ Closed(w, status).status = status
         /\ RowOK(Closed(w, status))
<1>1. worker[w].d \in Deliveries
  BY DEF TypeOK, WorkerInv, ClaimKnown, WorkerState, Active
<1>2. Attempt(w) \in Nat
  BY <1>1 DEF TypeOK, DeliveryRow, Attempt
<1>3. TargetOf(w) \in Endpoints /\ endpoint[TargetOf(w)] \in EndpointRow
  BY <1>1 DEF TargetOf, EndpointOf, Deliveries, TypeOK
<1> QED BY <1>1, <1>2, <1>3 DEF Closed, DeliveryRow, Time, RowOK

-----------------------------------------------------------------------------
(* What keeps each part of the invariant.                                  *)

(* A part holds as long as the variables it reads are unchanged.           *)
LEMMA Frame ==
  ASSUME IInv
  PROVE  /\ UNCHANGED row => RowCoherent' /\ AttemptsInv'
         /\ UNCHANGED <<row, event>> => EventInv'
         /\ UNCHANGED <<worker, event, received>> => WorkerInv'
         /\ UNCHANGED <<event, received>> => OnlyCommittedEventsAreSent'
  BY DEF IInv, RowCoherent, AttemptsInv, EventInv, WorkerInv, ClaimKnown, AnswerKnown,
         TokensDistinct, OnlyCommittedEventsAreSent

LEMMA RowsKept ==
  ASSUME RowCoherent, AttemptsInv,
         \A d \in Deliveries : row'[d] = row[d] \/ RowOK(row'[d])
  PROVE  RowCoherent' /\ AttemptsInv'
  BY DEF RowCoherent, AttemptsInv, RowOK

LEMMA NoRowAppears ==
  ASSUME EventInv, UNCHANGED event,
         \A d \in Deliveries : row'[d].status # "absent" => row[d].status # "absent"
  PROVE  EventInv'
  BY DEF EventInv

(* A worker that holds no claim afterwards.                                *)
LEMMA WorkerLeaves ==
  ASSUME TypeOK, WorkerInv, NEW w \in Workers, NEW next \in WorkerState,
         next.pc \in {"idle", "batch"}, next.token = Null,
         worker' = [worker EXCEPT ![w] = next], UNCHANGED <<event, received>>
  PROVE  WorkerInv' /\ worker' \in [Workers -> WorkerState]
<1>1. worker'[w] = next /\ \A v \in Workers \ {w} : worker'[v] = worker[v]
  BY DEF TypeOK
<1> QED BY <1>1 DEF TypeOK, WorkerInv, ClaimKnown, AnswerKnown, TokensDistinct, Active

LEMMA ReturnInv ==
  ASSUME TypeOK, WorkerInv, NEW w \in Workers, Return(w)
  PROVE  WorkerInv' /\ worker' \in [Workers -> WorkerState]
<1>1. worker[w].todo \in SUBSET Deliveries
  BY DEF TypeOK, WorkerState
<1> QED BY <1>1, RestType, WorkerLeaves DEF Return

(* The finalization of worker w's row alone.                               *)
LEMMA FinalizeInv ==
  ASSUME IInv, NEW w \in Workers, Finalizing(w), Return(w),
         NEW r \in DeliveryRow, RowOK(r), row' = [row EXCEPT ![worker[w].d] = r],
         endpoint' \in [Endpoints -> EndpointRow]
  PROVE  IInv'
<1>1. worker[w].d \in Deliveries
  BY ClosedType DEF Finalizing, IInv
<1>2. TypeOK'
  BY <1>1, ReturnInv DEF TypeOK, IInv, Return
<1>3. RowCoherent' /\ AttemptsInv'
  BY <1>1, RowsKept DEF IInv, TypeOK
<1>4. EventInv'
  BY <1>1, NoRowAppears DEF IInv, TypeOK, Return, Finalizing, Owned
<1>5. WorkerInv' /\ OnlyCommittedEventsAreSent'
  BY ReturnInv, Frame DEF IInv, Return
<1> QED BY <1>2, <1>3, <1>4, <1>5 DEF IInv

-----------------------------------------------------------------------------
LEMMA InitInv == Init => IInv
  BY ConstantsAssumption
  DEF IInv, Init, TypeOK, RowCoherent, AttemptsInv, EventInv, WorkerInv, ClaimKnown,
      AnswerKnown, TokensDistinct, OnlyCommittedEventsAreSent, EndpointRow, EventRow,
      DeliveryRow, WorkerState, EditState, Time, NoRow, NoEvent, NoEdit, Idle, Active

LEMMA StepInv == IInv /\ [Next]_vars => IInv'
<1> SUFFICES ASSUME IInv, [Next]_vars PROVE IInv'
  OBVIOUS
<1> USE ConstantsAssumption DEF IInv
<1>0. CASE UNCHANGED vars
  BY <1>0, Frame DEF vars, TypeOK
<1>1. CASE Tick
  BY <1>1, Frame DEF Tick, TypeOK
<1>2. ASSUME NEW ev \in Events, PublishRead(ev) PROVE IInv'
  <2>1. TypeOK'
    BY <1>2 DEF PublishRead, TypeOK, EventRow
  <2>2. RowCoherent' /\ AttemptsInv'
    BY <1>2, Frame DEF PublishRead
  <2>3. EventInv'
    BY <1>2 DEF PublishRead, EventInv, TypeOK
  <2>4. WorkerInv'
    BY <1>2 DEF PublishRead, WorkerInv, ClaimKnown, AnswerKnown, TokensDistinct, TypeOK
  <2>5. OnlyCommittedEventsAreSent'
    BY <1>2 DEF PublishRead, OnlyCommittedEventsAreSent, TypeOK
  <2> QED BY <2>1, <2>2, <2>3, <2>4, <2>5
<1>3. ASSUME NEW ev \in Events, PublishCommit(ev) PROVE IInv'
  <2>1. event[ev].at \in Nat /\ [event[ev] EXCEPT !.state = "stored"] \in EventRow
    BY DEF TypeOK, EventRow
  <2>2. /\ NewRow(event[ev].at) \in DeliveryRow /\ RowOK(NewRow(event[ev].at))
    BY <2>1, NewRowType
  <2>3. event' = [event EXCEPT ![ev] = [event[ev] EXCEPT !.state = "stored"]]
    BY <1>3 DEF PublishCommit
  <2>4. TypeOK'
    BY <1>3, <2>1, <2>2, <2>3 DEF TypeOK, PublishCommit
  <2>5. RowCoherent' /\ AttemptsInv'
    BY <1>3, <2>2, RowsKept DEF PublishCommit
  <2>6. EventInv'
    BY <1>3, <2>1, <2>3 DEF PublishCommit, EventInv, TypeOK
  <2>7. WorkerInv'
    BY <1>3 DEF PublishCommit, WorkerInv, ClaimKnown, AnswerKnown, TokensDistinct, TypeOK, EventRow
  <2>8. OnlyCommittedEventsAreSent'
    BY <1>3 DEF PublishCommit, OnlyCommittedEventsAreSent, TypeOK, EventRow
  <2> QED BY <2>4, <2>5, <2>6, <2>7, <2>8
<1>4. ASSUME NEW ev \in Events, PublishRollback(ev) PROVE IInv'
  <2>1. TypeOK'
    BY <1>4 DEF PublishRollback, TypeOK, EventRow, NoEvent
  <2>2. RowCoherent' /\ AttemptsInv'
    BY <1>4, Frame DEF PublishRollback
  <2>3. EventInv'
    BY <1>4 DEF PublishRollback, EventInv, TypeOK
  <2>4. WorkerInv'
    BY <1>4 DEF PublishRollback, WorkerInv, ClaimKnown, AnswerKnown, TokensDistinct, TypeOK
  <2>5. OnlyCommittedEventsAreSent'
    BY <1>4 DEF PublishRollback, OnlyCommittedEventsAreSent, TypeOK
  <2> QED BY <2>1, <2>2, <2>3, <2>4, <2>5
<1>5. ASSUME NEW ev \in Events, Prune(ev) PROVE IInv'
  <2>1. TypeOK'
    BY <1>5, NoRowType DEF Prune, TypeOK, EventRow
  <2>2. RowCoherent' /\ AttemptsInv'
    BY <1>5, NoRowType, RowsKept DEF Prune
  <2>3. EventInv'
    BY <1>5, NoRowType DEF Prune, EventInv, TypeOK
  <2>4. WorkerInv'
    BY <1>5 DEF Prune, WorkerInv, ClaimKnown, AnswerKnown, TokensDistinct, TypeOK
  <2>5. OnlyCommittedEventsAreSent'
    BY <1>5 DEF Prune, OnlyCommittedEventsAreSent, TypeOK
  <2> QED BY <2>1, <2>2, <2>3, <2>4, <2>5
<1>6. ASSUME NEW ev \in Events, NEW e \in Endpoints, Ping(ev, e) PROVE IInv'
  <2>1. <<ev, e>> \in Deliveries /\ NewRow(now) \in DeliveryRow /\ RowOK(NewRow(now))
    BY NewRowType DEF Deliveries, TypeOK
  <2>2. TypeOK'
    BY <1>6, <2>1 DEF Ping, TypeOK, EventRow
  <2>3. RowCoherent' /\ AttemptsInv'
    BY <1>6, <2>1, RowsKept DEF Ping, TypeOK
  <2>4. EventInv'
    BY <1>6, <2>1 DEF Ping, EventInv, TypeOK
  <2>5. WorkerInv'
    BY <1>6 DEF Ping, WorkerInv, ClaimKnown, AnswerKnown, TokensDistinct, TypeOK
  <2>6. OnlyCommittedEventsAreSent'
    BY <1>6 DEF Ping, OnlyCommittedEventsAreSent, TypeOK
  <2> QED BY <2>2, <2>3, <2>4, <2>5, <2>6
<1>7. ASSUME NEW e \in Endpoints, CreateEndpoint(e) PROVE IInv'
  <2>1. TypeOK'
    BY <1>7 DEF CreateEndpoint, TypeOK, EndpointRow, Time
  <2> QED BY <1>7, <2>1, Frame DEF CreateEndpoint
<1>8. ASSUME NEW e \in Endpoints, AdminEnable(e) PROVE IInv'
  <2>1. TypeOK'
    BY <1>8 DEF AdminEnable, TypeOK, EndpointRow, Time
  <2> QED BY <1>8, <2>1, Frame DEF AdminEnable
<1>9. ASSUME NEW r \in Editors, NEW e \in Endpoints, PatchRead(r, e) PROVE IInv'
  <2>1. TypeOK'
    BY <1>9 DEF PatchRead, TypeOK, EndpointRow, EditState
  <2> QED BY <1>9, <2>1, Frame DEF PatchRead
<1>10. ASSUME NEW r \in Editors, NEW sent \in {"other", "enable", "disable"},
               PatchSave(r, sent)
       PROVE  IInv'
  <2>1. TypeOK'
    BY <1>10 DEF PatchSave, TypeOK, EndpointRow, EditState, NoEdit, Time
  <2> QED BY <1>10, <2>1, Frame DEF PatchSave
<1>11. ASSUME NEW e \in Endpoints, DeleteEndpoint(e) PROVE IInv'
  <2>1. TypeOK'
    BY <1>11, NoRowType DEF DeleteEndpoint, TypeOK, EndpointRow, Time
  <2>2. RowCoherent' /\ AttemptsInv'
    BY <1>11, NoRowType, RowsKept DEF DeleteEndpoint
  <2>3. EventInv'
    BY <1>11, NoRowType, NoRowAppears DEF DeleteEndpoint
  <2> QED BY <1>11, <2>1, <2>2, <2>3, Frame DEF DeleteEndpoint
<1>12. ASSUME NEW d \in Deliveries, Retry(d) PROVE IInv'
  <2>1. NewRow(now) \in DeliveryRow /\ RowOK(NewRow(now))
    BY NewRowType DEF TypeOK
  <2>2. TypeOK'
    BY <1>12, <2>1 DEF Retry, TypeOK
  <2>3. RowCoherent' /\ AttemptsInv'
    BY <1>12, <2>1, RowsKept DEF Retry, TypeOK
  <2>4. EventInv'
    BY <1>12, NoRowAppears DEF Retry, TypeOK
  <2> QED BY <1>12, <2>2, <2>3, <2>4, Frame DEF Retry
<1>13. ASSUME NEW w \in Workers, NEW pool, Scan(w, pool) PROVE IInv'
  <2>1. PICK S \in SUBSET Deliveries :
          worker' = [worker EXCEPT ![w] = [Idle EXCEPT !.pc = "batch", !.todo = S]]
    BY <1>13 DEF Scan
  <2>2. /\ [Idle EXCEPT !.pc = "batch", !.todo = S] \in WorkerState
        /\ [Idle EXCEPT !.pc = "batch", !.todo = S].pc = "batch"
        /\ [Idle EXCEPT !.pc = "batch", !.todo = S].token = Null
    BY DEF Idle, WorkerState, Time
  <2>3. WorkerInv' /\ worker' \in [Workers -> WorkerState]
    BY <1>13, <2>1, <2>2, WorkerLeaves DEF Scan
  <2>4. TypeOK'
    BY <1>13, <2>3 DEF TypeOK, Scan
  <2> QED BY <1>13, <2>3, <2>4, Frame DEF Scan
<1>14. ASSUME NEW w \in Workers, Claim(w) PROVE IInv'
  <2>1. PICK d \in worker[w].todo, token \in Fresh :
          /\ Claimable(d)
          /\ row' = [row EXCEPT ![d].lease = token, ![d].nextAt = now + Lease]
          /\ worker' = [worker EXCEPT ![w] =
               [Idle EXCEPT !.pc = "claimed", !.todo = worker[w].todo \ {d}, !.d = d,
                            !.token = token]]
    BY <1>14 DEF Claim
  <2> DEFINE claimed == [row[d] EXCEPT !.lease = token, !.nextAt = now + Lease]
             holder == [Idle EXCEPT !.pc = "claimed", !.todo = worker[w].todo \ {d}, !.d = d,
                                    !.token = token]
  <2>2. /\ worker[w].todo \in SUBSET Deliveries /\ d \in Deliveries /\ row[d] \in DeliveryRow
        /\ token \in Tokens /\ now + Lease \in Nat
    BY <2>1 DEF TypeOK, WorkerState, Fresh
  <2>3. claimed \in DeliveryRow /\ claimed.status = "pending" /\ RowOK(claimed)
    BY <2>1, <2>2 DEF DeliveryRow, Time, RowOK, Claimable, AttemptsInv
  <2>4. /\ holder \in WorkerState
        /\ holder.pc = "claimed" /\ holder.d = d /\ holder.token = token
    BY <2>2 DEF Idle, WorkerState, Time
  <2>5. row' = [row EXCEPT ![d] = claimed] /\ worker' = [worker EXCEPT ![w] = holder]
    BY <2>1, <2>2 DEF TypeOK
  <2>6. TypeOK'
    BY <1>14, <2>2, <2>3, <2>4, <2>5 DEF TypeOK, Claim
  <2>7. RowCoherent' /\ AttemptsInv'
    BY <2>2, <2>3, <2>5, RowsKept DEF TypeOK
  <2>8. EventInv'
    BY <1>14, <2>1, <2>2, <2>5, NoRowAppears DEF Claim, Claimable, TypeOK
  <2>9. WorkerInv'
    <3>1. /\ event' = event /\ received' = received
          /\ worker'[w] = holder /\ \A v \in Workers \ {w} : worker'[v] = worker[v]
      BY <1>14, <2>5 DEF Claim, TypeOK
    <3>2. ClaimKnown'
      <4>1. token # Null /\ d # Null /\ event[d[1]].state = "stored"
        BY <2>1, <2>2 DEF Claimable, EventInv
      <4> QED BY <2>4, <3>1, <4>1 DEF WorkerInv, ClaimKnown, Active
    <3>3. AnswerKnown'
      BY <2>4, <3>1 DEF WorkerInv, AnswerKnown
    <3>4. TokensDistinct'
      <4>1. \A v \in Workers : worker[v].token # token
        BY <2>1 DEF Fresh, InUse
      <4>2. worker'[w].token = token
        BY <2>4, <3>1
      <4>3. \A v \in Workers \ {w} : worker'[v].token = worker[v].token
        BY <3>1
      <4> QED BY <4>1, <4>2, <4>3 DEF WorkerInv, TokensDistinct
    <3> QED BY <3>2, <3>3, <3>4 DEF WorkerInv
  <2> QED BY <1>14, <2>6, <2>7, <2>8, <2>9, Frame DEF Claim
<1>15. ASSUME NEW w \in Workers, Skip(w) PROVE IInv'
  <2>1. PICK d \in worker[w].todo : worker' = [worker EXCEPT ![w] = Rest(worker[w].todo \ {d})]
    BY <1>15 DEF Skip
  <2>2. worker[w].todo \ {d} \in SUBSET Deliveries
    BY DEF TypeOK, WorkerState
  <2>3. WorkerInv' /\ worker' \in [Workers -> WorkerState]
    BY <1>15, <2>1, <2>2, RestType, WorkerLeaves DEF Skip
  <2>4. TypeOK'
    BY <1>15, <2>3 DEF TypeOK, Skip
  <2> QED BY <1>15, <2>3, <2>4, Frame DEF Skip
<1>16. ASSUME NEW w \in Workers, Load(w) PROVE IInv'
  <2>1. worker[w] \in WorkerState /\ worker[w].todo \in SUBSET Deliveries
    BY DEF TypeOK, WorkerState
  <2>2. WorkerInv' /\ worker' \in [Workers -> WorkerState]
    <3>1. CASE worker' = [worker EXCEPT ![w] = Idle]
      BY <1>16, <3>1, IdleType, WorkerLeaves DEF Load
    <3>2. CASE worker' = [worker EXCEPT ![w] = Rest(worker[w].todo)]
      BY <1>16, <2>1, <3>2, RestType, WorkerLeaves DEF Load
    <3>3. CASE worker' = [worker EXCEPT ![w] = [worker[w] EXCEPT !.pc = "sending"]]
      <4>1. [worker[w] EXCEPT !.pc = "sending"] \in WorkerState
        BY <2>1 DEF WorkerState
      <4>2. WorkerInv'
        BY <1>16, <2>1, <3>3
        DEF Load, TypeOK, WorkerState, WorkerInv, ClaimKnown, AnswerKnown, TokensDistinct, Active
      <4> QED BY <3>3, <4>1, <4>2 DEF TypeOK
    <3> QED BY <1>16, <3>1, <3>2, <3>3 DEF Load
  <2>3. TypeOK'
    BY <1>16, <2>2 DEF TypeOK, Load
  <2> QED BY <1>16, <2>2, <2>3, Frame DEF Load
<1>17. ASSUME NEW w \in Workers, Send(w) PROVE IInv'
  <2>1. PICK accepted \in BOOLEAN, ok \in BOOLEAN :
          /\ ok => accepted
          /\ received' = [received EXCEPT ![worker[w].d] = @ \/ accepted]
          /\ worker' = [worker EXCEPT ![w] =
               [worker[w] EXCEPT !.pc = "sent", !.ok = ok, !.at = now]]
    BY <1>17 DEF Send
  <2> DEFINE answered == [worker[w] EXCEPT !.pc = "sent", !.ok = ok, !.at = now]
  <2>2. worker[w] \in WorkerState /\ worker[w].d \in Deliveries /\ worker[w].token # Null
    BY <1>17 DEF TypeOK, WorkerState, Send, WorkerInv, ClaimKnown, Active
  <2>3. /\ answered \in WorkerState /\ answered.pc = "sent" /\ answered.d = worker[w].d
        /\ answered.token = worker[w].token /\ answered.ok = ok /\ answered.at = now
    BY <2>2 DEF TypeOK, WorkerState, Time
  <2>4. TypeOK'
    <3>1. received' \in [Deliveries -> BOOLEAN]
      BY <1>17 DEF Send, TypeOK
    <3> QED BY <1>17, <2>1, <2>3, <3>1 DEF TypeOK, Send
  <2>5. /\ worker'[w] = answered /\ \A v \in Workers \ {w} : worker'[v] = worker[v]
        /\ event' = event
    BY <1>17, <2>1 DEF TypeOK, Send
  <2>6. /\ \A d \in Deliveries : received[d] => received'[d]
        /\ received'[worker[w].d] = (received[worker[w].d] \/ accepted)
        /\ \A d \in Deliveries : received'[d] => received[d] \/ d = worker[w].d
    BY <2>1, <2>2 DEF TypeOK
  <2>7. WorkerInv'
    <3>1. ClaimKnown'
      BY <1>17, <2>3, <2>5 DEF Send, WorkerInv, ClaimKnown, Active
    <3>2. AnswerKnown'
      <4>1. ASSUME NEW v \in Workers \ {w}, worker[v].pc = "sent"
            PROVE  worker[v].d \in Deliveries
        BY <4>1 DEF TypeOK, WorkerState, WorkerInv, ClaimKnown, Active
      <4> QED BY <2>1, <2>3, <2>5, <2>6, <4>1 DEF WorkerInv, AnswerKnown, TypeOK
    <3>3. TokensDistinct'
      <4>1. \A v \in Workers : worker'[v].token = worker[v].token
        BY <2>3, <2>5
      <4> QED BY <4>1 DEF WorkerInv, TokensDistinct
    <3> QED BY <3>1, <3>2, <3>3 DEF WorkerInv
  <2>8. OnlyCommittedEventsAreSent'
    <3>1. event[worker[w].d[1]].state \in {"stored", "pruned"}
      BY <1>17 DEF Send, WorkerInv, ClaimKnown, Active
    <3> QED BY <2>5, <2>6, <3>1 DEF OnlyCommittedEventsAreSent
  <2> QED BY <1>17, <2>4, <2>7, <2>8, Frame DEF Send
<1>18. ASSUME NEW w \in Workers, FinalizeSuccess(w) PROVE IInv'
  <2>1. Finalizing(w) /\ worker[w].pc = "sent" /\ Return(w)
    BY <1>18 DEF FinalizeSuccess, Finalizing
  <2>2. endpoint' \in [Endpoints -> EndpointRow]
    <3>1. [endpoint[TargetOf(w)] EXCEPT !.since = Null] \in EndpointRow
      BY <2>1, ClosedType DEF EndpointRow, Time
    <3> QED BY <1>18, <3>1 DEF FinalizeSuccess, TypeOK
  <2> QED BY <1>18, <2>1, <2>2, ClosedType, FinalizeInv DEF FinalizeSuccess
<1>19. ASSUME NEW w \in Workers, FinalizeExhausted(w) PROVE IInv'
  <2>1. Finalizing(w) /\ worker[w].pc = "sent" /\ Return(w)
    BY <1>19 DEF FinalizeExhausted, Finalizing
  <2> QED BY <1>19, <2>1, ClosedType, FinalizeInv DEF FinalizeExhausted, TypeOK
<1>20. ASSUME NEW w \in Workers, FinalizeDisable(w) PROVE IInv'
  <2>1. worker[w].pc = "sent" /\ Return(w)
    BY <1>20 DEF FinalizeDisable, Finalizing
  <2>2. endpoint' \in [Endpoints -> EndpointRow]
    <3>1. [endpoint[TargetOf(w)] EXCEPT !.active = FALSE] \in EndpointRow
      BY <2>1, ClosedType DEF EndpointRow
    <3> QED BY <1>20, <3>1 DEF FinalizeDisable, TypeOK
  <2>3. ASSUME NEW d \in Deliveries
        PROVE  /\ row'[d] \in DeliveryRow
               /\ row'[d] = row[d] \/ RowOK(row'[d])
               /\ row'[d].status # "absent" => row[d].status # "absent"
    <3>1. row'[d] = IF d = worker[w].d THEN Closed(w, "failed")
                    ELSE IF EndpointOf(d) = TargetOf(w) /\ row[d].status = "pending"
                      THEN [row[d] EXCEPT !.status = "failed", !.lease = Null, !.nextAt = Null]
                    ELSE row[d]
      BY <1>20 DEF FinalizeDisable
    <3>2. CASE d = worker[w].d
      BY <1>20, <2>1, <3>1, <3>2, ClosedType DEF FinalizeDisable, Finalizing, Owned
    <3>3. CASE d # worker[w].d
      BY <3>1, <3>3 DEF TypeOK, DeliveryRow, Time, RowOK
    <3> QED BY <3>2, <3>3
  <2>4. row' \in [Deliveries -> DeliveryRow]
    BY <1>20, <2>3 DEF FinalizeDisable
  <2>5. TypeOK'
    BY <2>1, <2>2, <2>4, ReturnInv DEF TypeOK, Return
  <2>6. RowCoherent' /\ AttemptsInv'
    BY <2>3, RowsKept
  <2>7. EventInv'
    BY <2>1, <2>3, NoRowAppears DEF Return
  <2> QED BY <2>1, <2>5, <2>6, <2>7, ReturnInv, Frame DEF Return
<1>21. ASSUME NEW w \in Workers, FinalizeRetry(w) PROVE IInv'
  <2>1. Finalizing(w) /\ worker[w].pc = "sent" /\ Return(w)
    BY <1>21 DEF FinalizeRetry, Finalizing
  <2> DEFINE later == [status |-> "pending", attempts |-> Attempt(w), lease |-> Null,
                       nextAt |-> worker[w].at + Schedule[Attempt(w)]]
  <2>2. later \in DeliveryRow /\ RowOK(later)
    <3>1. Attempt(w) \in 1 .. Len(Schedule)
      BY <1>21, <2>1, ClosedType DEF FinalizeRetry, Exhausted, Attempt, TypeOK, DeliveryRow
    <3>2. worker[w].at + Schedule[Attempt(w)] \in Nat
      BY <2>1, <3>1 DEF WorkerInv, AnswerKnown
    <3> QED BY <3>1, <3>2 DEF DeliveryRow, Time, RowOK
  <2>3. endpoint' \in [Endpoints -> EndpointRow]
    <3>1. worker[w].at \in Time /\ endpoint[TargetOf(w)].since \in Time
      BY <2>1, ClosedType DEF TypeOK, WorkerState, EndpointRow
    <3>2. \A t \in Time : [endpoint[TargetOf(w)] EXCEPT !.since = t] \in EndpointRow
      BY <2>1, ClosedType DEF EndpointRow
    <3>3. PICK t \in Time : endpoint' = [endpoint EXCEPT ![TargetOf(w)] =
                              [endpoint[TargetOf(w)] EXCEPT !.since = t]]
      BY <1>21, <3>1 DEF FinalizeRetry
    <3> QED BY <3>2, <3>3 DEF TypeOK
  <2> QED BY <1>21, <2>1, <2>2, <2>3, FinalizeInv DEF FinalizeRetry
<1>22. ASSUME NEW w \in Workers, LostClaim(w) PROVE IInv'
  BY <1>22, ReturnInv, Frame DEF LostClaim, Return, TypeOK
<1>23. ASSUME NEW w \in Workers, EndpointVanished(w) PROVE IInv'
  BY <1>23, IdleType, WorkerLeaves, Frame DEF EndpointVanished, TypeOK
<1>24. ASSUME NEW w \in Workers, Crash(w) PROVE IInv'
  BY <1>24, IdleType, WorkerLeaves, Frame DEF Crash, TypeOK
<1> QED
  BY <1>0, <1>1, <1>2, <1>3, <1>4, <1>5, <1>6, <1>7, <1>8, <1>9, <1>10, <1>11, <1>12,
     <1>13, <1>14, <1>15, <1>16, <1>17, <1>18, <1>19, <1>20, <1>21, <1>22, <1>23, <1>24
  DEF Next, Manage, WorkerStep

(* The inductive invariant holds in every reachable state.                 *)
THEOREM Invariance == Spec => []IInv
<1>1. Init => IInv
  BY InitInv
<1>2. IInv /\ [Next]_vars => IInv'
  BY StepInv
<1> QED BY <1>1, <1>2, PTL DEF Spec

(* Every table, local variable and in-flight request keeps its type.       *)
THEOREM TypeCorrect == Spec => []TypeOK
<1>1. IInv => TypeOK
  BY DEF IInv
<1> QED BY <1>1, Invariance, PTL

(* A row has a due time exactly when it is PENDING, and only a PENDING row *)
(* has a claim.                                                            *)
THEOREM RowsCoherent == Spec => []RowCoherent
<1>1. IInv => RowCoherent
  BY DEF IInv
<1> QED BY <1>1, Invariance, PTL

(* No two workers hold the live claim of one delivery.                     *)
THEOREM SingleHolderAlways == Spec => []SingleHolder
<1>1. IInv => SingleHolder
  BY DEF IInv, WorkerInv, ClaimKnown, TokensDistinct, Active, SingleHolder, Holds
<1> QED BY <1>1, Invariance, PTL

(* No receiver has accepted a delivery of an event that was rolled back.   *)
THEOREM CommittedEventsOnly == Spec => []OnlyCommittedEventsAreSent
<1>1. IInv => OnlyCommittedEventsAreSent
  BY DEF IInv
<1> QED BY <1>1, Invariance, PTL

-----------------------------------------------------------------------------
(* Action properties.  An action that is not listed leaves row unchanged.  *)

LEMMA RowUntouched ==
  ASSUME NEW w \in Workers,
         \/ \E pool \in SUBSET Events : Scan(w, pool)
         \/ Skip(w) \/ Load(w) \/ Send(w) \/ LostClaim(w) \/ EndpointVanished(w) \/ Crash(w)
  PROVE  row' = row
  BY DEF Scan, Skip, Load, Send, LostClaim, EndpointVanished, Crash

LEMMA ManageUntouched ==
  ASSUME \/ Tick
         \/ \E ev \in Events : PublishRead(ev) \/ PublishRollback(ev)
         \/ \E e \in Endpoints : CreateEndpoint(e) \/ AdminEnable(e)
         \/ \E r \in Editors :
              \/ \E e \in Endpoints : PatchRead(r, e)
              \/ \E sent \in {"other", "enable", "disable"} : PatchSave(r, sent)
  PROVE  row' = row
  BY DEF Tick, PublishRead, PublishRollback, CreateEndpoint, AdminEnable, PatchRead, PatchSave

(* A row of an open or unused event is absent, and so has no claim.        *)
LEMMA UnpublishedRow ==
  ASSUME IInv, NEW d \in Deliveries, event[d[1]].state \in {"none", "open"}
  PROVE  row[d].status = "absent" /\ row[d].lease = Null
  BY DEF IInv, EventInv, RowCoherent

LEMMA StepLease ==
  ASSUME IInv, Next, NEW d \in Deliveries, row[d].lease # Null, row'[d] # row[d]
  PROVE  \/ row[d].nextAt <= now
         \/ \E w \in Workers : Holds(w, d) /\ worker[w].pc = "sent" /\ worker'[w].pc # "sent"
         \/ endpoint[EndpointOf(d)].active /\ ~endpoint'[EndpointOf(d)].active
         \/ row'[d].status = "absent"
<1>1. CASE \E ev \in Events : PublishCommit(ev)
  BY <1>1, UnpublishedRow DEF PublishCommit
<1>2. CASE \E ev \in Events, e \in Endpoints : Ping(ev, e)
  BY <1>2, UnpublishedRow DEF Ping, IInv, TypeOK
<1>3. CASE (\E ev \in Events : Prune(ev)) \/ \E e \in Endpoints : DeleteEndpoint(e)
  BY <1>3, NoRowType DEF Prune, DeleteEndpoint
<1>4. CASE \E c \in Deliveries : Retry(c)
  BY <1>4 DEF Retry, IInv, TypeOK
<1>5. CASE \E w \in Workers : Claim(w)
  BY <1>5 DEF Claim, Claimable, IInv, TypeOK
<1>6. ASSUME NEW w \in Workers,
             \/ FinalizeSuccess(w) \/ FinalizeExhausted(w)
             \/ FinalizeDisable(w) \/ FinalizeRetry(w)
      PROVE  \/ \E v \in Workers :
                  Holds(v, d) /\ worker[v].pc = "sent" /\ worker'[v].pc # "sent"
             \/ endpoint[EndpointOf(d)].active /\ ~endpoint'[EndpointOf(d)].active
  <2>1. Finalizing(w) /\ Return(w)
    BY <1>6 DEF FinalizeSuccess, FinalizeExhausted, FinalizeDisable, FinalizeRetry
  <2>2. worker[w].todo \in SUBSET Deliveries
    BY DEF IInv, TypeOK, WorkerState
  <2>3. worker[w].pc = "sent" /\ worker'[w].pc # "sent"
    BY <2>1, <2>2, RestType DEF Finalizing, Return, IInv, TypeOK
  <2>4. CASE d = worker[w].d
    BY <2>1, <2>3, <2>4 DEF Holds, Finalizing, Owned
  <2>5. CASE d # worker[w].d
    <3>1. FinalizeDisable(w) /\ EndpointOf(d) = TargetOf(w)
      BY <1>6, <2>5 
      DEF FinalizeSuccess, FinalizeExhausted, FinalizeDisable, FinalizeRetry, IInv, TypeOK
    <3>2. EndpointOf(d) \in Endpoints
      BY DEF EndpointOf, Deliveries
    <3> QED BY <3>1, <3>2 DEF FinalizeDisable, MustDisable, IInv, TypeOK, EndpointRow
  <2> QED BY <2>4, <2>5
<1> QED BY <1>1, <1>2, <1>3, <1>4, <1>5, <1>6, RowUntouched, ManageUntouched
  DEF Next, Manage, WorkerStep

(* A claimed row is left alone until its holder finalizes it, its lease    *)
(* expires, its endpoint is disabled or it is deleted.                     *)
THEOREM LeaseIsRespected == Spec => LeaseRespected
<1>1. IInv /\ [Next]_vars =>
        [\A d \in Deliveries :
           row[d].lease # Null /\ row'[d] # row[d] =>
             \/ row[d].nextAt <= now
             \/ \E w \in Workers : Holds(w, d) /\ worker[w].pc = "sent" /\ worker'[w].pc # "sent"
             \/ endpoint[EndpointOf(d)].active /\ ~endpoint'[EndpointOf(d)].active
             \/ row'[d].status = "absent"]_vars
  BY StepLease
<1> QED BY <1>1, Invariance, PTL DEF Spec, LeaseRespected

LEMMA StepGivesUp ==
  ASSUME IInv, Next, NEW d \in Deliveries, row[d].status = "pending", row'[d].status = "failed"
  PROVE  \/ row'[d].attempts = Len(Schedule) + 1
         \/ endpoint[EndpointOf(d)].active /\ ~endpoint'[EndpointOf(d)].active
<1>1. CASE \E ev \in Events : PublishCommit(ev)
  BY <1>1, UnpublishedRow DEF PublishCommit
<1>2. CASE \E ev \in Events, e \in Endpoints : Ping(ev, e)
  BY <1>2, UnpublishedRow DEF Ping, IInv, TypeOK
<1>3. CASE (\E ev \in Events : Prune(ev)) \/ \E e \in Endpoints : DeleteEndpoint(e)
  BY <1>3, NoRowType DEF Prune, DeleteEndpoint
<1>4. CASE \E c \in Deliveries : Retry(c)
  BY <1>4, NewRowType DEF Retry, IInv, TypeOK
<1>5. CASE \E w \in Workers : Claim(w)
  BY <1>5 DEF Claim, IInv, TypeOK, DeliveryRow
<1>6. CASE \E w \in Workers : FinalizeSuccess(w) \/ FinalizeRetry(w)
  BY <1>6 DEF FinalizeSuccess, FinalizeRetry, Closed, IInv, TypeOK
<1>7. ASSUME NEW w \in Workers, FinalizeExhausted(w)
      PROVE  row'[d].attempts = Len(Schedule) + 1
  <2>1. d = worker[w].d /\ row'[d].attempts = Attempt(w)
    BY <1>7 DEF FinalizeExhausted, Closed, IInv, TypeOK
  <2>2. Attempt(w) = row[d].attempts + 1 /\ row[d].attempts \in Nat
    BY <2>1 DEF Attempt, IInv, TypeOK, DeliveryRow
  <2>3. Attempt(w) > Len(Schedule) /\ row[d].attempts <= Len(Schedule)
    BY <1>7 DEF FinalizeExhausted, Exhausted, IInv, AttemptsInv
  <2>4. Len(Schedule) \in Nat
    BY ConstantsAssumption
  <2> QED BY <2>1, <2>2, <2>3, <2>4
<1>8. ASSUME NEW w \in Workers, FinalizeDisable(w)
      PROVE  endpoint[EndpointOf(d)].active /\ ~endpoint'[EndpointOf(d)].active
  <2>1. EndpointOf(d) = TargetOf(w)
    BY <1>8 DEF FinalizeDisable, TargetOf
  <2>2. EndpointOf(d) \in Endpoints
    BY DEF EndpointOf, Deliveries
  <2> QED BY <1>8, <2>1, <2>2 DEF FinalizeDisable, MustDisable, IInv, TypeOK, EndpointRow
<1> QED BY <1>1, <1>2, <1>3, <1>4, <1>5, <1>6, <1>7, <1>8, RowUntouched, ManageUntouched
  DEF Next, Manage, WorkerStep

(* A delivery becomes FAILED only after every attempt of the schedule or   *)
(* in the transaction that disables its endpoint.                          *)
THEOREM GiveUpAfterSchedule == Spec => GivesUpOnlyAfterSchedule
<1>1. IInv /\ [Next]_vars =>
        [\A d \in Deliveries :
           row[d].status = "pending" /\ row'[d].status = "failed" =>
             \/ row'[d].attempts = Len(Schedule) + 1
             \/ endpoint[EndpointOf(d)].active /\ ~endpoint'[EndpointOf(d)].active]_vars
  BY StepGivesUp
<1> QED BY <1>1, Invariance, PTL DEF Spec, GivesUpOnlyAfterSchedule

-----------------------------------------------------------------------------
(* The refinement of OutboxContract.                                       *)

Status == [d \in Deliveries |-> row[d].status]

LEMMA ContractInit == Init => Contract!Init
  BY DEF Init, Contract!Init, Contract!Pairs, Deliveries, NoRow

(* The rows of S take the given status in the contract's view.             *)
Becomes(S, value) ==
  Status' = [d \in Deliveries |-> IF d \in S THEN value ELSE Status[d]]

LEMMA ContractSet == \A S, value : Becomes(S, value) => Contract!Set(S, value)
  BY DEF Becomes, Status, Contract!Set, Contract!Pairs, Deliveries

LEMMA ContractActions ==
  /\ \A d \in Deliveries :
       Contract!Accept(d) \/ Contract!Succeed(d) \/ Contract!Requeue(d) => Contract!Next
  /\ \A ev \in Events :
       /\ Contract!DropEvent(ev) => Contract!Next
       /\ \A S \in SUBSET Deliveries : Contract!Create(ev, S) => Contract!Next
  /\ \A e \in Endpoints :
       /\ Contract!DropEndpoint(e) => Contract!Next
       /\ \A S \in SUBSET Deliveries : Contract!GiveUp(e, S) => Contract!Next
  BY Zenon DEF Contract!Next, Contract!Pairs, Deliveries

(* One row is rewritten, in the contract's view.                           *)
LEMMA ContractRow ==
  ASSUME IInv, NEW d \in Deliveries, NEW r \in DeliveryRow, row' = [row EXCEPT ![d] = r]
  PROVE  Becomes({d}, r.status)
  BY DEF Becomes, Status, IInv, TypeOK

LEMMA ContractStep ==
  ASSUME IInv, [Next]_vars
  PROVE  [Contract!Next]_<<Status, received>>
<1> DEFINE Step == Contract!Next \/ UNCHANGED <<Status, received>>
<1> USE DEF IInv
<1>1. ASSUME row' = row, received' = received PROVE Step
  BY <1>1 DEF Status
<1>2. ASSUME NEW ev \in Events, PublishCommit(ev) PROVE Step
  <2>1. PICK S \in SUBSET Deliveries :
          S = {d \in Deliveries : d[1] = ev /\ EndpointOf(d) \in event[ev].targets}
    OBVIOUS
  <2>2. NewRow(event[ev].at).status = "pending"
    BY DEF NewRow, NoRow
  <2>3. Becomes(S, "pending") /\ received' = received
    BY <1>2, <2>1, <2>2 DEF PublishCommit, Status, Becomes
  <2>4. \A d \in S : d[1] = ev /\ Status[d] = "absent"
    BY <1>2, <2>1, UnpublishedRow DEF PublishCommit, Status
  <2>5. Contract!Create(ev, S)
    BY <2>3, <2>4, ContractSet DEF Contract!Create, Status
  <2> QED BY <2>5, ContractActions
<1>3. ASSUME NEW ev \in Events, NEW e \in Endpoints, Ping(ev, e) PROVE Step
  <2>1. <<ev, e>> \in Deliveries /\ NewRow(now) \in DeliveryRow /\ NewRow(now).status = "pending"
    BY NewRowType DEF Deliveries, TypeOK
  <2>2. Becomes({<<ev, e>>}, "pending") /\ received' = received
    BY <1>3, <2>1, ContractRow DEF Ping
  <2>3. Status[<<ev, e>>] = "absent"
    BY <1>3, <2>1, UnpublishedRow DEF Ping, Status
  <2>4. Contract!Create(ev, {<<ev, e>>})
    BY <2>2, <2>3, ContractSet DEF Contract!Create, Status
  <2> QED BY <2>1, <2>4, ContractActions
<1>4. ASSUME NEW ev \in Events, Prune(ev) PROVE Step
  <2>1. Becomes({d \in Deliveries : d[1] = ev}, "absent") /\ received' = received
    BY <1>4, NoRowType DEF Prune, Status, Becomes
  <2>2. \A d \in Deliveries : d[1] = ev => Status[d] # "pending"
    BY <1>4 DEF Prune, Status
  <2>3. Contract!DropEvent(ev)
    BY <2>1, <2>2, ContractSet DEF Contract!DropEvent, Contract!Pairs, Deliveries, Status
  <2> QED BY <2>3, ContractActions
<1>5. ASSUME NEW e \in Endpoints, DeleteEndpoint(e) PROVE Step
  <2>1. Becomes({d \in Deliveries : d[2] = e}, "absent") /\ received' = received
    BY <1>5, NoRowType DEF DeleteEndpoint, EndpointOf, Status, Becomes
  <2>2. Contract!DropEndpoint(e)
    BY <2>1, ContractSet DEF Contract!DropEndpoint, Contract!Pairs, Deliveries
  <2> QED BY <2>2, ContractActions
<1>6. ASSUME NEW d \in Deliveries, Retry(d) PROVE Step
  <2>1. NewRow(now) \in DeliveryRow /\ NewRow(now).status = "pending"
    BY NewRowType DEF TypeOK
  <2>2. Becomes({d}, "pending") /\ received' = received
    BY <1>6, <2>1, ContractRow DEF Retry
  <2>3. Contract!Requeue(d)
    BY <1>6, <2>2, ContractSet DEF Retry, Contract!Requeue, Status
  <2> QED BY <2>3, ContractActions
<1>7. ASSUME NEW w \in Workers, Claim(w) PROVE Step
  <2>1. \A d \in Deliveries : row'[d].status = row[d].status
    BY <1>7 DEF Claim, TypeOK, DeliveryRow
  <2> QED BY <1>7, <2>1 DEF Claim, Status
<1>8. ASSUME NEW w \in Workers, Send(w) PROVE Step
  <2>1. worker[w].d \in Deliveries
    BY <1>8 DEF Send, TypeOK, WorkerState, WorkerInv, ClaimKnown, Active
  <2>2. Status' = Status
    BY <1>8 DEF Send, Status
  <2>3. received' = received \/ received' = [received EXCEPT ![worker[w].d] = TRUE]
    <3>1. PICK accepted \in BOOLEAN :
            received' = [received EXCEPT ![worker[w].d] = received[worker[w].d] \/ accepted]
      BY <1>8 DEF Send
    <3>2. received[worker[w].d] \/ accepted => received' = [received EXCEPT ![worker[w].d] = TRUE]
      BY <3>1
    <3>3. ~(received[worker[w].d] \/ accepted) =>
            received' = [received EXCEPT ![worker[w].d] = FALSE] /\ received[worker[w].d] = FALSE
      BY <2>1, <3>1 DEF TypeOK
    <3> QED BY <3>2, <3>3 DEF TypeOK
  <2>4. received' = received \/ Contract!Accept(worker[w].d)
    BY <2>2, <2>3 DEF Contract!Accept, Status
  <2> QED BY <2>1, <2>2, <2>4, ContractActions
<1>9. ASSUME NEW w \in Workers, FinalizeSuccess(w) PROVE Step
  <2>1. /\ worker[w].pc = "sent" /\ row[worker[w].d].status = "pending"
        /\ received[worker[w].d] /\ received' = received
    BY <1>9 DEF FinalizeSuccess, Finalizing, Owned, Return, WorkerInv, AnswerKnown
  <2>2. PICK d \in Deliveries : d = worker[w].d
    BY <2>1, ClosedType
  <2>3. Becomes({d}, "succeeded")
    BY <1>9, <2>1, <2>2, ClosedType, ContractRow DEF FinalizeSuccess
  <2>4. Contract!Succeed(d)
    BY <2>1, <2>2, <2>3, ContractSet DEF Contract!Succeed, Status
  <2> QED BY <2>4, ContractActions
<1>10. ASSUME NEW w \in Workers, FinalizeExhausted(w) PROVE Step
  <2>1. worker[w].pc = "sent" /\ row[worker[w].d].status = "pending" /\ received' = received
    BY <1>10 DEF FinalizeExhausted, Finalizing, Owned, Return
  <2>2. PICK d \in Deliveries : d = worker[w].d
    BY <2>1, ClosedType
  <2>3. Becomes({d}, "failed")
    BY <1>10, <2>1, <2>2, ClosedType, ContractRow DEF FinalizeExhausted
  <2>4. d[2] \in Endpoints /\ Contract!GiveUp(d[2], {d})
    BY <2>1, <2>2, <2>3, ContractSet DEF Contract!GiveUp, Status, Deliveries
  <2> QED BY <2>4, ContractActions
<1>11. ASSUME NEW w \in Workers, FinalizeDisable(w) PROVE Step
  <2>1. /\ worker[w].pc = "sent" /\ row[worker[w].d].status = "pending"
        /\ received' = received
    BY <1>11 DEF FinalizeDisable, Finalizing, Owned, Return
  <2>2. PICK e \in Endpoints, S \in SUBSET Deliveries :
          e = TargetOf(w) /\ S = {d \in Deliveries : EndpointOf(d) = e /\ row[d].status = "pending"}
    BY <2>1, ClosedType
  <2>3. worker[w].d \in S
    BY <2>1, <2>2, ClosedType DEF TargetOf
  <2>4. ASSUME NEW d \in Deliveries
        PROVE  row'[d].status = IF d \in S THEN "failed" ELSE row[d].status
    <3>1. row'[d] = IF d = worker[w].d THEN Closed(w, "failed")
                    ELSE IF d \in S
                      THEN [row[d] EXCEPT !.status = "failed", !.lease = Null, !.nextAt = Null]
                    ELSE row[d]
      BY <1>11, <2>2 DEF FinalizeDisable
    <3>2. Closed(w, "failed").status = "failed"
      BY DEF Closed
    <3>3. row[d] \in DeliveryRow
      BY DEF TypeOK
    <3> QED BY <2>3, <3>1, <3>2, <3>3 DEF DeliveryRow
  <2>5. Becomes(S, "failed")
    BY <2>4 DEF Becomes, Status
  <2>6. Contract!GiveUp(e, S)
    BY <2>1, <2>2, <2>5, ContractSet DEF Contract!GiveUp, Status, EndpointOf
  <2> QED BY <2>6, ContractActions
<1>12. ASSUME NEW w \in Workers, FinalizeRetry(w) PROVE Step
  <2>1. \A d \in Deliveries : row'[d].status = row[d].status
    BY <1>12 DEF FinalizeRetry, Finalizing, Owned, TypeOK
  <2> QED BY <1>12, <2>1 DEF FinalizeRetry, Return, Status
<1>13. CASE UNCHANGED vars
  BY <1>1, <1>13 DEF vars
<1>14. ASSUME NEW w \in Workers,
              \/ \E pool \in SUBSET Events : Scan(w, pool)
              \/ Skip(w) \/ Load(w) \/ LostClaim(w) \/ EndpointVanished(w) \/ Crash(w)
       PROVE  Step
  <2>1. received' = received
    BY <1>14 DEF Scan, Skip, Load, LostClaim, Return, EndpointVanished, Crash
  <2> QED BY <1>1, <1>14, <2>1, RowUntouched
<1>15. ASSUME \/ Tick
              \/ \E ev \in Events : PublishRead(ev) \/ PublishRollback(ev)
              \/ \E e \in Endpoints : CreateEndpoint(e) \/ AdminEnable(e)
              \/ \E r \in Editors :
                   \/ \E e \in Endpoints : PatchRead(r, e)
                   \/ \E sent \in {"other", "enable", "disable"} : PatchSave(r, sent)
       PROVE  Step
  <2>1. received' = received
    BY <1>15
    DEF Tick, PublishRead, PublishRollback, CreateEndpoint, AdminEnable, PatchRead, PatchSave
  <2> QED BY <1>1, <1>15, <2>1, ManageUntouched
<1> QED BY <1>2, <1>3, <1>4, <1>5, <1>6, <1>7, <1>8, <1>9, <1>10, <1>11, <1>12, <1>13, <1>14, <1>15
  DEF Next, Manage, WorkerStep

(* The outbox implements its contract: every behaviour of the workers,     *)
(* publishers, editors and operators is one the contract allows.           *)
THEOREM Refinement == Spec => ImplementsContract
<1>1. Init => Contract!Init
  BY ContractInit
<1>2. IInv /\ [Next]_vars => [Contract!Next]_<<Status, received>>
  BY ContractStep
<1> QED BY <1>1, <1>2, Invariance, PTL DEF Spec, ImplementsContract, Contract!Spec, Status
=============================================================================
