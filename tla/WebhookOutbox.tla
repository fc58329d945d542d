---------------------------- MODULE WebhookOutbox ----------------------------
(***************************************************************************)
(* The transactional webhook outbox of contrib/webhooks: publish() stores  *)
(* an event and one PENDING delivery per subscribed endpoint; any number   *)
(* of workers run deliver_due(), which claims a due row with a conditional *)
(* UPDATE, sends outside every transaction and records the outcome in a    *)
(* transaction that checks the claim's token; the API and the admin edit,  *)
(* delete, enable, retry and ping while they run; prune_events() removes   *)
(* old events.                                                             *)
(*                                                                         *)
(* One action is one SQL statement outside a transaction or one            *)
(* transaction that holds the row locks it needs from its first read to    *)
(* its commit; whatever the code reads outside such a transaction is kept  *)
(* in worker, event or edit and may be stale when it is used.  Time is a   *)
(* count of ticks.                                                         *)
(***************************************************************************)
EXTENDS Integers, Sequences, FiniteSets

CONSTANTS
  Endpoints,     \* WebhookEndpoint rows that can exist
  Events,        \* OutboxEvent rows that can exist
  Workers,       \* processes and tasks that run deliver_due()
  Editors,       \* API requests that change an endpoint
  Tokens,        \* lease tokens: uuid4() values
  Null,          \* SQL NULL
  Subscribers,   \* Subscribers[ev]: endpoints in ev's audience with a matching pattern
  Schedule,      \* delays before the retries (RETRY_SCHEDULE)
  Lease,         \* timeout + 60 seconds
  DisableAfter,  \* disable_after
  Retention,     \* --days of devx_webhooks prune
  Limit,         \* limit of deliver_due
  MaxNow         \* bound on the clock

Deliveries == Events \X Endpoints   \* UniqueConstraint(event, endpoint)
EndpointOf(d) == d[2]

ASSUME ConstantsAssumption ==
  /\ Null \notin Nat /\ Null \notin Tokens /\ Null \notin Endpoints
  /\ Null \notin Deliveries
  /\ Subscribers \in [Events -> SUBSET Endpoints]
  /\ Schedule \in Seq(Nat)
  /\ Lease \in Nat \ {0} /\ DisableAfter \in Nat /\ Retention \in Nat
  /\ Limit \in Nat \ {0} /\ MaxNow \in Nat

VARIABLES
  now,       \* timezone.now()
  endpoint,  \* the WebhookEndpoint table
  event,     \* the OutboxEvent table, and publish() transactions still open
  row,       \* the WebhookDelivery table
  worker,    \* local variables of deliver_due() in each worker
  edit,      \* instances loaded by update requests that have not saved yet
  received   \* deliveries a receiver has answered 2xx to at least once

vars == <<now, endpoint, event, row, worker, edit, received>>

-----------------------------------------------------------------------------
Time == Nat \cup {Null}

EndpointRow == [state : {"new", "live", "gone"}, active : BOOLEAN, since : Time]

EventRow ==
  [state : {"none", "open", "stored", "pruned"}, targets : SUBSET Endpoints, at : Nat]

DeliveryRow ==
  [status : {"absent", "pending", "succeeded", "failed"}, attempts : Nat,
   lease : Tokens \cup {Null}, nextAt : Time]

(* pc: idle; batch, between two candidates; claimed, the UPDATE matched;   *)
(* sending, the row was read back with this token; sent, answer known.     *)
WorkerState ==
  [pc : {"idle", "batch", "claimed", "sending", "sent"}, todo : SUBSET Deliveries,
   d : Deliveries \cup {Null}, token : Tokens \cup {Null}, ok : BOOLEAN, at : Time]

EditState == [e : Endpoints \cup {Null}, active : BOOLEAN, since : Time]

NoRow == [status |-> "absent", attempts |-> 0, lease |-> Null, nextAt |-> Null]
NewRowCountingDown(at) == [NoRow EXCEPT !.status = "pending", !.nextAt = at, !.attempts = -1]  \* mutant
NewRow(at) == [NoRow EXCEPT !.status = "pending", !.nextAt = at]
NoEvent == [state |-> "none", targets |-> {}, at |-> 0]
NoEdit == [e |-> Null, active |-> FALSE, since |-> Null]
Idle == [pc |-> "idle", todo |-> {}, d |-> Null, token |-> Null, ok |-> FALSE, at |-> Null]

Init ==
  /\ now = 0
  /\ endpoint = [e \in Endpoints |-> [state |-> "new", active |-> FALSE, since |-> Null]]
  /\ event = [ev \in Events |-> NoEvent]
  /\ row = [d \in Deliveries |-> NoRow]
  /\ worker = [w \in Workers |-> Idle]
  /\ edit = [r \in Editors |-> NoEdit]
  /\ received = [d \in Deliveries |-> FALSE]

Tick ==
  /\ now < MaxNow
  /\ now' = now + 1
  /\ UNCHANGED <<endpoint, event, row, worker, edit, received>>

-----------------------------------------------------------------------------
(* publish(): the active subscribers are read, the rows appear at commit.  *)

PublishReadAutocommit(ev) ==  \* mutant: the rows are visible before the business commit
  LET targets == {e \in Subscribers[ev] : endpoint[e].state = "live" /\ endpoint[e].active} IN
    /\ event[ev].state = "none"
    /\ event' = [event EXCEPT ![ev] = [state |-> "open", at |-> now, targets |-> targets]]
    /\ row' = [d \in Deliveries |->
         IF d[1] = ev /\ EndpointOf(d) \in targets THEN NewRow(now) ELSE row[d]]
    /\ UNCHANGED <<now, endpoint, worker, edit, received>>
PublishRead(ev) ==
  /\ event[ev].state = "none"
  /\ event' = [event EXCEPT ![ev] =
       [state |-> "open", at |-> now,
        targets |-> {e \in Subscribers[ev] : endpoint[e].state = "live" /\ endpoint[e].active}]]
  /\ UNCHANGED <<now, endpoint, row, worker, edit, received>>

PublishCommit(ev) ==
  /\ event[ev].state = "open"
  /\ \A e \in event[ev].targets : endpoint[e].state = "live"   \* foreign key
  /\ event' = [event EXCEPT ![ev].state = "stored"]
  /\ row' = [d \in Deliveries |->
       IF d[1] = ev /\ EndpointOf(d) \in event[ev].targets THEN NewRow(event[ev].at) ELSE row[d]]
  /\ UNCHANGED <<now, endpoint, worker, edit, received>>

(* The business transaction fails, or a target was deleted meanwhile.      *)
PublishRollback(ev) ==
  /\ event[ev].state = "open"
  /\ event' = [event EXCEPT ![ev] = NoEvent]
  /\ UNCHANGED <<now, endpoint, row, worker, edit, received>>

(* POST /{pk}/ping: no is_active test.                                     *)
Ping(ev, e) ==
  /\ event[ev].state = "none"
  /\ endpoint[e].state = "live"
  /\ event' = [event EXCEPT ![ev] = [state |-> "stored", targets |-> {e}, at |-> now]]
  /\ row' = [row EXCEPT ![<<ev, e>>] = NewRow(now)]
  /\ UNCHANGED <<now, endpoint, worker, edit, received>>

-----------------------------------------------------------------------------
(* deliver_due() in worker w.                                              *)

Claimable(d) ==
  /\ row[d].status = "pending"
  /\ row[d].nextAt # Null /\ row[d].nextAt <= now
  /\ endpoint[EndpointOf(d)].active

(* The candidates: the first Limit due rows by next_attempt_at, of all     *)
(* events or, in an enqueued deliver_event() task, of one.                 *)
Scan(w, pool) ==
  /\ worker[w].pc = "idle"
  /\ \E S \in (SUBSET {d \in Deliveries : d[1] \in pool /\ Claimable(d)}) \ {{}} :
       /\ Cardinality(S) <= Limit
       /\ \A d \in Deliveries \ S :
            d[1] \in pool /\ Claimable(d) =>
              Cardinality(S) = Limit /\ \A s \in S : row[s].nextAt <= row[d].nextAt
       /\ worker' = [worker EXCEPT ![w] = [Idle EXCEPT !.pc = "batch", !.todo = S]]
  /\ UNCHANGED <<now, endpoint, event, row, edit, received>>

Rest(todo) == IF todo = {} THEN Idle ELSE [Idle EXCEPT !.pc = "batch", !.todo = todo]

(* uuid4(): no other worker and no row has it.                             *)
InUse == {row[d].lease : d \in Deliveries} \cup {worker[w].token : w \in Workers}
FreshPerProcess == Tokens  \* mutant: every process claims with the same token
Fresh == Tokens \ InUse

ClaimWithoutExpiry(w) ==  \* mutant: a claim has no deadline
  /\ worker[w].pc = "batch"
  /\ \E d \in worker[w].todo :
       /\ Claimable(d)
       /\ LET token == CHOOSE t \in Fresh : TRUE IN
            /\ row' = [row EXCEPT ![d].lease = token, ![d].nextAt = Null]
            /\ worker' = [worker EXCEPT ![w] =
                 [Idle EXCEPT !.pc = "claimed", !.todo = worker[w].todo \ {d},
                              !.d = d, !.token = token]]
  /\ UNCHANGED <<now, endpoint, event, edit, received>>
Claim(w) ==
  /\ worker[w].pc = "batch"
  /\ \E d \in worker[w].todo :
       /\ Claimable(d)
       /\ Fresh # {}
       /\ LET token == CHOOSE t \in Fresh : TRUE IN
            /\ row' = [row EXCEPT ![d].lease = token, ![d].nextAt = now + Lease]
            /\ worker' = [worker EXCEPT ![w] =
                 [Idle EXCEPT !.pc = "claimed", !.todo = worker[w].todo \ {d},
                              !.d = d, !.token = token]]
  /\ UNCHANGED <<now, endpoint, event, edit, received>>

(* The UPDATE matched no row: continue with the next candidate.            *)
Skip(w) ==
  /\ worker[w].pc = "batch"
  /\ \E d \in worker[w].todo :
       /\ ~Claimable(d)
       /\ worker' = [worker EXCEPT ![w] = Rest(worker[w].todo \ {d})]
  /\ UNCHANGED <<now, endpoint, event, row, edit, received>>

(* The row is read back: deleted (get() raises and ends the batch), taken  *)
(* over by another claim or released (lost claim), or still this worker's. *)
Load(w) ==
  /\ worker[w].pc = "claimed"
  /\ worker' = [worker EXCEPT ![w] =
       IF row[worker[w].d].status = "absent" THEN Idle
       ELSE IF row[worker[w].d].lease # worker[w].token THEN Rest(worker[w].todo)
       ELSE [worker[w] EXCEPT !.pc = "sending"]]
  /\ UNCHANGED <<now, endpoint, event, row, edit, received>>

(* The request, outside every transaction: the receiver may accept it and  *)
(* the answer still be lost; an audience mismatch fails without sending.   *)
Send(w) ==
  /\ worker[w].pc = "sending"
  /\ \E accepted, ok \in BOOLEAN :
       /\ ok => accepted
       /\ received' = [received EXCEPT ![worker[w].d] = @ \/ accepted]
       /\ worker' = [worker EXCEPT ![w].pc = "sent", ![w].ok = ok, ![w].at = now]
  /\ UNCHANGED <<now, endpoint, event, row, edit>>

OwnedIfPending(w) == row[worker[w].d].status = "pending"  \* mutant: no token in the filter
OwnedByKey(w) == row[worker[w].d].status # "absent"       \* mutant: filter(pk=...) alone
(* The finalizing transaction finds its claim: pk, token and PENDING.      *)
Owned(w) ==
  /\ row[worker[w].d].status = "pending"
  /\ row[worker[w].d].lease = worker[w].token

TargetOf(w) == EndpointOf(worker[w].d)
Attempt(w) == row[worker[w].d].attempts + 1
ExhaustedEarly(w) == Attempt(w) >= Len(Schedule)  \* mutant: gives up one attempt early
Exhausted(w) == Attempt(w) > Len(Schedule)

MustDisable(w) ==
  LET e == endpoint[TargetOf(w)] IN
    /\ e.since # Null /\ e.active
    /\ worker[w].at - e.since >= DisableAfter

Finalizing(w) ==
  /\ worker[w].pc = "sent"
  /\ endpoint[TargetOf(w)].state = "live"
  /\ Owned(w)

ClosedStillLeased(w, status) ==  \* mutant: the claim is not released
  [status |-> status, attempts |-> Attempt(w), lease |-> worker[w].token, nextAt |-> Null]
Closed(w, status) ==
  [status |-> status, attempts |-> Attempt(w), lease |-> Null, nextAt |-> Null]

Return(w) ==
  /\ worker' = [worker EXCEPT ![w] = Rest(worker[w].todo)]
  /\ UNCHANGED <<now, event, edit, received>>

FinalizeSuccess(w) ==
  /\ Finalizing(w) /\ worker[w].ok
  /\ row' = [row EXCEPT ![worker[w].d] = Closed(w, "succeeded")]
  /\ endpoint' = [endpoint EXCEPT ![TargetOf(w)].since = Null]
  /\ Return(w)

(* attempts > len(schedule): _track_failure is not reached.                *)
FinalizeExhausted(w) ==
  /\ Finalizing(w) /\ ~worker[w].ok /\ Exhausted(w)
  /\ row' = [row EXCEPT ![worker[w].d] = Closed(w, "failed")]
  /\ UNCHANGED endpoint
  /\ Return(w)

(* _track_failure disables the endpoint and fails its PENDING rows.        *)
FinalizeDisable(w) ==
  /\ Finalizing(w) /\ ~worker[w].ok /\ ~Exhausted(w) /\ MustDisable(w)
  /\ endpoint' = [endpoint EXCEPT ![TargetOf(w)].active = FALSE]
  /\ row' = [d \in Deliveries |->
       IF d = worker[w].d THEN Closed(w, "failed")
       ELSE IF EndpointOf(d) = TargetOf(w) /\ row[d].status = "pending"
         THEN [row[d] EXCEPT !.status = "failed", !.lease = Null, !.nextAt = Null]
       ELSE row[d]]
  /\ Return(w)

FinalizeRetry(w) ==
  /\ Finalizing(w) /\ ~worker[w].ok /\ ~Exhausted(w) /\ ~MustDisable(w)
  /\ endpoint' = [endpoint EXCEPT ![TargetOf(w)].since = IF @ = Null THEN worker[w].at ELSE @]
  /\ row' = [row EXCEPT ![worker[w].d] =
       [status |-> "pending", attempts |-> Attempt(w), lease |-> Null,
        nextAt |-> worker[w].at + Schedule[Attempt(w)]]]
  /\ Return(w)

LostClaim(w) ==
  /\ worker[w].pc = "sent"
  /\ endpoint[TargetOf(w)].state = "live"
  /\ ~Owned(w)
  /\ UNCHANGED <<row, endpoint>>
  /\ Return(w)

(* select_for_update().get() raises DoesNotExist: the batch ends.          *)
EndpointVanished(w) ==
  /\ worker[w].pc = "sent"
  /\ endpoint[TargetOf(w)].state # "live"
  /\ worker' = [worker EXCEPT ![w] = Idle]
  /\ UNCHANGED <<now, endpoint, event, row, edit, received>>

(* The process dies, or an exception ends the batch before finalization.   *)
Crash(w) ==
  /\ worker[w].pc # "idle"
  /\ worker' = [worker EXCEPT ![w] = Idle]
  /\ UNCHANGED <<now, endpoint, event, row, edit, received>>

WorkerStep(w) ==
  \/ Claim(w) \/ Skip(w) \/ Load(w) \/ Send(w)
  \/ FinalizeSuccess(w) \/ FinalizeExhausted(w) \/ FinalizeDisable(w) \/ FinalizeRetry(w)
  \/ LostClaim(w) \/ EndpointVanished(w)

-----------------------------------------------------------------------------
(* Endpoint and delivery management while the workers run.                 *)

CreateEndpoint(e) ==
  /\ endpoint[e].state = "new"
  /\ endpoint' = [endpoint EXCEPT ![e] = [state |-> "live", active |-> TRUE, since |-> Null]]
  /\ UNCHANGED <<now, event, row, worker, edit, received>>

(* on_delete=CASCADE removes its deliveries.                               *)
DeleteEndpoint(e) ==
  /\ endpoint[e].state = "live"
  /\ endpoint' = [endpoint EXCEPT ![e] = [state |-> "gone", active |-> FALSE, since |-> Null]]
  /\ row' = [d \in Deliveries |-> IF EndpointOf(d) = e THEN NoRow ELSE row[d]]
  /\ UNCHANGED <<now, event, worker, edit, received>>

(* PATCH and PUT: get_object() without a row lock ...                      *)
PatchRead(r, e) ==
  /\ edit[r] = NoEdit
  /\ endpoint[e].state = "live"
  /\ edit' = [edit EXCEPT ![r] =
       [e |-> e, active |-> endpoint[e].active, since |-> endpoint[e].since]]
  /\ UNCHANGED <<now, endpoint, event, row, worker, received>>

(* ... then save() of every column; save() inserts a row deleted meanwhile. *)
PatchSave(r, sent) ==
  /\ edit[r] # NoEdit
  /\ endpoint' = [endpoint EXCEPT ![edit[r].e] =
       [state |-> "live",
        active |-> IF sent = "other" THEN edit[r].active ELSE sent = "enable",
        since |-> IF sent = "enable" THEN Null ELSE edit[r].since]]
  /\ edit' = [edit EXCEPT ![r] = NoEdit]
  /\ UNCHANGED <<now, event, row, worker, received>>

(* The admin action: one UPDATE.                                           *)
AdminEnable(e) ==
  /\ endpoint[e].state = "live"
  /\ endpoint' = [endpoint EXCEPT ![e] = [state |-> "live", active |-> TRUE, since |-> Null]]
  /\ UNCHANGED <<now, event, row, worker, edit, received>>

(* retry_deliveries(): API, admin and devx_webhooks retry.                 *)
Retry(d) ==
  /\ row[d].status # "absent"
  /\ row[d].lease = Null
  /\ row' = [row EXCEPT ![d] = NewRow(now)]
  /\ UNCHANGED <<now, endpoint, event, worker, edit, received>>

Prune(ev) ==
  /\ event[ev].state = "stored"
  /\ event[ev].at < now - Retention
  /\ \A d \in Deliveries : d[1] = ev => row[d].status # "pending"
  /\ event' = [event EXCEPT ![ev] = [state |-> "pruned", targets |-> {}, at |-> 0]]
  /\ row' = [d \in Deliveries |-> IF d[1] = ev THEN NoRow ELSE row[d]]
  /\ UNCHANGED <<now, endpoint, worker, edit, received>>

Manage ==
  \/ \E ev \in Events :
       \/ PublishRead(ev) \/ PublishCommit(ev) \/ PublishRollback(ev) \/ Prune(ev)
       \/ \E e \in Endpoints : Ping(ev, e)
  \/ \E e \in Endpoints : CreateEndpoint(e) \/ DeleteEndpoint(e) \/ AdminEnable(e)
  \/ \E r \in Editors :
       \/ \E e \in Endpoints : PatchRead(r, e)
       \/ \E sent \in {"other", "enable", "disable"} : PatchSave(r, sent)
  \/ \E d \in Deliveries : Retry(d)

Next ==
  \/ Tick
  \/ Manage
  \/ \E w \in Workers :
       \/ Scan(w, Events) \/ \E ev \in Events : Scan(w, {ev})
       \/ WorkerStep(w)
       \/ Crash(w)

Spec == Init /\ [][Next]_vars

(* devx_webhooks deliver --loop: each worker keeps polling all events and  *)
(* the operating system keeps running it; time passes.                     *)
FairSpec ==
  /\ Spec
  /\ WF_vars(Tick)
  /\ \A w \in Workers : WF_vars(Scan(w, Events)) /\ WF_vars(WorkerStep(w))
-----------------------------------------------------------------------------
(* Properties.                                                             *)

(* Every table, local variable and in-flight request has its type.         *)
TypeOK ==
  /\ now \in Nat
  /\ endpoint \in [Endpoints -> EndpointRow]
  /\ event \in [Events -> EventRow]
  /\ row \in [Deliveries -> DeliveryRow]
  /\ worker \in [Workers -> WorkerState]
  /\ edit \in [Editors -> EditState]
  /\ received \in [Deliveries -> BOOLEAN]

(* A PENDING row always has a due time, so some worker can pick it up; any *)
(* other row has neither a due time nor a claim, however its worker, its   *)
(* endpoint's disabling and manual retries interleaved.                    *)
RowCoherent ==
  \A d \in Deliveries :
    IF row[d].status = "pending" THEN row[d].nextAt # Null
    ELSE row[d].nextAt = Null /\ row[d].lease = Null

Holds(w, d) ==
  /\ worker[w].pc \in {"claimed", "sending", "sent"}
  /\ worker[w].d = d /\ worker[w].token = row[d].lease

(* Two workers never both hold the live claim of a delivery, also after    *)
(* leases expired and the row was claimed again: "each row uses a          *)
(* conditional claim and a token-checked finalization".                    *)
SingleHolder ==
  \A d \in Deliveries, w1, w2 \in Workers : Holds(w1, d) /\ Holds(w2, d) => w1 = w2

(* A claimed row is left alone until its holder finalizes it: it changes   *)
(* only when the lease has expired, the holder records its outcome, the    *)
(* endpoint is disabled, or the row is deleted.  "A unique token prevents  *)
(* a late worker from overwriting a newer attempt."                        *)
LeaseRespected ==
  [][\A d \in Deliveries :
       row[d].lease # Null /\ row'[d] # row[d] =>
         \/ row[d].nextAt <= now
         \/ \E w \in Workers : Holds(w, d) /\ worker[w].pc = "sent" /\ worker'[w].pc # "sent"
         \/ endpoint[EndpointOf(d)].active /\ ~endpoint'[EndpointOf(d)].active
         \/ row'[d].status = "absent"]_vars

(* FAILED means "Gave up after the last retry, or the endpoint was         *)
(* disabled": every attempt of the schedule was spent, or the endpoint was *)
(* disabled in the same transaction.                                       *)
GivesUpOnlyAfterSchedule ==
  [][\A d \in Deliveries :
       row[d].status = "pending" /\ row'[d].status = "failed" =>
         \/ row'[d].attempts = Len(Schedule) + 1
         \/ endpoint[EndpointOf(d)].active /\ ~endpoint'[EndpointOf(d)].active]_vars

(* Nothing is sent for an event whose transaction did not commit: the      *)
(* outbox works "without notifying anyone about changes that were rolled   *)
(* back".                                                                  *)
OnlyCommittedEventsAreSent ==
  \A d \in Deliveries : received[d] => event[d[1]].state \in {"stored", "pruned"}

Contract == INSTANCE OutboxContract WITH status <- [d \in Deliveries |-> row[d].status]

(* The outbox implements its contract.                                     *)
ImplementsContract == Contract!Spec

(* "A dead worker's delivery becomes due after timeout + 60 seconds": once *)
(* workers stop dying, every due delivery of an active endpoint gets an    *)
(* attempt recorded, whatever claim a dead worker left on it.  Excepted    *)
(* are an endpoint made inactive, and a dead worker's lease that ends      *)
(* beyond the modelled clock.                                              *)
BeyondClock(d) ==
  /\ row[d].nextAt # Null /\ row[d].nextAt > MaxNow
  /\ \A w \in Workers : ~Holds(w, d)

CrashesStop == <>[][\A w \in Workers : ~Crash(w)]_vars

DueIsAttempted ==
  CrashesStop =>
    \A d \in Deliveries, n \in 0 .. Len(Schedule) :
      (Claimable(d) /\ row[d].attempts = n) ~>
        \/ row[d].status # "pending" \/ row[d].attempts # n
        \/ ~endpoint[EndpointOf(d)].active
        \/ BeyondClock(d)

(* "PATCH (only the fields sent)": an update that does not send is_active  *)
(* does not enable an endpoint that a worker disabled while the request    *)
(* was in flight.                                                          *)
PatchEnablesOnlyIfSent ==
  [][\A r \in Editors :
       PatchSave(r, "other") /\ endpoint[edit[r].e].state = "live" =>
         (endpoint'[edit[r].e].active => endpoint[edit[r].e].active)]_vars
=============================================================================
