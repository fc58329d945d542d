----------------------------- MODULE Idempotency -----------------------------
(***************************************************************************)
(* Idempotency-Key handling: acquire() and Claim.finish() of               *)
(* idempotency/store.py around one operation, for requests that reach any  *)
(* number of processes concurrently and share IdempotencyRecord rows.      *)
(*                                                                         *)
(* Every SQL statement is a step of its own: ownership needs autocommit,   *)
(* so nothing holds a row between two statements.  A request draws one     *)
(* uuid4() token in acquire(), so its token is modelled by the request     *)
(* itself; responses are modelled by the request that produced them.       *)
(***************************************************************************)
EXTENDS Integers

CONSTANTS
  Requests,       \* calls of acquire(); also the tokens and the responses
  Keys,           \* digests: method, path, principal, tenant, credentials and key
  Fingerprints,   \* digests of query, content type, Accept, language and body
  KeyOf,          \* KeyOf[r], FingerprintOf[r]: what Policy.before() computes for r
  FingerprintOf,
  Null,
  TTL,            \* retention of a complete record
  MaxNow          \* bound on the clock

ASSUME ConstantsAssumption ==
  /\ Null \notin Requests /\ Null \notin Fingerprints /\ Null \notin Nat
  /\ KeyOf \in [Requests -> Keys]
  /\ FingerprintOf \in [Requests -> Fingerprints]
  /\ TTL \in Nat \ {0} /\ MaxNow \in Nat

VARIABLES
  now,         \* timezone.now()
  record,      \* the IdempotencyRecord table
  pc,          \* where each request is
  seen,        \* the row a request has read
  answer,      \* the stored response a request replays
  executed,    \* requests whose handler has run
  reconciled   \* requests whose running record an operator has deleted

vars == <<now, record, pc, seen, answer, executed, reconciled>>

Row ==
  [state : {"absent", "running", "complete"}, token : Requests \cup {Null},
   fingerprint : Fingerprints \cup {Null}, content : Requests \cup {Null},
   expires : Nat \cup {Null}]

Absent ==
  [state |-> "absent", token |-> Null, fingerprint |-> Null, content |-> Null, expires |-> Null]

OwnedExpiring(r) ==  \* mutant: a claim gets a lease in the past instead of no expiry
  [state |-> "running", token |-> r, fingerprint |-> FingerprintOf[r],
   content |-> Null, expires |-> now - TTL]
Owned(r) ==
  [state |-> "running", token |-> r, fingerprint |-> FingerprintOf[r],
   content |-> Null, expires |-> Null]

Mine(r) == record[KeyOf[r]]

Goto(r, label) == pc' = [pc EXCEPT ![r] = label]

Init ==
  /\ now = 0
  /\ record = [k \in Keys |-> Absent]
  /\ pc = [r \in Requests |-> "start"]
  /\ seen = [r \in Requests |-> Absent]
  /\ answer = [r \in Requests |-> Null]
  /\ executed = {} /\ reconciled = {}

Tick ==
  /\ now < MaxNow
  /\ now' = now + 1
  /\ UNCHANGED <<record, pc, seen, answer, executed, reconciled>>

-----------------------------------------------------------------------------
(* acquire().                                                              *)

(* get_or_create(): the SELECT.                                            *)
Get(r) ==
  /\ pc[r] = "start"
  /\ seen' = [seen EXCEPT ![r] = Mine(r)]
  /\ Goto(r, IF Mine(r).state = "absent" THEN "insert" ELSE "decide")
  /\ UNCHANGED <<now, record, answer, executed, reconciled>>

(* get_or_create(): the INSERT, or an IntegrityError when the key exists.  *)
Insert(r) ==
  /\ pc[r] = "insert"
  /\ IF Mine(r).state = "absent"
     THEN record' = [record EXCEPT ![KeyOf[r]] = Owned(r)] /\ Goto(r, "owner")
     ELSE Goto(r, "reget") /\ UNCHANGED record
  /\ UNCHANGED <<now, seen, answer, executed, reconciled>>

(* get_or_create(): the second SELECT after the IntegrityError.            *)
GetAgain(r) ==
  /\ pc[r] = "reget"
  /\ seen' = [seen EXCEPT ![r] = Mine(r)]
  /\ Goto(r, IF Mine(r).state = "absent" THEN "failed" ELSE "decide")
  /\ UNCHANGED <<now, record, answer, executed, reconciled>>

Expired(row) == row.state = "complete" /\ row.expires # Null /\ row.expires <= now

(* The compare-and-set: the row is still the expired one that was read.    *)
UnchangedKey(r) == TRUE                          \* mutant: the UPDATE filters by key alone
UnchangedState(r) == Mine(r).state = "complete"  \* mutant: ... by key and state
Unchanged(r) == Expired(Mine(r)) /\ Mine(r).token = seen[r].token

TakeOver(r) ==
  /\ pc[r] = "decide" /\ Expired(seen[r])
  /\ Unchanged(r)
  /\ record' = [record EXCEPT ![KeyOf[r]] = Owned(r)]
  /\ Goto(r, "owner")
  /\ UNCHANGED <<now, seen, answer, executed, reconciled>>

(* 409: another request won the compare-and-set, or the row is running.    *)
Conflict(r) ==
  /\ pc[r] = "decide"
  /\ IF Expired(seen[r]) THEN ~Unchanged(r)
     ELSE seen[r].fingerprint = FingerprintOf[r] /\ seen[r].state # "complete"
  /\ Goto(r, "conflict")
  /\ UNCHANGED <<now, record, seen, answer, executed, reconciled>>

SameRequest(r) == seen[r].fingerprint = FingerprintOf[r]

(* 422: the key was used for a different request.                          *)
Mismatch(r) ==
  /\ pc[r] = "decide" /\ ~Expired(seen[r]) /\ ~SameRequest(r)
  /\ Goto(r, "mismatch")
  /\ UNCHANGED <<now, record, seen, answer, executed, reconciled>>

Replay(r) ==
  /\ pc[r] = "decide" /\ ~Expired(seen[r]) /\ SameRequest(r)
  /\ seen[r].state = "complete"
  /\ answer' = [answer EXCEPT ![r] = seen[r].content]
  /\ Goto(r, "replayed")
  /\ UNCHANGED <<now, record, seen, executed, reconciled>>

-----------------------------------------------------------------------------
(* The operation and Claim.finish().                                       *)

(* The handler runs, its side effects included, and returns a response.    *)
Execute(r) ==
  /\ pc[r] = "owner"
  /\ executed' = executed \cup {r}
  /\ Goto(r, "ran")
  /\ UNCHANGED <<now, record, seen, answer, reconciled>>

FinishableRunning(r) == Mine(r).state = "running"  \* mutant: no token in the filter
Finishable(r) == Mine(r).state = "running" /\ Mine(r).token = r

Finish(r) ==
  /\ pc[r] = "ran"
  /\ record' = IF Finishable(r)
       THEN [record EXCEPT ![KeyOf[r]].state = "complete", ![KeyOf[r]].content = r,
                           ![KeyOf[r]].expires = now + TTL]
       ELSE record
  /\ Goto(r, "answered")
  /\ UNCHANGED <<now, seen, answer, executed, reconciled>>

(* An exception, a cancellation, a streaming response or a crash, before   *)
(* or after the side effects: the row is left as it is.                    *)
Abandon(r) ==
  /\ pc[r] \in {"start", "insert", "reget", "decide", "owner", "ran"}
  /\ \/ executed' = executed
     \/ pc[r] = "owner" /\ executed' = executed \cup {r}
  /\ Goto(r, "failed")
  /\ UNCHANGED <<now, record, seen, answer, reconciled>>

(* An operator deletes a running row after reconciling the operation; its  *)
(* request may in fact still be running.                                   *)
Reconcile(k) ==
  /\ record[k].state = "running"
  /\ reconciled' = reconciled \cup {record[k].token}
  /\ record' = [record EXCEPT ![k] = Absent]
  /\ UNCHANGED <<now, pc, seen, answer, executed>>

Next ==
  \/ Tick
  \/ \E r \in Requests :
       \/ Get(r) \/ Insert(r) \/ GetAgain(r)
       \/ TakeOver(r) \/ Conflict(r) \/ Mismatch(r) \/ Replay(r)
       \/ Execute(r) \/ Finish(r) \/ Abandon(r)
  \/ \E k \in Keys : Reconcile(k)

Spec == Init /\ [][Next]_vars

-----------------------------------------------------------------------------
(* Properties.                                                             *)

(* Every row, snapshot and request state has its type.                     *)
TypeOK ==
  /\ now \in Nat
  /\ record \in [Keys -> Row]
  /\ pc \in [Requests -> {"start", "insert", "reget", "decide", "owner", "ran",
                          "conflict", "mismatch", "replayed", "answered", "failed"}]
  /\ seen \in [Requests -> Row]
  /\ answer \in [Requests -> Requests \cup {Null}]
  /\ executed \in SUBSET Requests
  /\ reconciled \in SUBSET Requests

Owns(r) == pc[r] \in {"owner", "ran"}

(* Two requests with one key never run the operation at the same time,     *)
(* unless an operator has deleted the running record of one of them:       *)
(* "Unfinished claims never expire automatically."                         *)
ExclusiveUnlessReconciled ==
  \A r, s \in Requests :
    r # s /\ KeyOf[r] = KeyOf[s] /\ Owns(r) /\ Owns(s) =>
      r \in reconciled \/ s \in reconciled

(* A replay is the response of an execution of the same request: same key, *)
(* same fingerprint, and its handler really ran.  A late finish() of an    *)
(* old owner must not put its response under a newer owner's fingerprint.  *)
ReplayIsFaithful ==
  \A r \in Requests :
    pc[r] = "replayed" =>
      /\ answer[r] \in executed
      /\ KeyOf[answer[r]] = KeyOf[r] /\ FingerprintOf[answer[r]] = FingerprintOf[r]

(* "Completed responses, including errors, are stored for ttl seconds and  *)
(* replayed": a complete record changes only after its retention.          *)
CompletedIsRetained ==
  [][\A k \in Keys :
       record[k].state = "complete" /\ record'[k] # record[k] => record[k].expires <= now]_vars

(* A running record is completed by the request that owns it, with its own *)
(* response, or deleted by an operator; it is never taken over.            *)
RunningIsOwned ==
  [][\A k \in Keys :
       record[k].state = "running" /\ record'[k] # record[k] =>
         \/ record'[k] = Absent
         \/ /\ record'[k].state = "complete"
            /\ record'[k].token = record[k].token /\ record'[k].content = record[k].token]_vars
=============================================================================
