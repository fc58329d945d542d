---------------------------- MODULE OutboxContract ----------------------------
(***************************************************************************)
(* What the webhook outbox promises for each delivery, without workers,    *)
(* claims, tokens or time: a delivery is created once with its event; it   *)
(* is marked succeeded only after its receiver accepted it; a pending one  *)
(* is given up alone or with the others of its endpoint; only a manual     *)
(* retry reopens a closed one; and a pending one disappears only with its  *)
(* endpoint.  A receiver may accept a delivery more than once, and at any  *)
(* moment (at least once).                                                 *)
(***************************************************************************)
CONSTANTS Events, Endpoints

VARIABLES
  status,    \* status of each delivery, "absent" when there is no row
  received   \* whether a receiver has accepted it at least once

Pairs == Events \X Endpoints

Init ==
  /\ status = [d \in Pairs |-> "absent"]
  /\ received = [d \in Pairs |-> FALSE]

Set(S, value) == status' = [d \in Pairs |-> IF d \in S THEN value ELSE status[d]]

Create(ev, S) ==
  /\ \A d \in S : d[1] = ev /\ status[d] = "absent"
  /\ Set(S, "pending")
  /\ UNCHANGED received

Accept(d) ==
  /\ received' = [received EXCEPT ![d] = TRUE]
  /\ UNCHANGED status

Succeed(d) ==
  /\ status[d] = "pending" /\ received[d]
  /\ Set({d}, "succeeded")
  /\ UNCHANGED received

GiveUp(e, S) ==
  /\ \A d \in S : d[2] = e /\ status[d] = "pending"
  /\ Set(S, "failed")
  /\ UNCHANGED received

Requeue(d) ==
  /\ status[d] # "absent"
  /\ Set({d}, "pending")
  /\ UNCHANGED received

DropEndpoint(e) ==
  /\ Set({d \in Pairs : d[2] = e}, "absent")
  /\ UNCHANGED received

DropEvent(ev) ==
  /\ \A d \in Pairs : d[1] = ev => status[d] # "pending"
  /\ Set({d \in Pairs : d[1] = ev}, "absent")
  /\ UNCHANGED received

Next ==
  \/ \E d \in Pairs : Accept(d) \/ Succeed(d) \/ Requeue(d)
  \/ \E ev \in Events : DropEvent(ev) \/ \E S \in SUBSET Pairs : Create(ev, S)
  \/ \E e \in Endpoints : DropEndpoint(e) \/ \E S \in SUBSET Pairs : GiveUp(e, S)

Spec == Init /\ [][Next]_<<status, received>>
=============================================================================
