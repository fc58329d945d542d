------------------------------- MODULE Health ------------------------------
(***************************************************************************)
(* http/health.py: /ready runs every check in a thread of its own and      *)
(* waits for them up to a deadline.  A check that hangs keeps its slot, so *)
(* later probes wait for the same thread instead of starting another.      *)
(***************************************************************************)
EXTENDS Integers, Sequences
CONSTANTS Probes, Checks, None   \* Checks: a sequence of names
VARIABLES workers, slot, pc, joined, results, doneBefore
vars == <<workers, slot, pc, joined, results, doneBefore>>
\* workers[c]: the threads ever started for check c, as what each is doing; slot[c]: which of
\* them is in the slot.  joined[p][c]: the one that p waits for.  doneBefore[p]: <<c, i>> for
\* the threads that had ended when p began.

Slots == DOMAIN Checks
Ended == {"ok", "error"}
Done(c, i) == workers[c][i] \in Ended
EndedWorkers == UNION {{<<c, i>> : i \in {j \in DOMAIN workers[c] : Done(c, j)}} : c \in Slots}

Init ==
  /\ workers = [c \in Slots |-> <<>>]
  /\ slot = [c \in Slots |-> None]
  /\ pc = [p \in Probes |-> "start"]
  /\ joined = [p \in Probes |-> [c \in Slots |-> None]]
  /\ results = [p \in Probes |-> <<>>]
  /\ doneBefore = [p \in Probes |-> {}]

StartIfNone(c) == slot[c] = None
StartAlways(c) == TRUE
Starts(c) == slot[c] = None \/ Done(c, slot[c])
\* run(): under the lock, each slot without a thread at work gets one.
Run(p) ==
  /\ pc[p] = "start"
  /\ workers' = [c \in Slots |-> IF Starts(c) THEN Append(workers[c], "running") ELSE workers[c]]
  /\ slot' = [c \in Slots |-> IF Starts(c) THEN Len(workers[c]) + 1 ELSE slot[c]]
  /\ joined' = [joined EXCEPT ![p] = slot']
  /\ doneBefore' = [doneBefore EXCEPT ![p] = EndedWorkers]
  /\ pc' = [pc EXCEPT ![p] = "wait"]
  /\ UNCHANGED <<results>>

\* The check whose result is next; its thread is the one that p joined.
Turn(p) == Len(results[p]) + 1
\* A result that is there is taken, also after the deadline.
Take(p) ==
  /\ pc[p] \in {"wait", "late"} /\ Turn(p) \in Slots
  /\ Done(Turn(p), joined[p][Turn(p)])
  /\ results' = [results EXCEPT ![p] = Append(@, workers[Turn(p)][joined[p][Turn(p)]])]
  /\ UNCHANGED <<workers, slot, pc, joined, doneBefore>>
Deadline(p) ==
  /\ pc[p] = "wait"
  /\ pc' = [pc EXCEPT ![p] = "late"]
  /\ UNCHANGED <<workers, slot, joined, results, doneBefore>>
TimeOut(p) ==
  /\ pc[p] = "late" /\ Turn(p) \in Slots
  /\ ~Done(Turn(p), joined[p][Turn(p)])
  /\ results' = [results EXCEPT ![p] = Append(@, "timeout")]
  /\ UNCHANGED <<workers, slot, pc, joined, doneBefore>>
\* ready(): 200 only when every check is ok.
Ready(p) ==
  /\ pc[p] \in {"wait", "late"} /\ Len(results[p]) = Len(Checks)
  /\ pc' = [pc EXCEPT ![p] = IF \A i \in DOMAIN results[p] : results[p][i] = "ok" THEN "200" ELSE "503"]
  /\ UNCHANGED <<workers, slot, joined, results, doneBefore>>

\* _execute(): the check asks its dependency, the thread closes its connections, and only
\* then is the result there.
Check(c, i) ==
  /\ workers[c][i] = "running"
  /\ \E s \in {"closing ok", "closing error"} : workers' = [workers EXCEPT ![c][i] = s]
  /\ UNCHANGED <<slot, pc, joined, results, doneBefore>>
Deliver(c, i) ==
  /\ workers[c][i] \in {"closing ok", "closing error"}
  /\ workers' = [workers EXCEPT ![c][i] = IF @ = "closing ok" THEN "ok" ELSE "error"]
  /\ UNCHANGED <<slot, pc, joined, results, doneBefore>>

Next ==
  \/ \E p \in Probes : Run(p) \/ Take(p) \/ Deadline(p) \/ TimeOut(p) \/ Ready(p)
  \/ \E c \in Slots : \E i \in DOMAIN workers[c] : Check(c, i) \/ Deliver(c, i)
Spec == Init /\ [][Next]_vars

\* health.py:105 "repeated probes never allocate an unbounded queue or thread pool": a check
\* has one thread at work, a probe never waits for a thread that had ended before it
\* began, and what it calls ready was found ok by each of the threads it waited for.
OneWorkerAndItsNews ==
  /\ \A c \in Slots : \A i, j \in DOMAIN workers[c] : Done(c, i) \/ Done(c, j) \/ i = j
  /\ \A p \in Probes, c \in Slots : <<c, joined[p][c]>> \notin doneBefore[p]
  /\ \A p \in Probes : pc[p] = "200" => \A c \in Slots : workers[c][joined[p][c]] = "ok"
=============================================================================
