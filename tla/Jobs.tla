-------------------------------- MODULE Jobs --------------------------------
(***************************************************************************)
(* Background jobs of contrib/jobs: start_job() stores a row and hands a   *)
(* run_job() call to a task queue after the commit; workers run the calls, *)
(* trying the function again while it raises; the API cancels, and         *)
(* devx_jobs retries and prunes, while they run.                           *)
(*                                                                         *)
(* Every statement on a row is one action: nothing in this component holds *)
(* a lock or a transaction from one statement to the next.  The job        *)
(* function is any function: it may report progress, return, return a      *)
(* value json cannot encode, or raise; JobContext.cancelled() only reads,  *)
(* so a function that stops early is one that returns.                     *)
(***************************************************************************)
EXTENDS Integers, FiniteSets

CONSTANTS
  Jobs,         \* Job rows that can exist
  Workers,      \* processes that run run_job(): queue workers and devx_jobs retry
  Cancellers,   \* cancel requests
  Null,         \* no job
  Copies,       \* deliveries of one call the queue can have outstanding
  Percents,     \* values reported with set_progress()
  MaxRetry,     \* largest --retry-count
  MaxAttempts   \* bound: no redelivery and no devx_jobs retry beyond it

ASSUME ConstantsAssumption ==
  /\ Null \notin Jobs
  /\ Percents \subseteq 0 .. 100
  /\ Copies \in Nat \ {0} /\ MaxRetry \in Nat /\ MaxAttempts \in Nat

VARIABLES
  row,      \* the Job table
  queue,    \* the run_job() call of each job on its way to a worker
  runner,   \* local variables of run_job() in each worker
  cancel,   \* the job each cancel request has read as active
  lost      \* jobs whose call was lost, or a run of which crashed or raised

vars == <<row, queue, runner, cancel, lost>>

-----------------------------------------------------------------------------
Terminal == {"succeeded", "failed", "cancelled"}

JobRow ==
  [status : {"absent", "queued", "running"} \cup Terminal, progress : 0 .. 100,
   attempts : Nat, result : BOOLEAN, error : BOOLEAN, finished : BOOLEAN]

QueueState == [state : {"none", "committed", "sent"}, copies : 0 .. Copies]

(* pc: idle; try, before the UPDATE that starts the function; function.    *)
Runner ==
  [pc : {"idle", "try", "function"}, j : Jobs \cup {Null}, tries : Nat,
   retry : 0 .. MaxRetry, command : BOOLEAN]

NoRow == [status |-> "absent", progress |-> 0, attempts |-> 0,
          result |-> FALSE, error |-> FALSE, finished |-> FALSE]
NewRowUnset == [NoRow EXCEPT !.status = "queued", !.progress = -1]  \* mutant
NewRow == [NoRow EXCEPT !.status = "queued"]
Idle == [pc |-> "idle", j |-> Null, tries |-> 0, retry |-> 0, command |-> FALSE]

Init ==
  /\ row = [j \in Jobs |-> NoRow]
  /\ queue = [j \in Jobs |-> [state |-> "none", copies |-> 0]]
  /\ runner = [w \in Workers |-> Idle]
  /\ cancel = [c \in Cancellers |-> Null]
  /\ lost = [call |-> {}, crash |-> {}, raised |-> {}]

Exists(j) == row[j].status # "absent"

-----------------------------------------------------------------------------
(* start_job(): the row is committed, then on_commit hands the call over.  *)

Start(j) ==
  /\ queue[j].state = "none" /\ ~Exists(j)
  /\ row' = [row EXCEPT ![j] = NewRow]
  /\ queue' = [queue EXCEPT ![j].state = "committed"]
  /\ UNCHANGED <<runner, cancel, lost>>

HandOver(j) ==
  /\ queue[j].state = "committed"
  /\ queue' = [queue EXCEPT ![j] = [state |-> "sent", copies |-> 1]]
  /\ UNCHANGED <<row, runner, cancel, lost>>

(* A queue that delivers at least once may deliver the call again.         *)
Redeliver(j) ==
  /\ queue[j].state = "sent" /\ queue[j].copies < Copies
  /\ row[j].attempts <= MaxAttempts
  /\ queue' = [queue EXCEPT ![j].copies = @ + 1]
  /\ UNCHANGED <<row, runner, cancel, lost>>

(* ... and one that delivers at most once may lose it.                     *)
Lose(j) ==
  /\ queue[j].copies > 0
  /\ queue' = [queue EXCEPT ![j].copies = @ - 1]
  /\ lost' = [lost EXCEPT !.call = @ \cup {j}]
  /\ UNCHANGED <<row, runner, cancel>>

-----------------------------------------------------------------------------
(* run_job() in worker w.                                                  *)

(* start_job() passes retry = 0.                                           *)
Take(w, j) ==
  /\ runner[w] = Idle
  /\ queue[j].copies > 0
  /\ queue' = [queue EXCEPT ![j].copies = @ - 1]
  /\ runner' = [runner EXCEPT ![w] = [Idle EXCEPT !.pc = "try", !.j = j]]
  /\ UNCHANGED <<row, cancel, lost>>

(* devx_jobs retry: the row is read, the status tested, run_job() called.  *)
RetryCommand(w, j, retry) ==
  /\ runner[w] = Idle
  /\ row[j].status \in {"failed", "cancelled"}
  /\ row[j].attempts <= MaxAttempts
  /\ runner' = [runner EXCEPT ![w] =
       [pc |-> "try", j |-> j, tries |-> 0, retry |-> retry, command |-> TRUE]]
  /\ UNCHANGED <<row, queue, cancel, lost>>

Mine(w) == runner[w].j
Leave(w) == runner' = [runner EXCEPT ![w] = Idle]

(* Job.objects.filter(pk).exclude(status=CANCELLED)                        *)
NotCancelledAny(j) == Exists(j)  \* mutant: no exclude()
NotCancelled(j) == Exists(j) /\ row[j].status # "cancelled"

(* _finish(): one UPDATE, nothing when the row is cancelled or deleted.    *)
Finish(w, outcome) ==
  /\ row' = IF NotCancelled(Mine(w)) THEN [row EXCEPT ![Mine(w)] = outcome] ELSE row
  /\ Leave(w)
  /\ UNCHANGED <<queue, cancel, lost>>

FailedRow(j) == [row[j] EXCEPT !.status = "failed", !.error = TRUE, !.finished = TRUE]

(* resolve_job() raises LookupError: a deployment without the function.    *)
Unresolvable(w) ==
  /\ runner[w].pc = "try" /\ runner[w].tries = 0
  /\ Finish(w, FailedRow(Mine(w)))

TryFunction(w) ==
  /\ runner[w].pc = "try"
  /\ NotCancelled(Mine(w))
  /\ row' = [row EXCEPT ![Mine(w)].status = "running", ![Mine(w)].attempts = @ + 1]
  /\ runner' = [runner EXCEPT ![w].pc = "function", ![w].tries = @ + 1]
  /\ UNCHANGED <<queue, cancel, lost>>

(* The UPDATE matched no row: run_job() returns.                           *)
NotStarted(w) ==
  /\ runner[w].pc = "try"
  /\ ~NotCancelled(Mine(w))
  /\ Leave(w)
  /\ UNCHANGED <<row, queue, cancel, lost>>

(* ctx.set_progress(): any status.                                         *)
SetProgress(w, percent) ==
  /\ runner[w].pc = "function"
  /\ Exists(Mine(w))
  /\ row' = [row EXCEPT ![Mine(w)].progress = percent]
  /\ UNCHANGED <<queue, runner, cancel, lost>>

SucceededRowKeepingProgress(j) ==  \* mutant: progress is left to the function
  [row[j] EXCEPT !.status = "succeeded", !.result = TRUE, !.finished = TRUE]
SucceededRow(j) ==
  [row[j] EXCEPT !.status = "succeeded", !.progress = 100, !.result = TRUE, !.finished = TRUE]

Succeed(w) ==
  /\ runner[w].pc = "function"
  /\ Finish(w, SucceededRow(Mine(w)))

(* _json_safe(result) raises outside the try: run_job() ends, no UPDATE.   *)
ResultNotEncodable(w) ==
  /\ runner[w].pc = "function"
  /\ lost' = [lost EXCEPT !.raised = @ \cup {Mine(w)}]
  /\ Leave(w)
  /\ UNCHANGED <<row, queue, cancel>>

TryAgain(w) ==
  /\ runner[w].pc = "function"
  /\ runner[w].tries <= runner[w].retry
  /\ runner' = [runner EXCEPT ![w].pc = "try"]
  /\ UNCHANGED <<row, queue, cancel, lost>>

FailSilently(w) ==  \* mutant: the last failure is not recorded
  /\ runner[w].pc = "function"
  /\ runner[w].tries > runner[w].retry
  /\ Leave(w)
  /\ UNCHANGED <<row, queue, cancel, lost>>
Fail(w) ==
  /\ runner[w].pc = "function"
  /\ runner[w].tries > runner[w].retry
  /\ Finish(w, FailedRow(Mine(w)))

Crash(w) ==
  /\ runner[w].pc # "idle"
  /\ lost' = [lost EXCEPT !.crash = @ \cup {Mine(w)}]
  /\ Leave(w)
  /\ UNCHANGED <<row, queue, cancel>>

RunStep(w) ==
  \/ Unresolvable(w) \/ TryFunction(w) \/ NotStarted(w)
  \/ Succeed(w) \/ TryAgain(w) \/ Fail(w)

-----------------------------------------------------------------------------
(* POST /{pk}/cancel: the instance is read, then one UPDATE by pk alone.   *)

CancelRead(c, j) ==
  /\ cancel[c] = Null
  /\ row[j].status \in {"queued", "running"}
  /\ cancel' = [cancel EXCEPT ![c] = j]
  /\ UNCHANGED <<row, queue, runner, lost>>

CancelWrite(c) ==
  /\ cancel[c] # Null
  /\ row' = [j \in Jobs |-> IF j = cancel[c] /\ Exists(j)
                            THEN [row[j] EXCEPT !.status = "cancelled", !.finished = TRUE]
                            ELSE row[j]]
  /\ cancel' = [cancel EXCEPT ![c] = Null]
  /\ UNCHANGED <<queue, runner, lost>>

(* devx_jobs prune: any terminal job may be old enough.                    *)
Prune(j) ==
  /\ row[j].status \in Terminal
  /\ row' = [row EXCEPT ![j] = NoRow]
  /\ UNCHANGED <<queue, runner, cancel, lost>>

Next ==
  \/ \E j \in Jobs : Start(j) \/ HandOver(j) \/ Redeliver(j) \/ Lose(j) \/ Prune(j)
  \/ \E w \in Workers :
       \/ RunStep(w) \/ ResultNotEncodable(w) \/ Crash(w)
       \/ \E percent \in Percents : SetProgress(w, percent)
       \/ \E j \in Jobs :
            \/ Take(w, j)
            \/ \E retry \in 0 .. MaxRetry : RetryCommand(w, j, retry)
  \/ \E c \in Cancellers : CancelWrite(c) \/ \E j \in Jobs : CancelRead(c, j)

Spec == Init /\ [][Next]_vars

(* on_commit callbacks run, idle workers take calls, functions end.        *)
FairSpec ==
  /\ Spec
  /\ \A j \in Jobs : WF_vars(HandOver(j)) /\ WF_vars(\E w \in Workers : Take(w, j))
  /\ \A w \in Workers : WF_vars(RunStep(w))

-----------------------------------------------------------------------------
(* Properties.                                                             *)

(* Every row, call, local variable and request has its type.               *)
TypeOK ==
  /\ row \in [Jobs -> JobRow]
  /\ queue \in [Jobs -> QueueState]
  /\ runner \in [Workers -> Runner]
  /\ cancel \in [Cancellers -> Jobs \cup {Null}]
  /\ lost \in [call : SUBSET Jobs, crash : SUBSET Jobs, raised : SUBSET Jobs]

(* "run_job never overwrites a cancellation with a later success or        *)
(* failure", nor starts the function again: whatever runs, retries and     *)
(* redeliveries are under way, a cancelled job keeps its status and its    *)
(* attempts until it is deleted.                                           *)
CancellationIsFinal ==
  [][\A j \in Jobs :
       row[j].status = "cancelled" =>
         \/ row'[j].status = "absent"
         \/ row'[j].status = "cancelled" /\ row'[j].attempts = row[j].attempts]_vars

(* A run of j that has called the function at least once.                  *)
LiveRun(j) == \E w \in Workers : Mine(w) = j /\ runner[w].tries > 0

(* A job shown as running is being run, also when several deliveries of    *)
(* its call and a retry overlap, unless a run of it was lost: a poller     *)
(* that waits for the status to leave running does not wait for nothing.   *)
RunningIsBeingRun ==
  \A j \in Jobs :
    row[j].status = "running" => LiveRun(j) \/ j \in lost.crash \cup lost.raised

(* A succeeded job has its result and progress 100; only another run that  *)
(* is still under way, or that was lost, can have lowered the progress.    *)
SucceededIsComplete ==
  \A j \in Jobs :
    row[j].status = "succeeded" =>
      /\ row[j].result /\ row[j].finished
      /\ row[j].progress = 100 \/ LiveRun(j) \/ j \in lost.crash \cup lost.raised

(* What a poller reads in a row is true: a running job is being run, a     *)
(* succeeded one is complete (runner.py:152-228).                          *)
StatusIsTrue == RunningIsBeingRun /\ SucceededIsComplete

(* Every job settles: it ends, however its runs, retries and cancellations *)
(* interleave, unless its call or one of its runs was lost.                *)
JobSettles ==
  \A j \in Jobs :
    row[j].status \in {"queued", "running"} ~>
      \/ row[j].status \in Terminal \cup {"absent"}
      \/ j \in lost.call \cup lost.crash \cup lost.raised

(* "mark a queued or running job cancelled": a job that has ended is not   *)
(* cancelled.                                                              *)
CancelsOnlyActive ==
  [][\A j \in Jobs :
       row[j].status \in {"succeeded", "failed"} => row'[j].status # "cancelled"]_vars
=============================================================================
