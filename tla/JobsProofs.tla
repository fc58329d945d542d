----------------------------- MODULE JobsProofs -----------------------------
(***************************************************************************)
(* Proofs about Jobs for every set of jobs, workers and cancel requests,   *)
(* every number of deliveries and every retry budget.                      *)
(***************************************************************************)
EXTENDS Jobs, TLAPS

(* A worker that runs nothing has no job; one that runs has one, and has   *)
(* counted its try once the function was called.                           *)
RunnerInv ==
  \A w \in Workers :
    IF runner[w].pc = "idle" THEN Mine(w) = Null /\ runner[w].tries = 0
    ELSE Mine(w) \in Jobs /\ (runner[w].pc = "function" => runner[w].tries > 0)

IInv == TypeOK /\ RunnerInv /\ RunningIsBeingRun /\ SucceededIsComplete

Lost(j) == j \in lost.crash \cup lost.raised

(* What RunningIsBeingRun and SucceededIsComplete say of one job, given    *)
(* whether a run of it is still under way or was lost.                     *)
RowOK(r, excused) ==
  /\ r.status = "running" => excused
  /\ r.status = "succeeded" => r.result /\ r.finished /\ (r.progress = 100 \/ excused)

LEMMA RowsOK ==
  ASSUME TypeOK
  PROVE  (RunningIsBeingRun /\ SucceededIsComplete)
           <=> \A j \in Jobs : RowOK(row[j], LiveRun(j) \/ Lost(j))
  BY DEF TypeOK, JobRow, RowOK, RunningIsBeingRun, SucceededIsComplete, Lost

-----------------------------------------------------------------------------
LEMMA RowTypes ==
  ASSUME TypeOK, NEW j \in Jobs
  PROVE  /\ NewRow \in JobRow /\ NoRow \in JobRow
         /\ FailedRow(j) \in JobRow /\ SucceededRow(j) \in JobRow
         /\ \A excused \in BOOLEAN :
              /\ RowOK(NewRow, excused) /\ RowOK(NoRow, excused)
              /\ RowOK(FailedRow(j), excused) /\ RowOK(SucceededRow(j), excused)
<1>1. NoRow \in JobRow /\ NoRow.status = "absent"
  BY DEF NoRow, JobRow, Terminal
<1>2. NewRow \in JobRow
  BY <1>1 DEF NewRow, JobRow
<1>3. NewRow.status = "queued"
  BY DEF NewRow, NoRow
<1>4. row[j] \in JobRow
  BY DEF TypeOK
<1>5. FailedRow(j) \in JobRow /\ FailedRow(j).status = "failed"
  BY <1>4 DEF FailedRow, JobRow, Terminal
<1>6. SucceededRow(j) \in JobRow
  <2>1. \A percent \in 0 .. 100 :
          [row[j] EXCEPT !.status = "succeeded", !.progress = percent, !.result = TRUE,
                         !.finished = TRUE] \in JobRow
    BY <1>4 DEF JobRow, Terminal
  <2>2. 100 \in 0 .. 100
    OBVIOUS
  <2> QED BY <2>1, <2>2 DEF SucceededRow
<1>7. /\ SucceededRow(j).status = "succeeded" /\ SucceededRow(j).progress = 100
      /\ SucceededRow(j).result = TRUE /\ SucceededRow(j).finished = TRUE
  BY <1>4 DEF SucceededRow, JobRow
<1> QED BY <1>1, <1>2, <1>3, <1>5, <1>6, <1>7 DEF RowOK

LEMMA IdleType ==
  /\ Idle \in Runner /\ Idle.pc = "idle" /\ Idle.j = Null /\ Idle.tries = 0
  BY ConstantsAssumption DEF Idle, Runner

(* Worker w ends its run: only its job can lose its live run.              *)
LEMMA LeaveInv ==
  ASSUME TypeOK, RunnerInv, NEW w \in Workers, Leave(w)
  PROVE  /\ runner' \in [Workers -> Runner] /\ RunnerInv'
         /\ \A j \in Jobs : LiveRun(j) => j = Mine(w) \/ LiveRun(j)'
<1>1. runner'[w] = Idle /\ \A v \in Workers \ {w} : runner'[v] = runner[v]
  BY DEF Leave, TypeOK
<1>2. runner' \in [Workers -> Runner]
  BY IdleType DEF Leave, TypeOK
<1>3. RunnerInv'
  BY <1>1, IdleType DEF RunnerInv, Mine
<1>4. \A j \in Jobs : LiveRun(j) => j = Mine(w) \/ LiveRun(j)'
  BY <1>1 DEF LiveRun, Mine
<1> QED BY <1>2, <1>3, <1>4

(* Worker w goes on with its job.                                          *)
LEMMA GoOnInv ==
  ASSUME TypeOK, RunnerInv, NEW w \in Workers, runner[w].pc # "idle",
         NEW next \in Runner, next.j = Mine(w), next.tries >= runner[w].tries,
         next.pc # "idle", next.pc = "function" => next.tries > 0,
         runner' = [runner EXCEPT ![w] = next]
  PROVE  /\ runner' \in [Workers -> Runner] /\ RunnerInv'
         /\ \A j \in Jobs : LiveRun(j) => LiveRun(j)'
         /\ next.tries > 0 => \A j \in Jobs : j = Mine(w) => LiveRun(j)'
<1>1. runner'[w] = next /\ \A v \in Workers \ {w} : runner'[v] = runner[v]
  BY DEF TypeOK
<1>2. runner' \in [Workers -> Runner]
  BY DEF TypeOK
<1>3. RunnerInv'
  BY <1>1 DEF RunnerInv, Mine
<1>4. next.tries \in Nat /\ runner[w].tries \in Nat
  BY DEF TypeOK, Runner
<1>5. \A j \in Jobs : LiveRun(j) => LiveRun(j)'
  BY <1>1, <1>4 DEF LiveRun, Mine
<1>6. next.tries > 0 => \A j \in Jobs : j = Mine(w) => LiveRun(j)'
  BY <1>1 DEF LiveRun, Mine
<1> QED BY <1>2, <1>3, <1>5, <1>6

(* An idle worker takes job j.                                             *)
LEMMA TakeInv ==
  ASSUME TypeOK, RunnerInv, NEW w \in Workers, runner[w] = Idle, NEW next \in Runner,
         next.j \in Jobs, next.pc = "try", runner' = [runner EXCEPT ![w] = next]
  PROVE  /\ runner' \in [Workers -> Runner] /\ RunnerInv'
         /\ \A j \in Jobs : LiveRun(j) => LiveRun(j)'
<1>1. runner'[w] = next /\ \A v \in Workers \ {w} : runner'[v] = runner[v]
  BY DEF TypeOK
<1>2. runner' \in [Workers -> Runner]
  BY DEF TypeOK
<1>3. RunnerInv'
  BY <1>1 DEF RunnerInv, Mine
<1>4. \A j \in Jobs : LiveRun(j) => LiveRun(j)'
  BY <1>1, IdleType DEF LiveRun, Mine
<1> QED BY <1>2, <1>3, <1>4

(* A step keeps the rows right when no job loses its excuse and every row  *)
(* it writes is right.                                                     *)
LEMMA RowsKept ==
  ASSUME IInv, TypeOK',
         \A j \in Jobs :
           \/ RowOK(row'[j], FALSE)
           \/ row'[j] = row[j] /\ (LiveRun(j) \/ Lost(j) => LiveRun(j)' \/ Lost(j)')
           \/ (LiveRun(j)' \/ Lost(j)') /\ RowOK(row'[j], TRUE)
  PROVE  RunningIsBeingRun' /\ SucceededIsComplete'
<1>1. \A j \in Jobs : RowOK(row[j], LiveRun(j) \/ Lost(j))
  BY RowsOK DEF IInv
<1>2. \A j \in Jobs : RowOK(row'[j], LiveRun(j)' \/ Lost(j)')
  BY <1>1 DEF RowOK
<1> QED BY <1>2 DEF RowOK, RunningIsBeingRun, SucceededIsComplete, Lost, TypeOK, JobRow

LEMMA InitInv == Init => IInv
  BY ConstantsAssumption, IdleType
  DEF Init, IInv, TypeOK, JobRow, QueueState, NoRow, RunnerInv, Mine, RunningIsBeingRun,
      SucceededIsComplete

(* The steps that leave the rows and the runs alone.                       *)
LEMMA FrameInv ==
  ASSUME IInv, UNCHANGED <<row, runner>>, TypeOK', \A j \in Jobs : Lost(j) => Lost(j)'
  PROVE  IInv'
<1>1. \A j \in Jobs : LiveRun(j) => LiveRun(j)'
  BY DEF LiveRun, Mine
<1>2. RunnerInv'
  BY DEF IInv, RunnerInv, Mine
<1> QED BY <1>1, <1>2, RowsKept DEF IInv

(* _finish() with a terminal row, then the worker leaves.                  *)
LEMMA FinishInv ==
  ASSUME IInv, NEW w \in Workers, runner[w].pc # "idle",
         NEW outcome \in JobRow, RowOK(outcome, FALSE), Finish(w, outcome)
  PROVE  IInv'
<1>1. Mine(w) \in Jobs
  BY DEF IInv, RunnerInv
<1>2. /\ runner' \in [Workers -> Runner] /\ RunnerInv'
      /\ \A j \in Jobs : LiveRun(j) => j = Mine(w) \/ LiveRun(j)'
  BY LeaveInv DEF IInv, Finish
<1>3. TypeOK'
  BY <1>1, <1>2 DEF IInv, TypeOK, Finish
<1>4. ASSUME NEW j \in Jobs
      PROVE  \/ RowOK(row'[j], FALSE)
             \/ row'[j] = row[j] /\ (LiveRun(j) \/ Lost(j) => LiveRun(j)' \/ Lost(j)')
  <2>1. CASE j = Mine(w)
    BY <1>1, <2>1 DEF Finish, NotCancelled, Exists, RowOK, IInv, TypeOK
  <2>2. CASE j # Mine(w)
    BY <1>2, <2>2 DEF Finish, Lost, IInv, TypeOK
  <2> QED BY <2>1, <2>2
<1> QED BY <1>2, <1>3, <1>4, RowsKept DEF IInv

LEMMA StepInv == IInv /\ [Next]_vars => IInv'
<1> SUFFICES ASSUME IInv, [Next]_vars PROVE IInv'
  OBVIOUS
<1> USE ConstantsAssumption DEF IInv
<1>0. CASE UNCHANGED vars
  BY <1>0, FrameInv DEF vars, TypeOK, Lost
<1>1. ASSUME NEW j \in Jobs, Start(j) PROVE IInv'
  <2>1. TypeOK'
    <3>1. [queue[j] EXCEPT !.state = "committed"] \in QueueState
      BY DEF TypeOK, QueueState
    <3> QED BY <1>1, <3>1, RowTypes DEF Start, TypeOK
  <2>2. RunnerInv' /\ \A i \in Jobs : LiveRun(i) \/ Lost(i) => LiveRun(i)' \/ Lost(i)'
    BY <1>1 DEF Start, RunnerInv, LiveRun, Lost, Mine
  <2>3. \A i \in Jobs : RowOK(row'[i], FALSE) \/ row'[i] = row[i]
    BY <1>1, RowTypes DEF Start, TypeOK
  <2> QED BY <2>1, <2>2, <2>3, RowsKept
<1>2. ASSUME NEW j \in Jobs, HandOver(j) PROVE IInv'
  BY <1>2, FrameInv DEF HandOver, TypeOK, QueueState, Lost
<1>3. ASSUME NEW j \in Jobs, Redeliver(j) PROVE IInv'
  <2>1. [queue[j] EXCEPT !.copies = @ + 1] \in QueueState
    BY <1>3 DEF Redeliver, TypeOK, QueueState
  <2> QED BY <1>3, <2>1, FrameInv DEF Redeliver, TypeOK, Lost
<1>4. ASSUME NEW j \in Jobs, Lose(j) PROVE IInv'
  <2>1. [queue[j] EXCEPT !.copies = @ - 1] \in QueueState
    BY <1>4 DEF Lose, TypeOK, QueueState
  <2>2. TypeOK' /\ \A i \in Jobs : Lost(i) => Lost(i)'
    BY <1>4, <2>1 DEF Lose, TypeOK, Lost
  <2> QED BY <1>4, <2>2, FrameInv DEF Lose
<1>5. ASSUME NEW j \in Jobs, Prune(j) PROVE IInv'
  <2>1. TypeOK'
    BY <1>5, RowTypes DEF Prune, TypeOK
  <2>2. RunnerInv' /\ \A i \in Jobs : LiveRun(i) \/ Lost(i) => LiveRun(i)' \/ Lost(i)'
    BY <1>5 DEF Prune, RunnerInv, LiveRun, Lost, Mine
  <2>3. \A i \in Jobs : RowOK(row'[i], FALSE) \/ row'[i] = row[i]
    BY <1>5, RowTypes DEF Prune, TypeOK
  <2> QED BY <2>1, <2>2, <2>3, RowsKept
<1>6. ASSUME NEW w \in Workers, NEW j \in Jobs, Take(w, j) PROVE IInv'
  <2> DEFINE next == [Idle EXCEPT !.pc = "try", !.j = j]
  <2>1. next \in Runner /\ next.j = j /\ next.pc = "try"
    BY IdleType DEF Runner
  <2>2. /\ runner' \in [Workers -> Runner] /\ RunnerInv'
        /\ \A i \in Jobs : LiveRun(i) => LiveRun(i)'
    BY <1>6, <2>1, TakeInv DEF Take
  <2>3. [queue[j] EXCEPT !.copies = @ - 1] \in QueueState
    BY <1>6 DEF Take, TypeOK, QueueState
  <2>4. TypeOK'
    BY <1>6, <2>2, <2>3 DEF Take, TypeOK
  <2> QED BY <1>6, <2>2, <2>4, RowsKept DEF Take, Lost
<1>7. ASSUME NEW w \in Workers, NEW j \in Jobs, NEW retry \in 0 .. MaxRetry,
             RetryCommand(w, j, retry)
      PROVE  IInv'
  <2> DEFINE next == [pc |-> "try", j |-> j, tries |-> 0, retry |-> retry, command |-> TRUE]
  <2>1. next \in Runner /\ next.j = j /\ next.pc = "try"
    BY DEF Runner
  <2>2. /\ runner' \in [Workers -> Runner] /\ RunnerInv'
        /\ \A i \in Jobs : LiveRun(i) => LiveRun(i)'
    BY <1>7, <2>1, TakeInv DEF RetryCommand
  <2>3. TypeOK'
    BY <1>7, <2>2 DEF RetryCommand, TypeOK
  <2> QED BY <1>7, <2>2, <2>3, RowsKept DEF RetryCommand, Lost
<1>8. ASSUME NEW w \in Workers, Unresolvable(w) \/ Fail(w) PROVE IInv'
  <2>1. runner[w].pc # "idle" /\ Finish(w, FailedRow(Mine(w)))
    BY <1>8 DEF Unresolvable, Fail
  <2>2. Mine(w) \in Jobs
    BY <2>1 DEF RunnerInv
  <2> QED BY <2>1, <2>2, RowTypes, FinishInv
<1>9. ASSUME NEW w \in Workers, Succeed(w) PROVE IInv'
  <2>1. runner[w].pc # "idle" /\ Finish(w, SucceededRow(Mine(w)))
    BY <1>9 DEF Succeed
  <2>2. Mine(w) \in Jobs
    BY <2>1 DEF RunnerInv
  <2> QED BY <2>1, <2>2, RowTypes, FinishInv
<1>10. ASSUME NEW w \in Workers, TryFunction(w) PROVE IInv'
  <2> DEFINE next == [runner[w] EXCEPT !.pc = "function", !.tries = @ + 1]
  <2>1. Mine(w) \in Jobs /\ runner[w] \in Runner /\ row[Mine(w)] \in JobRow
    BY <1>10 DEF TryFunction, RunnerInv, TypeOK
  <2>2. /\ next \in Runner /\ next.j = Mine(w) /\ next.pc = "function"
        /\ next.tries >= runner[w].tries /\ next.tries > 0
    <3>1. runner[w].tries \in Nat /\ runner[w].tries + 1 \in Nat
      BY <2>1 DEF Runner
    <3>2. \A n \in Nat : [runner[w] EXCEPT !.pc = "function", !.tries = n] \in Runner
      BY <2>1 DEF Runner
    <3>3. next \in Runner
      BY <3>1, <3>2
    <3>4. next.j = Mine(w) /\ next.pc = "function" /\ next.tries = runner[w].tries + 1
      BY <2>1 DEF Runner, Mine
    <3> QED BY <3>1, <3>3, <3>4
  <2>3. runner' = [runner EXCEPT ![w] = next]
    BY <1>10 DEF TryFunction
  <2>4. /\ runner' \in [Workers -> Runner] /\ RunnerInv'
        /\ \A j \in Jobs : LiveRun(j) => LiveRun(j)'
        /\ \A j \in Jobs : j = Mine(w) => LiveRun(j)'
    BY <1>10, <2>2, <2>3, GoOnInv DEF TryFunction
  <2> DEFINE running == [row[Mine(w)] EXCEPT !.status = "running", !.attempts = @ + 1]
  <2>5. running \in JobRow /\ running.status = "running"
    <3>1. row[Mine(w)].attempts + 1 \in Nat
      BY <2>1 DEF JobRow
    <3>2. \A n \in Nat : [row[Mine(w)] EXCEPT !.status = "running", !.attempts = n] \in JobRow
      BY <2>1 DEF JobRow
    <3>3. running.status = "running"
      BY <2>1 DEF JobRow
    <3> QED BY <3>1, <3>2, <3>3
  <2>6. row' = [row EXCEPT ![Mine(w)] = running] /\ lost' = lost
    BY <1>10 DEF TryFunction
  <2>7. TypeOK'
    BY <1>10, <2>1, <2>4, <2>5, <2>6 DEF TryFunction, TypeOK
  <2>8. ASSUME NEW j \in Jobs
        PROVE  \/ row'[j] = row[j] /\ (LiveRun(j) \/ Lost(j) => LiveRun(j)' \/ Lost(j)')
               \/ (LiveRun(j)' \/ Lost(j)') /\ RowOK(row'[j], TRUE)
    <3>1. CASE j = Mine(w)
      <4>1. row'[j] = running
        BY <2>1, <2>6, <3>1 DEF TypeOK
      <4>2. RowOK(running, TRUE)
        BY <2>5 DEF RowOK
      <4> QED BY <2>4, <3>1, <4>1, <4>2
    <3>2. CASE j # Mine(w)
      BY <2>4, <2>6, <3>2 DEF Lost, TypeOK
    <3> QED BY <3>1, <3>2
  <2> QED BY <2>4, <2>7, <2>8, RowsKept
<1>11. ASSUME NEW w \in Workers, NotStarted(w) PROVE IInv'
  <2>1. Mine(w) \in Jobs
    BY <1>11 DEF NotStarted, RunnerInv
  <2>2. /\ runner' \in [Workers -> Runner] /\ RunnerInv'
        /\ \A j \in Jobs : LiveRun(j) => j = Mine(w) \/ LiveRun(j)'
    BY <1>11, LeaveInv DEF NotStarted
  <2>3. TypeOK'
    BY <1>11, <2>2 DEF NotStarted, TypeOK
  <2>4. RowOK(row[Mine(w)], FALSE)
    BY <1>11 DEF NotStarted, NotCancelled, Exists, RowOK
  <2> QED BY <1>11, <2>2, <2>3, <2>4, RowsKept DEF NotStarted, Lost
<1>12. ASSUME NEW w \in Workers, NEW percent \in Percents, SetProgress(w, percent) PROVE IInv'
  <2>1. Mine(w) \in Jobs /\ row[Mine(w)] \in JobRow /\ LiveRun(Mine(w)) /\ percent \in 0 .. 100
    BY <1>12 DEF SetProgress, RunnerInv, LiveRun, TypeOK
  <2> DEFINE reported == [row[Mine(w)] EXCEPT !.progress = percent]
  <2>2. /\ reported \in JobRow /\ reported.status = row[Mine(w)].status
        /\ reported.result = row[Mine(w)].result /\ reported.finished = row[Mine(w)].finished
    BY <2>1 DEF JobRow
  <2>3. row' = [row EXCEPT ![Mine(w)] = reported] /\ lost' = lost /\ runner' = runner
    BY <1>12 DEF SetProgress
  <2>4. TypeOK'
    BY <1>12, <2>1, <2>2, <2>3 DEF SetProgress, TypeOK
  <2>5. RunnerInv' /\ \A j \in Jobs : LiveRun(j)' <=> LiveRun(j)
    BY <2>3 DEF RunnerInv, LiveRun, Mine
  <2>6. RowOK(reported, TRUE)
    BY <2>1, <2>2 DEF RowOK, SucceededIsComplete
  <2>7. \A j \in Jobs : \/ row'[j] = row[j]
                        \/ LiveRun(j)' /\ RowOK(row'[j], TRUE)
    BY <2>1, <2>3, <2>5, <2>6 DEF TypeOK
  <2> QED BY <2>3, <2>4, <2>5, <2>7, RowsKept DEF Lost
<1>13. ASSUME NEW w \in Workers, TryAgain(w) PROVE IInv'
  <2> DEFINE next == [runner[w] EXCEPT !.pc = "try"]
  <2>1. runner[w] \in Runner
    BY DEF TypeOK
  <2>2. /\ next \in Runner /\ next.j = Mine(w) /\ next.pc = "try"
        /\ next.tries = runner[w].tries /\ next.tries >= runner[w].tries
    BY <2>1 DEF Runner, Mine
  <2>3. /\ runner' \in [Workers -> Runner] /\ RunnerInv'
        /\ \A j \in Jobs : LiveRun(j) => LiveRun(j)'
    BY <1>13, <2>2, GoOnInv DEF TryAgain
  <2>4. TypeOK'
    BY <1>13, <2>3 DEF TryAgain, TypeOK
  <2> QED BY <1>13, <2>3, <2>4, RowsKept DEF TryAgain, Lost
<1>14. ASSUME NEW w \in Workers, ResultNotEncodable(w) \/ Crash(w) PROVE IInv'
  <2>1. Mine(w) \in Jobs
    BY <1>14 DEF ResultNotEncodable, Crash, RunnerInv
  <2>2. /\ Leave(w) /\ UNCHANGED <<row, queue, cancel>>
        /\ \/ lost' = [lost EXCEPT !.raised = lost.raised \cup {Mine(w)}]
           \/ lost' = [lost EXCEPT !.crash = lost.crash \cup {Mine(w)}]
    BY <1>14 DEF ResultNotEncodable, Crash
  <2>3. /\ runner' \in [Workers -> Runner] /\ RunnerInv'
        /\ \A j \in Jobs : LiveRun(j) => j = Mine(w) \/ LiveRun(j)'
    BY <2>2, LeaveInv
  <2>4. /\ lost' \in [call : SUBSET Jobs, crash : SUBSET Jobs, raised : SUBSET Jobs]
        /\ \A j \in Jobs : Lost(j) \/ j = Mine(w) => Lost(j)'
    BY <2>1, <2>2 DEF TypeOK, Lost
  <2>5. TypeOK'
    BY <2>2, <2>3, <2>4 DEF TypeOK
  <2> QED BY <2>2, <2>3, <2>4, <2>5, RowsKept
<1>15. ASSUME NEW c \in Cancellers, NEW j \in Jobs, CancelRead(c, j) PROVE IInv'
  BY <1>15, FrameInv DEF CancelRead, TypeOK, Lost
<1>16. ASSUME NEW c \in Cancellers, CancelWrite(c) PROVE IInv'
  <2>1. ASSUME NEW j \in Jobs
        PROVE  row'[j] \in JobRow /\ (RowOK(row'[j], FALSE) \/ row'[j] = row[j])
    <3>1. row[j] \in JobRow
      BY DEF TypeOK
    <3>2. row'[j] = row[j] \/ row'[j] = [row[j] EXCEPT !.status = "cancelled", !.finished = TRUE]
      BY <1>16 DEF CancelWrite
    <3> QED BY <3>1, <3>2 DEF JobRow, Terminal, RowOK
  <2>2. row' \in [Jobs -> JobRow]
    BY <1>16, <2>1 DEF CancelWrite
  <2>3. TypeOK'
    BY <1>16, <2>2 DEF CancelWrite, TypeOK
  <2>4. RunnerInv' /\ \A j \in Jobs : LiveRun(j) \/ Lost(j) => LiveRun(j)' \/ Lost(j)'
    BY <1>16 DEF CancelWrite, RunnerInv, LiveRun, Lost, Mine
  <2> QED BY <2>1, <2>3, <2>4, RowsKept
<1> QED
  BY <1>0, <1>1, <1>2, <1>3, <1>4, <1>5, <1>6, <1>7, <1>8, <1>9, <1>10, <1>11, <1>12,
     <1>13, <1>14, <1>15, <1>16
  DEF Next, RunStep

-----------------------------------------------------------------------------
(* The inductive invariant holds in every reachable state.                 *)
THEOREM Invariance == Spec => []IInv
<1>1. Init => IInv
  BY InitInv
<1>2. IInv /\ [Next]_vars => IInv'
  BY StepInv
<1> QED BY <1>1, <1>2, PTL DEF Spec

(* Rows, calls and runs have the types TypeOK gives, for any constants. *)
THEOREM TypeCorrect == Spec => []TypeOK
<1>1. IInv => TypeOK
  BY DEF IInv
<1> QED BY <1>1, Invariance, PTL

(* A job shown as running is being run, or a run of it was lost.           *)
THEOREM RunningIsRun == Spec => []RunningIsBeingRun
<1>1. IInv => RunningIsBeingRun
  BY DEF IInv
<1> QED BY <1>1, Invariance, PTL

(* A succeeded job has its result, and progress 100 unless another run of  *)
(* it is under way or was lost.                                            *)
THEOREM SucceededComplete == Spec => []SucceededIsComplete
<1>1. IInv => SucceededIsComplete
  BY DEF IInv
<1> QED BY <1>1, Invariance, PTL

(* What a poller reads is true, for any jobs, workers and deliveries.      *)
THEOREM StatusStaysTrue == Spec => []StatusIsTrue
BY RunningIsRun, SucceededComplete, PTL DEF StatusIsTrue

LEMMA StepCancelled ==
  ASSUME IInv, Next, NEW j \in Jobs, row[j].status = "cancelled"
  PROVE  \/ row'[j].status = "absent"
         \/ row'[j].status = "cancelled" /\ row'[j].attempts = row[j].attempts
<1> USE DEF IInv
<1>0. row \in [Jobs -> JobRow] /\ row[j] \in JobRow
  BY DEF TypeOK
<1>1. ASSUME NEW w \in Workers, NEW outcome \in JobRow, Finish(w, outcome)
      PROVE  row'[j] = row[j]
  BY <1>0, <1>1 DEF Finish, NotCancelled
<1>2. CASE \E w \in Workers : Unresolvable(w) \/ Fail(w) \/ Succeed(w)
  <2>1. PICK w \in Workers : Unresolvable(w) \/ Fail(w) \/ Succeed(w)
    BY <1>2
  <2>2. Mine(w) \in Jobs
    BY <2>1 DEF RunnerInv, Unresolvable, Fail, Succeed
  <2>3. Finish(w, FailedRow(Mine(w))) \/ Finish(w, SucceededRow(Mine(w)))
    BY <2>1 DEF Unresolvable, Fail, Succeed
  <2> QED BY <1>1, <2>2, <2>3, RowTypes
<1>3. CASE \E w \in Workers : TryFunction(w)
  BY <1>0, <1>3 DEF TryFunction, NotCancelled
<1>4. CASE \E w \in Workers, percent \in Percents : SetProgress(w, percent)
  BY <1>0, <1>4 DEF SetProgress, JobRow
<1>5. CASE \E c \in Cancellers : CancelWrite(c)
  <2>1. row'[j] = row[j] \/ row'[j] = [row[j] EXCEPT !.status = "cancelled", !.finished = TRUE]
    BY <1>5 DEF CancelWrite
  <2> QED BY <1>0, <2>1 DEF JobRow
<1>6. CASE \E i \in Jobs : Prune(i)
  BY <1>0, <1>6 DEF Prune, NoRow
<1>7. CASE \E i \in Jobs : Start(i)
  BY <1>0, <1>7 DEF Start, Exists
<1>8. CASE row' = row
  BY <1>8
<1> QED BY <1>2, <1>3, <1>4, <1>5, <1>6, <1>7, <1>8
  DEF Next, RunStep, HandOver, Redeliver, Lose, NotStarted, TryAgain, ResultNotEncodable, Crash,
      Take, RetryCommand, CancelRead

(* A cancelled job stays cancelled, and its function is not called again.  *)
THEOREM CancelledForGood == Spec => CancellationIsFinal
<1>1. IInv /\ [Next]_vars =>
        [\A j \in Jobs :
           row[j].status = "cancelled" =>
             \/ row'[j].status = "absent"
             \/ row'[j].status = "cancelled" /\ row'[j].attempts = row[j].attempts]_vars
  BY StepCancelled
<1> QED BY <1>1, Invariance, PTL DEF Spec, CancellationIsFinal
=============================================================================
