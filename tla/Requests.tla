------------------------------ MODULE Requests ------------------------------
(***************************************************************************)
(* One request through middleware (http/middleware.py), the compiled view  *)
(* (routing/invocation.py) with its hooks, transaction, dependency scope   *)
(* and idempotency claim, and, for a generator, the stream that outlives   *)
(* the view.  Every call the framework makes may raise.                    *)
(***************************************************************************)
EXTENDS Naturals, Sequences, SequencesExt

CONSTANTS Middlewares,     \* sequence of middlewares, the outermost first
          Loggers,         \* those that count queries (RequestLogMiddleware)
          Hooks,           \* sequence of hooks, the outermost first
          Plans            \* the plans of the operations, before validation
Kinds == {"sync", "async", "generator", "agenerator"}
PlanType == [kind : Kinds, atomic : BOOLEAN, idempotent : BOOLEAN, scoped : BOOLEAN]

VARIABLES plan,     \* the operation's InvocationPlan
          phase, pc, mw,
          entered,  \* middlewares to be told how the request ended
          told,     \* <<middleware, method>> in the order of the calls
          counting, \* query counters: off, entered, or stored with the request
          open,     \* stack of the view's context managers, as their places in Program
          left,     \* <<the place of a manager, what its exit saw>>
          lost,     \* the places of managers entered that nothing will leave any more
          failed,   \* the first call that raised, none, or replay
          written, claim, answer,
          started   \* the body of the stream has been asked for
vars == <<plan, phase, pc, mw, entered, told, counting, open, left, lost, failed,
          written, claim, answer, started>>

Streaming == plan.kind \in {"generator", "agenerator"}
\* What Registration.register() accepts.
Valid(p) ==
  /\ p.atomic => p.kind = "sync"
  /\ p.idempotent => p.kind \in {"sync", "async"}

\* The calls of a view in order; hooks, "tx" and "scope" are context managers.
Given(c, s) == IF c THEN s ELSE <<>>
Program ==
  Hooks \o Given(plan.atomic /\ ~plan.idempotent, <<"tx">>)
        \o <<"permissions">> \o Given(plan.scoped, <<"scope">>) \o <<"resolve", "bindings", "before">>
        \o Given(plan.idempotent, <<"authorize", "acquire">>)
        \o Given(plan.atomic /\ plan.idempotent, <<"tx">>)
        \o Given(~Streaming, <<"call", "after">>)
Managers == Range(Hooks) \cup {"tx", "scope"}
Steps == {"permissions", "scope", "resolve", "bindings", "before", "authorize", "acquire", "call", "after", "tx"}

\* The places in Program of the managers.
Places == {i \in DOMAIN Program : Program[i] \in Managers}

TypeOK ==
  /\ plan \in Plans
  /\ phase \in {"request", "view", "unwind", "response", "exception", "stream", "done"}
  /\ pc \in Nat /\ mw \in 1..(Len(Middlewares) + 1)
  /\ entered \in Seq(Range(Middlewares))
  /\ told \in Seq(Range(Middlewares) \X {"response", "exception"})
  /\ counting \in [Loggers -> {"off", "entered", "stored"}]
  /\ open \in Seq(Places) /\ left \in Seq(Places \X {"fine", "error"})
  /\ lost \subseteq Places /\ started \in BOOLEAN
  /\ written \in {"no", "pending", "committed", "undone"}
  /\ claim \in {"none", "running", "complete"}
  /\ answer \in {"none", "ok", "replay", "error", "raised", "short"}

Init ==
  /\ plan \in {p \in Plans : Valid(p)}
  /\ phase = "request" /\ pc = 1 /\ mw = 1 /\ entered = <<>> /\ told = <<>>
  /\ counting = [m \in Loggers |-> "off"]
  /\ open = <<>> /\ left = <<>> /\ lost = {} /\ failed = "none"
  /\ written = "no" /\ claim = "none" /\ answer = "none" /\ started = FALSE

(************************* middleware_decorator() **************************)
ViewUnchanged == UNCHANGED <<plan, pc, open, left, lost, failed, written, claim, started>>
Counter(m, s) == [l \in Loggers |-> IF l = m THEN s ELSE counting[l]]

\* process_request() of the next middleware: it passes, answers for the view, or
\* raises.  RequestLogMiddleware enters its counter, reads the identity, stores both.
MwRequest ==
  LET m == Middlewares[mw] IN
  /\ phase = "request" /\ mw <= Len(Middlewares)
  /\ entered' = Append(entered, m) /\ mw' = mw + 1
  /\ \/ counting' = Counter(m, "stored") /\ UNCHANGED <<phase, answer>>
     \/ m \notin Loggers /\ phase' = "response" /\ answer' = "short" /\ UNCHANGED counting
     \/ phase' = "exception" /\ answer' = "raised" /\ counting' = Counter(m, "entered")
  /\ UNCHANGED told /\ ViewUnchanged
MwCall ==
  /\ phase = "request" /\ mw > Len(Middlewares) /\ phase' = "view"
  /\ UNCHANGED <<mw, entered, told, counting, answer>> /\ ViewUnchanged
MwResponsePopFirst ==  \* mutant: popped before process_response() is called
  LET m == Last(entered) IN
  /\ phase = "response" /\ entered # <<>> /\ entered' = Front(entered)
  /\ \/ /\ told' = Append(told, <<m, "response">>)
        /\ counting' = Counter(m, "off") /\ UNCHANGED <<phase, answer>>
     \/ phase' = "exception" /\ answer' = "raised" /\ counting' = Counter(m, "off")
        /\ UNCHANGED told
  /\ UNCHANGED mw /\ ViewUnchanged
\* process_response() of the innermost one; it leaves the stack once it has returned.
MwResponse ==
  LET m == Last(entered) IN
  /\ phase = "response" /\ entered # <<>>
  /\ \/ /\ entered' = Front(entered) /\ told' = Append(told, <<m, "response">>)
        /\ counting' = Counter(m, "off") /\ UNCHANGED <<phase, answer>>
     \/ phase' = "exception" /\ answer' = "raised" /\ counting' = Counter(m, "off")
        /\ UNCHANGED <<entered, told>>
  /\ UNCHANGED mw /\ ViewUnchanged
\* process_exception() of those left, the innermost first; what one raises is logged.
MwException ==
  LET m == Last(entered) IN
  /\ phase = "exception" /\ entered # <<>>
  /\ entered' = Front(entered) /\ told' = Append(told, <<m, "exception">>)
  /\ counting' = IF m \in Loggers /\ counting[m] = "stored" THEN Counter(m, "off") ELSE counting
  /\ UNCHANGED <<phase, mw, answer>> /\ ViewUnchanged
\* The response goes out, with a stream still to be consumed, or the exception goes on.
MwDone ==
  /\ phase \in {"response", "exception"} /\ entered = <<>>
  /\ phase' = IF phase = "response" /\ answer = "ok" /\ Streaming THEN "stream" ELSE "done"
  /\ UNCHANGED <<mw, entered, told, counting, answer>> /\ ViewUnchanged

(******************************** The view ********************************)
MwUnchanged == UNCHANGED <<plan, mw, entered, told, counting>>
Step == Program[pc]
\* The handler may write, inside the transaction if there is one.
Writes ==
  written' \in IF Step # "call" THEN {written}
               ELSE {"no", IF \E i \in Range(open) : Program[i] = "tx" THEN "pending" ELSE "committed"}
ViewStepPushAll ==  \* mutant: the values of calls are pushed on the stack as well
  /\ phase = "view" /\ pc <= Len(Program)
  /\ pc' = pc + 1 /\ open' = Append(open, pc)
  /\ claim' \in IF Step = "acquire" THEN {"running", "none"} ELSE {claim}
  /\ Writes /\ UNCHANGED <<phase, left, lost, failed, answer, started>> /\ MwUnchanged
ViewStep ==
  /\ phase = "view" /\ pc <= Len(Program)
  /\ pc' = pc + 1 /\ open' = IF Step \in Managers THEN Append(open, pc) ELSE open
  /\ claim' \in IF Step = "acquire" THEN {"running", "none"} ELSE {claim}  \* a key or none
  /\ Writes /\ UNCHANGED <<phase, left, lost, failed, answer, started>> /\ MwUnchanged
ReplayAtOnce ==  \* mutant: a replay is answered past the exits
  /\ phase = "view" /\ pc <= Len(Program) /\ Step = "acquire"
  /\ failed' = "replay" /\ phase' = "response" /\ answer' = "replay"
  /\ UNCHANGED <<pc, open, left, lost, written, claim, started>> /\ MwUnchanged
\* acquire() finds the response of an earlier request with the key.
ViewReplay ==
  /\ phase = "view" /\ pc <= Len(Program) /\ Step = "acquire"
  /\ failed' = "replay" /\ phase' = "unwind"
  /\ UNCHANGED <<pc, open, left, lost, written, claim, answer, started>> /\ MwUnchanged
\* Any call may raise.  _Scoped.__enter__() resolves the controller after it has
\* entered the scope: when that raises, no __exit__() follows.
ViewRaise ==
  /\ phase = "view" /\ pc <= Len(Program) /\ failed' = Step /\ phase' = "unwind"
  /\ IF Step = "resolve" /\ plan.scoped /\ plan.kind \in {"sync", "generator"}
       THEN open' = Front(open) /\ lost' = {Last(open)} ELSE UNCHANGED <<open, lost>>
  /\ Writes /\ UNCHANGED <<pc, left, claim, answer, started>> /\ MwUnchanged
Finished == IF claim = "running" THEN "complete" ELSE claim
ReturnEarly ==  \* mutant: the claim is finished before the stack of the view is left
  /\ phase = "view" /\ pc > Len(Program)
  /\ claim' = Finished
  /\ IF Streaming THEN phase' = "response" /\ answer' = "ok"
     ELSE phase' = "unwind" /\ UNCHANGED answer
  /\ UNCHANGED <<pc, open, left, lost, failed, written, started>> /\ MwUnchanged
ViewReturn ==
  /\ phase = "view" /\ pc > Len(Program)
  /\ IF Streaming THEN phase' = "response" /\ answer' = "ok"
     ELSE phase' = "unwind" /\ UNCHANGED answer
  /\ UNCHANGED <<pc, open, left, lost, failed, written, claim, started>> /\ MwUnchanged

\* What the exit of a manager is given.  Before a stream starts, the stack is closed
\* (stack.close(), stack.aclose()), which tells the managers of no exception.
Raised == failed \notin {"none", "replay"}
SeenAlwaysFine == "fine"  \* mutant: the stack is closed on every path
Seen == IF Raised /\ (Streaming => started) THEN "error" ELSE "fine"
\* The innermost manager is left; the transaction commits or rolls back.  An exit may
\* raise in its turn, and what is further out then sees that.
Unwind ==
  LET m == Program[Last(open)] IN
  /\ phase = "unwind" /\ open # <<>> /\ open' = Front(open)
  /\ left' = Append(left, <<Last(open), Seen>>)
  /\ \/ failed' = failed /\ written' = IF m = "tx" /\ written = "pending"
                                      THEN IF Seen = "fine" THEN "committed" ELSE "undone"
                                      ELSE written
     \/ /\ failed' = IF Raised THEN failed ELSE m
        /\ written' = IF m = "tx" /\ written = "pending" THEN "undone" ELSE written
  /\ UNCHANGED <<phase, pc, lost, claim, answer, started>> /\ MwUnchanged
\* The view returns a response, or an exception without a rule; the response is
\* serialized and the claim finished with it, or either of them raises.
Unwound ==
  /\ phase = "unwind" /\ open = <<>>
  /\ IF started THEN phase' = "done" /\ UNCHANGED <<claim, answer>>
     ELSE \/ /\ phase' = "response" /\ claim' = Finished
             /\ answer' = IF Raised THEN "error" ELSE IF failed = "replay" THEN "replay" ELSE "ok"
          \/ phase' = "exception" /\ answer' = "raised" /\ UNCHANGED claim
  /\ UNCHANGED <<pc, open, left, lost, failed, written, started>> /\ MwUnchanged

(******************************* The stream *******************************)
StreamStart ==
  /\ phase = "stream" /\ ~started /\ started' = TRUE
  /\ UNCHANGED <<phase, pc, open, left, lost, failed, written, claim, answer>> /\ MwUnchanged
\* The body ends, raises, or is closed by a client that has gone.
StreamEnd ==
  /\ phase = "stream" /\ started /\ phase' = "unwind" /\ failed' \in {"none", "body"}
  /\ UNCHANGED <<pc, open, left, lost, written, claim, answer, started>> /\ MwUnchanged
\* The response is closed before anything was read.  The producer task of an
\* asynchronous stream is cancelled and leaves its managers; the body of a plain
\* generator never ran, and closing it runs none of it.
StreamClosed ==
  /\ phase = "stream" /\ ~started
  /\ IF plan.kind = "agenerator"
       THEN phase' = "unwind" /\ failed' = "body" /\ started' = TRUE /\ UNCHANGED <<open, lost>>
       ELSE phase' = "done" /\ open' = <<>> /\ lost' = lost \cup Range(open)
            /\ UNCHANGED <<failed, started>>
  /\ UNCHANGED <<pc, left, written, claim, answer>> /\ MwUnchanged
Finish == phase = "done" /\ UNCHANGED vars

Next ==
  \/ MwRequest \/ MwCall \/ MwResponse \/ MwException \/ MwDone
  \/ ViewStep \/ ViewReplay \/ ViewRaise \/ ViewReturn \/ Unwind \/ Unwound
  \/ StreamStart \/ StreamEnd \/ StreamClosed \/ Finish
Spec == Init /\ [][Next]_vars

(******************************* Properties *******************************)
\* Each middleware whose process_request() was called is told once how the
\* request ended, the innermost first; once one has been told of an exception
\* no other is shown a response; the counters kept with a request have stopped
\* (middleware.py:121-150, requestlog.py:184-190).
MiddlewareUnwinds ==
  phase = "done" =>
    /\ [i \in DOMAIN told |-> told[i][1]] = Reverse(SubSeq(Middlewares, 1, mw - 1))
    /\ \A i, j \in DOMAIN told : i < j /\ told[i][2] = "exception" => told[j][2] = "exception"
    /\ \A m \in Loggers : counting[m] # "stored"

\* An atomic operation is committed only if everything inside the transaction
\* succeeded, the clean-up of the scope and after_operation() included, and an
\* ok answer means that nothing of it was lost (invocation.py:113-145).
Inside == IF plan.idempotent THEN {"call", "after", "tx"} ELSE Steps
WholeOrNothing ==
  plan.atomic =>
    /\ written = "committed" => failed \notin Inside
    /\ answer = "ok" => written \in {"no", "committed"}

\* A response is stored under the idempotency key only when the fate of what
\* the handler wrote is decided, so a replay never reports a write that is
\* rolled back; a replay itself writes nothing (invocation.py:132-145).
ClaimSettled ==
  /\ claim = "complete" => written # "pending" /\ open = <<>>
  /\ claim = "complete" /\ answer = "ok" => written # "undone"
  /\ failed = "replay" => written = "no" /\ claim = "none"

\* When a plain call has been answered, or a stream that was started has ended,
\* every hook, the transaction and the scope the stack took over have been left,
\* each once and in reverse order (invocation.py:113-145, 161-193, 255-292).  Lost are
\* only a scope whose controller could not be resolved, and a stream nobody read.
ManagersLeft ==
  phase = "done" /\ (Streaming /\ failed = "none" => started) =>
    /\ open = <<>> /\ \A i \in lost : Program[i] = "scope" /\ failed = "resolve"
    /\ {left[i][1] : i \in DOMAIN left} = {i \in Places : i < pc} \ lost
    /\ \A i, j \in DOMAIN left : i < j => left[i][1] > left[j][1]
=============================================================================
