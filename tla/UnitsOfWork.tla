---------------------------- MODULE UnitsOfWork ----------------------------
(***************************************************************************)
(* One use case: units of work (cqrs/unit_of_work.py), writes through      *)
(* services and repositories (layers/services.py, layers/repository.py,    *)
(* layers/persistence.py) and domain events (cqrs/events.py) handed to an  *)
(* OnCommitTaskQueue (layers/tasks.py).  Any statement may raise, and the   *)
(* use case may catch it between its own statements.  Django's atomic() is  *)
(* external: a block is a transaction, or a savepoint in one, of its        *)
(* database, and the hooks of a transaction run after it.                   *)
(***************************************************************************)
EXTENDS Naturals, Sequences, FiniteSets
CONSTANTS Units,    \* unit of work -> [using, durable]
          Events, Handlers,
          Repository, Queue,   \* the databases of the repository and of the task queue
          MaxSteps, MaxHandlers   \* bounds: blocks and events, subscriptions
Databases == {Repository, Queue} \cup {Units[u].using : u \in DOMAIN Units}

VARIABLES active,    \* units whose _atomic is set
          blocks,    \* the open blocks, outermost first
          rows,      \* writes in the database, as the open transactions see it
          hooks,     \* calls that wait for the commit of the queue's transaction
          calls,     \* calls that are running, one after the other
          raising,   \* an exception is on its way out
          handlers,  \* event -> its subscribers, in order
          entered, undone, written, published, told, dropped  \* what happened so far
vars == <<active, blocks, rows, hooks, calls, raising, handlers, entered, undone, written, published, told, dropped>>
history == <<entered, undone, written, published, told, dropped>>

(* entered: the database of every block; undone: blocks an exception left, with those inside;
   written: [within, call, part]; published: [within, to]. *)
Init ==
  /\ active = {} /\ blocks = <<>> /\ rows = {} /\ hooks = <<>> /\ calls = <<>> /\ raising = FALSE
  /\ handlers = [e \in Events |-> <<>>]
  /\ entered = <<>> /\ undone = {} /\ written = <<>> /\ published = <<>> /\ told = <<>> /\ dropped = {}

(******************************** Blocks **********************************)
Open(db) == {i \in 1..Len(blocks) : blocks[i].db = db}
InAtomicBlock(db) == Open(db) # {}
Within(db) == {blocks[i].id : i \in Open(db)}
Inner == IF blocks = <<>> THEN [kind |-> "none", who |-> "none", step |-> "none"] ELSE blocks[Len(blocks)]
\* The next statement is the use case's own, not one of a service or a save.
InUseCase == calls = <<>> /\ Inner.kind \in {"none", "unit"}
Running == InUseCase /\ ~raising
Room == Len(entered) + Len(published) < MaxSteps
Push(kind, who, db) ==
  /\ Room
  /\ blocks' = Append(blocks, [kind |-> kind, who |-> who, db |-> db, id |-> Len(entered) + 1, step |-> "begin", before |-> rows, hooked |-> Len(hooks)])
  /\ entered' = Append(entered, db)
Step(step) == blocks' = [blocks EXCEPT ![Len(blocks)].step = step]

\* UnitOfWork.__enter__: _atomic is set before a durable block refuses to be a nested one.
Enter(u) ==
  /\ Running
  /\ active' = active \cup {u}
  /\ IF u \in active \/ (Units[u].durable /\ InAtomicBlock(Units[u].using))
     THEN raising' = TRUE /\ UNCHANGED <<blocks, entered>>
     ELSE Push("unit", u, Units[u].using) /\ UNCHANGED raising
  /\ UNCHANGED <<rows, hooks, calls, handlers, undone, written, published, told, dropped>>
\* What atomic.__exit__ is given: the exception, for a unit as for the framework's own blocks.
ReportsFramework(b) == raising /\ b.kind # "unit"  \* mutant: __exit__ does not pass the exception on
RollsBack(b) == raising
\* A service has nothing more to do when its save has returned.
Outer == [i \in 1..(Len(blocks) - 1) |->
            IF i = Len(blocks) - 1 /\ blocks[i].kind = "service" THEN [blocks[i] EXCEPT !.step = "done"] ELSE blocks[i]]
\* A block ends: the savepoint or the transaction is rolled back, or kept; a kept transaction
\* runs its hooks.
Exit ==
  /\ blocks # <<>> /\ calls = <<>> /\ (raising \/ Inner.kind = "unit" \/ Inner.step = "done")
  /\ blocks' = Outer
  /\ active' = active \ (IF Inner.kind = "unit" THEN {Inner.who} ELSE {})
  /\ undone' = undone \cup (IF raising THEN {i \in Inner.id..Len(entered) : entered[i] = Inner.db} ELSE {})
  /\ IF RollsBack(Inner)
     THEN /\ rows' = IF Inner.db = Repository THEN Inner.before ELSE rows
          /\ hooks' = IF Inner.db = Queue THEN SubSeq(hooks, 1, Inner.hooked) ELSE hooks
          /\ UNCHANGED calls
     ELSE /\ UNCHANGED rows
          /\ IF Inner.db = Queue /\ Cardinality(Open(Queue)) = 1
             THEN calls' = hooks /\ hooks' = <<>>
             ELSE UNCHANGED <<calls, hooks>>
  /\ UNCHANGED <<raising, handlers, entered, written, published, told, dropped>>
\* The use case catches what one of its statements raised, or its caller what it raised.
Catch == InUseCase /\ raising /\ raising' = FALSE
         /\ UNCHANGED <<active, blocks, rows, hooks, calls, handlers, history>>
\* Its own code raises.
Raise == Running /\ blocks # <<>> /\ raising' = TRUE
         /\ UNCHANGED <<active, blocks, rows, hooks, calls, handlers, history>>

(******************************** Writes **********************************)
\* ModelService.create, update and delete: repository.transaction() around one call.
Serve(op) ==
  /\ Running /\ Push("service", op, Repository)
  /\ UNCHANGED <<active, rows, hooks, calls, raising, handlers, undone, written, published, told, dropped>>
\* ModelRepository.add and change, of the service or of the use case: save_instance() in a block of
\* its own.
Saves == Running \/ (Inner.kind = "service" /\ Inner.who = "save" /\ Inner.step = "begin" /\ ~raising)
BeginOpen == /\ Room /\ entered' = Append(entered, "none")  \* mutant: save_instance() without a transaction
             /\ blocks' = Append(blocks, [kind |-> "save", who |-> "save", db |-> "none", id |-> Len(entered) + 1, step |-> "begin", before |-> rows, hooked |-> Len(hooks)])
Begin == Push("save", "save", Repository)
Save ==
  /\ Saves /\ Begin
  /\ UNCHANGED <<active, rows, hooks, calls, raising, handlers, undone, written, published, told, dropped>>
Write(call, part) ==
  /\ written' = Append(written, [within |-> Within(Repository), call |-> call, part |-> part])
  /\ rows' = rows \cup {Len(written) + 1}
\* full_clean() and save(), then the many-to-many relations; each may raise.
SaveRow == /\ ~raising /\ Inner.kind = "save" /\ Inner.step = "begin"
           /\ Step("row") /\ Write(Inner.id, "row")
           /\ UNCHANGED <<active, hooks, calls, raising, handlers, entered, undone, published, told, dropped>>
SetRelations == /\ ~raising /\ Inner.kind = "save" /\ Inner.step = "row"
                /\ Step("done") /\ Write(Inner.id, "relations")
                /\ UNCHANGED <<active, hooks, calls, raising, handlers, entered, undone, published, told, dropped>>
Fail == /\ ~raising /\ calls = <<>> /\ Inner.kind \in {"service", "save"} /\ Inner.step # "done"
        /\ raising' = TRUE
        /\ UNCHANGED <<active, blocks, rows, hooks, calls, handlers, history>>
\* ModelRepository.remove: one DELETE with what it cascades to.
Remove == /\ ~raising /\ Inner.kind = "service" /\ Inner.who = "remove" /\ Inner.step = "begin"
          /\ Step("done") /\ Write(Inner.id, "removal")
          /\ UNCHANGED <<active, hooks, calls, raising, handlers, entered, undone, published, told, dropped>>

(******************************** Events **********************************)
\* EventBus.subscribe and clear: wiring, outside of any unit.
Subscribe(e, h) == /\ Running /\ blocks = <<>> /\ Len(handlers[e]) < MaxHandlers
                   /\ handlers' = [handlers EXCEPT ![e] = Append(@, h)]
                   /\ UNCHANGED <<active, blocks, rows, hooks, calls, raising, history>>
Clear == /\ Running /\ blocks = <<>> /\ handlers' = [e \in Events |-> <<>>]
         /\ UNCHANGED <<active, blocks, rows, hooks, calls, raising, history>>
\* One call for each handler that is subscribed now.
CallsOf(e) == [nth \in 1..Len(handlers[e]) |-> [of |-> Len(published) + 1, nth |-> nth]]
Published(e) == published' = Append(published, [within |-> Within(Queue), to |-> Len(handlers[e])])
\* after_commit(): each call is a hook of the queue's transaction, or runs now without one.
DefersNested == Cardinality(Open(Queue)) > 1  \* mutant: only a nested block counts
Defers == InAtomicBlock(Queue)
Publish(e) ==
  /\ Running /\ Room /\ Published(e)
  /\ IF Defers THEN hooks' = hooks \o CallsOf(e) /\ UNCHANGED calls
               ELSE calls' = CallsOf(e) /\ UNCHANGED hooks
  /\ UNCHANGED <<active, blocks, rows, raising, handlers, entered, undone, written, told, dropped>>
\* A call returns, publishes an event of its own (its transaction is over) or raises: the calls
\* after it are lost.
Call ==
  /\ calls # <<>> /\ told' = Append(told, Head(calls))
  /\ \/ calls' = Tail(calls) /\ UNCHANGED <<raising, published, dropped>>
     \/ \E e \in Events : /\ Room /\ Published(e)
                          /\ calls' = CallsOf(e) \o Tail(calls) /\ UNCHANGED <<raising, dropped>>
     \/ /\ calls' = <<>> /\ raising' = TRUE
        /\ dropped' = dropped \cup {calls[i] : i \in 2..Len(calls)} /\ UNCHANGED published
  /\ UNCHANGED <<active, blocks, rows, hooks, handlers, entered, undone, written>>

Next ==
  \/ \E u \in DOMAIN Units : Enter(u)
  \/ Exit \/ Catch \/ Raise \/ Save \/ SaveRow \/ SetRelations \/ Remove \/ Fail \/ Clear \/ Call
  \/ \E op \in {"save", "remove"} : Serve(op)
  \/ \E e \in Events : Publish(e) \/ \E h \in Handlers : Subscribe(e, h)
Spec == Init /\ [][Next]_vars

(******************************* Properties *******************************)
\* What is in the database was written outside of every block that an exception left, and a saved row
\* has its relations (unit_of_work.py:4-7, layers/persistence.py:53-59).
RowsFollowBlocks ==
  /\ rows = {i \in 1..Len(written) : written[i].within \cap undone = {}}
  /\ \A i \in rows : \/ written[i].part # "row"
                     \/ \E b \in 1..Len(blocks) : blocks[b].kind = "save" /\ blocks[b].id = written[i].call
                     \/ \E j \in rows : written[j].call = written[i].call /\ written[j].part = "relations"
\* No handler hears of an event whose transaction is open, or was rolled back, the savepoint it was
\* published in included (docs/guide/cqrs.md:72-73: "so they never observe rolled-back state").
ToldAfterCommit == \A i \in 1..Len(told) : published[told[i].of].within \cap (undone \cup Within(Queue)) = {}
\* Each handler hears once of each event that was committed, in the order of publication within one
\* transaction, but for those behind a handler that raised (events.py:52-57).
EveryoneIsTold ==
  /\ \A i, j \in 1..Len(told) : told[i] = told[j] => i = j
  /\ calls = <<>> /\ ~InAtomicBlock(Queue) =>
       \A n \in 1..Len(published) : published[n].within \cap undone = {} =>
         \A nth \in 1..published[n].to : LET c == [of |-> n, nth |-> nth] IN
           (\E i \in 1..Len(told) : told[i] = c) <=> c \notin dropped
InOrder ==
  \A i, j \in 1..Len(told) :
    /\ i < j /\ published[told[i].of].within \cap published[told[j].of].within # {}
    => told[i].of < told[j].of \/ (told[i].of = told[j].of /\ told[i].nth < told[j].nth)
EventsFollowCommits == RowsFollowBlocks /\ ToldAfterCommit /\ EveryoneIsTold /\ InOrder
=============================================================================
