------------------------------ MODULE Container ------------------------------
(***************************************************************************)
(* Resolution of services by dependencies/engine.py: asyncio tasks call    *)
(* aresolve() and threads call resolve() on one container, build the       *)
(* dependencies of a service before the service, and share the instances   *)
(* of singletons and of scoped services.  A task that needs an instance    *)
(* another task is building joins that build; track_waiter() refuses a     *)
(* join that would close a circle of waiting tasks.                        *)
(*                                                                         *)
(* One action is one section under container.lock, together with the code  *)
(* of the same task up to its next await.  A thread keeps the lock from    *)
(* the first shared service it starts to build until it has built it.  The *)
(* services are those of one scope and of the container; a second scope    *)
(* adds services of its own.  Factories end: they return, raise, or are    *)
(* cancelled.                                                              *)
(***************************************************************************)
EXTENDS Naturals

CONSTANTS
  Tasks,      \* asyncio tasks, of any event loop
  Threads,    \* threads that resolve without an event loop
  Services,   \* keys
  Shared,     \* singletons and scoped services; the others are transient
  AsyncOnly,  \* services with a coroutine or an async generator as factory
  Needs,      \* Needs[s]: the services the parameters of s's factory name
  Null

Callers == Tasks \cup Threads

ASSUME ConstantsAssumption ==
  /\ Null \notin Tasks /\ Null \notin Threads /\ Null \notin Services
  /\ Tasks \cap Threads = {}
  /\ Shared \subseteq Services /\ AsyncOnly \subseteq Services
  /\ Needs \in [Services -> SUBSET Services]

VARIABLES
  built,    \* built[s]: how many instances of s have been stored
  pending,  \* the task that is building s (PendingBuild)
  waiting,  \* container._waiting: the task each waiting task waits for
  level,    \* level[c][s]: the place of s in c's chain of open builds, 0 if none
  todo,     \* todo[c][s]: dependencies the open build of s by c still needs
  caller    \* where each task and thread is

vars == <<built, pending, waiting, level, todo, caller>>

-----------------------------------------------------------------------------
CallerState ==
  [pc : {"idle", "run", "wait", "raise"}, depth : Nat, wants : Services \cup {Null},
   answer : {"none", "value", "error"}]

At(pc, depth) == [pc |-> pc, depth |-> depth, wants |-> Null, answer |-> "none"]

(* Back in the code that asked: the parent's build, or outside.            *)
Resumed(depth) == At(IF depth = 0 THEN "idle" ELSE "run", depth)
Raising(depth) == At(IF depth = 0 THEN "idle" ELSE "raise", depth)

Init ==
  /\ built = [s \in Shared |-> 0]
  /\ pending = [s \in Shared |-> Null]
  /\ waiting = [t \in Tasks |-> Null]
  /\ level = [c \in Callers |-> [s \in Services |-> 0]]
  /\ todo = [c \in Callers |-> [s \in Services |-> {}]]
  /\ caller = [c \in Callers |-> At("idle", 0)]

Depth(c) == caller[c].depth
Top(c, s) == level[c][s] > 0 /\ level[c][s] = Depth(c)

(* c's next step asks for s: the call itself, or a parameter of the build  *)
(* on top.                                                                 *)
Asks(c, s) ==
  \/ caller[c].pc = "idle"
  \/ caller[c].pc = "run" /\ \E p \in Services : Top(c, p) /\ s \in todo[c][p]

InStack(c, s) == level[c][s] > 0

(* A thread holds the lock while it builds a shared service.               *)
Locked(c) == \E k \in Threads \ {c} : \E s \in Shared : level[k][s] > 0

Free(c, s) == s \in Shared => ~Locked(c)

(* The build at depth d of c has received s.                               *)
Received(c, d, s) ==
  [x \in Services |-> IF level[c][x] = d THEN todo[c][x] \ {s} ELSE todo[c][x]]

-----------------------------------------------------------------------------
(* resolve() and aresolve() up to the factory or the join.                 *)

(* An instance of the scope is read without the lock, as is a singleton by *)
(* a thread.                                                               *)
Found(c, s) ==
  /\ Asks(c, s) /\ ~InStack(c, s)
  /\ s \in Shared /\ built[s] > 0
  /\ todo' = [todo EXCEPT ![c] = Received(c, Depth(c), s)]
  /\ caller' = [caller EXCEPT ![c] = Resumed(Depth(c))]
  /\ UNCHANGED <<built, pending, waiting, level>>

Vacant(s) == s \in Shared => built[s] = 0 /\ pending[s] = Null

BeginAlways(c, s) ==  \* mutant: a build that is under way is not joined
  /\ Asks(c, s) /\ ~InStack(c, s) /\ Free(c, s)
  /\ s \in Shared => built[s] = 0
  /\ c \in Threads => s \notin AsyncOnly
  /\ pending' = IF s \in Shared /\ c \in Tasks THEN [pending EXCEPT ![s] = c] ELSE pending
  /\ level' = [level EXCEPT ![c][s] = Depth(c) + 1]
  /\ todo' = [todo EXCEPT ![c][s] = Needs[s]]
  /\ caller' = [caller EXCEPT ![c] = At("run", Depth(c) + 1)]
  /\ UNCHANGED <<built, waiting>>
BeginUnregistered(c, s) ==  \* mutant: a transient build is registered as pending
  /\ Asks(c, s) /\ ~InStack(c, s) /\ Free(c, s) /\ Vacant(s)
  /\ c \in Threads => s \notin AsyncOnly
  /\ pending' = [k \in DOMAIN pending \cup {s} |-> IF k = s /\ c \in Tasks THEN c ELSE pending[k]]
  /\ level' = [level EXCEPT ![c][s] = Depth(c) + 1]
  /\ todo' = [todo EXCEPT ![c][s] = Needs[s]]
  /\ caller' = [caller EXCEPT ![c] = At("run", Depth(c) + 1)]
  /\ UNCHANGED <<built, waiting>>
Begin(c, s) ==
  /\ Asks(c, s) /\ ~InStack(c, s) /\ Free(c, s) /\ Vacant(s)
  /\ c \in Threads => s \notin AsyncOnly
  /\ pending' = IF s \in Shared /\ c \in Tasks THEN [pending EXCEPT ![s] = c] ELSE pending
  /\ level' = [level EXCEPT ![c][s] = Depth(c) + 1]
  /\ todo' = [todo EXCEPT ![c][s] = Needs[s]]
  /\ caller' = [caller EXCEPT ![c] = At("run", Depth(c) + 1)]
  /\ UNCHANGED <<built, waiting>>

(* The tasks the walk of track_waiter() from o visits.                     *)
ChainOfOne(o) == {o}  \* mutant: only a task that waits on itself is refused
Chain(o) ==
  {t \in Tasks : \A S \in SUBSET Tasks :
     o \in S /\ (\A u \in S : waiting[u] # Null => waiting[u] \in S) => t \in S}

UnderWay(t, s) == s \in Shared /\ built[s] = 0 /\ pending[s] # Null

Join(t, s) ==
  /\ Asks(t, s) /\ ~InStack(t, s) /\ Free(t, s)
  /\ UnderWay(t, s) /\ t \notin Chain(pending[s])
  /\ waiting' = [waiting EXCEPT ![t] = pending[s]]
  /\ caller' = [caller EXCEPT ![t].pc = "wait", ![t].wants = s]
  /\ UNCHANGED <<built, pending, level, todo>>

(* CircularDependencyError from track_waiter().                            *)
RefuseJoin(t, s) ==
  /\ Asks(t, s) /\ ~InStack(t, s) /\ Free(t, s)
  /\ UnderWay(t, s) /\ t \in Chain(pending[s])
  /\ caller' = [caller EXCEPT ![t] = Raising(Depth(t))]
  /\ UNCHANGED <<built, pending, waiting, level, todo>>

(* CircularDependencyError from _prepare(); in a thread,                   *)
(* DependencyResolutionError for an async factory or a build of a task.    *)
Refuse(c, s) ==
  /\ Asks(c, s)
  /\ \/ InStack(c, s)
     \/ c \in Threads /\ Free(c, s) /\ ~(s \in Shared /\ built[s] > 0)
        /\ (s \in AsyncOnly \/ UnderWay(c, s))
  /\ caller' = [caller EXCEPT ![c] = Raising(Depth(c))]
  /\ UNCHANGED <<built, pending, waiting, level, todo>>

-----------------------------------------------------------------------------
(* The factory and what follows it.                                        *)

Joined(k, s) == caller[k].pc = "wait" /\ caller[k].wants = s /\ caller[k].answer = "none"

(* c's build of s, on top of its chain, is over: c continues as next, and  *)
(* the future answers the tasks that joined.                               *)
Pop(c, s, next, answer) ==
  /\ level' = [level EXCEPT ![c][s] = 0]
  /\ pending' = IF s \in Shared /\ c \in Tasks THEN [pending EXCEPT ![s] = Null] ELSE pending
  /\ caller' = [k \in Callers |->
       IF k = c THEN next
       ELSE IF s \in Shared /\ Joined(k, s) THEN [caller[k] EXCEPT !.answer = answer]
       ELSE caller[k]]
  /\ UNCHANGED waiting

Finish(c, s) ==
  /\ caller[c].pc = "run" /\ Top(c, s) /\ todo[c][s] = {} /\ Free(c, s)
  /\ built' = IF s \in Shared THEN [built EXCEPT ![s] = @ + 1] ELSE built
  /\ todo' = [todo EXCEPT ![c] = Received(c, Depth(c) - 1, s)]
  /\ Pop(c, s, Resumed(Depth(c) - 1), "value")

(* The factory raises, or its task is cancelled in it.                     *)
Fail(c, s) ==
  /\ caller[c].pc = "run" /\ Top(c, s) /\ todo[c][s] = {}
  /\ caller' = [caller EXCEPT ![c] = Raising(Depth(c))]
  /\ UNCHANGED <<built, pending, waiting, level, todo>>

(* The exception leaves the build on top and goes on to the one below.     *)
UnwindSilently(c, s) ==  \* mutant: set_exception() is left out
  /\ caller[c].pc = "raise" /\ Top(c, s) /\ Free(c, s)
  /\ todo' = [todo EXCEPT ![c][s] = {}]
  /\ Pop(c, s, Raising(Depth(c) - 1), "none")
  /\ UNCHANGED built
Unwind(c, s) ==
  /\ caller[c].pc = "raise" /\ Top(c, s) /\ Free(c, s)
  /\ todo' = [todo EXCEPT ![c][s] = {}]
  /\ Pop(c, s, Raising(Depth(c) - 1), "error")
  /\ UNCHANGED built

Answered(t, answer) ==
  /\ caller[t].pc = "wait" /\ caller[t].answer = answer /\ ~Locked(t)
  /\ waiting' = [waiting EXCEPT ![t] = Null]
  /\ UNCHANGED <<built, pending, level>>

WakeWithValueAnyway(t) ==  \* mutant: a failed build counts as a value
  /\ Answered(t, "value") \/ Answered(t, "error")
  /\ todo' = [todo EXCEPT ![t] = Received(t, Depth(t), caller[t].wants)]
  /\ caller' = [caller EXCEPT ![t] = Resumed(Depth(t))]
WakeWithValue(t) ==
  /\ Answered(t, "value")
  /\ todo' = [todo EXCEPT ![t] = Received(t, Depth(t), caller[t].wants)]
  /\ caller' = [caller EXCEPT ![t] = Resumed(Depth(t))]

WakeWithError(t) ==
  /\ Answered(t, "error")
  /\ caller' = [caller EXCEPT ![t] = Raising(Depth(t))]
  /\ UNCHANGED todo

(* The waiter is cancelled; shield() keeps the build it joined.            *)
CancelKeepsEntry(t) ==  \* mutant: release_waiter() outside finally
  /\ caller[t].pc = "wait" /\ ~Locked(t)
  /\ caller' = [caller EXCEPT ![t] = Raising(Depth(t))]
  /\ UNCHANGED <<built, pending, waiting, level, todo>>
CancelWaiter(t) ==
  /\ caller[t].pc = "wait" /\ ~Locked(t)
  /\ waiting' = [waiting EXCEPT ![t] = Null]
  /\ caller' = [caller EXCEPT ![t] = Raising(Depth(t))]
  /\ UNCHANGED <<built, pending, level, todo>>

Ask(c) ==
  \E s \in Services :
    \/ Found(c, s) \/ Begin(c, s) \/ Refuse(c, s)
    \/ c \in Tasks /\ (Join(c, s) \/ RefuseJoin(c, s))

Continue(c) ==
  \/ \E s \in Services : Finish(c, s) \/ Unwind(c, s)
  \/ c \in Tasks /\ (WakeWithValue(c) \/ WakeWithError(c))

Next ==
  \E c \in Callers :
    \/ Ask(c) \/ Continue(c)
    \/ \E s \in Services : Fail(c, s)
    \/ c \in Tasks /\ CancelWaiter(c)

Spec == Init /\ [][Next]_vars

(* A resolution that has begun goes on: factories end, the event loop runs *)
(* its tasks, and a caller that waits for the lock gets it in the end.     *)
FairSpec ==
  Spec /\ \A c \in Callers : SF_vars(caller[c].pc # "idle" /\ (Ask(c) \/ Continue(c)))

-----------------------------------------------------------------------------
(* Properties.                                                             *)

(* Every table, chain and caller has its type.                             *)
TypeOK ==
  /\ built \in [Shared -> Nat]
  /\ pending \in [Shared -> Tasks \cup {Null}]
  /\ waiting \in [Tasks -> Tasks \cup {Null}]
  /\ level \in [Callers -> [Services -> Nat]]
  /\ todo \in [Callers -> [Services -> SUBSET Services]]
  /\ caller \in [Callers -> CallerState]

(* "One instance per container", one per scope: however tasks and threads  *)
(* race, fail and are cancelled, no second instance is ever stored.        *)
BuiltOnce == \A s \in Shared : built[s] <= 1

(* No set of tasks waits for itself.  The builders would hang, and so      *)
(* would the walk of track_waiter(), which holds the lock.                 *)
NoCircularWait ==
  \A S \in SUBSET Tasks : S # {} => \E t \in S : waiting[t] \notin S

(* A waiting task without an answer waits for the task that is building    *)
(* what it wants, so that the end of that build answers it; a build that   *)
(* failed and was begun again by another task leaves no waiter behind.     *)
WaitsForTheBuilder ==
  \A t \in Tasks :
    caller[t].pc = "wait" /\ caller[t].answer = "none" =>
      /\ caller[t].wants \in Shared
      /\ pending[caller[t].wants] = waiting[t]
      /\ waiting[t] \in Tasks /\ InStack(waiting[t], caller[t].wants)

(* An instance is stored only after the instances it was built from: a     *)
(* task that joined a build that failed does not go on as if it had one.   *)
DependenciesFirst ==
  \A s \in Shared : built[s] > 0 => \A d \in Needs[s] \cap Shared : built[d] > 0

(* However a resolution ended, it leaves no open build and no entry in the *)
(* tables behind: the next caller of the service is not turned away.       *)
LeavesNothing ==
  \A c \in Callers : caller[c].pc = "idle" =>
    /\ \A s \in Services : ~InStack(c, s)
    /\ \A s \in Shared : pending[s] # c
    /\ c \in Tasks => waiting[c] = Null

(* Waiting ends: there is no circle of waiting tasks, every waiter waits   *)
(* for a task that is building what it wants, and whoever is done with a   *)
(* resolution, also by an error, holds up nobody (engine.py:160-220).      *)
WaitsEnd == NoCircularWait /\ WaitsForTheBuilder /\ LeavesNothing

(* Every resolution ends, with its service or an exception, also when the  *)
(* services need each other in a circle spread over several tasks.         *)
ResolveEnds == \A c \in Callers : caller[c].pc # "idle" ~> caller[c].pc = "idle"

(* CircularDependencyError: "The dependency graph contains a cycle."       *)
CycleInNeeds == \E D \in SUBSET Services : D # {} /\ \A s \in D : Needs[s] \cap D # {}

CircularErrorMeansCycle ==
  [][\A t \in Tasks, s \in Services : RefuseJoin(t, s) => CycleInNeeds]_vars
=============================================================================
