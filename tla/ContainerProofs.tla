--------------------------- MODULE ContainerProofs ---------------------------
(***************************************************************************)
(* For any number of tasks, threads and services, and any graph of needs:  *)
(* one instance of a shared service, no circle of waiting tasks, waiters   *)
(* that wait for a live build, and instances stored after what they were   *)
(* built from.                                                             *)
(***************************************************************************)
EXTENDS Container, TLAPS

(* The tasks that are building a shared service are those in pending, the  *)
(* service has no instance yet, and nobody else is building it.            *)
Registered ==
  \A s \in Shared : \A c \in Callers :
    /\ c \in Tasks => (pending[s] = c <=> InStack(c, s))
    /\ InStack(c, s) => /\ built[s] = 0
                        /\ \A k \in Callers : InStack(k, s) => k = c

(* A waiter was answered with a value only if there is one.                *)
AnswersStored ==
  \A t \in Tasks : caller[t].answer = "value" =>
    caller[t].wants \in Shared /\ built[caller[t].wants] > 0

(* Only a caller that waits has been answered.                             *)
OnlyWaitersAnswered ==
  \A c \in Callers : caller[c].pc # "wait" => caller[c].answer = "none"

(* An open build has what it no longer asks for.                           *)
Fed ==
  \A c \in Callers, s \in Services : InStack(c, s) =>
    \A d \in Needs[s] \cap Shared : d \in todo[c][s] \/ built[d] > 0

(* The open builds of a caller are a chain, and only a caller that waits   *)
(* has an entry in waiting.                                                *)
Stacked ==
  \A c \in Callers :
    /\ \A s \in Services : level[c][s] <= Depth(c)
    /\ \A s, u \in Services : InStack(c, s) /\ level[c][s] = level[c][u] => s = u
    /\ caller[c].pc = "idle" => Depth(c) = 0
    /\ c \in Tasks /\ caller[c].pc # "wait" => waiting[c] = Null

IInv ==
  /\ TypeOK
  /\ Registered
  /\ WaitsForTheBuilder
  /\ AnswersStored
  /\ OnlyWaitersAnswered
  /\ Fed
  /\ DependenciesFirst
  /\ BuiltOnce
  /\ Stacked

-----------------------------------------------------------------------------
(* What holds initially.                                                   *)
LEMMA InitIInv == Init => IInv /\ NoCircularWait
BY ConstantsAssumption
DEF Init, IInv, TypeOK, Registered, WaitsForTheBuilder, AnswersStored, OnlyWaitersAnswered,
    Fed, Stacked,
    DependenciesFirst, BuiltOnce, NoCircularWait, CallerState, At, InStack, Depth, Callers

-----------------------------------------------------------------------------
(* The types.                                                              *)
LEMMA AtType ==
  ASSUME NEW d \in Nat
  PROVE  /\ Resumed(d) \in CallerState /\ Raising(d) \in CallerState
         /\ At("run", d + 1) \in CallerState
BY DEF Resumed, Raising, At, CallerState

LEMMA PopType ==
  ASSUME TypeOK, NEW c \in Callers, NEW s \in Services, NEW next \in CallerState,
         NEW answer \in {"value", "error"}, Pop(c, s, next, answer)
  PROVE  /\ pending' \in [Shared -> Tasks \cup {Null}]
         /\ waiting' \in [Tasks -> Tasks \cup {Null}]
         /\ level' \in [Callers -> [Services -> Nat]]
         /\ caller' \in [Callers -> CallerState]
<1>1. \A k \in Callers : [caller[k] EXCEPT !.answer = answer] \in CallerState
  BY DEF TypeOK, CallerState
<1>2. caller' \in [Callers -> CallerState]
  BY <1>1 DEF Pop, TypeOK
<1> QED
  BY <1>2 DEF Pop, TypeOK

LEMMA TypeStep == TypeOK /\ [Next]_vars => TypeOK'
<1> SUFFICES ASSUME TypeOK, [Next]_vars PROVE TypeOK'
  OBVIOUS
<1> USE ConstantsAssumption
<1>1. ASSUME NEW c \in Callers PROVE Depth(c) \in Nat
  BY <1>1 DEF TypeOK, CallerState, Depth
<1>2. ASSUME NEW c \in Callers, NEW d \in Nat, NEW s \in Services
      PROVE  Received(c, d, s) \in [Services -> SUBSET Services]
  BY <1>2 DEF TypeOK, Received
<1>3. ASSUME NEW c \in Callers, NEW s \in Services, Found(c, s) PROVE TypeOK'
  BY <1>1, <1>2, <1>3, AtType DEF Found, TypeOK
<1>4. ASSUME NEW c \in Callers, NEW s \in Services, Begin(c, s) PROVE TypeOK'
  BY <1>1, <1>4, AtType DEF Begin, TypeOK
<1>5. ASSUME NEW c \in Callers, NEW s \in Services, Refuse(c, s) PROVE TypeOK'
  BY <1>1, <1>5, AtType DEF Refuse, TypeOK
<1>6. ASSUME NEW t \in Tasks, NEW s \in Services, Join(t, s) PROVE TypeOK'
  <2>1. [caller[t] EXCEPT !.pc = "wait", !.wants = s] \in CallerState
    BY DEF TypeOK, CallerState, Callers
  <2> QED BY <1>6, <2>1 DEF Join, UnderWay, TypeOK
<1>7. ASSUME NEW t \in Tasks, NEW s \in Services, RefuseJoin(t, s) PROVE TypeOK'
  BY <1>1, <1>7, AtType DEF RefuseJoin, TypeOK, Callers
<1>8. ASSUME NEW c \in Callers, NEW s \in Services, Finish(c, s) PROVE TypeOK'
  <2>1. Depth(c) - 1 \in Nat
    BY <1>1, <1>8 DEF Finish, Top, TypeOK
  <2> QED BY <1>2, <1>8, <2>1, AtType, PopType DEF Finish, TypeOK
<1>9. ASSUME NEW c \in Callers, NEW s \in Services, Unwind(c, s) PROVE TypeOK'
  <2>1. Depth(c) - 1 \in Nat
    BY <1>1, <1>9 DEF Unwind, Top, TypeOK
  <2> QED BY <1>9, <2>1, AtType, PopType DEF Unwind, TypeOK
<1>10. ASSUME NEW c \in Callers, NEW s \in Services, Fail(c, s) PROVE TypeOK'
  BY <1>1, <1>10, AtType DEF Fail, TypeOK
<1>11. ASSUME NEW t \in Tasks, WakeWithValue(t) PROVE TypeOK'
  <2>1. Received(t, Depth(t), caller[t].wants) \in [Services -> SUBSET Services]
    BY DEF TypeOK, Received, Callers
  <2> QED BY <1>1, <1>11, <2>1, AtType DEF WakeWithValue, Answered, TypeOK, Callers
<1>12. ASSUME NEW t \in Tasks, WakeWithError(t) \/ CancelWaiter(t) PROVE TypeOK'
  <2>1. Raising(Depth(t)) \in CallerState
    BY <1>1, AtType DEF Callers
  <2>2. /\ waiting' = [waiting EXCEPT ![t] = Null]
        /\ caller' = [caller EXCEPT ![t] = Raising(Depth(t))]
        /\ UNCHANGED <<built, pending, level, todo>>
    BY <1>12 DEF WakeWithError, CancelWaiter, Answered
  <2> QED BY <2>1, <2>2 DEF TypeOK
<1>13. CASE UNCHANGED vars
  BY <1>13 DEF vars, TypeOK
<1> QED
  BY <1>3, <1>4, <1>5, <1>6, <1>7, <1>8, <1>9, <1>10, <1>11, <1>12, <1>13
  DEF Next, Ask, Continue

(* Every state has the types TypeOK gives.                                 *)
THEOREM TypeCorrect == Spec => []TypeOK
<1>1. Init => TypeOK
  BY InitIInv DEF IInv
<1> QED
  BY <1>1, TypeStep, PTL DEF Spec

-----------------------------------------------------------------------------
(* The bookkeeping of builds and waiters.                                  *)
LEMMA AtFields ==
  ASSUME NEW pc, NEW d
  PROVE  /\ At(pc, d).pc = pc /\ At(pc, d).depth = d
         /\ At(pc, d).wants = Null /\ At(pc, d).answer = "none"
BY DEF At

LEMMA BackFields ==
  ASSUME NEW d
  PROVE  /\ Resumed(d).pc \in {"idle", "run"} /\ Raising(d).pc \in {"idle", "raise"}
         /\ Resumed(d).depth = d /\ Raising(d).depth = d
         /\ Resumed(d).pc = "idle" => d = 0
         /\ Raising(d).pc = "idle" => d = 0
         /\ Resumed(d).answer = "none" /\ Raising(d).answer = "none"
BY DEF Resumed, Raising, At

LEMMA RegisteredStep == IInv /\ [Next]_vars => Registered'
<1> SUFFICES ASSUME IInv, [Next]_vars PROVE Registered'
  OBVIOUS
<1> USE ConstantsAssumption DEF Callers
<1>1. ASSUME NEW c \in Callers, NEW s \in Services, Begin(c, s) PROVE Registered'
  <2>1. \A k \in Callers, x \in Services :
          level'[k][x] = IF k = c /\ x = s THEN Depth(c) + 1 ELSE level[k][x]
    BY <1>1 DEF Begin, IInv, TypeOK
  <2>2. Depth(c) + 1 > 0
    BY DEF IInv, TypeOK, CallerState, Depth
  <2>3. s \in Shared => \A k \in Callers : ~InStack(k, s)
    BY <1>1 DEF Begin, Vacant, Free, Locked, InStack, IInv, Registered
  <2>4. /\ built' = built
        /\ pending' = IF s \in Shared /\ c \in Tasks THEN [pending EXCEPT ![s] = c] ELSE pending
        /\ s \in Shared => built[s] = 0 /\ pending[s] = Null
    BY <1>1 DEF Begin, Vacant
  <2>5. ASSUME NEW x \in Shared, x # s
        PROVE  \A k \in Callers :
          /\ k \in Tasks => (pending'[x] = k <=> InStack(k, x)')
          /\ InStack(k, x)' => /\ built'[x] = 0
                               /\ \A l \in Callers : InStack(l, x)' => l = k
    BY <2>1, <2>4, <2>5 DEF InStack, IInv, Registered, TypeOK
  <2>6. ASSUME s \in Shared
        PROVE  \A k \in Callers :
          /\ k \in Tasks => (pending'[s] = k <=> InStack(k, s)')
          /\ InStack(k, s)' => /\ built'[s] = 0
                               /\ \A l \in Callers : InStack(l, s)' => l = k
    BY <2>1, <2>2, <2>3, <2>4, <2>6 DEF InStack, IInv, TypeOK
  <2> QED BY <2>5, <2>6 DEF Registered
<1>2. ASSUME NEW c \in Callers, NEW s \in Services, Finish(c, s) \/ Unwind(c, s)
      PROVE  Registered'
  <2>1. \A k \in Callers, x \in Services :
          level'[k][x] = IF k = c /\ x = s THEN 0 ELSE level[k][x]
    BY <1>2 DEF Finish, Unwind, Pop, IInv, TypeOK
  <2>2. /\ pending' = IF s \in Shared /\ c \in Tasks THEN [pending EXCEPT ![s] = Null] ELSE pending
        /\ \A x \in Shared \ {s} : built'[x] = built[x]
        /\ InStack(c, s)
    BY <1>2 DEF Finish, Unwind, Pop, Top, InStack, IInv, TypeOK
  <2>3. s \in Shared => \A k \in Callers : InStack(k, s) => k = c
    BY <2>2 DEF IInv, Registered
  <2>4. ASSUME NEW x \in Shared, x # s
        PROVE  \A k \in Callers :
          /\ k \in Tasks => (pending'[x] = k <=> InStack(k, x)')
          /\ InStack(k, x)' => /\ built'[x] = 0
                               /\ \A l \in Callers : InStack(l, x)' => l = k
    BY <2>1, <2>2, <2>4 DEF InStack, IInv, Registered, TypeOK
  <2>5. ASSUME s \in Shared PROVE \A k \in Callers : ~InStack(k, s)'
    BY <2>1, <2>3, <2>5 DEF InStack
  <2>6. ASSUME s \in Shared PROVE \A k \in Tasks : pending'[s] # k
    BY <2>2, <2>3, <2>6 DEF IInv, Registered, TypeOK
  <2> QED BY <2>4, <2>5, <2>6 DEF Registered
<1>3. ASSUME UNCHANGED <<built, pending, level>> PROVE Registered'
  BY <1>3 DEF IInv, Registered, InStack
<1> QED
  BY <1>1, <1>2, <1>3
  DEF Next, Ask, Continue, Found, Refuse, Join, RefuseJoin, Fail, WakeWithValue, WakeWithError,
      Answered, CancelWaiter, vars

LEMMA BuiltStep ==
  IInv /\ [Next]_vars => \A s \in Shared : built[s] # built'[s] => built[s] = 0 /\ built'[s] = 1
<1> SUFFICES ASSUME IInv, [Next]_vars, NEW k \in Shared
             PROVE built[k] # built'[k] => built[k] = 0 /\ built'[k] = 1
  OBVIOUS
<1>1. ASSUME NEW c \in Callers, NEW s \in Services, Finish(c, s)
      PROVE  built[k] # built'[k] => built[k] = 0 /\ built'[k] = 1
  <2>1. s \in Shared => built[s] = 0
    BY <1>1 DEF Finish, Top, InStack, IInv, Registered
  <2> QED BY <1>1, <2>1 DEF Finish, IInv, TypeOK
<1>2. ASSUME UNCHANGED built PROVE built[k] # built'[k] => built[k] = 0 /\ built'[k] = 1
  BY <1>2
<1> QED
  BY <1>1, <1>2
  DEF Next, Ask, Continue, Begin, Found, Refuse, Join, RefuseJoin, Fail, Unwind, WakeWithValue,
      WakeWithError, Answered, CancelWaiter, vars

LEMMA WaitsStep == IInv /\ [Next]_vars => WaitsForTheBuilder' /\ AnswersStored'
<1> SUFFICES ASSUME IInv, [Next]_vars PROVE WaitsForTheBuilder' /\ AnswersStored'
  OBVIOUS
<1> USE ConstantsAssumption DEF Callers
<1>0. Registered' /\ TypeOK'
  BY RegisteredStep, TypeStep DEF IInv
<1>1. ASSUME NEW c \in Callers, NEW s \in Services, Finish(c, s) \/ Unwind(c, s)
      PROVE  WaitsForTheBuilder' /\ AnswersStored'
  <2> DEFINE next == caller'[c]
             answer == IF Finish(c, s) THEN "value" ELSE "error"
  <2>0. PICK n \in {Resumed(Depth(c) - 1), Raising(Depth(c) - 1)} :
          caller' = [k \in Callers |->
               IF k = c THEN n
               ELSE IF s \in Shared /\ Joined(k, s) THEN [caller[k] EXCEPT !.answer = answer]
               ELSE caller[k]]
    BY <1>1 DEF Finish, Unwind, Pop
  <2>1. /\ caller' = [k \in Callers |->
               IF k = c THEN next
               ELSE IF s \in Shared /\ Joined(k, s) THEN [caller[k] EXCEPT !.answer = answer]
               ELSE caller[k]]
        /\ next.pc \in {"idle", "run", "raise"} /\ next.answer = "none"
    <3>1. next = n
      BY <2>0
    <3>2. next.pc \in {"idle", "run", "raise"} /\ next.answer = "none"
      BY <3>1, BackFields
    <3> HIDE DEF next
    <3> QED BY <2>0, <3>1, <3>2
  <2>a. answer \in {"value", "error"} /\ (answer = "value" => Finish(c, s))
    OBVIOUS
  <2> HIDE DEF next, answer
  <2>2. /\ waiting' = waiting
        /\ pending' = IF s \in Shared /\ c \in Tasks THEN [pending EXCEPT ![s] = Null] ELSE pending
    BY <1>1 DEF Finish, Unwind, Pop
  <2>3. ASSUME NEW t \in Tasks, caller'[t].pc = "wait", caller'[t].answer = "none"
        PROVE  /\ caller'[t].wants \in Shared
               /\ pending'[caller'[t].wants] = waiting'[t]
               /\ waiting'[t] \in Tasks /\ level'[waiting'[t]][caller'[t].wants] > 0
    <3>1. t # c /\ caller'[t] = caller[t] /\ ~(s \in Shared /\ caller[t].wants = s)
      <4>1. t # c
        BY <2>1, <2>3 DEF Callers
      <4>2. ~(s \in Shared /\ Joined(t, s))
        BY <2>1, <2>a, <2>3, <4>1 DEF Callers, Joined, IInv, TypeOK, CallerState
      <4>3. caller'[t] = caller[t]
        BY <2>1, <4>1, <4>2 DEF Callers
      <4> QED BY <2>3, <4>1, <4>2, <4>3 DEF Joined
    <3>2. /\ caller[t].wants \in Shared /\ pending[caller[t].wants] = waiting[t]
          /\ waiting[t] \in Tasks
      BY <2>3, <3>1 DEF IInv, WaitsForTheBuilder
    <3>3. pending'[caller[t].wants] = waiting[t]
      BY <2>2, <3>1, <3>2 DEF IInv, TypeOK
    <3>4. level'[waiting[t]][caller[t].wants] > 0
      BY <1>0, <3>2, <3>3 DEF Registered, InStack
    <3> QED BY <2>2, <3>1, <3>2, <3>3, <3>4
  <2>4. ASSUME NEW t \in Tasks, caller'[t].answer = "value"
        PROVE  caller'[t].wants \in Shared /\ built'[caller'[t].wants] > 0
    <3>1. t # c
      BY <2>1, <2>4 DEF Callers
    <3>2. CASE s \in Shared /\ Joined(t, s)
      <4>1. caller'[t].answer = answer /\ caller'[t].wants = s
        BY <2>1, <3>1, <3>2 DEF Callers, Joined, IInv, TypeOK, CallerState
      <4>2. Finish(c, s)
        BY <2>a, <2>4, <4>1
      <4> QED BY <3>2, <4>1, <4>2 DEF Finish, IInv, TypeOK
    <3>3. CASE ~(s \in Shared /\ Joined(t, s))
      <4>1. caller'[t] = caller[t]
        BY <2>1, <3>1, <3>3 DEF Callers
      <4> QED BY <2>4, <4>1, BuiltStep DEF IInv, AnswersStored
    <3> QED BY <3>2, <3>3
  <2> QED BY <2>3, <2>4 DEF WaitsForTheBuilder, AnswersStored, InStack
<1>2. ASSUME NEW c \in Callers, NEW s \in Services, Begin(c, s)
      PROVE  WaitsForTheBuilder' /\ AnswersStored'
  <2>1. /\ built' = built /\ waiting' = waiting
        /\ caller' = [caller EXCEPT ![c] = At("run", Depth(c) + 1)]
        /\ \A x \in Shared : pending[x] # Null => pending'[x] = pending[x]
    BY <1>2 DEF Begin, Vacant, IInv, TypeOK
  <2>2. \A t \in Tasks : caller'[t].pc = "wait" \/ caller'[t].answer = "value" => caller'[t] = caller[t]
    BY <2>1, AtFields DEF Callers, IInv, TypeOK
  <2>3. ASSUME NEW t \in Tasks, caller'[t].pc = "wait", caller'[t].answer = "none"
        PROVE  /\ caller'[t].wants \in Shared
               /\ pending'[caller'[t].wants] = waiting'[t]
               /\ waiting'[t] \in Tasks /\ level'[waiting'[t]][caller'[t].wants] > 0
    <3>1. /\ caller[t].wants \in Shared /\ pending'[caller[t].wants] = waiting[t]
          /\ waiting[t] \in Tasks
      BY <2>1, <2>2, <2>3 DEF IInv, WaitsForTheBuilder
    <3>2. level'[waiting[t]][caller[t].wants] > 0
      BY <1>0, <2>1, <3>1 DEF Registered, InStack
    <3> QED BY <2>1, <2>2, <2>3, <3>1, <3>2
  <2> QED BY <2>1, <2>2, <2>3 DEF WaitsForTheBuilder, AnswersStored, IInv, InStack
<1>3. ASSUME NEW t \in Tasks, NEW s \in Services, Join(t, s)
      PROVE  WaitsForTheBuilder' /\ AnswersStored'
  <2>1. /\ built' = built /\ pending' = pending /\ level' = level
        /\ waiting' = [waiting EXCEPT ![t] = pending[s]]
        /\ caller' = [caller EXCEPT ![t].pc = "wait", ![t].wants = s]
        /\ s \in Shared /\ pending[s] \in Tasks
    BY <1>3 DEF Join, UnderWay, IInv, TypeOK
  <2>2. InStack(pending[s], s)
    BY <2>1 DEF IInv, Registered, Callers
  <2>3. /\ caller'[t].wants = s /\ caller'[t].answer = caller[t].answer
        /\ \A k \in Tasks \ {t} : caller'[k] = caller[k] /\ waiting'[k] = waiting[k]
        /\ waiting'[t] = pending[s]
    BY <2>1 DEF Callers, IInv, TypeOK, CallerState
  <2>4. caller[t].answer # "value"
    BY <1>3 DEF Join, Asks, IInv, OnlyWaitersAnswered, Callers
  <2>5. WaitsForTheBuilder'
    <3>1. ASSUME NEW k \in Tasks, k # t, caller'[k].pc = "wait", caller'[k].answer = "none"
          PROVE  /\ caller'[k].wants \in Shared
                 /\ pending'[caller'[k].wants] = waiting'[k]
                 /\ waiting'[k] \in Tasks /\ level'[waiting'[k]][caller'[k].wants] > 0
      BY <2>1, <2>3, <3>1 DEF WaitsForTheBuilder, IInv, InStack
    <3>2. /\ pending'[caller'[t].wants] = waiting'[t]
          /\ waiting'[t] \in Tasks /\ level'[waiting'[t]][caller'[t].wants] > 0
      BY <2>1, <2>2, <2>3 DEF InStack
    <3> QED BY <2>1, <2>3, <3>1, <3>2 DEF WaitsForTheBuilder, InStack
  <2>6. AnswersStored'
    BY <2>1, <2>3, <2>4 DEF AnswersStored, IInv
  <2> QED
    BY <2>5, <2>6
<1>4. ASSUME NEW c \in Callers, UNCHANGED <<built, pending, level>>,
             \/ caller' = [caller EXCEPT ![c] = Raising(Depth(c))]
             \/ caller' = [caller EXCEPT ![c] = Resumed(Depth(c))],
             \A t \in Tasks : t # c => waiting'[t] = waiting[t]
      PROVE  WaitsForTheBuilder' /\ AnswersStored'
  <2>1. /\ caller'[c] = Raising(Depth(c)) \/ caller'[c] = Resumed(Depth(c))
        /\ \A t \in Tasks : t # c => caller'[t] = caller[t]
    BY <1>4 DEF IInv, TypeOK
  <2>2. caller'[c].pc # "wait" /\ caller'[c].answer = "none"
    BY <2>1, BackFields
  <2> QED BY <1>4, <2>1, <2>2 DEF WaitsForTheBuilder, AnswersStored, IInv, InStack
<1>5. ASSUME NEW t \in Tasks, WakeWithValue(t) \/ WakeWithError(t) \/ CancelWaiter(t)
      PROVE  WaitsForTheBuilder' /\ AnswersStored'
  <2>1. \A k \in Tasks : k # t => waiting'[k] = waiting[k]
    BY <1>5 DEF WakeWithValue, WakeWithError, CancelWaiter, Answered, IInv, TypeOK
  <2> QED
    BY <1>4, <1>5, <2>1 DEF WakeWithValue, WakeWithError, CancelWaiter, Answered, Callers
<1>6. ASSUME NEW c \in Callers, NEW s \in Services,
             Found(c, s) \/ Refuse(c, s) \/ Fail(c, s) \/ RefuseJoin(c, s)
      PROVE  WaitsForTheBuilder' /\ AnswersStored'
  BY <1>4, <1>6 DEF Found, Refuse, Fail, RefuseJoin
<1>7. CASE UNCHANGED vars
  BY <1>7 DEF vars, WaitsForTheBuilder, AnswersStored, IInv, InStack
<1> QED
  BY <1>1, <1>2, <1>3, <1>5, <1>6, <1>7 DEF Next, Ask, Continue, Callers

LEMMA OnlyWaitersAnsweredStep == IInv /\ [Next]_vars => OnlyWaitersAnswered'
<1> SUFFICES ASSUME IInv, [Next]_vars PROVE OnlyWaitersAnswered'
  OBVIOUS
<1> USE DEF Callers
<1>1. ASSUME NEW c \in Callers, NEW n, n.answer = "none", caller' = [caller EXCEPT ![c] = n]
      PROVE  OnlyWaitersAnswered'
  BY <1>1 DEF OnlyWaitersAnswered, IInv, TypeOK
<1>2. ASSUME NEW c \in Callers, NEW s \in Services, NEW n, NEW answer, n.answer = "none",
             Pop(c, s, n, answer)
      PROVE  OnlyWaitersAnswered'
  <2>1. ASSUME NEW k \in Callers, caller'[k].pc # "wait" PROVE caller'[k].answer = "none"
    <3>1. CASE k = c
      BY <1>2, <3>1 DEF Pop
    <3>2. CASE k # c
      BY <1>2, <2>1, <3>2 DEF Pop, Joined, OnlyWaitersAnswered, IInv, TypeOK, CallerState
    <3> QED BY <3>1, <3>2
  <2> QED BY <2>1 DEF OnlyWaitersAnswered
<1>3. ASSUME NEW t \in Tasks, NEW s \in Services, Join(t, s) PROVE OnlyWaitersAnswered'
  BY <1>3 DEF Join, OnlyWaitersAnswered, IInv, TypeOK, CallerState
<1>4. ASSUME NEW c \in Callers, NEW s \in Services, Finish(c, s) \/ Unwind(c, s)
      PROVE  OnlyWaitersAnswered'
  <2>1. PICK n \in {Resumed(Depth(c) - 1), Raising(Depth(c) - 1)}, answer \in {"value", "error"} :
          Pop(c, s, n, answer)
    BY <1>4 DEF Finish, Unwind
  <2>2. n.answer = "none"
    BY <2>1, BackFields
  <2> QED BY <1>2, <2>1, <2>2
<1>5. ASSUME NEW c \in Callers, NEW s \in Services,
             Found(c, s) \/ Begin(c, s) \/ Refuse(c, s) \/ Fail(c, s) \/ RefuseJoin(c, s)
      PROVE  OnlyWaitersAnswered'
  <2>1. PICK n \in {Resumed(Depth(c)), Raising(Depth(c)), At("run", Depth(c) + 1)} :
          caller' = [caller EXCEPT ![c] = n]
    BY <1>5 DEF Found, Begin, Refuse, Fail, RefuseJoin
  <2>2. n.answer = "none"
    BY <2>1, BackFields, AtFields
  <2> QED BY <1>1, <2>1, <2>2
<1>6. ASSUME NEW t \in Tasks, WakeWithValue(t) \/ WakeWithError(t) \/ CancelWaiter(t)
      PROVE  OnlyWaitersAnswered'
  <2>1. PICK n \in {Resumed(Depth(t)), Raising(Depth(t))} : caller' = [caller EXCEPT ![t] = n]
    BY <1>6 DEF WakeWithValue, WakeWithError, CancelWaiter
  <2>2. n.answer = "none"
    BY <2>1, BackFields
  <2> QED BY <1>1, <2>1, <2>2
<1>7. CASE UNCHANGED vars
  BY <1>7 DEF vars, OnlyWaitersAnswered, IInv
<1> QED
  BY <1>3, <1>4, <1>5, <1>6, <1>7 DEF Next, Ask, Continue

(* No build loses track of what it has.                                    *)
LEMMA FedStep == IInv /\ [Next]_vars => Fed' /\ DependenciesFirst'
<1> SUFFICES ASSUME IInv, [Next]_vars PROVE Fed' /\ DependenciesFirst'
  OBVIOUS
<1> USE ConstantsAssumption DEF Callers
<1>0. \A s \in Shared : built[s] > 0 => built'[s] > 0
  BY BuiltStep DEF IInv, TypeOK
<1>1. ASSUME NEW c \in Callers, NEW x, NEW d \in Nat,
             x \in Shared => built'[x] > 0,
             todo' = [todo EXCEPT ![c] = Received(c, d, x)],
             \A k \in Callers, s \in Services : level'[k][s] > 0 => level[k][s] > 0
      PROVE  Fed'
  <2>1. ASSUME NEW k \in Callers, NEW s \in Services, level'[k][s] > 0, NEW e \in Needs[s] \cap Shared
        PROVE  e \in todo'[k][s] \/ built'[e] > 0
    <3>1. e \in todo[k][s] \/ built'[e] > 0
      BY <1>0, <1>1, <2>1 DEF Fed, IInv, InStack
    <3>2. e \in todo[k][s] => e \in todo'[k][s] \/ e = x
      BY <1>1, <2>1 DEF Received, IInv, TypeOK
    <3> QED BY <1>1, <3>1, <3>2
  <2> QED BY <2>1 DEF Fed, InStack
<1>2. ASSUME NEW c \in Callers, NEW s \in Services, Finish(c, s) PROVE Fed' /\ DependenciesFirst'
  <2>1. /\ \A k \in Callers, u \in Services : level'[k][u] > 0 => level[k][u] > 0
        /\ s \in Shared => built'[s] > 0
        /\ \A u \in Shared : u # s => built'[u] = built[u]
        /\ InStack(c, s) /\ todo[c][s] = {}
        /\ Depth(c) - 1 \in Nat
    BY <1>2 DEF Finish, Pop, Top, InStack, IInv, TypeOK, CallerState, Depth
  <2>2. Fed'
    BY <1>1, <1>2, <2>1 DEF Finish
  <2>3. ASSUME NEW u \in Shared, built'[u] > 0, NEW e \in Needs[u] \cap Shared PROVE built'[e] > 0
    <3>1. CASE u = s
      BY <1>0, <2>1, <2>3, <3>1 DEF IInv, Fed
    <3>2. CASE u # s
      BY <1>0, <2>1, <2>3, <3>2 DEF IInv, DependenciesFirst
    <3> QED BY <3>1, <3>2
  <2> QED BY <2>2, <2>3 DEF DependenciesFirst
<1>3. ASSUME NEW c \in Callers, NEW s \in Services, Found(c, s) PROVE Fed'
  <2>1. Depth(c) \in Nat
    BY DEF IInv, TypeOK, CallerState, Depth
  <2> QED BY <1>0, <1>1, <1>3, <2>1 DEF Found
<1>4. ASSUME NEW t \in Tasks, WakeWithValue(t) PROVE Fed'
  <2>1. Depth(t) \in Nat
    BY DEF IInv, TypeOK, CallerState, Depth
  <2>2. built[caller[t].wants] > 0 /\ caller[t].wants \in Shared
    BY <1>4 DEF WakeWithValue, Answered, IInv, AnswersStored
  <2> QED BY <1>0, <1>1, <1>4, <2>1, <2>2 DEF WakeWithValue, Answered
<1>5. ASSUME NEW c \in Callers, NEW s \in Services, Begin(c, s) PROVE Fed'
  <2>1. \A k \in Callers, u \in Services :
          /\ todo'[k][u] = IF k = c /\ u = s THEN Needs[s] ELSE todo[k][u]
          /\ level'[k][u] > 0 => level[k][u] > 0 \/ (k = c /\ u = s)
    BY <1>5 DEF Begin, IInv, TypeOK
  <2> QED BY <1>0, <2>1 DEF Fed, IInv, InStack
<1>6. ASSUME NEW c \in Callers, NEW s \in Services, Unwind(c, s) PROVE Fed'
  <2>1. \A k \in Callers, u \in Services :
          /\ (k # c \/ u # s) => todo'[k][u] = todo[k][u] /\ level'[k][u] = level[k][u]
          /\ level'[c][s] = 0
    BY <1>6 DEF Unwind, Pop, IInv, TypeOK
  <2> QED BY <1>0, <2>1 DEF Fed, IInv, InStack
<1>7. ASSUME UNCHANGED <<built, todo, level>> PROVE Fed'
  BY <1>7 DEF Fed, IInv, InStack
<1>8. Fed'
  BY <1>2, <1>3, <1>4, <1>5, <1>6, <1>7
  DEF Next, Ask, Continue, Refuse, Join, RefuseJoin, Fail, WakeWithError, Answered, CancelWaiter, vars
<1>9. ASSUME UNCHANGED built PROVE DependenciesFirst'
  BY <1>9 DEF IInv, DependenciesFirst
<1> QED
  BY <1>2, <1>8, <1>9
  DEF Next, Ask, Continue, Begin, Found, Refuse, Join, RefuseJoin, Fail, Unwind, WakeWithValue,
      WakeWithError, Answered, CancelWaiter, vars

(* Builds are opened and closed at the top of the chain.                   *)
LEMMA StackedStep == IInv /\ [Next]_vars => Stacked'
<1> SUFFICES ASSUME IInv, [Next]_vars PROVE Stacked'
  OBVIOUS
<1> USE ConstantsAssumption DEF Callers
<1> DEFINE P(k) == /\ \A s \in Services : level[k][s] <= caller[k].depth
                   /\ \A s, u \in Services : level[k][s] > 0 /\ level[k][s] = level[k][u] => s = u
                   /\ caller[k].pc = "idle" => caller[k].depth = 0
                   /\ k \in Tasks /\ caller[k].pc # "wait" => waiting[k] = Null
<1>0. (\A k \in Callers : P(k)) /\ ((\A k \in Callers : P(k)') => Stacked')
  BY DEF IInv, Stacked, InStack, Depth
<1>1. ASSUME NEW c \in Callers, NEW n \in {Resumed(Depth(c)), Raising(Depth(c))},
             caller' = [caller EXCEPT ![c] = n], level' = level,
             \/ waiting' = waiting /\ caller[c].pc # "wait"
             \/ c \in Tasks /\ waiting' = [waiting EXCEPT ![c] = Null]
      PROVE  Stacked'
  <2>1. caller'[c].depth = caller[c].depth /\ (caller'[c].pc = "idle" => caller[c].depth = 0)
    BY <1>1, BackFields DEF IInv, TypeOK, Depth
  <2>2. ASSUME NEW k \in Callers, k # c PROVE P(k)'
    BY <1>0, <1>1, <2>2 DEF IInv, TypeOK
  <2>3. P(c)'
    BY <1>0, <1>1, <2>1 DEF IInv, TypeOK
  <2> HIDE DEF P
  <2> QED BY <1>0, <2>2, <2>3
<1>2. ASSUME NEW c \in Callers, NEW s \in Services, Finish(c, s) \/ Unwind(c, s) PROVE Stacked'
  <2>1. PICK n \in {Resumed(Depth(c) - 1), Raising(Depth(c) - 1)}, answer \in {"value", "error"} :
          Pop(c, s, n, answer)
    BY <1>2 DEF Finish, Unwind
  <2>2. /\ caller'[c] = n /\ waiting' = waiting
        /\ \A k \in Callers, u \in Services :
             level'[k][u] = IF k = c /\ u = s THEN 0 ELSE level[k][u]
        /\ level[c][s] = caller[c].depth /\ level[c][s] > 0 /\ caller[c].pc # "wait"
    BY <1>2, <2>1 DEF Pop, Finish, Unwind, Top, Depth, IInv, TypeOK
  <2>3. n.depth = caller[c].depth - 1 /\ n.pc # "wait" /\ (n.pc = "idle" => n.depth = 0)
    BY <2>1, BackFields DEF Depth
  <2>4. \A k \in Callers : k # c => caller'[k].pc = caller[k].pc /\ caller'[k].depth = caller[k].depth
    BY <2>1 DEF Pop, IInv, TypeOK, CallerState
  <2>5. ASSUME NEW k \in Callers, k # c PROVE P(k)'
    BY <1>0, <2>2, <2>4, <2>5
  <2>6. P(c)'
    <3>1. ASSUME NEW u \in Services PROVE level'[c][u] <= caller[c].depth - 1
      <4>1. CASE u = s
        BY <2>2, <4>1 DEF IInv, TypeOK, CallerState
      <4>2. CASE u # s
        <5>1. level[c][u] <= caller[c].depth /\ level[c][u] # level[c][s]
          BY <1>0, <2>2, <4>2
        <5>2. level[c][u] \in Nat /\ level[c][s] \in Nat
          BY DEF IInv, TypeOK
        <5> QED BY <2>2, <4>2, <5>1, <5>2
      <4> QED BY <4>1, <4>2
    <3>2. ASSUME NEW u \in Services, NEW v \in Services,
                 level'[c][u] > 0, level'[c][u] = level'[c][v]
          PROVE  u = v
      <4>1. u # s /\ v # s
        BY <2>2, <3>2
      <4>2. level[c][u] > 0 /\ level[c][u] = level[c][v]
        BY <2>2, <3>2, <4>1
      <4> QED BY <1>0, <4>2
    <3>3. c \in Tasks => waiting'[c] = Null
      BY <1>0, <2>2
    <3> QED BY <2>2, <2>3, <3>1, <3>2, <3>3
  <2> HIDE DEF P
  <2> QED BY <1>0, <2>5, <2>6
<1>3. ASSUME NEW c \in Callers, NEW s \in Services, Begin(c, s) PROVE Stacked'
  <2>1. /\ caller' = [caller EXCEPT ![c] = At("run", Depth(c) + 1)]
        /\ waiting' = waiting
        /\ \A k \in Callers, u \in Services :
             level'[k][u] = IF k = c /\ u = s THEN Depth(c) + 1 ELSE level[k][u]
    BY <1>3 DEF Begin, IInv, TypeOK
  <2>2. caller'[c].depth = caller[c].depth + 1 /\ caller'[c].pc = "run" /\ Depth(c) = caller[c].depth
    BY <2>1, AtFields DEF Depth, IInv, TypeOK
  <2>3. ASSUME NEW k \in Callers, k # c PROVE P(k)'
    BY <1>0, <2>1, <2>3 DEF IInv, TypeOK
  <2>4. P(c)'
    <3>1. caller[c].depth \in Nat /\ \A u \in Services : level[c][u] \in Nat
      BY DEF IInv, TypeOK, CallerState
    <3>2. caller[c].pc # "wait"
      BY <1>3 DEF Begin, Asks
    <3> QED BY <1>0, <2>1, <2>2, <3>1, <3>2
  <2> HIDE DEF P
  <2> QED BY <1>0, <2>3, <2>4
<1>4. ASSUME NEW t \in Tasks, NEW s \in Services, Join(t, s) PROVE Stacked'
  <2>1. /\ caller'[t].pc = "wait" /\ caller'[t].depth = caller[t].depth /\ level' = level
        /\ \A k \in Callers \ {t} : caller'[k] = caller[k]
        /\ \A k \in Tasks \ {t} : waiting'[k] = waiting[k]
    BY <1>4 DEF Join, IInv, TypeOK, CallerState
  <2>2. \A k \in Callers : P(k)'
    BY <1>0, <2>1
  <2> HIDE DEF P
  <2> QED BY <1>0, <2>2
<1>5. ASSUME NEW c \in Callers, NEW s \in Services,
             Found(c, s) \/ Refuse(c, s) \/ Fail(c, s) \/ RefuseJoin(c, s)
      PROVE  Stacked'
  <2>1. /\ level' = level /\ waiting' = waiting /\ caller[c].pc # "wait"
        /\ \/ caller' = [caller EXCEPT ![c] = Resumed(Depth(c))]
           \/ caller' = [caller EXCEPT ![c] = Raising(Depth(c))]
    BY <1>5 DEF Found, Refuse, Fail, RefuseJoin, Asks
  <2> HIDE DEF P
  <2> QED BY <1>1, <2>1
<1>6. ASSUME NEW t \in Tasks, WakeWithValue(t) \/ WakeWithError(t) \/ CancelWaiter(t) PROVE Stacked'
  <2>1. /\ level' = level /\ waiting' = [waiting EXCEPT ![t] = Null]
        /\ \/ caller' = [caller EXCEPT ![t] = Resumed(Depth(t))]
           \/ caller' = [caller EXCEPT ![t] = Raising(Depth(t))]
    BY <1>6 DEF WakeWithValue, WakeWithError, CancelWaiter, Answered
  <2> HIDE DEF P
  <2> QED BY <1>1, <2>1
<1>7. CASE UNCHANGED vars
  BY <1>7 DEF vars, Stacked, IInv, InStack, Depth
<1> HIDE DEF P
<1> QED
  BY <1>2, <1>3, <1>4, <1>5, <1>6, <1>7 DEF Next, Ask, Continue

LEMMA IInvStep == IInv /\ [Next]_vars => IInv'
<1> SUFFICES ASSUME IInv, [Next]_vars PROVE IInv'
  OBVIOUS
<1>1. TypeOK'
  BY TypeStep DEF IInv
<1>2. BuiltOnce'
  BY BuiltStep DEF IInv, BuiltOnce, TypeOK
<1> QED
  BY <1>1, <1>2, RegisteredStep, WaitsStep, OnlyWaitersAnsweredStep, FedStep, StackedStep DEF IInv

-----------------------------------------------------------------------------
(* A knot, a set of tasks that wait for one another, is never tied: a join *)
(* ties one only through the joiner, and then the owner's chain, cut down  *)
(* to the knot without the joiner, was a knot before.                      *)
LEMMA NoCircularWaitStep == IInv /\ NoCircularWait /\ [Next]_vars => NoCircularWait'
<1> SUFFICES ASSUME IInv, NoCircularWait, [Next]_vars PROVE NoCircularWait'
  OBVIOUS
<1> USE ConstantsAssumption
<1>1. ASSUME NEW t \in Tasks, NEW s \in Services, Join(t, s) PROVE NoCircularWait'
  <2> SUFFICES ASSUME NEW S \in SUBSET Tasks, S # {}, \A u \in S : waiting'[u] \in S
               PROVE FALSE
    BY DEF NoCircularWait
  <2>1. /\ waiting' = [waiting EXCEPT ![t] = pending[s]] /\ pending[s] \in Tasks
        /\ t \notin Chain(pending[s])
    BY <1>1 DEF Join, UnderWay, IInv, TypeOK
  <2>2. \A u \in S \ {t} : waiting[u] \in S
    BY <2>1 DEF IInv, TypeOK
  <2>3. t \in S /\ pending[s] \in S
    <3>1. t \in S
      BY <2>2 DEF NoCircularWait
    <3> QED BY <2>1, <3>1 DEF IInv, TypeOK
  <2>4. PICK C \in SUBSET Tasks :
          pending[s] \in C /\ t \notin C /\ \A u \in C : waiting[u] # Null => waiting[u] \in C
    BY <2>1 DEF Chain
  <2>5. /\ S \cap C \in SUBSET Tasks /\ S \cap C # {}
        /\ \A u \in S \cap C : waiting[u] \in S \cap C
    BY <2>2, <2>3, <2>4
  <2> QED BY <2>5 DEF NoCircularWait
<1>2. ASSUME \A t \in Tasks : waiting'[t] \in {waiting[t], Null} PROVE NoCircularWait'
  <2> SUFFICES ASSUME NEW S \in SUBSET Tasks, S # {}, \A u \in S : waiting'[u] \in S
               PROVE FALSE
    BY DEF NoCircularWait
  <2>1. \A u \in S : waiting[u] \in S
    BY <1>2
  <2> QED BY <2>1 DEF NoCircularWait
<1>3. ASSUME NEW t \in Tasks, WakeWithValue(t) \/ WakeWithError(t) \/ CancelWaiter(t)
      PROVE  NoCircularWait'
  BY <1>2, <1>3 DEF WakeWithValue, WakeWithError, CancelWaiter, Answered, IInv, TypeOK
<1>4. ASSUME UNCHANGED waiting PROVE NoCircularWait'
  BY <1>2, <1>4
<1> QED
  BY <1>1, <1>3, <1>4
  DEF Next, Ask, Continue, Found, Begin, Refuse, RefuseJoin, Finish, Unwind, Fail, Pop, vars

-----------------------------------------------------------------------------
(* The strengthened invariant and the absence of circles hold in every     *)
(* reachable state.                                                        *)
LEMMA Invariance == Spec => [](IInv /\ NoCircularWait)
<1>1. IInv /\ NoCircularWait /\ [Next]_vars => (IInv /\ NoCircularWait)'
  BY IInvStep, NoCircularWaitStep
<1> QED
  BY InitIInv, <1>1, PTL DEF Spec

(* However tasks and threads race, fail and are cancelled, one instance of *)
(* a shared service is stored.                                             *)
THEOREM OneInstance == Spec => []BuiltOnce
<1>1. IInv => BuiltOnce
  BY DEF IInv
<1> QED
  BY Invariance, <1>1, PTL

(* Whatever the graph of needs and the number of tasks, no set of tasks    *)
(* waits for itself.                                                       *)
THEOREM NoDeadlock == Spec => []NoCircularWait
BY Invariance, PTL

(* Who waits unanswered waits for the task that is building the service.   *)
THEOREM WaitersHaveABuilder == Spec => []WaitsForTheBuilder
<1>1. IInv => WaitsForTheBuilder
  BY DEF IInv
<1> QED
  BY Invariance, <1>1, PTL

(* An instance is stored after the shared instances it was built from.     *)
THEOREM BuiltInOrder == Spec => []DependenciesFirst
<1>1. IInv => DependenciesFirst
  BY DEF IInv
<1> QED
  BY Invariance, <1>1, PTL

(* A resolution that ended left no open build and no table entry behind.   *)
THEOREM NothingLeft == Spec => []LeavesNothing
<1>1. ASSUME IInv, NEW c \in Callers, caller[c].pc = "idle"
      PROVE  /\ \A s \in Services : ~InStack(c, s)
             /\ \A s \in Shared : pending[s] # c
             /\ c \in Tasks => waiting[c] = Null
  <2>1. \A s \in Services : level[c][s] <= 0 /\ level[c][s] \in Nat
    BY <1>1 DEF IInv, Stacked, TypeOK
  <2>2. \A s \in Services : ~InStack(c, s)
    BY <2>1 DEF InStack
  <2>3. \A s \in Shared : pending[s] # c
    BY <1>1, <2>2, ConstantsAssumption DEF IInv, Registered, TypeOK, Callers
  <2> QED BY <1>1, <2>2, <2>3 DEF IInv, Stacked
<1>2. IInv => LeavesNothing
  BY <1>1 DEF LeavesNothing
<1> QED
  BY Invariance, <1>2, PTL

(* Waiting ends, for any services, tasks and threads (engine.py:160-220).  *)
THEOREM EveryWaitEnds == Spec => []WaitsEnd
BY NoDeadlock, WaitersHaveABuilder, NothingLeft, PTL DEF WaitsEnd
=============================================================================
