--------------------------- MODULE DecisionsProofs ---------------------------
(***************************************************************************)
(* Proofs about Decisions: what the modules of the library's decisions     *)
(* promise holds of every question that can be asked, and so at every step. *)
(* Induction over data is done over sets of numbers (Least, Ind), and a    *)
(* recursive function is first shown to be the function it says it is.     *)
(***************************************************************************)
EXTENDS Decisions, FiniteSetTheorems, SequenceTheorems, WellFoundedInduction, TLAPS

\* The order of the numbers, as a relation: what induction over them rests on.
NatLess == {p \in Nat \X Nat : p[1] < p[2]}

\* A set of numbers that is not empty has a least one.
LEMMA Least == ASSUME NEW T, T \subseteq Nat, T # {} PROVE \E x \in T : \A y \in T : ~(y < x)
<1>0. IsWellFoundedOn(NatLess, Nat)
  BY NatLessThanWellFounded DEF OpToRel, NatLess
<1>1. PICK x \in T : \A y \in T : ~(<<y, x>> \in NatLess)
  BY <1>0, WFMin
<1>2. \A y \in T : y < x => <<y, x>> \in NatLess
  BY DEF NatLess
<1> QED BY <1>1, <1>2

\* Induction, over a set of numbers: all of them, when it has 0 and the next of each.
LEMMA Ind == ASSUME NEW T, 0 \in T, \A n \in Nat : n \in T => n + 1 \in T PROVE Nat \subseteq T
<1> SUFFICES ASSUME Nat \ T # {} PROVE FALSE
  OBVIOUS
<1>1. PICK x \in Nat \ T : \A y \in Nat \ T : ~(y < x)
  BY Least
<1>2. x # 0 /\ x - 1 \in Nat /\ x - 1 < x
  BY <1>1
<1> QED BY <1>1, <1>2

\* A bounded set of numbers that is not empty has a greatest one.
LEMMA Greatest == ASSUME NEW k \in Nat, NEW T, T \subseteq 1 .. k, T # {} PROVE \E x \in T : \A y \in T : y <= x
<1> DEFINE U == {j \in Nat : \A y \in T : y <= j}
<1>1. U \subseteq Nat /\ k \in U
  OBVIOUS
<1>2. PICK j \in U : \A i \in U : ~(i < j)
  BY <1>1, Least
<1>3. CASE j \in T
  BY <1>2, <1>3
<1>4. CASE j \notin T
  <2>1. PICK x \in T : TRUE
    OBVIOUS
  <2>2. x \in Nat /\ x <= j /\ j \in Nat /\ x > 0
    BY <1>2, <2>1
  <2>3. \A y \in T : y \in Nat /\ y <= j /\ y # j
    BY <1>2, <1>4
  <2>4. j - 1 \in U
    BY <2>2, <2>3
  <2> QED BY <1>2, <2>2, <2>4
<1> QED BY <1>3, <1>4

(*********************** Bulk operations and imports ***********************)
\* The recursive definition of a partial run is the function it says: each item after the one before.
LEMMA PartialRuns ==
  ASSUME NEW c, B!IsCase(c)
  PROVE  B!PartialRun(c) = [n \in 0 .. Len(c.items) |-> IF n = 0 THEN B!PartialStart ELSE B!PartialItem(c, B!PartialRun(c)[n - 1], c.items[n])]
<1> DEFINE Rec(f, k) == f = [n \in 0 .. k |-> IF n = 0 THEN B!PartialStart ELSE B!PartialItem(c, f[n - 1], c.items[n])]
           T == {k \in Nat : \E f : Rec(f, k)}
<1>1. 0 \in T
  <2>1. Rec([n \in 0 .. 0 |-> B!PartialStart], 0)
    OBVIOUS
  <2> QED BY <2>1
<1>2. ASSUME NEW k \in Nat, k \in T PROVE k + 1 \in T
  <2>1. PICK f : Rec(f, k)
    BY <1>2
  <2> DEFINE g == [n \in 0 .. k + 1 |-> IF n = k + 1 THEN B!PartialItem(c, f[k], c.items[k + 1]) ELSE f[n]]
  <2>2. \A n \in 0 .. k : g[n] = f[n]
    OBVIOUS
  <2>3. ASSUME NEW n \in 0 .. k + 1 PROVE g[n] = IF n = 0 THEN B!PartialStart ELSE B!PartialItem(c, g[n - 1], c.items[n])
    <3>1. CASE n = k + 1
      BY <3>1, <2>2
    <3>2. CASE n # k + 1
      BY <3>2, <2>1, <2>2
    <3> QED BY <3>1, <3>2
  <2>4. Rec(g, k + 1)
    BY <2>3
  <2> HIDE DEF g
  <2> QED BY <2>4
<1> HIDE DEF T
<1>3. Len(c.items) \in Nat
  <2>1. c.items \in Seq(B!Items)
    BY DEF B!IsCase
  <2> QED BY <2>1
<1>4. Len(c.items) \in T
  BY <1>1, <1>2, <1>3, Ind
<1>5. \E f : Rec(f, Len(c.items))
  BY <1>4 DEF T
<1> QED BY <1>5 DEF B!PartialRun

\* The same of the run of an import, row by row.
LEMMA ImportRuns ==
  ASSUME NEW c, B!IsCase(c)
  PROVE  B!ImportRun(c) = [n \in 0 .. Len(c.items) |-> IF n = 0 THEN B!ImportStart ELSE B!ImportRow(c, B!ImportRun(c)[n - 1], c.items[n])]
<1> DEFINE Rec(f, k) == f = [n \in 0 .. k |-> IF n = 0 THEN B!ImportStart ELSE B!ImportRow(c, f[n - 1], c.items[n])]
           T == {k \in Nat : \E f : Rec(f, k)}
<1>1. 0 \in T
  <2>1. Rec([n \in 0 .. 0 |-> B!ImportStart], 0)
    OBVIOUS
  <2> QED BY <2>1
<1>2. ASSUME NEW k \in Nat, k \in T PROVE k + 1 \in T
  <2>1. PICK f : Rec(f, k)
    BY <1>2
  <2> DEFINE g == [n \in 0 .. k + 1 |-> IF n = k + 1 THEN B!ImportRow(c, f[k], c.items[k + 1]) ELSE f[n]]
  <2>2. \A n \in 0 .. k : g[n] = f[n]
    OBVIOUS
  <2>3. ASSUME NEW n \in 0 .. k + 1 PROVE g[n] = IF n = 0 THEN B!ImportStart ELSE B!ImportRow(c, g[n - 1], c.items[n])
    <3>1. CASE n = k + 1
      BY <3>1, <2>2
    <3>2. CASE n # k + 1
      BY <3>2, <2>1, <2>2
    <3> QED BY <3>1, <3>2
  <2>4. Rec(g, k + 1)
    BY <2>3
  <2> HIDE DEF g
  <2> QED BY <2>4
<1> HIDE DEF T
<1>3. Len(c.items) \in Nat
  <2>1. c.items \in Seq(B!Items)
    BY DEF B!IsCase
  <2> QED BY <2>1
<1>4. Len(c.items) \in T
  BY <1>1, <1>2, <1>3, Ind
<1>5. \E f : Rec(f, Len(c.items))
  BY <1>4 DEF T
<1> QED BY <1>5 DEF B!ImportRun

\* What a case of bulk work is made of.
LEMMA ItemsOf ==
  ASSUME NEW c, B!IsCase(c)
  PROVE  /\ c.items \in Seq(B!Items) /\ Len(c.items) \in Nat /\ DOMAIN c.items = 1 .. Len(c.items)
         /\ c.maxErrors \in Nat /\ c.maxErrors > 0 /\ c.dryRun \in BOOLEAN
         /\ c.kind \in {"create", "update", "delete", "import"}
         /\ \A i \in 1 .. Len(c.items) : /\ c.items[i] \in B!Items
                                         /\ c.items[i].fails \in B!Failures \cup {None} /\ c.items[i].told \in Nat
                                         /\ c.items[i].fails \in {"schema", "validation"} => c.items[i].told > 0
<1>1. c.items \in Seq(B!Items)
  BY DEF B!IsCase
<1>2. \A item \in B!Items : /\ item.fails \in B!Failures \cup {None} /\ item.told \in Nat
                            /\ item.fails \in {"schema", "validation"} => item.told > 0
  BY DEF B!Items
<1>3. c.maxErrors \in Nat /\ c.maxErrors > 0 /\ c.dryRun \in BOOLEAN /\ c.kind \in {"create", "update", "delete", "import"}
  BY DEF B!IsCase
<1>4. Len(c.items) \in Nat /\ DOMAIN c.items = 1 .. Len(c.items) /\ \A i \in 1 .. Len(c.items) : c.items[i] \in B!Items
  BY <1>1
<1> QED BY <1>1, <1>2, <1>3, <1>4

\* A failure is answered by a status of its own, and what an item may fail with is an error of the client.
LEMMA Statuses ==
  /\ \A f : B!StatusOf(f) \in {403, 404, 409, 422, 500}
  /\ \A f \in B!Failures : B!BulkError(f) # None => B!BulkError(f) \in 400 .. 499
<1>1. \A f : B!StatusOf(f) \in {403, 404, 409, 422, 500}
  BY DEF B!StatusOf
<1>2. \A f \in B!Failures : B!BulkError(f) # None => B!BulkError(f) \in 400 .. 499
  BY DEF B!StatusOf, B!BulkError, B!Failures
<1> QED BY <1>1, <1>2

\* The items up to the k-th that fail.
Bad(c, k) == {j \in 1 .. k : ~B!Ok(c.items[j])}

\* An entry of a report.
Entries == [index : Nat, status : Int, ok : BOOLEAN]

\* The state of a partial run.
IsPartialState(s) ==
  /\ DOMAIN s = {"i", "kept", "results", "failed", "raised"}
  /\ s.i \in Nat /\ s.kept \subseteq Nat /\ s.results \in Seq(Entries) /\ s.failed \in Nat /\ s.raised \in B!Failures \cup {None}

\* An entry tells the truth of item j.
Tells(entry, c, j) == /\ entry.index = j - 1 /\ entry.ok = B!Ok(c.items[j])
                      /\ ~B!Ok(c.items[j]) => entry.status \in 400 .. 499

\* After k items a partial run that has not raised told the truth of each, kept those that are well and counted the others.
PartialInv(c, k, s) ==
  /\ IsPartialState(s)
  /\ s.raised = None =>
       /\ s.i = k /\ s.kept = (1 .. k) \ Bad(c, k) /\ s.failed = Cardinality(Bad(c, k))
       /\ Len(s.results) = k /\ \A j \in 1 .. k : Tells(s.results[j], c, j)

\* The next item is one more failure, or none.
LEMMA BadGrows ==
  ASSUME NEW c, B!IsCase(c), NEW k \in Nat, k + 1 <= Len(c.items)
  PROVE  /\ Cardinality(Bad(c, k)) \in Nat
         /\ B!Ok(c.items[k + 1]) => Bad(c, k + 1) = Bad(c, k)
         /\ ~B!Ok(c.items[k + 1]) => Bad(c, k + 1) = Bad(c, k) \cup {k + 1} /\ Cardinality(Bad(c, k + 1)) = Cardinality(Bad(c, k)) + 1
<1>1. IsFiniteSet(Bad(c, k))
  <2>1. IsFiniteSet(1 .. k)
    BY FS_Interval
  <2> QED BY <2>1, FS_Subset DEF Bad
<1>2. k + 1 \notin Bad(c, k)
  BY DEF Bad
<1>3. /\ B!Ok(c.items[k + 1]) => Bad(c, k + 1) = Bad(c, k)
      /\ ~B!Ok(c.items[k + 1]) => Bad(c, k + 1) = Bad(c, k) \cup {k + 1}
  BY DEF Bad
<1> QED BY <1>1, <1>2, <1>3, FS_AddElement, FS_CardinalityType

\* The status of an entry.
Status(c, item) == IF B!Ok(item) THEN IF c.kind = "create" THEN 201 ELSE 200 ELSE B!BulkError(item.fails)

\* An entry of an item that failed carries an error.
LEMMA EntryStatus ==
  ASSUME NEW item, item.fails \in B!Failures \cup {None}, B!Ok(item) \/ B!BulkError(item.fails) # None, NEW c
  PROVE  Status(c, item) \in Int /\ (~B!Ok(item) => Status(c, item) \in 400 .. 499)
<1>1. CASE B!Ok(item)
  BY <1>1 DEF Status
<1>2. CASE ~B!Ok(item)
  <2>1. item.fails \in B!Failures /\ B!BulkError(item.fails) # None
    BY <1>2 DEF B!Ok
  <2>2. B!BulkError(item.fails) \in 400 .. 499
    BY <2>1, Statuses
  <2> QED BY <1>2, <2>2 DEF Status
<1> QED BY <1>1, <1>2

\* One item of a partial run: an entry is appended, the item is kept or counted.
Adds(c, s, item, t) ==
  /\ IsPartialState(t) /\ t.i = s.i + 1
  /\ t.results = Append(s.results, [index |-> s.i, status |-> Status(c, item), ok |-> B!Ok(item)])
  /\ B!Ok(item) => t.kept = s.kept \cup {s.i + 1} /\ t.failed = s.failed
  /\ ~B!Ok(item) => t.kept = s.kept /\ t.failed = s.failed + 1

\* An item that may be reported does that, and no more.
LEMMA PartialFields ==
  ASSUME NEW c, NEW s, IsPartialState(s), NEW item, item.fails \in B!Failures \cup {None}, s.raised = None,
         B!Ok(item) \/ B!BulkError(item.fails) # None
  PROVE  Adds(c, s, item, B!PartialItem(c, s, item))
<1> DEFINE t == B!PartialItem(c, s, item)
           entry == [index |-> s.i, status |-> Status(c, item), ok |-> B!Ok(item)]
           results == Append(s.results, entry)
<1>1. entry \in Entries
  <2>1. B!Ok(item) \in BOOLEAN /\ s.i \in Nat
    BY DEF B!Ok, IsPartialState
  <2> QED BY <2>1, EntryStatus DEF Entries
<1>2. results \in Seq(Entries)
  BY <1>1 DEF IsPartialState
<1>3. CASE B!Ok(item)
  <2>1. t = [[s EXCEPT !.i = @ + 1, !.kept = s.kept \cup {s.i + 1}] EXCEPT !.results = results]
    BY <1>3 DEF B!PartialItem, B!Entry, B!KeptOf, Status
  <2> HIDE DEF t, results
  <2>2. IsPartialState(t) /\ t.i = s.i + 1 /\ t.kept = s.kept \cup {s.i + 1} /\ t.failed = s.failed /\ t.results = results
    BY ONLY IsPartialState(s), <2>1, <1>2 DEF IsPartialState
  <2> QED BY <2>2, <1>3 DEF Adds, t, results
<1>4. CASE ~B!Ok(item)
  <2>1. t = [[s EXCEPT !.i = @ + 1, !.kept = s.kept] EXCEPT !.failed = @ + 1, !.results = results]
    BY <1>4 DEF B!PartialItem, B!Entry, B!KeptOf, Status
  <2> HIDE DEF t, results
  <2>2. IsPartialState(t) /\ t.i = s.i + 1 /\ t.kept = s.kept /\ t.failed = s.failed + 1 /\ t.results = results
    BY ONLY IsPartialState(s), <2>1, <1>2 DEF IsPartialState
  <2> QED BY <2>2, <1>4 DEF Adds, t, results
<1> QED BY <1>3, <1>4

\* One item preserves the invariant of partial runs.
LEMMA PartialStep ==
  ASSUME NEW c, B!IsCase(c), NEW k \in Nat, k + 1 <= Len(c.items), NEW s, PartialInv(c, k, s),
         NEW item, item = c.items[k + 1]
  PROVE  PartialInv(c, k + 1, B!PartialItem(c, s, item))
<1> DEFINE t == B!PartialItem(c, s, item)
<1>0. IsPartialState(s) /\ item.fails \in B!Failures \cup {None}
  BY ItemsOf DEF PartialInv
<1>1. CASE s.raised # None
  <2>1. t = s
    BY <1>1 DEF B!PartialItem
  <2> QED BY <2>1, <1>1 DEF PartialInv
<1>2. CASE s.raised = None /\ ~B!Ok(item) /\ B!BulkError(item.fails) = None
  <2>1. t = [[s EXCEPT !.i = @ + 1, !.kept = s.kept] EXCEPT !.raised = item.fails]
    BY <1>2 DEF B!PartialItem, B!KeptOf
  <2>2. item.fails \in B!Failures /\ item.fails # None
    BY <1>0, <1>2 DEF B!Ok
  <2> HIDE DEF t
  <2>3. IsPartialState(t) /\ t.raised # None
    BY <2>1, <2>2, <1>0 DEF IsPartialState
  <2> QED BY <2>3 DEF PartialInv, t
<1>3. CASE s.raised = None /\ (B!Ok(item) \/ B!BulkError(item.fails) # None)
  <2>1. s.i = k /\ s.kept = (1 .. k) \ Bad(c, k) /\ s.failed = Cardinality(Bad(c, k)) /\ Len(s.results) = k
        /\ \A j \in 1 .. k : Tells(s.results[j], c, j)
    BY <1>3 DEF PartialInv
  <2> DEFINE entry == [index |-> s.i, status |-> Status(c, item), ok |-> B!Ok(item)]
  <2>2. /\ IsPartialState(t) /\ t.i = s.i + 1 /\ t.results = Append(s.results, entry)
        /\ B!Ok(item) => t.kept = s.kept \cup {s.i + 1} /\ t.failed = s.failed
        /\ ~B!Ok(item) => t.kept = s.kept /\ t.failed = s.failed + 1
    <3>1. Adds(c, s, item, t)
      BY <1>0, <1>3, PartialFields
    <3> QED BY <3>1 DEF Adds
  <2>3. ~B!Ok(item) => Status(c, item) \in 400 .. 499
    BY <1>0, <1>3, EntryStatus
  <2>4. Tells(entry, c, k + 1)
    BY <2>1, <2>3 DEF Tells
  <2> HIDE DEF t, entry
  <2>5. s.results \in Seq(Entries)
    BY <1>0 DEF IsPartialState
  <2>6. Len(t.results) = k + 1 /\ t.results[k + 1] = entry /\ \A j \in 1 .. k : t.results[j] = s.results[j]
    BY <2>1, <2>2, <2>5
  <2>7. \A j \in 1 .. k + 1 : Tells(t.results[j], c, j)
    BY <2>1, <2>4, <2>6
  <2>8. t.kept = (1 .. k + 1) \ Bad(c, k + 1) /\ t.failed = Cardinality(Bad(c, k + 1))
    <3>1. CASE B!Ok(item)
      <4>1. Bad(c, k + 1) = Bad(c, k) /\ k + 1 \notin Bad(c, k)
        BY <3>1, BadGrows DEF Bad
      <4> QED BY <4>1, <3>1, <2>1, <2>2
    <3>2. CASE ~B!Ok(item)
      <4>1. Bad(c, k + 1) = Bad(c, k) \cup {k + 1} /\ Cardinality(Bad(c, k + 1)) = Cardinality(Bad(c, k)) + 1
        BY <3>2, BadGrows
      <4> QED BY <4>1, <3>2, <2>1, <2>2
    <3> QED BY <3>1, <3>2
  <2> QED BY <2>1, <2>2, <2>6, <2>7, <2>8 DEF PartialInv, t
<1> QED BY <1>1, <1>2, <1>3

\* So it holds when all items are done.
LEMMA PartialHolds ==
  ASSUME NEW c, B!IsCase(c)
  PROVE  PartialInv(c, Len(c.items), B!PartialRun(c)[Len(c.items)])
<1> DEFINE T == {k \in Nat : k <= Len(c.items) => PartialInv(c, k, B!PartialRun(c)[k])}
<1>0. Len(c.items) \in Nat
  BY ItemsOf
<1>1. 0 \in T
  <2>1. B!PartialRun(c)[0] = B!PartialStart
    BY PartialRuns, <1>0
  <2>2. Bad(c, 0) = {}
    BY DEF Bad
  <2>3. PartialInv(c, 0, B!PartialStart)
    BY <2>2, FS_EmptySet DEF PartialInv, IsPartialState, B!PartialStart
  <2> QED BY <2>1, <2>3
<1>2. ASSUME NEW k \in Nat, k \in T PROVE k + 1 \in T
  <2> SUFFICES ASSUME k + 1 <= Len(c.items) PROVE PartialInv(c, k + 1, B!PartialRun(c)[k + 1])
    OBVIOUS
  <2>1. B!PartialRun(c)[k + 1] = B!PartialItem(c, B!PartialRun(c)[k], c.items[k + 1])
    BY PartialRuns, <1>0
  <2>2. PartialInv(c, k, B!PartialRun(c)[k])
    BY <1>2, <1>0
  <2> QED BY <2>1, <2>2, PartialStep
<1> HIDE DEF T
<1>3. Len(c.items) \in T
  BY <1>0, <1>1, <1>2, Ind
<1> QED BY <1>3, <1>0 DEF T

\* How many errors an item tells: none when it is well, at least one when it fails in a way that is counted and has a message.
LEMMA ToldOf ==
  ASSUME NEW item, item.fails \in B!Failures \cup {None}, item.told \in Nat,
         item.fails \in {"schema", "validation"} => item.told > 0
  PROVE  /\ B!Told(item) \in Nat /\ (B!Ok(item) => B!Told(item) = 0)
         /\ item.fails \in B!Counted /\ item.fails # "message" => B!Told(item) > 0
<1>1. None \notin {"schema", "validation"}
  BY NoneIsNothing DEF Literals, B!Failures
<1>2. CASE item.fails \in {"schema", "validation"}
  BY <1>1, <1>2 DEF B!Told, B!Ok
<1>3. CASE item.fails \notin {"schema", "validation"}
  <2>1. B!Told(item) = 0
    BY <1>3 DEF B!Told
  <2>2. ~(item.fails \in B!Counted /\ item.fails # "message")
    BY <1>3 DEF B!Counted
  <2> QED BY <2>1, <2>2
<1> QED BY <1>2, <1>3

\* The state of an import.
IsImportState(s) ==
  /\ DOMAIN s = {"i", "kept", "created", "errors", "raised"}
  /\ s.i \in Nat /\ s.kept \subseteq Nat /\ s.created \in Nat /\ s.errors \in Seq(Nat) /\ s.raised \in B!Failures \cup {None}

\* The errors of an import are in the order of its rows.
Sorted(errors) == \A n \in 1 .. Len(errors) - 1 : errors[n] <= errors[n + 1]

\* No item fails without a message.
TellsAll(c) == \A i \in 1 .. Len(c.items) : c.items[i].fails # "message"

\* After k rows an import that has not raised created the rows that are well and has errors of failing rows only, in order.
ImportInv(c, k, s) ==
  /\ IsImportState(s)
  /\ s.i <= k
  /\ \A n \in 1 .. Len(s.errors) : s.errors[n] \in Bad(c, s.i)
  /\ Sorted(s.errors)
  /\ s.raised = None /\ Len(s.errors) < c.maxErrors => s.i = k
  /\ s.raised = None /\ s.errors = <<>> /\ TellsAll(c) => s.created = k /\ s.kept = 1 .. k

\* The errors after a row that tells some more.
Continued(errors, told, row) == errors \o [n \in 1 .. told |-> row]

\* They are the errors before, and then those of the row.
Continues(errors, told, row, longer) ==
  /\ longer \in Seq(Nat) /\ Len(longer) = Len(errors) + told
  /\ \A n \in 1 .. Len(errors) : longer[n] = errors[n]
  /\ \A n \in Len(errors) + 1 .. Len(longer) : longer[n] = row
  /\ Sorted(longer)

\* Errors of a later row leave the errors in order.
LEMMA ErrorsGrow ==
  ASSUME NEW errors, errors \in Seq(Nat), NEW row \in Nat, NEW told \in Nat, Sorted(errors),
         \A n \in 1 .. Len(errors) : errors[n] <= row
  PROVE  Continues(errors, told, row, Continued(errors, told, row))
<1> DEFINE more == [n \in 1 .. told |-> row]
           longer == Continued(errors, told, row)
<1>1. more \in Seq(Nat) /\ Len(more) = told /\ \A n \in 1 .. told : more[n] = row
  OBVIOUS
<1>0. longer = errors \o more
  BY DEF Continued
<1> HIDE DEF more, longer
<1>2. longer \in Seq(Nat) /\ Len(longer) = Len(errors) + told
  BY <1>0, <1>1, ConcatProperties
<1>3. \A n \in 1 .. Len(errors) : longer[n] = errors[n]
  BY <1>0, <1>1
<1>4. \A n \in Len(errors) + 1 .. Len(errors) + told : longer[n] = more[n - Len(errors)]
  BY <1>0, <1>1
<1>5. \A n \in Len(errors) + 1 .. Len(longer) : longer[n] = row
  BY <1>1, <1>2, <1>4
<1>6. ASSUME NEW n \in 1 .. Len(longer) - 1 PROVE longer[n] <= longer[n + 1]
  <2>0. Len(errors) \in Nat /\ Len(longer) \in Nat
    BY <1>2
  <2>1. CASE n + 1 <= Len(errors)
    <3>1. n \in 1 .. Len(errors) - 1 /\ n \in 1 .. Len(errors) /\ n + 1 \in 1 .. Len(errors)
      BY <2>0, <2>1
    <3>2. longer[n] = errors[n] /\ longer[n + 1] = errors[n + 1]
      BY <3>1, <1>3
    <3> QED BY <3>1, <3>2 DEF Sorted
  <2>2. CASE n = Len(errors)
    BY <2>0, <2>2, <1>2, <1>3, <1>5
  <2>3. CASE n > Len(errors)
    <3>1. n \in Len(errors) + 1 .. Len(longer) /\ n + 1 \in Len(errors) + 1 .. Len(longer)
      BY <2>0, <2>3
    <3>2. longer[n] = row /\ longer[n + 1] = row
      BY <3>1, <1>5
    <3> QED BY <3>2
  <2> QED BY <2>0, <2>1, <2>2, <2>3
<1> QED BY <1>2, <1>3, <1>5, <1>6 DEF Sorted, Continues, longer

\* One row of an import: its errors are appended, or it is created.
Imports(s, item, t) ==
  /\ IsImportState(t) /\ t.i = s.i + 1 /\ t.raised = s.raised
  /\ t.errors = Continued(s.errors, B!Told(item), s.i + 1)
  /\ B!Ok(item) => t.kept = s.kept \cup {s.i + 1} /\ t.created = s.created + 1

\* A row that is counted does that, and no more.
LEMMA ImportFields ==
  ASSUME NEW c, NEW s, IsImportState(s), NEW item, item.fails \in B!Failures \cup {None}, s.raised = None,
         B!Told(item) \in Nat, Len(s.errors) < c.maxErrors, c.maxErrors \in Nat, B!Ok(item) \/ item.fails \in B!Counted
  PROVE  Imports(s, item, B!ImportRow(c, s, item))
<1> DEFINE t == B!ImportRow(c, s, item)
           errors == s.errors \o [n \in 1 .. B!Told(item) |-> s.i + 1]
           kept == IF B!Ok(item) \/ item.wrote THEN s.kept \cup {s.i + 1} ELSE s.kept
           created == IF B!Ok(item) THEN s.created + 1 ELSE s.created
<1>1. errors \in Seq(Nat)
  <2>1. [n \in 1 .. B!Told(item) |-> s.i + 1] \in Seq(Nat)
    BY DEF IsImportState
  <2> QED BY <2>1 DEF IsImportState
<1>2. kept \subseteq Nat /\ created \in Nat
  BY DEF IsImportState
<1>3. ~(Len(s.errors) >= c.maxErrors)
  BY DEF IsImportState
<1>4. t = [s EXCEPT !.i = @ + 1, !.kept = kept, !.created = created, !.errors = errors]
  BY <1>3 DEF B!ImportRow
<1>5. B!Ok(item) => kept = s.kept \cup {s.i + 1} /\ created = s.created + 1
  OBVIOUS
<1> HIDE DEF t, errors, kept, created
<1>6. IsImportState(t) /\ t.i = s.i + 1 /\ t.raised = s.raised /\ t.kept = kept /\ t.created = created /\ t.errors = errors
  BY ONLY IsImportState(s), <1>1, <1>2, <1>4 DEF IsImportState
<1> QED BY <1>5, <1>6 DEF Imports, Continued, errors, t

\* One row preserves the invariant of imports.
LEMMA ImportStep ==
  ASSUME NEW c, B!IsCase(c), NEW k \in Nat, k + 1 <= Len(c.items), NEW s, ImportInv(c, k, s),
         NEW item, item = c.items[k + 1]
  PROVE  ImportInv(c, k + 1, B!ImportRow(c, s, item))
<1> DEFINE t == B!ImportRow(c, s, item)
<1>0. IsImportState(s) /\ item.fails \in B!Failures \cup {None} /\ c.maxErrors \in Nat /\ c.maxErrors > 0 /\ Len(c.items) \in Nat
  BY ItemsOf DEF ImportInv
<1>01. /\ B!Told(item) \in Nat /\ (B!Ok(item) => B!Told(item) = 0)
       /\ item.fails \in B!Counted /\ item.fails # "message" => B!Told(item) > 0
  BY ItemsOf, ToldOf
<1>02. s.errors \in Seq(Nat) /\ Len(s.errors) \in Nat /\ (s.errors = <<>> => Len(s.errors) = 0)
  BY <1>0 DEF IsImportState
<1>1. CASE s.raised # None \/ Len(s.errors) >= c.maxErrors
  <2>1. t = s
    BY <1>1 DEF B!ImportRow
  <2>2. ~(s.errors = <<>> /\ s.raised = None)
    BY <1>0, <1>1, <1>02
  <2>3. s.i \in Nat
    BY <1>0 DEF IsImportState
  <2>4. ~(s.raised = None /\ Len(s.errors) < c.maxErrors)
    BY <1>0, <1>1, <1>02
  <2> QED BY <2>1, <2>2, <2>3, <2>4 DEF ImportInv
<1>2. CASE s.raised = None /\ Len(s.errors) < c.maxErrors /\ ~B!Ok(item) /\ item.fails \notin B!Counted
  <2>1. t = [s EXCEPT !.raised = item.fails]
    BY <1>0, <1>02, <1>2 DEF B!ImportRow
  <2>2. item.fails \in B!Failures /\ item.fails # None
    BY <1>0, <1>2 DEF B!Ok
  <2> HIDE DEF t
  <2>3. IsImportState(t) /\ t.raised # None /\ t.i = s.i /\ t.errors = s.errors
    BY <2>1, <2>2, <1>0 DEF IsImportState
  <2>4. s.i \in Nat
    BY <1>0 DEF IsImportState
  <2> QED BY <2>3, <2>4 DEF ImportInv, t
<1>3. CASE s.raised = None /\ Len(s.errors) < c.maxErrors /\ (B!Ok(item) \/ item.fails \in B!Counted)
  <2>1. Imports(s, item, t)
    BY <1>0, <1>01, <1>3, ImportFields
  <2> DEFINE row == s.i + 1
  <2>2. s.i \in Nat /\ s.i <= k /\ \A n \in 1 .. Len(s.errors) : s.errors[n] \in Bad(c, s.i)
    BY <1>0 DEF IsImportState, ImportInv
  <2>3. /\ t.errors \in Seq(Nat) /\ Len(t.errors) = Len(s.errors) + B!Told(item) /\ Sorted(t.errors)
        /\ \A n \in 1 .. Len(s.errors) : t.errors[n] = s.errors[n]
        /\ \A n \in Len(s.errors) + 1 .. Len(t.errors) : t.errors[n] = row
    <3>1. row \in Nat /\ \A n \in 1 .. Len(s.errors) : s.errors[n] <= row
      BY <2>2 DEF Bad
    <3>2. Sorted(s.errors)
      BY DEF ImportInv
    <3>3. t.errors = Continued(s.errors, B!Told(item), row)
      BY <2>1 DEF Imports
    <3> HIDE DEF t, row
    <3>4. Continues(s.errors, B!Told(item), row, Continued(s.errors, B!Told(item), row))
      BY <1>01, <1>02, <3>1, <3>2, ErrorsGrow
    <3> QED BY <3>3, <3>4 DEF Continues
  <2> HIDE DEF t
  <2>4. IsImportState(t) /\ t.i = s.i + 1 /\ t.raised = None
    BY <2>1, <1>3 DEF Imports
  <2>5. s.i = k
    BY <1>3 DEF ImportInv
  <2>6. ASSUME NEW n \in 1 .. Len(t.errors) PROVE t.errors[n] \in Bad(c, k + 1)
    <3>1. CASE n \in 1 .. Len(s.errors)
      <4>1. t.errors[n] \in Bad(c, k)
        BY <2>2, <2>3, <2>5, <3>1
      <4> QED BY <4>1 DEF Bad
    <3>2. CASE n \notin 1 .. Len(s.errors)
      <4>1. n \in Len(s.errors) + 1 .. Len(t.errors)
        BY <1>02, <2>3, <3>2, <1>01
      <4>2. t.errors[n] = k + 1
        BY <2>3, <2>5, <4>1
      <4>3. ~B!Ok(item)
        BY <4>1, <1>01, <1>02, <2>3
      <4> QED BY <4>2, <4>3 DEF Bad
    <3> QED BY <3>1, <3>2
  <2>7. ASSUME t.errors = <<>>, TellsAll(c) PROVE t.created = k + 1 /\ t.kept = 1 .. k + 1
    <3>1. Len(s.errors) = 0 /\ B!Told(item) = 0
      BY <2>3, <2>7, <1>01, <1>02
    <3>2. s.errors = <<>>
      BY <3>1, <1>02
    <3>3. item.fails # "message"
      BY <2>7, <1>0 DEF TellsAll
    <3>4. B!Ok(item)
      BY <3>1, <3>3, <1>01, <1>3
    <3>5. s.created = k /\ s.kept = 1 .. k
      BY <3>2, <2>7, <1>3 DEF ImportInv
    <3>6. t.kept = s.kept \cup {s.i + 1} /\ t.created = s.created + 1
      BY <3>4, <2>1 DEF Imports
    <3> QED BY <3>5, <3>6, <2>5
  <2>8. t.i = k + 1
    BY <2>4, <2>5
  <2> QED BY <2>3, <2>4, <2>6, <2>7, <2>8 DEF ImportInv, t
<1> QED BY <1>0, <1>02, <1>1, <1>2, <1>3

\* So it holds when all rows are read.
LEMMA ImportHolds ==
  ASSUME NEW c, B!IsCase(c)
  PROVE  ImportInv(c, Len(c.items), B!ImportRun(c)[Len(c.items)])
<1> DEFINE T == {k \in Nat : k <= Len(c.items) => ImportInv(c, k, B!ImportRun(c)[k])}
<1>0. Len(c.items) \in Nat
  BY ItemsOf
<1>1. 0 \in T
  <2>1. B!ImportRun(c)[0] = B!ImportStart
    BY ImportRuns, <1>0
  <2>3. ImportInv(c, 0, B!ImportStart)
    BY DEF ImportInv, IsImportState, Sorted, B!ImportStart
  <2> QED BY <2>1, <2>3
<1>2. ASSUME NEW k \in Nat, k \in T PROVE k + 1 \in T
  <2> SUFFICES ASSUME k + 1 <= Len(c.items) PROVE ImportInv(c, k + 1, B!ImportRun(c)[k + 1])
    OBVIOUS
  <2>1. B!ImportRun(c)[k + 1] = B!ImportRow(c, B!ImportRun(c)[k], c.items[k + 1])
    BY ImportRuns, <1>0
  <2>2. ImportInv(c, k, B!ImportRun(c)[k])
    BY <1>2, <1>0
  <2> QED BY <2>1, <2>2, ImportStep
<1> HIDE DEF T
<1>3. Len(c.items) \in T
  BY <1>0, <1>1, <1>2, Ind
<1> QED BY <1>3, <1>0 DEF T

\* An operation that is all or nothing reports what it left in the database.
LEMMA WholeAgrees ==
  ASSUME NEW c, B!IsCase(c), B!Answer(c) = B!Whole(c), c.kind # "import"
  PROVE  B!ReportAgrees(c)
<1> DEFINE bad == {i \in B!Indices(c) : ~B!Ok(c.items[i])}
           a == B!Answer(c)
<1>0. B!Checked(c) \in {0, 403, 404, 422}
  BY DEF B!Checked, B!Fetched
<1>1. CASE \E status \in {403, 404, 409, 422, 500} : a = B!Raised(status)
  BY <1>1 DEF B!ReportAgrees, B!Agrees, B!Raised
<1>2. CASE bad = {} /\ \E status \in {200, 201, 204} : a = [B!Raised(status) EXCEPT !.kept = B!Indices(c)]
  <2>1. PICK status \in {200, 201, 204} : a = [B!Raised(status) EXCEPT !.kept = B!Indices(c)]
    BY <1>2
  <2>2. a.status = status /\ a.kept = B!Indices(c) /\ a.errors = <<>>
    BY <2>1 DEF B!Raised
  <2> HIDE DEF a
  <2>3. /\ a.status \notin 200 .. 299 => a.kept = {}
        /\ a.status # 207
        /\ a.status \in {200, 201, 204} => a.kept = B!Indices(c) /\ bad = {}
        /\ a.errors = <<>>
    BY <1>2, <2>2
  <2> QED BY <2>3 DEF B!ReportAgrees, B!Agrees, a
<1>3. a = B!Whole(c)
  OBVIOUS
<1> HIDE DEF a
<1>4. (\E status \in {403, 404, 409, 422, 500} : a = B!Raised(status))
      \/ (bad = {} /\ \E status \in {200, 201, 204} : a = [B!Raised(status) EXCEPT !.kept = B!Indices(c)])
  <2>1. CASE B!Checked(c) # 0
    <3>1. a = B!Raised(B!Checked(c))
      BY <1>3, <2>1 DEF B!Whole
    <3> QED BY <1>0, <2>1, <3>1
  <2>2. CASE B!Checked(c) = 0 /\ bad # {}
    <3>1. a = B!Raised(B!StatusOf(c.items[B!First(bad)].fails))
      BY <1>3, <2>2 DEF B!Whole
    <3> QED BY <3>1, Statuses
  <2>3. CASE B!Checked(c) = 0 /\ bad = {}
    <3>1. CASE c.leavesScope /\ c.kind # "delete" /\ Len(c.items) > 0
      <4>1. a = B!Raised(404)
        BY <1>3, <2>3, <3>1 DEF B!Whole
      <4> QED BY <4>1
    <3>2. CASE ~(c.leavesScope /\ c.kind # "delete" /\ Len(c.items) > 0)
      <4>1. a = [B!Raised(CASE c.kind = "create" -> 201 [] c.kind = "update" -> 200 [] OTHER -> 204) EXCEPT !.kept = B!Indices(c)]
        BY <1>3, <2>3, <3>2 DEF B!Whole
      <4>2. (CASE c.kind = "create" -> 201 [] c.kind = "update" -> 200 [] OTHER -> 204) \in {200, 201, 204}
        OBVIOUS
      <4> QED BY <2>3, <4>1, <4>2
    <3> QED BY <3>1, <3>2
  <2> QED BY <2>1, <2>2, <2>3
<1> QED BY <1>1, <1>2, <1>4

\* A partial operation reports what it left in the database.
LEMMA PartialAgrees ==
  ASSUME NEW c, B!IsCase(c), B!Answer(c) = B!Partial(c), c.kind # "import"
  PROVE  B!ReportAgrees(c)
<1> DEFINE bad == {i \in B!Indices(c) : ~B!Ok(c.items[i])}
           a == B!Answer(c)
           end == B!PartialRun(c)[Len(c.items)]
<1>1. CASE \E status \in {403, 404, 409, 422, 500} : a = B!Raised(status)
  BY <1>1 DEF B!ReportAgrees, B!Agrees, B!Raised
<1>2. CASE end.raised = None /\ a = [B!Raised(207) EXCEPT !.kept = end.kept, !.results = end.results, !.header = end.failed]
  <2>1. /\ a.status = 207 /\ a.kept = end.kept /\ a.results = end.results /\ a.header = end.failed /\ a.errors = <<>>
    BY <1>2 DEF B!Raised
  <2>2. PartialInv(c, Len(c.items), end)
    BY PartialHolds
  <2>3. B!Indices(c) = 1 .. Len(c.items) /\ bad = Bad(c, Len(c.items))
    BY ItemsOf DEF B!Indices, Bad
  <2> HIDE DEF a, end, bad
  <2>4. /\ Len(a.results) = Len(c.items) /\ a.kept = B!Indices(c) \ bad /\ a.header = Cardinality(bad)
        /\ \A j \in B!Indices(c) : Tells(a.results[j], c, j)
    BY <1>2, <2>1, <2>2, <2>3 DEF PartialInv
  <2>5. \A i \in B!Indices(c) : (i \notin bad) <=> B!Ok(c.items[i])
    BY DEF bad
  <2>6. \A i \in B!Indices(c) : /\ a.results[i].index = i - 1 /\ (a.results[i].ok <=> i \notin bad)
                                /\ i \in bad => a.results[i].status \in 400 .. 499
    <3> TAKE i \in B!Indices(c)
    <3>1. B!Ok(c.items[i]) \in BOOLEAN
      BY DEF B!Ok
    <3>2. Tells(a.results[i], c, i)
      BY <2>4
    <3>3. i \notin bad <=> B!Ok(c.items[i])
      BY <2>5
    <3> QED BY <3>2, <3>3 DEF Tells
  <2>7. bad \subseteq B!Indices(c)
    BY DEF bad
  <2>8. B!Agrees(c, a, bad)
    <3>1. B!Cardinality(bad) = Cardinality(bad)
      BY DEF B!Cardinality, Cardinality
    <3>2. a.status \in 200 .. 299 /\ a.status \notin {200, 201, 204} /\ a.errors = <<>>
      BY <2>1
    <3>3. \A i \in bad : a.results[i].status \in 400 .. 499
      BY <2>6, <2>7
    <3>4. /\ Len(a.results) = Len(c.items) /\ a.kept = B!Indices(c) \ bad /\ a.header = B!Cardinality(bad)
          /\ \A i \in B!Indices(c) : a.results[i].index = i - 1 /\ (a.results[i].ok <=> i \notin bad)
      BY <2>4, <2>6, <3>1
    <3> QED BY ONLY <3>2, <3>3, <3>4 DEF B!Agrees
  <2> QED BY <2>8 DEF B!ReportAgrees, a, bad
<1>3. a = B!Partial(c)
  OBVIOUS
<1> HIDE DEF a
<1>4. \/ \E status \in {403, 404, 409, 422, 500} : a = B!Raised(status)
      \/ end.raised = None /\ a = [B!Raised(207) EXCEPT !.kept = end.kept, !.results = end.results, !.header = end.failed]
  BY <1>3, Statuses DEF B!Partial
<1> QED BY <1>1, <1>2, <1>4

\* What is shown of the errors is of failing rows, and within the limit.
ShownWell(c, shown, bad) ==
  /\ Len(shown) <= c.maxErrors
  /\ \A n \in DOMAIN shown : shown[n] \in bad
  /\ \A n \in 1 .. Len(shown) - 1 : shown[n] <= shown[n + 1]

\* The first errors of an import are such.
LEMMA ShownOf ==
  ASSUME NEW c, B!IsCase(c), NEW errors, errors \in Seq(Nat), Sorted(errors), NEW bad,
         \A n \in 1 .. Len(errors) : errors[n] \in bad
  PROVE  ShownWell(c, B!Shown(c, errors), bad)
<1> DEFINE shown == B!Shown(c, errors)
           most == IF Len(errors) > c.maxErrors THEN c.maxErrors ELSE Len(errors)
<1>1. most \in Nat /\ most <= Len(errors) /\ most <= c.maxErrors
  BY ItemsOf
<1>2. shown = SubSeq(errors, 1, most)
  BY DEF B!Shown
<1> HIDE DEF most, shown
<1>3. Len(shown) = most /\ DOMAIN shown = 1 .. most /\ \A n \in 1 .. most : shown[n] = errors[n]
  BY <1>1, <1>2
<1>4. \A n \in 1 .. most - 1 : shown[n] <= shown[n + 1]
  BY <1>1, <1>3 DEF Sorted
<1> QED BY <1>1, <1>3, <1>4 DEF ShownWell, shown

\* An import reports what it left in the database.
LEMMA ImportAgrees ==
  ASSUME NEW c, B!IsCase(c), c.kind = "import"
  PROVE  B!ReportAgrees(c) /\ B!ToldImportIsWhole(c)
<1> DEFINE bad == {i \in B!Indices(c) : ~B!Ok(c.items[i])}
           a == B!Answer(c)
           end == B!ImportRun(c)[Len(c.items)]
<1>0. ImportInv(c, Len(c.items), end) /\ B!Indices(c) = 1 .. Len(c.items)
  BY ImportHolds, ItemsOf DEF B!Indices
<1>1. CASE \E status \in {403, 404, 409, 413, 422, 500} : a = B!Raised(status)
  BY <1>1 DEF B!ReportAgrees, B!Agrees, B!ToldImportIsWhole, B!ImportIsWhole, B!Raised
<1>2. CASE end.raised = None /\ end.errors # <<>> /\ a = [B!Raised(422) EXCEPT !.errors = B!Shown(c, end.errors), !.kept = {}]
  <2>1. a.status = 422 /\ a.kept = {} /\ a.errors = B!Shown(c, end.errors)
    BY <1>2 DEF B!Raised
  <2>2. \A n \in 1 .. Len(end.errors) : end.errors[n] \in bad
    <3>1. \A n \in 1 .. Len(end.errors) : end.errors[n] \in Bad(c, end.i)
      BY <1>0 DEF ImportInv
    <3>2. Bad(c, end.i) \subseteq bad
      BY <1>0, ItemsOf DEF Bad, ImportInv, IsImportState
    <3> QED BY <3>1, <3>2
  <2>3. end.errors \in Seq(Nat) /\ Sorted(end.errors)
    BY <1>0 DEF ImportInv, IsImportState
  <2> HIDE DEF a, end, bad
  <2>4. /\ Len(a.errors) <= c.maxErrors
        /\ \A n \in DOMAIN a.errors : a.errors[n] \in bad
        /\ \A n \in 1 .. Len(a.errors) - 1 : a.errors[n] <= a.errors[n + 1]
    <3>1. ShownWell(c, B!Shown(c, end.errors), bad)
      BY <2>2, <2>3, ShownOf
    <3> QED BY <2>1, <3>1 DEF ShownWell
  <2> QED BY <2>1, <2>4 DEF B!ReportAgrees, B!Agrees, B!ToldImportIsWhole, B!ImportIsWhole, a, bad
<1>3. CASE /\ end.raised = None /\ end.errors = <<>>
           /\ a = [B!Raised(IF c.dryRun THEN 200 ELSE 201) EXCEPT !.kept = IF c.dryRun THEN {} ELSE end.kept, !.created = end.created]
  <2>1. /\ a.status = (IF c.dryRun THEN 200 ELSE 201) /\ a.kept = (IF c.dryRun THEN {} ELSE end.kept)
        /\ a.created = end.created /\ a.errors = <<>>
    BY <1>3 DEF B!Raised
  <2>2. TellsAll(c) => end.created = Len(c.items) /\ end.kept = B!Indices(c)
    BY <1>0, <1>3 DEF ImportInv
  <2> HIDE DEF a, end
  <2>3. B!ReportAgrees(c)
    BY <2>1 DEF B!ReportAgrees, B!Agrees, a
  <2>4. TellsAll(c) => B!ImportIsWhole(c)
    BY <2>1, <2>2 DEF B!ImportIsWhole, a
  <2> QED BY <2>3, <2>4, <1>0 DEF B!ToldImportIsWhole, TellsAll
<1>4. a = B!Import(c)
  BY DEF B!Answer
<1> HIDE DEF a
<1>5. \/ \E status \in {403, 404, 409, 413, 422, 500} : a = B!Raised(status)
      \/ end.raised = None /\ end.errors # <<>> /\ a = [B!Raised(422) EXCEPT !.errors = B!Shown(c, end.errors), !.kept = {}]
      \/ /\ end.raised = None /\ end.errors = <<>>
         /\ a = [B!Raised(IF c.dryRun THEN 200 ELSE 201) EXCEPT !.kept = IF c.dryRun THEN {} ELSE end.kept, !.created = end.created]
  <2> DEFINE kept == IF B!RollsBack(c, end) THEN {} ELSE end.kept
  <2>1. a = IF c.bytes > c.maxBytes \/ Len(c.items) > c.limit THEN B!Raised(413)
            ELSE IF c.unreadable THEN B!Raised(422)
            ELSE IF end.raised # None THEN B!Raised(B!StatusOf(end.raised))
            ELSE IF end.errors # <<>> THEN [B!Raised(422) EXCEPT !.errors = B!Shown(c, end.errors), !.kept = kept]
            ELSE [B!Raised(IF c.dryRun THEN 200 ELSE 201) EXCEPT !.kept = kept, !.created = end.created]
    BY <1>4 DEF B!Import
  <2>2. (end.errors # <<>> => kept = {}) /\ (end.errors = <<>> => kept = IF c.dryRun THEN {} ELSE end.kept)
    BY DEF B!RollsBack
  <2>3. B!StatusOf(end.raised) \in {403, 404, 409, 422, 500}
    BY Statuses
  <2> HIDE DEF end, kept
  <2>4. CASE end.raised # None \/ c.unreadable \/ c.bytes > c.maxBytes \/ Len(c.items) > c.limit
    BY <2>1, <2>3, <2>4
  <2>5. CASE ~(end.raised # None \/ c.unreadable \/ c.bytes > c.maxBytes \/ Len(c.items) > c.limit)
    <3>1. a = IF end.errors # <<>> THEN [B!Raised(422) EXCEPT !.errors = B!Shown(c, end.errors), !.kept = kept]
              ELSE [B!Raised(IF c.dryRun THEN 200 ELSE 201) EXCEPT !.kept = kept, !.created = end.created]
      BY <2>1, <2>5
    <3>2. CASE end.errors # <<>>
      <4>1. a = [B!Raised(422) EXCEPT !.errors = B!Shown(c, end.errors), !.kept = kept]
        BY <3>1, <3>2
      <4>2. kept = {}
        BY <2>2, <3>2
      <4> QED BY <2>5, <3>2, <4>1, <4>2
    <3>3. CASE end.errors = <<>>
      <4>1. a = [B!Raised(IF c.dryRun THEN 200 ELSE 201) EXCEPT !.kept = kept, !.created = end.created]
        BY <3>1, <3>3
      <4>2. kept = IF c.dryRun THEN {} ELSE end.kept
        BY <2>2, <3>3
      <4> QED BY <2>5, <3>3, <4>1, <4>2
    <3> QED BY <3>2, <3>3
  <2> QED BY <2>4, <2>5
<1> QED BY <1>1, <1>2, <1>3, <1>5

\* Every report of a bulk operation or an import agrees with the database (crud/bulk.py, crud/transfer.py:238-340).
LEMMA BulkTellsTheTruth ==
  ASSUME NEW c, B!IsCase(c)
  PROVE  B!ReportAgrees(c) /\ B!ToldImportIsWhole(c)
<1>1. CASE c.kind = "import"
  BY <1>1, ImportAgrees
<1>2. CASE c.kind # "import"
  <2>1. B!ToldImportIsWhole(c)
    BY <1>2 DEF B!ToldImportIsWhole, B!ImportIsWhole
  <2>2. B!Answer(c) = B!Partial(c) \/ B!Answer(c) = B!Whole(c)
    BY <1>2 DEF B!Answer
  <2> QED BY <1>2, <2>1, <2>2, PartialAgrees, WholeAgrees
<1> QED BY <1>1, <1>2

(************************* Resources and rendering *************************)
\* The columns of a row that a write can set.
Held == O!Columns \ {"pk"}
\* What is declared is found: who owns a row is its author or the lead of its project.
Found(d) ==
  /\ d.owner # None => d.owner = <<"author">> \/ d.owner = <<"project", "lead">>
  /\ d.tenant # None => d.tenant = <<"org">> \/ d.tenant = <<"project", "org">>
  /\ d.parent # None => d.parent.field = "project"
  /\ O!ContextFields(d) \subseteq {"author", "org", "project"}
  /\ O!Direct(d.owner) => d.owner = <<"author">> /\ "author" \in O!ContextFields(d)
  /\ O!Direct(d.tenant) => d.tenant = <<"org">> /\ "org" \in O!ContextFields(d)
  /\ d.parent # None => "project" \in O!ContextFields(d)

\* A controller that registers has fields for what it scopes by.
LEMMA RegisteredIsFound ==
  ASSUME NEW c, O!IsCase(c), O!Registered(c.declared)
  PROVE  Found(c.declared)
<1> DEFINE d == c.declared
<1>1. d.owner # None => d.owner = <<"author">> \/ d.owner = <<"project", "lead">>
  BY DEF O!IsCase, O!Registered, O!Ends
<1>2. d.tenant # None => d.tenant = <<"org">> \/ d.tenant = <<"project", "org">>
  BY DEF O!IsCase, O!Registered, O!Ends
<1>3. d.parent # None => d.parent.field = "project"
  BY DEF O!Registered, O!ParentValid
<1> HIDE DEF d
<1>4. O!Direct(d.owner) => d.owner = <<"author">>
  BY <1>1 DEF O!Direct
<1>5. O!Direct(d.tenant) => d.tenant = <<"org">>
  BY <1>2 DEF O!Direct
<1>6. O!ContextFields(d) \subseteq {"author", "org", "project"}
  <2>1. ASSUME NEW p \in {d.owner, d.tenant}, O!Direct(p) PROVE p[1] \in {"author", "org"}
    BY <2>1, <1>4, <1>5
  <2> QED BY <2>1, <1>3 DEF O!ContextFields
<1>7. O!Direct(d.owner) => "author" \in O!ContextFields(d)
  <2> SUFFICES ASSUME O!Direct(d.owner) PROVE "author" \in O!ContextFields(d)
    OBVIOUS
  <2>1. d.owner[1] = "author" /\ d.owner \in {x \in {d.owner, d.tenant} : O!Direct(x)}
    BY <1>4
  <2> QED BY <2>1 DEF O!ContextFields
<1>8. O!Direct(d.tenant) => "org" \in O!ContextFields(d)
  <2> SUFFICES ASSUME O!Direct(d.tenant) PROVE "org" \in O!ContextFields(d)
    OBVIOUS
  <2>1. d.tenant[1] = "org" /\ d.tenant \in {x \in {d.owner, d.tenant} : O!Direct(x)}
    BY <1>5
  <2> QED BY <2>1 DEF O!ContextFields
<1>9. d.parent # None => "project" \in O!ContextFields(d)
  BY <1>3 DEF O!ContextFields
<1> QED BY <1>1, <1>2, <1>3, <1>4, <1>5, <1>6, <1>7, <1>8, <1>9 DEF Found, d

\* What is saved: the columns of the row, with the values that were sent under their names.
Takes(row, data, after) ==
  /\ DOMAIN after = DOMAIN row
  /\ \A n \in DOMAIN row : (\A m \in DOMAIN data : O!ModelField(m) # n) => after[n] = row[n]
  /\ \A m \in DOMAIN data : O!ModelField(m) \in DOMAIN row => after[O!ModelField(m)] = data[m]

\* A save sets the columns of its data, and only those, when no two names stand for one column.
LEMMA SaveTakes ==
  ASSUME NEW row, NEW data,
         \A m1, m2 \in DOMAIN data : O!ModelField(m1) = O!ModelField(m2) => m1 = m2
  PROVE  Takes(row, data, O!Save(row, data))
<1> DEFINE after == O!Save(row, data)
           Sent(n) == {m \in DOMAIN data : O!ModelField(m) = n}
<1>1. DOMAIN after = DOMAIN row
  BY DEF O!Save
<1>2. ASSUME NEW n \in DOMAIN row, \A m \in DOMAIN data : O!ModelField(m) # n PROVE after[n] = row[n]
  <2>1. Sent(n) = {}
    BY <1>2
  <2> QED BY <2>1 DEF O!Save
<1>3. ASSUME NEW m \in DOMAIN data, O!ModelField(m) \in DOMAIN row PROVE after[O!ModelField(m)] = data[m]
  <2> DEFINE n == O!ModelField(m)
  <2>1. Sent(n) = {m}
    BY <1>3
  <2>2. after[n] = data[CHOOSE x \in Sent(n) : TRUE]
    BY <1>3, <2>1 DEF O!Save
  <2>3. (CHOOSE x \in Sent(n) : TRUE) = m
    BY <2>1
  <2> QED BY <2>2, <2>3
<1> QED BY <1>1, <1>2, <1>3 DEF Takes

\* No two names stand for one column unless one is a column and the other its id.
LEMMA NamesOnce ==
  ASSUME NEW names, "pk" \notin names, ~({"project", "project_id"} \subseteq names), \A n \in names : O!ModelField(n) # None
  PROVE  /\ \A m1, m2 \in names : O!ModelField(m1) = O!ModelField(m2) => m1 = m2
         /\ \A n \in names : O!ModelField(n) \in Held
  BY DEF O!ModelField, O!Columns, Held

\* What the input schema lets through names no column twice and none that the context sets.
LEMMA PayloadFits ==
  ASSUME NEW c, O!IsCase(c), O!Registered(c.declared), ~c.declared.service, NEW hooked, ~hooked,
         O!CheckInputSchema(c.declared, hooked)
  PROVE  /\ \A m1, m2 \in DOMAIN c.payload : O!ModelField(m1) = O!ModelField(m2) => m1 = m2
         /\ \A n \in DOMAIN c.payload : O!ModelField(n) \in Held \ O!ContextFields(c.declared)
<1>1. DOMAIN c.payload \subseteq O!Inputs(c.declared)
  BY DEF O!IsCase
<1>2. \A n \in O!Inputs(c.declared) : O!ModelField(n) # None /\ O!ModelField(n) \notin O!ContextFields(c.declared)
  BY DEF O!CheckInputSchema
<1>3. "pk" \notin O!Inputs(c.declared)
  <2>1. CASE c.declared.auto = None
    <3>1. c.declared.inputs \subseteq STRING \ {"pk"}
      BY DEF O!IsCase
    <3> QED BY <2>1, <3>1 DEF O!Inputs
  <2>2. CASE c.declared.auto # None
    <3>1. O!ModelSchemas(c.declared.auto) # None
      BY <2>2 DEF O!Registered
    <3>2. "pk" \notin O!ModelSchemas(c.declared.auto).input
      BY <3>1 DEF O!ModelSchemas, O!Fixed
    <3> QED BY <2>2, <3>2 DEF O!Inputs
  <2> QED BY <2>1, <2>2
<1>4. ~({"project", "project_id"} \subseteq DOMAIN c.payload)
  BY DEF O!IsCase
<1> QED BY <1>1, <1>2, <1>3, <1>4, NamesOnce

\* What a lookup may filter by is what the caller may read.
LEMMA LookupsAreRead == ASSUME NEW c PROVE O!LookupsAreRead(c)
<1> SUFFICES ASSUME O!HasLookup(c.declared, c.path) PROVE O!LookupsAreRead(c)
  BY DEF O!LookupsAreRead
<1>1. PICK i \in DOMAIN c.path : c.path[i].var /\ (c.path[i].name = c.declared.lookupParam \/ (c.path[i].name = "pk" /\ c.path[i].conv = ""))
  BY DEF O!HasLookup
<1> DEFINE s == O!WithPathConverter(c.declared, c.path)[i]
<1>2. s.var /\ s.name = c.declared.lookupParam
  BY <1>1 DEF O!WithPathConverter, O!LookupSegment
<1> QED BY <1>2 DEF O!LookupsAreRead, O!InstanceParameter

\* A write that is accepted has set no field that its caller may not see (serialization/visibility.py:161-197).
LEMMA WritesAreAllowed == ASSUME NEW c PROVE O!WritesAreAllowed(c)
<1> SUFFICES ASSUME NEW op \in {"create", "update", "partial_update"}
             PROVE  /\ \A f \in c.input : f.name \in O!Write(c, op) => O!MayShow(f.rule, c.q, None)
                    /\ (op # "update" /\ \A f \in c.input : f.name \in c.given => O!MayShow(f.rule, c.q, None)) => O!Write(c, op) = c.given
  BY DEF O!WritesAreAllowed
<1> DEFINE forbidden == O!ForbiddenWrites(c.input, O!Sent(op, c.input, c.given), c.q)
<1>1. O!Write(c, op) = IF forbidden # {} THEN {} ELSE O!Sent(op, c.input, c.given)
  BY DEF O!Write, O!Sent, O!Written
<1>2. ASSUME NEW f \in c.input, f.name \in O!Write(c, op) PROVE O!MayShow(f.rule, c.q, None)
  <2>1. forbidden = {} /\ f.name \in O!Sent(op, c.input, c.given)
    BY <1>1, <1>2
  <2>2. CASE f.rule = None
    BY <2>2 DEF O!MayShow
  <2>3. CASE f.rule # None
    <3>1. f \in O!WriteMarkers(c.input)
      BY <2>3 DEF O!WriteMarkers
    <3> QED BY <2>1, <3>1 DEF O!ForbiddenWrites
  <2> QED BY <2>2, <2>3
<1>3. ASSUME op # "update", \A f \in c.input : f.name \in c.given => O!MayShow(f.rule, c.q, None) PROVE O!Write(c, op) = c.given
  <2>1. O!Sent(op, c.input, c.given) = c.given
    BY <1>3 DEF O!Sent
  <2>2. forbidden = {}
    BY <1>3, <2>1 DEF O!ForbiddenWrites, O!WriteMarkers
  <2> QED BY <1>1, <2>1, <2>2
<1> QED BY <1>2, <1>3

\* The context of a write: tenant, parent and owner as the request has them.
Given(d, q, data) ==
  /\ DOMAIN data = O!ContextFields(d) \cup {"updated_by"}
  /\ data["updated_by"] = q.user
  /\ d.parent # None => data["project"] = q.parent
  /\ O!Direct(d.owner) => data["author"] = q.user
  /\ O!Direct(d.tenant) => data["org"] = q.tenant

\* The context of a declared controller is that.
LEMMA ContextGives == ASSUME NEW d, Found(d), NEW q PROVE Given(d, q, O!Context(d, q))
<1> DEFINE data == O!Context(d, q)
<1>1. DOMAIN data = O!ContextFields(d) \cup {"updated_by"}
  BY DEF O!Context
<1>2. data["updated_by"] = q.user
  BY DEF O!Context, Found
<1>3. d.parent # None => data["project"] = q.parent
  BY DEF O!Context, Found
<1>4. O!Direct(d.owner) => data["author"] = q.user
  BY DEF O!Context, Found
<1>5. O!Direct(d.tenant) => data["org"] = q.tenant
  BY DEF O!Context, Found
<1> QED BY <1>1, <1>2, <1>3, <1>4, <1>5 DEF Given

\* Its names are columns.
LEMMA ContextNames ==
  ASSUME NEW d, Found(d), NEW q
  PROVE  \A m \in DOMAIN O!Context(d, q) : O!ModelField(m) = m /\ m \in {"author", "org", "project", "updated_by"}
  BY DEF O!Context, Found, O!ModelField, O!Columns

\* Who sees a row depends on its author, org and project only.
LEMMA SeenBy ==
  ASSUME NEW d, Found(d), NEW w, NEW q, NEW row, NEW other, other # None,
         row["author"] = other["author"], row["org"] = other["org"], row["project"] = other["project"]
  PROVE  /\ O!QuerysetWithDeleted(w, d, q, row) => O!QuerysetWithDeleted(w, d, q, other)
         /\ O!IsOwner(w, d, q, row) => O!IsOwner(w, d, q, other)
<1>1. d.owner # None => O!Value(w, row, d.owner) = O!Value(w, other, d.owner)
  BY DEF Found, O!Value
<1>2. d.tenant # None => O!Value(w, row, d.tenant) = O!Value(w, other, d.tenant)
  BY DEF Found, O!Value
<1>3. d.parent # None => row[d.parent.field] = other[d.parent.field]
  BY DEF Found
<1> QED BY <1>1, <1>2, <1>3 DEF O!QuerysetWithDeleted, O!IsOwner

\* An object is handed out when the guard lets through, the row is seen and the caller owns it.
LEMMA GuardIs ==
  ASSUME NEW d, NEW w, NEW q, NEW row, NEW seen
  PROVE  /\ O!Guard(w, d, q) \in {401, 403, 404, None}
         /\ O!GetObjectFrom(w, d, q, row, seen) \in {401, 403, 404, None}
         /\ O!GetObjectFrom(w, d, q, row, seen) = None <=> O!Guard(w, d, q) = None /\ seen /\ O!IsOwner(w, d, q, row)
<1>1. O!Guard(w, d, q) \in {401, 403, 404, None}
  BY DEF O!Guard
<1>2. None \notin {401, 403, 404}
  BY NoneIsNothing
<1> QED BY <1>1, <1>2 DEF O!GetObjectFrom

\* A write is answered with the row it left when that is in scope, and undone when it is not.
LEMMA RefreshIs ==
  ASSUME NEW d, NEW w, NEW q, NEW before, NEW after, NEW status, status \in {200, 201}
  PROVE  LET r == O!Refresh(w, d, q, before, after, status)
             fine == O!ScopedQueryset(w, d, q, after) /\ O!IsOwner(w, d, q, after)
         IN /\ fine => r.status = status /\ r.row = after
            /\ ~fine => r.status \in {403, 404} /\ r.row = before
  BY DEF O!Refresh, O!Answer

\* The two values of a soft deletion mark are values of the program.
LEMMA SoftValues ==
  ASSUME NEW c, O!IsCase(c), O!Registered(c.declared), c.declared.soft # None
  PROVE  O!SoftResolved(c.declared.soft) # None /\ O!SoftResolved(c.declared.soft).active \in O!Values
         /\ O!SoftResolved(c.declared.soft).deleted \in O!Values
<1> DEFINE soft == c.declared.soft
<1>1. O!SoftResolved(soft) # None
  BY DEF O!Registered
<1>2. soft.deleted \in STRING /\ soft.active \in STRING
  BY DEF O!IsCase
<1> QED BY <1>1, <1>2 DEF O!SoftResolved, O!Values

\* A save leaves a row.
LEMMA SavedIsRow ==
  ASSUME NEW row, row \in O!Rows, NEW data, \A m \in DOMAIN data : data[m] \in O!Values
  PROVE  O!Save(row, data) \in O!Rows
<1>1. DOMAIN row = O!Columns \ {"pk"} /\ \A n \in DOMAIN row : row[n] \in O!Values
  BY DEF O!Rows
<1> DEFINE value(n) == LET sent == {m \in DOMAIN data : O!ModelField(m) = n}
                       IN IF sent = {} THEN row[n] ELSE data[CHOOSE m \in sent : TRUE]
<1>2. ASSUME NEW n \in DOMAIN row PROVE value(n) \in O!Values
  <2> DEFINE sent == {m \in DOMAIN data : O!ModelField(m) = n}
  <2>1. CASE sent = {}
    BY <1>1, <2>1
  <2>2. CASE sent # {}
    <3>1. (CHOOSE m \in sent : TRUE) \in DOMAIN data
      BY <2>2
    <3> QED BY <2>2, <3>1
  <2> QED BY <2>1, <2>2
<1>3. O!Save(row, data) = [n \in DOMAIN row |-> value(n)]
  BY DEF O!Save
<1> HIDE DEF value
<1> QED BY <1>1, <1>2, <1>3 DEF O!Rows

\* A row is not None.
LEMMA RowsAreSome == ASSUME NEW row, row \in O!Rows PROVE row # None /\ DOMAIN row = Held
  BY NoneIsNothing DEF O!Rows, Held

\* A new row is a row.
LEMMA NewIsRow ==
  ASSUME NEW c, O!IsCase(c), O!Registered(c.declared), NEW q
  PROVE  O!New(c.declared, q) \in O!Rows
<1> DEFINE mark == IF c.declared.soft = None THEN "null" ELSE O!SoftResolved(c.declared.soft).active
<1>1. mark \in O!Values
  BY SoftValues DEF O!Values
<1> HIDE DEF mark
<1>2. O!New(c.declared, q) = [title |-> "", author |-> None, org |-> None, project |-> "p1", updated_by |-> None, mark |-> mark]
  BY DEF O!New, mark
<1>3. "" \in O!Values /\ None \in O!Values /\ "p1" \in O!Values
  BY DEF O!Values
<1> DEFINE row == O!New(c.declared, q)
<1>4. DOMAIN row = O!Columns \ {"pk"}
  BY <1>2 DEF O!Columns
<1>5. \A n \in O!Columns \ {"pk"} : row[n] \in O!Values
  <2>1. /\ row["title"] \in O!Values /\ row["author"] \in O!Values /\ row["org"] \in O!Values
        /\ row["project"] \in O!Values /\ row["updated_by"] \in O!Values /\ row["mark"] \in O!Values
    <3>1. row["title"] = "" /\ row["author"] = None /\ row["org"] = None /\ row["project"] = "p1" /\ row["updated_by"] = None /\ row["mark"] = mark
      <4>1. row = [title |-> "", author |-> None, org |-> None, project |-> "p1", updated_by |-> None, mark |-> mark]
        BY <1>2
      <4> HIDE DEF row
      <4> QED BY ONLY <4>1
    <3> QED BY <1>1, <1>3, <3>1
  <2> HIDE DEF row
  <2> QED BY <2>1 DEF O!Columns
<1>6. row = [n \in DOMAIN row |-> row[n]]
  BY <1>2
<1> QED BY <1>4, <1>5, <1>6 DEF O!Rows

\* What the context sets are values of the program.
LEMMA ContextIsKnown ==
  ASSUME NEW c, O!IsCase(c)
  PROVE  \A m \in DOMAIN O!Context(c.declared, c.request) : O!Context(c.declared, c.request)[m] \in O!Values
<1>1. c.request.user \in O!Values /\ c.request.tenant \in O!Values /\ c.request.parent \in O!Values
  BY DEF O!IsCase, O!Values
<1> QED BY <1>1 DEF O!Context

\* A row that carries the context of the request is the request's, and it sees it unless it is marked.
LEMMA CarriedIsOurs ==
  ASSUME NEW d, Found(d), NEW w, NEW q, O!Guard(w, d, q) = None, O!OwnerIsSet(d), O!TenantIsSet(d), ~d.hookCreate,
         NEW row, row # None,
         d.parent # None => row["project"] = q.parent, O!Direct(d.owner) => row["author"] = q.user,
         O!Direct(d.tenant) => row["org"] = q.tenant
  PROVE  O!QuerysetWithDeleted(w, d, q, row) /\ O!IsOwner(w, d, q, row)
<1>1. d.owner # None => O!Value(w, row, d.owner) = q.user
  BY DEF Found, O!Value, O!OwnerIsSet
<1>2. d.tenant # None => O!Value(w, row, d.tenant) = q.tenant
  <2>1. CASE O!Direct(d.tenant)
    BY <2>1 DEF Found, O!Value
  <2>2. CASE ~O!Direct(d.tenant) /\ d.tenant # None
    <3>1. O!ThroughParent(d)
      BY <2>2 DEF O!TenantIsSet
    <3>2. d.tenant = <<"project", "org">> /\ d.parent # None /\ d.parent.tenantField
      BY <2>2, <3>1 DEF Found, O!ThroughParent, O!Direct
    <3>3. w.projects[q.parent].org = q.tenant
      BY <3>2, NoneIsNothing DEF O!Guard
    <3>4. O!Value(w, row, d.tenant) = w.projects[row["project"]]["org"]
      BY <3>2 DEF O!Value
    <3> QED BY <3>2, <3>3, <3>4
  <2> QED BY <2>1, <2>2
<1>3. d.parent # None => row[d.parent.field] = q.parent
  BY DEF Found
<1> QED BY <1>1, <1>2, <1>3 DEF O!QuerysetWithDeleted, O!IsOwner

\* A creation that succeeds carries the context, is seen by its author and is not marked as deleted; one that fails leaves no row.
LEMMA CreatesInScope ==
  ASSUME NEW c, O!IsCase(c), O!Registered(c.declared), ~c.declared.service, "create" \in c.declared.operations, ~c.declared.hookCreate
  PROVE  LET d == c.declared
             q == c.request
             w == c.world
             made == O!Create(w, d, q, c.payload)
         IN IF made.status # 201 THEN made.row = None /\ (O!Guard(w, d, q) = None => O!Marked(d, O!Save(O!New(d, q), c.payload)))
            ELSE /\ \A n \in O!ContextFields(d) : made.row[n] = O!Context(d, q)[n]
                 /\ O!Honoured(c.payload, made.row) /\ made.row.updated_by = q.user
                 /\ O!Retrieve(w, d, q, made.row).status = 200 /\ made.row \in O!ListOf(w, d, q, {made.row, c.row})
<1> DEFINE d == c.declared
           q == c.request
           w == c.world
           made == O!Create(w, d, q, c.payload)
           filled == O!Save(O!New(d, q), c.payload)
           after == O!Save(filled, O!Context(d, q))
<1>1. Found(d) /\ O!CheckInputSchema(d, d.hookCreate) /\ O!OwnerIsSet(d) /\ O!TenantIsSet(d)
  BY RegisteredIsFound DEF O!Registered
<1>2. /\ \A m1, m2 \in DOMAIN c.payload : O!ModelField(m1) = O!ModelField(m2) => m1 = m2
      /\ \A n \in DOMAIN c.payload : O!ModelField(n) \in Held \ O!ContextFields(d)
  BY <1>1, PayloadFits
<1>3. filled \in O!Rows /\ after \in O!Rows
  <2>1. \A n \in DOMAIN c.payload : c.payload[n] \in O!Values
    BY DEF O!IsCase
  <2> QED BY <2>1, NewIsRow, ContextIsKnown, SavedIsRow
<1>4. DOMAIN filled = Held /\ after # None /\ DOMAIN O!New(d, q) = Held
  BY <1>3, NewIsRow, RowsAreSome
<1>5. Takes(O!New(d, q), c.payload, filled)
  BY <1>2, SaveTakes
<1>6. Takes(filled, O!Context(d, q), after)
  BY <1>1, ContextNames, SaveTakes
<1>7. Given(d, q, O!Context(d, q)) /\ \A m \in DOMAIN O!Context(d, q) : O!ModelField(m) = m /\ m \in {"author", "org", "project", "updated_by"}
  BY <1>1, ContextGives, ContextNames
<1>8. made = IF O!Guard(w, d, q) # None THEN O!Answer(O!Guard(w, d, q), None) ELSE O!Refresh(w, d, q, None, after, 201)
  BY DEF O!Create
<1> HIDE DEF d, q, w, made, filled, after
<1>9. \A n \in O!ContextFields(d) \cup {"updated_by"} : after[n] = O!Context(d, q)[n]
  BY <1>4, <1>6, <1>7 DEF Takes, Given, Held, O!Columns
<1>10. \A n \in Held : n \notin O!ContextFields(d) \cup {"updated_by"} => after[n] = filled[n]
  BY <1>4, <1>6, <1>7 DEF Takes, Given
<1>11. /\ after["updated_by"] = q.user /\ (d.parent # None => after["project"] = q.parent)
       /\ (O!Direct(d.owner) => after["author"] = q.user) /\ (O!Direct(d.tenant) => after["org"] = q.tenant)
  BY <1>1, <1>7, <1>9 DEF Given, Found
<1>12. O!Honoured(c.payload, after)
  BY <1>2, <1>4, <1>5, <1>10 DEF O!Honoured, Takes
<1>13. CASE O!Guard(w, d, q) # None
  <2>1. made.status # 201 /\ made.row = None
    BY <1>8, <1>13, GuardIs DEF O!Answer
  <2> QED BY <1>13, <2>1 DEF made, d, q, w
<1>14. CASE O!Guard(w, d, q) = None
  <2>1. O!QuerysetWithDeleted(w, d, q, after) /\ O!IsOwner(w, d, q, after)
    BY <1>1, <1>4, <1>11, <1>14, CarriedIsOurs DEF d
  <2>2. made = O!Refresh(w, d, q, None, after, 201)
    BY <1>8, <1>14
  <2>3. CASE O!Marked(d, after)
    <3>1. made.status # 201 /\ made.row = None
      BY <2>2, <2>3, RefreshIs DEF O!ScopedQueryset
    <3>2. after["mark"] = filled["mark"]
      BY <1>1, <1>10 DEF Held, O!Columns, Found
    <3>3. O!Marked(d, filled)
      BY <2>3, <3>2 DEF O!Marked
    <3> QED BY <3>1, <3>3 DEF made, d, q, w, filled
  <2>4. CASE ~O!Marked(d, after)
    <3>1. O!ScopedQueryset(w, d, q, after)
      BY <2>1, <2>4 DEF O!ScopedQueryset
    <3>2. made.status = 201 /\ made.row = after
      BY <2>1, <2>2, <3>1, RefreshIs
    <3>3. O!Retrieve(w, d, q, after).status = 200
      <4>1. O!GetObjectFrom(w, d, q, after, O!ScopedQueryset(w, d, q, after)) = None
        BY <1>14, <2>1, <3>1 DEF O!GetObjectFrom
      <4> QED BY <4>1 DEF O!Retrieve, O!Answer
    <3>4. after \in O!ListOf(w, d, q, {after, c.row})
      BY <1>14, <3>1 DEF O!ListOf
    <3> QED BY <1>9, <1>11, <1>12, <3>2, <3>3, <3>4 DEF made, d, q, w
  <2> QED BY <2>3, <2>4
<1> QED BY <1>13, <1>14

\* An update that succeeds leaves a row that was and stays in the scope of the caller; one that fails changes nothing.
LEMMA UpdatesInScope ==
  ASSUME NEW c, O!IsCase(c), O!Registered(c.declared), ~c.declared.service, "update" \in c.declared.operations, ~c.declared.hookUpdate
  PROVE  LET d == c.declared
             q == c.request
             w == c.world
             changed == O!Update(w, d, q, c.row, c.payload)
         IN IF changed.status # 200 THEN changed.row = c.row
            ELSE /\ O!Ours(w, d, q, c.row) /\ O!Ours(w, d, q, changed.row) /\ ~O!Marked(d, changed.row)
                 /\ O!Honoured(c.payload, changed.row) /\ changed.row.updated_by = q.user
                 /\ \A n \in O!ContextFields(d) : changed.row[n] = c.row[n]
<1> DEFINE d == c.declared
           q == c.request
           w == c.world
           changed == O!Update(w, d, q, c.row, c.payload)
           sent == O!Save(c.row, c.payload)
           stamp == [updated_by |-> q.user]
           after == O!Save(sent, stamp)
           seen == O!ScopedQueryset(w, d, q, c.row)
           refused == O!GetObjectFrom(w, d, q, c.row, seen)
<1>1. Found(d) /\ O!CheckInputSchema(d, d.hookUpdate)
  BY RegisteredIsFound DEF O!Registered
<1>2. /\ \A m1, m2 \in DOMAIN c.payload : O!ModelField(m1) = O!ModelField(m2) => m1 = m2
      /\ \A n \in DOMAIN c.payload : O!ModelField(n) \in Held \ O!ContextFields(d)
  BY <1>1, PayloadFits
<1>3. DOMAIN c.row = Held
  <2>1. c.row \in O!Rows
    BY DEF O!IsCase
  <2> QED BY <2>1, RowsAreSome
<1>4. Takes(c.row, c.payload, sent)
  BY <1>2, SaveTakes
<1>5. DOMAIN stamp = {"updated_by"} /\ stamp["updated_by"] = q.user /\ O!ModelField("updated_by") = "updated_by"
  BY DEF O!ModelField, O!Columns
<1>6. Takes(sent, stamp, after)
  BY <1>5, SaveTakes
<1>7. changed = IF refused # None THEN O!Answer(refused, c.row) ELSE O!Refresh(w, d, q, c.row, after, 200)
  BY DEF O!Update
<1> HIDE DEF d, q, w, changed, sent, stamp, after, refused, seen
<1>8. after["updated_by"] = q.user /\ \A n \in Held : n # "updated_by" => after[n] = sent[n]
  BY <1>3, <1>4, <1>5, <1>6 DEF Takes, Held, O!Columns
<1>9. \A n \in O!ContextFields(d) : after[n] = c.row[n]
  BY <1>1, <1>2, <1>3, <1>4, <1>8 DEF Takes, Held, O!Columns, Found
<1>10. O!Honoured(c.payload, after)
  BY <1>2, <1>3, <1>4, <1>8 DEF O!Honoured, Takes
<1>11. refused \in {401, 403, 404, None} /\ (refused = None <=> O!Guard(w, d, q) = None /\ seen /\ O!IsOwner(w, d, q, c.row))
  BY GuardIs DEF refused
<1>12. CASE refused # None
  <2>1. changed.status # 200 /\ changed.row = c.row
    BY <1>7, <1>11, <1>12 DEF O!Answer
  <2> QED BY <2>1 DEF changed, d, q, w
<1>13. CASE refused = None
  <2>1. O!Ours(w, d, q, c.row)
    BY <1>11, <1>13 DEF O!Ours, seen, O!ScopedQueryset
  <2>2. changed = O!Refresh(w, d, q, c.row, after, 200)
    BY <1>7, <1>13
  <2>3. CASE O!ScopedQueryset(w, d, q, after) /\ O!IsOwner(w, d, q, after)
    <3>1. changed.status = 200 /\ changed.row = after
      BY <2>2, <2>3, RefreshIs
    <3>2. O!Ours(w, d, q, after) /\ ~O!Marked(d, after)
      BY <2>3 DEF O!Ours, O!ScopedQueryset
    <3> QED BY <1>8, <1>9, <1>10, <2>1, <3>1, <3>2 DEF changed, d, q, w
  <2>4. CASE ~(O!ScopedQueryset(w, d, q, after) /\ O!IsOwner(w, d, q, after))
    <3>1. changed.status # 200 /\ changed.row = c.row
      BY <2>2, <2>4, RefreshIs
    <3> QED BY <3>1 DEF changed, d, q, w
  <2> QED BY <2>3, <2>4
<1> QED BY <1>12, <1>13

\* No write leaves the scope of who writes (crud/controllers.py:299-614).
LEMMA WritesStay == ASSUME NEW c, O!IsCase(c) PROVE O!WritesStayInScope(c)
<1> DEFINE d == c.declared
           q == c.request
           w == c.world
           made == O!Create(w, d, q, c.payload)
           changed == O!Update(w, d, q, c.row, c.payload)
<1> SUFFICES ASSUME O!Registered(d), ~d.service PROVE O!WritesStayInScope(c)
  BY DEF O!WritesStayInScope
<1>1. ("create" \in d.operations /\ ~d.hookCreate) =>
         IF made.status # 201 THEN made.row = None /\ (O!Guard(w, d, q) = None => O!Marked(d, O!Save(O!New(d, q), c.payload)))
         ELSE /\ \A n \in O!ContextFields(d) : made.row[n] = O!Context(d, q)[n]
              /\ O!Honoured(c.payload, made.row) /\ made.row.updated_by = q.user
              /\ O!Retrieve(w, d, q, made.row).status = 200 /\ made.row \in O!ListOf(w, d, q, {made.row, c.row})
  BY CreatesInScope
<1>2. ("update" \in d.operations /\ ~d.hookUpdate) =>
         IF changed.status # 200 THEN changed.row = c.row
         ELSE /\ O!Ours(w, d, q, c.row) /\ O!Ours(w, d, q, changed.row) /\ ~O!Marked(d, changed.row)
              /\ O!Honoured(c.payload, changed.row) /\ changed.row.updated_by = q.user
              /\ \A n \in O!ContextFields(d) : changed.row[n] = c.row[n]
  BY UpdatesInScope
<1> QED BY <1>1, <1>2 DEF O!WritesStayInScope

\* What is out of scope is out of reach of every operation.
LEMMA ClosedTo ==
  ASSUME NEW w, NEW d, NEW q, NEW row, NEW payload, ~O!ScopedQueryset(w, d, q, row)
  PROVE  {O!Retrieve(w, d, q, row).status, O!Update(w, d, q, row, payload).status, O!Destroy(w, d, q, row).status} \subseteq {401, 403, 404}
<1> DEFINE refused == O!GetObjectFrom(w, d, q, row, O!ScopedQueryset(w, d, q, row))
<1>1. refused \in {401, 403, 404} /\ refused # None
  <2>1. O!Guard(w, d, q) \in {401, 403, 404, None}
    BY GuardIs
  <2>2. None \notin {401, 403, 404}
    BY NoneIsNothing
  <2> QED BY <2>1, <2>2 DEF O!GetObjectFrom
<1>2. O!Retrieve(w, d, q, row).status = refused /\ O!Update(w, d, q, row, payload).status = refused /\ O!Destroy(w, d, q, row).status = refused
  BY <1>1 DEF O!Retrieve, O!Update, O!Destroy, O!Answer
<1> QED BY <1>1, <1>2

\* A row with another mark.
Remark(row, mark) == [row EXCEPT !.mark = mark]

\* Only the mark differs.
Marks(row, mark, other) ==
  /\ other \in O!Rows /\ other # None /\ other.mark = mark
  /\ \A n \in Held : n # "mark" => other[n] = row[n]
  /\ Remark(other, row.mark) = row

\* A mark is all that changes.
LEMMA MarkedRow ==
  ASSUME NEW row, row \in O!Rows, NEW mark, mark \in O!Values
  PROVE  Marks(row, mark, Remark(row, mark))
<1> DEFINE other == Remark(row, mark)
<1>1. "mark" \in O!Columns \ {"pk"}
  BY DEF O!Columns
<1>2. other \in O!Rows
  BY <1>1 DEF O!Rows, Remark
<1>3. other.mark = mark /\ \A n \in Held : n # "mark" => other[n] = row[n]
  BY <1>1 DEF O!Rows, Held, Remark
<1>4. Remark(other, row.mark) = row
  BY <1>1 DEF O!Rows, Remark
<1> QED BY <1>2, <1>3, <1>4, RowsAreSome DEF Marks

\* A row that is gone: out of scope, of lists and of every operation but the restoring one.
GoneFrom(w, d, c, q, gone, back) ==
  /\ ~O!ScopedQueryset(w, d, q, gone)
  /\ O!ListOf(w, d, q, {gone}) = {}
  /\ IF back.status # 200 THEN back.row = gone
     ELSE O!Ours(w, d, q, c.row) /\ [back.row EXCEPT !.mark = c.row.mark] = c.row /\ ~O!Marked(d, back.row)
  /\ q = c.request => back.status = 200

\* A row that was marked as deleted is gone, for every request.
LEMMA GoneFromAll ==
  ASSUME NEW c, O!IsCase(c), O!Registered(c.declared), c.declared.soft # None,
         O!SoftResolved(c.declared.soft).deleted # O!SoftResolved(c.declared.soft).active,
         O!Ours(c.world, c.declared, c.request, c.row), O!Guard(c.world, c.declared, c.request) = None,
         NEW gone, gone = [c.row EXCEPT !.mark = O!SoftResolved(c.declared.soft).deleted], NEW q
  PROVE  GoneFrom(c.world, c.declared, c, q, gone, O!Restore(c.world, c.declared, q, gone))
<1> DEFINE w == c.world
           d == c.declared
           back == O!Restore(w, d, q, gone)
           active == O!SoftResolved(d.soft).active
           deleted == O!SoftResolved(d.soft).deleted
           after == Remark(gone, active)
<1>1. Found(d) /\ c.row \in O!Rows /\ c.row # None /\ active \in O!Values /\ deleted \in O!Values /\ deleted # active
  <2>1. c.row \in O!Rows
    BY DEF O!IsCase
  <2> QED BY <2>1, RegisteredIsFound, RowsAreSome, SoftValues
<1>2. /\ gone \in O!Rows /\ gone # None /\ gone.mark # active /\ \A n \in Held : n # "mark" => gone[n] = c.row[n]
  <2>1. gone = Remark(c.row, deleted)
    BY DEF Remark
  <2> HIDE DEF deleted, active
  <2>2. Marks(c.row, deleted, Remark(c.row, deleted))
    BY <1>1, MarkedRow
  <2> QED BY ONLY <1>1, <2>1, <2>2 DEF Marks
<1>3. /\ after \in O!Rows /\ after # None /\ after.mark = active /\ \A n \in Held : n # "mark" => after[n] = gone[n]
  <2> HIDE DEF active
  <2>1. Marks(gone, active, Remark(gone, active))
    BY <1>1, <1>2, MarkedRow
  <2> QED BY ONLY <2>1 DEF Marks, after
<1>4. [after EXCEPT !.mark = c.row.mark] = c.row
  BY <1>1 DEF O!Rows, O!Columns, Remark
<1>5. O!Marked(d, gone) /\ ~O!Marked(d, after)
  BY <1>2, <1>3 DEF O!Marked
<1>6. back = IF O!Restored(w, d, q, gone) # None THEN O!Answer(O!Restored(w, d, q, gone), gone)
             ELSE O!Answer(O!Refresh(w, d, q, gone, after, 200).status, after)
  BY DEF O!Restore, Remark
<1> HIDE DEF w, d, back, active, deleted, after
<1>7. ~O!ScopedQueryset(w, d, q, gone) /\ O!ListOf(w, d, q, {gone}) = {}
  BY <1>5 DEF O!ScopedQueryset, O!ListOf
<1>8. {"author", "org", "project"} \subseteq Held /\ "mark" \notin {"author", "org", "project"}
  BY DEF Held, O!Columns
<1>9. /\ gone["author"] = c.row["author"] /\ gone["org"] = c.row["org"] /\ gone["project"] = c.row["project"]
      /\ after["author"] = gone["author"] /\ after["org"] = gone["org"] /\ after["project"] = gone["project"]
  BY <1>2, <1>3, <1>8
<1>10. O!Restored(w, d, q, gone) = None =>
          /\ back.status = 200 /\ back.row = after /\ O!Ours(w, d, q, c.row)
  <2> SUFFICES ASSUME O!Restored(w, d, q, gone) = None PROVE back.status = 200 /\ back.row = after /\ O!Ours(w, d, q, c.row)
    OBVIOUS
  <2>1. O!QuerysetWithDeleted(w, d, q, gone) /\ O!IsOwner(w, d, q, gone)
    BY NoneIsNothing DEF O!Restored, O!GetObjectFrom
  <2>2. O!QuerysetWithDeleted(w, d, q, after) /\ O!IsOwner(w, d, q, after)
    BY <1>1, <1>3, <1>9, <2>1, SeenBy
  <2>3. O!Ours(w, d, q, c.row)
    BY <1>1, <1>9, <2>1, SeenBy DEF O!Ours
  <2>4. O!ScopedQueryset(w, d, q, after)
    BY <1>5, <2>2 DEF O!ScopedQueryset
  <2>5. O!Refresh(w, d, q, gone, after, 200).status = 200
    BY <2>2, <2>4 DEF O!Refresh, O!Answer
  <2> QED BY <1>6, <2>3, <2>5 DEF O!Answer
<1>11. O!Restored(w, d, q, gone) # None => back.status \in {401, 403, 404} /\ back.row = gone
  <2> SUFFICES ASSUME O!Restored(w, d, q, gone) # None PROVE back.status \in {401, 403, 404} /\ back.row = gone
    OBVIOUS
  <2>1. O!Restored(w, d, q, gone) \in {401, 403, 404, None}
    <3>1. O!Guard(w, d, q) \in {401, 403, 404, None}
      BY GuardIs
    <3> QED BY <3>1 DEF O!Restored, O!GetObjectFrom
  <2> QED BY <1>6, <2>1 DEF O!Answer
<1>12. q = c.request => O!Restored(w, d, q, gone) = None
  <2> SUFFICES ASSUME q = c.request PROVE O!Restored(w, d, q, gone) = None
    OBVIOUS
  <2>1. O!Guard(w, d, q) = None /\ O!QuerysetWithDeleted(w, d, q, c.row) /\ O!IsOwner(w, d, q, c.row)
    BY DEF O!Ours, w, d
  <2>2. O!QuerysetWithDeleted(w, d, q, gone) /\ O!IsOwner(w, d, q, gone)
    BY <1>1, <1>2, <1>9, <2>1, SeenBy
  <2> QED BY <2>1, <2>2 DEF O!Restored, O!GetObjectFrom
<1>13. GoneFrom(w, d, c, q, gone, back)
  <2>1. CASE O!Restored(w, d, q, gone) = None
    BY <1>4, <1>5, <1>7, <1>10, <2>1 DEF GoneFrom
  <2>2. CASE O!Restored(w, d, q, gone) # None
    BY <1>7, <1>11, <1>12, <2>2 DEF GoneFrom
  <2> QED BY <2>1, <2>2
<1> QED BY <1>13 DEF w, d, back

\* What is deleted is gone from every read, and a restore brings it back as it was (crud/soft_delete.py).
LEMMA DeletedIsGone == ASSUME NEW c, O!IsCase(c) PROVE O!DeletedIsGone(c)
<1> DEFINE w == c.world
           d == c.declared
           gone == O!Destroy(w, d, c.request, c.row)
           seen == O!ScopedQueryset(w, d, c.request, c.row)
           refused == O!GetObjectFrom(w, d, c.request, c.row, seen)
<1> SUFFICES ASSUME O!Registered(d), gone.status = 204, d.soft # None => O!SoftResolved(d.soft).deleted # O!SoftResolved(d.soft).active
             PROVE  /\ O!Ours(w, d, c.request, c.row)
                    /\ \A q \in c.others :
                         /\ {O!Retrieve(w, d, q, gone.row).status, O!Update(w, d, q, gone.row, c.payload).status, O!Destroy(w, d, q, gone.row).status} \subseteq {401, 403, 404}
                         /\ d.soft # None =>
                              LET back == O!Restore(w, d, q, gone.row)
                              IN /\ O!ListOf(w, d, q, {gone.row}) = {}
                                 /\ IF back.status # 200 THEN back.row = gone.row
                                    ELSE O!Ours(w, d, q, c.row) /\ [back.row EXCEPT !.mark = c.row.mark] = c.row /\ ~O!Marked(d, back.row)
                         /\ (d.soft # None /\ q = c.request) => O!Restore(w, d, q, gone.row).status = 200
  BY DEF O!DeletedIsGone
<1>1. gone = IF refused # None THEN O!Answer(refused, c.row)
             ELSE O!Answer(204, IF d.soft = None THEN None ELSE [c.row EXCEPT !.mark = O!SoftResolved(d.soft).deleted])
  BY DEF O!Destroy
<1> HIDE DEF w, d, gone, seen, refused
<1>2. refused \in {401, 403, 404, None} /\ (refused = None <=> O!Guard(w, d, c.request) = None /\ seen /\ O!IsOwner(w, d, c.request, c.row))
  BY GuardIs DEF refused
<1>3. refused = None
  BY <1>1, <1>2 DEF O!Answer
<1>4. gone.row = IF d.soft = None THEN None ELSE [c.row EXCEPT !.mark = O!SoftResolved(d.soft).deleted]
  BY <1>1, <1>3 DEF O!Answer
<1>5. O!Guard(w, d, c.request) = None /\ O!Ours(w, d, c.request, c.row)
  BY <1>2, <1>3 DEF O!Ours, O!ScopedQueryset, seen
<1> SUFFICES ASSUME NEW q \in c.others
             PROVE  /\ {O!Retrieve(w, d, q, gone.row).status, O!Update(w, d, q, gone.row, c.payload).status, O!Destroy(w, d, q, gone.row).status} \subseteq {401, 403, 404}
                    /\ d.soft # None =>
                         LET back == O!Restore(w, d, q, gone.row)
                         IN /\ O!ListOf(w, d, q, {gone.row}) = {}
                            /\ IF back.status # 200 THEN back.row = gone.row
                               ELSE O!Ours(w, d, q, c.row) /\ [back.row EXCEPT !.mark = c.row.mark] = c.row /\ ~O!Marked(d, back.row)
                    /\ (d.soft # None /\ q = c.request) => O!Restore(w, d, q, gone.row).status = 200
  BY <1>5
<1>6. CASE d.soft = None
  <2>1. ~O!ScopedQueryset(w, d, q, gone.row)
    BY <1>4, <1>6 DEF O!ScopedQueryset, O!QuerysetWithDeleted
  <2> QED BY <1>6, <2>1, ClosedTo
<1>7. CASE d.soft # None
  <2>1. gone.row = [c.row EXCEPT !.mark = O!SoftResolved(d.soft).deleted]
    BY <1>4, <1>7
  <2> DEFINE back == O!Restore(w, d, q, gone.row)
  <2>2. /\ ~O!ScopedQueryset(w, d, q, gone.row)
        /\ O!ListOf(w, d, q, {gone.row}) = {}
        /\ IF back.status # 200 THEN back.row = gone.row
           ELSE O!Ours(w, d, q, c.row) /\ [back.row EXCEPT !.mark = c.row.mark] = c.row /\ ~O!Marked(d, back.row)
        /\ q = c.request => back.status = 200
    <3>1. GoneFrom(w, d, c, q, gone.row, back)
      BY <1>5, <1>7, <2>1, GoneFromAll DEF w, d
    <3> QED BY <3>1 DEF GoneFrom
  <2> QED BY <2>2, ClosedTo
<1> QED BY <1>6, <1>7

(***************************** User and tenant *****************************)
\* The user of a request, and the tenant that the first look finds.
TheUser(c) == IF P!IsUser(c.q.auth) THEN c.q.auth ELSE c.q.session

\* The context needs a user, and there is none.
Refuses(c) == c.resolver = None /\ c.context /\ c.invocation = "resolver" /\ TheUser(c) = None

\* The tenant of the context.
OfContext(c) == IF c.tenantOf = None THEN None ELSE c.tenantOf[TheUser(c)]

\* The tenant that the first question finds.
TheTenant(c, how) ==
  IF c.resolver # None THEN c.resolver.tenants[1]
  ELSE IF P!FromContext(c, how) /\ c.invocation = "bare" THEN None
  ELSE IF P!FromContext(c, how) THEN OfContext(c)
  ELSE c.requestTenant

\* What is said of a request, whenever it is asked.
Said(c, how, what) ==
  IF what = "user" THEN TheUser(c) ELSE IF Refuses(c) THEN "401" ELSE P!RequiredTenant(TheTenant(c, how))

\* What a request remembers.
IsState(s) == DOMAIN s = {"tenant", "loaded", "runs"} /\ s.loaded \in BOOLEAN /\ s.runs \in Nat

\* A question in the event loop finds the user.
Known(c, s) == s.loaded \/ P!IsUser(c.q.auth)

\* The kinds of code that ask.
Hows == {"sync", "thread", "await", "loop"}
\* A look leaves the tenant and the runs as they are, and forgets no user.
Keeps(s, t) == IsState(t) /\ t.tenant = s.tenant /\ t.runs = s.runs /\ (s.loaded => t.loaded)

\* What a request is made of.
LEMMA RequestIs ==
  ASSUME NEW c, P!IsAsked(c)
  PROVE  /\ DOMAIN c.q = {"method", "auth", "session", "lazy", "inLoop", "loaded", "tenant"}
         /\ TheUser(c) \in DOMAIN KnownUsers \cup {None}
         /\ TheUser(c) # "401" /\ None \notin P!Codes
<1>1. c.q \in P!Requests
  BY DEF P!IsAsked
<1>2. DOMAIN c.q = {"method", "auth", "session", "lazy", "inLoop", "loaded", "tenant"} /\ c.q.session \in DOMAIN KnownUsers \cup {None}
  BY <1>1 DEF P!Requests
<1>3. TheUser(c) \in DOMAIN KnownUsers \cup {None}
  BY <1>2 DEF TheUser, P!IsUser
<1>4. None \notin P!Codes
  BY NoneIsNothing DEF Literals
<1>5. "401" \in P!Codes /\ DOMAIN KnownUsers \cap P!Codes = {}
  BY UsersAreNamed DEF P!Codes
<1> QED BY <1>2, <1>3, <1>4, <1>5

\* The user is the same however it is asked for.
LEMMA UserAnswers ==
  ASSUME NEW c, P!IsAsked(c), NEW s, IsState(s), NEW how, how \in Hows, how = "loop" => Known(c, s)
  PROVE  /\ P!User(c, s, how).answer = TheUser(c)
         /\ Keeps(s, P!User(c, s, how).state)
         /\ how # "loop" => Known(c, P!User(c, s, how).state)
<1> DEFINE q == [c.q EXCEPT !.inLoop = P!InLoop(how), !.loaded = s.loaded]
           u == IF how = "await" THEN P!ARequestUser(q) ELSE P!RequestUser(q)
           looked == ~P!IsUser(q.auth) /\ ~P!InLoop(how)
           state == [s EXCEPT !.loaded = @ \/ looked]
<1>1. q.auth = c.q.auth /\ q.session = c.q.session /\ q.lazy = c.q.lazy /\ q.inLoop = P!InLoop(how) /\ q.loaded = s.loaded
  BY RequestIs
<1>2. P!User(c, s, how) = P!Answered(state, u)
  BY DEF P!User
<1> HIDE DEF q
<1>3. u = TheUser(c)
  BY <1>1 DEF P!ARequestUser, P!RequestUser, TheUser, P!InLoop, Known, Hows
<1>4. Keeps(s, state)
  BY DEF Keeps, IsState
<1>5. how # "loop" => Known(c, state)
  BY <1>1 DEF Known, IsState, P!InLoop
<1> QED BY <1>2, <1>3, <1>4, <1>5 DEF P!Answered

\* The context of a container answers with the tenant of the user, or refuses.
LEMMA ContextAnswers ==
  ASSUME NEW c, P!IsAsked(c), NEW s, IsState(s), NEW how, how \in Hows, how = "loop" => Known(c, s)
  PROVE  /\ P!RequestContext(c, s, how).answer = IF TheUser(c) = None THEN "401" ELSE OfContext(c)
         /\ Keeps(s, P!RequestContext(c, s, how).state)
<1> DEFINE asked == P!User(c, s, how)
<1>1. asked.answer = TheUser(c) /\ Keeps(s, asked.state)
  BY UserAnswers
<1>2. P!CurrentUser(c, s, how) = IF asked.answer = None THEN P!Answered(asked.state, "401") ELSE asked
  BY DEF P!CurrentUser
<1> HIDE DEF asked
<1>3. CASE TheUser(c) = None
  BY <1>1, <1>2, <1>3 DEF P!RequestContext, P!Answered
<1>4. CASE TheUser(c) # None
  <2>1. P!CurrentUser(c, s, how) = asked /\ asked.answer # "401"
    BY <1>1, <1>2, <1>4, RequestIs
  <2> QED BY <1>1, <1>4, <2>1 DEF P!RequestContext, P!Answered, OfContext
<1> QED BY <1>3, <1>4

\* What a way of asking allows: synchronous operations ask from threads, asynchronous ones as they like.
Way(c, way, how) ==
  \/ way = "sync" /\ how = "sync" /\ (c.resolver # None => ~c.resolver.async)
  \/ way = "await" /\ how \in {"await", "loop", "thread"}

\* What may be remembered: nothing yet, or the tenant of the request, found once.
Fits(c, s, way) ==
  /\ IsState(s) /\ (way = "await" => Known(c, s))
  /\ s.tenant = "unset" => s.runs = 0 /\ (way = "await" => Refuses(c))
  /\ s.tenant # "unset" => s.tenant = TheTenant(c, way) /\ ~Refuses(c)

\* The first question finds the tenant, and runs a resolver once.
LEMMA SourceAnswers ==
  ASSUME NEW c, P!IsAsked(c), NEW s, IsState(s), s.runs = 0, NEW how, how \in Hows,
         how \in {"await", "loop"} => Known(c, s), c.resolver # None /\ c.resolver.async => how = "await"
  PROVE  LET found == P!Source(c, s, how)
         IN /\ found.answer = IF Refuses(c) THEN IF P!FromContext(c, how) THEN "401" ELSE c.requestTenant ELSE TheTenant(c, how)
            /\ IsState(found.state) /\ found.state.tenant = s.tenant /\ (s.loaded => found.state.loaded)
            /\ Refuses(c) => found.state.runs = 0
<1> DEFINE found == P!Source(c, s, how)
           inner == IF how # "await" THEN how ELSE IF c.asyncContainer THEN "await" ELSE "loop"
<1>1. CASE c.resolver # None
  <2>1. found = P!Resolved(c, s)
    BY <1>1 DEF P!Source
  <2>2. P!Resolved(c, s) = P!Answered([s EXCEPT !.runs = @ + 1], c.resolver.tenants[1])
    BY DEF P!Resolved, IsState
  <2>3. IsState([s EXCEPT !.runs = @ + 1]) /\ [s EXCEPT !.runs = @ + 1].tenant = s.tenant /\ [s EXCEPT !.runs = @ + 1].loaded = s.loaded
    BY DEF IsState
  <2> DEFINE state == [s EXCEPT !.runs = @ + 1]
  <2>4. found.answer = c.resolver.tenants[1] /\ found.state = state
    BY <2>1, <2>2 DEF P!Answered
  <2>5. ~Refuses(c) /\ TheTenant(c, how) = c.resolver.tenants[1]
    BY <1>1 DEF Refuses, TheTenant
  <2> HIDE DEF found, state
  <2>6. IsState(state) /\ state.tenant = s.tenant /\ state.loaded = s.loaded
    BY <2>3 DEF state
  <2> QED BY <2>4, <2>5, <2>6 DEF found
<1>2. CASE c.resolver = None /\ P!FromContext(c, how) /\ c.invocation = "bare"
  <2>1. found = P!Answered(s, None)
    BY <1>2 DEF P!Source
  <2> QED BY <1>2, <2>1 DEF P!Answered, Refuses, TheTenant
<1>3. CASE c.resolver = None /\ P!FromContext(c, how) /\ c.invocation # "bare"
  <2>1. found = P!RequestContext(c, s, inner)
    BY <1>3 DEF P!Source
  <2>2. inner \in Hows /\ (inner = "loop" => Known(c, s))
    BY DEF Hows
  <2>3. c.context /\ c.invocation = "resolver"
    BY <1>3 DEF P!FromContext, P!IsAsked
  <2> HIDE DEF inner, found
  <2>4. found.answer = (IF TheUser(c) = None THEN "401" ELSE OfContext(c)) /\ Keeps(s, found.state)
    BY <2>1, <2>2, ContextAnswers
  <2>5. Refuses(c) <=> TheUser(c) = None
    BY <1>3, <2>3 DEF Refuses
  <2>6. TheTenant(c, how) = OfContext(c)
    BY <1>3 DEF TheTenant
  <2> QED BY <1>3, <2>4, <2>5, <2>6 DEF Keeps, found
<1>4. CASE c.resolver = None /\ ~P!FromContext(c, how)
  <2>1. found = P!Answered(s, c.requestTenant)
    BY <1>4 DEF P!Source
  <2> QED BY <1>4, <2>1 DEF P!Answered, TheTenant
<1> QED BY <1>1, <1>2, <1>3, <1>4

\* A tenant is no code.
LEMMA TenantIs ==
  ASSUME NEW c, P!IsAsked(c), ~Refuses(c), NEW how
  PROVE  TheTenant(c, how) \notin {"unset", "401", "TypeError", "403"}
<1>0. \A x \in P!Tenants : x \notin {"unset", "401", "TypeError", "403"}
  BY DEF P!Tenants, P!Codes
<1>1. None \in P!Tenants
  BY RequestIs DEF P!Tenants
<1>2. CASE c.resolver # None
  <2>1. c.resolver.tenants \in Seq(P!Tenants) /\ c.resolver.tenants # <<>>
    BY <1>2 DEF P!IsAsked
  <2>2. c.resolver.tenants[1] \in P!Tenants
    BY <2>1
  <2> QED BY <1>0, <1>2, <2>2 DEF TheTenant
<1>3. CASE c.resolver = None /\ P!FromContext(c, how) /\ c.invocation = "bare"
  BY <1>0, <1>1, <1>3 DEF TheTenant
<1>4. CASE c.resolver = None /\ P!FromContext(c, how) /\ c.invocation # "bare"
  <2>1. c.context /\ c.invocation = "resolver"
    BY <1>4 DEF P!FromContext, P!IsAsked
  <2>2. TheUser(c) \in DOMAIN KnownUsers
    BY <1>4, <2>1, RequestIs DEF Refuses
  <2>3. OfContext(c) \in P!Tenants
    BY <1>1, <2>2 DEF OfContext, P!IsAsked
  <2> QED BY <1>0, <1>4, <2>3 DEF TheTenant
<1>5. CASE c.resolver = None /\ ~P!FromContext(c, how)
  <2>1. c.requestTenant \in P!Tenants
    BY DEF P!IsAsked
  <2> QED BY <1>0, <1>5, <2>1 DEF TheTenant
<1> QED BY <1>2, <1>3, <1>4, <1>5

\* Every question for the tenant is answered alike and leaves what fits.
LEMMA CurrentTenantAnswers ==
  ASSUME NEW c, P!IsAsked(c), NEW way, NEW how, Way(c, way, how), NEW s, Fits(c, s, way)
  PROVE  /\ P!CurrentTenant(c, s, how).answer = IF Refuses(c) THEN "401" ELSE P!RequiredTenant(TheTenant(c, way))
         /\ Fits(c, P!CurrentTenant(c, s, how).state, way)
<1> DEFINE found == P!Source(c, s, how)
           asked == P!CurrentTenant(c, s, how)
<1>1. CASE s.tenant # "unset"
  <2>1. asked = P!Answered(s, P!RequiredTenant(s.tenant))
    BY <1>1 DEF P!CurrentTenant
  <2> QED BY <1>1, <2>1 DEF P!Answered, Fits
<1>2. CASE s.tenant = "unset"
  <2>1. IsState(s) /\ s.runs = 0 /\ (way = "await" => Refuses(c) /\ Known(c, s)) /\ how \in Hows
    BY <1>2 DEF Fits, Way, Hows
  <2>2. c.resolver # None /\ c.resolver.async => how = "await"
    BY <2>1 DEF Way, Refuses
  <2>3. how \in {"await", "loop"} => Known(c, s)
    BY <2>1 DEF Way
  <2>4. /\ found.answer = IF Refuses(c) THEN IF P!FromContext(c, how) THEN "401" ELSE c.requestTenant ELSE TheTenant(c, how)
        /\ IsState(found.state) /\ found.state.tenant = s.tenant /\ (s.loaded => found.state.loaded)
        /\ Refuses(c) => found.state.runs = 0
    BY <2>1, <2>2, <2>3, SourceAnswers
  <2>5. asked = IF P!Raises(found.answer) THEN found
                ELSE P!Answered(P!Remember(found.state, found.answer), P!RequiredTenant(found.answer))
    BY <1>2 DEF P!CurrentTenant
  <2> HIDE DEF found
  <2>6. CASE Refuses(c)
    <3>1. P!FromContext(c, how)
      BY <2>6 DEF Refuses, P!FromContext
    <3>2. found.answer = "401" /\ asked = found
      BY <2>4, <2>5, <2>6, <3>1 DEF P!Raises
    <3>3. Known(c, s) => Known(c, found.state)
      BY <2>4 DEF Known
    <3> QED BY <1>2, <2>1, <2>4, <2>6, <3>2, <3>3 DEF Fits
  <2>7. CASE ~Refuses(c)
    <3>1. way = "sync" /\ how = "sync"
      BY <2>1, <2>7 DEF Way
    <3>2. found.answer = TheTenant(c, way) /\ ~P!Raises(found.answer) /\ found.answer # "unset"
      BY <2>4, <2>7, <3>1, TenantIs DEF P!Raises
    <3> DEFINE state == P!Remember(found.state, found.answer)
    <3>3. asked = P!Answered(state, P!RequiredTenant(found.answer))
      BY <2>5, <3>2
    <3>4. IsState(state) /\ state.tenant = found.answer
      BY <2>4 DEF P!Remember, IsState
    <3>5. Fits(c, state, way)
      BY <2>7, <3>1, <3>2, <3>4 DEF Fits
    <3> HIDE DEF state, asked
    <3>6. asked.answer = P!RequiredTenant(found.answer) /\ asked.state = state
      BY <3>3 DEF P!Answered
    <3> QED BY <2>7, <3>2, <3>5, <3>6 DEF asked
  <2> QED BY <2>6, <2>7
<1> QED BY <1>1, <1>2

\* Every question is answered alike and leaves what fits.
LEMMA AskAnswers ==
  ASSUME NEW c, P!IsAsked(c), NEW way, NEW ask, ask.what \in {"user", "tenant"}, Way(c, way, ask.how), NEW s, Fits(c, s, way)
  PROVE  P!Ask(c, s, ask).answer = Said(c, way, ask.what) /\ Fits(c, P!Ask(c, s, ask).state, way)
<1>1. CASE ask.what = "user"
  <2>1. P!Ask(c, s, ask) = P!User(c, s, ask.how)
    BY <1>1 DEF P!Ask
  <2>2. IsState(s) /\ ask.how \in Hows /\ (ask.how = "loop" => Known(c, s))
    BY DEF Fits, Way, Hows
  <2> DEFINE t == P!User(c, s, ask.how).state
  <2>3. P!User(c, s, ask.how).answer = TheUser(c) /\ Keeps(s, t)
    BY <2>2, UserAnswers
  <2> HIDE DEF t
  <2>4. Fits(c, t, way)
    BY <2>3 DEF Keeps, Fits, Known
  <2> QED BY <1>1, <2>1, <2>3, <2>4 DEF Said, t
<1>2. CASE ask.what = "tenant"
  <2>1. P!Ask(c, s, ask) = P!CurrentTenant(c, s, ask.how)
    BY <1>2 DEF P!Ask
  <2> QED BY <1>2, <2>1, CurrentTenantAnswers DEF Said
<1> QED BY <1>1, <1>2

\* A fresh request fits.
LEMMA StartFits == ASSUME NEW c, P!IsAsked(c) PROVE Fits(c, P!State, "sync")
  BY DEF Fits, IsState, P!State

\* A prepared asynchronous request fits.
LEMMA PreparedFits == ASSUME NEW c, P!IsAsked(c) PROVE Fits(c, P!Prepare(c, P!State), "await")
<1> DEFINE s == P!User(c, P!State, "await").state
           found == P!Source(c, s, "await")
           asked == P!CurrentTenant(c, s, "await")
<1>1. Keeps(P!State, s) /\ Known(c, s)
  <2>1. IsState(P!State)
    BY DEF IsState, P!State
  <2> QED BY <2>1, UserAnswers DEF Hows
<1>2. P!Prepare(c, P!State) = asked.state
  BY DEF P!Prepare
<1> HIDE DEF s
<1>3. IsState(s) /\ s.tenant = "unset" /\ s.runs = 0
  BY <1>1 DEF Keeps, P!State
<1>4. /\ found.answer = IF Refuses(c) THEN IF P!FromContext(c, "await") THEN "401" ELSE c.requestTenant ELSE TheTenant(c, "await")
      /\ IsState(found.state) /\ found.state.tenant = s.tenant /\ (s.loaded => found.state.loaded)
      /\ Refuses(c) => found.state.runs = 0
  BY <1>1, <1>3, SourceAnswers DEF Hows
<1>5. asked = IF P!Raises(found.answer) THEN found
              ELSE P!Answered(P!Remember(found.state, found.answer), P!RequiredTenant(found.answer))
  BY <1>3 DEF P!CurrentTenant
<1> HIDE DEF found, asked
<1>6. Known(c, found.state)
  BY <1>1, <1>4 DEF Known
<1>7. CASE Refuses(c)
  <2>1. P!FromContext(c, "await")
    BY <1>7 DEF Refuses, P!FromContext
  <2>2. asked = found
    BY <1>4, <1>5, <1>7, <2>1 DEF P!Raises
  <2> QED BY <1>2, <1>3, <1>4, <1>6, <1>7, <2>2 DEF Fits
<1>8. CASE ~Refuses(c)
  <2>1. found.answer = TheTenant(c, "await") /\ ~P!Raises(found.answer) /\ found.answer # "unset"
    BY <1>4, <1>8, TenantIs DEF P!Raises
  <2> DEFINE state == P!Remember(found.state, found.answer)
  <2>2. IsState(state) /\ state.tenant = found.answer /\ state.loaded = found.state.loaded
    BY <1>4 DEF P!Remember, IsState
  <2>3. asked.state = state
    BY <1>5, <2>1 DEF P!Answered
  <2> HIDE DEF state
  <2> QED BY <1>2, <1>6, <1>8, <2>1, <2>2, <2>3 DEF Fits, Known
<1> QED BY <1>7, <1>8

\* The recursive definition of what is remembered is the function it says.
LEMMA AfterRuns ==
  ASSUME NEW c, NEW first, NEW asks, Len(asks) \in Nat
  PROVE  P!After(c, first, asks) = [n \in 0 .. Len(asks) |-> IF n = 0 THEN first ELSE P!Ask(c, P!After(c, first, asks)[n - 1], asks[n]).state]
<1> DEFINE Rec(f, k) == f = [n \in 0 .. k |-> IF n = 0 THEN first ELSE P!Ask(c, f[n - 1], asks[n]).state]
           T == {k \in Nat : \E f : Rec(f, k)}
<1>1. 0 \in T
  <2>1. Rec([n \in 0 .. 0 |-> first], 0)
    OBVIOUS
  <2> QED BY <2>1
<1>2. ASSUME NEW k \in Nat, k \in T PROVE k + 1 \in T
  <2>1. PICK f : Rec(f, k)
    BY <1>2
  <2> DEFINE g == [n \in 0 .. k + 1 |-> IF n = k + 1 THEN P!Ask(c, f[k], asks[k + 1]).state ELSE f[n]]
  <2>2. \A n \in 0 .. k : g[n] = f[n]
    OBVIOUS
  <2>3. ASSUME NEW n \in 0 .. k + 1 PROVE g[n] = IF n = 0 THEN first ELSE P!Ask(c, g[n - 1], asks[n]).state
    <3>1. CASE n = k + 1
      <4>1. k \in 0 .. k /\ n # 0 /\ n - 1 = k
        BY <3>1
      <4>2. g[k] = f[k]
        BY <4>1, <2>2
      <4>3. g[n] = P!Ask(c, f[k], asks[n]).state
        BY <3>1
      <4> QED BY <4>1, <4>2, <4>3
    <3>2. CASE n # k + 1
      <4>1. n \in 0 .. k /\ (n # 0 => n - 1 \in 0 .. k)
        BY <3>2
      <4>2. g[n] = f[n] /\ (n # 0 => g[n - 1] = f[n - 1])
        BY <4>1, <2>2
      <4>3. f[n] = IF n = 0 THEN first ELSE P!Ask(c, f[n - 1], asks[n]).state
        BY <4>1, <2>1
      <4> QED BY <4>2, <4>3
    <3> QED BY <3>1, <3>2
  <2>4. Rec(g, k + 1)
    BY <2>3
  <2> HIDE DEF g
  <2> QED BY <2>4
<1> HIDE DEF T
<1>4. Len(asks) \in T
  BY <1>1, <1>2, Ind
<1>5. \E f : Rec(f, Len(asks))
  BY <1>4 DEF T
<1> QED BY <1>5 DEF P!After

\* Every answer is what is said of the request.
LEMMA AnswersSaid ==
  ASSUME NEW c, P!IsAsked(c), NEW way, NEW first, Fits(c, first, way), NEW asks, Len(asks) \in Nat, DOMAIN asks = 1 .. Len(asks),
         \A n \in DOMAIN asks : asks[n].what \in {"user", "tenant"} /\ Way(c, way, asks[n].how)
  PROVE  /\ DOMAIN P!Answers(c, first, asks) = DOMAIN asks
         /\ \A n \in DOMAIN asks : P!Answers(c, first, asks)[n] = Said(c, way, asks[n].what)
<1> DEFINE after == P!After(c, first, asks)
           T == {k \in Nat : k <= Len(asks) => Fits(c, after[k], way)}
<1>1. after[0] = first /\ \A n \in 1 .. Len(asks) : after[n] = P!Ask(c, after[n - 1], asks[n]).state
  BY AfterRuns
<1> HIDE DEF after
<1>2. 0 \in T
  BY <1>1
<1>3. ASSUME NEW k \in Nat, k \in T PROVE k + 1 \in T
  <2> SUFFICES ASSUME k + 1 <= Len(asks) PROVE Fits(c, after[k + 1], way)
    OBVIOUS
  <2>1. Fits(c, after[k], way)
    BY <1>3
  <2>2. k + 1 \in DOMAIN asks /\ after[k + 1] = P!Ask(c, after[k], asks[k + 1]).state
    BY <1>1
  <2> QED BY <2>1, <2>2, AskAnswers
<1> HIDE DEF T
<1>4. Nat \subseteq T
  BY <1>2, <1>3, Ind
<1>5. ASSUME NEW n \in DOMAIN asks PROVE P!Answers(c, first, asks)[n] = Said(c, way, asks[n].what)
  <2>1. n - 1 \in Nat /\ n - 1 <= Len(asks) /\ n - 1 \in T
    BY <1>4
  <2>2. Fits(c, after[n - 1], way)
    BY <2>1 DEF T
  <2>3. P!Ask(c, after[n - 1], asks[n]).answer = Said(c, way, asks[n].what)
    BY <2>2, AskAnswers
  <2> QED BY <2>3 DEF P!Answers, after
<1> QED BY <1>5 DEF P!Answers

\* A request has one user and one tenant (security/tenancy.py, auth.py).
LEMMA OneIdentity == ASSUME NEW c, P!IsAsked(c) PROVE P!OneIdentity(c)
<1> DEFINE asynchronous == c.resolver # None /\ c.resolver.async
           alone == c.context /\ c.resolver = None /\ c.invocation \in {"none", "bare"}
           synced == [n \in DOMAIN c.asks |-> [c.asks[n] EXCEPT !.how = "sync"]]
<1>1. /\ Len(c.asks) \in Nat /\ DOMAIN c.asks = 1 .. Len(c.asks)
      /\ \A n \in DOMAIN c.asks : c.asks[n] \in [what : {"user", "tenant"}, how : {"await", "loop", "thread"}]
  <2> DEFINE Looks == [what : {"user", "tenant"}, how : {"await", "loop", "thread"}]
  <2>1. c.asks \in Seq(Looks)
    BY DEF P!IsAsked
  <2>2. ASSUME NEW U, c.asks \in Seq(U)
        PROVE  Len(c.asks) \in Nat /\ DOMAIN c.asks = 1 .. Len(c.asks) /\ \A n \in DOMAIN c.asks : c.asks[n] \in U
    BY <2>2
  <2> HIDE DEF Looks
  <2>3. Len(c.asks) \in Nat /\ DOMAIN c.asks = 1 .. Len(c.asks) /\ \A n \in DOMAIN c.asks : c.asks[n] \in Looks
    BY <2>1, <2>2
  <2> QED BY <2>3 DEF Looks
<1>2. /\ DOMAIN P!AsyncAnswers(c) = DOMAIN c.asks
      /\ \A n \in DOMAIN c.asks : P!AsyncAnswers(c)[n] = Said(c, "await", c.asks[n].what)
  <2>1. \A n \in DOMAIN c.asks : c.asks[n].what \in {"user", "tenant"} /\ Way(c, "await", c.asks[n].how)
    BY <1>1 DEF Way
  <2> QED BY <1>1, <2>1, PreparedFits, AnswersSaid DEF P!AsyncAnswers
<1>3. ASSUME ~asynchronous
      PROVE  /\ DOMAIN P!SyncAnswers(c) = DOMAIN c.asks
             /\ \A n \in DOMAIN c.asks : P!SyncAnswers(c)[n] = Said(c, "sync", c.asks[n].what)
  <2>1. Len(synced) = Len(c.asks) /\ DOMAIN synced = DOMAIN c.asks
    BY <1>1
  <2>2. \A n \in DOMAIN c.asks : synced[n].what = c.asks[n].what /\ synced[n].how = "sync"
    BY <1>1
  <2>3. P!SyncAnswers(c) = P!Answers(c, P!State, synced)
    BY DEF P!SyncAnswers
  <2> HIDE DEF synced
  <2>4. \A n \in DOMAIN synced : synced[n].what \in {"user", "tenant"} /\ Way(c, "sync", synced[n].how)
    BY <1>1, <1>3, <2>1, <2>2 DEF Way
  <2>5. /\ DOMAIN P!Answers(c, P!State, synced) = DOMAIN synced
        /\ \A n \in DOMAIN synced : P!Answers(c, P!State, synced)[n] = Said(c, "sync", synced[n].what)
    BY <1>1, <2>1, <2>4, StartFits, AnswersSaid
  <2> QED BY <2>1, <2>2, <2>3, <2>5
<1>4. ASSUME ~asynchronous, ~alone, NEW what PROVE Said(c, "sync", what) = Said(c, "await", what)
  <2>1. c.resolver = None => (P!FromContext(c, "sync") <=> P!FromContext(c, "await")) /\ ~(P!FromContext(c, "await") /\ c.invocation = "bare")
    BY <1>4 DEF P!FromContext, P!IsAsked
  <2>2. TheTenant(c, "sync") = TheTenant(c, "await")
    BY <2>1 DEF TheTenant
  <2> QED BY <2>2 DEF Said
<1>5. ASSUME ~asynchronous, ~alone PROVE P!SyncAnswers(c) = P!AsyncAnswers(c)
  <2>1. P!SyncAnswers(c) = [n \in DOMAIN P!SyncAnswers(c) |-> P!SyncAnswers(c)[n]] /\ P!AsyncAnswers(c) = [n \in DOMAIN P!AsyncAnswers(c) |-> P!AsyncAnswers(c)[n]]
    BY DEF P!SyncAnswers, P!AsyncAnswers, P!Answers
  <2> QED BY <1>2, <1>3, <1>4, <1>5, <2>1
<1>6. \A n \in DOMAIN c.asks : (c.asks[n].what = "tenant" /\ c.resolver # None) => P!AsyncAnswers(c)[n] = P!RequiredTenant(c.resolver.tenants[1])
  BY <1>2 DEF Said, TheTenant, Refuses
<1> QED BY <1>2, <1>3, <1>5, <1>6 DEF P!OneIdentity

(******************************* Permissions *******************************)
\* What the proofs need of a tree: its nodes are numbered, and operands come before their node.
Grown(t) ==
  /\ Len(t) \in Nat /\ Len(t) > 0 /\ DOMAIN t = 1 .. Len(t)
  /\ \A n \in DOMAIN t : /\ t[n].op \in {"leaf", "all", "any", "not"} /\ t[n].of \in Seq(Nat)
                         /\ \A i \in DOMAIN t[n].of : t[n].of[i] \in 1 .. n - 1
                         /\ t[n].op = "not" => 1 \in DOMAIN t[n].of

\* A tree of permissions is such.
LEMMA TreesGrow == ASSUME NEW t, P!IsTree(t) PROVE Grown(t)
<1>1. t \in Seq(P!Nodes) /\ t # <<>>
  BY DEF P!IsTree
<1>2. Len(t) \in Nat /\ Len(t) > 0 /\ DOMAIN t = 1 .. Len(t) /\ \A n \in DOMAIN t : t[n] \in P!Nodes
  BY <1>1
<1>3. ASSUME NEW node \in P!Nodes PROVE node.op \in {"leaf", "all", "any", "not"} /\ node.of \in Seq(Nat) /\ (Len(node.of) = 1 => 1 \in DOMAIN node.of)
  <2>1. node.op \in {"leaf", "all", "any", "not"} /\ node.of \in Seq(Nat)
    BY DEF P!Nodes
  <2> QED BY <2>1
<1>4. \A n \in DOMAIN t : (\A i \in DOMAIN t[n].of : t[n].of[i] \in 1 .. n - 1) /\ (t[n].op = "not" => Len(t[n].of) = 1)
  BY DEF P!IsTree
<1> QED BY <1>2, <1>3, <1>4 DEF Grown

\* A leaf is such.
LEMMA LeavesGrow == ASSUME NEW name PROVE Grown(P!AsLeaf(name))
<1>1. Len(P!AsLeaf(name)) = 1 /\ DOMAIN P!AsLeaf(name) = {1}
  BY DEF P!AsLeaf
<1>2. P!AsLeaf(name)[1].op = "leaf" /\ P!AsLeaf(name)[1].of = <<>>
  BY DEF P!AsLeaf
<1>3. 1 .. 1 = {1} /\ <<>> \in Seq(Nat) /\ DOMAIN <<>> = {}
  OBVIOUS
<1> DEFINE t == P!AsLeaf(name)
<1> HIDE DEF t
<1>4. \A n \in DOMAIN t : n = 1 /\ t[n].op = "leaf" /\ t[n].of = <<>>
  BY <1>1, <1>2 DEF t
<1>5. Len(t) = 1 /\ DOMAIN t = 1 .. 1
  BY <1>1, <1>3 DEF t
<1>6. Grown(t)
  <2>1. Len(t) \in Nat /\ Len(t) > 0 /\ DOMAIN t = 1 .. Len(t)
    BY <1>5
  <2>2. \A n \in DOMAIN t : /\ t[n].op \in {"leaf", "all", "any", "not"} /\ t[n].of \in Seq(Nat)
                           /\ DOMAIN t[n].of = {} /\ t[n].op # "not"
    BY <1>3, <1>4
  <2> QED BY <2>1, <2>2 DEF Grown
<1> QED BY <1>6 DEF t

\* Induction over a tree: all its nodes, when each is in a set that has its operands.
LEMMA TreeInduction ==
  ASSUME NEW t, Grown(t), NEW T, \A n \in DOMAIN t : (\A i \in DOMAIN t[n].of : t[n].of[i] \in T) => n \in T
  PROVE  DOMAIN t \subseteq T
<1> SUFFICES ASSUME DOMAIN t \ T # {} PROVE FALSE
  OBVIOUS
<1>1. DOMAIN t \ T \subseteq Nat
  BY DEF Grown
<1>2. PICK x \in DOMAIN t \ T : \A y \in DOMAIN t \ T : ~(y < x)
  BY <1>1, Least
<1>3. \A i \in DOMAIN t[x].of : t[x].of[i] \in DOMAIN t /\ t[x].of[i] < x
  BY <1>2 DEF Grown
<1> QED BY <1>2, <1>3

\* What node n makes of f, what is known of the nodes before it.
Reached(t, says, f, n) == P!Decide(t[n], says[n], [i \in DOMAIN t[n].of |-> f[t[n].of[i]]])

\* The recursive definition of the verdicts of a tree is the function it says.
LEMMA VerdictsRun ==
  ASSUME NEW t, Grown(t), NEW says
  PROVE  P!Verdicts(t, says) = [n \in DOMAIN t |-> Reached(t, says, P!Verdicts(t, says), n)]
<1> DEFINE Rec(f, k) == f = [n \in 1 .. k |-> Reached(t, says, f, n)]
           T == {k \in Nat : k <= Len(t) => \E f : Rec(f, k)}
<1>0. Len(t) \in Nat /\ DOMAIN t = 1 .. Len(t)
  BY DEF Grown
<1>1. 0 \in T
  <2>1. 1 .. 0 = {}
    OBVIOUS
  <2>2. Rec([n \in {} |-> 0], 0)
    BY <2>1
  <2> QED BY <2>2
<1>2. ASSUME NEW k \in Nat, k \in T PROVE k + 1 \in T
  <2> SUFFICES ASSUME k + 1 <= Len(t) PROVE \E f : Rec(f, k + 1)
    OBVIOUS
  <2>1. PICK f : Rec(f, k)
    BY <1>2, <1>0
  <2> DEFINE g == [n \in 1 .. k + 1 |-> IF n = k + 1 THEN Reached(t, says, f, n) ELSE f[n]]
  <2>2. \A n \in 1 .. k : g[n] = f[n]
    OBVIOUS
  <2>3. \A n \in 1 .. k + 1 : \A i \in DOMAIN t[n].of : t[n].of[i] \in 1 .. k
    BY <1>0 DEF Grown
  <2>4. \A n \in 1 .. k + 1 : Reached(t, says, g, n) = Reached(t, says, f, n)
    <3> HIDE DEF g
    <3>1. \A n \in 1 .. k + 1 : [i \in DOMAIN t[n].of |-> g[t[n].of[i]]] = [i \in DOMAIN t[n].of |-> f[t[n].of[i]]]
      BY <2>2, <2>3
    <3> QED BY <3>1 DEF Reached
  <2>5. \A n \in 1 .. k : f[n] = Reached(t, says, f, n)
    BY <2>1
  <2>7. \A n \in 1 .. k + 1 : g[n] = Reached(t, says, g, n)
    <3> TAKE n \in 1 .. k + 1
    <3>1. CASE n = k + 1
      BY <3>1, <2>4
    <3>2. CASE n # k + 1
      BY <3>2, <2>2, <2>4, <2>5
    <3> QED BY <3>1, <3>2
  <2>8. g = [n \in 1 .. k + 1 |-> Reached(t, says, g, n)]
    BY <2>7
  <2> HIDE DEF g
  <2> QED BY <2>8
<1> HIDE DEF T
<1>4. Len(t) \in T
  BY <1>0, <1>1, <1>2, Ind
<1> HIDE DEF Rec
<1>5. \E f : Rec(f, Len(t))
  BY <1>0, <1>4 DEF T
<1>6. P!Verdicts(t, says) = CHOOSE f : f = [n \in DOMAIN t |-> Reached(t, says, f, n)]
  BY DEF P!Verdicts, Reached
<1>7. \E f : f = [n \in DOMAIN t |-> Reached(t, says, f, n)]
  BY <1>0, <1>5 DEF Rec
<1> QED BY ONLY <1>6, <1>7

\* What node n makes of f, what is known of the nodes before it.
Seen(t, holds, f, n) == P!Shows(t[n], holds[n], [i \in DOMAIN t[n].of |-> f[t[n].of[i]]])

\* The same of what a tree shows.
LEMMA TruthsRun ==
  ASSUME NEW t, Grown(t), NEW holds
  PROVE  P!Truths(t, holds) = [n \in DOMAIN t |-> Seen(t, holds, P!Truths(t, holds), n)]
<1> DEFINE Rec(f, k) == f = [n \in 1 .. k |-> Seen(t, holds, f, n)]
           T == {k \in Nat : k <= Len(t) => \E f : Rec(f, k)}
<1>0. Len(t) \in Nat /\ DOMAIN t = 1 .. Len(t)
  BY DEF Grown
<1>1. 0 \in T
  <2>1. 1 .. 0 = {}
    OBVIOUS
  <2>2. Rec([n \in {} |-> 0], 0)
    BY <2>1
  <2> QED BY <2>2
<1>2. ASSUME NEW k \in Nat, k \in T PROVE k + 1 \in T
  <2> SUFFICES ASSUME k + 1 <= Len(t) PROVE \E f : Rec(f, k + 1)
    OBVIOUS
  <2>1. PICK f : Rec(f, k)
    BY <1>2, <1>0
  <2> DEFINE g == [n \in 1 .. k + 1 |-> IF n = k + 1 THEN Seen(t, holds, f, n) ELSE f[n]]
  <2>2. \A n \in 1 .. k : g[n] = f[n]
    OBVIOUS
  <2>3. \A n \in 1 .. k + 1 : \A i \in DOMAIN t[n].of : t[n].of[i] \in 1 .. k
    BY <1>0 DEF Grown
  <2>4. \A n \in 1 .. k + 1 : Seen(t, holds, g, n) = Seen(t, holds, f, n)
    <3> HIDE DEF g
    <3>1. \A n \in 1 .. k + 1 : [i \in DOMAIN t[n].of |-> g[t[n].of[i]]] = [i \in DOMAIN t[n].of |-> f[t[n].of[i]]]
      BY <2>2, <2>3
    <3> QED BY <3>1 DEF Seen
  <2>5. \A n \in 1 .. k : f[n] = Seen(t, holds, f, n)
    BY <2>1
  <2>7. \A n \in 1 .. k + 1 : g[n] = Seen(t, holds, g, n)
    <3> TAKE n \in 1 .. k + 1
    <3>1. CASE n = k + 1
      BY <3>1, <2>4
    <3>2. CASE n # k + 1
      BY <3>2, <2>2, <2>4, <2>5
    <3> QED BY <3>1, <3>2
  <2>8. g = [n \in 1 .. k + 1 |-> Seen(t, holds, g, n)]
    BY <2>7
  <2> HIDE DEF g
  <2> QED BY <2>8
<1> HIDE DEF T
<1>4. Len(t) \in T
  BY <1>0, <1>1, <1>2, Ind
<1> HIDE DEF Rec
<1>5. \E f : Rec(f, Len(t))
  BY <1>0, <1>4 DEF T
<1>6. P!Truths(t, holds) = CHOOSE f : f = [n \in DOMAIN t |-> Seen(t, holds, f, n)]
  BY DEF P!Truths, Seen
<1>7. \E f : f = [n \in DOMAIN t |-> Seen(t, holds, f, n)]
  BY <1>0, <1>5 DEF Rec
<1> QED BY ONLY <1>6, <1>7

\* The first of some places is one of them.
LEMMA FirstIs == ASSUME NEW T, T \subseteq Nat, T # {} PROVE P!First(T) \in T
<1>1. PICK i \in T : \A j \in T : ~(j < i)
  BY Least
<1>2. \A j \in T : i <= j
  BY <1>1
<1> QED BY <1>2 DEF P!First

\* So is the last.
LEMMA LastIs == ASSUME NEW k \in Nat, NEW T, T \subseteq 1 .. k, T # {} PROVE P!Last(T) \in T
<1>1. \E i \in T : \A j \in T : j <= i
  BY Greatest
<1> QED BY <1>1 DEF P!Last

\* What a verdict of tree t says of the request, of what is shown, and of its object.
Fitting(v, shown, t, q, u, obj) ==
  /\ v.allowed \in {"yes", "no", "404", "later"}
  /\ obj = None => v.allowed # "404"
  /\ obj # None => v.allowed # "later"
  /\ v.allowed = "yes" => shown
  /\ v.allowed = "no" => ~shown
  /\ v.by \in {"IsAuthenticated", "IsAuthenticatedOrReadOnly"} => q.auth = None /\ u = None
  /\ v.allowed = "404" => P!Mentions(t, "ObjectPermissions")

\* The names of who refused are told apart.
LEMMA NoneIsNoVerdict == /\ None \notin {"IsAuthenticated", "IsAuthenticatedOrReadOnly"}
                         /\ "Not" \notin {"IsAuthenticated", "IsAuthenticatedOrReadOnly"}
                         /\ "AnyOf" \notin {"IsAuthenticated", "IsAuthenticatedOrReadOnly"}
<1>1. None \notin {"IsAuthenticated", "IsAuthenticatedOrReadOnly"}
  BY NoneIsNothing DEF Literals
<1> QED BY <1>1

\* A node fits when its operands do.
LEMMA DecideFits ==
  ASSUME NEW t, Grown(t), NEW n \in DOMAIN t, NEW q, NEW u, NEW obj, NEW own, NEW holds, NEW f, NEW g,
         t[n].op = "leaf" => Fitting(P!Decided(own, IF own = "no" THEN t[n].leaf ELSE None), holds, t, q, u, obj),
         \A i \in DOMAIN t[n].of : Fitting(f[i], g[i], t, q, u, obj)
  PROVE  Fitting(P!Decide(t[n], own, f), P!Shows(t[n], holds, g), t, q, u, obj)
<1>0. /\ t[n].op \in {"leaf", "all", "any", "not"}
      /\ t[n].op = "not" => 1 \in DOMAIN t[n].of
      /\ Len(t[n].of) \in Nat /\ DOMAIN t[n].of = 1 .. Len(t[n].of)
  BY DEF Grown
<1>1. CASE t[n].op = "leaf"
  BY <1>1 DEF P!Decide, P!Shows
<1>2. CASE t[n].op = "not"
  <2>1. P!Decide(t[n], own, f) = P!Negated(f[1]) /\ P!Shows(t[n], holds, g) = ~g[1] /\ Fitting(f[1], g[1], t, q, u, obj)
    BY <1>0, <1>2 DEF P!Decide, P!Shows
  <2>2. Fitting(P!Negated(f[1]), ~g[1], t, q, u, obj)
    <3>1. CASE f[1].allowed = "yes"
      BY <2>1, <3>1, NoneIsNoVerdict DEF P!Negated, P!Decided, Fitting
    <3>2. CASE f[1].allowed = "no"
      BY <2>1, <3>2, NoneIsNoVerdict DEF P!Negated, P!Decided, Fitting
    <3>3. CASE f[1].allowed \notin {"yes", "no"}
      BY <2>1, <3>3 DEF P!Negated, Fitting
    <3> QED BY <3>1, <3>2, <3>3
  <2> QED BY <2>1, <2>2
<1>3. CASE t[n].op \in {"all", "any"}
  <2> DEFINE stops == {i \in DOMAIN t[n].of : \/ f[i].allowed = "404"
                                              \/ t[n].op = "all" /\ f[i].allowed = "no"
                                              \/ t[n].op = "any" /\ f[i].allowed = "yes"}
             refusers == {i \in DOMAIN t[n].of : f[i].by # None}
             verdict == IF stops # {} THEN f[P!First(stops)]
                        ELSE IF \E i \in DOMAIN t[n].of : f[i].allowed = "later" THEN P!Decided("later", None)
                        ELSE IF t[n].op = "all" THEN P!Decided("yes", None)
                        ELSE P!Decided("no", IF refusers = {} THEN "AnyOf" ELSE f[P!Last(refusers)].by)
  <2>1. P!Decide(t[n], own, f) = verdict
    BY <1>3 DEF P!Decide
  <2>2. P!Shows(t[n], holds, g) = IF t[n].op = "all" THEN \A i \in DOMAIN t[n].of : g[i] ELSE \E i \in DOMAIN t[n].of : g[i]
    BY <1>3 DEF P!Shows
  <2>3. CASE stops # {}
    <3>1. P!First(stops) \in stops
      BY <1>0, <2>3, FirstIs
    <3>2. verdict = f[P!First(stops)]
      BY <2>3
    <3> DEFINE i == P!First(stops)
    <3>3. i \in DOMAIN t[n].of /\ (f[i].allowed = "404" \/ (t[n].op = "all" /\ f[i].allowed = "no") \/ (t[n].op = "any" /\ f[i].allowed = "yes"))
      BY <3>1
    <3> HIDE DEF i, verdict
    <3>4. Fitting(f[i], P!Shows(t[n], holds, g), t, q, u, obj)
      BY <1>3, <2>2, <3>3 DEF Fitting
    <3> QED BY <2>1, <3>2, <3>4 DEF i
  <2>4. CASE stops = {} /\ \E i \in DOMAIN t[n].of : f[i].allowed = "later"
    <3>1. verdict = P!Decided("later", None)
      BY <2>4
    <3> HIDE DEF verdict
    <3> QED BY <2>1, <2>4, <3>1, NoneIsNoVerdict DEF P!Decided, Fitting
  <2>5. CASE stops = {} /\ (\A i \in DOMAIN t[n].of : f[i].allowed # "later") /\ t[n].op = "all"
    <3>1. verdict = P!Decided("yes", None)
      BY <2>5
    <3>2. \A i \in DOMAIN t[n].of : g[i]
      BY <2>5 DEF Fitting
    <3> HIDE DEF verdict
    <3>3. P!Shows(t[n], holds, g)
      BY <2>2, <2>5, <3>2
    <3> QED BY <2>1, <3>1, <3>3, NoneIsNoVerdict, <2>5 DEF P!Decided, Fitting
  <2>6. CASE stops = {} /\ (\A i \in DOMAIN t[n].of : f[i].allowed # "later") /\ t[n].op = "any"
    <3> DEFINE by == IF refusers = {} THEN "AnyOf" ELSE f[P!Last(refusers)].by
    <3>1. verdict = P!Decided("no", by)
      BY <2>6
    <3>2. \A i \in DOMAIN t[n].of : ~g[i]
      BY <2>6 DEF Fitting
    <3>3. by = "AnyOf" \/ \E i \in DOMAIN t[n].of : by = f[i].by
      <4>1. CASE refusers # {}
        <5>1. P!Last(refusers) \in refusers
          BY <1>0, <4>1, LastIs
        <5> QED BY <4>1, <5>1
      <4> QED BY <4>1
    <3> HIDE DEF verdict, by
    <3>4. ~P!Shows(t[n], holds, g)
      BY <2>2, <2>6, <3>2
    <3>5. by \in {"IsAuthenticated", "IsAuthenticatedOrReadOnly"} => q.auth = None /\ u = None
      BY <3>3, NoneIsNoVerdict DEF Fitting
    <3> QED BY <2>1, <3>1, <3>4, <3>5, <2>6 DEF P!Decided, Fitting
  <2> QED BY <1>3, <2>3, <2>4, <2>5, <2>6
<1> QED BY <1>0, <1>1, <1>2, <1>3

\* A leaf fits, with an object and without.
LEMMA LeafFits ==
  ASSUME NEW t, NEW n \in DOMAIN t, NEW ctl, NEW q, NEW u, NEW obj, obj # None, NEW asked \in {None, obj}
  PROVE  LET own == P!Leaf(ctl, t[n].leaf, q, u, asked)
         IN Fitting(P!Decided(own, IF own = "no" THEN t[n].leaf ELSE None), P!LeafShows(ctl, t[n].leaf, q, u, obj), t, q, u, asked)
<1> DEFINE leaf == t[n].leaf
           own == P!Leaf(ctl, leaf, q, u, asked)
           shown == P!LeafShows(ctl, leaf, q, u, obj)
           by == IF own = "no" THEN leaf ELSE None
<1>1. leaf \in {"IsAuthenticated", "IsAuthenticatedOrReadOnly"} =>
         /\ (P!HasPermission(leaf, q, u) \/ (q.auth = None /\ u = None))
         /\ ~P!ChecksObjects(leaf) /\ P!HasObjectPermission(ctl, leaf, q, u, obj) = "yes"
  BY DEF P!HasPermission, P!ChecksObjects, P!HasObjectPermission
<1>2. /\ P!HasObjectPermission(ctl, leaf, q, u, obj) \in {"yes", "no", "404"}
      /\ P!HasObjectPermission(ctl, leaf, q, u, obj) = "404" => leaf = "ObjectPermissions"
      /\ P!HasObjectPermission(ctl, leaf, q, u, obj) # "yes" => P!ChecksObjects(leaf)
  <2>1. CASE leaf = "IsOwner"
    BY <2>1 DEF P!HasObjectPermission, P!ChecksObjects
  <2>2. CASE leaf = "HasRule"
    BY <2>2 DEF P!HasObjectPermission, P!ChecksObjects
  <2>3. CASE leaf = "ObjectPermissions"
    BY <2>3 DEF P!HasObjectPermission, P!ChecksObjects
  <2>4. CASE leaf \notin {"IsOwner", "HasRule", "ObjectPermissions"}
    BY <2>4 DEF P!HasObjectPermission
  <2> QED BY <2>1, <2>2, <2>3, <2>4
<1>3. P!Leaf(ctl, leaf, q, u, obj) = IF ~P!HasPermission(leaf, q, u) THEN "no" ELSE P!HasObjectPermission(ctl, leaf, q, u, obj)
  BY DEF P!Leaf
<1>4. P!Leaf(ctl, leaf, q, u, None) = IF ~P!HasPermission(leaf, q, u) THEN "no" ELSE IF P!ChecksObjects(leaf) THEN "later" ELSE "yes"
  BY DEF P!Leaf
<1>5. shown <=> P!HasPermission(leaf, q, u) /\ (P!ChecksObjects(leaf) => P!Leaf(ctl, leaf, q, u, obj) = "yes")
  BY DEF P!LeafShows
<1>6. by \in {"IsAuthenticated", "IsAuthenticatedOrReadOnly"} => own = "no" /\ leaf \in {"IsAuthenticated", "IsAuthenticatedOrReadOnly"}
  BY NoneIsNoVerdict
<1>7. leaf = "ObjectPermissions" => P!Mentions(t, "ObjectPermissions")
  BY DEF P!Mentions
<1>8. P!Decided(own, by).allowed = own /\ P!Decided(own, by).by = by
  BY DEF P!Decided
<1> DEFINE verdict == P!Decided(own, by)
<1> SUFFICES Fitting(verdict, shown, t, q, u, asked)
  OBVIOUS
<1>9. CASE asked = None
  <2>1. own = IF ~P!HasPermission(leaf, q, u) THEN "no" ELSE IF P!ChecksObjects(leaf) THEN "later" ELSE "yes"
    BY <1>4, <1>9
  <2> HIDE DEF leaf, shown, by, own, verdict
  <2>2. verdict.allowed = own /\ verdict.by = by
    BY <1>8 DEF verdict
  <2> QED BY <1>1, <1>5, <1>6, <1>9, <2>1, <2>2 DEF Fitting
<1>10. CASE asked = obj
  <2>1. own = IF ~P!HasPermission(leaf, q, u) THEN "no" ELSE P!HasObjectPermission(ctl, leaf, q, u, obj)
    BY <1>3, <1>10
  <2>2. P!Leaf(ctl, leaf, q, u, obj) = own
    BY <1>10
  <2> HIDE DEF leaf, shown, by, own, verdict
  <2>3. verdict.allowed = own /\ verdict.by = by
    BY <1>8 DEF verdict
  <2> QED BY <1>1, <1>2, <1>5, <1>6, <1>7, <1>10, <2>1, <2>2, <2>3 DEF Fitting
<1> QED BY <1>9, <1>10

\* So the verdict of a tree, in either pass, fits what the tree shows with the object.
LEMMA EvaluateFits ==
  ASSUME NEW t, Grown(t), NEW ctl, NEW q, NEW u, NEW obj, obj # None, NEW asked \in {None, obj}
  PROVE  Fitting(P!Evaluate(ctl, t, q, u, asked), P!Visible(ctl, t, q, u, obj), t, q, u, asked)
<1> DEFINE says == [n \in DOMAIN t |-> P!Leaf(ctl, t[n].leaf, q, u, asked)]
           holds == [n \in DOMAIN t |-> P!LeafShows(ctl, t[n].leaf, q, u, obj)]
           v == P!Verdicts(t, says)
           s == P!Truths(t, holds)
           T == {n \in DOMAIN t : Fitting(v[n], s[n], t, q, u, asked)}
<1>1. ASSUME NEW n \in DOMAIN t, \A i \in DOMAIN t[n].of : t[n].of[i] \in T
      PROVE  n \in T
  <2> DEFINE f == [i \in DOMAIN t[n].of |-> v[t[n].of[i]]]
             g == [i \in DOMAIN t[n].of |-> s[t[n].of[i]]]
  <2>1. \A i \in DOMAIN t[n].of : Fitting(f[i], g[i], t, q, u, asked)
    BY <1>1
  <2>2. t[n].op = "leaf" => Fitting(P!Decided(says[n], IF says[n] = "no" THEN t[n].leaf ELSE None), holds[n], t, q, u, asked)
    BY LeafFits
  <2>3. v[n] = P!Decide(t[n], says[n], f)
    <3> HIDE DEF says
    <3>1. v = [k \in DOMAIN t |-> Reached(t, says, v, k)]
      BY VerdictsRun
    <3> QED BY <3>1 DEF Reached
  <2>4. s[n] = P!Shows(t[n], holds[n], g)
    <3> HIDE DEF holds
    <3>1. s = [k \in DOMAIN t |-> Seen(t, holds, s, k)]
      BY TruthsRun
    <3> QED BY <3>1 DEF Seen
  <2> HIDE DEF f, g, says, holds, v, s
  <2>5. Fitting(P!Decide(t[n], says[n], f), P!Shows(t[n], holds[n], g), t, q, u, asked)
    BY <2>1, <2>2, DecideFits
  <2> QED BY <2>3, <2>4, <2>5
<1> HIDE DEF T
<1>2. DOMAIN t \subseteq T
  BY <1>1, TreeInduction
<1>3. Len(t) \in DOMAIN t
  BY DEF Grown
<1>4. Fitting(v[Len(t)], s[Len(t)], t, q, u, asked)
  BY <1>2, <1>3 DEF T
<1> QED BY <1>4 DEF P!Evaluate, P!Visible, P!Root

\* A leaf looks at who asks, and some at the method.
LEMMA LeafSame ==
  ASSUME NEW ctl, NEW leaf, NEW q, NEW r, NEW u, NEW obj, r.auth = q.auth, r.method = q.method \/ leaf \notin P!MethodLeaves
  PROVE  P!Leaf(ctl, leaf, r, u, obj) = P!Leaf(ctl, leaf, q, u, obj)
<1>1. P!HasPermission(leaf, r, u) <=> P!HasPermission(leaf, q, u)
  <2>1. CASE leaf = "IsAuthenticated"
    BY <2>1 DEF P!HasPermission
  <2>2. CASE leaf \in P!MethodLeaves
    BY <2>2 DEF P!HasPermission
  <2>3. CASE leaf \notin P!MethodLeaves \cup {"IsAuthenticated"}
    BY <2>3 DEF P!HasPermission, P!MethodLeaves
  <2> QED BY <2>1, <2>2, <2>3
<1>2. P!HasObjectPermission(ctl, leaf, r, u, obj) = P!HasObjectPermission(ctl, leaf, q, u, obj)
  BY DEF P!HasObjectPermission, P!MethodLeaves
<1> QED BY <1>1, <1>2 DEF P!Leaf

\* So does a tree.
LEMMA EvaluateSame ==
  ASSUME NEW t, NEW ctl, NEW q, NEW r, NEW u, NEW obj, r.auth = q.auth,
         r.method = q.method \/ \A leaf \in P!MethodLeaves : ~P!Mentions(t, leaf)
  PROVE  P!Evaluate(ctl, t, r, u, obj) = P!Evaluate(ctl, t, q, u, obj)
<1>1. ASSUME NEW n \in DOMAIN t PROVE P!Leaf(ctl, t[n].leaf, r, u, obj) = P!Leaf(ctl, t[n].leaf, q, u, obj)
  <2>1. r.method = q.method \/ t[n].leaf \notin P!MethodLeaves
    BY DEF P!Mentions
  <2> QED BY <2>1, LeafSame
<1> QED BY <1>1 DEF P!Evaluate

\* The trees of a controller: those it declares, and the leaves that its options add.
TheTrees == {t \in Seq(P!Nodes) : P!IsTree(t)} \cup {P!AsLeaf("IsAuthenticated"), P!AsLeaf("ObjectPermissions"), P!AsLeaf("IsOwner")}

\* A list that is declared is a list of such trees.
LEMMA TreesAre == ASSUME NEW list, P!AreTrees(list) PROVE list \in Seq(TheTrees)
<1>1. list \in Seq(Seq(P!Nodes)) /\ \A i \in DOMAIN list : P!IsTree(list[i])
  BY DEF P!AreTrees
<1>2. Len(list) \in Nat /\ DOMAIN list = 1 .. Len(list) /\ list = [i \in 1 .. Len(list) |-> list[i]]
  BY <1>1
<1>3. \A i \in 1 .. Len(list) : list[i] \in TheTrees
  BY <1>1, <1>2 DEF TheTrees
<1> HIDE DEF TheTrees
<1>4. list \in [1 .. Len(list) -> TheTrees]
  BY <1>2, <1>3
<1> QED BY <1>2, <1>4, SeqDef

\* So are the lists of a controller and of an operation.
LEMMA ListsAre ==
  ASSUME NEW ctl, P!AreTrees(ctl.permissions), NEW declared, P!AreTrees(declared.list)
  PROVE  /\ P!Merged(ctl) \o declared.list \in Seq(TheTrees)
         /\ P!Permissions(ctl, declared) \in Seq(TheTrees)
<1> DEFINE one == <<P!AsLeaf("IsAuthenticated")>>
           two == <<P!AsLeaf("ObjectPermissions")>>
           three == <<P!AsLeaf("IsOwner")>>
<1>1. one \in Seq(TheTrees) /\ two \in Seq(TheTrees) /\ three \in Seq(TheTrees) /\ <<>> \in Seq(TheTrees)
  <2>1. P!AsLeaf("IsAuthenticated") \in TheTrees /\ P!AsLeaf("ObjectPermissions") \in TheTrees /\ P!AsLeaf("IsOwner") \in TheTrees
    BY DEF TheTrees
  <2> HIDE DEF TheTrees
  <2> QED BY <2>1
<1>2. ctl.permissions \in Seq(TheTrees) /\ declared.list \in Seq(TheTrees)
  BY TreesAre
<1> DEFINE a == IF ctl.owned THEN one ELSE <<>>
           b == IF ctl.grants THEN two ELSE <<>>
           d == IF ctl.owned THEN three ELSE <<>>
<1>3. a \in Seq(TheTrees) /\ b \in Seq(TheTrees) /\ d \in Seq(TheTrees)
  BY <1>1
<1>4. P!Merged(ctl) = ((a \o ctl.permissions) \o b) \o d
  BY DEF P!Merged
<1> HIDE DEF TheTrees, a, b, d, one, two, three
<1>5. a \o ctl.permissions \in Seq(TheTrees)
  BY <1>2, <1>3, ConcatProperties
<1>6. (a \o ctl.permissions) \o b \in Seq(TheTrees)
  BY <1>3, <1>5, ConcatProperties
<1>7. P!Merged(ctl) \in Seq(TheTrees)
  BY <1>3, <1>4, <1>6, ConcatProperties
<1>8. P!Merged(ctl) \o declared.list \in Seq(TheTrees)
  BY <1>2, <1>7, ConcatProperties
<1>9. P!Permissions(ctl, declared) \in {P!Merged(ctl), P!Merged(ctl) \o declared.list, declared.list}
  BY DEF P!Permissions
<1> QED BY <1>2, <1>7, <1>8, <1>9

\* Every tree of such a list has its operands first.
LEMMA ListsGrow == ASSUME NEW list \in Seq(TheTrees) PROVE DOMAIN list \subseteq Nat /\ \A i \in DOMAIN list : Grown(list[i])
<1>1. \A t \in TheTrees : Grown(t)
  BY TreesGrow, LeavesGrow DEF TheTrees
<1> HIDE DEF TheTrees
<1> QED BY <1>1

\* What the pass before an operation, and the pass on its object, make of a list of trees.
Passing(list, ctl, q, u, asked) ==
  /\ P!Check(ctl, list, q, u, asked) = 0 <=> \A i \in DOMAIN list : P!Evaluate(ctl, list[i], q, u, asked).allowed \notin {"no", "404"}
  /\ P!Check(ctl, list, q, u, asked) \in {0, 401, 403, 404}
  /\ P!Check(ctl, list, q, u, asked) = 401 => q.auth = None /\ u = None

\* A list answers 0 when no tree refuses, and 401 only to who is nobody.
LEMMA CheckFits ==
  ASSUME NEW list \in Seq(TheTrees), NEW ctl, NEW q, NEW u, NEW obj, obj # None, NEW asked \in {None, obj}
  PROVE  Passing(list, ctl, q, u, asked)
<1> DEFINE verdict == [i \in DOMAIN list |-> P!Evaluate(ctl, list[i], q, u, asked)]
           bad == {i \in DOMAIN list : verdict[i].allowed \in {"no", "404"}}
<1>1. P!Check(ctl, list, q, u, asked) = IF bad = {} THEN 0 ELSE IF verdict[P!First(bad)].allowed = "404" THEN 404 ELSE P!Status(verdict[P!First(bad)].by)
  BY DEF P!Check
<1>2. \A i \in DOMAIN list : Fitting(verdict[i], P!Visible(ctl, list[i], q, u, obj), list[i], q, u, asked)
  BY ListsGrow, EvaluateFits
<1>3. CASE bad = {}
  <2>1. \A i \in DOMAIN list : P!Evaluate(ctl, list[i], q, u, asked).allowed \notin {"no", "404"}
    BY <1>3
  <2> QED BY <1>1, <1>3, <2>1 DEF Passing
<1>4. CASE bad # {}
  <2>1. P!First(bad) \in bad
    BY <1>4, ListsGrow, FirstIs
  <2>2. ~\A i \in DOMAIN list : P!Evaluate(ctl, list[i], q, u, asked).allowed \notin {"no", "404"}
    BY <1>4
  <2> DEFINE first == verdict[P!First(bad)]
  <2>3. P!Check(ctl, list, q, u, asked) = IF first.allowed = "404" THEN 404 ELSE P!Status(first.by)
    BY <1>1, <1>4
  <2>4. first.by \in {"IsAuthenticated", "IsAuthenticatedOrReadOnly"} => q.auth = None /\ u = None
    BY <1>2, <2>1 DEF Fitting
  <2> HIDE DEF first
  <2> QED BY <2>2, <2>3, <2>4 DEF P!Status, Passing
<1> QED BY <1>3, <1>4

\* What a case of permissions is made of.
LEMMA CaseIs ==
  ASSUME NEW c, P!IsCase(c)
  PROVE  /\ c.q \in P!Requests /\ c.obj # None /\ c.declared.how \in {"inherit", "also", "replace"}
         /\ P!AreTrees(c.ctl.permissions) /\ P!AreTrees(c.declared.list)
         /\ DOMAIN c.declared = {"how", "list"}
<1>1. c.obj \in P!Objects /\ c.q \in P!Requests /\ c.declared \in [how : {"inherit", "also", "replace"}, list : Seq(Seq(P!Nodes))]
  BY DEF P!IsCase
<1> QED BY <1>1, NoneIsNothing DEF P!IsCase

\* The fields of a request that matter here.
IsRequest(q) == DOMAIN q = {"method", "auth", "session", "lazy", "inLoop", "loaded", "tenant"} /\ q.inLoop \in BOOLEAN

\* However a request is looked at, its user is the same, in the checks and in the scope.
LEMMA UserOnce ==
  ASSUME NEW ctl, NEW declared, NEW q, IsRequest(q), NEW obj
  PROVE  P!Answer(ctl, declared, q, obj) =
           LET u == P!ARequestUser(q)
               list == P!Permissions(ctl, declared)
               before == P!Check(ctl, list, q, u, None)
           IN IF before # 0 THEN before
              ELSE IF ctl.tenants /\ q.tenant = None THEN 403
              ELSE IF obj = None THEN 404
              ELSE IF ~P!InScope(ctl, q, u, obj) THEN 404
              ELSE P!Check(ctl, list, q, u, obj)
<1>1. DOMAIN q = {"method", "auth", "session", "lazy", "inLoop", "loaded", "tenant"} /\ q.inLoop \in BOOLEAN
  BY DEF IsRequest
<1>2. CASE q.inLoop
  <2>1. /\ P!Prepared(q).auth = q.auth /\ P!Prepared(q).session = q.session
        /\ P!Prepared(q).loaded = (~P!IsUser(q.auth) /\ q.session # None)
    BY <1>1 DEF P!Prepared
  <2>2. P!RequestUser(P!Prepared(q)) = P!ARequestUser(q)
    BY <2>1 DEF P!RequestUser, P!ARequestUser
  <2> QED BY <1>2, <2>2 DEF P!Answer
<1>3. CASE ~q.inLoop
  <2>1. P!RequestUser(q) = P!ARequestUser(q)
    BY <1>3 DEF P!RequestUser, P!ARequestUser
  <2> QED BY <1>3, <2>1 DEF P!Answer
<1> QED BY <1>1, <1>2, <1>3

\* The requests that a case asks about, which differ in where they run and in their method.
Alike(r, q) ==
  IsRequest(r) /\ r.auth = q.auth /\ r.method = q.method /\ r.tenant = q.tenant /\ P!ARequestUser(r) = P!ARequestUser(q)

\* A request in a thread and in the event loop is alike, and another method leaves the rest.
LEMMA SameRequest ==
  ASSUME NEW q \in P!Requests, NEW method
  PROVE  LET s == [q EXCEPT !.method = method]
         IN /\ Alike([q EXCEPT !.inLoop = FALSE], q) /\ Alike([q EXCEPT !.inLoop = TRUE], q)
            /\ IsRequest(s) /\ s.auth = q.auth /\ s.method = method /\ s.tenant = q.tenant
            /\ P!ARequestUser(s) = P!ARequestUser(q)
            /\ P!Prepared(q).tenant = q.tenant
<1>1. DOMAIN q = {"method", "auth", "session", "lazy", "inLoop", "loaded", "tenant"} /\ q.inLoop \in BOOLEAN
  BY DEF P!Requests
<1> QED BY <1>1 DEF P!ARequestUser, P!IsUser, P!Prepared, IsRequest, Alike

\* What a list of permissions answers, from the verdict of each.
Judged(list, verdict) ==
  LET bad == {i \in DOMAIN list : verdict[i].allowed \in {"no", "404"}}
  IN IF bad = {} THEN 0 ELSE IF verdict[P!First(bad)].allowed = "404" THEN 404 ELSE P!Status(verdict[P!First(bad)].by)

\* Requests that are alike are checked alike.
LEMMA CheckSame ==
  ASSUME NEW list, NEW ctl, NEW q, NEW r, NEW u, NEW obj, r.auth = q.auth, r.method = q.method
  PROVE  P!Check(ctl, list, r, u, obj) = P!Check(ctl, list, q, u, obj)
<1>1. \A i \in DOMAIN list : P!Evaluate(ctl, list[i], r, u, obj) = P!Evaluate(ctl, list[i], q, u, obj)
  BY EvaluateSame
<1>2. [i \in DOMAIN list |-> P!Evaluate(ctl, list[i], r, u, obj)] = [i \in DOMAIN list |-> P!Evaluate(ctl, list[i], q, u, obj)]
  BY <1>1
<1>3. /\ P!Check(ctl, list, r, u, obj) = Judged(list, [i \in DOMAIN list |-> P!Evaluate(ctl, list[i], r, u, obj)])
      /\ P!Check(ctl, list, q, u, obj) = Judged(list, [i \in DOMAIN list |-> P!Evaluate(ctl, list[i], q, u, obj)])
  BY DEF P!Check, Judged
<1> QED BY ONLY <1>2, <1>3

\* The scope of a request is that of its tenant and user.
LEMMA ScopeSame ==
  ASSUME NEW ctl, NEW q, NEW r, NEW u, NEW obj, r.tenant = q.tenant
  PROVE  P!InScope(ctl, r, u, obj) <=> P!InScope(ctl, q, u, obj)
BY DEF P!InScope

\* The answer to a case, in a thread or in the event loop.
LEMMA AnswerIs ==
  ASSUME NEW c, P!IsCase(c), NEW r, NEW obj,
         Alike(r, c.q)
  PROVE  P!Answer(c.ctl, c.declared, r, obj) =
           LET u == P!ARequestUser(c.q)
               list == P!Permissions(c.ctl, c.declared)
               before == P!Check(c.ctl, list, c.q, u, None)
           IN IF before # 0 THEN before
              ELSE IF c.ctl.tenants /\ c.q.tenant = None THEN 403
              ELSE IF obj = None THEN 404
              ELSE IF ~P!InScope(c.ctl, c.q, u, obj) THEN 404
              ELSE P!Check(c.ctl, list, c.q, u, obj)
<1> DEFINE u == P!ARequestUser(c.q)
           list == P!Permissions(c.ctl, c.declared)
<1>2. IsRequest(r) /\ r.auth = c.q.auth /\ r.method = c.q.method /\ r.tenant = c.q.tenant /\ P!ARequestUser(r) = u
  BY DEF Alike
<1> HIDE DEF u, list
<1>3. \A o : P!Check(c.ctl, list, r, u, o) = P!Check(c.ctl, list, c.q, u, o)
  BY <1>2, CheckSame
<1>4. P!InScope(c.ctl, r, u, obj) <=> P!InScope(c.ctl, c.q, u, obj)
  BY <1>2, ScopeSame
<1> SUFFICES P!Answer(c.ctl, c.declared, r, obj) =
           LET before == P!Check(c.ctl, list, c.q, u, None)
           IN IF before # 0 THEN before
              ELSE IF c.ctl.tenants /\ c.q.tenant = None THEN 403
              ELSE IF obj = None THEN 404
              ELSE IF ~P!InScope(c.ctl, c.q, u, obj) THEN 404
              ELSE P!Check(c.ctl, list, c.q, u, obj)
  BY DEF u, list
<1>5. P!Answer(c.ctl, c.declared, r, obj) =
           LET before == P!Check(c.ctl, list, r, u, None)
           IN IF before # 0 THEN before
              ELSE IF c.ctl.tenants /\ r.tenant = None THEN 403
              ELSE IF obj = None THEN 404
              ELSE IF ~P!InScope(c.ctl, r, u, obj) THEN 404
              ELSE P!Check(c.ctl, list, r, u, obj)
  BY <1>2, UserOnce DEF list
<1> QED BY <1>2, <1>3, <1>4, <1>5

\* The two passes decide what the tree says, and sync and async operations answer alike
\* (security/permissions.py, _permission_eval.py, _permission_eval_async.py).
LEMMA PermissionsDecide == ASSUME NEW c, P!IsCase(c) PROVE P!PermissionsDecide(c)
<1> DEFINE u == P!ARequestUser(c.q)
           list == P!Permissions(c.ctl, c.declared)
           before == P!Check(c.ctl, list, c.q, u, None)
           after == P!Check(c.ctl, list, c.q, u, c.obj)
           holds == \A i \in DOMAIN list : P!Visible(c.ctl, list[i], c.q, u, c.obj)
           scope == P!InScope(c.ctl, c.q, u, c.obj)
           tenant == c.ctl.tenants => c.q.tenant # None
           inScope == tenant /\ P!InScope(c.ctl, P!Prepared(c.q), u, c.obj)
           sync == P!Answer(c.ctl, c.declared, [c.q EXCEPT !.inLoop = FALSE], c.obj)
           async == P!Answer(c.ctl, c.declared, [c.q EXCEPT !.inLoop = TRUE], c.obj)
<1>1. c.q \in P!Requests /\ c.obj # None /\ list \in Seq(TheTrees)
  BY CaseIs, ListsAre
<1>2. /\ sync = IF before # 0 THEN before ELSE IF ~tenant THEN 403 ELSE IF ~scope THEN 404 ELSE after
      /\ async = sync
  <2>1. Alike([c.q EXCEPT !.inLoop = FALSE], c.q) /\ Alike([c.q EXCEPT !.inLoop = TRUE], c.q)
    BY <1>1, SameRequest
  <2>2. ASSUME NEW r, Alike(r, c.q)
        PROVE  P!Answer(c.ctl, c.declared, r, c.obj) = IF before # 0 THEN before ELSE IF ~tenant THEN 403 ELSE IF ~scope THEN 404 ELSE after
    <3>1. P!Answer(c.ctl, c.declared, r, c.obj) = IF before # 0 THEN before
                       ELSE IF c.ctl.tenants /\ c.q.tenant = None THEN 403
                       ELSE IF c.obj = None THEN 404
                       ELSE IF ~scope THEN 404 ELSE after
      BY <2>2, AnswerIs
    <3> HIDE DEF before, after, scope
    <3> QED BY <1>1, <3>1
  <2> HIDE DEF before, after, scope, tenant
  <2> QED BY <2>1, <2>2
<1>3. inScope <=> tenant /\ scope
  <2>1. P!Prepared(c.q).tenant = c.q.tenant
    BY <1>1, SameRequest
  <2> QED BY <2>1, ScopeSame
<1>4. Passing(list, c.ctl, c.q, u, None) /\ Passing(list, c.ctl, c.q, u, c.obj)
  <2> HIDE DEF u, list
  <2> QED BY <1>1, CheckFits
<1>5. /\ before = 0 <=> \A i \in DOMAIN list : P!Evaluate(c.ctl, list[i], c.q, u, None).allowed \notin {"no", "404"}
      /\ before = 401 => c.q.auth = None /\ u = None
      /\ after = 0 <=> \A i \in DOMAIN list : P!Evaluate(c.ctl, list[i], c.q, u, c.obj).allowed \notin {"no", "404"}
      /\ after = 401 => c.q.auth = None /\ u = None
  BY <1>4 DEF Passing
<1>6. \A i \in DOMAIN list : /\ Fitting(P!Evaluate(c.ctl, list[i], c.q, u, None), P!Visible(c.ctl, list[i], c.q, u, c.obj), list[i], c.q, u, None)
                             /\ Fitting(P!Evaluate(c.ctl, list[i], c.q, u, c.obj), P!Visible(c.ctl, list[i], c.q, u, c.obj), list[i], c.q, u, c.obj)
                             /\ Grown(list[i])
  BY <1>1, ListsGrow, EvaluateFits
<1> HIDE DEF sync, async, before, after, scope
<1>7. sync = async
  BY <1>2
<1>8. sync = 0 => inScope /\ holds
  <2> SUFFICES ASSUME sync = 0 PROVE inScope /\ holds
    OBVIOUS
  <2>1. tenant /\ scope /\ after = 0
    BY <1>2
  <2>2. holds
    BY <1>1, <1>5, <1>6, <2>1 DEF Fitting
  <2> QED BY <1>3, <2>1, <2>2
<1>9. inScope /\ holds /\ ~P!Combined(list) => sync = 0
  <2> SUFFICES ASSUME inScope, holds, ~P!Combined(list) PROVE sync = 0
    OBVIOUS
  <2>1. before = 0
    BY <1>5, <1>6 DEF Fitting
  <2>2. ASSUME NEW i \in DOMAIN list, P!Evaluate(c.ctl, list[i], c.q, u, c.obj).allowed = "404" PROVE FALSE
    <3> DEFINE t == list[i]
               n == Len(t)
               says == [k \in DOMAIN t |-> P!Leaf(c.ctl, t[k].leaf, c.q, u, c.obj)]
               shows == [k \in DOMAIN t |-> P!LeafShows(c.ctl, t[k].leaf, c.q, u, c.obj)]
    <3>1. P!Mentions(t, "ObjectPermissions")
      BY <1>6, <2>2 DEF Fitting
    <3>2. t[n].op = "leaf" /\ n \in DOMAIN t /\ Grown(t)
      BY <1>6, <3>1 DEF P!Combined, P!Root, Grown
    <3>3. P!Evaluate(c.ctl, t, c.q, u, c.obj).allowed = says[n]
      <4>1. P!Evaluate(c.ctl, t, c.q, u, c.obj) = P!Verdicts(t, says)[n]
        BY DEF P!Evaluate, P!Root
      <4> HIDE DEF says, t, n
      <4>2. P!Verdicts(t, says) = [k \in DOMAIN t |-> Reached(t, says, P!Verdicts(t, says), k)]
        BY <3>2, VerdictsRun
      <4>3. P!Verdicts(t, says)[n] = Reached(t, says, P!Verdicts(t, says), n)
        BY <3>2, <4>2
      <4> QED BY <3>2, <4>1, <4>3 DEF Reached, P!Decide, P!Decided
    <3>4. P!Visible(c.ctl, t, c.q, u, c.obj) = shows[n]
      <4>1. P!Visible(c.ctl, t, c.q, u, c.obj) = P!Truths(t, shows)[n]
        BY DEF P!Visible, P!Root
      <4> HIDE DEF shows, t, n
      <4>2. P!Truths(t, shows) = [k \in DOMAIN t |-> Seen(t, shows, P!Truths(t, shows), k)]
        BY <3>2, TruthsRun
      <4>3. P!Truths(t, shows)[n] = Seen(t, shows, P!Truths(t, shows), n)
        BY <3>2, <4>2
      <4> QED BY <3>2, <4>1, <4>3 DEF Seen, P!Shows
    <3>5. P!Leaf(c.ctl, t[n].leaf, c.q, u, c.obj) = "404" /\ P!LeafShows(c.ctl, t[n].leaf, c.q, u, c.obj)
      BY <2>2, <3>2, <3>3, <3>4
    <3>6. P!ChecksObjects(t[n].leaf)
      BY <1>1, <3>5 DEF P!Leaf, P!HasObjectPermission, P!ChecksObjects
    <3> QED BY <3>5, <3>6 DEF P!LeafShows
  <2>3. after = 0
    BY <1>5, <1>6, <2>2 DEF Fitting
  <2>4. tenant /\ scope
    BY <1>3
  <2> QED BY <1>2, <2>1, <2>3, <2>4
<1>10. sync = 401 => c.q.auth = None /\ u = None
  BY <1>2, <1>5
<1> HIDE DEF sync, async, holds, inScope
<1> QED BY <1>7, <1>8, <1>9, <1>10 DEF P!PermissionsDecide, P!Sync, sync, async, holds, inScope, tenant

\* What a list leaves out is what GET refuses.
LEMMA FilterIs ==
  ASSUME NEW ctl, NEW u, NEW obj
  PROVE  P!Filter(ctl, u, obj) = (u # None /\ P!HoldsAll(ctl, u, "GET", obj))
<1>1. P!Required("GET") = {"view"}
  BY DEF P!Required, P!PermsMap
<1>2. P!HoldsAll(ctl, u, "GET", obj) <=> P!ObjectHolds(ctl, u, "view", obj)
  BY <1>1 DEF P!HoldsAll
<1>3. CASE u = None
  BY <1>3 DEF P!Filter, P!HasPerms, P!BackendFilter
<1>4. CASE u # None
  <2> DEFINE holders == {u} \cup KnownUsers[u].groups
  <2>1. P!BackendFilter(u, {"view"}, obj) <=> \/ KnownUsers[u].active /\ KnownUsers[u].super
                                              \/ KnownUsers[u].active /\ \E g \in obj.grants : g[2] = "view" /\ g[1] \in holders
    BY <1>4 DEF P!BackendFilter
  <2>2. "view" \in P!Granted(u, obj) <=> KnownUsers[u].active /\ \E g \in obj.grants : g[2] = "view" /\ g[1] \in holders
    BY <1>4 DEF P!Granted
  <2>3. P!BackendHas(u, "view", obj) <=> P!BackendFilter(u, {"view"}, obj)
    BY <1>4, <2>1, <2>2 DEF P!BackendHas
  <2> QED BY <1>1, <1>2, <1>4, <2>3 DEF P!Filter, P!ObjectHolds
<1> QED BY <1>3, <1>4

\* A hidden object looks like a missing one (security/object_permissions.py:315-320).
LEMMA HiddenLooksMissing == ASSUME NEW c, P!IsCase(c) PROVE P!HiddenLooksMissing(c)
<1> DEFINE u == P!ARequestUser(c.q)
           sync == [c.q EXCEPT !.inLoop = FALSE]
<1>1. P!Filter(c.ctl, u, c.obj) = (u # None /\ P!HoldsAll(c.ctl, u, "GET", c.obj))
  BY FilterIs
<1>2. ASSUME c.ctl.grants, c.ctl.filterLists, ~P!HoldsAll(c.ctl, u, "GET", c.obj)
      PROVE  P!Answer(c.ctl, c.declared, sync, c.obj) = P!Answer(c.ctl, c.declared, sync, None)
  <2>1. ~P!InScope(c.ctl, c.q, u, c.obj)
    BY <1>1, <1>2 DEF P!InScope
  <2>2. Alike(sync, c.q) /\ c.obj # None
    BY CaseIs, SameRequest
  <2> DEFINE before == P!Check(c.ctl, P!Permissions(c.ctl, c.declared), c.q, u, None)
             answer(obj) == P!Answer(c.ctl, c.declared, sync, obj)
  <2> HIDE DEF sync
  <2>3. answer(c.obj) = IF before # 0 THEN before ELSE IF c.ctl.tenants /\ c.q.tenant = None THEN 403 ELSE 404
    BY <2>1, <2>2, AnswerIs
  <2>4. answer(None) = IF before # 0 THEN before ELSE IF c.ctl.tenants /\ c.q.tenant = None THEN 403 ELSE 404
    BY <2>2, AnswerIs
  <2> QED BY <2>3, <2>4
<1> QED BY <1>1, <1>2 DEF P!HiddenLooksMissing, P!Sync

\* A rule without a negation that shows a field without the object shows it with the object
\* (serialization/visibility.py:77-93).
LEMMA VisibilityFailsClosed == ASSUME NEW c, P!IsCase(c) PROVE P!VisibilityFailsClosed(c)
<1> DEFINE u == P!RequestUser(c.q)
<1>1. c.obj # None /\ c.declared.list \in Seq(TheTrees)
  BY CaseIs, TreesAre
<1> SUFFICES ASSUME NEW t, Grown(t), ~P!Negates(t), P!Visible(c.ctl, t, c.q, u, None)
             PROVE  P!Visible(c.ctl, t, c.q, u, c.obj)
  BY <1>1, ListsGrow DEF P!VisibilityFailsClosed
<1> DEFINE less == [n \in DOMAIN t |-> P!LeafShows(c.ctl, t[n].leaf, c.q, u, None)]
           more == [n \in DOMAIN t |-> P!LeafShows(c.ctl, t[n].leaf, c.q, u, c.obj)]
           l == P!Truths(t, less)
           m == P!Truths(t, more)
           T == {n \in DOMAIN t : l[n] => m[n]}
<1>2. \A n \in DOMAIN t : less[n] => more[n]
  BY <1>1 DEF P!LeafShows
<1>3. l = [n \in DOMAIN t |-> Seen(t, less, l, n)] /\ m = [n \in DOMAIN t |-> Seen(t, more, m, n)]
  <2> HIDE DEF less, more
  <2> QED BY TruthsRun
<1>4. ASSUME NEW n \in DOMAIN t, \A i \in DOMAIN t[n].of : t[n].of[i] \in T PROVE n \in T
  <2> HIDE DEF less, more, l, m
  <2>1. l[n] = P!Shows(t[n], less[n], [i \in DOMAIN t[n].of |-> l[t[n].of[i]]])
    BY <1>3 DEF Seen
  <2>2. m[n] = P!Shows(t[n], more[n], [i \in DOMAIN t[n].of |-> m[t[n].of[i]]])
    BY <1>3 DEF Seen
  <2>3. \A i \in DOMAIN t[n].of : l[t[n].of[i]] => m[t[n].of[i]]
    BY <1>4
  <2>4. t[n].op \in {"leaf", "all", "any"}
    BY DEF Grown, P!Negates
  <2>5. CASE t[n].op = "leaf"
    BY <1>2, <2>1, <2>2, <2>5 DEF P!Shows
  <2>6. CASE t[n].op = "all"
    BY <2>1, <2>2, <2>3, <2>6 DEF P!Shows
  <2>7. CASE t[n].op = "any"
    BY <2>1, <2>2, <2>3, <2>7 DEF P!Shows
  <2> QED BY <2>4, <2>5, <2>6, <2>7
<1> HIDE DEF T
<1>5. DOMAIN t \subseteq T
  BY <1>4, TreeInduction
<1>6. Len(t) \in DOMAIN t
  BY DEF Grown
<1>7. l[Len(t)] => m[Len(t)]
  BY <1>5, <1>6 DEF T
<1> QED BY <1>7 DEF P!Visible, P!Root

\* The transitions that are listed are those that are let through (crud/transitions.py:100-140).
LEMMA ListedTransitionsRun == ASSUME NEW c, P!IsCase(c) PROVE P!ListedTransitionsRun(c)
<1> DEFINE u == P!ARequestUser(c.q)
           list == P!Merged(c.ctl) \o c.declared.list
           get == [c.q EXCEPT !.method = "GET"]
           post == [c.q EXCEPT !.method = "POST"]
           also == [c.declared EXCEPT !.how = "also"]
           listed == P!Listed(c.ctl, c.declared.list, c.q, c.obj)
           answer == P!Answer(c.ctl, also, post, c.obj)
<1>1. c.q \in P!Requests /\ c.obj # None /\ list \in Seq(TheTrees) /\ P!Permissions(c.ctl, also) = list
  <2>1. also.how = "also" /\ also.list = c.declared.list
    BY CaseIs
  <2> HIDE DEF also
  <2> QED BY <2>1, CaseIs, ListsAre DEF P!Permissions
<1>2. /\ IsRequest(post) /\ post.auth = get.auth /\ post.tenant = c.q.tenant
      /\ P!ARequestUser(post) = u /\ P!Prepared(post).tenant = c.q.tenant
  <2>1. DOMAIN c.q = {"method", "auth", "session", "lazy", "inLoop", "loaded", "tenant"} /\ c.q.inLoop \in BOOLEAN
    BY <1>1 DEF P!Requests
  <2>2. P!ARequestUser(post) = u
    BY <1>1, SameRequest
  <2>3. IsRequest(post) /\ post.auth = get.auth /\ post.tenant = c.q.tenant
    BY <2>1 DEF IsRequest
  <2>4. P!Prepared(post).tenant = c.q.tenant
    BY <2>1 DEF P!Prepared
  <2> QED BY <2>2, <2>3, <2>4
<1> SUFFICES ASSUME \A i \in DOMAIN list, leaf \in P!MethodLeaves : ~P!Mentions(list[i], leaf),
                    c.ctl.tenants => post.tenant # None, P!InScope(c.ctl, P!Prepared(post), P!ARequestUser(post), c.obj)
             PROVE  listed <=> answer = 0
  BY DEF P!ListedTransitionsRun
<1>3. P!InScope(c.ctl, post, u, c.obj)
  BY <1>2, ScopeSame
<1> DEFINE before == P!Check(c.ctl, list, post, u, None)
           after == P!Check(c.ctl, list, post, u, c.obj)
<1>4. answer = IF before # 0 THEN before ELSE after
  <2> HIDE DEF post, also, list
  <2>1. answer = IF before # 0 THEN before
                 ELSE IF c.ctl.tenants /\ post.tenant = None THEN 403
                 ELSE IF c.obj = None THEN 404
                 ELSE IF ~P!InScope(c.ctl, post, u, c.obj) THEN 404
                 ELSE after
    BY <1>1, <1>2, UserOnce
  <2> HIDE DEF answer, before, after
  <2> QED BY <1>1, <1>3, <2>1
<1> HIDE DEF get, post, also, list, u
<1>5. ASSUME NEW i \in DOMAIN list
      PROVE  P!Evaluate(c.ctl, list[i], get, u, c.obj) = P!Evaluate(c.ctl, list[i], post, u, c.obj)
  BY <1>2, EvaluateSame
<1>6. listed <=> \A i \in DOMAIN list : P!Evaluate(c.ctl, list[i], post, u, c.obj).allowed = "yes"
  BY <1>5 DEF P!Listed, get, list, u
<1>7. Passing(list, c.ctl, post, u, None) /\ Passing(list, c.ctl, post, u, c.obj)
  BY <1>1, CheckFits
<1>8. \A i \in DOMAIN list : /\ Fitting(P!Evaluate(c.ctl, list[i], post, u, None), P!Visible(c.ctl, list[i], post, u, c.obj), list[i], post, u, None)
                             /\ Fitting(P!Evaluate(c.ctl, list[i], post, u, c.obj), P!Visible(c.ctl, list[i], post, u, c.obj), list[i], post, u, c.obj)
  BY <1>1, ListsGrow, EvaluateFits
<1> HIDE DEF listed, answer, before, after
<1>9. ASSUME listed PROVE answer = 0
  <2>1. before = 0
    BY <1>6, <1>7, <1>8, <1>9 DEF Fitting, Passing, before
  <2>2. after = 0
    BY <1>6, <1>7, <1>9 DEF Passing, after
  <2> QED BY <1>4, <2>1, <2>2
<1>10. ASSUME answer = 0 PROVE listed
  <2>1. after = 0
    BY <1>4, <1>10
  <2> QED BY <1>1, <1>6, <1>7, <1>8, <2>1 DEF Fitting, Passing, after
<1> QED BY <1>9, <1>10

(********************************* Sharing *********************************)
\* Who can hold a grant.
Holding == DOMAIN Members \cup GroupNames
\* A world of grants: its rows are of one permission, one object and one holder each.
IsWorld(w) ==
  /\ DOMAIN w = {"configured", "grantsApp", "guardian", "authBackend", "rows"}
  /\ \A r \in w.rows : r = H!Row(r.perm, r.obj, r.holder) /\ r.holder \in Holding
\* The same world, with other rows.
WithRows(w, rows, other) ==
  /\ DOMAIN other = DOMAIN w /\ other.rows = rows
  /\ other.configured = w.configured /\ other.grantsApp = w.grantsApp /\ other.guardian = w.guardian /\ other.authBackend = w.authBackend

\* A row of a grant has the fields it was made of.
LEMMA RowIs ==
  ASSUME NEW perm, NEW obj, NEW holder
  PROVE  LET r == H!Row(perm, obj, holder) IN r.perm = perm /\ r.obj = obj /\ r.holder = holder
  BY DEF H!Row

\* A permission is held when its row is there.
LEMMA HeldIs ==
  ASSUME NEW w, IsWorld(w), NEW obj, NEW holder, NEW perm
  PROVE  perm \in H!Held(w, obj, holder) <=> H!Row(perm, obj, holder) \in w.rows
<1>1. ASSUME perm \in H!Held(w, obj, holder) PROVE H!Row(perm, obj, holder) \in w.rows
  <2>1. PICK r \in w.rows : r.obj = obj /\ r.holder = holder /\ r.perm = perm
    BY <1>1 DEF H!Held
  <2> QED BY <2>1 DEF IsWorld
<1>2. ASSUME H!Row(perm, obj, holder) \in w.rows PROVE perm \in H!Held(w, obj, holder)
  <2> DEFINE r == H!Row(perm, obj, holder)
  <2>1. r \in w.rows /\ r.perm = perm /\ r.obj = obj /\ r.holder = holder
    BY <1>2, RowIs
  <2> HIDE DEF r
  <2> QED BY <2>1 DEF H!Held
<1> QED BY <1>1, <1>2

\* Assigning adds rows and removing takes rows; nothing else changes.
LEMMA AssignRemove ==
  ASSUME NEW w, IsWorld(w), NEW gives, NEW takes, NEW holder, NEW obj
  PROVE  /\ WithRows(w, w.rows \cup {H!Row(p, obj, holder) : p \in gives}, H!Assign(w, gives, holder, obj))
         /\ WithRows(w, w.rows \ {H!Row(p, obj, holder) : p \in takes}, H!Remove(w, takes, holder, obj))
  BY DEF IsWorld, WithRows, H!Assign, H!Remove

\* The grants of an object, collected by holder, are what each holds.
LEMMA CollectIs ==
  ASSUME NEW w, IsWorld(w), NEW obj
  PROVE  H!Collect(w, obj) = {g \in [holder : Holding, permissions : {H!Held(w, obj, z) : z \in Holding}] :
                                g.permissions = H!Held(w, obj, g.holder) /\ g.permissions # {}}
<1> DEFINE all == {g \in [holder : Holding, permissions : {H!Held(w, obj, z) : z \in Holding}] :
                     g.permissions = H!Held(w, obj, g.holder) /\ g.permissions # {}}
           grant(h) == [holder |-> h, permissions |-> H!Held(w, obj, h)]
           holders == {r.holder : r \in {x \in w.rows : x.obj = obj}}
<1>1. H!Collect(w, obj) = {grant(h) : h \in holders}
  <2>1. \A h : {r.perm : r \in {x \in {y \in w.rows : y.obj = obj} : x.holder = h}} = H!Held(w, obj, h)
    BY DEF H!Held
  <2> DEFINE told(h) == [holder |-> h, permissions |-> {r.perm : r \in {x \in {y \in w.rows : y.obj = obj} : x.holder = h}}]
  <2>2. \A h : told(h) = grant(h)
    BY <2>1
  <2>3. H!Collect(w, obj) = {told(h) : h \in holders}
    BY DEF H!Collect
  <2> HIDE DEF told, grant, holders
  <2> QED BY <2>2, <2>3
<1>2. ASSUME NEW h \in holders PROVE grant(h) \in all
  <2>1. PICK r \in w.rows : r.obj = obj /\ r.holder = h
    OBVIOUS
  <2>2. h \in Holding /\ r.perm \in H!Held(w, obj, h)
    BY <2>1 DEF IsWorld, H!Held
  <2> QED BY <2>2
<1>3. ASSUME NEW g \in all PROVE g.holder \in holders /\ g = grant(g.holder)
  <2>1. g \in [holder : Holding, permissions : {H!Held(w, obj, z) : z \in Holding}] /\ g.permissions = H!Held(w, obj, g.holder) /\ g.permissions # {}
    OBVIOUS
  <2>2. g = [holder |-> g.holder, permissions |-> g.permissions]
    BY <2>1
  <2>3. PICK p : p \in H!Held(w, obj, g.holder)
    BY <2>1
  <2>4. g.holder \in holders
    BY <2>3 DEF H!Held
  <2> QED BY <2>1, <2>2, <2>4
<1> HIDE DEF all, grant, holders
<1>4. {grant(h) : h \in holders} = all
  BY <1>2, <1>3
<1> QED BY <1>1, <1>4 DEF all

\* A holder that was found exists.
LEMMA HolderIs == ASSUME NEW p, H!HolderOf(p) # None PROVE H!HolderOf(p) \in Holding
  BY DEF H!HolderOf, Holding

\* A change of grants that succeeds leaves its holder with what was wanted and with what cannot be shared; one that fails changes nothing.
AsAsked(k, r, wanted) ==
  IF r.status # 200 THEN r.world = k.world
  ELSE LET h == H!HolderOf(k.payload)
       IN /\ H!Held(r.world, k.obj, h) = wanted \cup (H!Held(k.world, k.obj, h) \ H!AllShareable(k.ctl, k.obj.model))
          /\ {x \in r.world.rows : x.obj # k.obj \/ x.holder # h} = {x \in k.world.rows : x.obj # k.obj \/ x.holder # h}
          /\ r.answer = {g \in [holder : Holding, permissions : {H!Held(r.world, k.obj, z) : z \in Holding}] :
                           g.permissions = H!Held(r.world, k.obj, g.holder) /\ g.permissions # {}}

\* Given the wanted permissions and relieved of the other shareable ones.
LEMMA Regranted ==
  ASSUME NEW k, IsWorld(k.world), H!HolderOf(k.payload) # None, NEW wanted, wanted \subseteq H!AllShareable(k.ctl, k.obj.model),
         NEW w, WithRows(k.world, (k.world.rows \cup {H!Row(p, k.obj, H!HolderOf(k.payload)) : p \in wanted})
                                    \ {H!Row(p, k.obj, H!HolderOf(k.payload)) : p \in H!AllShareable(k.ctl, k.obj.model) \ wanted}, w)
  PROVE  AsAsked(k, H!Shared(w, k.obj), wanted)
<1> DEFINE h == H!HolderOf(k.payload)
           all == H!AllShareable(k.ctl, k.obj.model)
           given == {H!Row(p, k.obj, h) : p \in wanted}
           taken == {H!Row(p, k.obj, h) : p \in all \ wanted}
<1>0. w.rows = (k.world.rows \cup given) \ taken /\ DOMAIN w = DOMAIN k.world
  BY DEF WithRows
<1>1. \A r \in given \cup taken : r.obj = k.obj /\ r.holder = h /\ r = H!Row(r.perm, r.obj, r.holder)
  BY DEF H!Row
<1>2. IsWorld(w)
  <2>1. h \in Holding
    BY HolderIs
  <2> HIDE DEF h, given, taken
  <2> QED BY <1>0, <1>1, <2>1 DEF IsWorld
<1>3. \A p, q : H!Row(p, k.obj, h) = H!Row(q, k.obj, h) => p = q
  BY RowIs
<1>4. \A p : H!Row(p, k.obj, h) \in given <=> p \in wanted
  BY <1>3
<1>5. \A p : H!Row(p, k.obj, h) \in taken <=> p \in all \ wanted
  BY <1>3
<1> HIDE DEF h, all, given, taken
<1>6. H!Held(w, k.obj, h) = wanted \cup (H!Held(k.world, k.obj, h) \ all)
  <2>1. \A p : p \in H!Held(w, k.obj, h) <=> H!Row(p, k.obj, h) \in w.rows
    BY <1>2, HeldIs
  <2>2. \A p : p \in H!Held(k.world, k.obj, h) <=> H!Row(p, k.obj, h) \in k.world.rows
    BY HeldIs
  <2>3. \A p : p \in H!Held(w, k.obj, h) <=> p \in wanted \cup (H!Held(k.world, k.obj, h) \ all)
    BY <1>0, <1>4, <1>5, <2>1, <2>2
  <2> QED BY <2>3
<1>7. {x \in w.rows : x.obj # k.obj \/ x.holder # h} = {x \in k.world.rows : x.obj # k.obj \/ x.holder # h}
  BY <1>0, <1>1
<1>8. H!Shared(w, k.obj) = [status |-> 200, world |-> w, answer |-> H!Collect(w, k.obj)]
  BY DEF H!Shared
<1>9. H!Shared(w, k.obj).status = 200 /\ H!Shared(w, k.obj).world = w /\ H!Shared(w, k.obj).answer = H!Collect(w, k.obj)
  BY <1>8
<1>10. H!Collect(w, k.obj) = {g \in [holder : Holding, permissions : {H!Held(w, k.obj, z) : z \in Holding}] :
                                g.permissions = H!Held(w, k.obj, g.holder) /\ g.permissions # {}}
  BY <1>2, CollectIs
<1> HIDE DEF Holding
<1> QED BY <1>6, <1>7, <1>9, <1>10 DEF AsAsked, h, all

\* A refusal changes nothing.
LEMMA RefusalIs ==
  ASSUME NEW k, NEW status, status # 200, NEW wanted
  PROVE  AsAsked(k, H!Refused(status, k.world), wanted)
  BY DEF AsAsked, H!Refused

\* The object of a sharing operation is found or refused.
LEMMA SharingObjectIs ==
  ASSUME NEW ctl, NEW w, NEW caller, NEW obj
  PROVE  H!SharingObject(ctl, w, caller, obj) \in {0, 401, 403, 404}
  BY DEF H!SharingObject

\* Setting permissions does as asked.
LEMMA SetAsAsked ==
  ASSUME NEW k, IsWorld(k.world)
  PROVE  AsAsked(k, H!SetPermissions(k.ctl, k.world, k.caller, k.obj, k.payload), {H!FullPermission(n, k.obj.model) : n \in k.payload.permissions})
<1> DEFINE refused == H!SharingObject(k.ctl, k.world, k.caller, k.obj)
           wanted == {H!FullPermission(n, k.obj.model) : n \in k.payload.permissions}
           holder == H!HolderOf(k.payload)
           all == H!AllShareable(k.ctl, k.obj.model)
           granted == H!Assign(k.world, wanted, holder, k.obj)
           answer == H!SetPermissions(k.ctl, k.world, k.caller, k.obj, k.payload)
<1>1. answer = IF ~H!OneHolder(k.payload) THEN H!Refused(422, k.world)
               ELSE IF refused # 0 THEN H!Refused(refused, k.world)
               ELSE IF ~(wanted \subseteq all) THEN H!Refused(422, k.world)
               ELSE IF holder = None THEN H!Refused(422, k.world)
               ELSE IF ~k.ctl.mayHold[holder] THEN H!Refused(422, k.world)
               ELSE H!Shared(H!Remove(granted, all \ wanted, holder, k.obj), k.obj)
  BY DEF H!SetPermissions
<1> HIDE DEF refused, wanted, holder, all, granted, answer
<1>2. refused \in {0, 401, 403, 404}
  BY SharingObjectIs DEF refused
<1>3. CASE (\E status \in {401, 403, 404, 422} : answer = H!Refused(status, k.world))
  <2>1. PICK status \in {401, 403, 404, 422} : answer = H!Refused(status, k.world)
    BY <1>3
  <2>2. AsAsked(k, H!Refused(status, k.world), wanted)
    <3>1. H!Refused(status, k.world).status # 200 /\ H!Refused(status, k.world).world = k.world
      BY DEF H!Refused
    <3> QED BY <3>1 DEF AsAsked
  <2> QED BY <2>1, <2>2 DEF answer, wanted
<1>4. CASE wanted \subseteq all /\ holder # None /\ answer = H!Shared(H!Remove(granted, all \ wanted, holder, k.obj), k.obj)
  <2> DEFINE w == H!Remove(granted, all \ wanted, holder, k.obj)
             given == {H!Row(p, k.obj, holder) : p \in wanted}
             taken == {H!Row(p, k.obj, holder) : p \in all \ wanted}
  <2>1. WithRows(k.world, k.world.rows \cup given, granted)
    BY AssignRemove DEF granted
  <2>2. holder \in Holding
    BY <1>4, HolderIs DEF holder
  <2>3. \A r \in given : r = H!Row(r.perm, r.obj, r.holder) /\ r.holder = holder
    BY DEF H!Row
  <2> HIDE DEF given, taken
  <2>4. IsWorld(granted)
    BY <2>1, <2>2, <2>3 DEF IsWorld, WithRows
  <2>5. WithRows(granted, granted.rows \ taken, w)
    BY <2>4, AssignRemove DEF taken
  <2> HIDE DEF w
  <2>6. WithRows(k.world, (k.world.rows \cup given) \ taken, w)
    BY <2>1, <2>5 DEF WithRows
  <2>7. AsAsked(k, H!Shared(w, k.obj), wanted)
    BY <1>4, <2>6, Regranted DEF given, taken, holder, all
  <2> QED BY <1>4, <2>7 DEF w, answer, wanted
<1> QED BY <1>1, <1>2, <1>3, <1>4

\* Revoking does as asked, with nothing wanted.
LEMMA RevokeAsAsked ==
  ASSUME NEW k, IsWorld(k.world)
  PROVE  AsAsked(k, H!RevokePermissions(k.ctl, k.world, k.caller, k.obj, k.payload), {})
<1> DEFINE refused == H!SharingObject(k.ctl, k.world, k.caller, k.obj)
           holder == H!HolderOf(k.payload)
           all == H!AllShareable(k.ctl, k.obj.model)
           answer == H!RevokePermissions(k.ctl, k.world, k.caller, k.obj, k.payload)
<1>1. answer = IF ~H!OneHolder(k.payload) THEN H!Refused(422, k.world)
               ELSE IF refused # 0 THEN H!Refused(refused, k.world)
               ELSE IF holder = None THEN H!Refused(422, k.world)
               ELSE H!Shared(H!Remove(k.world, all, holder, k.obj), k.obj)
  BY DEF H!RevokePermissions
<1> HIDE DEF refused, holder, all, answer
<1>2. refused \in {0, 401, 403, 404}
  BY SharingObjectIs DEF refused
<1>3. CASE (\E status \in {401, 403, 404, 422} : answer = H!Refused(status, k.world))
  BY <1>3, RefusalIs DEF answer
<1>4. CASE holder # None /\ answer = H!Shared(H!Remove(k.world, all, holder, k.obj), k.obj)
  <2> DEFINE w == H!Remove(k.world, all, holder, k.obj)
             given == {H!Row(p, k.obj, holder) : p \in {}}
             taken == {H!Row(p, k.obj, holder) : p \in all}
             rest == {H!Row(p, k.obj, holder) : p \in all \ {}}
  <2>1. WithRows(k.world, k.world.rows \ taken, w)
    BY AssignRemove
  <2>2. taken = rest /\ given = {}
    <3>1. all \ {} = all
      OBVIOUS
    <3> QED BY <3>1
  <2> HIDE DEF w, given, taken, rest
  <2>3. WithRows(k.world, (k.world.rows \cup given) \ rest, w)
    <3>1. (k.world.rows \cup given) \ rest = k.world.rows \ taken
      BY <2>2
    <3> QED BY <2>1, <3>1
  <2>4. AsAsked(k, H!Shared(w, k.obj), {})
    BY <1>4, <2>3, Regranted DEF given, rest, holder, all
  <2> QED BY <1>4, <2>4 DEF w, answer
<1> QED BY <1>1, <1>2, <1>3, <1>4

\* Who lists the grants of an object finds the grant by which he may.
LEMMA AnswersTheCaller ==
  ASSUME NEW k, H!IsCase(k), IsWorld(k.world)
  PROVE  LET l == H!ListPermissions(k.ctl, k.world, k.caller, k.obj)
         IN (l.status = 200 /\ ~H!IsSuper(k.caller.name)) =>
              H!Permission(k.ctl.sharing, k.obj.model) \in UNION {g.permissions : g \in {x \in l.answer : x.holder \in H!Holders(k.caller.name)}}
<1> DEFINE l == H!ListPermissions(k.ctl, k.world, k.caller, k.obj)
           perm == H!Permission(k.ctl.sharing, k.obj.model)
           name == k.caller.name
           refused == H!SharingObject(k.ctl, k.world, k.caller, k.obj)
<1> SUFFICES ASSUME l.status = 200, ~H!IsSuper(name)
             PROVE  \E g \in l.answer : g.holder \in H!Holders(name) /\ perm \in g.permissions
  OBVIOUS
<1>1. refused = 0 /\ l = H!Shared(k.world, k.obj)
  BY SharingObjectIs DEF H!ListPermissions, H!Refused
<1>2. H!HasPerm(k.world, k.caller, perm, k.obj) /\ name \in DOMAIN Members
  BY <1>1 DEF H!SharingObject
<1>3. perm \in H!Ask(k.world, k.caller, k.obj).cache[k.obj]
  BY <1>2 DEF H!HasPerm
<1>4. H!Ask(k.world, k.caller, k.obj).cache[k.obj] = H!ObjectPermissionsOf(k.world, name, k.obj)
  <2>1. k.caller = [name |-> name, cache |-> [o \in {} |-> {}]]
    BY DEF H!IsCase, H!Fresh
  <2>2. k.obj \notin DOMAIN k.caller.cache /\ DOMAIN k.caller.cache = {} /\ DOMAIN k.caller = {"name", "cache"}
    BY <2>1
  <2> HIDE DEF name
  <2> QED BY <2>2 DEF H!Ask, name
<1>5. PICK r \in k.world.rows : r.obj = k.obj /\ r.holder \in H!Holders(name) /\ r.perm = perm
  BY <1>2, <1>3, <1>4 DEF H!ObjectPermissionsOf
<1> DEFINE g == [holder |-> r.holder, permissions |-> H!Held(k.world, k.obj, r.holder)]
<1>6. perm \in H!Held(k.world, k.obj, r.holder) /\ r.holder \in Holding
  BY <1>5 DEF H!Held, IsWorld
<1>7. g \in H!Collect(k.world, k.obj)
  <2>1. g \in [holder : Holding, permissions : {H!Held(k.world, k.obj, z) : z \in Holding}]
    BY <1>6
  <2>2. g.permissions = H!Held(k.world, k.obj, g.holder) /\ g.permissions # {}
    BY <1>6
  <2> HIDE DEF g
  <2> QED BY <2>1, <2>2, CollectIs
<1>8. l.answer = H!Collect(k.world, k.obj)
  BY <1>1 DEF H!Shared
<1> QED BY <1>5, <1>6, <1>7, <1>8

\* A case of sharing starts in a world of grants.
LEMMA CaseIsWorld == ASSUME NEW k, H!IsCase(k) PROVE IsWorld(k.world)
  BY DEF H!IsCase, IsWorld, Holding

\* After sharing, the holder has what was asked for, and everyone else what he had (crud/sharing.py).
LEMMA SharedAsAsked == ASSUME NEW k, H!IsCase(k) PROVE H!SharedAsAsked(k)
<1>1. AsAsked(k, H!SetPermissions(k.ctl, k.world, k.caller, k.obj, k.payload), {H!FullPermission(n, k.obj.model) : n \in k.payload.permissions})
  BY CaseIsWorld, SetAsAsked
<1>2. AsAsked(k, H!RevokePermissions(k.ctl, k.world, k.caller, k.obj, k.payload), {})
  BY CaseIsWorld, RevokeAsAsked
<1>3. LET l == H!ListPermissions(k.ctl, k.world, k.caller, k.obj)
      IN (l.status = 200 /\ ~H!IsSuper(k.caller.name)) =>
           H!Permission(k.ctl.sharing, k.obj.model) \in UNION {g.permissions : g \in {x \in l.answer : x.holder \in H!Holders(k.caller.name)}}
  BY CaseIsWorld, AnswersTheCaller
<1> QED BY <1>1, <1>2, <1>3 DEF H!SharedAsAsked, AsAsked, Holding

\* A first question is answered from the rows, and its answer cached.
LEMMA AsksFresh ==
  ASSUME NEW w, NEW user, DOMAIN user = {"name", "cache"}, DOMAIN user.cache = {}, NEW obj
  PROVE  /\ H!Ask(w, user, obj).cache[obj] = H!ObjectPermissionsOf(w, user.name, obj)
         /\ DOMAIN H!Ask(w, user, obj) = {"name", "cache"} /\ H!Ask(w, user, obj).name = user.name
  BY DEF H!Ask

\* A user that was just loaded has an empty cache.
LEMMA FreshIs == ASSUME NEW name PROVE LET u == H!Fresh(name) IN DOMAIN u = {"name", "cache"} /\ DOMAIN u.cache = {} /\ u.name = name
  BY DEF H!Fresh

\* A filtered list has the objects for which each permission is held.
LEMMA ListsAgree ==
  ASSUME NEW w, H!Stores(w), NEW u \in DOMAIN Members, Members[u].active, NEW need, NEW objs
  PROVE  H!FilterQueryset(w, u, need, objs) = {o \in objs : \A p \in need : H!HasPerm(w, H!Fresh(u), p, o)}
<1>0. H!GetBackend(w) # "django"
  BY DEF H!Stores
<1>1. CASE H!IsSuper(u)
  <2>1. \A o, p : H!HasPerm(w, H!Fresh(u), p, o)
    BY <1>1, FreshIs DEF H!HasPerm
  <2> QED BY <1>1, <2>1 DEF H!FilterQueryset
<1>2. CASE ~H!IsSuper(u)
  <2>1. \A o, p : H!HasPerm(w, H!Fresh(u), p, o) <=> p \in H!Ask(w, H!Fresh(u), o).cache[o]
    BY <1>0, <1>2, FreshIs DEF H!HasPerm
  <2>2. \A o : H!Ask(w, H!Fresh(u), o).cache[o] = H!ObjectPermissionsOf(w, u, o)
    BY FreshIs, AsksFresh
  <2>3. \A o, p : p \in H!ObjectPermissionsOf(w, u, o) <=> \E r \in w.rows : r.perm = p /\ r.obj = o /\ r.holder \in H!Holders(u)
    BY DEF H!ObjectPermissionsOf
  <2>4. \A o, p : H!HasPerm(w, H!Fresh(u), p, o) <=> \E r \in w.rows : r.perm = p /\ r.obj = o /\ r.holder \in H!Holders(u)
    BY <2>1, <2>2, <2>3
  <2>5. H!FilterQueryset(w, u, need, objs) = {o \in objs : \A p \in need : \E r \in w.rows : r.perm = p /\ r.obj = o /\ r.holder \in H!Holders(u)}
    BY <1>2 DEF H!FilterQueryset
  <2> QED BY <2>4, <2>5
<1> QED BY <1>1, <1>2

\* A grant is seen after the cache of its holder was forgotten.
LEMMA GrantIsSeen ==
  ASSUME NEW k, H!IsCase(k), H!Stores(k.world), k.caller.name \in DOMAIN Members, Members[k.caller.name].active,
         NEW perm, NEW perms, perm \in perms
  PROVE  perm \in H!GetPerms(H!Assign(k.world, {perm}, k.caller.name, k.obj),
                              H!Forget(H!Ask(k.world, k.caller, k.obj), k.caller.name), k.obj, perms)
<1> DEFINE name == k.caller.name
           after == H!Assign(k.world, {perm}, name, k.obj)
           asked == H!Ask(k.world, k.caller, k.obj)
           user == H!Forget(asked, name)
<1>1. DOMAIN asked = {"name", "cache"} /\ asked.name = name
  <2>1. DOMAIN k.caller = {"name", "cache"} /\ DOMAIN k.caller.cache = {}
    BY FreshIs DEF H!IsCase
  <2> HIDE DEF name
  <2> QED BY <2>1, AsksFresh DEF name
<1>2. IsWorld(k.world) /\ WithRows(k.world, k.world.rows \cup {H!Row(p, k.obj, name) : p \in {perm}}, after)
  BY CaseIsWorld, AssignRemove
<1>3. H!GetBackend(after) # "django"
  <2>1. after.configured = k.world.configured /\ after.grantsApp = k.world.grantsApp /\ after.guardian = k.world.guardian
    BY <1>2 DEF WithRows
  <2> HIDE DEF after
  <2> QED BY <2>1 DEF H!Stores, H!GetBackend
<1>4. H!Row(perm, k.obj, name) \in after.rows
  BY <1>2 DEF WithRows
<1> HIDE DEF name, after, asked
<1>5. DOMAIN user = {"name", "cache"} /\ DOMAIN user.cache = {} /\ user.name = name
  BY <1>1 DEF H!Forget
<1> HIDE DEF user
<1>6. perm \in H!ObjectPermissionsOf(after, name, k.obj)
  <2>1. name \in H!Holders(name) /\ name \in DOMAIN Members /\ Members[name].active
    BY DEF H!Holders, name
  <2> QED BY <1>4, <2>1, RowIs DEF H!ObjectPermissionsOf
<1>7. H!HasPerm(after, user, perm, k.obj)
  BY <1>3, <1>5, <1>6, AsksFresh DEF H!HasPerm
<1> QED BY <1>7 DEF H!GetPerms, name, after, asked, user

\* The list, the single check and the grants agree (security/object_permissions.py).
LEMMA GrantsAgree == ASSUME NEW k, H!IsCase(k) PROVE H!GrantsAgree(k)
<1> DEFINE perms == {H!Permission(a, k.obj.model) : a \in {"view", "change"}}
           view == H!Permission("view", k.obj.model)
           objs == k.ctl.scope
<1> SUFFICES ASSUME H!Stores(k.world) PROVE H!GrantsAgree(k)
  BY DEF H!GrantsAgree
<1>1. ASSUME NEW u \in DOMAIN Members, NEW need \in SUBSET perms, need # {}, Members[u].active
      PROVE  H!FilterQueryset(k.world, u, need, objs) = {o \in objs : \A p \in need : H!HasPerm(k.world, H!Fresh(u), p, o)}
  BY <1>1, ListsAgree
<1>2. ASSUME k.caller.name \in DOMAIN Members, Members[k.caller.name].active
      PROVE  view \in H!GetPerms(H!Assign(k.world, {view}, k.caller.name, k.obj), H!Forget(H!Ask(k.world, k.caller, k.obj), k.caller.name), k.obj, perms)
  <2>1. view \in perms
    OBVIOUS
  <2> HIDE DEF perms, view
  <2> QED BY <1>2, <2>1, GrantIsSeen
<1> QED BY <1>1, <1>2 DEF H!GrantsAgree

(********************************* Webhooks ********************************)
\* What a delivery is sent to is the endpoint as it was stored, its secret under the key that a rotation left.
LEMMA StoryIs ==
  ASSUME NEW w, E!IsCase(w), E!Story(w) # None
  PROVE  LET raw == IF w.rotated THEN "raw2" ELSE "raw"
             e == E!Story(w).endpoint
         IN /\ e.url = w.endpoint.url /\ e.events = w.endpoint.events /\ e.active = w.endpoint.active
            /\ e.tenant = w.endpoint.tenant /\ e.owner = w.ownerNow
            /\ e.secret.raw = raw
            /\ w.keysBetween # None => e.secret.key = Head(w.keysBetween)
            /\ \A x \in E!Story(w).queued : /\ x.active = w.endpoint.active /\ x.tenant = w.endpoint.tenant
                                            /\ x.owner = w.endpoint.owner /\ x.active
                                            /\ E!Selected(w.args, x) /\ ~E!Refused(w.args)
<1> DEFINE raw == IF w.rotated THEN "raw2" ELSE "raw"
           made == E!CreateEndpoint(w, w.endpoint)
           e == IF w.rotated THEN E!RotateSecret(w, made) ELSE made
           end == E!EncryptSecrets(w, e)
<1>1. made # None /\ end.secret # None
      /\ E!Story(w) = [queued |-> E!Publish(w.args, w.type, {e}), endpoint |-> [end EXCEPT !.owner = w.ownerNow]]
  BY DEF E!Story
<1>2. made = [w.endpoint EXCEPT !.secret = E!Encrypt(w.keysThen, "raw")]
  BY <1>1 DEF E!CreateEndpoint
<1>3. e = [w.endpoint EXCEPT !.secret = E!Encrypt(w.keysThen, raw)]
  BY <1>2 DEF E!RotateSecret, E!IsCase
<1>4. end = [w.endpoint EXCEPT !.secret = end.secret]
      /\ end.secret.raw = raw /\ (w.keysBetween # None => end.secret.key = Head(w.keysBetween))
  <2> HIDE DEF e
  <2>1. e.secret = E!Encrypt(w.keysThen, raw) /\ \A s : [e EXCEPT !.secret = s] = [w.endpoint EXCEPT !.secret = s]
    BY <1>3 DEF E!IsCase
  <2>2. CASE w.keysBetween = None
    <3>1. end = e
      BY <2>2 DEF E!EncryptSecrets
    <3>2. e.secret.raw = raw
      BY <2>1 DEF E!Encrypt
    <3>3. e = [w.endpoint EXCEPT !.secret = e.secret]
      BY <2>1, <1>3
    <3> QED BY <3>1, <3>2, <3>3, <2>2
  <2>3. CASE w.keysBetween # None
    <3>1. end = [w.endpoint EXCEPT !.secret = E!Reencrypt(w.keysBetween, e.secret)]
      BY <2>1, <2>3, <1>3 DEF E!EncryptSecrets
    <3>2. end.secret = E!Reencrypt(w.keysBetween, e.secret)
      BY <3>1 DEF E!IsCase
    <3>3. end.secret = E!Encrypt(w.keysBetween, e.secret.raw) /\ w.keysBetween # <<>>
      BY <3>2, <1>1, <2>3 DEF E!Reencrypt, E!IsCase
    <3> QED BY <3>1, <3>2, <3>3, <2>1 DEF E!Encrypt
  <2> QED BY <2>2, <2>3
<1>5. \A x \in E!Story(w).queued : x = e /\ x.active /\ E!Selected(w.args, x) /\ ~E!Refused(w.args)
  BY <1>1 DEF E!Publish
<1> HIDE DEF end, e
<1>6. E!Story(w).endpoint = [end EXCEPT !.owner = w.ownerNow]
  BY <1>1
<1> QED BY <1>3, <1>4, <1>5, <1>6 DEF E!IsCase

\* Whatever happened to the keys, a delivery that is sent is signed so that the subscriber can verify
\* it, and goes to the address that was checked (contrib/webhooks/outbox.py, signing.py, network.py).
LEMMA WebhooksDeliver == ASSUME NEW w, E!IsCase(w) PROVE E!DeliversSafely(w)
<1> DEFINE story == E!Story(w)
           attempt == E!Attempt(w, E!AudienceOf(w.args), story.endpoint, "body")
           raw == IF w.rotated THEN "raw2" ELSE "raw"
           headers == E!SignatureHeaders(raw, "msg", w.now, "body")
<1> SUFFICES ASSUME story # None
             PROVE  /\ \A e \in story.queued : e.active /\ (w.args.broadcast \/ e.tenant = w.args.tenant)
                    /\ \A key \in (IF w.keysBetween = None THEN {} ELSE {Head(w.keysBetween)}) : E!Decrypt(<<key>>, story.endpoint.secret) = raw
                    /\ (story.queued # {} /\ attempt # None) =>
                         /\ (attempt.sent # None) =>
                              /\ w.args.broadcast \/ w.args.owner \in {None, w.ownerNow}
                              /\ w.policy.allowPrivate \/ E!IsPublicAddress(w.peer)
                              /\ E!CheckUrl(story.endpoint.url, w.policy)
                              /\ \A secrets \in {{"raw"}, {"raw2"}, {"raw", "raw2"}}, body \in {"body", "other"}, at \in w.now - 2 .. w.now + 2 :
                                   E!VerifySignature(secrets, attempt.sent.headers, body, 1, at) <=> (raw \in secrets /\ body = "body" /\ at \in w.now - 1 .. w.now + 1)
                         /\ attempt.success => (attempt.sent # None /\ w.answer \in 200 .. 299)
  BY DEF E!DeliversSafely
<1> HIDE DEF story
<1>1. /\ story.endpoint.owner = w.ownerNow /\ story.endpoint.secret.raw = raw
      /\ w.keysBetween # None => story.endpoint.secret.key = Head(w.keysBetween)
      /\ \A x \in story.queued : x.active /\ E!Selected(w.args, x)
  BY StoryIs DEF story
<1>2. \A e \in story.queued : e.active /\ (w.args.broadcast \/ e.tenant = w.args.tenant)
  BY <1>1 DEF E!Selected
<1>3. \A key \in (IF w.keysBetween = None THEN {} ELSE {Head(w.keysBetween)}) : E!Decrypt(<<key>>, story.endpoint.secret) = raw
  BY <1>1 DEF E!Decrypt, E!ToSet
<1>4. ASSUME attempt # None
      PROVE  LET status == IF E!AudienceMatches(E!AudienceOf(w.args), story.endpoint)
                           THEN E!Send(story.endpoint.url, w.policy, w.peer, w.answer) ELSE None
             IN attempt = [status |-> status, success |-> status # None /\ status \in 200 .. 299,
                           sent |-> IF status = None THEN None ELSE [headers |-> headers, body |-> "body"]]
  BY <1>4, <1>1 DEF E!Attempt, E!Decrypt
<1>5. headers \in [id : {"msg"}, stamp : Int, signature : E!Signatures] /\ [headers |-> headers, body |-> "body"] \in E!Messages
  <2>1. raw \in {"raw", "raw2"} /\ w.now \in Int
    BY DEF E!IsCase
  <2> HIDE DEF raw
  <2>2. E!Sign(raw, "msg", w.now, "body") \in E!Signatures
    BY <2>1 DEF E!Sign, E!Signatures
  <2>3. headers \in [id : {"msg"}, stamp : Int, signature : E!Signatures]
    BY <2>1, <2>2 DEF E!SignatureHeaders
  <2> HIDE DEF headers
  <2> QED BY <2>3 DEF E!Messages
<1>6. headers.id # None /\ headers.stamp # None /\ headers.signature # None /\ [headers |-> headers, body |-> "body"] # None
  BY <1>5, NoneIsNothing DEF Literals
<1>7. ASSUME NEW secrets \in {{"raw"}, {"raw2"}, {"raw", "raw2"}}, NEW body \in {"body", "other"}, NEW at \in w.now - 2 .. w.now + 2
      PROVE E!VerifySignature(secrets, headers, body, 1, at) <=> (raw \in secrets /\ body = "body" /\ at \in w.now - 1 .. w.now + 1)
  <2>1. headers.stamp = w.now /\ headers.id = "msg" /\ headers.signature = <<raw, "msg", w.now, "body">>
    BY DEF E!SignatureHeaders, E!Sign
  <2>2. (\E s \in secrets : E!Sign(s, headers.id, headers.stamp, body) = headers.signature) <=> raw \in secrets /\ body = "body"
    BY <2>1 DEF E!Sign
  <2>3. E!Distance(at, w.now) <= 1 <=> at \in w.now - 1 .. w.now + 1
    BY DEF E!Distance, E!IsCase
  <2> HIDE DEF headers, raw
  <2> QED BY <1>6, <2>1, <2>2, <2>3 DEF E!VerifySignature
<1>8. ASSUME attempt # None, attempt.sent # None
      PROVE  /\ w.args.broadcast \/ w.args.owner \in {None, w.ownerNow}
             /\ w.policy.allowPrivate \/ E!IsPublicAddress(w.peer)
             /\ E!CheckUrl(story.endpoint.url, w.policy)
             /\ attempt.sent.headers = headers
  BY <1>4, <1>8, <1>1 DEF E!AudienceMatches, E!AudienceOf, E!Send, E!Connect
<1>9. ASSUME attempt # None, attempt.success PROVE attempt.sent # None /\ w.answer \in 200 .. 299
  <2> DEFINE status == IF E!AudienceMatches(E!AudienceOf(w.args), story.endpoint)
                       THEN E!Send(story.endpoint.url, w.policy, w.peer, w.answer) ELSE None
             message == [headers |-> headers, body |-> "body"]
  <2>1. attempt.success = (status # None /\ status \in 200 .. 299) /\ attempt.sent = IF status = None THEN None ELSE message
    BY <1>4, <1>9
  <2>2. message # None
    BY <1>6
  <2> HIDE DEF message, attempt
  <2>3. status # None /\ status \in 200 .. 299 /\ attempt.sent = message
    BY <2>1, <1>9
  <2> QED BY <2>2, <2>3 DEF E!Send
<1> HIDE DEF attempt, headers, raw
<1> QED BY <1>2, <1>3, <1>7, <1>8, <1>9

\* A strict prefix is a shorter prefix.
LEMMA StrictPrefix ==
  ASSUME NEW s \in Seq(STRING), NEW t \in Seq(STRING)
  PROVE  E!IsStrictPrefix(s, t) <=> Len(s) < Len(t) /\ E!IsPrefix(s, t)
  BY DEF E!IsStrictPrefix, E!IsPrefix

\* An event is delivered to the endpoints whose subscription, tenant and owner match it, and to no other.
LEMMA WebhooksServe == ASSUME NEW w, E!IsCase(w) PROVE E!SubscribersAreServed(w)
<1> DEFINE all == [owner |-> None, tenant |-> "", broadcast |-> TRUE]
<1>1. ASSUME w.available # None, E!CheckEvents(w, w.endpoint.events), w.endpoint.events # {}, w.endpoint.active
      PROVE  \E name \in w.available : E!Publish(all, name, {w.endpoint}) # {}
  <2>1. PICK p \in w.endpoint.events : TRUE
    BY <1>1
  <2>2. PICK name \in w.available : E!EventMatches({p}, name)
    BY <1>1 DEF E!CheckEvents
  <2>3. E!EventMatches(w.endpoint.events, name)
    BY <2>2 DEF E!EventMatches
  <2>4. w.endpoint \in E!Publish(all, name, {w.endpoint})
    BY <2>3, <1>1 DEF E!Publish, E!Refused, E!Selected
  <2> QED BY <2>2, <2>4
<1>2. ASSUME NEW p \in w.endpoint.events
      PROVE  E!PatternMatches(p, w.type) <=>
               (p.kind = "all" \/ (p.kind = "exact" /\ p.words = w.type) \/ (p.kind = "below" /\ Len(p.words) < Len(w.type) /\ E!IsPrefix(p.words, w.type)))
  <2>1. p.words \in Seq(STRING) /\ w.type \in Seq(STRING)
    BY DEF E!IsCase, E!Patterns
  <2> QED BY <2>1, StrictPrefix DEF E!PatternMatches
<1>3. E!Selected(w.args, w.endpoint) <=> E!AudienceMatches(E!AudienceOf(w.args), w.endpoint)
  BY DEF E!Selected, E!AudienceMatches, E!AudienceOf
<1>4. ASSUME ~E!Refused(w.args)
      PROVE w.endpoint \in E!Publish(w.args, w.type, {w.endpoint}) <=>
              /\ w.endpoint.active /\ E!AudienceMatches(E!AudienceOf(w.args), w.endpoint)
              /\ \E p \in w.endpoint.events : E!PatternMatches(p, w.type)
  BY <1>3, <1>4 DEF E!Publish, E!EventMatches
<1> QED BY <1>1, <1>2, <1>4 DEF E!SubscribersAreServed

(****************************** Registration ******************************)
\* The view of an operation is of one of four kinds.
LEMMA ImplementationKinds ==
  ASSUME NEW o, N!IsCase(o)
  PROVE  N!Implementation(o) \in {"sync", "generator", "async", "asyncGenerator"}
BY DEF N!IsCase, N!Implementation, N!Kinds

\* What an operation promises of its transaction, its key and its hook, and which view drops them.
LEMMA PromisesKept ==
  ASSUME NEW o, N!IsCase(o)
  PROVE  N!Promised(o) \ N!ViewKeeps[N!Implementation(o)]
         = (IF N!Atomic(o) /\ N!Implementation(o) # "sync" THEN {"transaction"} ELSE {})
           \cup (IF N!Policies(o) > 0 /\ N!IsGenerator(o) THEN {"key"} ELSE {})
           \cup (IF o.after # "base" /\ N!IsGenerator(o) THEN {"after"} ELSE {})
<1>1. N!Implementation(o) \in {"sync", "generator", "async", "asyncGenerator"}
  BY ImplementationKinds
<1>2. /\ N!ViewKeeps["sync"] = {"transaction", "key", "after"} /\ N!ViewKeeps["generator"] = {}
      /\ N!ViewKeeps["async"] = {"key", "after"} /\ N!ViewKeeps["asyncGenerator"] = {}
  BY DEF N!ViewKeeps
<1> QED BY <1>1, <1>2 DEF N!Promised, N!IsGenerator

\* as_router() accepts what runs, and nothing else (routing/compiler.py:338-384, routing/invocation.py).
LEMMA RegisteredRun ==
  ASSUME NEW o, N!IsCase(o)
  PROVE  N!RegisteredRuns(o)
<1> DEFINE mayDrop == IF N!IsGenerator(o) /\ (o.after = "sync" \/ N!IsAsync(o)) THEN {"after"} ELSE {}
           dropped == N!Promised(o) \ N!ViewKeeps[N!Implementation(o)]
<1>1. N!Implementation(o) \in {"sync", "generator", "async", "asyncGenerator"}
  BY ImplementationKinds
<1>2. N!RegisteredRuns(o) <=> (N!Registers(o) <=> N!LeftOut(o) \subseteq mayDrop)
  BY DEF N!RegisteredRuns
<1> HIDE DEF mayDrop
<1>a. mayDrop \subseteq {"after"}
  BY DEF mayDrop
<1>3. N!LeftOut(o) \subseteq mayDrop <=>
        /\ dropped \subseteq mayDrop
        /\ ~N!Awaits(o) => N!Coroutines(o) \subseteq mayDrop
        /\ N!HasInstance(o) /\ ("inject" \in o.bindings => o.container # "none")
        /\ o.raises \subseteq DOMAIN o.rules
        /\ N!Policies(o) <= 1
        /\ N!Policies(o) > 0 /\ (\E p \in N!Permissions(o) : N!ObjectDependent(p)) => o.replay # "base"
  <2> DEFINE waits == IF N!Awaits(o) THEN {} ELSE N!Coroutines(o)
             instance == IF N!HasInstance(o) THEN {} ELSE {"instance"}
             inject == IF "inject" \in o.bindings /\ o.container = "none" THEN {"inject"} ELSE {}
             unruled == {e \in o.raises : e \notin DOMAIN o.rules}
             keys == IF N!Policies(o) > 1 THEN {"key"} ELSE {}
             replay == IF N!Policies(o) > 0 /\ o.replay = "base" /\ \E p \in N!Permissions(o) : N!ObjectDependent(p) THEN {"replay"} ELSE {}
  <2>1. N!LeftOut(o) = dropped \cup waits \cup instance \cup inject \cup unruled \cup keys \cup replay
    BY DEF N!LeftOut
  <2>2. {"instance", "inject", "key", "replay"} \cap mayDrop = {} /\ o.raises \cap mayDrop = {}
    BY <1>a DEF N!IsCase
  <2>3. (waits \subseteq mayDrop) <=> (~N!Awaits(o) => N!Coroutines(o) \subseteq mayDrop)
    OBVIOUS
  <2>4. (instance \subseteq mayDrop) <=> N!HasInstance(o)
    BY <2>2
  <2>5. (inject \subseteq mayDrop) <=> ("inject" \in o.bindings => o.container # "none")
    BY <2>2
  <2>6. (unruled \subseteq mayDrop) <=> o.raises \subseteq DOMAIN o.rules
    BY <2>2
  <2>7. (keys \subseteq mayDrop) <=> N!Policies(o) <= 1
    <3>1. N!Policies(o) \in Nat
      BY DEF N!IsCase
    <3> QED BY <2>2, <3>1
  <2>8. (replay \subseteq mayDrop) <=>
        (N!Policies(o) > 0 /\ (\E p \in N!Permissions(o) : N!ObjectDependent(p)) => o.replay # "base")
    BY <2>2
  <2>9. (N!LeftOut(o) \subseteq mayDrop) <=>
        /\ dropped \subseteq mayDrop /\ waits \subseteq mayDrop /\ instance \subseteq mayDrop /\ inject \subseteq mayDrop
        /\ unruled \subseteq mayDrop /\ keys \subseteq mayDrop /\ replay \subseteq mayDrop
    <3> HIDE DEF dropped, waits, instance, inject, unruled, keys, replay
    <3> QED BY <2>1
  <2> HIDE DEF dropped, waits, instance, inject, unruled, keys, replay
  <2> QED BY <2>3, <2>4, <2>5, <2>6, <2>7, <2>8, <2>9
<1>4. dropped \subseteq mayDrop <=>
        /\ N!Atomic(o) => N!Implementation(o) = "sync"
        /\ N!Policies(o) > 0 => ~N!IsGenerator(o)
        /\ o.after # "base" /\ N!IsGenerator(o) => o.after = "sync" \/ N!IsAsync(o)
  BY PromisesKept DEF mayDrop
<1>5. ~N!Awaits(o) => (N!Coroutines(o) \subseteq mayDrop <=>
        /\ o.before # "async" /\ (o.replay = "async" => ~(N!Policies(o) > 0))
        /\ o.after # "async"
        /\ \A p \in N!Permissions(o) : ~N!RequiresAsync(p)
        /\ "asyncOnly" \notin N!Hooks(o) /\ "asyncResolve" \notin o.bindings)
  BY DEF N!Coroutines, N!Awaits, mayDrop
<1>6. N!Awaits(o) = N!IsAsync(o) /\ (N!Implementation(o) = "sync" <=> ~N!IsAsync(o) /\ ~N!IsGenerator(o))
  BY <1>1 DEF N!Awaits, N!IsAsync, N!IsGenerator
<1>7. N!HasInstance(o) <=> N!ProvidesInstances(o) /\ (N!IsAsync(o) \/ N!SupportsSync(o))
  <2>1. CASE o.container = "none"
    <3>1. N!HasInstance(o) <=> ~o.needsArgs
      BY <2>1 DEF N!HasInstance
    <3> QED BY <2>1, <3>1 DEF N!ProvidesInstances, N!SupportsSync
  <2>2. CASE o.container # "none" /\ o.singleton
    BY <2>2 DEF N!HasInstance, N!ProvidesInstances, N!SupportsSync, N!Resolves
  <2>3. CASE o.container # "none" /\ ~o.singleton
    BY <1>6, <2>3 DEF N!HasInstance, N!ProvidesInstances, N!SupportsSync, N!Resolves
  <2> QED BY <2>1, <2>2, <2>3
<1>8. N!Registers(o) <=>
        /\ N!ProvidesInstances(o) /\ (N!IsAsync(o) \/ N!SupportsSync(o))
        /\ ~N!IsAsync(o) => /\ \A p \in N!Permissions(o) : ~N!RequiresAsync(p)
                            /\ o.before # "async" /\ o.after # "async" /\ "asyncOnly" \notin N!Hooks(o)
                            /\ "asyncResolve" \notin o.bindings
                            /\ N!Policies(o) = 1 => o.replay # "async"
        /\ N!Atomic(o) => ~N!IsAsync(o) /\ ~N!IsGenerator(o)
        /\ "inject" \in o.bindings => o.container # "none"
        /\ o.raises \subseteq DOMAIN o.rules
        /\ N!Policies(o) <= 1
        /\ N!Policies(o) = 1 => ~N!IsGenerator(o) /\ ((\E p \in N!Permissions(o) : N!ObjectDependent(p)) => o.replay # "base")
  BY DEF N!Registers, N!SyncRules, N!AtomicRules, N!BindingRules, N!RaisesRules, N!IdempotencyRules
<1>9. N!Policies(o) \in Nat /\ o.after \in {"base", "sync", "async"}
  BY DEF N!IsCase
<1> QED BY <1>2, <1>3, <1>4, <1>5, <1>6, <1>7, <1>8, <1>9

\* What a registered operation answers is documented (routing/operations.py, routing/compiler.py).
LEMMA AnswersDocumented ==
  ASSUME NEW o, N!IsCase(o)
  PROVE  N!AnswersAreDocumented(o)
<1> SUFFICES ASSUME N!Registers(o), N!Option(o, "document", TRUE), NEW s \in N!Answers(o)
             PROVE  s \in o.response \cup N!Codes(o)
  BY DEF N!AnswersAreDocumented, N!Documented
<1>1. o.raises \subseteq DOMAIN o.rules
  BY DEF N!Registers, N!RaisesRules
<1> DEFINE When(n) ==
  \/ n = 401 /\ N!Option(o, "auth", "none") # "none"
  \/ n = 403 /\ (N!Permissions(o) # {} \/ (o.model # None /\ o.model.tenant))
  \/ n = 404 /\ o.model # None /\ (o.model.lookup \/ o.model.parent)
  \/ n = 422 /\ N!HasParameters(o)
  \/ n = 400 /\ N!HasParameters(o) /\ o.methods \cap N!BodyMethods # {}
  \/ n = 412 /\ o.model # None /\ o.model.etag # "none" /\ o.model.name \in N!ConditionalWrites
  \/ n = 428 /\ o.model # None /\ o.model.etag = "required" /\ o.model.name \in N!ConditionalWrites
  \/ n = 429 /\ N!Option(o, "throttle", "none") # "none"
<1>2. \/ s \in o.response
      \/ \E e \in o.raises : s = o.rules[e]
      \/ s \in {400, 401, 403, 404, 412, 422, 428, 429} /\ When(s)
  <2>1. N!Answers(o) = o.response \cup {n \in {400, 401, 403, 404, 412, 422, 428, 429} : When(n)} \cup {o.rules[e] : e \in o.raises}
    BY DEF N!Answers
  <2> HIDE DEF When
  <2> QED BY <2>1
<1>3. CASE s \in o.response \/ \E e \in o.raises : s = o.rules[e]
  BY <1>1, <1>3 DEF N!Codes
<1>4. CASE s \in {400, 401, 403, 404, 412, 422, 428, 429} /\ When(s)
  <2>1. o.model # None => /\ o.model.lookup \/ o.model.parent => 404 \in N!OfModel(o)
                          /\ o.model.tenant => 403 \in N!OfModel(o)
                          /\ o.model.etag # "none" /\ o.model.name \in N!ConditionalWrites => 412 \in N!OfModel(o)
                          /\ o.model.etag = "required" /\ o.model.name \in N!ConditionalWrites => 428 \in N!OfModel(o)
    BY DEF N!OfModel
  <2>2. N!OfModel(o) \subseteq N!Codes(o)
    BY DEF N!Codes
  <2>3. N!Option(o, "auth", "none") # "none" => 401 \in N!Codes(o)
    BY DEF N!Codes
  <2>4. N!Permissions(o) # {} => 403 \in N!Codes(o)
    BY DEF N!Codes
  <2>5. N!Option(o, "throttle", "none") # "none" => 429 \in N!Codes(o)
    BY DEF N!Codes
  <2>6. N!HasParameters(o) => 422 \in N!Codes(o) /\ (o.methods \cap N!BodyMethods # {} => 400 \in N!Codes(o))
    BY DEF N!Codes
  <2>7. CASE s \in {401, 403, 429}
    BY <1>4, <2>1, <2>2, <2>3, <2>4, <2>5, <2>7
  <2>8. CASE s \in {400, 422}
    BY <1>4, <2>6, <2>8
  <2>9. CASE s \in {404, 412, 428}
    BY <1>4, <2>1, <2>2, <2>9
  <2> QED BY <1>4, <2>7, <2>8, <2>9
<1> QED BY <1>2, <1>3, <1>4

(******************************** Clients *********************************)
\* Two answers of one operation with the same status and fitting media types are one answer.
LEMMA AnswersApart ==
  ASSUME NEW op, \A a, b \in op.answers : a.status = b.status /\ b.media \in {None, a.media} => a = b,
         NEW v \in K!Variants(op), NEW w \in K!Variants(op), w.status = v.status, w.media \in {None, v.media}
  PROVE  w = v
<1>1. PICK a \in op.answers : a.status \in 200 .. 299 /\ v = K!Read(a)
  BY DEF K!Variants
<1>2. PICK b \in op.answers : b.status \in 200 .. 299 /\ w = K!Read(b)
  BY DEF K!Variants
<1>3. v.status = a.status /\ v.media = (IF a.status = 204 THEN None ELSE a.media)
  BY <1>1 DEF K!Read, K!Variant
<1>4. w.status = b.status /\ w.media = (IF b.status = 204 THEN None ELSE b.media)
  BY <1>2 DEF K!Read, K!Variant
<1>5. CASE a.status = 204
  BY <1>1, <1>2, <1>3, <1>4, <1>5 DEF K!Read
<1>6. CASE a.status # 204
  <2>1. b.media \in {None, a.media}
    BY <1>3, <1>4, <1>6
  <2> QED BY <1>1, <1>2, <1>3, <1>4, <2>1
<1> QED BY <1>5, <1>6

\* An answer has the type of its status and media type (codegen/python.py:839-857).
LEMMA AnswersTyped ==
  ASSUME NEW c, K!IsAnswered(c)
  PROVE  K!AnswersAreTyped(c)
<1> SUFFICES ASSUME NEW op \in K!Operations(c.doc), NEW style \in K!Styles, NEW v \in K!Variants(op)
             PROVE  /\ v.schema \in K!Decoded(op, style, v.status, v.media) \/ K!Streaming(op)
                    /\ style = "pydantic" /\ ~K!Streaming(op) => K!Decoded(op, style, v.status, v.media) = {v.schema}
                    /\ K!Decoded(op, style, 400, v.media) = {"ApiError"}
  BY DEF K!AnswersAreTyped
<1>1. \A a, b \in op.answers : a.status = b.status /\ b.media \in {None, a.media} => a = b
  BY DEF K!IsAnswered
<1>2. v.status \in 200 .. 299 /\ (v.status = 204 => v.schema = "null")
  <2>1. PICK a \in op.answers : a.status \in 200 .. 299 /\ v = K!Read(a)
    BY DEF K!Variants
  <2> QED BY <2>1 DEF K!Read, K!Variant
<1>3. K!Decoded(op, style, 400, v.media) = {"ApiError"}
  BY DEF K!Decoded
<1> DEFINE fits == {w \in K!Variants(op) : K!Matches(w, v.status, v.media)}
<1>4. fits = {v}
  <2>1. v \in fits
    BY DEF K!Matches
  <2>2. \A w \in fits : w = v
    BY <1>1, AnswersApart DEF K!Matches
  <2> QED BY <2>1, <2>2
<1>5. v.schema \in K!Result(op)
  BY <1>2 DEF K!Result, K!HasBody
<1>6. K!Variants(op) = {v} => K!Result(op) = {v.schema}
  BY <1>2 DEF K!Result, K!HasBody
<1>7. CASE K!Streaming(op)
  BY <1>3, <1>7
<1>8. CASE ~K!Streaming(op)
  <2> DEFINE chosen == style = "pydantic" /\ (\E x, y \in K!Variants(op) : x # y) /\ fits # {}
  <2>1. K!Decoded(op, style, v.status, v.media) = IF chosen THEN {w.schema : w \in fits} ELSE K!Result(op)
    BY <1>2, <1>8 DEF K!Decoded
  <2> HIDE DEF fits
  <2>2. chosen => {w.schema : w \in fits} = {v.schema}
    BY <1>4
  <2>3. style = "pydantic" /\ ~chosen => K!Result(op) = {v.schema}
    BY <1>4, <1>6
  <2> QED BY <1>3, <1>5, <2>1, <2>2, <2>3
<1> QED BY <1>7, <1>8

\* The parameters of an operation differ in location or name.
LEMMA KeysApart ==
  ASSUME NEW c, K!IsCase(c), NEW op \in K!Operations(c.doc), NEW p \in K!Parameters(op), NEW q \in K!Parameters(op)
  PROVE  K!Key(p) \in K!Keys /\ (K!Key(p) = K!Key(q) => p = q)
<1>1. \A ps \in {op.shared, op.own} : /\ \A x \in ps : K!Key(x) \in K!Keys
                                      /\ \A x, y \in ps : K!Key(x) = K!Key(y) => x = y
  BY DEF K!IsCase
<1>2. /\ \A x \in op.shared \cup op.own : K!Key(x) \in K!Keys
      /\ \A x, y \in op.shared : K!Key(x) = K!Key(y) => x = y
      /\ \A x, y \in op.own : K!Key(x) = K!Key(y) => x = y
  BY <1>1
<1> QED BY <1>2 DEF K!Parameters

\* The name of a method is that of one operation.
LEMMA MethodIsItsOwn ==
  ASSUME NEW c, K!IsCase(c), NEW style, K!Accepts(c.doc, style), NEW op \in K!Operations(c.doc)
  PROVE  K!Method(c.doc, op.words) = op
<1> DEFINE ops == c.doc.operations
           same == {i \in DOMAIN ops : ops[i].words = op.words}
<1>1. PICK n \in DOMAIN ops : op = ops[n]
  BY DEF K!Operations
<1>2. \A i, j \in DOMAIN ops : ops[i].words = ops[j].words => i = j
  BY DEF K!Accepts, K!IsUnique, K!MethodNames
<1>3. same = {n} /\ n \in Nat
  BY <1>1, <1>2 DEF K!IsCase
<1>4. (CHOOSE i \in same : \A j \in same : j <= i) = n
  BY <1>3
<1>5. K!Method(c.doc, op.words) = ops[CHOOSE i \in same : \A j \in same : j <= i]
  BY DEF K!Method
<1> QED BY <1>1, <1>4, <1>5

\* The parameters of an accepted operation are put in places of their own.
LEMMA ArgumentsApart ==
  ASSUME NEW c, K!IsCase(c), NEW style \in K!Styles, K!Accepts(c.doc, style), NEW op \in K!Operations(c.doc), ~K!Clash(op, style),
         NEW p \in K!Parameters(op), NEW q \in K!Parameters(op), K!Argument(style, p) = K!Argument(style, q)
  PROVE  p = q
<1>1. CASE style # "typescript"
  <2>1. K!PyIdentifier(p.name) = K!PyIdentifier(q.name)
    BY <1>1 DEF K!Argument
  <2>2. K!IsUnique(K!PyNames(K!Parameters(op)))
    BY <1>1 DEF K!Clash
  <2> QED BY <2>1, <2>2 DEF K!IsUnique, K!PyNames
<1>2. CASE style = "typescript"
  <2>1. K!Key(p) \in K!Keys /\ K!Key(q) \in K!Keys /\ (K!Key(p) = K!Key(q) => p = q)
    BY KeysApart
  <2>2. K!IsUnique(K!TsNames(op))
    BY <1>2 DEF K!Accepts
  <2>3. K!Key(p)[1] = p.location /\ K!Key(q)[1] = q.location
    BY DEF K!Key
  <2>4. K!Argument(style, p)[1] = p.location /\ K!Argument(style, q)[1] = q.location
    BY <1>2, <2>3 DEF K!Argument
  <2>5. CASE p.location = "path" /\ q.location = "path"
    <3>1. K!TsIdentifier(p.name) = K!TsIdentifier(q.name)
      BY <1>2, <2>5 DEF K!Argument
    <3>2. p \in K!At(op, {"path"}) /\ q \in K!At(op, {"path"})
      BY <2>5 DEF K!At
    <3> QED BY <2>2, <3>1, <3>2 DEF K!IsUnique, K!TsNames
  <2>6. CASE p.location # "path" /\ q.location # "path"
    BY <1>2, <2>1, <2>6 DEF K!Argument
  <2> QED BY <2>4, <2>5, <2>6
<1> QED BY <1>1, <1>2

\* What is sent at a place are the parameters that were given and belong there, under their names.
LEMMA SentIsWanted ==
  ASSUME NEW c, K!IsCase(c), NEW style \in K!Styles, K!Accepts(c.doc, style), NEW op \in K!Operations(c.doc), ~K!Clash(op, style),
         NEW given \in SUBSET K!Parameters(op), NEW where
  PROVE  K!Sent(op, style, given, where) = K!Wanted(given, where)
<1>1. ASSUME NEW p \in K!Parameters(op)
      PROVE  K!Held(style, given, p) = (IF p \in given THEN K!Key(p) ELSE None) /\ K!Key(p) # None
  <2> DEFINE bound == {q \in given : K!Argument(style, q) = K!Argument(style, p)}
  <2>1. bound = IF p \in given THEN {p} ELSE {}
    BY ArgumentsApart
  <2>2. K!Held(style, given, p) = IF bound = {} THEN None ELSE K!Key(CHOOSE q \in bound : TRUE)
    BY DEF K!Held
  <2>3. K!Key(p) # None
    BY KeysApart, NoneIsNothing
  <2> QED BY <2>1, <2>2, <2>3
<1> DEFINE All == {[wire |-> p.name.wire, value |-> K!Held(style, given, p)] : p \in K!At(op, {where})}
<1>2. K!Sent(op, style, given, where) = {s \in All : s.value # None}
  BY DEF K!Sent
<1>3. ASSUME NEW s \in All, s.value # None PROVE s \in K!Wanted(given, where)
  <2>1. PICK p \in K!At(op, {where}) : s = [wire |-> p.name.wire, value |-> K!Held(style, given, p)]
    OBVIOUS
  <2>2. p \in K!Parameters(op) /\ p.location = where
    BY DEF K!At
  <2>3. p \in given /\ s = [wire |-> p.name.wire, value |-> K!Key(p)]
    BY <1>1, <1>3, <2>1, <2>2
  <2> QED BY <2>2, <2>3 DEF K!Wanted
<1>4. ASSUME NEW s \in K!Wanted(given, where) PROVE s \in All /\ s.value # None
  <2>1. PICK p \in given : p.location = where /\ s = [wire |-> p.name.wire, value |-> K!Key(p)]
    BY DEF K!Wanted
  <2>2. p \in K!At(op, {where})
    BY <2>1 DEF K!At
  <2>3. K!Held(style, given, p) = K!Key(p) /\ K!Key(p) # None
    BY <1>1
  <2>4. s = [wire |-> p.name.wire, value |-> K!Held(style, given, p)] /\ s.value = K!Key(p)
    BY <2>1, <2>3
  <2> QED BY <2>2, <2>3, <2>4
<1> HIDE DEF All
<1> QED BY <1>2, <1>3, <1>4

\* The body that is sent has the fields that were set, under their names.
LEMMA BodyIsWanted ==
  ASSUME NEW c, K!IsCase(c), NEW style \in K!Styles, K!Accepts(c.doc, style), NEW op
  PROVE  K!SentBody(c.doc, op, style, c.body) = K!WantedBody(op, c.body)
<1> DEFINE body == c.body
           set == {n \in c.doc.fields : \E wire \in DOMAIN body : K!IsSet(c.doc, style, n, wire)}
           kept == {m \in set : op.body = "multipart" => K!ValueOf(c.doc, style, body, m) # "null"}
<1>1. ASSUME NEW n \in c.doc.fields, NEW wire PROVE K!IsSet(c.doc, style, n, wire) <=> wire = n.wire
  <2>1. CASE style = "pydantic"
    <3>1. \A m \in c.doc.fields : K!FieldName(m) = K!FieldName(n) => m = n
      BY <2>1 DEF K!Accepts, K!IsUnique, K!FieldNames
    <3>2. \A m : K!Attribute(style, m) = K!FieldName(m)
      BY <2>1 DEF K!Attribute
    <3> QED BY <3>1, <3>2 DEF K!IsSet
  <2>2. CASE style # "pydantic"
    <3>1. \A m : K!Attribute(style, m) = <<m.wire, 0>>
      BY <2>2 DEF K!Attribute
    <3> QED BY <3>1 DEF K!IsSet
  <2> QED BY <2>1, <2>2
<1>2. set = {n \in c.doc.fields : n.wire \in DOMAIN body}
  BY <1>1
<1>3. ASSUME NEW n \in c.doc.fields, n.wire \in DOMAIN body PROVE K!ValueOf(c.doc, style, body, n) = body[n.wire]
  <2>1. (CHOOSE wire \in DOMAIN body : K!IsSet(c.doc, style, n, wire)) = n.wire
    BY <1>1, <1>3
  <2> QED BY <2>1 DEF K!ValueOf
<1>4. K!SentBody(c.doc, op, style, body) = {<<n.wire, K!ValueOf(c.doc, style, body, n)>> : n \in kept}
  BY DEF K!SentBody
<1>5. ASSUME NEW n \in kept PROVE <<n.wire, K!ValueOf(c.doc, style, body, n)>> \in K!WantedBody(op, body)
  BY <1>2, <1>3 DEF K!WantedBody
<1>6. ASSUME NEW s \in K!WantedBody(op, body) PROVE \E n \in kept : s = <<n.wire, K!ValueOf(c.doc, style, body, n)>>
  <2>1. PICK wire \in DOMAIN body : (op.body = "multipart" => body[wire] # "null") /\ s = <<wire, body[wire]>>
    BY DEF K!WantedBody
  <2>2. PICK n \in c.doc.fields : n.wire = wire
    BY DEF K!IsCase
  <2>3. K!ValueOf(c.doc, style, body, n) = body[wire] /\ n \in set
    BY <1>2, <1>3, <2>2
  <2> QED BY <2>1, <2>2, <2>3
<1> HIDE DEF kept
<1> QED BY <1>4, <1>5, <1>6

\* The method of an accepted operation is valid code and hides nothing that it calls.
LEMMA MethodRuns ==
  ASSUME NEW c, NEW style \in K!Styles, K!Accepts(c.doc, style), NEW op \in K!Operations(c.doc), ~K!Clash(op, style)
  PROVE  K!Runs(op, style)
<1>1. CASE style = "typescript"
  <2>1. K!IsUnique(K!TsNames(op)) /\ K!Values(K!TsNames(op)) \cap {K!Word("body"), K!Word("query"), K!Word("headers"), K!Word("requestOptions")} = {}
    BY <1>1 DEF K!Accepts
  <2>2. K!Values(K!TsNames(op)) \cap (K!Hidden(op, style) \cup {K!Word("cookies")}) = {}
    BY <1>1 DEF K!Clash
  <2>3. K!Words(op, style) \subseteq {K!Word("body"), K!Word("query"), K!Word("headers"), K!Word("requestOptions"), K!Word("cookies")}
    BY <1>1 DEF K!Words
  <2>4. K!Named(op, style) = K!TsNames(op)
    BY <1>1 DEF K!Named
  <2> QED BY <2>1, <2>2, <2>3, <2>4 DEF K!Runs
<1>2. CASE style # "typescript"
  <2>1. K!IsUnique(K!PyNames(K!Parameters(op))) /\ K!Named(op, style) = K!PyNames(K!Parameters(op))
    BY <1>2 DEF K!Clash, K!Named
  <2>2. K!Hidden(op, style) = {} /\ K!Words(op, style) \subseteq {K!Word("body"), K!Word("request_headers"), K!Word("on_response")}
    BY <1>2 DEF K!Hidden, K!Words
  <2>3. ASSUME NEW p \in K!Parameters(op)
        PROVE  K!PyIdentifier(p.name) \notin {K!Word("body"), K!Word("request_headers"), K!Word("on_response")}
    <3>1. CASE p.name.tail = 0 /\ p.name.word \in K!PyReserved
      <4>1. K!PyIdentifier(p.name)[2] = 1
        BY <3>1 DEF K!PyIdentifier, K!Escaped
      <4>2. \A w : K!Word(w)[2] = 0
        BY DEF K!Word
      <4> QED BY <4>1, <4>2
    <3>2. CASE ~(p.name.tail = 0 /\ p.name.word \in K!PyReserved)
      <4>1. K!PyIdentifier(p.name)[1] = p.name.word /\ K!PyIdentifier(p.name)[2] = p.name.tail
        BY <3>2 DEF K!PyIdentifier, K!Escaped, K!Identifier
      <4>2. \A w : K!Word(w)[1] = w /\ K!Word(w)[2] = 0
        BY DEF K!Word
      <4>3. {"body", "request_headers", "on_response"} \subseteq K!PyReserved
        BY DEF K!PyReserved
      <4> QED BY <3>2, <4>1, <4>2, <4>3
    <3> QED BY <3>1, <3>2
  <2>4. K!Values(K!PyNames(K!Parameters(op))) = {K!PyIdentifier(p.name) : p \in K!Parameters(op)}
    BY DEF K!Values, K!PyNames
  <2> QED BY <2>1, <2>2, <2>3, <2>4 DEF K!Runs
<1> QED BY <1>1, <1>2

\* The calls of a generated client arrive as they were meant (codegen/source.py, openapi.py, python.py, typescript.py).
LEMMA CallsArriveAlways ==
  ASSUME NEW c, K!IsCase(c)
  PROVE  K!CallsArrive(c)
<1> SUFFICES ASSUME NEW style \in K!Styles, K!Accepts(c.doc, style), NEW op \in K!Operations(c.doc), ~K!Clash(op, style),
                    NEW given \in SUBSET K!Parameters(op)
             PROVE  LET r == K!Call(c.doc, style, op.words, given, {}, c.body)
                    IN /\ r.id = op.id /\ r.runs
                       /\ r.path = K!Wanted(given, "path") /\ r.query = K!Wanted(given, "query")
                       /\ r.headers = K!Wanted(given, "header") /\ r.cookies = K!Wanted(given, "cookie")
                       /\ op.body # None => r.body = K!WantedBody(op, c.body)
  BY DEF K!CallsArrive
<1> DEFINE r == K!Call(c.doc, style, op.words, given, {}, c.body)
<1>1. r = [id |-> op.id, runs |-> K!Runs(op, style), path |-> K!Sent(op, style, given, "path"), query |-> K!Sent(op, style, given, "query"),
           headers |-> K!SentHeaders(op, style, given, {}), cookies |-> K!Sent(op, style, given, "cookie"),
           body |-> IF op.body = None THEN {} ELSE K!SentBody(c.doc, op, style, c.body)]
  BY MethodIsItsOwn DEF K!Call
<1>2. K!SentHeaders(op, style, given, {}) = K!Sent(op, style, given, "header")
  BY DEF K!SentHeaders
<1>3. \A where : K!Sent(op, style, given, where) = K!Wanted(given, where)
  BY SentIsWanted
<1>4. K!Runs(op, style)
  BY MethodRuns
<1>5. K!SentBody(c.doc, op, style, c.body) = K!WantedBody(op, c.body)
  BY BodyIsWanted
<1> HIDE DEF r
<1> QED BY <1>1, <1>2, <1>3, <1>4, <1>5 DEF r

(******************************** Schemas *********************************)
\* The fields of a model, as a question gives them: each one possible, and no two with one name.
Fine(model) == (\A f \in model : S!IsField(f)) /\ \A f, g \in model : f.name = g.name => f = g

\* An attribute names one field.
LEMMA AttributesApart ==
  ASSUME NEW model, Fine(model), NEW f \in model, NEW g \in model,
         S!Attribute(g) \in {<<f.name>>, S!Attribute(f)}
  PROVE  g = f
<1>1. \A h : S!Attribute(h) = IF h.key = "fk" THEN <<h.name, "id">> ELSE <<h.name>>
  BY DEF S!Attribute
<1>2. \A x, y : <<x>> # <<y, "id">>
  OBVIOUS
<1>3. g.name = f.name
  BY <1>1, <1>2
<1> QED BY <1>3 DEF Fine

\* The fields that an attribute names: the one it was made from.
LEMMA FieldsNamed ==
  ASSUME NEW model, Fine(model), NEW f \in model
  PROVE  S!FieldOf(model, S!Attribute(f)) = {f}
<1>1. \A g \in model : S!Attribute(f) \in {<<g.name>>, S!Attribute(g)} => f = g
  BY AttributesApart
<1> QED BY <1>1 DEF S!FieldOf

\* A derived schema has each field's annotation at its attribute.
LEMMA SchemaFields ==
  ASSUME NEW model, Fine(model), NEW annotated, DOMAIN annotated \subseteq model
  PROVE  /\ DOMAIN S!Schema(annotated) = {S!Attribute(f) : f \in DOMAIN annotated}
         /\ \A f \in DOMAIN annotated : S!Schema(annotated)[S!Attribute(f)] = annotated[f]
<1> DEFINE at == {S!Attribute(f) : f \in DOMAIN annotated}
           of(a) == CHOOSE g \in DOMAIN annotated : S!Attribute(g) = a
<1>1. ASSUME NEW f \in DOMAIN annotated PROVE of(S!Attribute(f)) = f
  BY AttributesApart
<1>2. \A f \in DOMAIN annotated : S!Attribute(f) \in at
  OBVIOUS
<1>3. S!Schema(annotated) = [a \in at |-> annotated[of(a)]]
  BY DEF S!Schema
<1> HIDE DEF at, of
<1>4. DOMAIN S!Schema(annotated) = at
  BY <1>3
<1>5. \A f \in DOMAIN annotated : S!Schema(annotated)[S!Attribute(f)] = annotated[f]
  BY <1>1, <1>2, <1>3
<1> QED BY <1>4, <1>5 DEF at

\* A value is nothing, or a number or text of a type.
LEMMA ValuesTyped ==
  ASSUME NEW v \in S!Json
  PROVE  /\ v.n \in Int /\ v = S!V(v.t, v.n) /\ (v # S!Null => v.t \in S!Types)
         /\ (v.t = "str" => v.n >= 0) /\ S!Null.t = "none" /\ (v = S!Null <=> v.t = "none")
<1>1. CASE v = S!Null
  BY <1>1 DEF S!Null, S!V
<1>2. CASE v \in S!Numbers
  BY <1>2 DEF S!Numbers, S!Null, S!V, S!Types
<1>3. CASE v \in S!Texts
  BY <1>3 DEF S!Texts, S!Null, S!V, S!Types
<1> QED BY <1>1, <1>2, <1>3 DEF S!Json

\* What the comparison of a field with its schema calls an error, and where.
Agrees(f, s, reading) ==
  \/ f.key = "m2m"
  \/ /\ reading /\ f.null => s.optional
     /\ f.choices # {} /\ s.literal # {} => IF reading THEN f.choices \subseteq s.literal ELSE s.literal \subseteq f.choices
     /\ f.choices = {} \/ s.literal = {} => S!Compatible(f, s, reading)
LEMMA ErrorsOfField ==
  ASSUME NEW f, NEW a, NEW s, NEW reading \in BOOLEAN, f.null \in BOOLEAN, s.optional \in BOOLEAN
  PROVE  /\ \A d \in S!Errors(S!Compare(f, a, s, reading)) : d.at = a
         /\ S!Errors(S!Compare(f, a, s, reading)) = {} <=> Agrees(f, s, reading)
<1>1. \A x, y : S!Error(x, y).severity = "error" /\ S!Error(x, y).at = x /\ S!Warning(x, y).severity = "warning"
  BY DEF S!Error, S!Warning
<1> DEFINE null == IF reading /\ f.null /\ ~s.optional THEN {S!Error(a, "null")} ELSE {}
           warned == IF ~reading /\ s.optional /\ ~f.null THEN {S!Warning(a, "null")} ELSE {}
           other == S!CompareIgnoringNull(f, a, s, reading)
           long == IF ~reading /\ f.type = "str" /\ f.max # None /\ (s.max = None \/ s.max > f.max) THEN {S!Warning(a, "too long")} ELSE {}
           type == IF S!Compatible(f, s, reading) THEN {} ELSE {S!Error(a, "type")}
           rejected == IF f.choices \ s.literal # {} THEN {S!Error(a, "rejected choices")} ELSE {}
           unknown == IF s.literal \ f.choices # {} THEN {S!Error(a, "unknown choices")} ELSE {}
<1>2. CASE f.key = "m2m"
  BY <1>2 DEF S!Compare, S!Errors, Agrees
<1>3. CASE f.key # "m2m"
  <2>1. S!Compare(f, a, s, reading) = null \cup warned \cup other
    BY <1>3 DEF S!Compare
  <2>2. \A d \in null \cup warned : d.severity = "error" <=> d \in null
    BY <1>1
  <2>3. (\A d \in null : d.at = a) /\ (null = {} <=> (reading /\ f.null => s.optional))
    BY <1>1
  <2>4. CASE f.choices # {} /\ s.literal # {}
    <3>1. other = IF reading THEN rejected ELSE unknown
      BY <1>3, <2>4 DEF S!CompareIgnoringNull
    <3>2. \A d \in other : d.severity = "error" /\ d.at = a
      <4>1. \A d \in other : \E x : d = S!Error(a, x)
        <5>1. (\A d \in rejected : \E x : d = S!Error(a, x)) /\ \A d \in unknown : \E x : d = S!Error(a, x)
          OBVIOUS
        <5> HIDE DEF rejected, unknown
        <5> QED BY <3>1, <5>1
      <4> HIDE DEF other
      <4> QED BY <1>1, <4>1
    <3>3. other = {} <=> IF reading THEN f.choices \subseteq s.literal ELSE s.literal \subseteq f.choices
      BY <3>1
    <3> HIDE DEF null, warned, other
    <3>4. S!Errors(S!Compare(f, a, s, reading)) = null \cup other
      BY <2>1, <2>2, <3>2 DEF S!Errors
    <3> QED BY <1>3, <2>3, <2>4, <3>2, <3>3, <3>4 DEF Agrees
  <2>5. CASE ~(f.choices # {} /\ s.literal # {})
    <3>1. other = long \cup type
      BY <1>3, <2>5 DEF S!CompareIgnoringNull
    <3>2. (\A d \in type : d.severity = "error" /\ d.at = a) /\ \A d \in long : d.severity # "error"
      <4>1. type \subseteq {S!Error(a, "type")} /\ long \subseteq {S!Warning(a, "too long")}
        OBVIOUS
      <4>2. (\A d \in {S!Error(a, "type")} : d.severity = "error" /\ d.at = a)
            /\ \A d \in {S!Warning(a, "too long")} : d.severity # "error"
        BY DEF S!Error, S!Warning
      <4> HIDE DEF type, long
      <4> QED BY <4>1, <4>2
    <3>3. type = {} <=> S!Compatible(f, s, reading)
      OBVIOUS
    <3> HIDE DEF null, warned, other, long, type
    <3>4. S!Errors(S!Compare(f, a, s, reading)) = null \cup type
      BY <2>1, <2>2, <3>1, <3>2 DEF S!Errors
    <3> QED BY <1>3, <2>3, <2>5, <3>2, <3>3, <3>4 DEF Agrees
  <2> QED BY <2>4, <2>5
<1> QED BY <1>2, <1>3

\* What the drift check says of an attribute of a response.
LEMMA OutputErrors ==
  ASSUME NEW model, \A f \in model : f.null \in BOOLEAN, NEW out, NEW a \in DOMAIN out,
         \A b \in DOMAIN out : out[b].optional \in BOOLEAN /\ out[b].resolver \in BOOLEAN
  PROVE  /\ (\A d \in S!Errors(S!OutputDrift(model, out)) : d.at # a) <=>
              \/ out[a].resolver
              \/ S!FieldOf(model, a) # {} /\ \A f \in S!FieldOf(model, a) : Agrees(f, out[a], TRUE)
         /\ \A d \in S!Errors(S!OutputDrift(model, out)) : d.at \in DOMAIN out
<1> DEFINE Of(b) == IF out[b].resolver THEN {}
                    ELSE IF S!FieldOf(model, b) = {} THEN {S!Error(b, "unknown")}
                    ELSE UNION {S!Compare(f, b, out[b], TRUE) : f \in S!FieldOf(model, b)}
<1>1. S!OutputDrift(model, out) = UNION {Of(b) : b \in DOMAIN out}
  BY DEF S!OutputDrift
<1>2. ASSUME NEW b \in DOMAIN out
      PROVE  /\ \A d \in S!Errors(Of(b)) : d.at = b
             /\ S!Errors(Of(b)) = {} <=> \/ out[b].resolver
                                         \/ S!FieldOf(model, b) # {} /\ \A f \in S!FieldOf(model, b) : Agrees(f, out[b], TRUE)
  <2>1. CASE out[b].resolver
    BY <2>1 DEF S!Errors
  <2>2. CASE ~out[b].resolver /\ S!FieldOf(model, b) = {}
    <3>1. Of(b) = {S!Error(b, "unknown")}
      BY <2>2
    <3>2. S!Error(b, "unknown").severity = "error" /\ S!Error(b, "unknown").at = b
      BY DEF S!Error
    <3> HIDE DEF Of
    <3> QED BY <2>2, <3>1, <3>2 DEF S!Errors
  <2>3. CASE ~out[b].resolver /\ S!FieldOf(model, b) # {}
    <3>1. Of(b) = UNION {S!Compare(f, b, out[b], TRUE) : f \in S!FieldOf(model, b)}
      BY <2>3
    <3>2. \A f \in S!FieldOf(model, b) : /\ \A d \in S!Errors(S!Compare(f, b, out[b], TRUE)) : d.at = b
                                         /\ S!Errors(S!Compare(f, b, out[b], TRUE)) = {} <=> Agrees(f, out[b], TRUE)
      BY ErrorsOfField DEF S!FieldOf
    <3> HIDE DEF Of
    <3>3. \A d : d \in S!Errors(Of(b)) <=> \E f \in S!FieldOf(model, b) : d \in S!Errors(S!Compare(f, b, out[b], TRUE))
      BY <3>1 DEF S!Errors
    <3>4. \A d \in S!Errors(Of(b)) : d.at = b
      BY <3>2, <3>3
    <3>5. S!Errors(Of(b)) = {} <=> \A f \in S!FieldOf(model, b) : Agrees(f, out[b], TRUE)
      <4>1. S!Errors(Of(b)) = {} <=> \A f \in S!FieldOf(model, b) : S!Errors(S!Compare(f, b, out[b], TRUE)) = {}
        BY <3>3
      <4> QED BY <4>1, <3>2
    <3> QED BY <2>3, <3>4, <3>5
  <2> QED BY <2>1, <2>2, <2>3
<1> HIDE DEF Of
<1>3. \A d : d \in S!Errors(S!OutputDrift(model, out)) <=> \E b \in DOMAIN out : d \in S!Errors(Of(b))
  BY <1>1 DEF S!Errors
<1>4. (\A d \in S!Errors(S!OutputDrift(model, out)) : d.at # a) <=> S!Errors(Of(a)) = {}
  <2>1. ASSUME NEW d \in S!Errors(Of(a)), \A e \in S!Errors(S!OutputDrift(model, out)) : e.at # a PROVE FALSE
    BY <1>2, <1>3, <2>1
  <2>2. ASSUME NEW d \in S!Errors(S!OutputDrift(model, out)), d.at = a PROVE S!Errors(Of(a)) # {}
    BY <1>2, <1>3, <2>2
  <2> QED BY <2>1, <2>2
<1>5. \A b \in DOMAIN out : \A d \in S!Errors(Of(b)) : d.at = b
  BY <1>2
<1>6. ASSUME NEW d \in S!Errors(S!OutputDrift(model, out)) PROVE d.at \in DOMAIN out
  <2>1. PICK b \in DOMAIN out : d \in S!Errors(Of(b))
    BY <1>3
  <2>2. d.at = b
    BY <1>5, <2>1
  <2> QED BY <2>1, <2>2
<1> QED BY <1>2, <1>4, <1>6

\* A derived response takes every value of its field, and a derived schema agrees with it.
IsReadOf(s, f) == /\ s.type = f.type /\ s.literal = f.choices /\ s.optional \in BOOLEAN /\ (f.null => s.optional)
                  /\ s.max \in {None, f.max} /\ s.min = 0 /\ s.ge = None
LEMMA ReadTakesAll ==
  ASSUME NEW f, S!IsField(f), S!Usual(f), NEW s, IsReadOf(s, f), NEW v \in S!Holds(f)
  PROVE  S!Accepts(s, v)
<1>1. v \in S!Json /\ S!Fits(f, v)
  BY DEF S!Holds
<1>2. CASE v = S!Null
  BY <1>1, <1>2 DEF S!Fits, S!Accepts, IsReadOf
<1>3. CASE v # S!Null
  <2>1. /\ v.t = f.type /\ (f.choices # {} => v \in f.choices \/ (f.blank /\ v = S!V("str", 0)))
        /\ (f.max # None => v.n <= f.max)
    BY <1>1, <1>3 DEF S!Fits
  <2>2. f.choices # {} => v \in f.choices
    BY <2>1 DEF S!Usual
  <2>3. v.t = "str" => v.n >= 0
    BY <1>1, ValuesTyped
  <2> QED BY <1>3, <2>1, <2>2, <2>3 DEF S!Accepts, IsReadOf
<1> QED BY <1>2, <1>3

LEMMA DerivedAgrees ==
  ASSUME NEW f, NEW s, NEW reading \in BOOLEAN, s.type = f.type, s.literal = f.choices, reading /\ f.null => s.optional
  PROVE  Agrees(f, s, reading)
BY DEF Agrees, S!Compatible, S!PythonSubclass

\* A value that a derived payload takes can be saved.
LEMMA WriteSaves ==
  ASSUME NEW f, S!IsField(f), S!Usual(f), NEW v \in S!Json, S!Accepts(S!WriteAnnotation(f), v)
  PROVE  S!Saves(f, v)
<1> DEFINE s == S!WriteAnnotation(f)
<1>1. /\ s.type = f.type /\ s.literal = f.choices /\ s.optional = (f.null \/ f.dbDefault)
      /\ s.max = S!Constraints(f).max /\ s.min = S!Constraints(f).min /\ s.ge = S!Constraints(f).ge
  BY DEF S!WriteAnnotation, S!Annotated, S!FieldType
<1>2. /\ f.type \in S!Types /\ f.key \in {"", "pk", "fk", "m2m"} /\ f.null \in BOOLEAN /\ f.blank \in BOOLEAN /\ f.positive \in BOOLEAN
      /\ f.max \in Nat \cup {None} /\ (f.max # None => f.type = "str") /\ f.ge \in Int \cup {None}
      /\ (f.key = "fk" => f.type = "int" /\ f.ge = None /\ ~f.positive) /\ None \notin Int /\ f.dbDefault \in BOOLEAN
  BY NoneIsNothing DEF S!IsField
<1>3. v.n \in Int /\ v = S!V(v.t, v.n) /\ (v # S!Null => v.t \in S!Types) /\ S!Null.t = "none" /\ (v = S!Null <=> v.t = "none")
  BY ValuesTyped
<1> HIDE DEF s
<1>4. CASE v = S!Null
  <2>1. f.null \/ f.dbDefault
    BY <1>1, <1>4 DEF S!Accepts, s
  <2>2. S!Coerced(f, v) = v
    BY <1>3, <1>4 DEF S!Coerced
  <2> QED BY <1>4, <2>1, <2>2 DEF S!Saves, S!Fits
<1>5. CASE v # S!Null /\ f.choices # {}
  <2>1. v \in f.choices
    BY <1>1, <1>5 DEF S!Accepts, s
  <2>2. S!Fits(f, v)
    BY <2>1 DEF S!IsField, S!Holds
  <2>3. v.t = f.type
    BY <1>5, <2>2 DEF S!Fits
  <2>4. S!Coerced(f, v) = v
    BY <1>3, <2>3 DEF S!Coerced
  <2> QED BY <2>2, <2>4 DEF S!Saves
<1>6. CASE v # S!Null /\ f.choices = {} /\ f.key # "m2m"
  <2>1. /\ \/ v.t = f.type
           \/ f.type = "float" /\ v.t \in {"int", "bool"}
           \/ f.type = "int" /\ v.t = "bool"
        /\ v.t = "str" => (s.max = None \/ v.n <= s.max) /\ v.n >= s.min
        /\ f.type = "int" => s.ge = None \/ v.n >= s.ge
    BY <1>1, <1>6 DEF S!Accepts, s
  <2>2. S!Constraints(f) = IF f.key = "fk" THEN S!NoConstraints(f)
                           ELSE [max |-> f.max, min |-> IF f.type = "str" /\ ~f.blank THEN 1 ELSE 0,
                                 ge |-> IF f.positive /\ (f.ge = None \/ f.ge < 0) THEN 0 ELSE f.ge]
    BY <1>6 DEF S!Constraints
  <2> DEFINE w == S!V(f.type, v.n)
  <2>3. S!Coerced(f, v) = w
    <3>1. CASE f.type = "str"
      BY <1>3, <2>1, <3>1 DEF S!Coerced
    <3>2. CASE f.type # "str"
      BY <1>2, <2>1, <3>2 DEF S!Coerced, S!Types
    <3> QED BY <3>1, <3>2
  <2>4. w.t = f.type /\ w.n = v.n /\ w # S!Null
    BY <1>2 DEF S!V, S!Null, S!Types
  <2> HIDE DEF w
  <2>5. f.max # None => w.n <= f.max
    <3>1. CASE f.max # None
      <4>1. f.type = "str" /\ v.t = "str"
        BY <1>2, <2>1, <3>1
      <4>2. f.key # "fk"
        BY <1>2, <4>1
      <4>3. s.max = f.max
        BY <1>1, <2>2, <4>2
      <4> QED BY <2>1, <2>4, <3>1, <4>1, <4>3
    <3> QED BY <3>1
  <2>6. f.type = "str" /\ w.n = 0 => f.blank
    <3>1. CASE f.type = "str" /\ ~f.blank
      <4>1. v.t = "str" /\ f.key # "fk"
        BY <1>2, <2>1, <3>1
      <4>2. s.min = 1
        BY <1>1, <2>2, <3>1, <4>1
      <4>3. v.n >= 1
        BY <2>1, <4>1, <4>2
      <4> QED BY <1>3, <2>4, <4>3
    <3> QED BY <3>1
  <2>7. f.type = "int" => (f.ge = None \/ w.n >= f.ge) /\ (f.positive => w.n >= 0)
    <3>1. CASE f.key = "fk"
      BY <1>2, <3>1
    <3>2. CASE f.key # "fk"
      <4>1. s.ge = IF f.positive /\ (f.ge = None \/ f.ge < 0) THEN 0 ELSE f.ge
        BY <1>1, <2>2, <3>2
      <4>2. CASE f.type = "int"
        <5>1. s.ge = None \/ v.n >= s.ge
          BY <2>1, <4>2
        <5>2. 0 # None /\ v.n \in Int /\ w.n = v.n /\ f.positive \in BOOLEAN /\ f.ge \in Int \cup {None} /\ None \notin Int
          <6>1. None \notin Int
            BY NoneIsNothing
          <6>2. 0 \in Int
            OBVIOUS
          <6>3. 0 # None
            BY <6>1, <6>2, Zenon
          <6> QED BY <1>2, <1>3, <2>4, <6>1, <6>3
        <5>3. CASE f.positive /\ f.ge = None
          <6>1. s.ge = 0
            BY <4>1, <5>3
          <6> QED BY <5>1, <5>2, <5>3, <6>1
        <5>4. CASE f.positive /\ f.ge # None
          <6>1. f.ge \in Int /\ s.ge = (IF f.ge < 0 THEN 0 ELSE f.ge)
            BY <4>1, <5>2, <5>4
          <6>2. v.n >= f.ge /\ v.n >= 0
            BY <5>1, <5>2, <6>1
          <6> QED BY <5>2, <6>2
        <5>5. CASE ~f.positive
          <6>1. s.ge = f.ge
            BY <4>1, <5>5
          <6> QED BY <5>1, <5>2, <5>5, <6>1
        <5> QED BY <5>2, <5>3, <5>4, <5>5
      <4> QED BY <4>2
    <3> QED BY <3>1, <3>2
  <2>8. S!Fits(f, w)
    BY <1>6, <2>4, <2>5, <2>6, <2>7 DEF S!Fits
  <2> QED BY <2>3, <2>8 DEF S!Saves
<1>7. CASE f.key = "m2m"
  BY <1>7 DEF S!Saves
<1> QED BY <1>4, <1>5, <1>6, <1>7

\* And so can the default of a derived payload.
LEMMA DefaultSaves ==
  ASSUME NEW f, S!IsField(f), S!Usual(f), S!WriteDefault(f) \notin {None, S!V("callable", 0)}
  PROVE  S!Saves(f, S!WriteDefault(f))
<1> DEFINE v == S!WriteDefault(f)
<1>1. S!Null.t = "none" /\ S!Coerced(f, S!Null) = S!Null
  BY DEF S!Null, S!V, S!Coerced
<1>2. CASE f.key = "m2m"
  BY <1>2 DEF S!Saves
<1>3. CASE f.key # "m2m" /\ (f.null \/ f.dbDefault)
  <2>1. v = S!Null
    BY <1>3 DEF S!WriteDefault
  <2>2. S!Fits(f, S!Null) <=> f.null
    BY DEF S!Fits
  <2>3. f.null \in BOOLEAN /\ f.dbDefault \in BOOLEAN
    BY DEF S!IsField
  <2> HIDE DEF v
  <2> QED BY <1>1, <1>3, <2>1, <2>2, <2>3 DEF S!Saves, v
<1>4. CASE f.key # "m2m" /\ ~(f.null \/ f.dbDefault) /\ S!HasDefault(f) /\ f.default # S!V("callable", 0)
  <2>1. v = f.default
    BY <1>4 DEF S!WriteDefault
  <2>2. v \in S!Holds(f) /\ v # S!Null
    BY <1>4, <2>1 DEF S!IsField, S!HasDefault
  <2> HIDE DEF v
  <2>3. S!Fits(f, v) /\ v.t = f.type /\ v \in S!Json
    BY <2>2 DEF S!Holds, S!Fits
  <2>4. S!Coerced(f, v) = v
    BY <2>3, ValuesTyped DEF S!Coerced
  <2> QED BY <2>3, <2>4 DEF S!Saves, v
<1>5. CASE f.key # "m2m" /\ ~(f.null \/ f.dbDefault) /\ ~(S!HasDefault(f) /\ f.default # S!V("callable", 0))
  <2>1. f.blank /\ f.type = "str" /\ v = S!V("str", 0)
    BY <1>5 DEF S!WriteDefault
  <2> HIDE DEF v
  <2>2. v.t = "str" /\ v.n = 0 /\ v # S!Null /\ S!Coerced(f, v) = v
    BY <2>1 DEF S!V, S!Null, S!Coerced
  <2>3. f.choices = {} /\ (f.max # None => v.n <= f.max)
    <3>1. f.max \in Nat \cup {None} /\ (f.choices # {} => ~f.blank)
      BY DEF S!Usual, S!IsField
    <3>2. \A n \in Nat : 0 <= n
      OBVIOUS
    <3> QED BY <2>1, <2>2, <3>1, <3>2
  <2>4. S!Fits(f, v)
    BY <2>1, <2>2, <2>3 DEF S!Fits
  <2> QED BY <2>2, <2>4 DEF S!Saves, v
<1> QED BY <1>2, <1>3, <1>4, <1>5

\* A response derived from a model serializes every row of it, and drift says nothing of it.
LEMMA DerivedReads ==
  ASSUME NEW model, Fine(model), \A f \in model : S!Usual(f), NEW annotated, DOMAIN annotated \subseteq model,
         \A f \in DOMAIN annotated : IsReadOf(annotated[f], f) /\ annotated[f].resolver = (f.key = "m2m")
  PROVE  S!Errors(S!OutputDrift(model, S!Schema(annotated))) = {} /\ S!Readable(model, S!Schema(annotated))
<1>0. /\ DOMAIN S!Schema(annotated) = {S!Attribute(f) : f \in DOMAIN annotated}
      /\ \A f \in DOMAIN annotated : S!Schema(annotated)[S!Attribute(f)] = annotated[f]
  BY SchemaFields, ZenonT(30)
<1> DEFINE out == S!Schema(annotated)
           sub == DOMAIN annotated
<1>1. /\ DOMAIN out = {S!Attribute(f) : f \in sub}
      /\ \A f \in sub : out[S!Attribute(f)] = annotated[f]
  BY <1>0
<1>2. \A f \in sub : S!FieldOf(model, S!Attribute(f)) = {f}
  BY FieldsNamed
<1> HIDE DEF out
<1>3. \A a \in DOMAIN out : out[a].optional \in BOOLEAN /\ out[a].resolver \in BOOLEAN
  <2>1. \A f \in sub : annotated[f].optional \in BOOLEAN /\ annotated[f].resolver \in BOOLEAN
    BY DEF IsReadOf
  <2> QED BY <1>1, <2>1
<1>4. \A f \in model : f.null \in BOOLEAN
  BY DEF Fine, S!IsField
<1>5. ASSUME NEW a \in DOMAIN out PROVE \A d \in S!Errors(S!OutputDrift(model, out)) : d.at # a
  <2>1. PICK f \in sub : a = S!Attribute(f)
    BY <1>1
  <2>2. S!FieldOf(model, a) = {f} /\ out[a] = annotated[f]
    BY <1>1, <1>2, <2>1
  <2>3. out[a].type = f.type /\ out[a].literal = f.choices /\ (f.null => out[a].optional)
    BY <2>2 DEF IsReadOf
  <2>4. Agrees(f, out[a], TRUE)
    BY <2>3, DerivedAgrees
  <2>5. S!FieldOf(model, a) # {} /\ \A g \in S!FieldOf(model, a) : Agrees(g, out[a], TRUE)
    BY <2>2, <2>4
  <2> QED BY <1>3, <1>4, <2>5, OutputErrors
<1>6. S!Errors(S!OutputDrift(model, out)) = {}
  <2>1. CASE DOMAIN out = {}
    <3>1. S!OutputDrift(model, out) = {}
      BY <2>1 DEF S!OutputDrift
    <3> QED BY <3>1 DEF S!Errors
  <2>2. CASE DOMAIN out # {}
    <3>1. \A d \in S!Errors(S!OutputDrift(model, out)) : d.at \in DOMAIN out
      BY <1>3, <1>4, <2>2, OutputErrors
    <3> QED BY <1>5, <3>1
  <2> QED BY <2>1, <2>2
<1>7. ASSUME NEW a \in DOMAIN out, NEW f \in S!FieldOf(model, a), NEW v \in S!Holds(f) PROVE S!Accepts(out[a], v)
  <2>1. PICK g \in sub : a = S!Attribute(g)
    BY <1>1
  <2>2. f = g /\ out[a] = annotated[f] /\ f \in model
    BY <1>1, <1>2, <1>7, <2>1
  <2>3. S!IsField(f) /\ S!Usual(f) /\ IsReadOf(out[a], f)
    BY <2>1, <2>2 DEF Fine
  <2> QED BY <2>3, ReadTakesAll
<1>8. S!Readable(model, out)
  BY <1>7 DEF S!Readable
<1> QED BY <1>6, <1>8 DEF out

\* What the drift check says of a payload whose fields agree: the required fields that are missing.
Missing(model, in, context, custom) ==
  {g \in model : /\ ~custom /\ S!IsRequired(g) /\ g.name \notin context
                 /\ \A a \in DOMAIN in : g \notin S!FieldOf(model, a)}
LEMMA MissingIsFound ==
  ASSUME NEW model, NEW in, NEW context, NEW custom, S!Errors(S!InputDrift(model, in, context, custom)) = {}
  PROVE  Missing(model, in, context, custom) = {}
<1> DEFINE Of(a) == IF S!FieldOf(model, a) = {} THEN {S!Error(a, "unknown")} ELSE UNION {S!Compare(f, a, in[a], FALSE) : f \in S!FieldOf(model, a)}
           missing == {S!Error(<<f.name>>, "not accepted") : f \in Missing(model, in, context, custom)}
<1>1. S!InputDrift(model, in, context, custom) = (UNION {Of(a) : a \in DOMAIN in}) \cup missing
  BY DEF S!InputDrift, Missing
<1>2. \A f \in Missing(model, in, context, custom) : S!Error(<<f.name>>, "not accepted") \in missing
  OBVIOUS
<1>3. \A x, y : S!Error(x, y).severity = "error"
  BY DEF S!Error
<1> HIDE DEF Of, missing
<1>4. ASSUME NEW f \in Missing(model, in, context, custom) PROVE FALSE
  BY <1>1, <1>2, <1>3 DEF S!Errors
<1> QED BY <1>4
LEMMA InputErrors ==
  ASSUME NEW model, NEW in, NEW context, NEW custom, \A f \in model : f.null \in BOOLEAN, \A a \in DOMAIN in : in[a].optional \in BOOLEAN,
         \A a \in DOMAIN in : S!FieldOf(model, a) # {} /\ \A f \in S!FieldOf(model, a) : Agrees(f, in[a], FALSE)
  PROVE  S!Errors(S!InputDrift(model, in, context, custom)) = {} <=> Missing(model, in, context, custom) = {}
<1> DEFINE Of(a) == IF S!FieldOf(model, a) = {} THEN {S!Error(a, "unknown")} ELSE UNION {S!Compare(f, a, in[a], FALSE) : f \in S!FieldOf(model, a)}
           missing == {S!Error(<<f.name>>, "not accepted") : f \in Missing(model, in, context, custom)}
<1>1. S!InputDrift(model, in, context, custom) = (UNION {Of(a) : a \in DOMAIN in}) \cup missing
  BY DEF S!InputDrift, Missing
<1>2. ASSUME NEW a \in DOMAIN in, NEW d \in Of(a) PROVE d.severity # "error"
  <2>1. PICK f \in S!FieldOf(model, a) : d \in S!Compare(f, a, in[a], FALSE)
    BY <1>2
  <2>2. f \in model /\ Agrees(f, in[a], FALSE)
    BY DEF S!FieldOf
  <2>3. S!Errors(S!Compare(f, a, in[a], FALSE)) = {}
    BY <2>2, ErrorsOfField
  <2> QED BY <2>1, <2>3 DEF S!Errors
<1> HIDE DEF Of
<1>3. Missing(model, in, context, custom) = {} => missing = {}
  OBVIOUS
<1>4. missing = {} => S!Errors(S!InputDrift(model, in, context, custom)) = {}
  <2> HIDE DEF missing
  <2> QED BY <1>1, <1>2 DEF S!Errors
<1> QED BY <1>3, <1>4, MissingIsFound

\* What a derived schema says of an attribute: the annotation of its one field.
LEMMA DerivedFields ==
  ASSUME NEW model, Fine(model), NEW annotated, DOMAIN annotated \subseteq model, NEW a \in DOMAIN S!Schema(annotated)
  PROVE  \E f \in DOMAIN annotated : S!FieldOf(model, a) = {f} /\ S!Schema(annotated)[a] = annotated[f] /\ a = S!Attribute(f)
<1>1. DOMAIN S!Schema(annotated) = {S!Attribute(f) : f \in DOMAIN annotated}
  BY SchemaFields
<1>2. PICK f \in DOMAIN annotated : a = S!Attribute(f)
  BY <1>1
<1>3. S!Schema(annotated)[S!Attribute(f)] = annotated[f]
  BY SchemaFields
<1>4. S!FieldOf(model, S!Attribute(f)) = {f}
  BY FieldsNamed
<1> QED BY <1>2, <1>3, <1>4

\* The responses of the scaffold and of AutoCRUDController are read off the model.
LEMMA ScaffoldReads ==
  ASSUME NEW f, S!IsField(f)
  PROVE  /\ IsReadOf(S!ReadAnnotation(f), f) /\ S!ReadAnnotation(f).resolver = (f.key = "m2m")
         /\ IsReadOf(S!OutputField(f), f) /\ S!OutputField(f).resolver = (f.key = "m2m")
<1>1. f.null \in BOOLEAN
  BY DEF S!IsField
<1>2. IsReadOf(S!ReadAnnotation(f), f) /\ S!ReadAnnotation(f).resolver = (f.key = "m2m")
  BY <1>1 DEF S!ReadAnnotation, S!Annotated, S!NoConstraints, S!FieldType, IsReadOf
<1>3. IsReadOf(S!OutputField(f), f) /\ S!OutputField(f).resolver = (f.key = "m2m")
  BY <1>1 DEF S!OutputField, S!Created, S!Annotated, S!NoConstraints, S!FieldType, IsReadOf
<1> QED BY <1>2, <1>3

\* What devx_scaffold writes follows the model.
LEMMA ScaffoldFollows ==
  ASSUME NEW model, Fine(model), \A f \in model : S!Usual(f), NEW o
  PROVE  S!ScaffoldFollowsModel(model, o)
<1> DEFINE read == {g \in model : o.read # None => g.name \in o.read}
           chosen == {g \in model : g.name # o.owner /\ IF o.write = None THEN S!IsWritable(g) ELSE g.name \in o.write}
           reads == [f \in read |-> S!ReadAnnotation(f)]
           writes == [f \in chosen |-> S!WriteAnnotation(f)]
           out == S!ScaffoldOut(model, o)
           in == S!ScaffoldIn(model, o)
           context == {o.owner} \ {None}
<1>1. out = S!Schema(reads) /\ in = S!Schema(writes)
  BY DEF S!ScaffoldOut, S!ScaffoldIn
<1>2. S!Errors(S!OutputDrift(model, out)) = {} /\ S!Readable(model, out)
  <2>1. DOMAIN reads = read /\ read \subseteq model /\ \A f \in read : reads[f] = S!ReadAnnotation(f)
    OBVIOUS
  <2>2. \A f \in read : S!IsField(f)
    BY DEF Fine
  <2> HIDE DEF reads, read
  <2>3. \A f \in DOMAIN reads : IsReadOf(reads[f], f) /\ reads[f].resolver = (f.key = "m2m")
    BY <2>1, <2>2, ScaffoldReads
  <2> QED BY <1>1, <2>1, <2>3, DerivedReads
<1>3. DOMAIN writes = chosen /\ chosen \subseteq model /\ \A f \in chosen : writes[f] = S!WriteAnnotation(f)
  OBVIOUS
<1>4. \A g \in model : g \in chosen <=> g.name # o.owner /\ IF o.write = None THEN S!IsWritable(g) ELSE g.name \in o.write
  OBVIOUS
<1>5. \A g \in model : S!IsField(g) /\ g.name # None
  BY DEF Fine, S!IsField
<1>6. \A g \in model : g.name \in context <=> g.name = o.owner
  BY <1>5
<1> HIDE DEF writes, chosen, out, in
<1>7. \A a \in DOMAIN in : \E f \in chosen : S!FieldOf(model, a) = {f} /\ in[a] = S!WriteAnnotation(f)
  BY <1>1, <1>3, DerivedFields
<1>8. \A f \in model : (\E a \in DOMAIN in : f \in S!FieldOf(model, a)) <=> f \in chosen
  <2>1. ASSUME NEW f \in chosen PROVE \E a \in DOMAIN in : f \in S!FieldOf(model, a)
    <3>1. S!Attribute(f) \in DOMAIN in
      BY <1>1, <1>3, SchemaFields
    <3>2. f \in S!FieldOf(model, S!Attribute(f))
      BY <1>3, FieldsNamed
    <3> QED BY <3>1, <3>2
  <2>2. ASSUME NEW f \in model, NEW a \in DOMAIN in, f \in S!FieldOf(model, a) PROVE f \in chosen
    BY <1>7, <2>2
  <2> QED BY <2>1, <2>2
<1>9. S!Errors(S!InputDrift(model, in, context, FALSE)) = {} <=> Missing(model, in, context, FALSE) = {}
  <2>1. \A f \in model : f.null \in BOOLEAN /\ f.dbDefault \in BOOLEAN
    BY <1>5 DEF S!IsField
  <2>2. ASSUME NEW a \in DOMAIN in
        PROVE  in[a].optional \in BOOLEAN /\ S!FieldOf(model, a) # {} /\ \A f \in S!FieldOf(model, a) : Agrees(f, in[a], FALSE)
    <3>1. PICK f \in chosen : S!FieldOf(model, a) = {f} /\ in[a] = S!WriteAnnotation(f)
      BY <1>7
    <3>2. in[a].type = f.type /\ in[a].literal = f.choices /\ in[a].optional = (f.null \/ f.dbDefault)
      BY <3>1 DEF S!WriteAnnotation, S!Annotated, S!FieldType
    <3>3. Agrees(f, in[a], FALSE)
      BY <3>2, DerivedAgrees
    <3> QED BY <1>3, <2>1, <3>1, <3>2, <3>3
  <2> HIDE DEF context
  <2> QED BY <2>1, <2>2, InputErrors
<1>10. Missing(model, in, context, FALSE) = {} <=> \A f \in model : S!IsRequired(f) => o.write = None \/ f.name \in o.write \cup context
  <2>1. \A f \in model : S!IsRequired(f) => S!IsWritable(f)
    BY DEF S!IsRequired, S!IsWritable
  <2>2. \A f \in model : f \in Missing(model, in, context, FALSE) <=> S!IsRequired(f) /\ f.name \notin context /\ f \notin chosen
    BY <1>8 DEF Missing
  <2>3. Missing(model, in, context, FALSE) \subseteq model
    BY DEF Missing
  <2>4. \A f \in model : f \in Missing(model, in, context, FALSE) <=> S!IsRequired(f) /\ ~(o.write = None \/ f.name \in o.write \cup context)
    BY <1>4, <1>6, <2>1, <2>2
  <2> QED BY <2>3, <2>4
<1>11. ASSUME o.write = None PROVE S!Creates(model, in, context)
  <2>1. ASSUME NEW a \in DOMAIN in, NEW f \in S!FieldOf(model, a),
               NEW v \in {x \in S!Json : S!Accepts(in[a], x)} \cup ({in[a].default} \ {None, S!V("callable", 0)})
        PROVE  S!Saves(f, v)
    <3>1. in[a] = S!WriteAnnotation(f) /\ f \in model
      BY <1>3, <1>7
    <3>2. S!IsField(f) /\ S!Usual(f)
      BY <1>5, <3>1
    <3>3. in[a].default = S!WriteDefault(f)
      BY <3>1 DEF S!WriteAnnotation, S!Annotated
    <3> QED BY <3>1, <3>2, <3>3, WriteSaves, DefaultSaves
  <2>2. ASSUME NEW f \in model PROVE f.name \in context \/ S!FillsItself(f) \/ \E a \in DOMAIN in : f \in S!FieldOf(model, a)
    <3>1. CASE f.name = o.owner
      BY <1>6, <3>1
    <3>2. CASE S!IsWritable(f) /\ f.name # o.owner
      BY <1>4, <1>8, <1>11, <3>2
    <3>3. CASE ~S!IsWritable(f)
      BY <3>3 DEF S!IsWritable, S!Usual, S!FillsItself
    <3> QED BY <3>1, <3>2, <3>3
  <2> HIDE DEF context
  <2> QED BY <2>1, <2>2 DEF S!Creates
<1> HIDE DEF context
<1>12. S!Errors(S!InputDrift(model, in, context, FALSE)) = {} <=> \A f \in model : S!IsRequired(f) => o.write = None \/ f.name \in o.write \cup context
  BY <1>9, <1>10
<1> QED BY <1>2, <1>11, <1>12 DEF S!ScaffoldFollowsModel, out, in, context

\* What the drift check says of a response tells whether it takes every row.
LEMMA AgreesIsReading ==
  ASSUME NEW f, S!IsField(f), S!Usual(f), f.key # "m2m",
         NEW s, s.max = None, s.min = 0, s.ge = None, s.type \in S!Types, s.optional \in BOOLEAN,
         s.literal # {} => f.choices # {}, s.type = "float" => f.type # "bool"
  PROVE  Agrees(f, s, TRUE) <=> \A v \in S!Holds(f) : S!Accepts(s, v)
<1>0. f.type \in S!Types /\ f.null \in BOOLEAN
  BY DEF S!IsField
<1>1. \A v \in S!Holds(f) : v # S!Null => /\ v.t = f.type /\ (v.t = "str" => v.n >= 0) /\ (f.choices # {} => v \in f.choices)
  <2>1. ASSUME NEW v \in S!Holds(f), v # S!Null PROVE v.t = f.type /\ (v.t = "str" => v.n >= 0) /\ (f.choices # {} => v \in f.choices)
    <3>1. v \in S!Json /\ S!Fits(f, v)
      BY DEF S!Holds
    <3>2. v.t = f.type /\ (f.choices # {} => v \in f.choices)
      BY <2>1, <3>1 DEF S!Fits, S!Usual
    <3> QED BY <3>1, <3>2, ValuesTyped
  <2> QED BY <2>1
<1>2. S!Compatible(f, s, TRUE) <=> (f.type = s.type \/ (f.type = "bool" /\ s.type = "int") \/ (s.type = "float" /\ f.type = "int"))
  BY DEF S!Compatible, S!PythonSubclass
<1>3. Agrees(f, s, TRUE) <=> /\ f.null => s.optional
                             /\ f.choices # {} /\ s.literal # {} => f.choices \subseteq s.literal
                             /\ f.choices = {} \/ s.literal = {} => S!Compatible(f, s, TRUE)
  BY DEF Agrees
<1>4. \A v \in S!Holds(f) : v # S!Null =>
        (S!Accepts(s, v) <=> IF s.literal # {} THEN v \in s.literal
                             ELSE v.t = s.type \/ (s.type = "float" /\ v.t \in {"int", "bool"}) \/ (s.type = "int" /\ v.t = "bool"))
  BY <1>1 DEF S!Accepts
<1>5. S!Null \in S!Holds(f) <=> f.null
  BY DEF S!Holds, S!Fits, S!Json
<1>6. S!Accepts(s, S!Null) <=> s.optional
  BY DEF S!Accepts
<1>7. ASSUME Agrees(f, s, TRUE), NEW v \in S!Holds(f) PROVE S!Accepts(s, v)
  <2>1. CASE v = S!Null
    BY <1>3, <1>5, <1>6, <1>7, <2>1
  <2>2. CASE v # S!Null
    BY <1>1, <1>2, <1>3, <1>4, <1>7, <2>2
  <2> QED BY <2>1, <2>2
<1>8. ASSUME \A v \in S!Holds(f) : S!Accepts(s, v) PROVE Agrees(f, s, TRUE)
  <2>1. f.null => s.optional
    BY <1>5, <1>6, <1>8
  <2>2. ASSUME f.choices # {}, s.literal # {}, NEW v \in f.choices PROVE v \in s.literal
    <3>1. v \in S!Holds(f) /\ v # S!Null
      BY <2>2 DEF S!IsField
    <3> QED BY <1>4, <1>8, <2>2, <3>1
  <2>3. ASSUME f.choices = {} \/ s.literal = {} PROVE S!Compatible(f, s, TRUE)
    <3>1. PICK v \in S!Holds(f) : v # S!Null
      BY DEF S!IsField
    <3>2. s.literal = {}
      BY <2>3
    <3>3. v.t = f.type
      BY <1>1, <3>1
    <3>4. f.type = s.type \/ (s.type = "float" /\ f.type \in {"int", "bool"}) \/ (s.type = "int" /\ f.type = "bool")
      BY <1>4, <1>8, <3>1, <3>2, <3>3
    <3> QED BY <1>2, <3>4
  <2> QED BY <1>3, <2>1, <2>2, <2>3
<1> QED BY <1>7, <1>8

LEMMA DriftFound ==
  ASSUME NEW c, S!IsCase(c), NEW model, model \subseteq c.model, \A f \in model : S!Usual(f)
  PROVE  S!DriftIsFound(model, c.out)
<1> DEFINE out == c.out
<1>1. SUFFICES ASSUME NEW a \in DOMAIN out,
                      \A f \in S!FieldOf(model, a) : (out[a].literal # {} => f.choices # {}) /\ (out[a].type = "float" => f.type # "bool"),
                      S!FieldOf(model, a) # {}
               PROVE  (\A d \in S!Errors(S!OutputDrift(model, out)) : d.at # a) <=> S!Readable(model, [x \in {a} |-> out[a]])
  BY DEF S!DriftIsFound
<1>2. \A b \in DOMAIN out : out[b].optional \in BOOLEAN /\ out[b].resolver \in BOOLEAN
  BY DEF S!IsCase
<1>3. /\ out[a].max = None /\ out[a].min = 0 /\ out[a].ge = None /\ out[a].type \in S!Types
      /\ \A f \in S!FieldOf(c.model, a) : f.key = "m2m" => out[a].resolver
  BY DEF S!IsCase
<1>4. \A f \in model : f.null \in BOOLEAN /\ S!IsField(f)
  BY DEF S!IsCase, S!IsField
<1>5. S!FieldOf(model, a) \subseteq model /\ S!FieldOf(model, a) \subseteq S!FieldOf(c.model, a)
  BY DEF S!FieldOf
<1> HIDE DEF out
<1>6. (\A d \in S!Errors(S!OutputDrift(model, out)) : d.at # a) <=>
        out[a].resolver \/ \A f \in S!FieldOf(model, a) : Agrees(f, out[a], TRUE)
  BY <1>1, <1>2, <1>4, OutputErrors
<1>7. S!Readable(model, [x \in {a} |-> out[a]]) <=>
        out[a].resolver \/ \A f \in S!FieldOf(model, a) : \A v \in S!Holds(f) : S!Accepts(out[a], v)
  BY DEF S!Readable
<1>8. ASSUME ~out[a].resolver, NEW f \in S!FieldOf(model, a)
      PROVE  Agrees(f, out[a], TRUE) <=> \A v \in S!Holds(f) : S!Accepts(out[a], v)
  <2>1. f.key # "m2m" /\ S!IsField(f) /\ S!Usual(f)
    BY <1>3, <1>4, <1>5, <1>8
  <2> QED BY <1>1, <1>2, <1>3, <2>1, AgreesIsReading
<1> QED BY <1>6, <1>7, <1>8

\* The derived schemas follow their model, and a schema without drift takes what the model takes.
LEMMA SchemasAgreeAlways ==
  ASSUME NEW c, S!IsCase(c)
  PROVE  S!SchemasAgree(c)
<1> DEFINE model == {f \in c.model : S!Usual(f)}
           out == S!AutoOut(model, c.auto)
           in == S!AutoIn(model, c.auto)
<1>1. Fine(model) /\ model \subseteq c.model /\ \A f \in model : S!Usual(f)
  BY DEF Fine, S!IsCase
<1> HIDE DEF model
<1>2. S!ScaffoldFollowsModel(model, c.scaffold)
  BY <1>1, ScaffoldFollows
<1>3. S!Readable(model, out) /\ S!Errors(S!OutputDrift(model, out)) = {}
  <2> DEFINE read == {g \in S!Chosen(model, c.auto) : g.name \notin c.auto.writeOnly}
             reads == [f \in read |-> S!OutputField(f)]
  <2>1. out = S!Schema(reads)
    BY DEF S!AutoOut
  <2>2. DOMAIN reads = read /\ read \subseteq model /\ \A f \in read : reads[f] = S!OutputField(f)
    BY DEF S!Chosen
  <2>3. \A f \in model : S!IsField(f)
    BY <1>1 DEF Fine
  <2> HIDE DEF reads, read, out
  <2>4. \A f \in DOMAIN reads : IsReadOf(reads[f], f) /\ reads[f].resolver = (f.key = "m2m")
    BY <2>2, <2>3, ScaffoldReads
  <2> QED BY <1>1, <2>1, <2>2, <2>4, DerivedReads
<1>4. ASSUME NEW a \in DOMAIN in PROVE a \notin {S!Attribute(f) : f \in {g \in model : g.key = "pk" \/ g.name \in c.auto.readOnly}}
  <2> DEFINE written == {g \in S!Chosen(model, c.auto) : g.key # "pk" /\ g.editable /\ g.name \notin c.auto.readOnly}
             writes == [f \in written |-> S!InputField(f)]
  <2>1. in = S!Schema(writes)
    BY DEF S!AutoIn
  <2>2. DOMAIN writes = written /\ written \subseteq model /\ \A f \in written : f.key # "pk" /\ f.name \notin c.auto.readOnly
    BY DEF S!Chosen
  <2> HIDE DEF writes, written, in
  <2>3. PICK f \in written : a = S!Attribute(f)
    BY <1>1, <1>4, <2>1, <2>2, DerivedFields
  <2>4. ASSUME NEW g \in model, a = S!Attribute(g) PROVE g = f
    BY <1>1, <2>2, <2>3, <2>4, AttributesApart
  <2> QED BY <2>2, <2>4
<1>5. S!DriftIsFound(model, c.out)
  BY <1>1, DriftFound
<1>6. ASSUME S!Errors(S!Drift(model, c)) = {}, ~c.service, ~c.customCreate, NEW f \in model
      PROVE  f.name \in c.context \/ S!FillsItself(f) \/ \E a \in DOMAIN c.in : f \in S!FieldOf(model, a)
  <2>1. S!Errors(S!InputDrift(model, c.in, c.context, c.customCreate)) = {}
    BY <1>6 DEF S!Drift, S!Errors
  <2>2. Missing(model, c.in, c.context, c.customCreate) = {}
    BY <2>1, MissingIsFound
  <2>3. CASE S!IsRequired(f)
    BY <1>6, <2>2, <2>3 DEF Missing
  <2>4. CASE ~S!IsRequired(f)
    <3>1. S!Usual(f)
      BY <1>1
    <3> QED BY <2>4, <3>1 DEF S!IsRequired, S!Usual, S!FillsItself
  <2> QED BY <2>3, <2>4
<1> HIDE DEF out, in
<1> QED BY <1>2, <1>3, <1>4, <1>5, <1>6 DEF S!SchemasAgree, model, out, in

(********************************* Routing ********************************)
\* The least of some numbers is one of them and below the others.
LEMMA LeastIs ==
  ASSUME NEW T, T \subseteq Nat, T # {}
  PROVE  R!Least(T) \in T /\ \A n \in T : R!Least(T) <= n
<1>1. PICK x \in T : \A y \in T : ~(y < x)
  BY Least
<1>2. \A y \in T : x <= y
  BY <1>1
<1> QED BY <1>2 DEF R!Least

\* So is the greatest, above them.
LEMMA GreatestIs ==
  ASSUME NEW k \in Nat, NEW T, T \subseteq 1 .. k, T # {}
  PROVE  R!Greatest(T) \in T /\ \A n \in T : n <= R!Greatest(T)
<1>1. \E x \in T : \A y \in T : y <= x
  BY Greatest
<1> QED BY <1>1 DEF R!Greatest

\* The rules of the layers, one after the other, are a list; a rule added to the operation is its last.
LEMMA RulesAre ==
  ASSUME NEW e, R!IsRaised(e)
  PROVE  LET with == [e EXCEPT !.operation = Append(e.operation, e.added)]
             n == Len(R!Rules(e))
         IN /\ n \in Nat /\ DOMAIN R!Rules(e) = 1 .. n /\ DOMAIN R!Rules(with) = 1 .. n + 1
            /\ R!Rules(with)[n + 1] = e.added /\ \A i \in 1 .. n : R!Rules(with)[i] = R!Rules(e)[i]
            /\ with.kinds = e.kinds /\ with.own = e.own
<1> DEFINE with == [e EXCEPT !.operation = Append(e.operation, e.added)]
           s == (e.defaults \o e.settings) \o e.controller
           o == e.operation
           x == e.added
<1>1. s \in Seq(R!ErrorRules) /\ o \in Seq(R!ErrorRules) /\ x \in R!ErrorRules
  BY DEF R!IsRaised, R!AreRules
<1>2. with.operation = Append(o, x) /\ with.defaults = e.defaults /\ with.settings = e.settings
      /\ with.controller = e.controller /\ with.kinds = e.kinds /\ with.own = e.own
  BY DEF R!IsRaised
<1> HIDE DEF with
<1>3. R!Rules(e) = s \o o /\ R!Rules(with) = s \o Append(o, x)
  BY <1>2 DEF R!Rules
<1> HIDE DEF s, o, x
<1>4. /\ Len(s \o o) \in Nat /\ DOMAIN (s \o o) = 1 .. Len(s \o o)
      /\ DOMAIN (s \o Append(o, x)) = 1 .. Len(s \o o) + 1
      /\ (s \o Append(o, x))[Len(s \o o) + 1] = x
      /\ \A i \in 1 .. Len(s \o o) : (s \o Append(o, x))[i] = (s \o o)[i]
  BY <1>1
<1> QED BY <1>2, <1>3, <1>4 DEF with, x

\* The rule of an exception, before and after one more is added: only at the first of its classes
\* that had none before does the new one count.
LEMMA NearestWins == ASSUME NEW e, R!IsRaised(e) PROVE R!NearestRuleWins(e)
<1> DEFINE with == [e EXCEPT !.operation = Append(e.operation, e.added)]
           n == Len(R!Rules(e))
<1> HIDE DEF with
<1>1. /\ n \in Nat /\ DOMAIN R!Rules(e) = 1 .. n /\ DOMAIN R!Rules(with) = 1 .. n + 1
      /\ R!Rules(with)[n + 1] = e.added /\ \A i \in 1 .. n : R!Rules(with)[i] = R!Rules(e)[i]
      /\ with.kinds = e.kinds /\ with.own = e.own
  BY RulesAre DEF with
<1> HIDE DEF n
<1> SUFFICES ASSUME NEW exc \in DOMAIN e.kinds, R!RuleFor(with, exc) # R!RuleFor(e, exc)
             PROVE  /\ R!RuleFor(with, exc) = e.added.status
                    /\ \E k \in DOMAIN e.kinds[exc] :
                         /\ e.kinds[exc][k] = e.added.exception
                         /\ \A j \in 1 .. k - 1 : \A i \in DOMAIN R!Rules(e) : R!Rules(e)[i].exception # e.kinds[exc][j]
  BY DEF R!NearestRuleWins, with
<1> DEFINE classes == e.kinds[exc]
           x == e.added.exception
           old(k) == R!RulesOf(R!Rules(e), classes[k])
           new(k) == R!RulesOf(R!Rules(with), classes[k])
           closeA == {k \in DOMAIN classes : old(k) # {}}
           closeB == {k \in DOMAIN classes : new(k) # {}}
<1>2. /\ R!RuleFor(e, exc) = IF closeA # {} THEN R!Rules(e)[R!Greatest(old(R!Least(closeA)))].status ELSE R!Own(e, exc)
      /\ R!RuleFor(with, exc) = IF closeB # {} THEN R!Rules(with)[R!Greatest(new(R!Least(closeB)))].status ELSE R!Own(e, exc)
  <2>1. R!RuleFor(e, exc) = R!Status(R!Rules(e), classes, R!Own(e, exc)) /\ R!RuleFor(with, exc) = R!Status(R!Rules(with), classes, R!Own(e, exc))
    BY <1>1 DEF R!RuleFor, R!Own
  <2> QED BY <2>1 DEF R!Status
<1>3. /\ \A k \in DOMAIN classes : old(k) \subseteq 1 .. n /\ new(k) = old(k) \cup (IF classes[k] = x THEN {n + 1} ELSE {})
      /\ \A k \in DOMAIN classes : \A i \in old(k) : R!Rules(with)[i] = R!Rules(e)[i]
  BY <1>1 DEF R!RulesOf
<1>4. DOMAIN classes \subseteq Nat /\ DOMAIN classes = 1 .. Len(classes) /\ Len(classes) \in Nat /\ \A i, j \in DOMAIN classes : classes[i] = classes[j] => i = j
  <2>1. classes \in Seq(STRING) /\ \A i, j \in DOMAIN classes : classes[i] = classes[j] => i = j
    BY DEF R!IsRaised
  <2> HIDE DEF classes
  <2> QED BY <2>1
<1>5. closeA \subseteq Nat /\ closeB \subseteq Nat /\ closeA \subseteq DOMAIN classes /\ closeB \subseteq DOMAIN classes
      /\ (\A k \in closeA : old(k) # {}) /\ \A k \in DOMAIN classes : old(k) # {} => k \in closeA
  BY <1>4
<1>6. \A k \in DOMAIN classes : k \in closeB <=> k \in closeA \/ classes[k] = x
  BY <1>3
<1> HIDE DEF old, new, closeA, closeB, classes, x
<1>7. ASSUME NEW m \in closeA, R!Least(closeA) = m, R!Least(closeB) = m, classes[m] # x PROVE FALSE
  <2>1. new(m) = old(m) /\ old(m) # {} /\ old(m) \subseteq 1 .. n /\ closeB # {}
    BY <1>3, <1>5, <1>6, <1>7
  <2>2. R!Greatest(old(m)) \in old(m)
    BY <2>1, <1>1, GreatestIs
  <2> QED BY <1>2, <1>3, <1>5, <1>7, <2>1, <2>2
<1>8. PICK k \in DOMAIN classes : classes[k] = x
  <2> SUFFICES ASSUME \A k \in DOMAIN classes : classes[k] # x PROVE FALSE
    OBVIOUS
  <2>1. closeB = closeA
    BY <1>5, <1>6
  <2>2. CASE closeA = {}
    BY <1>2, <2>1, <2>2
  <2>3. CASE closeA # {}
    BY <1>5, <1>7, <2>1, <2>3, LeastIs
  <2> QED BY <2>2, <2>3
<1>9. \A j \in closeA : ~(j < k)
  <2> SUFFICES ASSUME NEW j \in closeA, j < k PROVE FALSE
    OBVIOUS
  <2> DEFINE m == R!Least(closeA)
  <2>1. m \in closeA /\ m <= j
    BY <1>5, LeastIs
  <2>2. m \in closeB /\ classes[m] # x /\ \A i \in closeB : m <= i
    <3>1. \A i \in closeA : m <= i
      BY <1>5, LeastIs
    <3>2. closeB = closeA \cup {k}
      BY <1>4, <1>5, <1>6, <1>8
    <3>3. m < k
      <4>1. m \in Nat /\ j \in Nat /\ k \in Nat
        BY <2>1, <1>4, <1>5
      <4> QED BY <2>1, <4>1
    <3> QED BY <3>1, <3>2, <3>3, <1>4, <1>5, <1>8, <2>1
  <2>3. R!Least(closeB) = m
    <3>1. R!Least(closeB) \in closeB /\ R!Least(closeB) <= m
      BY <2>2, <1>5, LeastIs
    <3>2. R!Least(closeB) \in Nat /\ m \in Nat /\ m <= R!Least(closeB)
      BY <3>1, <2>2, <1>5
    <3> HIDE DEF m
    <3> QED BY <3>1, <3>2
  <2> QED BY <1>7, <2>1, <2>2, <2>3
<1>10. R!Least(closeB) = k
  <2>1. k \in closeB /\ \A i \in closeB : k <= i
    <3>1. closeB = closeA \cup {k}
      BY <1>4, <1>5, <1>6, <1>8
    <3> QED BY <3>1, <1>9, <1>4, <1>5
  <2>2. R!Least(closeB) \in closeB /\ R!Least(closeB) <= k
    BY <2>1, <1>5, LeastIs
  <2> QED BY <2>1, <2>2, <1>5
<1>11. R!Greatest(new(k)) = n + 1
  <2>1. n + 1 \in new(k) /\ new(k) \subseteq 1 .. n + 1
    BY <1>1, <1>3, <1>8
  <2>2. R!Greatest(new(k)) \in new(k) /\ n + 1 <= R!Greatest(new(k))
    BY <2>1, <1>1, GreatestIs
  <2> QED BY <2>1, <2>2, <1>1
<1>12. R!RuleFor(with, exc) = e.added.status
  BY <1>1, <1>2, <1>6, <1>8, <1>10, <1>11
<1>13. \A j \in 1 .. k - 1, i \in DOMAIN R!Rules(e) : R!Rules(e)[i].exception # classes[j]
  BY <1>4, <1>5, <1>9 DEF old, R!RulesOf
<1> QED BY <1>8, <1>12, <1>13 DEF classes, x

\* The nth list put behind x.
Behind(lists, x, n) == x \o lists[n]

\* The recursive definition of a join is the function it says.
LEMMA JoinedRuns ==
  ASSUME NEW lists \in Seq(Seq(STRING))
  PROVE  \E f : /\ f = [n \in 0 .. Len(lists) |-> IF n = 0 THEN <<>> ELSE Behind(lists, f[n - 1], n)]
                /\ R!Joined(lists) = f[Len(lists)]
<1> DEFINE Rec(f, k) == f = [n \in 0 .. k |-> IF n = 0 THEN <<>> ELSE Behind(lists, f[n - 1], n)]
           T == {k \in Nat : \E f : Rec(f, k)}
<1>1. 0 \in T
  <2>1. Rec([n \in 0 .. 0 |-> <<>>], 0)
    OBVIOUS
  <2> QED BY <2>1
<1>2. ASSUME NEW k \in Nat, k \in T PROVE k + 1 \in T
  <2>1. PICK f : Rec(f, k)
    BY <1>2
  <2> DEFINE g == [n \in 0 .. k + 1 |-> IF n = k + 1 THEN Behind(lists, f[k], k + 1) ELSE f[n]]
  <2>2. \A n \in 0 .. k : g[n] = f[n]
    OBVIOUS
  <2>3. ASSUME NEW n \in 0 .. k + 1 PROVE g[n] = IF n = 0 THEN <<>> ELSE Behind(lists, g[n - 1], n)
    <3>1. CASE n = k + 1
      BY <3>1, <2>2
    <3>2. CASE n # k + 1
      BY <3>2, <2>1, <2>2
    <3> QED BY <3>1, <3>2
  <2>4. Rec(g, k + 1)
    BY <2>3
  <2> HIDE DEF g
  <2> QED BY <2>4
<1> HIDE DEF T
<1>3. Len(lists) \in Nat
  OBVIOUS
<1>4. Len(lists) \in T
  BY <1>1, <1>2, <1>3, Ind
<1>5. \E f : Rec(f, Len(lists))
  BY <1>4 DEF T
<1>6. R!Joined(lists) = (CHOOSE f : Rec(f, Len(lists)))[Len(lists)]
  BY DEF R!Joined, Behind
<1>7. Rec(CHOOSE f : Rec(f, Len(lists)), Len(lists))
  BY ONLY <1>5
<1> QED BY <1>6, <1>7

\* Lists of lists put together are a list.
LEMMA JoinedIs ==
  ASSUME NEW lists \in Seq(Seq(STRING))
  PROVE  R!Joined(lists) \in Seq(STRING)
<1>1. PICK f : f = [n \in 0 .. Len(lists) |-> IF n = 0 THEN <<>> ELSE Behind(lists, f[n - 1], n)] /\ R!Joined(lists) = f[Len(lists)]
  BY JoinedRuns
<1>2. Len(lists) \in Nat /\ \A n \in 1 .. Len(lists) : lists[n] \in Seq(STRING)
  OBVIOUS
<1>3. f[0] = <<>> /\ \A n \in 1 .. Len(lists) : f[n] = Behind(lists, f[n - 1], n)
  <2>1. 0 \in 0 .. Len(lists) /\ \A n \in 1 .. Len(lists) : n \in 0 .. Len(lists) /\ n # 0
    BY <1>2
  <2> DEFINE Rn(n) == IF n = 0 THEN <<>> ELSE Behind(lists, f[n - 1], n)
  <2>2. f = [n \in 0 .. Len(lists) |-> Rn(n)]
    BY <1>1
  <2>3. Rn(0) = <<>> /\ \A n \in Nat \ {0} : Rn(n) = Behind(lists, f[n - 1], n)
    OBVIOUS
  <2> HIDE DEF Rn
  <2>4. \A n \in 0 .. Len(lists) : f[n] = Rn(n)
    BY <2>2
  <2> QED BY <1>2, <2>1, <2>3, <2>4
<1> DEFINE U == {n \in Nat : n <= Len(lists) => f[n] \in Seq(STRING)}
<1>4. 0 \in U
  <2>1. <<>> \in Seq(STRING)
    OBVIOUS
  <2> QED BY <1>3, <2>1
<1>5. ASSUME NEW n \in Nat, n \in U PROVE n + 1 \in U
  <2> SUFFICES ASSUME n + 1 <= Len(lists) PROVE f[n + 1] \in Seq(STRING)
    OBVIOUS
  <2>1. f[n] \in Seq(STRING) /\ n + 1 \in 1 .. Len(lists)
    BY <1>2, <1>5
  <2>2. f[n + 1] = Behind(lists, f[n], n + 1) /\ lists[n + 1] \in Seq(STRING)
    BY <2>1, <1>2, <1>3
  <2> HIDE DEF U
  <2> QED BY <2>1, <2>2 DEF Behind
<1> HIDE DEF U
<1>6. Len(lists) \in U
  BY <1>2, <1>4, <1>5, Ind
<1> QED BY <1>1, <1>2, <1>6 DEF U

\* The names that the classes have at the next depth.
Deeper(c, x) == [k \in DOMAIN c.classes |-> R!Visit(c.classes[k], x)]
NoNames(c) == [k \in DOMAIN c.classes |-> <<>>]

\* The recursive definition of the names is the function it says.
LEMMA NamesRun ==
  ASSUME NEW c, R!IsCase(c)
  PROVE  \E f : /\ f = [n \in 0 .. Len(c.mro) |-> IF n = 0 THEN NoNames(c) ELSE Deeper(c, f[n - 1])]
                /\ R!NamesIn(c) = f[Len(c.mro)][c.mro[1]]
<1> DEFINE Rec(f, k) == f = [n \in 0 .. k |-> IF n = 0 THEN NoNames(c) ELSE Deeper(c, f[n - 1])]
           T == {k \in Nat : \E f : Rec(f, k)}
<1>1. 0 \in T
  <2>1. Rec([n \in 0 .. 0 |-> NoNames(c)], 0)
    OBVIOUS
  <2> QED BY <2>1
<1>2. ASSUME NEW k \in Nat, k \in T PROVE k + 1 \in T
  <2>1. PICK f : Rec(f, k)
    BY <1>2
  <2> DEFINE g == [n \in 0 .. k + 1 |-> IF n = k + 1 THEN Deeper(c, f[k]) ELSE f[n]]
  <2>2. \A n \in 0 .. k : g[n] = f[n]
    OBVIOUS
  <2>3. ASSUME NEW n \in 0 .. k + 1 PROVE g[n] = IF n = 0 THEN NoNames(c) ELSE Deeper(c, g[n - 1])
    <3>1. CASE n = k + 1
      BY <3>1, <2>2
    <3>2. CASE n # k + 1
      BY <3>2, <2>1, <2>2
    <3> QED BY <3>1, <3>2
  <2>4. Rec(g, k + 1)
    BY <2>3
  <2> HIDE DEF g
  <2> QED BY <2>4
<1> HIDE DEF T
<1>3. Len(c.mro) \in Nat
  BY DEF R!IsCase
<1>4. Len(c.mro) \in T
  BY <1>1, <1>2, <1>3, Ind
<1>5. \E f : Rec(f, Len(c.mro))
  BY <1>4 DEF T
<1>6. R!NamesIn(c) = (CHOOSE f : Rec(f, Len(c.mro)))[Len(c.mro)][c.mro[1]]
  BY DEF R!NamesIn, Deeper, NoNames
<1>7. Rec(CHOOSE f : Rec(f, Len(c.mro)), Len(c.mro))
  BY ONLY <1>5
<1> QED BY <1>6, <1>7

\* The names are a list of names.
LEMMA NamesAre == ASSUME NEW c, R!IsCase(c) PROVE R!NamesIn(c) \in Seq(STRING)
<1> DEFINE C == DOMAIN c.classes
           All == [C -> Seq(STRING)]
<1>1. PICK f : f = [n \in 0 .. Len(c.mro) |-> IF n = 0 THEN NoNames(c) ELSE Deeper(c, f[n - 1])] /\ R!NamesIn(c) = f[Len(c.mro)][c.mro[1]]
  BY NamesRun
<1>2. Len(c.mro) \in Nat /\ c.mro[1] \in C
  BY DEF R!IsCase
<1>3. f[0] = NoNames(c) /\ \A n \in 1 .. Len(c.mro) : f[n] = Deeper(c, f[n - 1])
  <2>1. 0 \in 0 .. Len(c.mro) /\ \A n \in 1 .. Len(c.mro) : n \in 0 .. Len(c.mro) /\ n # 0
    BY <1>2
  <2> DEFINE At(n) == IF n = 0 THEN NoNames(c) ELSE Deeper(c, f[n - 1])
  <2>2. f = [n \in 0 .. Len(c.mro) |-> At(n)]
    BY <1>1
  <2>3. At(0) = NoNames(c) /\ \A n \in Nat \ {0} : At(n) = Deeper(c, f[n - 1])
    OBVIOUS
  <2> HIDE DEF At
  <2>4. \A n \in 0 .. Len(c.mro) : f[n] = At(n)
    BY <2>2
  <2> QED BY <1>2, <2>1, <2>3, <2>4
<1>4. NoNames(c) \in All
  <2>1. <<>> \in Seq(STRING)
    OBVIOUS
  <2> QED BY <2>1 DEF NoNames
<1>5. ASSUME NEW x \in All PROVE Deeper(c, x) \in All
  <2> SUFFICES ASSUME NEW k \in C PROVE R!Visit(c.classes[k], x) \in Seq(STRING)
    BY DEF Deeper
  <2> DEFINE bases == c.classes[k].bases
             members == c.classes[k].members
             above == [i \in DOMAIN bases |-> x[bases[i]]]
             own == [i \in DOMAIN members |-> members[i].name]
  <2>1. bases \in Seq(C) /\ members \in Seq(R!Attributes)
    BY DEF R!IsCase
  <2>2. R!Visit(c.classes[k], x) = R!Joined(above) \o own
    BY DEF R!Visit
  <2> HIDE DEF bases, members
  <2>3. above \in Seq(Seq(STRING))
    <3>1. DOMAIN bases = 1 .. Len(bases) /\ Len(bases) \in Nat /\ \A i \in DOMAIN bases : bases[i] \in C
      BY <2>1
    <3>2. \A i \in DOMAIN bases : x[bases[i]] \in Seq(STRING)
      BY <3>1
    <3> QED BY <3>1, <3>2
  <2>4. own \in Seq(STRING)
    <3>1. \A m \in R!Attributes : m.name \in STRING
      BY DEF R!Attributes
    <3>2. DOMAIN members = 1 .. Len(members) /\ Len(members) \in Nat /\ \A i \in DOMAIN members : members[i] \in R!Attributes
      BY <2>1
    <3> QED BY <3>1, <3>2
  <2> HIDE DEF above, own
  <2>5. R!Joined(above) \in Seq(STRING)
    BY <2>3, JoinedIs
  <2> QED BY <2>2, <2>4, <2>5
<1> DEFINE U == {n \in Nat : n <= Len(c.mro) => f[n] \in All}
<1> HIDE DEF All
<1>6. 0 \in U
  BY <1>3, <1>4
<1>7. ASSUME NEW n \in Nat, n \in U PROVE n + 1 \in U
  <2> SUFFICES ASSUME n + 1 <= Len(c.mro) PROVE f[n + 1] \in All
    OBVIOUS
  <2>1. f[n] \in All /\ n + 1 \in 1 .. Len(c.mro)
    BY <1>2, <1>7
  <2>2. f[n + 1] = Deeper(c, f[n])
    BY <2>1, <1>3
  <2> HIDE DEF U
  <2> QED BY <2>1, <2>2, <1>5
<1> HIDE DEF U
<1>8. Len(c.mro) \in U
  BY <1>2, <1>6, <1>7, Ind
<1>9. f[Len(c.mro)] \in All
  BY <1>2, <1>8 DEF U
<1> QED BY <1>1, <1>2, <1>9 DEF All

\* The member of a name is that of the nearest class that has the name.
LEMMA MemberIs ==
  ASSUME NEW c, R!IsCase(c), NEW name
  PROVE  /\ R!Member(c, name) \in Seq(R!Specs)
         /\ R!Member(c, name) # <<>> => \E n \in DOMAIN c.mro :
              /\ \A j \in 1 .. n - 1 : R!MembersIn(c, c.mro[j], name) = {}
              /\ \E i \in R!MembersIn(c, c.mro[n], name) : R!Member(c, name) = c.classes[c.mro[n]].members[i].specs
<1> DEFINE having == R!Having(c, name)
<1>1. DOMAIN c.mro = 1 .. Len(c.mro) /\ Len(c.mro) \in Nat /\ \A n \in DOMAIN c.mro : c.mro[n] \in DOMAIN c.classes
  BY DEF R!IsCase
<1>2. CASE having = {}
  <2>1. <<>> \in Seq(R!Specs)
    OBVIOUS
  <2> QED BY <1>2, <2>1 DEF R!Member
<1>3. CASE having # {}
  <2> DEFINE n == R!Least(having)
             k == c.mro[n]
             i == CHOOSE i \in R!MembersIn(c, k, name) : TRUE
  <2>1. having \subseteq DOMAIN c.mro /\ having \subseteq Nat
    BY <1>1 DEF R!Having
  <2>2. n \in having /\ \A m \in having : n <= m
    BY <1>3, <2>1, LeastIs
  <2>3. R!Member(c, name) = c.classes[k].members[i].specs
    BY <1>3 DEF R!Member, R!SpecsAt
  <2>4. R!MembersIn(c, k, name) # {} /\ n \in DOMAIN c.mro /\ n \in Nat
    BY <2>1, <2>2 DEF R!Having
  <2>5. \A j \in 1 .. n - 1 : R!MembersIn(c, c.mro[j], name) = {}
    <3> HIDE DEF n
    <3> SUFFICES ASSUME NEW j \in 1 .. n - 1, R!MembersIn(c, c.mro[j], name) # {} PROVE FALSE
      OBVIOUS
    <3>1. j \in DOMAIN c.mro /\ j < n /\ j \in Nat
      BY <1>1, <2>4
    <3>2. j \in having
      BY <3>1 DEF R!Having
    <3> HIDE DEF having
    <3> QED BY <2>2, <2>4, <3>1, <3>2
  <2> HIDE DEF n, having
  <2>6. i \in R!MembersIn(c, k, name)
    BY <2>4
  <2> HIDE DEF i
  <2>7. k \in DOMAIN c.classes
    BY <1>1, <2>4
  <2> HIDE DEF k
  <2>8. c.classes[k].members[i].specs \in Seq(R!Specs)
    <3>1. c.classes[k].members \in Seq(R!Attributes) /\ i \in DOMAIN c.classes[k].members
      BY <2>6, <2>7 DEF R!IsCase, R!MembersIn
    <3>2. c.classes[k].members[i] \in R!Attributes
      BY <3>1
    <3> QED BY <3>2 DEF R!Attributes
  <2> QED BY <2>3, <2>4, <2>5, <2>6, <2>8 DEF k
<1> QED BY <1>2, <1>3

\* What a registration is: an enabled route of a member, at a place of two numbers.
LEMMA RoutesAre ==
  ASSUME NEW c, R!IsCase(c), NEW at \in DOMAIN R!Registrations(c)
  PROVE  LET route == R!Registrations(c)[at] IN
         /\ at \in Nat \X Nat /\ R!Enabled(c, route.name) /\ route.path \in Seq(R!Segments)
         /\ \E x \in DOMAIN R!Member(c, route.name) : R!Member(c, route.name)[x].method = route.method
<1> DEFINE names == R!NamesIn(c)
           once == {x \in R!Once(names) : R!Enabled(c, names[x])}
           places == UNION {{n} \X DOMAIN R!Member(c, names[n]) : n \in once}
<1>1. R!Registrations(c) = [a \in places |-> R!Route(c, names[a[1]], R!Member(c, names[a[1]])[a[2]])]
  BY DEF R!Registrations
<1> HIDE DEF names
<1>2. at \in places /\ R!Registrations(c)[at] = R!Route(c, names[at[1]], R!Member(c, names[at[1]])[at[2]])
  BY <1>1
<1>3. PICK n \in once : at \in {n} \X DOMAIN R!Member(c, names[n])
  BY <1>2
<1>4. PICK i \in DOMAIN R!Member(c, names[n]) : at = <<n, i>>
  BY <1>3
<1> DEFINE name == names[n]
           spec == R!Member(c, name)[i]
           route == R!Registrations(c)[at]
<1>5. n \in DOMAIN names /\ R!Enabled(c, name) /\ n \in Nat
  <2>1. names \in Seq(STRING)
    BY NamesAre DEF names
  <2>2. n \in DOMAIN names /\ R!Enabled(c, name)
    BY DEF R!Once
  <2> QED BY <2>1, <2>2
<1>6. spec \in R!Specs /\ i \in Nat
  <2>1. R!Member(c, name) \in Seq(R!Specs)
    BY MemberIs
  <2> QED BY <1>4, <2>1
<1>7. route = R!Route(c, name, spec)
  BY <1>2, <1>4
<1> HIDE DEF spec, name, route
<1>8. route.name = name /\ route.method = spec.method
  BY <1>7 DEF R!Route
<1>9. route.path \in Seq(R!Segments)
  <2> DEFINE given == IF name \in DOMAIN c.routes THEN c.routes[name].path ELSE None
             path == IF given = None THEN spec.path ELSE given
  <2>1. path \in Seq(R!Segments)
    <3>1. spec.path \in Seq(R!Segments)
      BY <1>6 DEF R!Specs
    <3>2. name \in DOMAIN c.routes => c.routes[name].path = None \/ c.routes[name].path \in Seq(R!Segments)
      BY DEF R!IsCase
    <3> QED BY <3>1, <3>2
  <2>2. route.path = R!WithConverter(c, path)
    BY <1>7 DEF R!Route
  <2> HIDE DEF path
  <2>3. R!WithConverter(c, path) \in Seq(R!Segments)
    <3>1. CASE ~c.converter
      BY <3>1, <2>1 DEF R!WithConverter
    <3>2. CASE c.converter
      <4> DEFINE e(i_1) == IF path[i_1] = [conv |-> "str", name |-> "pk"] THEN [path[i_1] EXCEPT !.conv = c.converter_type] ELSE path[i_1]
      <4>1. R!WithConverter(c, path) = [i_1 \in DOMAIN path |-> e(i_1)]
        BY <3>2 DEF R!WithConverter
      <4>2. DOMAIN path = 1 .. Len(path) /\ Len(path) \in Nat /\ \A i_1 \in DOMAIN path : path[i_1] \in R!Segments
        BY <2>1
      <4>3. \A x \in R!Segments : [x EXCEPT !.conv = c.converter_type] \in R!Segments
        <5>1. c.converter_type \in STRING
          BY DEF R!IsCase
        <5> QED BY <5>1 DEF R!Segments
      <4>4. \A i_1 \in DOMAIN path : e(i_1) \in R!Segments
        BY <4>2, <4>3
      <4> HIDE DEF e
      <4> QED BY <4>1, <4>2, <4>4
    <3> QED BY <3>1, <3>2
  <2> QED BY <2>2, <2>3
<1> QED BY <1>4, <1>5, <1>6, <1>8, <1>9 DEF route, name, spec

\* The keys of some things, each of m numbers.
Keys(T, m) == [T -> [1 .. m -> Nat]]

\* Key p is q, or differs from it first by being less.
AtMost(p, q, m) == \/ \A i \in 1 .. m : p[i] = q[i]
                   \/ \E i \in 1 .. m : p[i] < q[i] /\ \A h \in 1 .. i - 1 : p[h] = q[h]

\* The least of some keys: none of the others differs from it first by being less.
LEMMA LeastKey ==
  ASSUME NEW m \in Nat, NEW T, T # {}, NEW key \in Keys(T, m)
  PROVE  \E a \in T : \A b \in T : AtMost(key[a], key[b], m)
<1> DEFINE Same(a, b, j) == \A i \in 1 .. j : key[a][i] = key[b][i]
           Less(a, b, j) == \E i \in 1 .. j : key[a][i] < key[b][i] /\ \A h \in 1 .. i - 1 : key[a][h] = key[b][h]
           J == {j \in Nat : j <= m => \E a \in T : \A b \in T : Same(a, b, j) \/ Less(a, b, j)}
<1>0. key \in [T -> [1 .. m -> Nat]]
  BY DEF Keys
<1>1. 0 \in J
  OBVIOUS
<1>2. ASSUME NEW j \in Nat, j \in J PROVE j + 1 \in J
  <2> SUFFICES ASSUME j + 1 <= m PROVE \E a \in T : \A b \in T : Same(a, b, j + 1) \/ Less(a, b, j + 1)
    OBVIOUS
  <2>1. PICK x \in T : \A b \in T : Same(x, b, j) \/ Less(x, b, j)
    <3> HIDE DEF Same, Less
    <3>1. j <= m => \E a \in T : \A b \in T : Same(a, b, j) \/ Less(a, b, j)
      BY <1>2
    <3> QED BY <3>1
  <2> HIDE DEF J
  <2> DEFINE U == {b \in T : Same(x, b, j)}
             ns == {key[b][j + 1] : b \in U}
  <2>2. \A b \in T : \A i \in 1 .. j + 1 : key[b][i] \in Nat
    BY <1>0
  <2>3. ns \subseteq Nat /\ ns # {}
    <3>1. x \in U
      OBVIOUS
    <3>2. j + 1 \in 1 .. j + 1
      OBVIOUS
    <3> QED BY <2>2, <3>1, <3>2
  <2>4. PICK n \in ns : \A o \in ns : ~(o < n)
    BY <2>3, Least
  <2>5. PICK a \in U : n = key[a][j + 1]
    OBVIOUS
  <2>6. \A b \in U : key[b][j + 1] \in ns
    OBVIOUS
  <2> HIDE DEF ns
  <2>7. ASSUME NEW b \in T PROVE Same(a, b, j + 1) \/ Less(a, b, j + 1)
    <3>1. CASE b \in U
      <4>1. Same(a, b, j)
        BY <3>1
      <4>2. key[a][j + 1] \in Nat /\ key[b][j + 1] \in Nat /\ ~(key[b][j + 1] < key[a][j + 1])
        BY <2>2, <2>4, <2>5, <2>6, <3>1
      <4>3. CASE key[a][j + 1] = key[b][j + 1]
        BY <4>1, <4>3
      <4>4. CASE key[a][j + 1] < key[b][j + 1]
        BY <4>1, <4>4
      <4> QED BY <4>2, <4>3, <4>4
    <3>2. CASE b \notin U
      <4>1. PICK i \in 1 .. j : key[x][i] < key[b][i] /\ \A h \in 1 .. i - 1 : key[x][h] = key[b][h]
        BY <2>1, <3>2
      <4>2. Same(x, a, j)
        OBVIOUS
      <4>3. key[a][i] < key[b][i] /\ \A h \in 1 .. i - 1 : key[a][h] = key[b][h]
        BY <4>1, <4>2
      <4> QED BY <4>3
    <3> QED BY <3>1, <3>2
  <2> HIDE DEF Same, Less
  <2> QED BY <2>5, <2>7
<1> HIDE DEF J
<1>3. m \in J
  BY <1>1, <1>2, Ind
<1>4. \A a, b \in T : Same(a, b, m) \/ Less(a, b, m) => AtMost(key[a], key[b], m)
  BY DEF AtMost
<1> HIDE DEF Same, Less
<1> QED BY <1>3, <1>4 DEF J

\* Of some pairs of numbers one comes before all others.
LEMMA EarliestIs ==
  ASSUME NEW U, U \subseteq Nat \X Nat, U # {}
  PROVE  \E a \in U : \A b \in U : b = a \/ R!Earlier(a, b)
<1> DEFINE firsts == {p[1] : p \in U}
<1>1. firsts \subseteq Nat /\ firsts # {}
  OBVIOUS
<1>2. PICK n \in firsts : \A o \in firsts : ~(o < n)
  BY <1>1, Least
<1> DEFINE seconds == {p[2] : p \in {x \in U : x[1] = n}}
<1>3. seconds \subseteq Nat /\ seconds # {}
  OBVIOUS
<1>4. PICK k \in seconds : \A o \in seconds : ~(o < k)
  BY <1>3, Least
<1>5. PICK a \in U : a[1] = n /\ a[2] = k
  OBVIOUS
<1>6. ASSUME NEW b \in U PROVE b = a \/ R!Earlier(a, b)
  <2>1. a = <<a[1], a[2]>> /\ b = <<b[1], b[2]>> /\ a[1] \in Nat /\ a[2] \in Nat /\ b[1] \in Nat /\ b[2] \in Nat
    OBVIOUS
  <2>2. b[1] \in firsts /\ (b[1] = n => b[2] \in seconds)
    OBVIOUS
  <2> HIDE DEF firsts, seconds
  <2>3. ~(b[1] < a[1]) /\ (b[1] = a[1] => ~(b[2] < a[2]))
    BY <1>2, <1>4, <1>5, <2>2
  <2>4. b[1] = a[1] /\ b[2] = a[2] => b = a
    BY <2>1
  <2> QED BY <2>1, <2>3, <2>4 DEF R!Earlier
<1> QED BY <1>6

\* A path's key has a rank for each segment.
LEMMA KeyIs ==
  ASSUME NEW path \in Seq(R!Segments)
  PROVE  LET key == R!Specificity(path) IN
         /\ Len(path) \in Nat /\ DOMAIN path = 1 .. Len(path) /\ key \in [1 .. Len(path) -> Nat]
         /\ \A i \in DOMAIN path : key[i] = R!Rank(path[i])
<1>1. Len(path) \in Nat /\ DOMAIN path = 1 .. Len(path)
  OBVIOUS
<1>2. \A s : R!Rank(s) \in Nat
  BY DEF R!Rank
<1> QED BY <1>1, <1>2 DEF R!Specificity

\* Of some registrations whose paths have one length, one comes first.
LEMMA FirstOfRoutes ==
  ASSUME NEW c, R!IsCase(c), NEW m \in Nat, NEW T, T # {}, T \subseteq DOMAIN R!Registrations(c),
         \A at \in T : Len(R!Registrations(c)[at].path) = m
  PROVE  LET first == R!First(R!Registrations(c), T) IN first \in T /\ \A b \in T : b = first \/ R!Before(R!Registrations(c), first, b)
<1> DEFINE regs == R!Registrations(c)
           key == [at \in T |-> R!Specificity(regs[at].path)]
<1>1. \A at \in T : at \in Nat \X Nat /\ regs[at].path \in Seq(R!Segments)
  BY RoutesAre
<1>2. \A at \in T : R!Specificity(regs[at].path) \in [1 .. m -> Nat]
  BY <1>1, KeyIs
<1> HIDE DEF regs
<1>3. key \in Keys(T, m)
  BY <1>2 DEF Keys
<1>4. PICK x \in T : \A b \in T : AtMost(key[x], key[b], m)
  <2> HIDE DEF key
  <2> QED BY <1>3, LeastKey
<1> DEFINE U == {b \in T : key[b] = key[x]}
<1>5. PICK a \in U : \A b \in U : b = a \/ R!Earlier(a, b)
  <2>1. U \subseteq Nat \X Nat /\ U # {}
    BY <1>1
  <2> QED BY <2>1, EarliestIs
<1>6. ASSUME NEW b \in T PROVE b = a \/ R!Before(regs, a, b)
  <2> DEFINE p == R!Specificity(regs[a].path)
             q == R!Specificity(regs[b].path)
  <2>1. key[a] = p /\ key[b] = q /\ key[x] = p /\ p \in [1 .. m -> Nat] /\ q \in [1 .. m -> Nat]
    BY <1>2, <1>5
  <2>2. R!Before(regs, a, b) = (R!Below(p, q) \/ (p = q /\ R!Earlier(a, b)))
    BY DEF R!Before
  <2> HIDE DEF p, q
  <2>3. CASE \A i \in 1 .. m : p[i] = q[i]
    <3>1. p = q
      BY <2>1, <2>3
    <3> QED BY <1>5, <2>1, <2>2, <3>1
  <2>4. CASE \E i \in 1 .. m : p[i] < q[i] /\ \A h \in 1 .. i - 1 : p[h] = q[h]
    BY <2>1, <2>2, <2>4 DEF R!Below
  <2>5. AtMost(p, q, m)
    BY <1>4, <2>1
  <2> QED BY <2>3, <2>4, <2>5 DEF AtMost
<1> HIDE DEF key
<1> QED BY <1>5, <1>6 DEF R!First, regs

\* The nearest class that has the name declares the method for it.
IsNearest(c, name, method) ==
  \E n \in DOMAIN c.mro :
    /\ \A j \in 1 .. n - 1 : R!MembersIn(c, c.mro[j], name) = {}
    /\ \E i \in R!MembersIn(c, c.mro[n], name) : \E x \in DOMAIN c.classes[c.mro[n]].members[i].specs :
         c.classes[c.mro[n]].members[i].specs[x].method = method

\* What BestRouteServes says of the answer s to one request, which these registrations fit.
IsServed(c, regs, fits, s, method) ==
  /\ s.status = 404 <=> fits = {}
  /\ s.status # 404 => \A at \in fits : regs[at].method = method => ~R!Better(regs[at].path, s.path)
  /\ s.status = 200 =>
       /\ \E at \in fits : regs[at].name = s.name /\ regs[at].method = method /\ regs[at].path = s.path
       /\ R!Enabled(c, s.name)
       /\ IsNearest(c, s.name, method)

\* No route that fits better is passed over: it would have come before.
LEMMA BestServes == ASSUME NEW c, R!IsCase(c) PROVE R!BestRouteServes(c)
<1> DEFINE regs == R!Registrations(c)
<1> SUFFICES ASSUME NEW url \in c.urls, NEW method \in {"GET", "POST"}
             PROVE  IsServed(c, regs, {at \in DOMAIN regs : R!Matches(regs[at].path, url)}, R!Dispatch(regs, method, url), method)
  BY DEF R!BestRouteServes, IsServed, IsNearest
<1> DEFINE s == R!Dispatch(regs, method, url)
           hits == {at \in DOMAIN regs : R!Matches(regs[at].path, url)}
           first == R!First(regs, hits)
           path == regs[first].path
           sameView == {at \in DOMAIN regs : regs[at].path = path /\ regs[at].method = method}
           own == R!First(regs, sameView)
<1>1. s = IF hits = {} THEN [status |-> 404, path |-> None, name |-> None]
          ELSE IF sameView = {} THEN [status |-> 405, path |-> path, name |-> None]
          ELSE [status |-> 200, path |-> path, name |-> regs[own].name]
  BY DEF R!Dispatch
<1>2. \A at \in DOMAIN regs : regs[at].path \in Seq(R!Segments) /\ Len(regs[at].path) \in Nat
  BY RoutesAre, KeyIs
<1>3. Len(url) \in Nat /\ \A at \in hits : Len(regs[at].path) = Len(url)
  <2>1. url \in Seq(STRING)
    BY DEF R!IsCase
  <2> QED BY <2>1 DEF R!Matches
<1>4. hits # {} => first \in hits /\ \A at \in hits : at = first \/ R!Before(regs, first, at)
  BY <1>3, FirstOfRoutes
<1>5. hits # {} /\ sameView # {} => own \in sameView
  <2>1. hits # {} => Len(path) \in Nat
    BY <1>2, <1>4
  <2>2. \A at \in sameView : Len(regs[at].path) = Len(path)
    OBVIOUS
  <2> QED BY <2>1, <2>2, FirstOfRoutes
<1> HIDE DEF s
<1>6. ASSUME NEW at \in hits, R!Better(regs[at].path, path) PROVE FALSE
  <2> DEFINE p == R!Specificity(path)
             q == R!Specificity(regs[at].path)
  <2>1. first \in hits /\ Len(path) = Len(url) /\ Len(regs[at].path) = Len(url) /\ path \in Seq(R!Segments) /\ regs[at].path \in Seq(R!Segments)
    BY <1>2, <1>3, <1>4
  <2>2. /\ p \in [1 .. Len(url) -> Nat] /\ q \in [1 .. Len(url) -> Nat]
        /\ \A i \in 1 .. Len(url) : p[i] = R!Rank(path[i]) /\ q[i] = R!Rank(regs[at].path[i])
        /\ DOMAIN regs[at].path = 1 .. Len(url)
    BY <2>1, KeyIs
  <2>3. (\A i \in 1 .. Len(url) : q[i] <= p[i]) /\ \E i \in 1 .. Len(url) : q[i] < p[i]
    BY <1>6, <2>2 DEF R!Better
  <2>4. at # first
    <3> SUFFICES ASSUME at = first PROVE FALSE
      OBVIOUS
    <3>1. q = p
      OBVIOUS
    <3> HIDE DEF p, q
    <3> QED BY <1>3, <2>2, <2>3, <3>1
  <2>5. R!Below(p, q) \/ p = q
    <3>1. R!Before(regs, first, at)
      BY <1>4, <2>4
    <3> QED BY <3>1 DEF R!Before
  <2> HIDE DEF p, q
  <2>6. Len(p) = Len(url) /\ Len(q) = Len(url)
    <3>1. p \in Seq(Nat) /\ q \in Seq(Nat)
      BY <1>3, <2>2
    <3>2. DOMAIN p = 1 .. Len(url) /\ DOMAIN q = 1 .. Len(url)
      BY <2>2
    <3> HIDE DEF hits, first, path, regs
    <3> QED BY <1>3, <3>1, <3>2
  <2>7. CASE R!Below(p, q)
    BY <1>3, <2>2, <2>3, <2>6, <2>7 DEF R!Below
  <2>8. CASE p = q
    BY <1>3, <2>2, <2>3, <2>8
  <2> QED BY <2>5, <2>7, <2>8
<1>7. ASSUME hits = {} PROVE IsServed(c, regs, hits, s, method)
  <2>1. s.status = 404
    BY <1>1, <1>7
  <2> HIDE DEF regs, hits
  <2> QED BY <1>7, <2>1 DEF IsServed
<1>8. ASSUME hits # {}, sameView = {} PROVE IsServed(c, regs, hits, s, method)
  <2>1. s.status = 405 /\ s.path = path
    BY <1>1, <1>8
  <2> HIDE DEF regs, hits, path
  <2> QED BY <1>6, <1>8, <2>1 DEF IsServed
<1>9. ASSUME hits # {}, sameView # {} PROVE IsServed(c, regs, hits, s, method)
  <2>1. s.status = 200 /\ s.path = path /\ s.name = regs[own].name
    BY <1>1, <1>9
  <2>2. own \in DOMAIN regs /\ regs[own].path = path /\ regs[own].method = method
    BY <1>5, <1>9
  <2>3. own \in hits
    BY <1>4, <1>9, <2>2
  <2>4. R!Enabled(c, s.name) /\ \E x \in DOMAIN R!Member(c, s.name) : R!Member(c, s.name)[x].method = method
    <3>1. R!Enabled(c, regs[own].name) /\ \E x \in DOMAIN R!Member(c, regs[own].name) : R!Member(c, regs[own].name)[x].method = regs[own].method
      BY <2>2, RoutesAre
    <3> HIDE DEF own
    <3> QED BY <2>1, <2>2, <3>1
  <2>5. R!Member(c, s.name) # <<>>
    BY <2>4
  <2>6. \E n \in DOMAIN c.mro :
          /\ \A j \in 1 .. n - 1 : R!MembersIn(c, c.mro[j], s.name) = {}
          /\ \E i \in R!MembersIn(c, c.mro[n], s.name) : R!Member(c, s.name) = c.classes[c.mro[n]].members[i].specs
    BY <2>5, MemberIs
  <2>7. IsNearest(c, s.name, method)
    BY <2>4, <2>6 DEF IsNearest
  <2>8. \A at \in hits : ~R!Better(regs[at].path, path)
    BY <1>6
  <2> HIDE DEF regs, hits, path, own, sameView
  <2>9. \E at \in hits : regs[at].name = s.name /\ regs[at].method = method /\ regs[at].path = s.path
    BY <2>1, <2>2, <2>3
  <2>10. R!Enabled(c, s.name)
    BY <2>4
  <2> QED BY <1>9, <2>1, <2>7, <2>8, <2>9, <2>10 DEF IsServed
<1>10. IsServed(c, regs, hits, s, method)
  BY <1>7, <1>8, <1>9
<1> QED BY <1>10 DEF s

(******************************** Responses *******************************)
\* A finite set of numbers that is not empty has a greatest one.
LEMMA GreatestOfFinite ==
  ASSUME NEW U, U \subseteq Nat, IsFiniteSet(U), U # {}
  PROVE  \E x \in U : \A y \in U : y <= x
<1>1. PICK n \in Nat : ExistsSurjection(1 .. n, U)
  BY FS_NatSurjection
<1>2. PICK f \in [1 .. n -> U] : \A y \in U : \E i \in 1 .. n : f[i] = y
  BY <1>1 DEF ExistsSurjection, Surjection
<1>0. \A i \in 1 .. n : f[i] \in U /\ f[i] \in Nat
  OBVIOUS
<1> DEFINE J == {j \in Nat : j <= n => (j = 0 \/ \E a \in 1 .. j : \A i \in 1 .. j : f[i] <= f[a])}
<1>3. 0 \in J
  OBVIOUS
<1>4. ASSUME NEW j \in Nat, j \in J PROVE j + 1 \in J
  <2> SUFFICES ASSUME j + 1 <= n PROVE \E a \in 1 .. j + 1 : \A i \in 1 .. j + 1 : f[i] <= f[a]
    OBVIOUS
  <2>1. \A i \in 1 .. j + 1 : f[i] \in Nat
    <3> HIDE DEF J
    <3> QED BY <1>0
  <2>2. CASE j = 0
    BY <2>1, <2>2
  <2>3. CASE j # 0
    <3>1. PICK a \in 1 .. j : \A i \in 1 .. j : f[i] <= f[a]
      BY <1>4, <2>3
    <3> HIDE DEF J
    <3>2. f[a] \in Nat /\ f[j + 1] \in Nat /\ \A i \in 1 .. j : f[i] \in Nat
      BY <2>1, <3>1
    <3>3. \A i \in 1 .. j + 1 : i \in 1 .. j \/ i = j + 1
      OBVIOUS
    <3>4. CASE f[j + 1] <= f[a]
      BY <3>1, <3>3, <3>4
    <3>5. CASE ~(f[j + 1] <= f[a])
      BY <3>1, <3>2, <3>3, <3>5
    <3> QED BY <3>4, <3>5
  <2> QED BY <2>2, <2>3
<1> HIDE DEF J
<1>5. n \in J
  BY <1>3, <1>4, Ind
<1>6. n # 0
  <2>1. PICK y \in U : TRUE
    OBVIOUS
  <2>2. PICK i \in 1 .. n : f[i] = y
    BY <1>2
  <2> QED BY <2>2
<1>7. PICK a \in 1 .. n : \A i \in 1 .. n : f[i] <= f[a]
  BY <1>5, <1>6 DEF J
<1> QED BY <1>0, <1>2, <1>7

\* The current version is above the older ones.
LEMMA CurrentIs ==
  ASSUME NEW k, V!IsCase(k)
  PROVE  V!Current(k.world) \in Nat /\ V!Current(k.world) \notin k.world.versions /\ k.world.versions \subseteq Nat
<1> DEFINE U == k.world.versions
<1>1. U \subseteq Nat /\ IsFiniteSet(U)
  BY DEF V!IsCase, V!IsFiniteSet, IsFiniteSet
<1>2. CASE U = {}
  BY <1>1, <1>2 DEF V!Current
<1>3. CASE U # {}
  <2> DEFINE top == CHOOSE v \in U : \A o \in U : o <= v
  <2>1. top \in U /\ \A o \in U : o <= top
    BY <1>1, <1>3, GreatestOfFinite
  <2>2. V!Current(k.world) = top + 1
    BY <1>3 DEF V!Current
  <2> QED BY <1>1, <2>1, <2>2
<1> QED BY <1>2, <1>3

\* How many middlewares are entered: all, or up to the first that answers.
LEMMA EnteredIs ==
  ASSUME NEW stack \in Seq(STRING), NEW w, NEW q
  PROVE  LET n == V!Entered(stack, w, q)
             stops == V!Answering(stack, w, q)
         IN /\ Len(stack) \in Nat /\ DOMAIN stack = 1 .. Len(stack) /\ stops \subseteq 1 .. Len(stack)
            /\ n \in 0 .. Len(stack) /\ n \in Nat
            /\ stops = {} => n = Len(stack)
            /\ stops # {} => n \in stops /\ \A j \in stops : n <= j
            /\ stack # <<>> => n \in 1 .. Len(stack)
<1> DEFINE stops == V!Answering(stack, w, q)
<1>1. Len(stack) \in Nat /\ DOMAIN stack = 1 .. Len(stack) /\ (stack # <<>> => Len(stack) > 0)
  OBVIOUS
<1>2. stops \subseteq 1 .. Len(stack)
  BY <1>1 DEF V!Answering
<1>3. V!Entered(stack, w, q) = IF stops = {} THEN Len(stack) ELSE CHOOSE i \in stops : \A j \in stops : i <= j
  BY DEF V!Entered
<1> HIDE DEF stops
<1>4. stops # {} => \E i \in stops : \A j \in stops : i <= j
  <2> SUFFICES ASSUME stops # {} PROVE \E i \in stops : \A j \in stops : i <= j
    OBVIOUS
  <2>1. PICK i \in stops : \A j \in stops : ~(j < i)
    <3>1. stops \subseteq Nat
      BY <1>1, <1>2
    <3> QED BY <3>1, Least
  <2> QED BY <1>1, <1>2, <2>1
<1> QED BY <1>1, <1>2, <1>3, <1>4 DEF stops

\* The recursive definition of the states on the way in is the function it says.
LEMMA StatesRun ==
  ASSUME NEW stack \in Seq(STRING), NEW w, NEW q
  PROVE  V!StatesIn(stack, w, q) = [i \in 0 .. V!Entered(stack, w, q) |->
           IF i = 0 THEN V!Fresh(w) ELSE V!Keeps(stack[i], w, q, V!StatesIn(stack, w, q)[i - 1])]
<1> DEFINE Rec(f, k) == f = [i \in 0 .. k |-> IF i = 0 THEN V!Fresh(w) ELSE V!Keeps(stack[i], w, q, f[i - 1])]
           T == {k \in Nat : \E f : Rec(f, k)}
           n == V!Entered(stack, w, q)
<1>1. 0 \in T
  <2>1. Rec([i \in 0 .. 0 |-> V!Fresh(w)], 0)
    OBVIOUS
  <2> QED BY <2>1
<1>2. ASSUME NEW k \in Nat, k \in T PROVE k + 1 \in T
  <2>1. PICK f : Rec(f, k)
    BY <1>2
  <2> DEFINE g == [i \in 0 .. k + 1 |-> IF i = k + 1 THEN V!Keeps(stack[k + 1], w, q, f[k]) ELSE f[i]]
  <2>2. \A i \in 0 .. k : g[i] = f[i]
    OBVIOUS
  <2>3. ASSUME NEW i \in 0 .. k + 1 PROVE g[i] = IF i = 0 THEN V!Fresh(w) ELSE V!Keeps(stack[i], w, q, g[i - 1])
    <3>1. CASE i = k + 1
      BY <3>1, <2>2
    <3>2. CASE i # k + 1
      BY <3>2, <2>1, <2>2
    <3> QED BY <3>1, <3>2
  <2>4. Rec(g, k + 1)
    BY <2>3
  <2> HIDE DEF g, Rec
  <2> QED BY <2>4
<1> HIDE DEF T
<1>3. n \in Nat
  BY EnteredIs
<1>4. n \in T
  <2> HIDE DEF n
  <2> QED BY <1>1, <1>2, <1>3, Ind
<1>5. \E f : Rec(f, n)
  BY <1>4 DEF T
<1>6. V!StatesIn(stack, w, q) = CHOOSE f : Rec(f, n)
  BY DEF V!StatesIn
<1>7. Rec(CHOOSE f : Rec(f, n), n)
  BY ONLY <1>5
<1> QED BY <1>6, <1>7

\* The same of the way out.
LEMMA OutRuns ==
  ASSUME NEW stack, NEW w, NEW q, NEW n \in Nat, NEW start
  PROVE  V!Out(stack, w, q, n, start) = [j \in 0 .. n |->
           IF j = 0 THEN start ELSE V!Left(stack[n + 1 - j], w, q, V!Out(stack, w, q, n, start)[j - 1])]
<1> DEFINE Rec(f, k) == f = [j \in 0 .. k |-> IF j = 0 THEN start ELSE V!Left(stack[n + 1 - j], w, q, f[j - 1])]
           T == {k \in Nat : \E f : Rec(f, k)}
<1>1. 0 \in T
  <2>1. Rec([j \in 0 .. 0 |-> start], 0)
    OBVIOUS
  <2> QED BY <2>1
<1>2. ASSUME NEW k \in Nat, k \in T PROVE k + 1 \in T
  <2>1. PICK f : Rec(f, k)
    BY <1>2
  <2> DEFINE g == [j \in 0 .. k + 1 |-> IF j = k + 1 THEN V!Left(stack[n + 1 - (k + 1)], w, q, f[k]) ELSE f[j]]
  <2>2. \A j \in 0 .. k : g[j] = f[j]
    OBVIOUS
  <2>3. ASSUME NEW j \in 0 .. k + 1 PROVE g[j] = IF j = 0 THEN start ELSE V!Left(stack[n + 1 - j], w, q, g[j - 1])
    <3>1. CASE j = k + 1
      BY <3>1, <2>2
    <3>2. CASE j # k + 1
      BY <3>2, <2>1, <2>2
    <3> QED BY <3>1, <3>2
  <2>4. Rec(g, k + 1)
    BY <2>3
  <2> HIDE DEF g, Rec
  <2> QED BY <2>4
<1> HIDE DEF T
<1>4. n \in T
  BY <1>1, <1>2, Ind
<1>5. \E f : Rec(f, n)
  BY <1>4 DEF T
<1>6. V!Out(stack, w, q, n, start) = CHOOSE f : Rec(f, n)
  BY DEF V!Out
<1>7. Rec(CHOOSE f : Rec(f, n), n)
  BY ONLY <1>5
<1> QED BY <1>6, <1>7

\* Whether a middleware is among the outermost i, and the state that a request has gathered on its
\* way in past them: every field has at most one middleware that writes it.
Met(stack, m, i) == \E e \in 1 .. i : stack[e] = m
AskedId(q) == IF V!Has(q.id) THEN q.id ELSE "generated"
WayIn(stack, w, q, i) ==
  [version |-> IF Met(stack, "version", i) /\ ~V!UnknownVersion(w, q) THEN V!AskedVersion(w, q) ELSE None,
   id |-> IF Met(stack, "id", i) THEN AskedId(q) ELSE None,
   key |-> FALSE,
   before |-> IF Met(stack, "explain", i) /\ w.explain THEN w.cursor ELSE None,
   cursor |-> IF Met(stack, "explain", i) /\ w.explain THEN TRUE ELSE w.cursor,
   bound |-> FALSE]
\* Each middleware at most once.
Distinct(stack) == \A i, j \in DOMAIN stack : stack[i] = stack[j] => i = j

\* One more middleware on the way in.
LEMMA MetNext ==
  ASSUME NEW stack \in Seq(STRING), Distinct(stack), NEW i \in 1 .. Len(stack), NEW m
  PROVE  /\ Met(stack, m, i) <=> (Met(stack, m, i - 1) \/ stack[i] = m)
         /\ stack[i] = m => ~Met(stack, m, i - 1)
<1>1. DOMAIN stack = 1 .. Len(stack) /\ Len(stack) \in Nat
  OBVIOUS
<1>2. \A e \in 1 .. i : e \in 1 .. i - 1 \/ e = i
  OBVIOUS
<1>3. \A e \in 1 .. i - 1 : e \in 1 .. i /\ e \in DOMAIN stack /\ e # i
  BY <1>1
<1>4. i \in DOMAIN stack /\ i \in 1 .. i
  BY <1>1
<1> QED BY <1>2, <1>3, <1>4 DEF Met, Distinct

\* What the explaining middleware writes.
Kept(version, id, key, before, cursor, bound) ==
  [version |-> version, id |-> id, key |-> key, before |-> before, cursor |-> cursor, bound |-> bound]
Explained(s, before, cursor) == [s EXCEPT !.before = before, !.cursor = cursor]
LEMMA Explains ==
  ASSUME NEW version, NEW id, NEW key, NEW bound, NEW was, NEW before, NEW cursor
  PROVE  Explained(Kept(version, id, key, was, before, bound), before, cursor) = Kept(version, id, key, before, cursor, bound)
<1> DEFINE r == [version |-> version, id |-> id, key |-> key, before |-> was, cursor |-> before, bound |-> bound]
           except == [r EXCEPT !.before = before, !.cursor = cursor]
           fields == {"version", "id", "key", "before", "cursor", "bound"}
<1>1. /\ except.version = version /\ except.id = id /\ except.key = key
      /\ except.before = before /\ except.cursor = cursor /\ except.bound = bound
  OBVIOUS
<1>2. except = [f \in DOMAIN except |-> except[f]] /\ DOMAIN except = fields
  OBVIOUS
<1> HIDE DEF except
<1>3. except = [f \in fields |-> except[f]]
  BY <1>2
<1>4. except = [version |-> except.version, id |-> except.id, key |-> except.key,
                before |-> except.before, cursor |-> except.cursor, bound |-> except.bound]
  BY <1>3
<1> QED BY <1>1, <1>4 DEF except, Explained, Kept

\* What one middleware keeps is the next state of the way in.
LEMMA KeepsNext ==
  ASSUME NEW stack \in Seq(STRING), Distinct(stack), NEW w, NEW q, NEW i \in 1 .. Len(stack)
  PROVE  V!Keeps(stack[i], w, q, WayIn(stack, w, q, i - 1)) = WayIn(stack, w, q, i)
<1> DEFINE m == stack[i]
           s == WayIn(stack, w, q, i - 1)
<1>0. \A x : (Met(stack, x, i) <=> (Met(stack, x, i - 1) \/ m = x)) /\ (m = x => ~Met(stack, x, i - 1))
  BY MetNext
<1>1. CASE m = "version"
  <2>1. V!Keeps(m, w, q, s) = IF ~V!UnknownVersion(w, q) THEN [s EXCEPT !.version = V!AskedVersion(w, q)] ELSE s
    BY <1>1 DEF V!Keeps
  <2> QED BY <1>0, <1>1, <2>1 DEF WayIn
<1>2. CASE m = "id"
  <2>1. V!Keeps(m, w, q, s) = [s EXCEPT !.id = AskedId(q)]
    BY <1>2 DEF V!Keeps, AskedId
  <2> QED BY <1>0, <1>2, <2>1 DEF WayIn
<1>3. CASE m = "explain"
  <2>1. V!Keeps(m, w, q, s) = IF w.explain THEN [s EXCEPT !.before = s.cursor, !.cursor = TRUE] ELSE s
    BY <1>3 DEF V!Keeps
  <2>2. ~Met(stack, "explain", i - 1) /\ Met(stack, "explain", i) /\ m # "version" /\ m # "id"
    BY <1>0, <1>3
  <2>3. s.cursor = w.cursor
    BY <2>2 DEF WayIn
  <2>4. CASE w.explain
    <3> DEFINE version == IF Met(stack, "version", i) /\ ~V!UnknownVersion(w, q) THEN V!AskedVersion(w, q) ELSE None
               id == IF Met(stack, "id", i) THEN AskedId(q) ELSE None
    <3> DEFINE yes == TRUE
               no == FALSE
    <3>1. s = Kept(version, id, no, None, w.cursor, no)
      BY <1>0, <2>2 DEF WayIn, Kept
    <3>2. WayIn(stack, w, q, i) = Kept(version, id, no, w.cursor, yes, no)
      BY <2>2, <2>4 DEF WayIn, Kept
    <3>3. V!Keeps(m, w, q, s) = Explained(s, w.cursor, yes)
      BY <2>1, <2>3, <2>4 DEF Explained
    <3>4. Explained(Kept(version, id, no, None, w.cursor, no), w.cursor, yes) = Kept(version, id, no, w.cursor, yes, no)
      <4> HIDE DEF version, id, yes, no
      <4> QED BY ONLY Explains
    <3> HIDE DEF s, m, yes, no
    <3> QED BY <3>1, <3>2, <3>3, <3>4 DEF m, s
  <2>5. CASE ~w.explain
    BY <1>0, <2>1, <2>2, <2>5 DEF WayIn
  <2> QED BY <2>4, <2>5
<1>4. CASE m \notin {"version", "id", "explain"}
  <2>1. V!Keeps(m, w, q, s) = s
    BY <1>4 DEF V!Keeps
  <2> QED BY <1>0, <1>4, <2>1 DEF WayIn
<1> QED BY <1>1, <1>2, <1>3, <1>4

\* The states on the way in are those.
LEMMA StatesAre ==
  ASSUME NEW stack \in Seq(STRING), Distinct(stack), NEW w, NEW q
  PROVE  \A i \in 0 .. V!Entered(stack, w, q) : V!StatesIn(stack, w, q)[i] = WayIn(stack, w, q, i)
<1> DEFINE n == V!Entered(stack, w, q)
           f == V!StatesIn(stack, w, q)
           T == {i \in Nat : i <= n => f[i] = WayIn(stack, w, q, i)}
<1>0. n \in 0 .. Len(stack) /\ Len(stack) \in Nat /\ n \in Nat
  BY EnteredIs
<1>a. f = [i \in 0 .. n |-> IF i = 0 THEN V!Fresh(w) ELSE V!Keeps(stack[i], w, q, f[i - 1])]
  BY StatesRun
<1> HIDE DEF n, f
<1>1. \A i \in 0 .. n : f[i] = IF i = 0 THEN V!Fresh(w) ELSE V!Keeps(stack[i], w, q, f[i - 1])
  BY <1>a
<1>2. 0 \in T
  <2>1. f[0] = V!Fresh(w)
    BY <1>0, <1>1
  <2>2. \A m : ~Met(stack, m, 0)
    BY DEF Met
  <2>3. V!Fresh(w) = WayIn(stack, w, q, 0)
    BY <2>2 DEF V!Fresh, WayIn
  <2> QED BY <2>1, <2>3
<1>3. ASSUME NEW i \in Nat, i \in T PROVE i + 1 \in T
  <2> SUFFICES ASSUME i + 1 <= n PROVE f[i + 1] = WayIn(stack, w, q, i + 1)
    OBVIOUS
  <2>1. i + 1 \in 1 .. Len(stack) /\ i + 1 \in 0 .. n /\ i + 1 # 0 /\ (i + 1) - 1 = i /\ i <= n
    BY <1>0
  <2>2. f[i + 1] = V!Keeps(stack[i + 1], w, q, f[i])
    BY <1>1, <2>1
  <2>3. f[i] = WayIn(stack, w, q, i)
    BY <1>3, <2>1
  <2> HIDE DEF T
  <2>4. V!Keeps(stack[i + 1], w, q, WayIn(stack, w, q, (i + 1) - 1)) = WayIn(stack, w, q, i + 1)
    BY <2>1, KeepsNext
  <2> QED BY <2>1, <2>2, <2>3, <2>4
<1> HIDE DEF T
<1>4. Nat \subseteq T
  BY <1>2, <1>3, Ind
<1> QED BY <1>0, <1>4 DEF T, n, f

\* A response, and one that says what another says but for the headers it may have gained.
IsAnswer(resp) == DOMAIN resp = {"status", "body", "streaming", "headers"} /\ DOMAIN resp.headers = V!Names
SameAnswer(out, resp) == IsAnswer(out) /\ out.status = resp.status /\ out.body = resp.body /\ out.streaming = resp.streaming

\* A response no middleware has said anything of.
Plain(r) == IsAnswer(r) /\ r.headers["version"] = None /\ r.headers["id"] = None

LEMMA SameTwice ==
  ASSUME NEW a, NEW b, NEW c, SameAnswer(a, b), SameAnswer(b, c)
  PROVE  SameAnswer(a, c)
BY DEF SameAnswer

\* A new response has no headers.
LEMMA ResponseIs ==
  ASSUME NEW status, NEW body
  PROVE  LET r == V!Response(status, body)
         IN Plain(r) /\ IsAnswer(r) /\ r.status = status /\ r.body = body /\ r.streaming = FALSE
BY DEF V!Response, V!NoHeaders, IsAnswer, Plain, V!Names

\* A header is set, and nothing else.
LEMMA WithIs ==
  ASSUME NEW resp, IsAnswer(resp), NEW name \in V!Names, NEW value
  PROVE  LET out == V!With(resp, name, value)
         IN /\ SameAnswer(out, resp) /\ out.headers[name] = value
            /\ \A n \in V!Names : n # name => out.headers[n] = resp.headers[n]
<1> DEFINE headers == [resp.headers EXCEPT ![name] = value]
           out == [resp EXCEPT !.headers = headers]
<1>1. DOMAIN headers = V!Names /\ headers[name] = value /\ \A n \in V!Names : n # name => headers[n] = resp.headers[n]
  BY DEF IsAnswer
<1> HIDE DEF headers
<1>2. SameAnswer(out, resp) /\ out.headers = headers
  BY <1>1 DEF IsAnswer, SameAnswer
<1> QED BY <1>1, <1>2 DEF V!With, headers

\* A header is set where there is none, and nothing else.
LEMMA AbsentIs ==
  ASSUME NEW resp, IsAnswer(resp), NEW name \in V!Names, NEW value
  PROVE  LET out == V!Absent(resp, name, value)
         IN /\ SameAnswer(out, resp)
            /\ out.headers[name] = IF V!Has(resp.headers[name]) THEN resp.headers[name] ELSE value
            /\ \A n \in V!Names : n # name => out.headers[n] = resp.headers[n]
<1>1. CASE V!Has(resp.headers[name])
  BY <1>1 DEF V!Absent, SameAnswer
<1>2. CASE ~V!Has(resp.headers[name])
  <2>1. V!Absent(resp, name, value) = V!With(resp, name, value)
    BY <1>2 DEF V!Absent
  <2> QED BY <1>2, <2>1, WithIs
<1> QED BY <1>1, <1>2

\* What a middleware that is not about versions changes of a response: a header that is its own.
Own == V!Names \ {"version", "etag", "id"}
LEMMA LeaveFrame ==
  ASSUME NEW m, m # "version", NEW w, NEW q, NEW s, NEW resp, IsAnswer(resp)
  PROVE  LET out == V!Leave(m, w, q, s, resp)
         IN /\ SameAnswer(out, resp)
            /\ \A n \in {"version", "etag"} : out.headers[n] = resp.headers[n]
            /\ m # "id" => out.headers["id"] = resp.headers["id"]
            /\ (m = "id" /\ resp.headers["id"] = None) => out.headers["id"] = s.id
<1> DEFINE out == V!Leave(m, w, q, s, resp)
           Kept3(r) == \A n \in {"version", "etag", "id"} : r.headers[n] = resp.headers[n]
<1>0. {"version", "etag", "id"} \subseteq V!Names /\ Own \subseteq V!Names /\ \A n \in Own : n \notin {"version", "etag", "id"}
  BY DEF V!Names, Own
<1>a. {"limits", "count", "links", "vary", "cacheControl", "queries"} \subseteq Own
  BY DEF V!Names, Own
<1>b. SameAnswer(resp, resp)
  BY DEF SameAnswer
<1>c. \A r, n, value : IsAnswer(r) /\ n \in Own => LET o == V!Absent(r, n, value) IN SameAnswer(o, r) /\ \A h \in {"version", "etag", "id"} : o.headers[h] = r.headers[h]
  <2> TAKE r, n, value
  <2> SUFFICES ASSUME IsAnswer(r), n \in Own PROVE SameAnswer(V!Absent(r, n, value), r) /\ \A h \in {"version", "etag", "id"} : V!Absent(r, n, value).headers[h] = r.headers[h]
    OBVIOUS
  <2> QED BY <1>0, AbsentIs
<1>1. CASE m = "id"
  <2>1. out = V!Absent(resp, "id", s.id)
    BY <1>1 DEF V!Leave
  <2>2. "id" \in V!Names /\ "version" # "id" /\ "etag" # "id"
    BY <1>0
  <2> QED BY <1>0, <1>1, <2>1, <2>2, AbsentIs DEF V!Has
<1>2. CASE m = "limits"
  <2>1. out = V!RateLimited(w, resp)
    BY <1>2 DEF V!Leave
  <2>2. CASE w.limits = {}
    BY <1>b, <1>2, <2>1, <2>2 DEF V!RateLimited
  <2>3. CASE w.limits # {}
    <3>1. out = V!With(resp, "limits", V!Tightest(w.limits))
      BY <2>1, <2>3 DEF V!RateLimited
    <3> QED BY <1>0, <1>a, <1>2, <3>1, WithIs
  <2> QED BY <2>2, <2>3
<1>3. CASE m = "pages"
  <2>1. out = V!Paginated(w, resp)
    BY <1>3 DEF V!Leave
  <2>2. CASE ~V!Has(w.page)
    BY <1>b, <1>3, <2>1, <2>2 DEF V!Paginated
  <2>3. CASE V!Has(w.page)
    <3> DEFINE counted == V!Absent(resp, "count", w.page.count)
    <3>1. out = V!Absent(counted, "links", w.page.links)
      BY <2>1, <2>3 DEF V!Paginated
    <3>2. SameAnswer(counted, resp) /\ Kept3(counted) /\ IsAnswer(counted)
      BY <1>a, <1>c DEF SameAnswer
    <3> HIDE DEF counted
    <3>3. SameAnswer(out, counted) /\ \A h \in {"version", "etag", "id"} : out.headers[h] = counted.headers[h]
      BY <1>a, <1>c, <3>1, <3>2
    <3> HIDE DEF out
    <3>4. SameAnswer(out, resp) /\ Kept3(out)
      BY <3>2, <3>3, SameTwice
    <3> QED BY <1>3, <3>4 DEF out
  <2> QED BY <2>2, <2>3
<1>4. CASE m = "cache"
  <2>1. out = V!Cached(q, resp)
    BY <1>4 DEF V!Leave
  <2>2. CASE out = resp
    <3> HIDE DEF out
    <3> QED BY <1>b, <1>4, <2>2 DEF out
  <2>3. CASE out = V!CacheHeaders(resp)
    <3> DEFINE varied == V!Absent(resp, "vary", "Accept-Language")
    <3>1. out = V!Absent(varied, "cacheControl", "public")
      BY <2>3 DEF V!CacheHeaders
    <3>2. SameAnswer(varied, resp) /\ Kept3(varied) /\ IsAnswer(varied)
      BY <1>a, <1>c DEF SameAnswer
    <3> HIDE DEF varied
    <3>3. SameAnswer(out, varied) /\ \A h \in {"version", "etag", "id"} : out.headers[h] = varied.headers[h]
      BY <1>a, <1>c, <3>1, <3>2
    <3> HIDE DEF out
    <3>4. SameAnswer(out, resp) /\ Kept3(out)
      BY <3>2, <3>3, SameTwice
    <3> QED BY <1>4, <3>4 DEF out
  <2> QED BY <2>1, <2>2, <2>3 DEF V!Cached
<1>5. CASE m = "explain"
  <2>1. CASE V!Has(s.before)
    <3>1. out = V!Absent(resp, "queries", 1)
      BY <1>5, <2>1 DEF V!Leave
    <3>2. SameAnswer(out, resp) /\ Kept3(out)
      <4> HIDE DEF out
      <4> QED BY <1>a, <1>c, <3>1
    <3> HIDE DEF out
    <3> QED BY <1>5, <3>2 DEF out
  <2>2. CASE ~V!Has(s.before)
    <3>1. out = resp
      BY <1>5, <2>2 DEF V!Leave
    <3> HIDE DEF out
    <3> QED BY <1>b, <1>5, <3>1 DEF out
  <2> QED BY <2>1, <2>2
<1>6. CASE m \notin {"id", "limits", "pages", "cache", "explain"}
  <2>1. out = resp
    BY <1>6 DEF V!Leave
  <2> HIDE DEF out
  <2> QED BY <1>b, <1>6, <2>1 DEF out
<1> QED BY <1>1, <1>2, <1>3, <1>4, <1>5, <1>6

\* Whether, and how, a response is served as an older version.
IsReshaped(w, version, was) ==
  /\ version # V!Current(w) /\ V!Has(V!UnwrapResponse(w))
  /\ ~V!StaysAsItIs(w, version, V!UnwrapResponse(w).kind = "list", was)
BodyAs(w, version, was) == IF IsReshaped(w, version, was) THEN V!Downgrade(w, version, was.body) ELSE was.body

\* What the version middleware changes of a response: the body, if an older version of it is asked
\* for, and the header that says which.  A tag is only dropped with the body it stood for.
LEMMA LeaveVersion ==
  ASSUME NEW w, NEW q, NEW s, V!Has(s.version), NEW resp, IsAnswer(resp), resp.headers["version"] = None
  PROVE  LET out == V!Leave("version", w, q, s, resp)
         IN /\ IsAnswer(out) /\ out.status = resp.status
            /\ s.bound => out.body = BodyAs(w, s.version, resp)
            /\ out.headers["version"] = s.version
            /\ ~V!Success(resp) => out.headers["etag"] = resp.headers["etag"]
            /\ resp.headers["id"] = None => out.headers["id"] = None
            /\ out.streaming = resp.streaming
<1> DEFINE info == IF s.bound THEN V!UnwrapResponse(w) ELSE None
           shaped == IF s.version # V!Current(w) /\ V!Has(info) THEN V!Reshape(w, s.version, info.kind = "list", resp) ELSE resp
           older == /\ s.version # V!Current(w) /\ V!Has(info)
                    /\ ~V!StaysAsItIs(w, s.version, info.kind = "list", resp)
<1>0. {"version", "etag", "id", "vary", "cacheControl"} \subseteq V!Names
  BY DEF V!Names
<1>1. V!Leave("version", w, q, s, resp) = V!Absent(shaped, "version", s.version)
  BY DEF V!Leave, V!Versioned
<1>2. CASE ~older
  <2>1. shaped = resp
    BY <1>2 DEF V!Reshape
  <2>2. s.bound => ~IsReshaped(w, s.version, resp)
    BY <1>2 DEF IsReshaped
  <2> HIDE DEF info, shaped, older
  <2>3. SameAnswer(V!Absent(resp, "version", s.version), resp)
        /\ V!Absent(resp, "version", s.version).headers["version"] = s.version
        /\ V!Absent(resp, "version", s.version).headers["etag"] = resp.headers["etag"]
        /\ V!Absent(resp, "version", s.version).headers["id"] = resp.headers["id"]
    BY <1>0, AbsentIs DEF V!Has
  <2> QED BY <1>1, <2>1, <2>2, <2>3 DEF SameAnswer, BodyAs
<1>3. CASE older
  <2> DEFINE body == V!Downgrade(w, s.version, resp.body)
             headers == V!Keep(resp, {"vary", "cacheControl"})
  <2>0. V!Success(resp) /\ resp.streaming = FALSE
    <3>1. V!Success(resp) /\ ~resp.streaming
      BY <1>3 DEF V!StaysAsItIs
    <3> QED BY <3>1
  <2>1. shaped = [V!Response(resp.status, body) EXCEPT !.headers = headers]
    BY <1>3 DEF V!Reshape
  <2>2. s.bound => IsReshaped(w, s.version, resp)
    BY <1>3 DEF IsReshaped
  <2>3. DOMAIN headers = V!Names /\ headers["version"] = None /\ headers["id"] = None
    BY <1>0 DEF V!Keep
  <2> HIDE DEF info, older, headers, body
  <2>4. IsAnswer(shaped) /\ shaped.status = resp.status /\ shaped.body = body /\ shaped.streaming = FALSE /\ shaped.headers = headers
    <3> DEFINE new == V!Response(resp.status, body)
    <3>1. IsAnswer(new) /\ new.status = resp.status /\ new.body = body /\ new.streaming = FALSE
      BY DEF V!Response, V!NoHeaders, IsAnswer
    <3> HIDE DEF new
    <3> QED BY <2>1, <2>3, <3>1 DEF IsAnswer, new
  <2> HIDE DEF shaped
  <2>5. SameAnswer(V!Absent(shaped, "version", s.version), shaped)
        /\ V!Absent(shaped, "version", s.version).headers["version"] = s.version
        /\ V!Absent(shaped, "version", s.version).headers["id"] = None
    BY <1>0, <2>3, <2>4, AbsentIs DEF V!Has
  <2> QED BY <1>1, <2>0, <2>2, <2>4, <2>5 DEF SameAnswer, BodyAs, body
<1> QED BY <1>2, <1>3

\* The state when the outermost d of n entered middlewares have not seen the answer yet.
WayOut(stack, w, q, n, bound, d) ==
  LET at == WayIn(stack, w, q, n)
      left == WayIn(stack, w, q, d)
  IN Kept(at.version, at.id, FALSE, left.before, left.cursor, bound)

\* What the explaining middleware restores.
Restored(s) == [s EXCEPT !.cursor = s.before, !.before = None]
LEMMA RestoresKept ==
  ASSUME NEW version, NEW id, NEW key, NEW bound, NEW before, NEW cursor
  PROVE  Restored(Kept(version, id, key, before, cursor, bound)) = Kept(version, id, key, None, before, bound)
<1> DEFINE s == Kept(version, id, key, before, cursor, bound)
           except == [s EXCEPT !.cursor = s.before, !.before = None]
           fields == {"version", "id", "key", "before", "cursor", "bound"}
<1>1. /\ except.version = version /\ except.id = id /\ except.key = key
      /\ except.before = None /\ except.cursor = before /\ except.bound = bound
  BY DEF Kept
<1>2. except = [f \in DOMAIN except |-> except[f]] /\ DOMAIN except = fields
  BY DEF Kept
<1> HIDE DEF except
<1>3. except = [f \in fields |-> except[f]]
  BY <1>2
<1>4. except = [version |-> except.version, id |-> except.id, key |-> except.key,
                before |-> except.before, cursor |-> except.cursor, bound |-> except.bound]
  BY <1>3
<1> QED BY <1>1, <1>4 DEF except, Kept, Restored

\* One more middleware has seen the answer, or the failure.
LEMMA RestoresNext ==
  ASSUME NEW stack \in Seq(STRING), Distinct(stack), NEW w, w.cursor \in BOOLEAN, NEW q, NEW n, NEW bound,
         NEW d \in 1 .. Len(stack), NEW at, at.state = WayOut(stack, w, q, n, bound, d)
  PROVE  V!Left(stack[d], w, q, at).state = WayOut(stack, w, q, n, bound, d - 1)
<1> DEFINE m == stack[d]
           version == WayIn(stack, w, q, n).version
           id == WayIn(stack, w, q, n).id
           s == WayOut(stack, w, q, n, bound, d)
           no == FALSE
<1>0. \A x : (Met(stack, x, d) <=> (Met(stack, x, d - 1) \/ m = x)) /\ (m = x => ~Met(stack, x, d - 1))
  BY MetNext
<1>a. s = Kept(version, id, no, WayIn(stack, w, q, d).before, WayIn(stack, w, q, d).cursor, bound)
  BY DEF WayOut
<1>b. WayOut(stack, w, q, n, bound, d - 1) = Kept(version, id, no, WayIn(stack, w, q, d - 1).before, WayIn(stack, w, q, d - 1).cursor, bound)
  BY DEF WayOut
<1>c. s.before = WayIn(stack, w, q, d).before
  BY DEF WayOut, Kept
<1>d. V!Left(m, w, q, at).state = IF m = "explain" /\ V!Has(s.before) THEN [s EXCEPT !.cursor = s.before, !.before = None] ELSE s
  BY DEF V!Left, V!Restores
<1>1. CASE m = "explain" /\ w.explain
  <2>0. Met(stack, "explain", d) /\ ~Met(stack, "explain", d - 1)
    BY <1>0, <1>1
  <2>1. WayIn(stack, w, q, d).before = w.cursor
    BY <1>1, <2>0 DEF WayIn
  <2>2. WayIn(stack, w, q, d - 1).before = None /\ WayIn(stack, w, q, d - 1).cursor = w.cursor
    BY <2>0 DEF WayIn
  <2>3. V!Has(s.before)
    BY <1>c, <2>1, NoneIsNothing DEF V!Has
  <2>4. V!Left(m, w, q, at).state = Restored(s)
    BY <1>d, <1>1, <2>3 DEF Restored
  <2>5. Restored(s) = Kept(version, id, no, None, WayIn(stack, w, q, d).before, bound)
    <3> HIDE DEF version, id, no, s
    <3> QED BY <1>a, RestoresKept
  <2> HIDE DEF version, id, no, s, m
  <2> QED BY <1>b, <2>1, <2>2, <2>4, <2>5 DEF s, m
<1>2. CASE ~(m = "explain" /\ w.explain)
  <2>1. (Met(stack, "explain", d) /\ w.explain) <=> (Met(stack, "explain", d - 1) /\ w.explain)
    BY <1>0, <1>2
  <2>2. WayIn(stack, w, q, d).before = WayIn(stack, w, q, d - 1).before /\ WayIn(stack, w, q, d).cursor = WayIn(stack, w, q, d - 1).cursor
    BY <2>1 DEF WayIn
  <2>3. m = "explain" => ~V!Has(s.before)
    <3> SUFFICES ASSUME m = "explain" PROVE s.before = None
      BY DEF V!Has
    <3>1. WayIn(stack, w, q, d).before = None
      BY <1>2 DEF WayIn
    <3> QED BY <1>c, <3>1
  <2>4. V!Left(m, w, q, at).state = s
    <3> HIDE DEF s, m
    <3> QED BY <1>d, <2>3
  <2> HIDE DEF version, id, no, s, m
  <2> QED BY <1>a, <1>b, <2>2, <2>4 DEF s, m
<1> QED BY <1>1, <1>2

\* What an answer is, when the outermost d of n entered middlewares have not seen it, of the response
\* that was turned back: its status, its tag unless it is a success, the id and the version asked for
\* once their middlewares have seen it.
IdOf(stack, q, d) == IF d = 0 THEN AskedId(q) ELSE None
IsVersioned(stack, w, q, n, d) == Met(stack, "version", n) /\ ~Met(stack, "version", d) /\ ~V!UnknownVersion(w, q)
Follows(stack, w, q, n, bound, d, a, r) ==
  /\ IsAnswer(a) /\ a.status = r.status /\ a.streaming = r.streaming
  /\ (stack # <<>> /\ stack[1] = "id") => a.headers["id"] = IdOf(stack, q, d)
  /\ ~V!Success(r) => a.headers["etag"] = r.headers["etag"]
  /\ IsVersioned(stack, w, q, n, d) => /\ a.headers["version"] = V!AskedVersion(w, q)
                                       /\ bound => a.body = BodyAs(w, V!AskedVersion(w, q), r)
  /\ ~IsVersioned(stack, w, q, n, d) => a.headers["version"] = None /\ a.body = r.body

\* The body of an older version depends on the body, the status and the way it is sent alone.
LEMMA BodySame ==
  ASSUME NEW w, NEW v, NEW a, NEW r, a.status = r.status, a.body = r.body, a.streaming = r.streaming
  PROVE  BodyAs(w, v, a) = BodyAs(w, v, r) /\ (V!Success(a) <=> V!Success(r))
<1>1. V!Success(a) <=> V!Success(r)
  BY DEF V!Success
<1>2. IsReshaped(w, v, a) <=> IsReshaped(w, v, r)
  BY <1>1 DEF IsReshaped, V!StaysAsItIs
<1> QED BY <1>1, <1>2 DEF BodyAs

\* An answer still follows its response when one more middleware has seen it.
LEMMA FollowsNext ==
  ASSUME NEW stack \in Seq(STRING), Distinct(stack), NEW w, V!Current(w) \in Nat, NEW q, NEW bound \in BOOLEAN,
         NEW n \in 1 .. Len(stack), NEW d \in 1 .. n, NEW a, NEW r, Follows(stack, w, q, n, bound, d, a, r)
  PROVE  Follows(stack, w, q, n, bound, d - 1, V!Leave(stack[d], w, q, WayOut(stack, w, q, n, bound, d), a), r)
<1> DEFINE m == stack[d]
           s == WayOut(stack, w, q, n, bound, d)
           out == V!Leave(m, w, q, s, a)
           first == stack # <<>> /\ stack[1] = "id"
<1>0. Len(stack) \in Nat /\ DOMAIN stack = 1 .. Len(stack) /\ d \in 1 .. Len(stack) /\ d \in Nat /\ 1 \in DOMAIN stack /\ stack # <<>>
  OBVIOUS
<1>1. \A x : (Met(stack, x, d) <=> (Met(stack, x, d - 1) \/ m = x)) /\ (m = x => ~Met(stack, x, d - 1))
  BY <1>0, MetNext
<1>2. \A x : m = x => Met(stack, x, n)
  BY DEF Met
<1>3. s.bound = bound
  BY DEF WayOut, Kept
<1>4. s.version = IF Met(stack, "version", n) /\ ~V!UnknownVersion(w, q) THEN V!AskedVersion(w, q) ELSE None
  BY DEF WayOut, Kept, WayIn
<1>5. s.id = IF Met(stack, "id", n) THEN AskedId(q) ELSE None
  BY DEF WayOut, Kept, WayIn
<1>6. first => (m = "id" <=> d = 1)
  BY <1>0 DEF Distinct
<1>7. first => a.headers["id"] = None
  BY <1>0 DEF Follows, IdOf
<1>8. IsAnswer(a) /\ a.status = r.status /\ a.streaming = r.streaming
      /\ (~V!Success(r) => a.headers["etag"] = r.headers["etag"]) /\ (V!Success(a) <=> V!Success(r))
  BY DEF Follows, V!Success
<1> HIDE DEF s
<1>9. CASE m # "version"
  <2>1. SameAnswer(out, a) /\ out.headers["version"] = a.headers["version"] /\ out.headers["etag"] = a.headers["etag"]
        /\ (m # "id" => out.headers["id"] = a.headers["id"])
        /\ ((m = "id" /\ a.headers["id"] = None) => out.headers["id"] = s.id)
    BY <1>8, <1>9, LeaveFrame
  <2>2. first => out.headers["id"] = IdOf(stack, q, d - 1)
    <3> HIDE DEF m, out
    <3>1. CASE d = 1
      BY <1>2, <1>5, <1>6, <1>7, <2>1, <3>1 DEF IdOf
    <3>2. CASE d # 1
      BY <1>0, <1>6, <1>7, <2>1, <3>2 DEF IdOf
    <3> QED BY <3>1, <3>2
  <2>3. IsVersioned(stack, w, q, n, d) <=> IsVersioned(stack, w, q, n, d - 1)
    BY <1>1, <1>9 DEF IsVersioned
  <2>4. /\ IsVersioned(stack, w, q, n, d) => /\ a.headers["version"] = V!AskedVersion(w, q)
                                             /\ bound => a.body = BodyAs(w, V!AskedVersion(w, q), r)
        /\ ~IsVersioned(stack, w, q, n, d) => a.headers["version"] = None /\ a.body = r.body
    BY DEF Follows
  <2> HIDE DEF m, out
  <2>5. Follows(stack, w, q, n, bound, d - 1, out, r)
    BY <1>8, <2>1, <2>2, <2>3, <2>4 DEF Follows, SameAnswer
  <2> QED BY <2>5 DEF m, out, s
<1>10. CASE m = "version"
  <2>1. ~IsVersioned(stack, w, q, n, d)
    BY <1>1, <1>10 DEF IsVersioned
  <2>2. a.headers["version"] = None /\ a.body = r.body
    BY <2>1 DEF Follows
  <2>3. CASE V!UnknownVersion(w, q)
    <3>1. out = a
      BY <1>4, <1>10, <2>3 DEF V!Leave, V!Has
    <3>2. ~IsVersioned(stack, w, q, n, d - 1)
      BY <2>3 DEF IsVersioned
    <3>3. first => a.headers["id"] = IdOf(stack, q, d - 1)
      BY <1>0, <1>6, <1>7, <1>10 DEF IdOf
    <3> HIDE DEF m, out
    <3>4. Follows(stack, w, q, n, bound, d - 1, out, r)
      BY <1>8, <2>2, <3>1, <3>2, <3>3 DEF Follows
    <3> QED BY <3>4 DEF m, out, s
  <2>4. CASE ~V!UnknownVersion(w, q)
    <3>1. s.version = V!AskedVersion(w, q)
      BY <1>2, <1>4, <1>10, <2>4
    <3>2. V!Has(s.version)
      BY <3>1, NoneIsNothing DEF V!Has, V!AskedVersion
    <3>3. IsVersioned(stack, w, q, n, d - 1)
      BY <1>1, <1>2, <1>10, <2>4 DEF IsVersioned
    <3>4. /\ IsAnswer(out) /\ out.status = a.status /\ (s.bound => out.body = BodyAs(w, s.version, a))
          /\ out.headers["version"] = s.version /\ (~V!Success(a) => out.headers["etag"] = a.headers["etag"])
          /\ (a.headers["id"] = None => out.headers["id"] = None) /\ out.streaming = a.streaming
      BY <1>8, <1>10, <2>2, <3>2, LeaveVersion
    <3>5. BodyAs(w, s.version, a) = BodyAs(w, s.version, r)
      BY <1>8, <2>2, BodySame
    <3>6. first => out.headers["id"] = IdOf(stack, q, d - 1)
      <4> HIDE DEF out
      <4> QED BY <1>0, <1>6, <1>7, <1>10, <3>4 DEF IdOf
    <3> HIDE DEF m, out
    <3>7. Follows(stack, w, q, n, bound, d - 1, out, r)
      BY <1>3, <1>8, <3>1, <3>3, <3>4, <3>5, <3>6 DEF Follows
    <3> QED BY <3>7 DEF m, out, s
  <2> QED BY <2>3, <2>4
<1> QED BY <1>9, <1>10

\* What is turned back, and what has seen j middlewares of it.
AllFollow(stack, w, q, n, bound, d, answers, from) ==
  /\ \A a \in answers : \E r \in from : Follows(stack, w, q, n, bound, d, a, r)
  /\ \A r \in from : \E a \in answers : Follows(stack, w, q, n, bound, d, a, r)

LEMMA OutIs ==
  ASSUME NEW stack \in Seq(STRING), Distinct(stack), NEW w, w.cursor \in BOOLEAN, V!Current(w) \in Nat, NEW q, NEW bound \in BOOLEAN,
         NEW n \in 0 .. Len(stack), stack # <<>> => n # 0, NEW start, start.state = WayOut(stack, w, q, n, bound, n),
         \A r \in start.answers : Plain(r)
  PROVE  LET end == V!Out(stack, w, q, n, start)[n]
         IN end.state = WayOut(stack, w, q, n, bound, 0) /\ AllFollow(stack, w, q, n, bound, 0, end.answers, start.answers)
<1> DEFINE at == V!Out(stack, w, q, n, start)
           Good(j) == /\ at[j].state = WayOut(stack, w, q, n, bound, n - j)
                      /\ AllFollow(stack, w, q, n, bound, n - j, at[j].answers, start.answers)
           T == {j \in Nat : j <= n => Good(j)}
<1>0. Len(stack) \in Nat /\ n \in Nat /\ n <= Len(stack)
  OBVIOUS
<1>1. at = [j \in 0 .. n |-> IF j = 0 THEN start ELSE V!Left(stack[n + 1 - j], w, q, at[j - 1])]
  BY <1>0, OutRuns
<1> HIDE DEF at
<1>2. 0 \in T
  <2>1. at[0] = start /\ n - 0 = n
    BY <1>0, <1>1
  <2>2. ASSUME NEW r \in start.answers PROVE Follows(stack, w, q, n, bound, n, r, r)
    <3>1. ~IsVersioned(stack, w, q, n, n)
      BY DEF IsVersioned
    <3>2. stack # <<>> => IdOf(stack, q, n) = None
      BY DEF IdOf
    <3> QED BY <2>2, <3>1, <3>2 DEF Follows, Plain
  <2>3. AllFollow(stack, w, q, n, bound, n, start.answers, start.answers)
    BY <2>2 DEF AllFollow
  <2> QED BY <2>1, <2>3
<1>3. ASSUME NEW j \in Nat, j \in T PROVE j + 1 \in T
  <2> SUFFICES ASSUME j + 1 <= n PROVE Good(j + 1)
    OBVIOUS
  <2> DEFINE d == n - j
             m == stack[d]
             s == at[j].state
             was == at[j].answers
             now == {V!Leave(m, w, q, s, a) : a \in was}
  <2>1. d \in 1 .. n /\ d \in 1 .. Len(stack) /\ n + 1 - (j + 1) = d /\ n - (j + 1) = d - 1 /\ n \in 1 .. Len(stack)
        /\ j + 1 \in 0 .. n /\ j + 1 # 0 /\ (j + 1) - 1 = j /\ j <= n
    BY <1>0
  <2>2. at[j + 1] = V!Left(m, w, q, at[j])
    BY <1>1, <2>1
  <2>3. at[j + 1].answers = now
    BY <2>2 DEF V!Left
  <2>4. s = WayOut(stack, w, q, n, bound, d) /\ AllFollow(stack, w, q, n, bound, d, was, start.answers)
    BY <1>3, <2>1
  <2> HIDE DEF d
  <2>5. at[j + 1].state = WayOut(stack, w, q, n, bound, d - 1)
    BY <2>1, <2>2, <2>4, RestoresNext
  <2>6. ASSUME NEW a \in was, NEW r, Follows(stack, w, q, n, bound, d, a, r)
        PROVE  Follows(stack, w, q, n, bound, d - 1, V!Leave(m, w, q, s, a), r)
    BY <2>1, <2>4, <2>6, FollowsNext
  <2> HIDE DEF s, was
  <2>7. AllFollow(stack, w, q, n, bound, d - 1, now, start.answers)
    <3>1. ASSUME NEW x \in now PROVE \E r \in start.answers : Follows(stack, w, q, n, bound, d - 1, x, r)
      <4>1. PICK a \in was : x = V!Leave(m, w, q, s, a)
        OBVIOUS
      <4>2. PICK r \in start.answers : Follows(stack, w, q, n, bound, d, a, r)
        BY <2>4 DEF AllFollow
      <4> QED BY <2>6, <4>1, <4>2
    <3>2. ASSUME NEW r \in start.answers PROVE \E x \in now : Follows(stack, w, q, n, bound, d - 1, x, r)
      <4>1. PICK a \in was : Follows(stack, w, q, n, bound, d, a, r)
        BY <2>4 DEF AllFollow
      <4> QED BY <2>6, <4>1
    <3> QED BY <3>1, <3>2 DEF AllFollow
  <2> HIDE DEF m, now
  <2>8. at[j + 1].state = WayOut(stack, w, q, n, bound, d - 1) /\ at[j + 1].answers = now
    BY <2>3, <2>5 DEF m, s, was, now
  <2> QED BY <2>1, <2>7, <2>8
<1> HIDE DEF T
<1>4. n \in T
  BY <1>0, <1>2, <1>3, Ind
<1>5. Good(n) /\ n - n = 0
  BY <1>0, <1>4 DEF T
<1> QED BY <1>5 DEF at

\* A refusal and a cached answer are as plain as what the operation answers.
LEMMA RejectedIs ==
  ASSUME NEW w, NEW status, NEW code
  PROVE  Plain(V!Rejected(w, status, code)) /\ V!Rejected(w, status, code).status = status
<1> DEFINE body == IF w.problem THEN [title |-> status, status |-> status, code |-> code, detail |-> code] ELSE [code |-> code, detail |-> code]
           r == V!Response(status, body)
<1>1. V!Rejected(w, status, code) = r
  BY DEF V!Rejected, V!Render
<1>2. Plain(r) /\ r.status = status
  <2> HIDE DEF body
  <2> QED BY ResponseIs
<1> QED BY <1>1, <1>2

LEMMA CacheHitIs ==
  ASSUME NEW w
  PROVE  Plain(V!CacheHit(w))
<1> DEFINE cached == V!Response(w.cached.status, w.cached.body)
           varied == V!Absent(cached, "vary", "Accept-Language")
           public == V!Absent(varied, "cacheControl", "public")
           Other == {"vary", "cacheControl", "hit"}
<1>0. {"version", "id"} \cup Other \subseteq V!Names /\ "version" \notin Other /\ "id" \notin Other
  BY DEF V!Names
<1>1. Plain(cached)
  BY ResponseIs
<1> HIDE DEF cached
<1>2. Plain(varied)
  BY <1>0, <1>1, AbsentIs DEF Plain, SameAnswer
<1> HIDE DEF varied
<1>3. Plain(public)
  BY <1>0, <1>2, AbsentIs DEF Plain, SameAnswer
<1> HIDE DEF public
<1> DEFINE yes == TRUE
<1>4. Plain(V!With(public, "hit", yes))
  <2> HIDE DEF yes
  <2> QED BY <1>0, <1>3, WithIs DEF Plain, SameAnswer
<1> QED BY <1>4 DEF V!CacheHit, V!CacheHeaders, cached, varied, public

\* So is what a middleware answers itself.
LEMMA EnterIs ==
  ASSUME NEW m, NEW w, NEW q
  PROVE  /\ \A r \in V!Enter(m, w, q) : Plain(r)
         /\ m = "version" => V!Enter(m, w, q) = IF V!UnknownVersion(w, q) THEN {V!Rejected(w, 406, "unsupported_api_version")} ELSE {}
<1>1. V!Enter(m, w, q) \in {{V!Rejected(w, 413, "request_too_large")}, {V!Rejected(w, 415, "unsupported_media_type")},
                            {V!Rejected(w, 400, "json_too_deep")}, {V!Rejected(w, 406, "unsupported_api_version")}, {V!CacheHit(w)}, {}}
  BY DEF V!Enter
<1>2. m = "version" => V!Enter(m, w, q) = IF V!UnknownVersion(w, q) THEN {V!Rejected(w, 406, "unsupported_api_version")} ELSE {}
  BY DEF V!Enter
<1>3. \A r \in V!Enter(m, w, q) : Plain(r)
  BY <1>1, RejectedIs, CacheHitIs
<1> QED BY <1>2, <1>3

\* The tag of what the operation answers: the one it remembered, or that of its body.
TagOf(w) == IF V!Has(w.remembered) THEN w.remembered ELSE V!EntityTag(w.outcome.body, TRUE)

\* What the operation answers: as it was declared, unless a read names the tag of its body.
LEMMA ViewIs ==
  ASSUME NEW w, NEW q
  PROVE  LET was == V!View(w, q)
             own == IF w.outcome.kind = "error" THEN w.outcome.error.status ELSE w.outcome.status
         IN /\ Plain(was)
            /\ w.outcome.kind = "error" => was.status = own
            /\ (w.outcome.kind # "error" /\ was.status # 304) => was.status = own /\ was.body = w.outcome.body
            /\ (was.status = 304 /\ own # 304) =>
                 /\ w.conditional /\ q.method \in V!Safe /\ V!Has(q.ifNoneMatch)
                 /\ was.headers["etag"] = TagOf(w)
                 /\ (q.ifNoneMatch.any \/ q.ifNoneMatch.of = was.headers["etag"].of)
<1> DEFINE was == V!View(w, q)
           e == w.outcome.error
           own == IF w.outcome.kind = "error" THEN e.status ELSE w.outcome.status
<1>n. {"version", "id", "etag", "cacheControl", "vary"} \subseteq V!Names
  BY DEF V!Names
<1>1. CASE w.outcome.kind = "error"
  <2> DEFINE detail == IF V!Has(e.message) THEN e.message ELSE e.status
             body == IF w.problem THEN [title |-> e.status, status |-> e.status, code |-> e.code, detail |-> detail] ELSE [code |-> e.code, detail |-> detail]
             r == V!Response(e.status, body)
  <2>1. was = r
    BY <1>1 DEF V!View, V!RenderBody, V!Render
  <2>2. Plain(r) /\ r.status = e.status
    <3> HIDE DEF body
    <3> QED BY DEF V!Response, V!NoHeaders, IsAnswer, Plain, V!Names
  <2>3. own = e.status
    BY <1>1
  <2> HIDE DEF r, was, own
  <2> QED BY <1>1, <2>1, <2>2, <2>3 DEF was, own
<1>2. CASE w.outcome.kind # "error"
  <2> DEFINE new == V!Response(w.outcome.status, w.outcome.body)
             streams == w.outcome.kind = "stream"
             r == [new EXCEPT !.streaming = streams]
             first == IF w.fromBody /\ q.method \in V!Safe /\ r.status = 200 THEN V!EntityTag(r.body, TRUE) ELSE None
             tag == IF V!Has(w.remembered) THEN w.remembered ELSE first
             headers == [V!Keep(r, {"cacheControl", "vary"}) EXCEPT !["etag"] = tag]
             answered == V!Response(304, None)
             unchanged == [answered EXCEPT !.headers = headers]
  <2>1. Plain(new) /\ IsAnswer(new) /\ new.status = w.outcome.status /\ new.body = w.outcome.body
    <3> HIDE DEF streams
    <3> QED BY DEF V!Response, V!NoHeaders, IsAnswer, Plain, V!Names
  <2>a. own = w.outcome.status
    BY <1>2
  <2>2. Plain(r) /\ IsAnswer(r) /\ r.status = own /\ r.body = w.outcome.body
    <3> HIDE DEF new, streams
    <3> QED BY <2>1, <2>a DEF Plain, IsAnswer
  <2>3. was = IF w.conditional THEN V!Finalize(w, q, r) ELSE r
    BY <1>2 DEF V!View
  <2>4. CASE was = r
    <3> HIDE DEF was, r, own
    <3> QED BY <1>2, <2>2, <2>4 DEF was, own
  <2>5. CASE was = V!Absent(r, "etag", tag)
    <3> HIDE DEF r, tag
    <3>1. Plain(was) /\ was.status = own /\ was.body = w.outcome.body
      <4> HIDE DEF own
      <4> QED BY <1>n, <2>2, <2>5, AbsentIs DEF Plain, SameAnswer
    <3> HIDE DEF was, own
    <3> QED BY <1>2, <3>1 DEF was, own
  <2>6. CASE was = unchanged /\ w.conditional /\ tag # None /\ V!NotModified(q, tag) /\ r.status = 200
    <3>1. DOMAIN headers = V!Names /\ headers["version"] = None /\ headers["id"] = None /\ headers["etag"] = tag
      BY <1>n DEF V!Keep
    <3>2. IsAnswer(answered) /\ answered.status = 304
      BY DEF V!Response, V!NoHeaders, IsAnswer
    <3> HIDE DEF headers, answered
    <3>3. Plain(unchanged) /\ unchanged.status = 304 /\ unchanged.headers = headers
      BY <3>1, <3>2 DEF Plain, IsAnswer
    <3>4. q.method \in V!Safe /\ V!Has(q.ifNoneMatch) /\ (q.ifNoneMatch.any \/ q.ifNoneMatch.of = tag.of)
      BY <2>6 DEF V!NotModified, V!Matches
    <3>5. tag = TagOf(w)
      <4> HIDE DEF r
      <4> QED BY <2>2, <2>6 DEF TagOf
    <3> HIDE DEF tag, r, unchanged, was
    <3> QED BY <1>2, <2>6, <3>1, <3>3, <3>4, <3>5 DEF was
  <2>7. was = r \/ was = V!Absent(r, "etag", tag) \/ (was = unchanged /\ w.conditional /\ tag # None /\ V!NotModified(q, tag) /\ r.status = 200)
    <3>1. V!Finalize(w, q, r) = IF ~V!Success(r) \/ r.streaming THEN r
                                ELSE IF tag = None THEN r
                                ELSE IF r.status = 200 /\ V!NotModified(q, tag) THEN unchanged
                                ELSE V!Absent(r, "etag", tag)
      BY DEF V!Finalize
    <3> HIDE DEF r, tag, unchanged, was
    <3> QED BY <2>3, <3>1
  <2> HIDE DEF r, tag, unchanged, was, own
  <2> QED BY <2>4, <2>5, <2>6, <2>7 DEF was, own
<1> QED BY <1>1, <1>2

\* What leaves the server follows what was turned back, and the state is as it was found.
LEMMA ServeIs ==
  ASSUME NEW stack \in Seq(STRING), Distinct(stack), NEW w, w.cursor \in BOOLEAN, V!Current(w) \in Nat, NEW q
  PROVE  LET n == V!Entered(stack, w, q)
             start == V!Turned(stack, w, q)
             end == V!Serve(stack, w, q)
         IN /\ end.state.cursor = w.cursor
            /\ AllFollow(stack, w, q, n, V!Called(stack, w, q), 0, end.answers, start.answers)
            /\ \A r \in start.answers : Plain(r)
<1> DEFINE n == V!Entered(stack, w, q)
           start == V!Turned(stack, w, q)
           called == V!Called(stack, w, q)
<1>0. n \in 0 .. Len(stack) /\ (stack # <<>> => n # 0)
  BY EnteredIs
<1>1. called \in BOOLEAN
  BY DEF V!Called
<1>2. V!StateIn(stack, w, q) = WayIn(stack, w, q, n)
  BY <1>0, StatesAre DEF V!StateIn
<1>3. start.state = [WayIn(stack, w, q, n) EXCEPT !.bound = called]
  BY <1>2 DEF V!Turned
<1>4. start.state = WayOut(stack, w, q, n, called, n)
  <2> DEFINE version == WayIn(stack, w, q, n).version
             id == WayIn(stack, w, q, n).id
             before == WayIn(stack, w, q, n).before
             cursor == WayIn(stack, w, q, n).cursor
             at == WayIn(stack, w, q, n)
             no == FALSE
  <2>1. at = Kept(version, id, no, before, cursor, no)
    BY DEF WayIn, Kept
  <2>2. WayOut(stack, w, q, n, called, n) = Kept(version, id, no, before, cursor, called)
    BY DEF WayOut, Kept
  <2> HIDE DEF version, id, before, cursor, called, no, at
  <2>3. [at EXCEPT !.bound = called] = Kept(version, id, no, before, cursor, called)
    BY <2>1 DEF Kept
  <2> HIDE DEF start
  <2> QED BY <1>3, <2>2, <2>3 DEF at
<1>5. \A r \in start.answers : Plain(r)
  BY EnterIs, ViewIs DEF V!Turned
<1> HIDE DEF n, start, called
<1>6. LET end == V!Out(stack, w, q, n, start)[n]
      IN end.state = WayOut(stack, w, q, n, called, 0) /\ AllFollow(stack, w, q, n, called, 0, end.answers, start.answers)
  BY <1>0, <1>1, <1>4, <1>5, OutIs
<1>7. WayOut(stack, w, q, n, called, 0).cursor = w.cursor
  <2>1. ~Met(stack, "explain", 0)
    BY DEF Met
  <2> QED BY <2>1 DEF WayOut, WayIn, Kept
<1>8. V!Serve(stack, w, q) = V!Out(stack, w, q, n, start)[n]
  BY DEF V!Serve, n, start
<1> QED BY <1>5, <1>6, <1>7, <1>8 DEF n, start, called

\* The same request without the version it asks for, to the same server without the debug cursor.
Simple(q) == [q EXCEPT !.accept = None]
Unexplained(w) == [w EXCEPT !.explain = FALSE]
LEMMA SimpleIs ==
  ASSUME NEW k, V!IsCase(k)
  PROVE  LET w == k.world
             q == k.q
             u == Unexplained(k.world)
             p == Simple(k.q)
         IN /\ V!Current(u) = V!Current(w) /\ u.cursor = w.cursor
            /\ V!View(u, p).status = V!View(w, q).status /\ V!Crashes(u) = V!Crashes(w)
            /\ \A m : m # "version" => V!Enter(m, u, p) = V!Enter(m, w, q)
            /\ V!Enter("version", u, p) = {}
<1> DEFINE w == k.world
           q == k.q
           u == Unexplained(k.world)
           p == Simple(k.q)
<1>1. /\ u.problem = w.problem /\ u.versions = w.versions /\ u.outcome = w.outcome /\ u.maxBytes = w.maxBytes /\ u.types = w.types
      /\ u.maxDepth = w.maxDepth /\ u.cursor = w.cursor /\ u.conditional = w.conditional /\ u.fromBody = w.fromBody
      /\ u.remembered = w.remembered /\ u.cached = w.cached
  BY DEF V!IsCase, Unexplained
<1>2. /\ p.method = q.method /\ p.length = q.length /\ p.type = q.type /\ p.depth = q.depth /\ p.ifNoneMatch = q.ifNoneMatch
      /\ p.accept = None
  BY DEF V!IsCase, Simple
<1> HIDE DEF w, q, u, p
<1>3. V!Current(u) = V!Current(w)
  BY <1>1 DEF V!Current
<1>4. V!View(u, p) = V!View(w, q)
  <2>1. \A e : V!RenderBody(u, e) = V!RenderBody(w, e)
    BY <1>1 DEF V!RenderBody, V!Render
  <2>2. \A r : V!Finalize(u, p, r) = V!Finalize(w, q, r)
    BY <1>1, <1>2 DEF V!Finalize, V!NotModified
  <2> QED BY <1>1, <2>1, <2>2 DEF V!View
<1>5. V!Crashes(u) = V!Crashes(w)
  BY <1>1 DEF V!Crashes
<1>6. ASSUME NEW m, m # "version" PROVE V!Enter(m, u, p) = V!Enter(m, w, q)
  <2>1. \A status, code : V!Rejected(u, status, code) = V!Rejected(w, status, code)
    BY <1>1 DEF V!Rejected, V!Render
  <2>2. V!CacheHit(u) = V!CacheHit(w)
    BY <1>1 DEF V!CacheHit
  <2>3. V!TooLarge(u, p) <=> V!TooLarge(w, q)
    BY <1>1, <1>2 DEF V!TooLarge
  <2>4. V!WrongType(u, p) <=> V!WrongType(w, q)
    BY <1>1, <1>2 DEF V!WrongType
  <2>5. V!TooDeep(u, p) <=> V!TooDeep(w, q)
    BY <1>1, <1>2 DEF V!TooDeep, V!Exceeds
  <2> QED BY <1>1, <1>2, <1>6, <2>1, <2>2, <2>3, <2>4, <2>5 DEF V!Enter
<1>7. V!Enter("version", u, p) = {}
  <2>1. ~V!UnknownVersion(u, p)
    BY <1>2 DEF V!UnknownVersion, V!Has
  <2> QED BY <2>1, EnterIs
<1> QED BY <1>1, <1>3, <1>4, <1>5, <1>6, <1>7 DEF w, q, u, p

\* Without the version it asks for, a request is let in and turned back like it was, unless it was the
\* version that turned it back.
LEMMA SimpleIsCalled ==
  ASSUME NEW k, V!IsCase(k)
  PROVE  LET stack == k.stack
             u == Unexplained(k.world)
             p == Simple(k.q)
             unknown == (\E i \in DOMAIN stack : stack[i] = "version") /\ V!UnknownVersion(k.world, k.q)
             start == V!Turned(stack, k.world, k.q)
         IN /\ unknown => ~V!Called(stack, k.world, k.q)
            /\ \/ unknown /\ \A r \in start.answers : r.status = 406
               \/ /\ V!Called(stack, u, p) = V!Called(stack, k.world, k.q)
                  /\ \A r \in start.answers : \E x \in V!Turned(stack, u, p).answers : x.status = r.status
<1> DEFINE stack == k.stack
           w == k.world
           q == k.q
           u == Unexplained(k.world)
           p == Simple(k.q)
           unknown == (\E i \in DOMAIN stack : stack[i] = "version") /\ V!UnknownVersion(w, q)
           stops == V!Answering(stack, w, q)
           others == V!Answering(stack, u, p)
           n == V!Entered(stack, w, q)
           o == V!Entered(stack, u, p)
<1>0. stack \in Seq(STRING) /\ Distinct(stack)
  BY DEF V!IsCase, Distinct
<1>1. /\ Len(stack) \in Nat /\ DOMAIN stack = 1 .. Len(stack) /\ stops \subseteq 1 .. Len(stack) /\ n \in 0 .. Len(stack) /\ n \in Nat
      /\ stops = {} => n = Len(stack)
      /\ stops # {} => n \in stops /\ \A j \in stops : n <= j
  BY <1>0, EnteredIs
<1>2. /\ others \subseteq 1 .. Len(stack) /\ o \in 0 .. Len(stack) /\ o \in Nat
      /\ others = {} => o = Len(stack)
      /\ others # {} => o \in others /\ \A j \in others : o <= j
  BY <1>0, EnteredIs
<1>a. n \in Nat /\ o \in Nat
  BY <1>1, <1>2
<1>b. stops # {} => n \in stops /\ \A j \in stops : n <= j
  BY <1>1
<1>c. others # {} => o \in others /\ \A j \in others : o <= j
  BY <1>2
<1>3. /\ V!View(u, p).status = V!View(w, q).status /\ V!Crashes(u) = V!Crashes(w)
      /\ \A m : m # "version" => V!Enter(m, u, p) = V!Enter(m, w, q)
      /\ V!Enter("version", u, p) = {}
  BY SimpleIs
<1>4. V!Enter("version", w, q) = IF V!UnknownVersion(w, q) THEN {V!Rejected(w, 406, "unsupported_api_version")} ELSE {}
  BY EnterIs
<1>5. stops = {i \in DOMAIN stack : V!Enter(stack[i], w, q) # {}} /\ others = {i \in DOMAIN stack : V!Enter(stack[i], u, p) # {}}
  BY DEF V!Answering
<1>6. /\ V!Called(stack, w, q) <=> stops = {}
      /\ V!Called(stack, u, p) <=> others = {}
  BY DEF V!Called
<1>7. /\ V!Turned(stack, w, q).answers = IF stops # {} THEN V!Enter(stack[n], w, q) ELSE IF V!Crashes(w) THEN {} ELSE {V!View(w, q)}
      /\ V!Turned(stack, u, p).answers = IF others # {} THEN V!Enter(stack[o], u, p) ELSE IF V!Crashes(u) THEN {} ELSE {V!View(u, p)}
  BY DEF V!Turned, V!Called
<1> HIDE DEF stack, w, q, u, p, stops, others, n, o
<1>8. unknown => stops # {}
  <2> SUFFICES ASSUME unknown PROVE stops # {}
    OBVIOUS
  <2>1. PICK i \in DOMAIN stack : stack[i] = "version"
    OBVIOUS
  <2>2. V!Enter(stack[i], w, q) # {}
    BY <1>4, <2>1
  <2> QED BY <1>5, <2>1, <2>2
<1>9. CASE ~unknown
  <2>1. \A i \in DOMAIN stack : V!Enter(stack[i], w, q) = V!Enter(stack[i], u, p)
    BY <1>3, <1>4, <1>9
  <2>2. stops = others
    BY <1>5, <2>1
  <2>3. stops # {} => n = o /\ n \in DOMAIN stack
    <3> SUFFICES ASSUME stops # {} PROVE n = o /\ n \in DOMAIN stack
      OBVIOUS
    <3>1. n \in stops /\ o \in stops /\ n <= o /\ o <= n
      BY <1>b, <1>c, <2>2
    <3>2. n \in DOMAIN stack
      BY <1>5, <3>1
    <3> QED BY <1>a, <3>1, <3>2
  <2>4. \A r \in V!Turned(stack, w, q).answers : \E x \in V!Turned(stack, u, p).answers : x.status = r.status
    <3>1. CASE stops # {}
      BY <1>7, <2>1, <2>2, <2>3, <3>1
    <3>2. CASE stops = {}
      BY <1>3, <1>7, <2>2, <3>2
    <3> QED BY <3>1, <3>2
  <2>5. V!Called(stack, u, p) <=> V!Called(stack, w, q)
    BY <1>6, <2>2
  <2>6. V!Called(stack, u, p) = V!Called(stack, w, q)
    BY <2>5 DEF V!Called
  <2> QED BY <1>9, <2>4, <2>6 DEF stack, w, q, u, p
<1>10. CASE unknown
  <2>1. n \in stops /\ n \in DOMAIN stack
    BY <1>b, <1>5, <1>8, <1>10
  <2>2. CASE stack[n] = "version"
    <3>1. \A r \in V!Turned(stack, w, q).answers : r.status = 406
      BY <1>4, <1>7, <1>10, <2>1, <2>2, RejectedIs
    <3>2. ~V!Called(stack, w, q)
      BY <1>6, <2>1
    <3> QED BY <1>10, <3>1, <3>2 DEF stack, w, q, u, p
  <2>3. CASE stack[n] # "version"
    <3>1. V!Enter(stack[n], u, p) = V!Enter(stack[n], w, q)
      BY <1>3, <2>3
    <3>2. n \in others
      BY <1>5, <2>1, <3>1
    <3>3. others \subseteq stops
      <4>1. ASSUME NEW i \in others PROVE i \in stops
        <5>1. i \in DOMAIN stack /\ V!Enter(stack[i], u, p) # {}
          BY <1>5
        <5>2. stack[i] # "version"
          BY <1>3, <5>1
        <5>3. V!Enter(stack[i], w, q) # {}
          BY <1>3, <5>1, <5>2
        <5> QED BY <1>5, <5>1, <5>3
      <4> QED BY <4>1
    <3>4. n = o
      <4>1. o \in others /\ o \in stops /\ n <= o /\ o <= n
        BY <1>b, <1>c, <2>1, <3>2, <3>3
      <4> QED BY <1>a, <4>1
    <3>5. V!Turned(stack, u, p).answers = V!Turned(stack, w, q).answers
      BY <1>7, <2>1, <3>1, <3>2, <3>4
    <3>6. ~V!Called(stack, w, q) /\ ~V!Called(stack, u, p)
      BY <1>6, <2>1, <3>2
    <3>7. V!Called(stack, w, q) = V!Called(stack, u, p)
      BY <3>6 DEF V!Called
    <3> QED BY <3>5, <3>6, <3>7 DEF stack, w, q, u, p
  <2> QED BY <2>2, <2>3
<1> QED BY <1>9, <1>10

\* Nothing is changed by the stack around an operation but what its middlewares are for.
LEMMA StackIsTransparentAlways ==
  ASSUME NEW k, V!IsCase(k)
  PROVE  V!StackIsTransparent(k)
<1> DEFINE stack == k.stack
           w == k.world
           q == k.q
           u == Unexplained(k.world)
           p == Simple(k.q)
           n == V!Entered(stack, w, q)
           r == V!Serve(stack, w, q)
           start == V!Turned(stack, w, q)
           called == V!Called(stack, w, q)
           Asks(m) == \E i \in DOMAIN stack : stack[i] = m
           unknown == Asks("version") /\ V!UnknownVersion(w, q)
<1>0. stack \in Seq(STRING) /\ Distinct(stack) /\ w.cursor \in BOOLEAN
  BY DEF V!IsCase, Distinct
<1>1. V!Current(w) \in Nat
  BY CurrentIs
<1>2. V!Current(u) \in Nat /\ u.cursor \in BOOLEAN
  BY <1>0, <1>1, SimpleIs
<1>3. /\ r.state.cursor = w.cursor
      /\ AllFollow(stack, w, q, n, called, 0, r.answers, start.answers)
  BY <1>0, <1>1, ServeIs
<1>4. AllFollow(stack, u, p, V!Entered(stack, u, p), V!Called(stack, u, p), 0, V!Serve(stack, u, p).answers, V!Turned(stack, u, p).answers)
  BY <1>0, <1>2, ServeIs
<1>5. /\ unknown => ~called
      /\ \/ unknown /\ \A x \in start.answers : x.status = 406
         \/ /\ V!Called(stack, u, p) = called
            /\ \A y \in start.answers : \E x \in V!Turned(stack, u, p).answers : x.status = y.status
  BY SimpleIsCalled
<1>6. start.answers = {} => called /\ V!Crashes(w)
  <2>1. ~called => V!Enter(stack[n], w, q) # {}
    <3>1. ~called => n \in V!Answering(stack, w, q)
      BY <1>0, EnteredIs DEF V!Called
    <3> QED BY <3>1 DEF V!Answering
  <2> QED BY <2>1 DEF V!Turned
<1> HIDE DEF w, q, u, p, r, n, start, called, stack
<1>7. r.answers = {} => called /\ V!Crashes(w)
  <2>1. r.answers = {} => start.answers = {}
    BY <1>3 DEF AllFollow
  <2> QED BY <1>6, <2>1
<1>8. ASSUME NEW answer \in r.answers
      PROVE  /\ (Asks("id") /\ stack[1] = "id") => answer.headers["id"] = AskedId(q)
             /\ \/ unknown /\ answer.status = 406
                \/ /\ called = V!Called(stack, u, p)
                   /\ \E x \in V!Serve(stack, u, p).answers : x.status = answer.status
  <2>1. PICK y \in start.answers : Follows(stack, w, q, n, called, 0, answer, y)
    BY <1>3 DEF AllFollow
  <2>2. answer.status = y.status
    BY <2>1 DEF Follows
  <2>3. (Asks("id") /\ stack[1] = "id") => answer.headers["id"] = AskedId(q)
    <3>1. Asks("id") => stack # <<>>
      OBVIOUS
    <3> QED BY <2>1, <3>1 DEF Follows, IdOf
  <2>4. CASE unknown /\ \A x \in start.answers : x.status = 406
    BY <2>2, <2>3, <2>4
  <2>5. CASE /\ V!Called(stack, u, p) = called
             /\ \A z \in start.answers : \E x \in V!Turned(stack, u, p).answers : x.status = z.status
    <3>1. PICK x \in V!Turned(stack, u, p).answers : x.status = y.status
      BY <2>5
    <3>2. PICK z \in V!Serve(stack, u, p).answers : z.status = x.status
      BY <1>4 DEF AllFollow, Follows
    <3> QED BY <2>2, <2>3, <2>5, <3>1, <3>2
  <2> QED BY <1>5, <2>4, <2>5
<1> QED BY <1>3, <1>5, <1>7, <1>8 DEF V!StackIsTransparent, AskedId, Simple, Unexplained, stack, w, q, u, p, r, called

\* What is served as an older version has its shape, and what is not served as one is as it was; a 304 the
\* operation did not answer is for the tag of the body it stands for.
LEMMA VersionsAndTagsAlways ==
  ASSUME NEW k, V!IsCase(k)
  PROVE  V!VersionsAndTags(k)
<1> DEFINE stack == k.stack
           w == k.world
           q == k.q
           was == V!View(w, q)
           declared == V!UnwrapResponse(w)
           older == V!Success(was) /\ ~was.streaming /\ V!Has(declared)
           own == IF w.outcome.kind = "error" THEN w.outcome.error.status ELSE w.outcome.status
           n == V!Entered(stack, w, q)
           asked == V!AskedVersion(w, q)
           tag == TagOf(w)
           called == V!Called(stack, w, q)
<1>0. stack \in Seq(STRING) /\ Distinct(stack) /\ w.cursor \in BOOLEAN
  BY DEF V!IsCase, Distinct
<1>1. V!Current(w) \in Nat /\ V!Current(w) \notin w.versions /\ w.versions \subseteq Nat
  BY CurrentIs
<1>2. AllFollow(stack, w, q, n, called, 0, V!Serve(stack, w, q).answers, V!Turned(stack, w, q).answers)
  BY <1>0, <1>1, ServeIs
<1> SUFFICES ASSUME V!Called(stack, w, q), NEW answer \in V!Serve(stack, w, q).answers
    PROVE  LET version == answer.headers["version"]
               etag == answer.headers["etag"]
           IN /\ (answer.status = 304 /\ own # 304) =>
                   /\ w.conditional /\ q.method \in V!Safe
                   /\ etag = tag
                   /\ (q.ifNoneMatch.any \/ q.ifNoneMatch.of = etag.of)
              /\ answer.body # was.body =>
                   older /\ version \in w.versions /\ answer.body.fields = w.shapes[version] /\ answer.status = was.status
              /\ (version \in w.versions /\ older /\ was.body # None) =>
                   \/ answer.body.fields = w.shapes[version]
                   \/ ~V!Downgrades(w, version, was.body) \/ was.body.list # (declared.kind = "list")
  BY DEF V!VersionsAndTags, TagOf
<1> DEFINE version == answer.headers["version"]
           etag == answer.headers["etag"]
<1>3. V!Turned(stack, w, q).answers \subseteq {was}
  BY DEF V!Turned
<1>4. Follows(stack, w, q, n, called, 0, answer, was)
  BY <1>2, <1>3 DEF AllFollow
<1>5. answer.status = was.status /\ (~V!Success(was) => etag = was.headers["etag"])
  BY <1>4 DEF Follows
<1>6. \/ version = None /\ answer.body = was.body
      \/ version = asked /\ ~V!UnknownVersion(w, q) /\ answer.body = BodyAs(w, asked, was)
  BY <1>4 DEF Follows, IsVersioned
<1>7. asked = V!Current(w) \/ asked \in w.versions \/ V!UnknownVersion(w, q)
  BY DEF V!AskedVersion, V!UnknownVersion, V!SupportedVersion
<1>8. /\ w.outcome.kind = "error" => was.status = own
      /\ (w.outcome.kind # "error" /\ was.status # 304) => was.status = own /\ was.body = w.outcome.body
      /\ (was.status = 304 /\ own # 304) =>
           /\ w.conditional /\ q.method \in V!Safe /\ V!Has(q.ifNoneMatch)
           /\ was.headers["etag"] = tag
           /\ (q.ifNoneMatch.any \/ q.ifNoneMatch.of = was.headers["etag"].of)
  BY ViewIs
<1>9. (V!Success(was) /\ was.body # None) => DOMAIN was.body = {"fields", "list"}
  <2> SUFFICES ASSUME V!Success(was), was.body # None PROVE DOMAIN was.body = {"fields", "list"}
    OBVIOUS
  <2>1. was.status \in 200 .. 299 /\ was.status # 304
    BY DEF V!Success
  <2>2. w.outcome.kind # "error"
    <3>1. w.outcome.kind = "error" => own \notin 200 .. 299
      BY DEF V!IsCase
    <3> HIDE DEF own, was, w
    <3> QED BY <1>8, <2>1, <3>1
  <2>3. was.body = w.outcome.body
    <3> HIDE DEF own, was, w
    <3> QED BY <1>8, <2>1, <2>2
  <2>4. w.outcome.body # None
    <3> HIDE DEF was
    <3> QED BY <2>3
  <2> QED BY <2>2, <2>3, <2>4 DEF V!IsCase
<1>10. ASSUME IsReshaped(w, asked, was)
       PROVE  /\ older /\ BodyAs(w, asked, was).fields = w.shapes[asked] /\ asked # V!Current(w)
  <2>1. /\ asked # V!Current(w) /\ V!Has(declared) /\ ~was.streaming /\ V!Success(was) /\ was.body # None
    BY <1>10 DEF IsReshaped, V!StaysAsItIs
  <2>2. BodyAs(w, asked, was) = [was.body EXCEPT !.fields = w.shapes[asked]]
    BY <1>10 DEF BodyAs, V!Downgrade
  <2> HIDE DEF was, asked, w, declared
  <2> QED BY <1>9, <2>1, <2>2
<1>11. ASSUME ~IsReshaped(w, asked, was) PROVE BodyAs(w, asked, was) = was.body
  BY <1>11 DEF BodyAs
<1>12. ASSUME older, was.body # None, asked # V!Current(w), ~IsReshaped(w, asked, was)
       PROVE  ~V!Downgrades(w, asked, was.body) \/ was.body.list # (declared.kind = "list")
  BY <1>12 DEF IsReshaped, V!StaysAsItIs
<1>13. None \notin w.versions
  BY <1>1, NoneIsNothing
<1> HIDE DEF stack, w, q, was, declared, n, asked, tag, version, etag, called, own
<1>14. (answer.status = 304 /\ own # 304) =>
         w.conditional /\ q.method \in V!Safe /\ etag = tag /\ (q.ifNoneMatch.any \/ q.ifNoneMatch.of = etag.of)
  <2>1. was.status = 304 => ~V!Success(was)
    BY DEF V!Success
  <2> QED BY <1>5, <1>8, <2>1
<1>15. answer.body # was.body =>
         older /\ version \in w.versions /\ answer.body.fields = w.shapes[version] /\ answer.status = was.status
  BY <1>5, <1>6, <1>7, <1>10, <1>11
<1>16. (version \in w.versions /\ older /\ was.body # None) =>
         \/ answer.body.fields = w.shapes[version]
         \/ ~V!Downgrades(w, version, was.body) \/ was.body.list # (declared.kind = "list")
  BY <1>1, <1>6, <1>10, <1>12, <1>13
<1> QED BY <1>14, <1>15, <1>16 DEF stack, w, q, was, declared, tag, version, etag, own

(****************************** Every decision *****************************)
\* What is asked is one of the questions of its topic.
CaseFits == case # None => \E family \in Questions(topic) : case \in family

\* The inductive invariant of Decisions: questions come from their topic.
THEOREM CasesFit == Spec => []CaseFits
<1>1. Init => CaseFits
  BY DEF Init, CaseFits
<1>2. CaseFits /\ [Next]_<<topic, case>> => CaseFits'
  <2> SUFFICES ASSUME CaseFits, [Next]_<<topic, case>> PROVE CaseFits'
    OBVIOUS
  <2>1. CASE Choose
    BY <2>1 DEF Choose, CaseFits
  <2>2. CASE Ask
    BY <2>2 DEF Ask, CaseFits
  <2>3. CASE Answered
    BY <2>3 DEF Answered, CaseFits
  <2>4. CASE UNCHANGED <<topic, case>>
    BY <2>4 DEF CaseFits
  <2> QED BY <2>1, <2>2, <2>3, <2>4 DEF Next
<1> QED BY <1>1, <1>2, PTL DEF Spec

\* Who may do what is decided once, however it is asked: the passes of a request, lists, masked
\* fields, allowed transitions, grants, the user and the tenant (security/permissions.py,
\* _permission_eval.py, security/object_permissions.py, security/tenancy.py, crud/sharing.py).
THEOREM AccessDecided == Spec => []AccessIsDecidedOnce
<1>1. CaseFits => AccessIsDecidedOnce
  <2> SUFFICES ASSUME CaseFits PROVE AccessIsDecidedOnce
    OBVIOUS
  <2>1. ASSUME Asked("permissions") PROVE P!IsCase(case)
    BY <2>1, QuestionsFit DEF Asked, CaseFits
  <2>2. ASSUME Asked("sharing") PROVE H!IsCase(case)
    BY <2>2, QuestionsFit DEF Asked, CaseFits
  <2>3. ASSUME Asked("identity") PROVE P!IsAsked(case)
    BY <2>3, QuestionsFit DEF Asked, CaseFits
  <2>4. Asked("permissions") => /\ P!PermissionsDecide(case) /\ P!HiddenLooksMissing(case)
                                /\ P!VisibilityFailsClosed(case) /\ P!ListedTransitionsRun(case)
    BY <2>1, PermissionsDecide, HiddenLooksMissing, VisibilityFailsClosed, ListedTransitionsRun
  <2>5. Asked("sharing") => H!SharedAsAsked(case) /\ H!GrantsAgree(case)
    BY <2>2, SharedAsAsked, GrantsAgree
  <2>6. Asked("identity") => P!OneIdentity(case)
    BY <2>3, OneIdentity
  <2> QED BY <2>4, <2>5, <2>6 DEF AccessIsDecidedOnce
<1> QED BY <1>1, CasesFit, PTL

\* Every report of bulk work agrees with the database, item by item (crud/bulk.py, crud/transfer.py).
THEOREM ReportsTruthful == Spec => []ReportsTellTheTruth
<1>1. CaseFits => ReportsTellTheTruth
  <2> SUFFICES ASSUME CaseFits, Asked("bulk") PROVE B!ReportAgrees(case) /\ B!ToldImportIsWhole(case)
    BY DEF ReportsTellTheTruth
  <2>1. B!IsCase(case)
    BY QuestionsFit DEF Asked, CaseFits
  <2> QED BY <2>1, BulkTellsTheTruth
<1> QED BY <1>1, CasesFit, PTL

\* No write leaves the scope of who writes, and what is deleted is gone (crud/controllers.py,
\* crud/nested.py, crud/soft_delete.py, serialization/visibility.py).
THEOREM WritesInScope == Spec => []WritesKeepTheirScope
<1>1. CaseFits => WritesKeepTheirScope
  <2> SUFFICES ASSUME CaseFits PROVE WritesKeepTheirScope
    OBVIOUS
  <2>1. ASSUME Asked("resources") PROVE O!IsCase(case)
    BY <2>1, QuestionsFit DEF Asked, CaseFits
  <2>2. Asked("resources") => O!WritesStayInScope(case) /\ O!DeletedIsGone(case) /\ O!LookupsAreRead(case)
    BY <2>1, WritesStay, DeletedIsGone, LookupsAreRead
  <2>3. Asked("rendering") => O!WritesAreAllowed(case)
    BY WritesAreAllowed
  <2> QED BY <2>2, <2>3 DEF WritesKeepTheirScope
<1> QED BY <1>1, CasesFit, PTL

\* An event reaches its subscribers and no one else, signed and over the address that was checked
\* (contrib/webhooks/outbox.py, secrets.py, signing.py, network.py).
THEOREM WebhooksSafe == Spec => []WebhooksArriveSafely
<1>1. CaseFits => WebhooksArriveSafely
  <2> SUFFICES ASSUME CaseFits, Asked("webhooks") PROVE E!DeliversSafely(case) /\ E!SubscribersAreServed(case)
    BY DEF WebhooksArriveSafely
  <2>1. E!IsCase(case)
    BY QuestionsFit DEF Asked, CaseFits
  <2> QED BY <2>1, WebhooksDeliver, WebhooksServe
<1> QED BY <1>1, CasesFit, PTL

\* What is said of an operation is what it does: registered controllers run and document what they
\* answer, calls of generated clients arrive as meant and their answers are typed, and schemas
\* follow their model (routing/operations.py, routing/compiler.py, codegen/, tooling/drift.py,
\* tooling/scaffold.py).
THEOREM DocumentsTruthful == Spec => []DocumentsAgree
<1>1. CaseFits => DocumentsAgree
  <2> SUFFICES ASSUME CaseFits PROVE DocumentsAgree
    OBVIOUS
  <2>1. ASSUME Asked("registration") PROVE N!IsCase(case)
    BY <2>1, QuestionsFit DEF Asked, CaseFits
  <2>2. ASSUME Asked("clients") PROVE K!IsCase(case)
    BY <2>2, QuestionsFit DEF Asked, CaseFits
  <2>3. ASSUME Asked("responses") PROVE K!IsAnswered(case)
    BY <2>3, QuestionsFit DEF Asked, CaseFits
  <2>4. ASSUME Asked("schemas") PROVE S!IsCase(case)
    BY <2>4, QuestionsFit DEF Asked, CaseFits
  <2>5. Asked("registration") => N!RegisteredRuns(case) /\ N!AnswersAreDocumented(case)
    BY <2>1, RegisteredRun, AnswersDocumented
  <2>6. Asked("clients") => K!CallsArrive(case)
    BY <2>2, CallsArriveAlways
  <2>7. Asked("responses") => K!AnswersAreTyped(case)
    BY <2>3, AnswersTyped
  <2>8. Asked("schemas") => S!SchemasAgree(case)
    BY <2>4, SchemasAgreeAlways
  <2> QED BY <2>5, <2>6, <2>7, <2>8 DEF DocumentsAgree
<1> QED BY <1>1, CasesFit, PTL

\* A call reaches the best of the declared routes, an exception the nearest of the rules, and the stack
\* around an operation changes nothing but what it is for (routing/controller.py, http/errors.py,
\* http/middleware.py, http/versioning.py, http/conditional.py).
THEOREM RequestsServed == Spec => []RequestsAreServed
<1>1. CaseFits => RequestsAreServed
  <2> SUFFICES ASSUME CaseFits PROVE RequestsAreServed
    OBVIOUS
  <2>1. ASSUME Asked("routes") PROVE R!IsCase(case)
    BY <2>1, QuestionsFit DEF Asked, CaseFits
  <2>2. ASSUME Asked("errors") PROVE R!IsRaised(case)
    BY <2>2, QuestionsFit DEF Asked, CaseFits
  <2>3. ASSUME Asked("response") PROVE V!IsCase(case)
    BY <2>3, QuestionsFit DEF Asked, CaseFits
  <2>4. Asked("routes") => R!BestRouteServes(case)
    BY <2>1, BestServes
  <2>5. Asked("errors") => R!NearestRuleWins(case)
    BY <2>2, NearestWins
  <2>6. Asked("response") => V!StackIsTransparent(case) /\ V!VersionsAndTags(case)
    BY <2>3, StackIsTransparentAlways, VersionsAndTagsAlways
  <2> QED BY <2>4, <2>5, <2>6 DEF RequestsAreServed
<1> QED BY <1>1, CasesFit, PTL
=============================================================================
