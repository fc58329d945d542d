----------------------------- MODULE BulkWrites -----------------------------
(***************************************************************************)
(* One request that writes many objects: bulk create, update and delete,   *)
(* all or nothing or item by item (bulk_partial), and the import of a file. *)
(* An item says how its own write ends and whether it wrote before it      *)
(* failed; the answer says what stays in the table and what is reported.   *)
(***************************************************************************)
EXTENDS Integers, Sequences, FiniteSets

CONSTANT None

\* How one item fails: its row does not fit the schema; ValidationFailed with or without
\* errors by field; another DomainError; a database constraint; Http404 and HttpError;
\* the ValidationError of Ninja that nested children raise; anything else.
Failures == {"schema", "validation", "message", "domain", "integrity", "missing", "http", "nested", "other"}
Ok(item) == item.fails = None
StatusOf(fails) == CASE fails \in {"schema", "validation", "message", "nested"} -> 422
                     [] fails = "domain" -> 409
                     [] fails = "missing" -> 404
                     [] fails = "http" -> 403
                     [] OTHER -> 500

\* A request: kind, items, partial, dryRun and the limits of the controller; a row that fails
\* its schema or its fields has errors to tell.
Items == {item \in [fails : Failures \cup {None}, wrote : BOOLEAN, told : Nat] :
            item.fails \in {"schema", "validation"} => item.told > 0}
IsCase(c) == c \in [kind : {"create", "update", "delete", "import"}, items : Seq(Items), partial : BOOLEAN, dryRun : BOOLEAN,
                    duplicates : BOOLEAN, leavesScope : BOOLEAN, limit : Nat, bytes : Nat, maxBytes : Nat,
                    maxErrors : Nat \ {0}, unreadable : BOOLEAN]
\* Raised is the answer to a request that an exception ends: its transaction is rolled back.
Raised(status) == [status |-> status, kept |-> {}, results |-> <<>>, header |-> None, created |-> 0, errors |-> <<>>]
Indices(c) == DOMAIN c.items
First(places) == CHOOSE i \in places : \A j \in places : i <= j

(***************************** All or nothing *****************************)
\* get_objects(): before anything is written.
Fetched(c) == IF c.duplicates THEN 422
              ELSE IF \E i \in Indices(c) : c.items[i].fails = "missing" THEN 404
              ELSE IF \E i \in Indices(c) : c.items[i].fails = "http" THEN 403
              ELSE 0
Checked(c) == IF c.kind = "create" THEN (IF Len(c.items) > c.limit THEN 422 ELSE 0)
              ELSE IF Len(c.items) \notin 1 .. c.limit THEN 422 ELSE Fetched(c)
Whole(c) ==
  LET bad == {i \in Indices(c) : ~Ok(c.items[i])}
  IN IF Checked(c) # 0 THEN Raised(Checked(c))
     ELSE IF bad # {} THEN Raised(StatusOf(c.items[First(bad)].fails))
     ELSE IF c.leavesScope /\ c.kind # "delete" /\ Len(c.items) > 0 THEN Raised(404)   \* refresh_many()
     ELSE [Raised(CASE c.kind = "create" -> 201 [] c.kind = "update" -> 200 [] OTHER -> 204)
                      EXCEPT !.kept = Indices(c)]

(****************************** Item by item ******************************)
\* _bulk_error(): the entry a failure becomes, or None when it ends the request.
BulkErrorAny(fails) == StatusOf(fails)   \* mutant: every failure becomes an entry, 500s included
BulkError(fails) == CASE fails \in {"nested", "schema", "other"} -> None
                      [] fails = "integrity" -> 422
                      [] OTHER -> StatusOf(fails)
\* Each item runs in a savepoint: what it wrote goes with its failure.
KeptAnyway(s, item) == s.kept \cup {s.i + 1}   \* mutant: no savepoint
KeptOf(s, item) == IF Ok(item) THEN s.kept \cup {s.i + 1} ELSE s.kept
Entry(s, item, status) == Append(s.results, [index |-> s.i, status |-> status, ok |-> Ok(item)])
PartialItem(c, s, item) ==
  LET next == [s EXCEPT !.i = @ + 1, !.kept = KeptOf(s, item)]
  IN IF s.raised # None THEN s
     ELSE IF Ok(item) THEN [next EXCEPT !.results = Entry(s, item, IF c.kind = "create" THEN 201 ELSE 200)]
     ELSE IF BulkError(item.fails) = None THEN [next EXCEPT !.raised = item.fails]
     ELSE [next EXCEPT !.failed = @ + 1, !.results = Entry(s, item, BulkError(item.fails))]
\* after[n]: what the first n items came to.
PartialStart == [i |-> 0, kept |-> {}, results |-> <<>>, failed |-> 0, raised |-> None]
PartialRun(c) ==
  LET after[n \in 0 .. Len(c.items)] == IF n = 0 THEN PartialStart ELSE PartialItem(c, after[n - 1], c.items[n]) IN after
Partial(c) ==
  LET end == PartialRun(c)[Len(c.items)]
  IN IF Len(c.items) > c.limit \/ (c.kind = "update" /\ (Len(c.items) = 0 \/ c.duplicates)) THEN Raised(422)
     ELSE IF end.raised # None THEN Raised(StatusOf(end.raised))
     ELSE [Raised(207) EXCEPT !.kept = end.kept, !.results = end.results, !.header = end.failed]

(********************************* Import *********************************)
\* Rows that fail validation are counted and the rest is tried, without savepoints; the
\* others end the request.  ValidationFailed without errors by field adds no error.
Told(item) == CASE item.fails \in {"schema", "validation"} -> item.told
                [] OTHER -> 0
Counted == {"schema", "validation", "message"}
ImportRow(c, s, item) ==
  IF s.raised # None \/ Len(s.errors) >= c.maxErrors THEN s
  ELSE IF ~Ok(item) /\ item.fails \notin Counted THEN [s EXCEPT !.raised = item.fails]
  ELSE [s EXCEPT !.i = @ + 1,
                 !.kept = IF Ok(item) \/ item.wrote THEN @ \cup {s.i + 1} ELSE @,
                 !.created = IF Ok(item) THEN @ + 1 ELSE @,
                 !.errors = @ \o [n \in 1 .. Told(item) |-> s.i + 1]]
RollsBackOnDryRun(c, end) == c.dryRun   \* mutant: errors alone do not roll back
RollsBack(c, end) == end.errors # <<>> \/ c.dryRun
ImportStart == [i |-> 0, kept |-> {}, created |-> 0, errors |-> <<>>, raised |-> None]
ImportRun(c) ==
  LET after[n \in 0 .. Len(c.items)] == IF n = 0 THEN ImportStart ELSE ImportRow(c, after[n - 1], c.items[n]) IN after
\* What is told of them stops at the limit.
Shown(c, errors) == SubSeq(errors, 1, IF Len(errors) > c.maxErrors THEN c.maxErrors ELSE Len(errors))
Import(c) ==
  LET end == ImportRun(c)[Len(c.items)]
      kept == IF RollsBack(c, end) THEN {} ELSE end.kept
  IN IF c.bytes > c.maxBytes \/ Len(c.items) > c.limit THEN Raised(413)
     ELSE IF c.unreadable THEN Raised(422)
     ELSE IF end.raised # None THEN Raised(StatusOf(end.raised))
     ELSE IF end.errors # <<>> THEN [Raised(422) EXCEPT !.errors = Shown(c, end.errors), !.kept = kept]
     ELSE [Raised(IF c.dryRun THEN 200 ELSE 201) EXCEPT !.kept = kept, !.created = end.created]

Answer(c) == IF c.kind = "import" THEN Import(c)
             ELSE IF c.partial /\ c.kind # "delete" THEN Partial(c)
             ELSE Whole(c)

(******************************* Properties *******************************)
\* An answer that is not 2xx leaves the table as it was; a whole write keeps every item;
\* a 207 has one entry per item in order, of whatever failure _bulk_error() has one for
\* (bulk.py:203-224; crud.md:395-397 names fewer), keeps exactly the items it reports as
\* written, with no trace of the others, and counts the others in X-Bulk-Failed; an import
\* that is refused names only rows that failed, in order, up to the limit, and reports none
\* that it did not reach (transfer.py:284-320).
Agrees(c, a, bad) ==
  /\ a.status \notin 200 .. 299 => a.kept = {}
  /\ a.status = 207 =>
       /\ Len(a.results) = Len(c.items)
       /\ \A i \in Indices(c) : a.results[i].index = i - 1 /\ (a.results[i].ok <=> i \notin bad)
       /\ a.kept = Indices(c) \ bad
       /\ a.header = Cardinality(bad)
       /\ \A i \in bad : a.results[i].status \in 400 .. 499
  /\ a.status \in {200, 201, 204} /\ c.kind # "import" => a.kept = Indices(c) /\ bad = {}
  /\ a.errors # <<>> =>
       /\ Len(a.errors) <= c.maxErrors /\ a.kept = {}
       /\ \A n \in DOMAIN a.errors : a.errors[n] \in bad
       /\ \A n \in 1 .. Len(a.errors) - 1 : a.errors[n] <= a.errors[n + 1]
ReportAgrees(c) == Agrees(c, Answer(c), {i \in Indices(c) : ~Ok(c.items[i])})

\* All rows of a file are imported, or none (crud.md:431, transfer.py:11-14); a dry run
\* counts the rows an import would create.
ImportIsWhole(c) ==
  c.kind = "import" =>
    LET a == Answer(c) IN
    /\ a.kept \in {{}, Indices(c)}
    /\ a.status = 201 => a.kept = Indices(c)
    /\ a.status \in {200, 201} => a.created = Len(c.items)
\* The rows of the file that are left in the table as they were sent.
Imported(c) == {i \in Answer(c).kept : Ok(c.items[i])}
ImportIsAllOrNone(c) == c.kind = "import" => Imported(c) \in {{}, Indices(c)}
\* ImportIsWhole holds while every refused row has an error to tell.
ToldImportIsWhole(c) == (\A i \in Indices(c) : c.items[i].fails # "message") => ImportIsWhole(c)
=============================================================================
