-------------------------------- MODULE Pages --------------------------------
(***************************************************************************)
(* The same rows three ways: the pages of a list, its export and its       *)
(* statistics, for a controller's scope, generated filters, search and     *)
(* ordering; and the query parameters that become those filters            *)
(* (crud/filters.py, crud/filtersets.py, crud/annotations.py).             *)
(***************************************************************************)
EXTENDS Integers, Sequences, FiniteSets, TLC
LOCAL INSTANCE SequencesExt
LOCAL INSTANCE FiniteSetsExt

CONSTANT None

(**************************** Rows of a request ***************************)
\* A row is [pk, prio, kind, text, scoped].  A request c has the filters prio (lower
\* bound), kinds (in) and search, the client's ordering, and the controller's defaults.
Searched(c, r) == c.search = None \/ \E f \in c.searchFields : r[f] = c.search   \* icontains, OR
Filtered(c, r) == /\ c.prioGte # None => r.prio >= c.prioGte
                  /\ c.kinds # None => r.kind \in c.kinds
                  /\ Searched(c, r)
FilteredUnscoped(c) == {r \in c.rows : Filtered(c, r)}   \* mutant: the scope is forgotten
Scoped(c) == {r \in c.rows : r.scoped}
ListQueryset(c) == {r \in Scoped(c) : Filtered(c, r)}

(******************************** Ordering ********************************)
\* order_queryset(): the client's, else the controller's; else Meta.ordering applies.  An
\* item is [field, desc]; "?" and expressions are items without a field.
Asked(c) == IF c.ordering # <<>> THEN c.ordering ELSE IF c.default # <<>> THEN c.default ELSE c.meta
Named(items) == SelectSeq(items, LAMBDA item : item.field # None)
OrderingWithoutKey(c, fallback) ==   \* mutant: no tiebreaker
  IF Named(Asked(c)) = <<>> THEN <<fallback>> ELSE Named(Asked(c))
OrderingOf(c, fallback) ==
  LET items == IF Named(Asked(c)) = <<>> THEN <<fallback>> ELSE Named(Asked(c))
  IN IF \E i \in DOMAIN items : items[i].field = "pk" THEN items
     ELSE Append(items, [field |-> "pk", desc |-> items[1].desc])
\* Rows that no item tells apart come in an order that may change from query to query.
Before(items, query, a, b) ==
  LET differ == {i \in DOMAIN items : a[items[i].field] # b[items[i].field]}
      item == items[Min(differ)]
  IN IF differ = {} THEN (IF query % 2 = 0 THEN a.pk < b.pk ELSE a.pk > b.pk)
     ELSE IF item.desc THEN a[item.field] > b[item.field] ELSE a[item.field] < b[item.field]
InOrder(rows, items, query) == SetToSortSeq(rows, LAMBDA a, b : Before(items, query, a, b))

(********************************* Pages **********************************)
AscendingKey == [field |-> "pk", desc |-> FALSE]
Limit(c) == Min({IF c.limit = None THEN c.defaultLimit ELSE c.limit, c.maxLimit})
\* The count of the list; that of PostgreSQL's statistics (count = "estimate") is left out.
Total(c) == LET n == Cardinality(ListQueryset(c))
            IN CASE c.count = "none" -> [count |-> None, bound |-> FALSE]
                 [] c.count = "capped" -> [count |-> Min({n, c.cap}), bound |-> n > c.cap]
                 [] OTHER -> [count |-> n, bound |-> FALSE]
\* One row more than the limit tells whether there is a next page.
PageWithoutExtra(c, offset) ==   \* mutant: a full page always has a next one
  LET rows == InOrder(ListQueryset(c), OrderingOf(c, AscendingKey), offset)
      window == SubSeq(rows, offset + 1, Min({offset + Limit(c), Len(rows)}))
  IN [items |-> window, next |-> IF Len(window) = Limit(c) THEN offset + Limit(c) ELSE None,
      previous |-> IF offset > 0 THEN Max({offset - Limit(c), 0}) ELSE None]
Page(c, offset) ==
  LET rows == InOrder(ListQueryset(c), OrderingOf(c, AscendingKey), offset)
      window == SubSeq(rows, offset + 1, Min({offset + Limit(c) + 1, Len(rows)}))
  IN [items |-> SubSeq(window, 1, Min({Limit(c), Len(window)})),
      next |-> IF Len(window) > Limit(c) THEN offset + Limit(c) ELSE None,
      previous |-> IF offset > 0 THEN Max({offset - Limit(c), 0}) ELSE None]
RECURSIVE Walk(_, _)
Walk(c, offset) == LET page == Page(c, offset)
                   IN page.items \o (IF page.next = None THEN <<>> ELSE Walk(c, page.next))
\* PaginationHeadersMiddleware: the total and the links, when they are known.
TotalHeader(c) == LET t == Total(c) IN IF t.count = None THEN None ELSE [count |-> t.count, more |-> t.bound]

(************************* Export and statistics **************************)
Export(c) == InOrder(ListQueryset(c), Named(Asked(c)), 0)
\* Grouping clears every ordering, which the database would group by as well.
StatsOrdered(c, rows) == {<<r[c.groupBy], r.pk>> : r \in rows}   \* mutant: Meta.ordering joins the groups
Groups(c, rows) == {<<r[c.groupBy]>> : r \in rows}
Stats(c) == LET rows == ListQueryset(c) IN
  IF c.groupBy = None THEN <<Cardinality(rows)>>
  ELSE [g \in Groups(c, rows) |-> Cardinality({r \in rows : r[c.groupBy] = g[1]})]

(******************************* Properties *******************************)
\* The pages that the next links lead through have every row of the scope that passes the
\* filters once, sorted as asked, whatever the database does with equal rows; previous
\* leads back, no link leads past the end; and the total says how many there are (pagination.py:161-180).
PagesCoverTheList(c) ==
  LET walked == Walk(c, 0)
      wanted == {r \in c.rows : r.scoped /\ Filtered(c, r)}
      items == Named(Asked(c))
  IN /\ Range(walked) = wanted /\ Len(walked) = Cardinality(wanted)
     /\ items # <<>> => \A i \in 1 .. Len(walked) - 1 :
          LET a == walked[i] b == walked[i + 1] f == items[1].field
          IN IF items[1].desc THEN a[f] >= b[f] ELSE a[f] <= b[f]
     /\ Page(c, 0).previous = None
     /\ Page(c, 0).next # None => Page(c, Page(c, 0).next).previous = 0 /\ Page(c, Page(c, 0).next).items # <<>>
     /\ TotalHeader(c) # None =>
          IF TotalHeader(c).more THEN TotalHeader(c).count < Len(walked) ELSE TotalHeader(c).count = Len(walked)

\* The export and the statistics are about the rows the list serves: the export has the
\* same ones, and every group is counted once, the counts adding up to the list
\* (transfer.py:10, aggregates.py:11-16).
SameRowsEverywhere(c) ==
  LET listed == Range(Walk(c, 0))
      stats == Stats(c)
  IN /\ Range(Export(c)) = listed /\ Len(Export(c)) = Cardinality(listed)
     /\ c.groupBy # None => Cardinality(DOMAIN stats) = Cardinality({r[c.groupBy] : r \in listed})
     /\ MapThenSumSet(LAMBDA g : stats[g], DOMAIN stats) = Cardinality(listed)

(*************************** Query parameters *****************************)
\* What search_fields, filter_fields, a django-filter FilterSet or an explicit schema become, who
\* applies each of them, and the orderings a client may choose.  A controller c has columns (by
\* name: type and null), explicit (None or a schema), search, backend, param, fields (lookups by
\* column), filterset (None or a model, its filters and the names that are no identifiers), model
\* (its class and bases), ordering, default, cursor.  A value is <<type, v>>; a text, or a
\* comma-separated list, is the set of its parts.  A request q maps the parameters it sends to values.
Same == {"exact", "gt", "gte", "lt", "lte"}
Text == {"iexact", "icontains", "startswith"}
Lookups == Same \cup Text \cup {"in", "isnull", "year"}
Converter(lookup, type) ==
  CASE lookup \in Same -> type
    [] lookup \in Text -> "text"
    [] lookup = "in" -> "list"
    [] lookup = "isnull" -> "bool"
    [] OTHER -> "int"

\* A parameter of the schema: its type, the column lookups that apply it (any of them), and whether
\* a backend applies it instead (_applied_by_backend: an empty Q).
Parameter(name, lookup) == IF lookup = "exact" THEN name ELSE name \o "__" \o lookup
Declared(c) == UNION {{n} \X (c.fields[n] \cap Lookups) : n \in DOMAIN c.fields \cap DOMAIN c.columns}
FieldParameters(c) ==
  [p \in {Parameter(d[1], d[2]) : d \in Declared(c)} |->
     LET d == CHOOSE x \in Declared(c) : Parameter(x[1], x[2]) = p
     IN  [type |-> Converter(d[2], c.columns[d[1]].type), lookups |-> {d}, elsewhere |-> FALSE]]
SearchParameter(c) ==
  [p \in IF c.search = {} THEN {} ELSE {c.param} |->
     [type |-> "text", lookups |-> IF c.backend THEN {} ELSE {<<n, "icontains">> : n \in c.search}, elsewhere |-> c.backend]]

\* _parameters: the query parameters one filter reads, with their types.
RangeFilter(type, name, suffixes) == [p \in {name \o "_" \o s : s \in suffixes} |-> type]
Parts(name, f) ==
  CASE f.kind = "lookup_choice" -> [p \in {name, name \o "_lookup"} |-> "text"]
    [] f.kind = "multi" -> RangeFilter(f.type, name, f.suffixes)
    [] f.kind = "csv" -> name :> "text"
    [] f.kind = "multiple" -> name :> "list"
    [] OTHER -> name :> f.type
FiltersetParameters(fs) ==
  LET names == DOMAIN fs.filters
  IN  [p \in UNION {DOMAIN Parts(n, fs.filters[n]) : n \in names} |->
         LET n == CHOOSE x \in names : p \in DOMAIN Parts(x, fs.filters[x])
         IN  [type |-> Parts(n, fs.filters[n])[p], lookups |-> {}, elsewhere |-> TRUE]]
FiltersetParametersFits(fs) ==
  /\ \A n \in DOMAIN fs.filters : fs.filters[n].kind = "multi" => fs.filters[n].suffixes # {}
  /\ DOMAIN FiltersetParameters(fs) \cap fs.odd = {}

\* _build: a controller that declares both of two exclusive ways, a column or a lookup that is not
\* there, or a filterset of another model is refused when it is registered.
Fits(c) ==
  IF c.explicit # None THEN c.search = {} /\ DOMAIN c.fields = {} /\ c.filterset = None
  ELSE /\ c.filterset # None => DOMAIN c.fields = {}
       /\ c.search \cup DOMAIN c.fields \subseteq DOMAIN c.columns
       /\ \A n \in DOMAIN c.fields : c.fields[n] \subseteq Lookups
       /\ c.filterset # None =>
            /\ c.filterset.model \in c.model
            /\ FiltersetParametersFits(c.filterset)
            /\ DOMAIN FiltersetParameters(c.filterset) \cap DOMAIN SearchParameter(c) = {}
Schema(c) ==
  IF c.explicit # None THEN c.explicit
  ELSE (IF c.filterset = None THEN <<>> ELSE FiltersetParameters(c.filterset)) @@ FieldParameters(c) @@ SearchParameter(c)

\* _build_ordering_schema and _check_cursor_ordering; an ordering is <<column, descending>>.
OrderChoices(c) == c.ordering \X BOOLEAN
CursorOrdersFields(c) == c.cursor => \A n \in c.ordering : n \in DOMAIN c.columns /\ ~c.columns[n].null
CursorFits(c) == c.cursor =>
  \A n \in c.ordering \cup {o[1] : o \in c.default} : n \in DOMAIN c.columns /\ ~c.columns[n].null
OrderingFits(c) == /\ c.ordering # {} => c.default \subseteq OrderChoices(c)
                   /\ CursorFits(c)
\* ListConfig.checks (E002), which a project runs before it serves.
Checks(c) == c.search \cup DOMAIN c.fields \cup c.ordering \cup {o[1] : o \in c.default} \subseteq DOMAIN c.columns
Registers(c) == Fits(c) /\ OrderingFits(c)

\* A request with unknown values, of the ORM's and of django-filter's side: lookups on one row.
Has(row, lookup, value) ==
  LET v == row[lookup[1]]
      how == lookup[2]
  IN  IF v = None THEN how = "isnull" /\ value[2]
      ELSE CASE how \in {"exact", "iexact"} -> v = value[2]
             [] how \in {"icontains", "startswith"} -> value[2] \subseteq v
             [] how = "gt" -> v > value[2]
             [] how = "gte" -> v >= value[2]
             [] how = "lt" -> v < value[2]
             [] how \in {"lte", "year"} -> v <= value[2]
             [] how = "in" -> v \in value[2]
             [] OTHER -> ~value[2]
\* search_backend.search, for instance full text: a row with any part of the term.
Found(c, row, term) == \E n \in c.search : row[n] \cap term # {}
Passes(row, name, f, data) ==
  CASE f.kind = "multi" -> /\ (name \o "_min") \in DOMAIN data => row[f.column] # None /\ row[f.column] >= data[name \o "_min"][2]
                           /\ (name \o "_max") \in DOMAIN data => row[f.column] # None /\ row[f.column] <= data[name \o "_max"][2]
    [] f.kind \in {"csv", "multiple"} -> name \in DOMAIN data => row[f.column] \in f.choices /\ row[f.column] \in data[name][2]
    [] f.kind = "lookup_choice" ->
         (name \in DOMAIN data /\ (name \o "_lookup") \in DOMAIN data) =>
           IF "icontains" \in data[name \o "_lookup"][2] THEN data[name][2] \subseteq row[f.column] ELSE row[f.column] = data[name][2]
    [] OTHER -> name \in DOMAIN data => row[f.column] = data[name][2]
Clean(name, f, data) == f.kind \in {"csv", "multiple"} /\ name \in DOMAIN data => data[name][2] \subseteq f.choices

\* apply_filterset: the form gets the parameters that were sent, and what it rejects is a 422.
Data(c, q) == [p \in DOMAIN FiltersetParameters(c.filterset) \cap DOMAIN q |-> q[p]]
IsValid(c, q) == c.filterset # None => \A n \in DOMAIN c.filterset.filters : Clean(n, c.filterset.filters[n], Data(c, q))
ApplyFilterset(c, q, rows) ==
  IF c.filterset = None THEN rows
  ELSE {row \in rows : \A n \in DOMAIN c.filterset.filters : Passes(row, n, c.filterset.filters[n], Data(c, q))}
\* FilterSchema.filter: every parameter sent, unless something else has applied it.
Filter(c, q, rows) ==
  {row \in rows : \A p \in DOMAIN q \cap DOMAIN Schema(c) :
     Schema(c)[p].elsewhere \/ \E l \in Schema(c)[p].lookups : Has(row, l, q[p])}
FilterQuerysetTerm(c, q, rows) == Filter(c, q, ApplyFilterset(c, q, rows))
FilterQueryset(c, q, rows) ==
  LET searched == IF c.backend /\ c.param \in DOMAIN q \cap DOMAIN Schema(c) /\ q[c.param][1] = "text" /\ q[c.param][2] # {}
                  THEN {row \in rows : Found(c, row, q[c.param][2])} ELSE rows
  IN  Filter(c, q, ApplyFilterset(c, q, searched))

\* GET / on those rows with the ordering a client sends: None when it is a 422.
Accepted(c, q, ordering) ==
  /\ \A p \in DOMAIN q \cap DOMAIN Schema(c) : q[p][1] = Schema(c)[p].type
  /\ c.ordering # {} => ordering \subseteq OrderChoices(c)
  /\ IsValid(c, q)
OrderQueryset(c, ordering) == IF c.ordering # {} /\ ordering # {} THEN ordering ELSE c.default
Answer(c, q, ordering, rows) ==
  IF Accepted(c, q, ordering) THEN [rows |-> FilterQueryset(c, q, rows), order |-> OrderQueryset(c, ordering)] ELSE None

(***************************************************************************)
(* Every parameter of a list is applied once, by whoever declared it, in   *)
(* every combination: the rows are those each declaration keeps, and a     *)
(* value of the wrong type, or one the FilterSet's form rejects, is a 422  *)
(* and never an unfiltered list (filters.py:105-153, filtersets.py:162-193,*)
(* controllers.py:737-755).  A filter_fields name may not be the search    *)
(* parameter's.                                                            *)
(***************************************************************************)
Wanted(c, q, row) ==
  /\ (c.search # {} /\ c.param \in DOMAIN q /\ q[c.param][2] # {}) =>
       IF c.backend THEN Found(c, row, q[c.param][2]) ELSE \E n \in c.search : q[c.param][2] \subseteq row[n]
  /\ \A d \in Declared(c) : Parameter(d[1], d[2]) \in DOMAIN q => Has(row, d, q[Parameter(d[1], d[2])])
  /\ c.filterset # None => \A n \in DOMAIN c.filterset.filters : Passes(row, n, c.filterset.filters[n], q)
ParametersAreApplied(c, q, ordering, rows) ==
  (Registers(c) /\ c.explicit = None /\ DOMAIN SearchParameter(c) \cap DOMAIN FieldParameters(c) = {}) =>
    LET a == Answer(c, q, ordering, rows)
    IN  IF a # None THEN a.rows = {row \in rows : Wanted(c, q, row)}
        ELSE \/ \E p \in DOMAIN q \cap DOMAIN Schema(c) : q[p][1] # Schema(c)[p].type
             \/ ~ordering \subseteq OrderChoices(c) \/ ~IsValid(c, q)

(***************************************************************************)
(* A controller that registers and passes the system checks never orders   *)
(* by a column that is not there, and its cursor never stands on a null    *)
(* (annotations.py:245-263, controllers.py:672-694 and 779-786).           *)
(***************************************************************************)
OrdersResolve(c, q, ordering, rows) ==
  (Registers(c) /\ Checks(c) /\ Answer(c, q, ordering, rows) # None) =>
    \A o \in Answer(c, q, ordering, rows).order : o[1] \in DOMAIN c.columns /\ (c.cursor => ~c.columns[o[1]].null)
==============================================================================
