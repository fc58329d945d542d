------------------------------ MODULE QueryPlans ------------------------------
(***************************************************************************)
(* The queries that serve an output schema: which relations are joined,    *)
(* which are fetched in a query of their own, which columns are selected,  *)
(* against what the serialization of a row reads.                          *)
(***************************************************************************)
EXTENDS Integers, Sequences, FiniteSets
LOCAL INSTANCE SequencesExt
LOCAL INSTANCE FiniteSetsExt

CONSTANT None

MaxDepth == 4
\* A world w has models: name -> field -> [kind, to], kind being col, fk, reverse (by a
\* column of the other model) or m2m,
\* and schemas: name -> fields [name, nested, expandable, reads, hints]; a field whose name
\* is no field of the model is computed, by a resolver that reads the paths reads and may
\* announce them as hints.  A path is a sequence of names; a foreign key and its column
\* have one name.
Rest(p, q) == SubSeq(q, Len(p) + 1, Len(q))   \* q = p \o Rest(p, q)

(********************************** Plans *********************************)
NoPlan == [columns |-> {}, select |-> {}, prefetch |-> {}, exact |-> TRUE, forcedSelect |-> {}, forcedPrefetch |-> {}]
Joined(plans) ==   \* the plan that gathers what several fields ask for
  [columns |-> UNION {p.columns : p \in plans}, select |-> UNION {p.select : p \in plans},
   prefetch |-> UNION {p.prefetch : p \in plans}, exact |-> \A p \in plans : p.exact,
   forcedSelect |-> UNION {p.forcedSelect : p \in plans}, forcedPrefetch |-> UNION {p.forcedPrefetch : p \in plans}]
ApplyHints(w, model, hints) ==   \* as they are written: relative to the model of the schema
  LET known == {h \in hints : h[1] \in DOMAIN w.models[model]}
      forward == {h \in known : w.models[model][h[1]].kind = "fk"}
  IN [NoPlan EXCEPT !.forcedSelect = forward, !.forcedPrefetch = known \ forward]
Collapsed(f, expand) == f.expandable /\ f.name \notin expand

NoMatchingColumn(field) == {}   \* mutant: the column that finds the parent is deferred
MatchingColumn(field) == IF field.kind = "reverse" THEN {<<field.by>>} ELSE {}
RECURSIVE Collect(_, _, _, _, _, _)
FieldPlan(w, model, f, prefix, depth, expand) ==
  LET at == prefix \o <<f.name>>
      field == w.models[model][f.name]
      nested == IF Collapsed(f, expand) \/ depth + 1 >= MaxDepth THEN None ELSE f.nested
      Child == LET below == IF nested = None THEN [NoPlan EXCEPT !.exact = FALSE]
                            ELSE Collect(w, field.to, nested, <<>>, depth + 1, {})
               IN [below EXCEPT !.columns = @ \cup MatchingColumn(field)]
  IN IF f.name \notin DOMAIN w.models[model] THEN [ApplyHints(w, model, f.hints) EXCEPT !.exact = FALSE]
     ELSE IF field.kind = "col" \/ (field.kind = "fk" /\ nested = None) THEN [NoPlan EXCEPT !.columns = {at}]
     ELSE IF field.kind = "fk" THEN Joined({[NoPlan EXCEPT !.columns = {at}, !.select = {at}],
                                            Collect(w, field.to, nested, at, depth + 1, {})})
     ELSE IF Collapsed(f, expand) THEN [NoPlan EXCEPT !.exact = FALSE]
     ELSE [NoPlan EXCEPT !.prefetch = {[lookup |-> at, plan |-> Child]}]
Collect(w, model, schema, prefix, depth, expand) ==
  Joined({[NoPlan EXCEPT !.columns = {prefix \o <<"id">>}]}
         \cup {FieldPlan(w, model, f, prefix, depth, expand) : f \in Range(w.schemas[schema])})
\* query_plan(): the hints of the controller join those of the resolvers.
QueryPlan(c) == Joined({Collect(c.world, c.model, c.schema, <<>>, 0, c.expand), ApplyHints(c.world, c.model, c.related)})

(********************************* Queries ********************************)
RECURSIVE IsExact(_)
IsExact(plan) == plan.exact /\ \A p \in plan.prefetch : IsExact(p.plan)
Restricts(plan, only) == only /\ IsExact(plan)
Joins(plan) == UNION {Prefixes(p) : p \in plan.select \cup plan.forcedSelect} \ {<<>>}
\* What the object at a path of relations from a row has in memory: "lazy" when reaching it
\* takes a query for this row, else its columns.  A relation the view prefetches itself
\* is left as it is.
AllColumns(w, model) == {<<name>> : name \in DOMAIN w.models[model]} \cup {<<"id">>}
RECURSIVE ModelAt(_, _, _)
ModelAt(w, model, path) == IF path = <<>> THEN model
                           ELSE ModelAt(w, w.models[model][Head(path)].to, Tail(path))
RECURSIVE Loaded(_, _, _, _, _, _)
Loaded(w, model, plan, only, seen, path) ==
  LET fetched == {p \in plan.prefetch : p.lookup \notin seen /\ IsPrefix(p.lookup, path)}
      whole == UNION {Prefixes(p) : p \in plan.forcedPrefetch} \cup seen
      first == CHOOSE p \in fetched : TRUE
  IN IF path = <<>> \/ path \in Joins(plan)
     THEN IF Restricts(plan, only) THEN {Rest(path, col) : col \in {k \in plan.columns : IsPrefix(path, k)}}
          ELSE AllColumns(w, ModelAt(w, model, path))
     ELSE IF fetched # {} /\ ~(path \in whole /\ path # first.lookup)
     THEN Loaded(w, ModelAt(w, model, first.lookup), first.plan, only, {}, Rest(first.lookup, path))
     ELSE IF path \in whole THEN AllColumns(w, ModelAt(w, model, path)) ELSE {"lazy"}

(****************************** Serialization *****************************)
\* What FieldVisibility.validate() and Ninja's getter read of a row, one relation after the
\* other: pairs [path, column], column None for a relation that is only walked.  Django
\* matches prefetched rows with their parents by the column of the foreign key.
Read(path, column) == [path |-> path, column |-> column]
RECURSIVE Reads(_, _, _, _, _)
FieldReads(w, model, f, at, expand) ==
  LET field == w.models[model][f.name]
      to == at \o <<f.name>>
  IN IF f.name \notin DOMAIN w.models[model] THEN {Read(at \o Front(p), Last(p)) : p \in f.reads}
     ELSE IF field.kind = "col" \/ (field.kind = "fk" /\ (f.nested = None \/ Collapsed(f, expand))) THEN {Read(at, f.name)}
     ELSE IF Collapsed(f, expand) THEN {}   \* the key comes from Expandable.source
     ELSE IF field.kind = "fk" /\ Len(to) >= MaxDepth THEN {}   \* deeper levels are not planned for
     ELSE {Read(to, field.by)} \cup (IF f.nested = None THEN {} ELSE Reads(w, field.to, f.nested, to, {}))
Reads(w, model, schema, at, expand) ==
  IF Len(at) >= MaxDepth THEN {}
  ELSE UNION {FieldReads(w, model, f, at, expand) : f \in Range(w.schemas[schema])}

(*************************** Rules of expansions **************************)
\* Rows [parent, pk, rank, kept] of an expanded relation under an ExpandRule, for one
\* parent: filter, order, then the limit among the parent's own rows.
Shown(rule, r) == rule.filtered => r.kept
Ahead(rule, a, b) == IF rule.ordered /\ a.rank # b.rank THEN a.rank < b.rank ELSE a.pk > b.pk
ShapedAcross(rows, rule) ==   \* mutant: the limit counts the rows of every parent
  {r \in rows : Shown(rule, r) /\ (rule.limit # None => Cardinality({s \in rows : Shown(rule, s) /\ Ahead(rule, s, r)}) < rule.limit)}
Shaped(rows, rule) ==   \* Django 5: a rank by window; before: a subquery per parent, the same rows
  LET ranked(r) == 1 + Cardinality({s \in rows : Shown(rule, s) /\ s.parent = r.parent /\ Ahead(rule, s, r)})
  IN {r \in rows : Shown(rule, r) /\ (rule.limit # None => ranked(r) <= rule.limit)}

(******************************* Properties *******************************)
\* Rendering a row takes no query of its own, however the relations nest and whatever is
\* expanded, and no column is deferred that is read or that a join needs (optimization.py:3-11);
\* and what is not read is not fetched: an unexpanded relation costs nothing
\* (visibility.py:204-207).  Resolvers announce the relations they read, at the top of the
\* schema or below a relation with a query of its own.
PlanLoadsWhatIsRead(c) ==
  LET plan == QueryPlan(c)
      reads == Reads(c.world, c.model, c.schema, <<>>, c.expand)
      At(path) == Loaded(c.world, c.model, plan, c.only, c.seen, path)
      walked == {r.path : r \in reads}
      asked == UNION {Prefixes(p) : p \in walked \cup plan.forcedSelect \cup plan.forcedPrefetch}
  IN /\ \A r \in reads : "lazy" \notin At(r.path) /\ (r.column # None => <<r.column>> \in At(r.path))
     /\ Restricts(plan, c.only) => \A path \in Joins(plan) : path \in plan.columns
     /\ Joins(plan) \subseteq asked
     /\ \A p \in plan.prefetch : p.lookup \in asked

\* Every parent gets the first rows of its own, and as many as the rule allows
\* (optimization.py:54-76).
RulesKeepTheFirst(c) ==
  \A rule \in c.rules : \A parent \in {r.parent : r \in c.children} :
    LET own == {r \in c.children : r.parent = parent /\ Shown(rule, r)}
        kept == {r \in Shaped(c.children, rule) : r.parent = parent}
    IN /\ kept \subseteq own
       /\ \A r \in kept, s \in own \ kept : Ahead(rule, r, s)
       /\ Cardinality(kept) = IF rule.limit = None THEN Cardinality(own) ELSE Min({rule.limit, Cardinality(own)})
=============================================================================
