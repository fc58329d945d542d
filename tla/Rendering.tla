------------------------------ MODULE Rendering ------------------------------
(***************************************************************************)
(* What a response shows of an object: fields that only some may see, the  *)
(* fields and relations the client asked for, nested schemas with rules of *)
(* their own.                                                              *)
(***************************************************************************)
EXTENDS Integers, Sequences, FiniteSets
LOCAL INSTANCE Functions

CONSTANT None

W == INSTANCE Resources
\* A rule is None or [who, hidden]; hidden is "null" or "omit".
MayShow(rule, q, source) == W!MayShow(rule, q, source)

(********************************* Shapes *********************************)
\* A field is [name, alias, rule, nested, expandable]; nested names a schema of the world.
WireName(c, f) == IF c.byAlias /\ f.alias # None THEN f.alias ELSE f.name
Listed(f) == IF f.alias # None THEN f.alias ELSE f.name   \* what ?fields= may name
Fields(c, s) == Range(c.schemas[s].fields)
Expandables(c, s) == {f \in Fields(c, s) : f.expandable}
ShapeFits(c, s) == c.schemas[s].mixin \/ (~c.sparse /\ Expandables(c, s) = {})
\* parse(): nothing, an error, or the names.
Parse(raw, allowed) == CASE raw \in {None, {}} -> [ok |-> TRUE, names |-> None]
                         [] ~(raw \subseteq allowed) -> [ok |-> FALSE, names |-> None]
                         [] OTHER -> [ok |-> TRUE, names |-> raw]
Shape(c) ==
  LET fields == IF c.sparse THEN Parse(c.rawFields, {Listed(f) : f \in Fields(c, c.schema)}) ELSE Parse(None, {})
      expand == Parse(c.rawExpand, {f.name : f \in Expandables(c, c.schema)})
  IN IF ~c.sparse /\ Expandables(c, c.schema) = {} THEN [ok |-> TRUE, schema |-> None, fields |-> None, expand |-> {}]
     ELSE [ok |-> fields.ok /\ expand.ok, schema |-> c.schema, fields |-> fields.names,
           expand |-> IF expand.names = None THEN {} ELSE expand.names]

(***************************** Serialization ******************************)
Nothing == [n \in {} |-> None]
Null == [kind |-> "null", of |-> Nothing]
Plain(o, f) == [kind |-> "value", of |-> [n \in {"value"} |-> <<o.id, f.name>>]]
Key(o, f) == [kind |-> "key", of |-> [n \in {"key"} |-> o.values[f.name]]]
Expanded(c, s, f) == ~f.expandable \/ ~c.schemas[s].mixin \/ (Shape(c).schema = s /\ f.name \in Shape(c).expand)
SourceLeft(c, s, o, source) == IF source = None /\ c.schemas[s].mixin THEN o ELSE source  \* mutant: a nested schema leaves the outer source
Source(c, s, o, source) == IF c.schemas[s].mixin THEN o ELSE source
RECURSIVE Render(_, _, _, _)
\* [shown, omitted]: omitted are the names that the schema with the mixin around it leaves out.
Render(c, s, o, source) ==
  LET src == Source(c, s, o, source)
      hidden == {f \in Fields(c, s) : ~MayShow(f.rule, c.q, src)}
      inner(f) == Render(c, f.nested, c.objects[o.values[f.name]], src)
      deep(f) == f.nested # None /\ Expanded(c, s, f) /\ o.values[f.name] # None
      shown == [f \in Fields(c, s) |->
                  IF f \in hidden THEN Null
                  ELSE IF deep(f) THEN [kind |-> "nested", of |-> inner(f).shown]
                  ELSE IF f.nested = None THEN Plain(o, f)
                  ELSE IF o.values[f.name] = None THEN Null ELSE Key(o, f)]
      omitted == {f.name : f \in {g \in hidden : g.rule.hidden = "omit"}}
                 \cup UNION {inner(f).omitted : f \in {g \in Fields(c, s) \ hidden : deep(g)}}
      selected == IF Shape(c).schema = s THEN Shape(c).fields ELSE None
      kept == IF c.schemas[s].mixin THEN {f \in Fields(c, s) : WireName(c, f) \notin omitted /\ (selected = None \/ WireName(c, f) \in selected)}
              ELSE Fields(c, s)
  IN [shown |-> [n \in {WireName(c, f) : f \in kept} |-> shown[CHOOSE f \in kept : WireName(c, f) = n]],
      omitted |-> IF c.schemas[s].mixin THEN {} ELSE omitted]
Body(c) == Render(c, c.schema, c.objects[c.object], None).shown

(******************************* Properties *******************************)
\* Every value that a response shows, at any depth, is one that the request may see of that
\* very object, and one that was asked for; what may be seen and was asked for is there, and
\* a relation is its key unless the client expands it.  Schemas with rules of their own have
\* the mixin, and aliases are what is serialized (visibility.py:13-20, 262-336).
RECURSIVE ShowsWhatMayBeSeen(_, _, _, _)
ShowsWhatMayBeSeen(c, s, o, shown) ==
  LET asked(f) == Shape(c).schema # s \/ Shape(c).fields = None \/ Listed(f) \in Shape(c).fields
  IN \A f \in Fields(c, s) :
       LET there == WireName(c, f) \in DOMAIN shown
           value == shown[WireName(c, f)]
       IN /\ there <=> (asked(f) /\ (MayShow(f.rule, c.q, o) \/ f.rule.hidden = "null"))
          /\ there =>
               IF ~MayShow(f.rule, c.q, o) THEN value = Null
               ELSE IF f.nested = None THEN value.kind = "value"
               ELSE /\ value.kind = "nested" => ShowsWhatMayBeSeen(c, f.nested, c.objects[o.values[f.name]], value.of)
                    /\ value.kind = IF o.values[f.name] = None THEN "null"
                                    ELSE IF f.expandable /\ ~(Shape(c).schema = s /\ f.name \in Shape(c).expand) THEN "key" ELSE "nested"
RuledHaveMixin(c) == \A s \in DOMAIN c.schemas : c.schemas[s].mixin \/ \A f \in Fields(c, s) : f.rule = None /\ ~f.expandable
AliasesServed(c) == c.byAlias \/ \A s \in DOMAIN c.schemas : \A f \in Fields(c, s) : f.alias = None
ResponsesShow(c) ==
  (RuledHaveMixin(c) /\ AliasesServed(c) /\ ShapeFits(c, c.schema)) =>
    IF Shape(c).ok THEN ShowsWhatMayBeSeen(c, c.schema, c.objects[c.object], Body(c))
    ELSE \/ ~(c.rawFields \subseteq {Listed(f) : f \in Fields(c, c.schema)})
         \/ ~(c.rawExpand \subseteq {f.name : f \in Expandables(c, c.schema)})
================================================================================
