------------------------------ MODULE Schemas ------------------------------
(* Schemas derived from a Django model - those devx_scaffold writes and those
   AutoCRUDController generates -, the check that finds schemas which no
   longer match their model, and what saving a payload does.
   A model is a set of fields, records:
     name, key      the name; "fk", "m2m", "pk" or "" for a column of its own
     type           "int" "str" "bool" "float" (of the target, for relations)
     null, blank, editable, auto, positive, dbDefault  flags
     default        None, a value, or "callable"
     choices        the values, {} without; max  the longest text, None without
     ge             the smallest number of a validator, None without
   A value is [t, n]: n the number or the length of the text. A schema maps
   names to [type, literal, optional, max, ge, min, default]; resolver = TRUE
   for a field a method computes. *)
EXTENDS Integers, FiniteSets
CONSTANT None

V(t, n) == [t |-> t, n |-> n]
Null == V("none", 0)
Numbers == {V("int", i) : i \in -1 .. 2} \cup {V("bool", i) : i \in 0 .. 1} \cup {V("float", i) : i \in 0 .. 2}
Texts == {V("str", i) : i \in 0 .. 3}
Json == Numbers \cup Texts \cup {Null}

(****************************** Django's model *****************************)
HasDefault(f) == f.default # None
(* What a column can hold, and what full_clean() lets through. *)
Fits(f, v) ==
  IF v = Null THEN f.null
  ELSE /\ v.t = f.type
       /\ f.choices # {} => v \in f.choices \/ (f.blank /\ v = V("str", 0))
       /\ f.max # None => v.n <= f.max
       /\ f.type = "str" /\ v.n = 0 => f.blank
       /\ f.type = "int" => (f.ge = None \/ v.n >= f.ge) /\ (f.positive => v.n >= 0)
Holds(f) == {v \in Json : Fits(f, v)}
(* Saving a value that was sent: the ORM coerces numbers; None leaves a new row's column to a
   db_default. A column that is not sent fills itself, or the text is empty. *)
Coerced(f, v) == IF v.t \in {"int", "bool", "float"} /\ f.type # "str" THEN V(f.type, v.n) ELSE v
Saves(f, v) == \/ f.key = "m2m" \/ (v = Null /\ f.dbDefault /\ ~f.null)
               \/ Fits(f, Coerced(f, v))
FillsItself(f) == f.key \in {"pk", "m2m"} \/ HasDefault(f) \/ f.dbDefault \/ f.auto \/ f.null \/ (f.blank /\ f.type = "str")

(******************************** Schemas **********************************)
Accepts(s, v) ==
  IF v = Null THEN s.optional
  ELSE IF s.literal # {} THEN v \in s.literal
  ELSE /\ \/ v.t = s.type
          \/ s.type = "float" /\ v.t \in {"int", "bool"}
          \/ s.type = "int" /\ v.t = "bool"
       /\ v.t = "str" => (s.max = None \/ v.n <= s.max) /\ v.n >= s.min
       /\ s.type = "int" => s.ge = None \/ v.n >= s.ge
Required(s) == s.default = None

(* resolve_field and attname: a relation is read and written by its key. *)
Attribute(f) == IF f.key = "fk" THEN <<f.name, "id">> ELSE <<f.name>>
FieldOf(model, attribute) == {f \in model : attribute \in {<<f.name>>, Attribute(f)}}
FieldType(f) == [type |-> f.type, literal |-> f.choices]

(**************************** devx_scaffold ********************************)
IsWritable(f) == f.key # "pk" /\ f.editable /\ ~f.auto
NoConstraints(f) == [max |-> None, min |-> 0, ge |-> None]
Constraints(f) ==
  IF f.choices # {} \/ f.key \in {"fk", "m2m"} THEN NoConstraints(f)
  ELSE [max |-> f.max, min |-> IF f.type = "str" /\ ~f.blank THEN 1 ELSE 0,
        ge |-> IF f.positive /\ (f.ge = None \/ f.ge < 0) THEN 0 ELSE f.ge]
Annotated(f, constraints, default, optional) ==
  [type |-> FieldType(f).type, literal |-> FieldType(f).literal, optional |-> optional, max |-> constraints.max,
   min |-> constraints.min, ge |-> constraints.ge, default |-> default, resolver |-> f.key = "m2m"]
ReadAnnotation(f) == Annotated(f, NoConstraints(f), None, f.null)
WriteDefault(f) ==
  IF f.key = "m2m" THEN V("list", 0)
  ELSE IF f.null \/ f.dbDefault THEN Null
  ELSE IF HasDefault(f) /\ f.default # V("callable", 0) THEN f.default
  ELSE IF f.blank /\ f.type = "str" THEN V("str", 0) ELSE None
WriteAnnotation(f) == Annotated(f, Constraints(f), WriteDefault(f), f.null \/ f.dbDefault)
Schema(annotated) ==
  [a \in {Attribute(f) : f \in DOMAIN annotated} |-> annotated[CHOOSE f \in DOMAIN annotated : Attribute(f) = a]]
ScaffoldOut(model, o) ==
  Schema([f \in {g \in model : o.read # None => g.name \in o.read} |-> ReadAnnotation(f)])
ScaffoldIn(model, o) ==
  Schema([f \in {g \in model : g.name # o.owner /\ IF o.write = None THEN IsWritable(g) ELSE g.name \in o.write} |-> WriteAnnotation(f)])

(**************************** model_schemas ********************************)
(* Ninja's create_schema: a field is optional when it is null, blank, or has a default. *)
Created(f, optional) == Annotated(f, [NoConstraints(f) EXCEPT !.max = f.max], IF optional \/ f.null THEN Null ELSE f.default, optional \/ f.null)
OutputField(f) == Created(f, FALSE)
InputField(f) == Created(f, f.dbDefault)
Chosen(model, o) == {f \in model : f.name \notin o.exclude}
AutoOut(model, o) == Schema([f \in {g \in Chosen(model, o) : g.name \notin o.writeOnly} |-> OutputField(f)])
AutoIn(model, o) ==
  Schema([f \in {g \in Chosen(model, o) : g.key # "pk" /\ g.editable /\ g.name \notin o.readOnly} |-> InputField(f)])

(******************************* schema_drift ******************************)
Error(a, what) == [at |-> a, severity |-> "error", what |-> what]
Warning(a, what) == [at |-> a, severity |-> "warning", what |-> what]
IsRequired(f) == f.key \notin {"pk", "m2m"} /\ f.editable /\ ~f.auto /\ ~(f.null \/ f.blank \/ HasDefault(f))
PythonSubclass(a, b) == a = b \/ (a = "bool" /\ b = "int")
Compatible(f, s, reading) ==
  \/ PythonSubclass(f.type, s.type) \/ (s.type = "float" /\ f.type = "int")
  \/ ~reading /\ (PythonSubclass(s.type, f.type) \/ f.type = "float")
CompareIgnoringNull(f, a, s, reading) ==
  IF f.key = "m2m" THEN {}
  ELSE IF f.choices # {} /\ s.literal # {}
       THEN IF reading THEN (IF f.choices \ s.literal # {} THEN {Error(a, "rejected choices")} ELSE {})
            ELSE (IF s.literal \ f.choices # {} THEN {Error(a, "unknown choices")} ELSE {})
  ELSE (IF ~reading /\ f.type = "str" /\ f.max # None /\ (s.max = None \/ s.max > f.max) THEN {Warning(a, "too long")} ELSE {})
       \cup (IF Compatible(f, s, reading) THEN {} ELSE {Error(a, "type")})
Compare(f, a, s, reading) ==
  IF f.key = "m2m" THEN {}
  ELSE (IF reading /\ f.null /\ ~s.optional THEN {Error(a, "null")} ELSE {})
       \cup (IF ~reading /\ s.optional /\ ~f.null THEN {Warning(a, "null")} ELSE {})
       \cup CompareIgnoringNull(f, a, s, reading)
OutputDrift(model, out) ==
  UNION {IF out[a].resolver THEN {}
         ELSE IF FieldOf(model, a) = {} THEN {Error(a, "unknown")}
         ELSE UNION {Compare(f, a, out[a], TRUE) : f \in FieldOf(model, a)} : a \in DOMAIN out}
InputDrift(model, in, context, customCreate) ==
  (UNION {IF FieldOf(model, a) = {} THEN {Error(a, "unknown")} ELSE UNION {Compare(f, a, in[a], FALSE) : f \in FieldOf(model, a)} : a \in DOMAIN in})
  \cup {Error(<<f.name>>, "not accepted") : f \in {g \in model : /\ ~customCreate /\ IsRequired(g) /\ g.name \notin context
                                                                 /\ \A a \in DOMAIN in : g \notin FieldOf(model, a)}}
Errors(found) == {d \in found : d.severity = "error"}
Drift(model, c) == OutputDrift(model, c.out) \cup (IF c.service THEN {} ELSE InputDrift(model, c.in, c.context, c.customCreate))

(********************************** Cases **********************************)
Types == {"int", "str", "bool", "float"}
(* Choices and defaults are values the column takes, some value is, and relations go by numbers. *)
IsField(f) ==
  /\ f.type \in Types /\ f.key \in {"", "pk", "fk", "m2m"} /\ f.name # None
  /\ {f.null, f.blank, f.editable, f.auto, f.positive, f.dbDefault} \subseteq BOOLEAN
  /\ f.max \in Nat \cup {None} /\ (f.max # None => f.type = "str") /\ f.ge \in Int \cup {None}
  /\ f.key = "fk" => f.type = "int" /\ f.ge = None /\ ~f.positive
  /\ \A v \in f.choices \cup ({f.default} \ {None, V("callable", 0)}) : v \in Holds(f) /\ v # Null
  /\ \E v \in Holds(f) : v # Null
(* Names are unique.  A response has no constraints of its own, and its relations to many a method. *)
IsCase(c) ==
  /\ \A f \in c.model : IsField(f)
  /\ \A f, g \in c.model : f.name = g.name => f = g
  /\ \A a \in DOMAIN c.out :
       /\ c.out[a].max = None /\ c.out[a].min = 0 /\ c.out[a].ge = None /\ c.out[a].type \in Types
       /\ {c.out[a].optional, c.out[a].resolver} \subseteq BOOLEAN
       /\ \A f \in FieldOf(c.model, a) : f.key = "m2m" => c.out[a].resolver

(******************************* Properties ********************************)
(* What the derived schemas are documented for: they follow their model. Columns whose choices are
   not all they hold (blank choices), and required columns that are not editable or blank numbers,
   are left out: the scaffold and the drift check do not see them. *)
Usual(f) == /\ f.choices # {} => ~f.blank
            /\ f.blank => f.null \/ HasDefault(f) \/ f.dbDefault \/ f.type = "str" \/ f.key = "m2m"
            /\ ~f.editable => FillsItself(f)
(* Every row serializes. *)
Readable(model, out) ==
  \A a \in DOMAIN out : out[a].resolver \/ \A f \in FieldOf(model, a) : \A v \in Holds(f) : Accepts(out[a], v)
(* Every accepted payload, its defaults included, makes a row. *)
Creates(model, in, context) ==
  /\ \A a \in DOMAIN in : \A f \in FieldOf(model, a) :
       \A v \in {x \in Json : Accepts(in[a], x)} \cup ({in[a].default} \ {None, V("callable", 0)}) : Saves(f, v)
  /\ \A f \in model : f.name \in context \/ FillsItself(f) \/ \E a \in DOMAIN in : f \in FieldOf(model, a)
ScaffoldFollowsModel(model, o) ==
  LET out == ScaffoldOut(model, o) in == ScaffoldIn(model, o) context == {o.owner} \ {None}
  IN /\ Errors(OutputDrift(model, out)) = {} /\ Readable(model, out)
     /\ Errors(InputDrift(model, in, context, FALSE)) = {} <=> \A f \in model : IsRequired(f) => o.write = None \/ f.name \in o.write \cup context
     /\ o.write = None => Creates(model, in, context)
(* An output without errors serializes every row; an error names a row it rejects. Not for literals
   of a column without choices, which are not compared, nor for a flag read as a float. *)
DriftIsFound(model, out) ==
  LET plain == {a \in DOMAIN out : \A f \in FieldOf(model, a) :
                  (out[a].literal # {} => f.choices # {}) /\ (out[a].type = "float" => f.type # "bool")}
  IN \A a \in plain : FieldOf(model, a) # {} =>
       ((\A d \in Errors(OutputDrift(model, out)) : d.at # a) <=> Readable(model, [x \in {a} |-> out[a]]))
SchemasAgree(c) ==
  LET model == {f \in c.model : Usual(f)}
  IN /\ ScaffoldFollowsModel(model, c.scaffold)
     /\ Readable(model, AutoOut(model, c.auto)) /\ Errors(OutputDrift(model, AutoOut(model, c.auto))) = {}
     /\ \A a \in DOMAIN AutoIn(model, c.auto) : a \notin {Attribute(f) : f \in {g \in model : g.key = "pk" \/ g.name \in c.auto.readOnly}}
     /\ DriftIsFound(model, c.out)
     /\ (Errors(Drift(model, c)) = {} /\ ~c.service /\ ~c.customCreate) =>
          \A f \in model : f.name \in c.context \/ FillsItself(f) \/ \E a \in DOMAIN c.in : f \in FieldOf(model, a)
=============================================================================
