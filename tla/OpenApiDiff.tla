----------------------------- MODULE OpenApiDiff -----------------------------
(***************************************************************************)
(* devx_openapi --against: the changes between two OpenAPI documents, and  *)
(* whether one of them breaks clients.  Schemas may refer to each other,   *)
(* and to themselves.                                                      *)
(***************************************************************************)
EXTENDS Integers, Sequences, FiniteSets

CONSTANT None

\* A document has schemas: name -> schema, and operations: [path, method] -> operation.  A
\* schema is [ref, type, enum, items, properties, required]; an operation has parameters:
\* name -> required, body and responses: status -> schema.
Field(f, x) == x \in DOMAIN f
Change(breaking, at) == [breaking |-> breaking, at |-> at]
Breaking(at) == {Change(TRUE, at)}
Additive(at) == {Change(FALSE, at)}

(******************************** Schemas *********************************)
RECURSIVE Resolved(_, _, _)
\* The schema a value points at, with the last reference that was followed.
Resolved(doc, s, seen) ==
  IF s.ref = None \/ s.ref \in seen THEN [ref |-> None, schema |-> s]
  ELSE LET next == Resolved(doc, doc.schemas[s.ref], seen \cup {s.ref})
       IN IF next.ref = None THEN [ref |-> s.ref, schema |-> next.schema] ELSE next

\* What the two schemas themselves say.
Local(b, c, at) ==
  (IF b.type # None /\ c.type # None /\ b.type # c.type THEN Breaking(at) ELSE {})
  \cup (IF ~(b.enum \subseteq c.enum) THEN Breaking(at) ELSE {})
  \cup (IF ~(c.enum \subseteq b.enum) THEN Additive(at) ELSE {})
  \cup UNION {IF ~Field(c.properties, n) THEN Breaking(at)
              ELSE IF n \in b.required /\ n \notin c.required THEN Additive(at)
              ELSE IF n \notin b.required /\ n \in c.required THEN Breaking(at) ELSE {} : n \in DOMAIN b.properties}
  \cup UNION {IF n \in c.required THEN Breaking(at) ELSE Additive(at) : n \in DOMAIN c.properties \ DOMAIN b.properties}
\* The pairs of schemas below them: the items and the fields both have.
Below(b, c) ==
  (IF b.items # None /\ c.items # None THEN {<<b.items, c.items>>} ELSE {})
  \cup {<<b.properties[n], c.properties[n]>> : n \in DOMAIN b.properties \cap DOMAIN c.properties}

RECURSIVE Compare(_, _, _, _, _, _)
ComparedByBaseline(rb, rc) == {<<rb.ref, rb.ref>>}   \* mutant: one side of the pair is remembered
Compared(rb, rc) == IF rb.ref # None \/ rc.ref # None THEN {<<rb.ref, rc.ref>>} ELSE {}
Compare(bDoc, cDoc, b, c, at, visited) ==
  LET rb == Resolved(bDoc, b, {})
      rc == Resolved(cDoc, c, {})
  IN IF Compared(rb, rc) \cap visited # {} THEN {}   \* compared higher up
     ELSE Local(rb.schema, rc.schema, at)
          \cup UNION {Compare(bDoc, cDoc, p[1], p[2], at, visited \cup Compared(rb, rc)) : p \in Below(rb.schema, rc.schema)}

(****************************** Operations ********************************)
Parameters(b, c, at) ==
  UNION {IF ~Field(c, n) \/ (~b[n] /\ c[n]) THEN Breaking(at)
         ELSE IF b[n] /\ ~c[n] THEN Additive(at) ELSE {} : n \in DOMAIN b}
  \cup UNION {IF c[n] THEN Breaking(at) ELSE {} : n \in DOMAIN c \ DOMAIN b}
Operation(bDoc, cDoc, b, c, at) ==
  Parameters(b.parameters, c.parameters, at)
  \cup (CASE b.body # None /\ c.body = None -> Breaking(at)
          [] b.body # None /\ c.body # None -> Compare(bDoc, cDoc, b.body, c.body, at, {})
          [] OTHER -> {})
  \cup UNION {IF ~Field(c.responses, s) THEN Breaking(at)
              ELSE Compare(bDoc, cDoc, b.responses[s], c.responses[s], at, {}) : s \in DOMAIN b.responses}
Diff(b, c) ==
  UNION {IF ~Field(c.operations, at) THEN Breaking(at)
         ELSE Operation(b, c, b.operations[at], c.operations[at], at) : at \in DOMAIN b.operations}
  \cup UNION {Additive(at) : at \in DOMAIN c.operations \ DOMAIN b.operations}
HasBreaking(changes) == \E change \in changes : change.breaking

(******************************* Properties *******************************)
\* The pairs of schemas a client can meet at one place of the two documents, level by level
\* until there are no others.
RECURSIVE Reached(_, _, _)
Reached(b, c, pairs) ==
  LET more == pairs \cup UNION {Below(Resolved(b, p[1], {}).schema, Resolved(c, p[2], {}).schema) : p \in pairs}
  IN IF more = pairs THEN pairs ELSE Reached(b, c, more)
Meets(b, c) ==
  Reached(b, c, UNION {LET o == b.operations[at] n == c.operations[at]
                       IN {<<o.responses[s], n.responses[s]>> : s \in DOMAIN o.responses \cap DOMAIN n.responses}
                          \cup (IF o.body # None /\ n.body # None THEN {<<o.body, n.body>>} ELSE {}) :
                       at \in DOMAIN b.operations \cap DOMAIN c.operations})
\* A type that is inline on one side and a reference on the other, below itself.
Unrolled(b, c, pairs) ==
  \E p, q \in pairs : /\ (p[1].ref = None) # (p[2].ref = None) /\ p # q
                      /\ p[1].ref = q[1].ref /\ p[2].ref = q[2].ref

\* The build fails exactly when a client would notice: something it calls is gone, something
\* it did not send is required, or two schemas met at one place of the documents, however
\* deep and through whatever references, differ in a way that breaks it; and a document never
\* breaks itself (openapi_diff.py:3-4, 77-79).  Where one document writes out a type that
\* the other refers to recursively, the levels below the first are not compared.
BreakingIsReported(x) ==
  LET b == x.baseline
      c == x.current
      pairs == Meets(b, c)
      Lost(at) == LET o == b.operations[at] n == c.operations[at]
                  IN \/ ~(DOMAIN o.responses \subseteq DOMAIN n.responses) \/ (o.body # None /\ n.body = None)
                     \/ ~(DOMAIN o.parameters \subseteq DOMAIN n.parameters)
                     \/ \E p \in DOMAIN n.parameters : n.parameters[p] /\ (p \in DOMAIN o.parameters => ~o.parameters[p])
      breaks == \/ ~(DOMAIN b.operations \subseteq DOMAIN c.operations)
                \/ \E at \in DOMAIN b.operations \cap DOMAIN c.operations : Lost(at)
                \/ \E p \in pairs : HasBreaking(Local(Resolved(b, p[1], {}).schema, Resolved(c, p[2], {}).schema, None))
  IN /\ ~Unrolled(b, c, pairs) => (HasBreaking(Diff(b, c)) <=> breaks)
     /\ HasBreaking(Diff(b, c)) => breaks
     /\ Diff(b, b) = {}
=============================================================================
