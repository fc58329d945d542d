------------------------------- MODULE Clients -------------------------------
(***************************************************************************)
(* The clients generated from an OpenAPI document (Python with TypedDicts, *)
(* Python with pydantic models, TypeScript): which documents are refused,  *)
(* what a call of a generated method sends, and how an answer is decoded.  *)
(***************************************************************************)
EXTENDS Integers, Sequences
CONSTANT None

Styles == {"typeddict", "pydantic", "typescript"}
\* A name is [wire, word, tail]: what goes over the wire, and its identifier as a word and a
\* number of underscores after it.  An operation is [id, words, shared, own, body, answers]:
\* words are the words of its id, shared the parameters of its path; a parameter is [name,
\* location, required].  A document is its operations and the fields of the body's schema.
Identifier(n) == <<n.word, n.tail>>
Escaped(n, reserved) == IF n.tail = 0 /\ n.word \in reserved THEN <<n.word, 1>> ELSE Identifier(n)
PyReserved == {"self", "body", "query", "headers", "cookies", "files", "class", "request_headers", "on_response"}
PyIdentifier(n) == Escaped(n, PyReserved)
FieldName(n) == Escaped(n, {"copy", "json", "schema", "class"})
TsIdentifier(n) == Escaped(n, {"class", "default"})
Word(w) == <<w, 0>>

(******************************** Reading *********************************)
\* The parameters of an operation: its own replace those of its path, by location and name.
Key(p) == <<p.location, p.name.wire>>
Parameters(op) == {s \in op.shared : \A o \in op.own : Key(o) # Key(s)} \cup op.own
At(op, where) == {p \in Parameters(op) : p.location \in where}
Operations(doc) == {doc.operations[i] : i \in DOMAIN doc.operations}
\* Success answers [status, media, schema] as the document has them: 204 is empty, an answer
\* without content may be anything, an event stream makes the method an iterator.
Variant(status, media, schema) == [status |-> status, media |-> media, schema |-> schema]
Media == [m \in {"text", "binary", "text/event-stream"} |-> IF m = "text" THEN "str" ELSE IF m = "binary" THEN "bytes" ELSE "event"]
Read(a) == IF a.status = 204 THEN Variant(204, None, "null")
           ELSE Variant(a.status, a.media, IF a.media = None THEN "any" ELSE IF a.media \in DOMAIN Media THEN Media[a.media] ELSE a.schema)
Variants(op) == {Read(a) : a \in {x \in op.answers : x.status \in 200 .. 299}}
Streaming(op) == \E v \in Variants(op) : v.schema = "event"
HasBody(op) == \E v \in Variants(op) : v.status # 204
Result(op) == IF HasBody(op) THEN {v.schema : v \in Variants(op)} ELSE {"null"}

(******************************** Refusing ********************************)
IsUnique(names) == \A i, j \in DOMAIN names : names[i] = names[j] => i = j
Values(names) == {names[i] : i \in DOMAIN names}
PyNames(params) == [p \in params |-> PyIdentifier(p.name)]
TsNames(op) == [p \in At(op, {"path"}) |-> TsIdentifier(p.name)]
FieldNames(doc) == [n \in doc.fields |-> FieldName(n)]
MethodsOfClient(style) == IF style = "typescript" THEN {"then"} ELSE {"close", "aclose"}
MethodNames(doc) == [i \in DOMAIN doc.operations |-> doc.operations[i].words]
AcceptsOnce(doc, style) == \A op \in Operations(doc) : IsUnique(PyNames(Parameters(op)))   \* mutant: methods may collide
Accepts(doc, style) ==
  /\ IsUnique(MethodNames(doc)) /\ Values(MethodNames(doc)) \cap MethodsOfClient(style) = {}
  /\ \A op \in Operations(doc) :
       IF style = "typescript"
       THEN /\ ~Streaming(op) /\ IsUnique(TsNames(op))
            /\ Values(TsNames(op)) \cap {Word("body"), Word("query"), Word("headers"), Word("requestOptions")} = {}
       ELSE IsUnique(PyNames(At(op, {"path", "query", "header"})))
  /\ style = "pydantic" => IsUnique(FieldNames(doc))

(******************************** Calling *********************************)
\* The names of a method's arguments: those made from parameters, and those it always has.
\* TypeScript groups the parameters that are not in the path in objects, by their wire names.
Named(op, style) == IF style = "typescript" THEN TsNames(op) ELSE PyNames(Parameters(op))
Words(op, style) ==
  LET Group(where, word) == IF At(op, {where}) = {} THEN {} ELSE {Word(word)}
  IN (IF op.body = None THEN {} ELSE {Word("body")})
     \cup IF style = "typescript"
          THEN Group("query", "query") \cup Group("header", "headers") \cup Group("cookie", "cookies") \cup {Word("requestOptions")}
          ELSE {Word("request_headers"), Word("on_response")}
\* A method whose arguments share a name is not valid code; one whose argument hides a
\* function that its body calls does not run.
Hidden(op, style) == IF style = "typescript" THEN {Word("request"), Word("cookieHeader"), Word("multipart")} ELSE {}
Runs(op, style) == IsUnique(Named(op, style)) /\ Values(Named(op, style)) \cap (Words(op, style) \cup Hidden(op, style)) = {}
\* Where a parameter is passed, and what is found there: the value of the parameter that was
\* put there, None when it was left out.
Argument(style, q) ==
  IF style # "typescript" THEN PyIdentifier(q.name)
  ELSE IF q.location = "path" THEN <<"path", TsIdentifier(q.name)>> ELSE Key(q)
Held(style, given, p) ==
  LET bound == {q \in given : Argument(style, q) = Argument(style, p)}
  IN IF bound = {} THEN None ELSE Key(CHOOSE q \in bound : TRUE)
Sent(op, style, given, where) ==
  {s \in {[wire |-> p.name.wire, value |-> Held(style, given, p)] : p \in At(op, {where})} : s.value # None}
\* Headers of the caller first, then the declared ones, then the client's own.
SentHeaders(op, style, given, extra) ==
  LET declared == Sent(op, style, given, "header")
      cookies == Sent(op, style, given, "cookie")
      set == {s.wire : s \in declared} \cup (IF cookies = {} THEN {} ELSE {"Cookie"})
      caller == {s \in extra : s.wire \notin set /\ ~(op.body = "multipart" /\ s.wire = "Content-Type")}
  IN declared \cup caller
\* The fields of a body that were set, under their wire names: a null is a value, except in a
\* form.  Pydantic models rename fields and go back by alias.
Attribute(style, n) == IF style = "pydantic" THEN FieldName(n) ELSE <<n.wire, 0>>
IsSet(doc, style, n, wire) == \E m \in doc.fields : m.wire = wire /\ Attribute(style, m) = Attribute(style, n)
ValueOf(doc, style, body, n) == body[CHOOSE wire \in DOMAIN body : IsSet(doc, style, n, wire)]
SentBody(doc, op, style, body) ==
  LET set == {n \in doc.fields : \E wire \in DOMAIN body : IsSet(doc, style, n, wire)}
  IN {<<n.wire, ValueOf(doc, style, body, n)>> : n \in {m \in set : op.body = "multipart" => ValueOf(doc, style, body, m) # "null"}}
\* Calling the method named words: of two with this name the last definition stays.
Method(doc, words) ==
  LET same == {i \in DOMAIN doc.operations : doc.operations[i].words = words}
  IN doc.operations[CHOOSE i \in same : \A j \in same : j <= i]
Call(doc, style, words, given, extra, body) ==
  LET op == Method(doc, words)
  IN [id |-> op.id, runs |-> Runs(op, style), path |-> Sent(op, style, given, "path"), query |-> Sent(op, style, given, "query"),
      headers |-> SentHeaders(op, style, given, extra), cookies |-> Sent(op, style, given, "cookie"),
      body |-> IF op.body = None THEN {} ELSE SentBody(doc, op, style, body)]

(******************************** Answers *********************************)
\* _decode() raises ApiError unless the answer is a success; the models are chosen by status
\* and media type as soon as there are several, in the order of the document.
MatchesStatus(v, status, media) == v.status = status   \* mutant: the media type is not looked at
Matches(v, status, media) == v.status = status /\ v.media \in {None, media}
Decoded(op, style, status, media) ==
  LET fits == {v \in Variants(op) : Matches(v, status, media)}
      chosen == style = "pydantic" /\ (\E v, w \in Variants(op) : v # w) /\ fits # {}
  IN IF status \notin 200 .. 299 THEN {"ApiError"}
     ELSE IF Streaming(op) THEN {"event"}
     ELSE IF chosen THEN {v.schema : v \in fits} ELSE Result(op)   \* a cast in the other two styles

(********************************* Cases **********************************)
\* A parameter is named once at each place, by an operation and by its path; what is sent are
\* fields of the schema.
Keys == {"path", "query", "header", "cookie"} \X STRING
IsCase(c) ==
  /\ \A op \in Operations(c.doc) : \A ps \in {op.shared, op.own} :
       /\ \A p \in ps : Key(p) \in Keys
       /\ \A p, q \in ps : Key(p) = Key(q) => p = q
  /\ DOMAIN c.doc.operations \subseteq Nat
  /\ DOMAIN c.body \subseteq {n.wire : n \in c.doc.fields}
\* An answer without content is the only one of its status, and each media type is named once.
IsAnswered(c) ==
  \A op \in Operations(c.doc) :
    \A a, b \in op.answers : a.status = b.status /\ b.media \in {None, a.media} => a = b

(******************************* Properties *******************************)
\* Every operation of a document that is accepted has a method of its own, and calling it
\* sends the request of that operation with each value where the document wants it, under
\* its own name, nothing twice and nothing left out, whatever names the generated code
\* gives to parameters, fields and methods (source.py:33-38, openapi.py:120-147).  Cookies
\* that share an identifier with another parameter, and TypeScript path parameters named
\* like a function of the client, are accepted although the code does not run.
Clash(op, style) ==
  \/ style # "typescript" /\ ~IsUnique(PyNames(Parameters(op)))
  \/ style = "typescript" /\ Values(TsNames(op)) \cap (Hidden(op, style) \cup {Word("cookies")}) # {}
Wanted(given, where) == {[wire |-> p.name.wire, value |-> Key(p)] : p \in {q \in given : q.location = where}}
WantedBody(op, body) == {<<wire, body[wire]>> : wire \in {w \in DOMAIN body : op.body = "multipart" => body[w] # "null"}}
CallsArrive(c) ==
  \A style \in Styles : Accepts(c.doc, style) => \A op \in Operations(c.doc) :
    ~Clash(op, style) => \A given \in SUBSET Parameters(op) : {p \in Parameters(op) : p.required} \subseteq given =>
      LET r == Call(c.doc, style, op.words, given, {}, c.body)
      IN /\ r.id = op.id /\ r.runs
         /\ r.path = Wanted(given, "path") /\ r.query = Wanted(given, "query")
         /\ r.headers = Wanted(given, "header") /\ r.cookies = Wanted(given, "cookie")
         /\ op.body # None => r.body = WantedBody(op, c.body)

\* An answer the document has is decoded with the schema the document gives to its status
\* and media type, and no failure looks like a success (python.py:839-857).
AnswersAreTyped(c) ==
  \A op \in Operations(c.doc), style \in Styles : Accepts(c.doc, style) =>
    \A v \in Variants(op) :
      LET d == Decoded(op, style, v.status, v.media)
      IN /\ v.schema \in d \/ Streaming(op)
         /\ style = "pydantic" /\ ~Streaming(op) => d = {v.schema}
         /\ Decoded(op, style, 400, v.media) = {"ApiError"}
=============================================================================
