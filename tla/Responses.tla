------------------------------ MODULE Responses ------------------------------
(***************************************************************************)
(* What leaves the server: the middleware stack around an operation, with  *)
(* the built-in middlewares it is made of, the mapping of exceptions to    *)
(* error bodies, entity tags and the older shapes of a response.           *)
(***************************************************************************)
EXTENDS Integers, Sequences, FiniteSets

CONSTANT None

Has(x) == x # None
\* A response: status, body, whether it streams, and its headers.
Names == {"version", "etag", "id", "limits", "count", "links", "vary", "cacheControl", "hit", "queries"}
NoHeaders == [n \in Names |-> None]
Response(status, body) == [status |-> status, body |-> body, streaming |-> FALSE, headers |-> NoHeaders]
With(resp, name, value) == [resp EXCEPT !.headers = [resp.headers EXCEPT ![name] = value]]
Absent(resp, name, value) == IF Has(resp.headers[name]) THEN resp ELSE With(resp, name, value)
Keep(resp, names) == [n \in Names |-> IF n \in names THEN resp.headers[n] ELSE None]
Success(resp) == resp.status \in 200 .. 299

(********************************* Errors *********************************)
\* One body, in the two formats of the ERROR_FORMAT setting.
Render(w, status, code, detail) ==
  Response(status, IF w.problem THEN [title |-> status, status |-> status, code |-> code, detail |-> detail] ELSE [code |-> code, detail |-> detail])
\* Exceptions with a status and a code of their own map themselves (rule_for(): see Routing).
OwnError(e) == e.status # None /\ e.code # None
RenderBody(w, e) == LET detail == IF Has(e.message) THEN e.message ELSE e.status IN Render(w, e.status, e.code, detail)
Rejected(w, status, code) == Render(w, status, code, code)

(****************************** Entity tags *******************************)
\* A tag stands for the body it hashes; weak ones match only where a read asks.
EntityTag(body, weak) == [of |-> body, weak |-> weak]
Matches(header, tag, weak) == header.any \/ (header.of = tag.of /\ (weak \/ (~tag.weak /\ ~header.weak)))
Safe == {"GET", "HEAD"}
NotModified(q, tag) == q.method \in Safe /\ Has(q.ifNoneMatch) /\ Matches(q.ifNoneMatch, tag, TRUE)
FinalizeAlways(w, q, resp) ==  \* mutant: any answer to a request that names a tag is a 304
  IF Success(resp) /\ Has(q.ifNoneMatch) /\ q.method \in Safe
  THEN With(Response(304, None), "etag", EntityTag(resp.body, TRUE)) ELSE resp
Finalize(w, q, resp) ==
  LET tag == IF Has(w.remembered) THEN w.remembered
             ELSE IF w.fromBody /\ q.method \in Safe /\ resp.status = 200 THEN EntityTag(resp.body, TRUE) ELSE None
      kept == [Keep(resp, {"cacheControl", "vary"}) EXCEPT !["etag"] = tag]
  IN IF ~Success(resp) \/ resp.streaming THEN resp
     ELSE IF tag = None THEN resp
     ELSE IF resp.status = 200 /\ NotModified(q, tag) THEN [Response(304, None) EXCEPT !.headers = kept]
     ELSE Absent(resp, "etag", tag)

(**************************** Older versions ******************************)
Current(w) == IF w.versions = {} THEN 1 ELSE (CHOOSE v \in w.versions : \A o \in w.versions : o <= v) + 1
SupportedVersion(w, v) == v = Current(w) \/ v \in w.versions
\* The operation's response as it was declared: one success schema, itself or a list of it.
SuccessSchema(declared) == LET ok == {s \in DOMAIN declared : s \in 200 .. 299} IN IF Cardinality(ok) = 1 THEN declared[CHOOSE s \in ok : TRUE] ELSE None
UnwrapResponse(w) == LET s == SuccessSchema(w.declared) IN IF Has(s) /\ s.kind \in {"model", "list"} THEN s ELSE None
\* An object is the set of fields it has; a version is the set of fields it needs and keeps.
Downgrades(w, v, item) == w.shapes[v] \subseteq item.fields
Downgrade(w, v, item) == [item EXCEPT !.fields = w.shapes[v]]
StaysAsItIs(w, v, many, resp) == resp.streaming \/ ~Success(resp) \/ resp.body = None \/ many # resp.body.list \/ ~Downgrades(w, v, resp.body)
ReshapeLosingStatus(w, v, many, resp) ==  \* mutant: the downgraded answer is always a 200
  IF StaysAsItIs(w, v, many, resp) THEN resp ELSE [Response(200, Downgrade(w, v, resp.body)) EXCEPT !.headers = Keep(resp, {"vary"})]
Reshape(w, v, many, resp) ==
  IF StaysAsItIs(w, v, many, resp) THEN resp
  ELSE [Response(resp.status, Downgrade(w, v, resp.body)) EXCEPT !.headers = Keep(resp, {"vary", "cacheControl"})]

(****************************** The middlewares ***************************)
\* The state of a request: what middlewares keep on it, and the connection's debug cursor.
Fresh(w) == [version |-> None, id |-> None, key |-> FALSE, before |-> None, cursor |-> w.cursor, bound |-> FALSE]
BodyMethods == {"POST", "PUT", "PATCH", "QUERY"}
TooLarge(w, q) == Has(q.length) /\ q.length > w.maxBytes
WrongType(w, q) == q.method \in BodyMethods /\ Has(q.type) /\ q.type \notin w.types
Exceeds(w, q) == Has(q.depth) /\ q.depth > w.maxDepth
TooDeep(w, q) == q.method \in BodyMethods /\ q.type = "json" /\ Exceeds(w, q)
UnknownVersion(w, q) == Has(q.accept) /\ ~SupportedVersion(w, q.accept)
CacheHeaders(resp) == Absent(Absent(resp, "vary", "Accept-Language"), "cacheControl", "public")
CacheHit(w) == With(CacheHeaders(Response(w.cached.status, w.cached.body)), "hit", TRUE)
\* What a middleware answers before the operation is called, if it does; and what it keeps.
Enter(m, w, q) ==
  CASE m = "size" /\ TooLarge(w, q) -> {Rejected(w, 413, "request_too_large")}
    [] m = "type" /\ WrongType(w, q) -> {Rejected(w, 415, "unsupported_media_type")}
    [] m = "depth" /\ TooDeep(w, q) -> {Rejected(w, 400, "json_too_deep")}
    [] m = "version" /\ UnknownVersion(w, q) -> {Rejected(w, 406, "unsupported_api_version")}
    [] m = "cache" /\ q.method \in Safe /\ Has(w.cached) -> {CacheHit(w)}
    [] OTHER -> {}
AskedVersion(w, q) == IF Has(q.accept) THEN q.accept ELSE Current(w)
Keeps(m, w, q, s) ==
  CASE m = "version" /\ ~UnknownVersion(w, q) -> [s EXCEPT !.version = AskedVersion(w, q)]
    [] m = "id" -> [s EXCEPT !.id = IF Has(q.id) THEN q.id ELSE "generated"]
    [] m = "explain" /\ w.explain -> [s EXCEPT !.before = s.cursor, !.cursor = TRUE]
    [] OTHER -> s
\* The way out, by middleware.
Tightest(limits) == CHOOSE l \in limits : \A o \in limits : l.remaining < o.remaining \/ (l.remaining = o.remaining /\ l.reset <= o.reset)
RateLimited(w, resp) == IF w.limits = {} THEN resp ELSE With(resp, "limits", Tightest(w.limits))
Versioned(w, s, resp) ==
  LET info == IF s.bound THEN UnwrapResponse(w) ELSE None
  IN Absent(IF s.version # Current(w) /\ Has(info) THEN Reshape(w, s.version, info.kind = "list", resp) ELSE resp, "version", s.version)
Paginated(w, resp) == IF Has(w.page) THEN Absent(Absent(resp, "count", w.page.count), "links", w.page.links) ELSE resp
Cacheable == {200, 203, 300, 301, 404, 410}
Cached(q, resp) == IF q.method \in Safe /\ ~Has(resp.headers.hit) /\ ~resp.streaming /\ resp.status \in Cacheable THEN CacheHeaders(resp) ELSE resp
Leave(m, w, q, s, resp) ==
  CASE m = "version" /\ Has(s.version) -> Versioned(w, s, resp)
    [] m = "id" -> Absent(resp, "id", s.id)
    [] m = "limits" -> RateLimited(w, resp)
    [] m = "pages" -> Paginated(w, resp)
    [] m = "cache" -> Cached(q, resp)
    [] m = "explain" /\ Has(s.before) -> Absent(resp, "queries", 1)
    [] OTHER -> resp
RestoresOnSuccess(m, s, failed) ==  \* mutant: a failed operation leaves the debug cursor on
  IF m = "explain" /\ Has(s.before) /\ ~failed THEN [s EXCEPT !.cursor = s.before, !.before = None] ELSE s
Restores(m, s, failed) == IF m = "explain" /\ Has(s.before) THEN [s EXCEPT !.cursor = s.before, !.before = None] ELSE s

(******************************* A request ********************************)
\* middleware_decorator(): the first that answers stops the way in, every one entered sees
\* the response or the failure on the way out, innermost first.
Answering(stack, w, q) == {i \in DOMAIN stack : Enter(stack[i], w, q) # {}}
Entered(stack, w, q) == LET stops == Answering(stack, w, q)
                        IN IF stops = {} THEN Len(stack) ELSE CHOOSE i \in stops : \A j \in stops : i <= j
StatesIn(stack, w, q) ==
  LET state[i \in 0 .. Entered(stack, w, q)] == IF i = 0 THEN Fresh(w) ELSE Keeps(stack[i], w, q, state[i - 1])
  IN state
StateIn(stack, w, q) == StatesIn(stack, w, q)[Entered(stack, w, q)]
View(w, q) == IF w.outcome.kind = "error" THEN RenderBody(w, w.outcome.error)
              ELSE LET r == [Response(w.outcome.status, w.outcome.body) EXCEPT !.streaming = w.outcome.kind = "stream"]
                   IN IF w.conditional THEN Finalize(w, q, r) ELSE r
\* What one middleware does on the way out; answers holds the response, or nothing after a crash.
Left(m, w, q, at) == [state |-> Restores(m, at.state, at.answers = {}),
                      answers |-> {Leave(m, w, q, at.state, resp) : resp \in at.answers}]
Out(stack, w, q, n, start) ==
  LET at[j \in 0 .. n] == IF j = 0 THEN start ELSE Left(stack[n + 1 - j], w, q, at[j - 1])
  IN at
\* A crash is an exception nobody maps: it passes through every middleware that was entered.
Crashes(w) == w.outcome.kind = "error" /\ ~OwnError(w.outcome.error)
Called(stack, w, q) == Answering(stack, w, q) = {}
Turned(stack, w, q) ==
  [state |-> [StateIn(stack, w, q) EXCEPT !.bound = Called(stack, w, q)],
   answers |-> IF ~Called(stack, w, q) THEN Enter(stack[Entered(stack, w, q)], w, q) ELSE IF Crashes(w) THEN {} ELSE {View(w, q)}]
Serve(stack, w, q) == LET n == Entered(stack, w, q) IN Out(stack, w, q, n, Turned(stack, w, q))[n]

\* What is asked: a stack with each middleware at most once, and an operation that declares
\* the versions its middleware knows.
IsCase(k) ==
  /\ k.stack \in Seq(STRING) /\ \A i, j \in DOMAIN k.stack : k.stack[i] = k.stack[j] => i = j
  /\ DOMAIN k.world = {"problem", "versions", "shapes", "declared", "outcome", "maxBytes", "types", "maxDepth", "cursor", "explain",
                       "conditional", "fromBody", "remembered", "limits", "page", "cached"}
  /\ DOMAIN k.q = {"method", "length", "type", "depth", "accept", "ifNoneMatch", "id"}
  /\ IsFiniteSet(k.world.versions) /\ k.world.versions \subseteq Nat /\ k.world.cursor \in BOOLEAN
  /\ k.world.outcome.kind = "error" => k.world.outcome.error.status \notin 200 .. 299
  /\ (k.world.outcome.kind # "error" /\ k.world.outcome.body # None) => DOMAIN k.world.outcome.body = {"fields", "list"}

(******************************* Properties *******************************)
\* Nothing runs for a request that is refused, a request is left without an answer only by an
\* operation that crashes, a response keeps the status, the id and the refusals of the stack
\* whatever older shape is asked for, and the debug cursor is left as it was found, also when the
\* operation crashes (hardening.py:43-123, middleware.py:122-149, versioning.py:92-122, explain.py:48-78).
StackIsTransparent(k) ==
  LET r == Serve(k.stack, k.world, k.q)
      called == Called(k.stack, k.world, k.q)
      simple == [k.q EXCEPT !.accept = None]
      plain == [k.world EXCEPT !.explain = FALSE]
      Asks(m) == \E i \in DOMAIN k.stack : k.stack[i] = m
      unknown == Asks("version") /\ UnknownVersion(k.world, k.q)
  IN /\ r.state.cursor = k.world.cursor
     /\ unknown => ~called
     /\ r.answers = {} => called /\ Crashes(k.world)
     /\ \A answer \in r.answers :
          /\ (Asks("id") /\ k.stack[1] = "id") => answer.headers["id"] = (IF Has(k.q.id) THEN k.q.id ELSE "generated")
          /\ \/ unknown /\ answer.status = 406
             \/ /\ called = Called(k.stack, plain, simple)
                /\ \E p \in Serve(k.stack, plain, simple).answers : p.status = answer.status
\* What is served as an older version has that version's shape; a current request, an error, a
\* stream and an answer that does not have the shape are served as they were; a 304 that the
\* operation did not answer itself is only sent for the tag of the body it stands for
\* (versioning.py:136-169, conditional.py:155-176).
VersionsAndTags(k) ==
  LET was == View(k.world, k.q)
      asDeclared == UnwrapResponse(k.world)
      older == Success(was) /\ ~was.streaming /\ Has(asDeclared)
      own == IF k.world.outcome.kind = "error" THEN k.world.outcome.error.status ELSE k.world.outcome.status
  IN Called(k.stack, k.world, k.q) => \A answer \in Serve(k.stack, k.world, k.q).answers :
       LET version == answer.headers["version"]
           etag == answer.headers["etag"]
       IN /\ (answer.status = 304 /\ own # 304) =>
               /\ k.world.conditional /\ k.q.method \in Safe
               /\ etag = (IF Has(k.world.remembered) THEN k.world.remembered ELSE EntityTag(k.world.outcome.body, TRUE))
               /\ (k.q.ifNoneMatch.any \/ k.q.ifNoneMatch.of = etag.of)
          /\ answer.body # was.body =>
               older /\ version \in k.world.versions /\ answer.body.fields = k.world.shapes[version] /\ answer.status = was.status
          /\ (version \in k.world.versions /\ older /\ was.body # None) =>
               \/ answer.body.fields = k.world.shapes[version]
               \/ ~Downgrades(k.world, version, was.body) \/ was.body.list # (asDeclared.kind = "list")
=============================================================================
