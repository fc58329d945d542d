----------------------------- MODULE MCDecisions -----------------------------
\* Every decision of the library that is a function of its input: one question at a time.
EXTENDS Decisions

MCUsers == [ann |-> [staff |-> FALSE, super |-> FALSE, active |-> TRUE, perms |-> {"view"}, groups |-> {"team"}],
            sam |-> [staff |-> TRUE, super |-> FALSE, active |-> TRUE, perms |-> {}, groups |-> {}],
            root |-> [staff |-> FALSE, super |-> TRUE, active |-> FALSE, perms |-> {}, groups |-> {}]]
MCHolders == [ann |-> [active |-> TRUE, super |-> FALSE, groups |-> {"team"}], sam |-> [active |-> TRUE, super |-> FALSE, groups |-> {}],
              root |-> [active |-> TRUE, super |-> TRUE, groups |-> {}], gone |-> [active |-> FALSE, super |-> TRUE, groups |-> {"team"}]]
G == INSTANCE Pages
L == INSTANCE QueryPlans
D == INSTANCE OpenApiDiff
Y == INSTANCE Rendering
W == INSTANCE Wiring WITH HttpRequest <- "HttpRequest"
X == INSTANCE SystemChecks

(******************************** Permissions *****************************)
\* A tree of nodes is joined with another by moving the places that the second one names.
Negation(t) == Append(t, P!AsNode("not", <<Len(t)>>))
Moved(t, by) == [n \in DOMAIN t |-> [t[n] EXCEPT !.of = [i \in DOMAIN @ |-> @[i] + by]]]
Join(op, a, b) == Append(a \o Moved(b, Len(a)), P!AsNode(op, <<Len(a), Len(a) + Len(b)>>))
Leaves == {P!AsLeaf(x) : x \in {"IsAuthenticated", "IsStaff", "IsOwner", "ObjectPermissions"}}
Signed == Leaves \cup {Negation(l) : l \in Leaves}
Trees == Signed \cup {Join(op, a, b) : op \in {"all", "any"}, a \in Leaves, b \in Signed}
         \cup {Negation(Join(op, a, b)) : op \in {"all", "any"}, a \in {P!AsLeaf("IsStaff")}, b \in Signed}
         \cup {P!AsLeaf(x) : x \in {"AllowAny", "DenyAll", "IsReadOnly", "IsSuperuser", "DjangoModelPermissions", "HasRule", "IsAuthenticatedOrReadOnly"}}
Ctl(owned, grants, model, lists, tenants) ==
  [owned |-> owned, grants |-> grants, permissions |-> <<>>, modelPerms |-> model, hide |-> TRUE,
   filterLists |-> lists, tenants |-> tenants, scopeToOwner |-> owned]
Ctls == {Ctl(FALSE, FALSE, FALSE, FALSE, FALSE), Ctl(FALSE, TRUE, TRUE, TRUE, FALSE),
         Ctl(FALSE, TRUE, FALSE, TRUE, FALSE), Ctl(FALSE, TRUE, FALSE, FALSE, TRUE), Ctl(TRUE, FALSE, FALSE, FALSE, FALSE)}
Q(method, auth, session, lazy, tenant) ==
  [method |-> method, auth |-> auth, session |-> session, lazy |-> lazy, inLoop |-> FALSE, loaded |-> FALSE, tenant |-> tenant]
Qs == {Q("GET", None, None, FALSE, "t1"), Q("GET", None, "ann", TRUE, "t1"), Q("PUT", None, "ann", TRUE, "t1"),
       Q("PUT", "ann", None, FALSE, "t2"), Q("GET", None, "sam", FALSE, "t1"), Q("PUT", "token", None, FALSE, "t1"),
       Q("PUT", None, "root", FALSE, "t1"), Q("GET", "token", "sam", TRUE, None)}
Objs == {[owner |-> "ann", tenant |-> "t1", grants |-> g] :
         g \in {{}, {<<"team", "change">>}, {<<"sam", "view">>, <<"team", "view">>}}}
PermissionsQuestions(trees) ==
  {[ctl |-> ctl, declared |-> [how |-> how, list |-> <<t>>], q |-> q, obj |-> o] :
     ctl \in Ctls, how \in {"also", "replace"}, t \in trees, q \in Qs, o \in Objs}

(********************************* Routing ********************************)
Static(name) == [conv |-> "", name |-> name]
Pk == [conv |-> "str", name |-> "pk"]
Paths == {<<Static("bulk")>>, <<Pk>>, <<[conv |-> "int", name |-> "n"]>>, <<Pk, Static("me")>>, <<Static("bulk"), Pk>>}
RouteSpec(method, path) == [method |-> method, path |-> path]
Member(name, specs) == [name |-> name, specs |-> specs]
\* A(B, C), B(D), C(D): D declares two routes, B and C may override, A adds one.
Cases(p, q, r, override, enabled, converter) ==
  [classes |-> [D |-> [bases |-> <<>>, members |-> <<Member("read", <<RouteSpec("GET", p)>>), Member("act", <<RouteSpec("POST", q)>>)>>],
                B |-> [bases |-> <<"D">>, members |-> <<Member("act", override)>>],
                C |-> [bases |-> <<"D">>, members |-> <<Member("act", <<RouteSpec("GET", q), RouteSpec("POST", r)>>), Member("extra", <<RouteSpec("GET", r)>>)>>],
                A |-> [bases |-> <<"B", "C">>, members |-> <<Member("own", <<RouteSpec("POST", p)>>)>>]],
   mro |-> <<"A", "B", "C", "D">>, routes |-> [x \in {"extra"} |-> [enabled |-> enabled, path |-> None]],
   converter |-> converter, converter_type |-> "int", urls |-> UNION {[1 .. n -> {"bulk", "1", "me"}] : n \in 1 .. 2}]
RoutesQuestions(paths) ==
  {Cases(p, q, r, o, e, v) :
     p, q, r \in paths, o \in {<<>>, <<RouteSpec("GET", <<Pk>>)>>}, e, v \in BOOLEAN}
Rule(exc, status) == [exception |-> exc, status |-> status]
RuleLists == {<<>>, <<Rule("Base", 400)>>, <<Rule("Sold", 410)>>, <<Rule("Base", 402), Rule("Sold", 409)>>}
ErrorsQuestions(lists) ==
  {[defaults |-> <<Rule("Validation", 422)>>, settings |-> s, controller |-> k, operation |-> o,
       added |-> a, kinds |-> [Sold |-> <<"Sold", "Base">>, Base |-> <<"Base">>, Gone |-> <<"Gone", "Sold", "Base">>], own |-> [Sold |-> 418]] :
     s, k, o \in lists, a \in {Rule("Base", 403), Rule("Sold", 423), Rule("Gone", 404)}}

(********************************** Bulk **********************************)
Item(fails, wrote, told) == [fails |-> fails, wrote |-> wrote, told |-> told]
Items == {Item(None, TRUE, 0), Item("validation", FALSE, 2), Item("message", TRUE, 0), Item("missing", FALSE, 0),
          Item("http", FALSE, 0), Item("nested", TRUE, 0), Item("integrity", FALSE, 0), Item("schema", FALSE, 1)}
Lists == UNION {[1 .. n -> Items] : n \in 0 .. 3}
Bulk(kind, items, partial, dry, duplicates, leaves) ==
  [kind |-> kind, items |-> items, partial |-> partial, dryRun |-> dry, duplicates |-> duplicates, leavesScope |-> leaves,
   limit |-> 3, bytes |-> 1, maxBytes |-> 1, maxErrors |-> 3, unreadable |-> FALSE]
BulkQuestions(lists) ==
  {{Bulk(kind, items, partial, FALSE, duplicates, FALSE) :
      kind \in {"create", "update", "delete"}, items \in lists, partial, duplicates \in BOOLEAN},
   {Bulk("import", items, FALSE, dry, FALSE, FALSE) : items \in lists, dry \in BOOLEAN}}

(********************************* Pages **********************************)
Row(pk, prio, kind, scoped) == [pk |-> pk, prio |-> prio, kind |-> kind, text |-> kind, scoped |-> scoped]
Tables == {{Row(pk, p[pk], k[pk], pk # hidden) : pk \in 1 .. 4} : p \in {<<1, 1, 1, 1>>, <<2, 1, 2, 1>>, <<1, 2, 3, 3>>},
            k \in {<<"a", "a", "b", "b">>, <<"a", "b", "a", "c">>}, hidden \in {0, 2}}
Item2(field, desc) == [field |-> field, desc |-> desc]
Orders == {<<>>, <<Item2("prio", TRUE)>>, <<Item2(None, FALSE)>>, <<Item2("prio", FALSE), Item2("pk", TRUE)>>}
PagesQuestions(tables) ==
  {[rows |-> rows, ordering |-> o, default |-> d, meta |-> <<Item2("prio", FALSE)>>, prioGte |-> g, kinds |-> ks,
                search |-> find, searchFields |-> {"text"}, limit |-> l, defaultLimit |-> 2, maxLimit |-> 4, groupBy |-> by,
                count |-> IF l = 1 THEN "capped" ELSE IF l = 3 THEN "none" ELSE "exact", cap |-> 2] :
     rows \in tables, o, d \in Orders, g \in {None, 2}, ks \in {None, {"a", "b"}}, find \in {None, "a"}, l \in {None, 1, 3, 9}, by \in {None, "kind"}}

(********************************** Plans *********************************)
Col == [kind |-> "col", to |-> None, by |-> None]
Fk(to) == [kind |-> "fk", to |-> to, by |-> None]
Reverse(to, by) == [kind |-> "reverse", to |-> to, by |-> by]
Models == [Article |-> [title |-> Col, body |-> Col, author |-> Fk("User"), comments |-> Reverse("Comment", "article"),
                        tags |-> [kind |-> "m2m", to |-> "Tag", by |-> None]],
           User |-> [name |-> Col, team |-> Fk("Team"), articles |-> Reverse("Article", "author")],
           Team |-> [name |-> Col, lead |-> Fk("User")],
           Comment |-> [text |-> Col, author |-> Fk("User"), article |-> Fk("Article")],
           Tag |-> [name |-> Col]]
F(name, nested, expandable) == [name |-> name, nested |-> nested, expandable |-> expandable, reads |-> {}, hints |-> {}]
Resolver(name, reads, hints) == [F(name, None, FALSE) EXCEPT !.reads = reads, !.hints = hints]
Computed == {Resolver("words", {<<"body">>}, {}), Resolver("byline", {<<"author", "name">>}, {<<"author">>}),
             Resolver("voices", {<<"comments", "author", "name">>}, {<<"comments", "author">>})}
CommentComputed == {F("text", None, FALSE), Resolver("house", {<<"author", "team", "name">>}, {<<"author", "team">>})}
Worlds == {[models |-> Models,
            schemas |-> [ArticleOut |-> <<F("title", None, FALSE), F("author", user, open), F("comments", kids, wide), extra>>,
                         UserOut |-> <<F("name", None, FALSE), F("team", team, FALSE), deep>>,
                         TeamOut |-> <<F("name", None, FALSE), F("lead", lead, FALSE)>>,
                         CommentOut |-> <<F("author", user, FALSE), note>>, TagOut |-> <<F("name", None, FALSE)>>]] :
           user \in {None, "UserOut"}, team \in {None, "TeamOut"}, lead \in {None, "UserOut"}, kids \in {None, "CommentOut"},
           open, wide \in BOOLEAN, deep \in {F("name", None, FALSE), F("articles", None, FALSE)},
           extra \in Computed \cup {F("tags", "TagOut", FALSE)}, note \in CommentComputed}
ExpandRules == [filtered : BOOLEAN, ordered : BOOLEAN, limit : {None, 1, 2}]
Children == {[parent |-> i % 2, pk |-> i, rank |-> (i * 2) % 3, kept |-> i % 3 # 0] : i \in 1 .. 6}
PlanCase(w, expand, only, related, rules, children) ==
  [world |-> w, model |-> "Article", schema |-> "ArticleOut", expand |-> expand, only |-> only, related |-> related,
   seen |-> {}, rules |-> rules, children |-> children]
PlansQuestions(worlds) ==
  {{PlanCase(w, expand, only, related, {}, {}) :
      w \in worlds, expand \in SUBSET {"author", "comments"}, <<only, related>> \in {<<FALSE, {}>>, <<TRUE, {}>>, <<FALSE, {<<"tags">>}>>}},
   {PlanCase(CHOOSE w \in worlds : TRUE, {"comments"}, FALSE, {}, ExpandRules, children) : children \in SUBSET Children}}

(******************************* Documents ********************************)
Plain(type) == [ref |-> None, type |-> type, enum |-> {}, items |-> None, properties |-> [n \in {} |-> None], required |-> {}]
Ref(name) == [Plain(None) EXCEPT !.ref = name]
ListOf(item) == [Plain("array") EXCEPT !.items = item]
Object(properties, required) == [Plain("object") EXCEPT !.properties = properties, !.required = required]
Leaf(type, next) == Object([x |-> Plain(type), next |-> next], {"x"})
Nexts == {Ref("A"), Ref("B"), ListOf(Ref("A")), Plain("string"), Leaf("string", Ref("B"))}
ASchemas == {Leaf(t, n) : t \in {"string", "integer"}, n \in Nexts} \cup {Ref("B"), [Plain("string") EXCEPT !.enum = {"p", "q"}]}
BSchemas == {Object([y |-> Plain("string")], {}), Object([y |-> ListOf(Ref("A"))], {"y"}), Object([y |-> Plain("string"), z |-> Ref("B")], {"z"}),
             [Plain("string") EXCEPT !.enum = {"p"}]}
Op(params, body, answer) == [parameters |-> params, body |-> body, responses |-> [s \in {"200"} |-> answer]]
Docs == {[schemas |-> [A |-> a, B |-> b], operations |-> [o \in {"GET /a"} |-> Op(q, None, e)]] :
         a \in ASchemas, b \in BSchemas, e \in {Ref("A"), Leaf("string", Ref("A"))}, q \in {[n \in {"q"} |-> FALSE]}}
More == {[schemas |-> [A |-> Plain("string"), B |-> Plain("string")], operations |-> f] :
         f \in {[o \in ops |-> Op(q, body, Ref("A"))] : ops \in SUBSET {"GET /a", "PUT /a"}, body \in {None, Ref("B")},
               q \in {[n \in {} |-> TRUE], [n \in {"q"} |-> TRUE], [n \in {"q"} |-> FALSE]}}}
DiffQuestions(docs) == {[baseline |-> b, current |-> c] : b, c \in docs}

(********************************* Clients ********************************)
Name(wire, word, tail) == [wire |-> wire, word |-> word, tail |-> tail]
Ids == {Name("id", "id", 0), Name("x-id", "x_id", 0), Name("x_id", "x_id", 0), Name("body", "body", 0), Name("body_", "body", 1),
        Name("class", "class", 0), Name("request", "request", 0)}
Param(name, location, required) == [name |-> name, location |-> location, required |-> required]
OpOf(id, words, shared, own, body, answers) == [id |-> id, words |-> words, shared |-> shared, own |-> own, body |-> body, answers |-> answers]
Answers == {[status |-> 200, media |-> "json", schema |-> "Out"], [status |-> 200, media |-> "text", schema |-> None], [status |-> 204, media |-> None, schema |-> None],
            [status |-> 202, media |-> "json", schema |-> "Job"], [status |-> 201, media |-> None, schema |-> None], [status |-> 200, media |-> "binary", schema |-> None],
            [status |-> 200, media |-> "text/event-stream", schema |-> None], [status |-> 404, media |-> "json", schema |-> "Error"]}
Fields == {{Name("title", "title", 0), Name("copy", "copy", 0)}, {Name("copy", "copy", 0), Name("copy_", "copy", 1)},
           {Name("x-a", "x_a", 0), Name("x_a", "x_a", 0)}}
Bodies == {[w \in {} |-> None], [w \in {"copy"} |-> "null"], [w \in {"title", "copy"} |-> "1"], [w \in {"copy", "copy_"} |-> w], [w \in {"x-a"} |-> w]}
Fits(fields, media, body) == /\ media = None => DOMAIN body = {}
                             /\ DOMAIN body \subseteq {n.wire : n \in fields}
ClientsQuestions(ids) ==
  {[doc |-> [operations |-> <<OpOf("one", "get", IF form[3] THEN {Param(b, "query", TRUE)} ELSE {},
                                   {Param(a, "path", TRUE), Param(b, "query", FALSE), Param(d, form[1], FALSE)}, media, {}),
                              OpOf("two", form[2], {}, {Param(d, "query", TRUE)}, None, {})>>,
             fields |-> fields], body |-> body] :
     a, b \in ids, d \in ids \ {Name("class", "class", 0), Name("request", "request", 0)},
     form \in {<<"header", "get", TRUE>>, <<"header", "list", FALSE>>, <<"cookie", "close", FALSE>>, <<"cookie", "list", TRUE>>},
     <<fields, media, body>> \in {s \in Fields \X {None, "json", "multipart"} \X Bodies : Fits(s[1], s[2], s[3])}}
AnswersQuestions(answered) ==
  {[doc |-> [operations |-> <<OpOf("one", "get", {}, {}, None, answers)>>, fields |-> {}]] :
     answers \in SUBSET answered}

(********************************* Wiring *********************************)
Dep(key, hasDefault, annotated) == [key |-> key, hasDefault |-> hasDefault, annotated |-> annotated]
Needs(keys) == [i \in DOMAIN keys |-> Dep(keys[i], FALSE, "bare")]
Provided(factory, lifetime, kind) == [factory |-> factory, lifetime |-> lifetime, kind |-> kind]
Providings(k) == {None} \cup {Provided(k, l, "plain") : l \in {"singleton", "scoped", "transient"}}
                 \cup {Provided(k, "scoped", "asyncGenerator"), Provided(k, "singleton", "value")}
FewProvidings(k) == {None, Provided(k, "singleton", "plain"), Provided(k, "scoped", "asyncGenerator")}
Optional == {<<>>, Needs(<<"HttpRequest">>), <<Dep("HttpRequest", TRUE, "none")>>, <<Dep("C", TRUE, "none")>>, <<Dep("C", FALSE, "none")>>,
             <<Dep(None, TRUE, "union"), Dep(None, TRUE, "missing")>>, <<Dep(None, FALSE, "missing")>>}
\* The controller A needs B and C; B and C need each other, the request, or something optional.
WiringQuestions(optional) ==
  {LET given == [k \in {"A", "B", "C", "D"} |-> CASE k = "A" -> None [] k = "B" -> pb [] k = "C" -> pc [] k = "D" -> pd]
       IN [providers |-> [k \in {x \in DOMAIN given : given[x] # None} |-> given[k]], concrete |-> IF asynchronous THEN {"A", "B"} ELSE {"A", "D"}, asynchronous |-> asynchronous,
                   params |-> [k \in DOMAIN given |-> CASE k = "A" -> Needs(a) [] k = "B" -> Needs(b) [] k = "C" -> Needs(c) [] k = "D" -> d]] :
     a \in {<<"B", "C">>, <<"C", "B">>}, b \in {<<>>, <<"C">>, <<"D", "C">>, <<"HttpRequest">>}, c \in {<<>>, <<"D">>, <<"B">>},
     d \in optional,
     pb \in Providings("B"), pc \in (FewProvidings("C") \ {None}) \cup {Provided("C", "scoped", "plain")}, pd \in FewProvidings("D"), asynchronous \in BOOLEAN}

(****************************** Registration ******************************)
Perm(leaves) == {[async |-> l = "async", object |-> l = "object"] : l \in leaves}
OptionLayers == {<<>>, <<[atomic |-> TRUE, auth |-> "user"], [atomic |-> FALSE, throttle |-> "user"]>>, <<[atomic |-> TRUE], [policies |-> 1]>>,
                 <<[hooks |-> {"both"}, permissions |-> {Perm({"plain"})}], [hooks |-> {"asyncOnly"}, permissions |-> {Perm({"object"})}]>>}
OwnOptions == {[x \in {} |-> None], [atomic |-> TRUE], [policies |-> 1, atomic |-> FALSE], [permissions |-> {Perm({"plain", "async"})}, auth |-> "none"],
               [also |-> {Perm({"object"})}, policies |-> 1, document |-> FALSE], [hooks |-> {"both"}, throttle |-> "none"]}
ModelOptions == {None} \cup {[lookup |-> n # "list", parent |-> n = "list", tenant |-> t, etag |-> e, name |-> n] :
                            n \in {"list", "update"}, t \in BOOLEAN, e \in {"none", "plain", "required"}}
RegistrationQuestions(layered) ==
  {{[variants |-> variants, mode |-> mode, asyncMode |-> "async", layers |-> layers, own |-> own, container |-> container,
                singleton |-> singleton, needsArgs |-> needs, before |-> over[1], after |-> over[2], replay |-> over[3], bindings |-> bindings,
                raises |-> raises, rules |-> [e \in {"Sold"} |-> 409], methods |-> {"PUT"}, response |-> {200}, model |-> model, parameters |-> FALSE] :
     model \in (IF container = "scopes" /\ bindings = {} /\ ~needs THEN ModelOptions ELSE {None}),
     raises \in (IF layers = <<>> THEN {{}, {"Sold"}, {"Sold", "Lost"}} ELSE {{}})} :
     <<variants, mode>> \in {<<<<"sync", "async">>, "sync">>, <<<<"sync", "async">>, "auto">>, <<<<"sync", None>>, "auto">>,
     <<<<"generator", "asyncGenerator">>, "auto">>, <<<<"generator", "asyncGenerator">>, "sync">>, <<<<"async", None>>, "sync">>},
     layers \in layered, own \in OwnOptions, container \in {"none", "resolver", "scopes", "asyncOnly"},
     <<singleton, needs>> \in {<<TRUE, TRUE>>, <<TRUE, FALSE>>, <<FALSE, TRUE>>},
     over \in {<<"base", "base", "base">>, <<"sync", "sync", "sync">>, <<"async", "base", "sync">>, <<"base", "async", "base">>, <<"sync", "base", "async">>},
     bindings \in {{}, {"inject"}, {"asyncResolve"}}}

(********************************* Schemas ********************************)
Column(name, type) == [name |-> name, key |-> "", type |-> type, null |-> FALSE, blank |-> FALSE, editable |-> TRUE, auto |-> FALSE,
                       positive |-> FALSE, dbDefault |-> FALSE, default |-> None, choices |-> {}, max |-> None, ge |-> None]
Pk2 == [Column("id", "int") EXCEPT !.key = "pk"]
Tags == [Column("tags", "int") EXCEPT !.key = "m2m"]
Author == [Column("author", "int") EXCEPT !.key = "fk"]
Letters == {S!V("str", 1), S!V("str", 2)}
Columns(type) ==
  {[Column("x", type) EXCEPT !.null = n, !.blank = b, !.editable = e, !.auto = a, !.dbDefault = d, !.default = v] :
     n, b \in BOOLEAN, <<e, a>> \in {<<TRUE, FALSE>>, <<FALSE, FALSE>>, <<FALSE, TRUE>>},   \* auto_now fields are not editable
     <<d, v>> \in {<<TRUE, None>>} \cup ({FALSE} \X {None, S!V(type, 1), S!V("callable", 0)})}
Narrowed(f) ==
  {f} \cup (CASE f.type = "str" -> {[f EXCEPT !.choices = Letters], [f EXCEPT !.max = 2]}
            [] f.type = "int" -> {[f EXCEPT !.positive = TRUE], [f EXCEPT !.ge = 1, !.positive = TRUE]}
            [] OTHER -> {})
HandMade(f) == {[S!ReadAnnotation(f) EXCEPT !.type = t, !.optional = o, !.literal = l] :
                  t \in {"int", "str", "bool", "float"}, o \in BOOLEAN, l \in {{}, {S!V("str", 1)}, Letters}}
Pick(s) == {h \in s : h.literal # {} => h.type = "str"}
Columned == UNION {Narrowed(f) : f \in UNION {Columns(type) : type \in {"int", "str", "bool", "float"}}}
SchemasQuestions(fields) ==
  {{[model |-> {Pk2, Tags, Author, f}, scaffold |-> [read |-> None, write |-> IF sent THEN None ELSE {"author"}, owner |-> owner],
                auto |-> [exclude |-> IF sent THEN {} ELSE {"tags"}, readOnly |-> {"author"}, writeOnly |-> {"x"} \ (IF sent THEN {"x"} ELSE {})],
                out |-> [a \in {<<"x">>} |-> h], in |-> [a \in (IF sent THEN {<<"x">>, <<"author", "id">>} ELSE {<<"author">>}) |-> S!WriteAnnotation(f)],
                context |-> {owner} \ {None}, service |-> FALSE, customCreate |-> FALSE] :
     h \in Pick(HandMade(f)), owner \in {None, "author"}, sent \in BOOLEAN} :
     f \in fields}

(******************************** Sharing *********************************)
Doc1 == [model |-> "doc", pk |-> 1]
Note1 == [model |-> "note", pk |-> 1]
GrantRows == {H!Row(H!Permission(a, o.model), o, h) : a \in {"view"}, o \in {Doc1, Note1}, h \in {"ann", "team"}}
             \cup {H!Row(H!Permission("change", "doc"), Doc1, h) : h \in {"ann", "team"}}
Worlds2 == {[configured |-> c, grantsApp |-> TRUE, guardian |-> FALSE, authBackend |-> TRUE, rows |-> r] : c \in {None, "django"}, r \in {g \in SUBSET GrantRows : Cardinality(g) <= 3}}
SharePayloads == {[user |-> u, group |-> g, permissions |-> p] : u \in {None, "ann", "sam", "nobody"}, g \in {None, "team"},
                  p \in {{}, {H!Permission("view", None)}, {H!Permission("view", "doc"), H!Permission("change", None)}, {H!Permission("view", "note")}, {H!Permission("add", None)}}}
SharingQuestions(worlds) ==
  {[world |-> w, payload |-> p, caller |-> H!Fresh(c), obj |-> Doc1,
                ctl |-> [shareable |-> s, sharing |-> "change", scope |-> {Doc1, Note1}, mayHold |-> [h \in {"ann", "sam", "root", "gone", "team"} |-> h # "sam"]]] :
     w \in worlds, p \in SharePayloads, c \in {"ann", "sam", "root", "gone", "stranger"}, s \in {{"view"}, {"view", "change"}}}

(******************************* Responses ********************************)
Stacks == {<<"version", "cache", "id">>, <<"id", "version", "limits", "pages">>, <<"explain", "size", "version", "cache">>,
           <<"depth", "type", "explain", "version">>, <<"cache", "version", "explain">>}
Body(fields, list) == [fields |-> fields, list |-> list]
Latest(list) == Body({"id", "title", "slug"}, list)
Fails(status, code) == [kind |-> "error", error |-> [status |-> status, code |-> code, message |-> None]]
Outcomes == {[kind |-> "body", status |-> s, body |-> b] : s \in {200, 201}, b \in {Latest(TRUE), Latest(FALSE), Body({"id"}, FALSE)}}
            \cup {[kind |-> "body", status |-> 204, body |-> None], [kind |-> "stream", status |-> 200, body |-> Latest(TRUE)], Fails(404, "not_found"), Fails(None, None)}
IfNoneMatches == {None, [any |-> TRUE, of |-> None, weak |-> FALSE], [any |-> FALSE, of |-> Latest(FALSE), weak |-> TRUE]}
Declared == {[c \in {200} |-> [kind |-> "model"]], [c \in {200} |-> [kind |-> "list"]], [c \in {200, 201} |-> [kind |-> "model"]], [c \in {404} |-> [kind |-> "model"]]}
Told == {o \in Outcomes : o.kind = "body"} \X Declared \cup Outcomes \X {[c \in {200} |-> [kind |-> "model"]]}
ResponseQuestions(stacks) ==
  {{[stack |-> stack,
                q |-> [method |-> method, length |-> IF odd = "long" THEN 9 ELSE None, type |-> IF odd = "xml" THEN "xml" ELSE "json",
                       depth |-> IF odd = "deep" THEN 9 ELSE 1, accept |-> accept, ifNoneMatch |-> inm, id |-> IF flag THEN "mine" ELSE None],
                world |-> [problem |-> flag, versions |-> {1, 2}, shapes |-> <<{"id"}, {"id", "title"}>>, declared |-> declared, outcome |-> outcome,
                           maxBytes |-> 5, types |-> {"json"}, maxDepth |-> 3, cursor |-> ~flag, explain |-> TRUE, conditional |-> flag, fromBody |-> TRUE, remembered |-> None,
                           limits |-> {[remaining |-> 1, reset |-> 3], [remaining |-> 1, reset |-> 2]}, page |-> [count |-> 3, links |-> "next"],
                           cached |-> IF hit THEN [status |-> 200, body |-> Latest(FALSE)] ELSE None]] :
     inm \in (IF method = "GET" THEN IfNoneMatches ELSE {None})} :
     stack \in stacks, <<outcome, declared>> \in Told, accept \in {None, 0, 1, 2, 3},
     <<method, odd>> \in {<<"GET", "no">>, <<"POST", "no">>, <<"POST", "long">>, <<"POST", "xml">>, <<"GET", "deep">>}, flag, hit \in BOOLEAN}

(******************************** Webhooks ********************************)
Pattern(kind, words) == [kind |-> kind, words |-> words]
Subscriptions == {{}, {Pattern("all", <<>>)}, {Pattern("exact", <<"a", "b">>)}, {Pattern("below", <<"a">>)}, {Pattern("below", <<"c">>), Pattern("exact", <<"a">>)}}
Url(scheme, credentials, host, address) == [scheme |-> scheme, credentials |-> credentials, host |-> host, address |-> address]
Address(kind) == [kind |-> kind]
Urls == {Url("https", FALSE, "name", None), Url("http", FALSE, "name", None), Url("https", FALSE, "localhost", None), Url("https", TRUE, "name", None),
         Url("https", FALSE, "10.0.0.1", Address("private")), Url("https", FALSE, "9.9.9.9", Address("public")), Url("ftp", FALSE, None, None)}
Args(owner, tenant, broadcast) == [owner |-> owner, tenant |-> tenant, broadcast |-> broadcast]
AllArgs == {Args("u", "", FALSE), Args(None, "t", FALSE), Args("u", "t", FALSE), Args("v", "", FALSE), Args(None, "", TRUE), Args(None, "", FALSE), Args("u", "", TRUE)}
Policy(http, private) == [allowHttp |-> http, allowPrivate |-> private]
Hook(url, events, active, tenant) == [url |-> url, events |-> events, active |-> active, owner |-> "u", tenant |-> tenant, secret |-> None]
Delivery(e, args, type, policy, peer, answer, owner, keys, rotated, available) ==
  [endpoint |-> e, args |-> args, type |-> type, policyThen |-> Policy(TRUE, TRUE), policy |-> policy, peer |-> Address(peer), answer |-> answer, ownerNow |-> owner,
   keysThen |-> keys[1], keysBetween |-> keys[2], keysNow |-> keys[3], rotated |-> rotated, now |-> 5, available |-> available]
WebhooksQuestions(urls) ==
  {{Delivery(Hook(url, events, active, tenant), args, type, policy, peer, 302, owner, <<<<>>, None, <<>>>>, FALSE, available) :
     url \in urls, args \in AllArgs, events \in Subscriptions, active \in BOOLEAN, tenant \in {"", "t"}, type \in {<<"a", "b">>, <<"a">>},
     policy \in {Policy(FALSE, FALSE), Policy(TRUE, TRUE)}, peer \in {"public", "private"}, owner \in {"u", "v"}, available \in {None, {<<"a", "b">>}}},
   {Delivery(Hook(Url("https", FALSE, "name", None), {Pattern("all", <<>>)}, TRUE, ""), Args("u", "", FALSE), <<"a">>, Policy(FALSE, FALSE), "public",
                           answer, "u", <<then, between, now>>, rotated, None) :
     then, now \in {<<>>, <<1>>, <<2, 1>>, <<2>>}, between \in {None, <<1>>, <<2, 1>>, <<2>>}, rotated \in BOOLEAN, answer \in {None, 200, 302, 500}}}

(******************************* Resources ********************************)
Projects == [p1 |-> [org |-> "t1", lead |-> "ann"], p2 |-> [org |-> "t2", lead |-> "sam"], p3 |-> [org |-> "t1", lead |-> "sam"]]
Foreign == [title |-> "new", author |-> "sam", org |-> "t2", project |-> "p2", project_id |-> "p2", mark |-> "now", updated_by |-> "sam", bogus |-> "x"]
InputSets == {{"title"} \cup extra : extra \in {{n} : n \in DOMAIN Foreign \ {"title"}}}
Soft(kind, deleted, active) == [kind |-> kind, deleted |-> deleted, active |-> active]
Softs == {None, Soft("datetime", "infer", "infer"), Soft("boolean", "infer", "infer"), Soft("boolean", "false", "infer"), Soft("boolean", "infer", "true"),
          Soft("other", "now", "null"), Soft("other", "now", "infer")}
Stored(author, org, project, mark) == [title |-> "old", author |-> author, org |-> org, project |-> project, mark |-> mark, updated_by |-> None]
Who(user, tenant, parent) == [user |-> user, tenant |-> tenant, parent |-> parent]
Whos == {Who("ann", "t1", "p1"), Who("sam", "t2", "p2"), Who(None, "t1", "p1"), Who("ann", None, "p1"), Who("ann", "t1", "p3"), Who("ann", "t1", "p2"), Who("sam", "t1", "gone")}
Autos == {[exclude |-> {}, readOnly |-> {"author", "org", "project"}, writeOnly |-> {}], [exclude |-> {"org"}, readOnly |-> {"project"}, writeOnly |-> {"title"}],
          [exclude |-> {"mark"}, readOnly |-> {"autor"}, writeOnly |-> {}]}
Seg(name, conv, var) == [name |-> name, conv |-> conv, var |-> var]
LookupPaths == {<<>>, <<Seg("pk", "", TRUE)>>, <<Seg("slug", "", TRUE), Seg("undo", "", FALSE)>>, <<Seg("slug", "int", TRUE)>>, <<Seg("pk", "int", TRUE)>>}
Declare(owner, scoped, tenant, parent, auto, inputs, soft, hooked) ==
  [owner |-> owner, scopeToOwner |-> scoped, tenant |-> tenant, parent |-> parent, auto |-> auto, inputs |-> inputs, soft |-> soft, service |-> FALSE,
   hookCreate |-> hooked, hookUpdate |-> FALSE, operations |-> {"create", "update"}, lookupParam |-> "pk", lookupType |-> "int", converter |-> FALSE]
ResourcesQuestions(whos) ==
  {{LET d == [Declare(owner, whole, tenant, parent, shape.auto, shape.inputs, soft, form = "hooked")
                      EXCEPT !.operations = IF form \in {"create", "update"} THEN {form} ELSE @]
              active == IF soft = None \/ O!SoftResolved(soft) = None THEN "null" ELSE O!SoftResolved(soft).active
              payload == [n \in (IF O!Registered(d) /\ whole THEN O!Inputs(d) ELSE {"title"}) |->
                            IF n = "mark" /\ soft # None THEN (IF form = "both" THEN active ELSE O!SoftResolved(soft).deleted) ELSE Foreign[n]]
          IN [world |-> [projects |-> Projects], declared |-> d, request |-> q, payload |-> payload, others |-> whos,
                      row |-> Stored("ann", "t1", IF form = "both" THEN "p3" ELSE "p1", active), path |-> <<>>] :
     soft \in (IF shape.auto # None \/ shape.inputs # {"title", "mark"} THEN {None, Soft("datetime", "infer", "infer")} ELSE Softs)} :
     owner \in {None, <<"author">>, <<"project", "lead">>, <<"autor">>}, tenant \in {None, <<"org">>, <<"project", "org">>},
     parent \in {None, [field |-> "org", tenantField |-> FALSE]} \cup {[field |-> "project", tenantField |-> t] : t \in BOOLEAN},
     shape \in {[auto |-> None, inputs |-> i] : i \in InputSets} \cup {[auto |-> a, inputs |-> {}] : a \in Autos},
     q \in whos, form \in {"create", "update", "both", "hooked"}, whole \in BOOLEAN}
  \cup {{[world |-> [projects |-> Projects], request |-> Who("ann", "t1", "p1"), payload |-> [n \in {} |-> None], others |-> {}, row |-> Stored("ann", "t1", "p1", "null"),
                   path |-> path, declared |-> [Declare(None, FALSE, None, None, None, {"title"}, None, FALSE) EXCEPT !.lookupParam = name, !.converter = converter]] :
     path \in LookupPaths, name \in {"pk", "slug"}, converter \in BOOLEAN}}

(******************************** Identity ********************************)
Asking(what, how) == [what |-> what, how |-> how]
Askings == {Asking(w, h) : w \in {"user", "tenant"}, h \in {"await", "loop", "thread"}}
IdentityQuestions(askings) ==
  {[q |-> [method |-> "GET", auth |-> auth, session |-> session, lazy |-> lazy, inLoop |-> FALSE, loaded |-> FALSE, tenant |-> None],
                resolver |-> resolver, context |-> context, invocation |-> invocation, asyncContainer |-> asynchronous,
                tenantOf |-> IF lazy THEN [u \in DOMAIN MCUsers |-> tenant] ELSE None, requestTenant |-> tenant, asks |-> <<a, b>>] :
     <<auth, session>> \in {<<None, None>>, <<None, "sam">>, <<"ann", "sam">>, <<"token", None>>}, lazy \in BOOLEAN, a, b \in askings, tenant \in {None, "t1"},
     resolver \in {None, [async |-> TRUE, tenants |-> <<"t1", "t2", "t2", "t2">>], [async |-> FALSE, tenants |-> <<None, "t2", "t2", "t2">>]},
     invocation \in {"none", "bare", "resolver"}, context, asynchronous \in BOOLEAN}

(******************************* Rendering ********************************)
Shown(name, alias, rule, nested, expandable) == [name |-> name, alias |-> alias, rule |-> rule, nested |-> nested, expandable |-> expandable]
VisibilityRules == {None} \cup [who : {"staff", "owner", "either"}, hidden : {"null", "omit"}]
Thing(id, owner, author, related) == [id |-> id, owner |-> owner, values |-> [author |-> author, related |-> related]]
Askers == {None} \cup {[user |-> "ann", staff |-> FALSE], [user |-> "sam", staff |-> FALSE], [user |-> "sam", staff |-> TRUE]}
DeepRules == {None, [who |-> "staff", hidden |-> "omit"], [who |-> "owner", hidden |-> "null"]}
RenderingQuestions(askers) ==
  {{[q |-> q, byAlias |-> TRUE, sparse |-> sparse, rawFields |-> fields, rawExpand |-> expand, schema |-> "Article", object |-> object,
                schemas |-> [Article |-> [mixin |-> TRUE, fields |-> <<Shown("id", None, None, None, FALSE), Shown("title", alias, None, None, FALSE),
                                                                       Shown("secret", None, rule, None, FALSE), Shown("author", None, None, "User", open),
                                                                       Shown("related", None, None, "Article", FALSE)>>],
                             User |-> [mixin |-> mixin, fields |-> <<Shown("id", None, None, None, FALSE), Shown("secret", None, deep, None, FALSE)>>]],
                objects |-> [one |-> Thing("one", "ann", "u", "two"), two |-> Thing("two", "sam", "u", None), u |-> Thing("u", "sam", None, None)],
                input |-> {Shown("title", None, None, None, FALSE), Shown("secret", None, rule, None, FALSE), Shown("rank", None, deep, None, FALSE)},
                given |-> {"title"} \cup (IF open THEN {"secret"} ELSE {}) \cup (IF sparse THEN {"rank"} ELSE {})] :
     expand \in (IF fields = {} \/ "author" \in fields THEN {{}, {"author"}, {"id"}} ELSE {{}})} :
     rule \in VisibilityRules, deep \in DeepRules, q \in askers, open, sparse, mixin \in BOOLEAN, alias \in {None, "heading"},
     fields \in {{}, {"id", "secret"}, {"secret", "author", "related"}, {"heading"}, {"nope"}},
     object \in {"one", "two"}}

(******************************** Filters *********************************)
ColumnsOf == [title |-> [type |-> "text", null |-> FALSE], rank |-> [type |-> "int", null |-> FALSE], score |-> [type |-> "int", null |-> TRUE]]
RowsOf == {[title |-> t, rank |-> n, score |-> s] : t \in {{"a"}, {"a", "b"}, {"c"}}, n \in {1, 2}, s \in {None, 2}}
OneFilter(kind, column, type) == [kind |-> kind, column |-> column, type |-> type, suffixes |-> {"min", "max"}, choices |-> {1, 2}]
Filtersets == {None} \cup {[model |-> m[1], odd |-> m[2], filters |-> f] : m \in {<<"Article", {}>>, <<"Tag", {}>>, <<"Article", {"rank_min"}>>}, f \in
  {[rank |-> OneFilter("multi", "rank", "int"), score |-> OneFilter("exact", "score", "int")],
             [rank |-> OneFilter("multiple", "rank", "list"), title |-> OneFilter("lookup_choice", "title", "text")],
             [q |-> OneFilter("exact", "rank", "int")]}}
Sent(names) == [names -> {<<"int", 1>>, <<"int", 2>>, <<"text", {"a"}>>, <<"text", {}>>, <<"text", {"b", "icontains"}>>, <<"list", {1}>>, <<"list", {1, 7}>>, <<"bool", TRUE>>}]
Fieldsets == {<<>>, [rank |-> {"exact", "gte"}, score |-> {"isnull", "lt"}], [score |-> {"in"}], [rank |-> {"near"}], [nope |-> {"exact"}]}
Listing(search, backend, fs, fields, ordering, default, cursor) ==
  [columns |-> ColumnsOf, explicit |-> None, search |-> search, backend |-> backend, param |-> "q", fields |-> fields, filterset |-> fs,
   model |-> {"Article", "Base"}, ordering |-> ordering, default |-> default, cursor |-> cursor]
Named == {{}, {"q"}, {"rank", "score"}, {"rank__gte", "score__isnull"}, {"q", "score__in"}, {"rank_min", "rank_max"}, {"title", "title_lookup"}}
Meant(fs, names) == names # {} => (fs = None) = (names \cap {"rank_min", "title", "rank"} = {}) \/ names \in {{"q"}, {"rank", "score"}}
FiltersQuestions(filtersets) ==
  {{[c |-> Listing(search, backend, fs, fields, {}, {}, FALSE), q |-> sent, ordering |-> {}] :
      sent \in Sent(names), fields \in (IF fs = None THEN Fieldsets ELSE {<<>>, [score |-> {"in"}]})} :
     search \in {{}, {"title"}}, backend \in BOOLEAN, <<fs, names>> \in {m \in filtersets \X Named : Meant(m[1], m[2])}}
  \cup {{[c |-> Listing(search, FALSE, None, fields, ordering, default, cursor), q |-> <<>>, ordering |-> chosen] :
     search \in {{}, {"title"}, {"nope"}}, fields \in Fieldsets, ordering \in SUBSET {"rank", "score"}, cursor \in BOOLEAN,
     default \in {{}, {<<"rank", TRUE>>}, {<<"score", FALSE>>}}, chosen \in {{}, {<<"score", TRUE>>}}}}

(****************************** System checks *****************************)
MCModel == [title |-> "column", author |-> "forward", tags |-> "m2m", comments |-> "reverse", votes |-> "query", vote_set |-> "accessor",
            articles |-> "reverseM2m", shout |-> "property"]
Field(name, alias, resolved, hidden, limit, hints) ==
  [name |-> name, alias |-> alias, dotted |-> FALSE, resolved |-> resolved, hidden |-> hidden # "no", required |-> hidden # "optional", limit |-> limit, hints |-> hints]
Title == Field("title", None, FALSE, "no", None, {})
Mount(controller, container) == [controller |-> controller, container |-> container, plugins |-> {"lint"}]
Router(mount, children) == [mount |-> mount, children |-> children]
Api(routers) == [is |-> "api", routers |-> routers]
Options(is) == {[name |-> "tags", is |-> is]}
Class(library, attributes) == [library |-> library, attributes |-> attributes]
Served(name, path, async, throttles) == [name |-> name, path |-> path, async |-> async, throttles |-> throttles]
Project(f, service, listed, first) ==
  [asks |-> "project", listed |-> listed, live |-> <<Mount("b", TRUE), Mount("a", first), Mount("a", ~first)>>,
   routers |-> <<Router(None, <<2>>), Router(Mount("b", TRUE), <<3>>), Router(Mount("a", first), <<>>)>>,
   controllers |-> [a |-> [model |-> MCModel, schema |-> {Title, f}, related |-> {}, service |-> service],
                    b |-> [model |-> MCModel, schema |-> {Title}, related |-> {"author"}, service |-> {[default |-> FALSE, variadic |-> FALSE]}]]]
Controller(mro, operations, routes, throttles, middleware, allow) ==
  [asks |-> "mount", mro |-> mro, operations |-> operations, routes |-> routes, throttles |-> throttles, middleware |-> middleware, allowMixedPath |-> allow]
Below(own, mixin) == {<<Class(FALSE, own), Class(TRUE, {}), Class(FALSE, mixin)>>, <<Class(FALSE, {}), Class(FALSE, own), Class(TRUE, mixin)>>}
ChecksQuestions(names) ==
  {{Project(Field(name, alias, resolved, hidden, limit, hints), None, <<Api(<<1>>)>>, container) :
      name \in names, alias \in {None, "votes", "comments", "title"}, resolved, container \in BOOLEAN,
      hidden \in {"no", "required", "optional"}, limit \in {None, 2}, hints \in {{}, {"author", "tags"}, {"title"}, {"votes"}, {"vote_set"}}},
   {Project(Field(name, None, FALSE, "no", None, {}), service, listed, first) :
      name \in {"title", "nope"}, first \in BOOLEAN,
      service \in {None, {[default |-> FALSE, variadic |-> FALSE], [default |-> TRUE, variadic |-> FALSE]}, {[default |-> FALSE, variadic |-> TRUE]}},
      listed \in {<<>>, <<Api(<<1>>)>>, <<[is |-> "other", routers |-> <<>>], Api(<<2, 1>>), Api(<<3>>)>>, <<[is |-> "missing", routers |-> <<>>]>>}},
   {Controller(<<Class(FALSE, {}), Class(TRUE, {})>>, {Served("list", "/", FALSE, None), Served("detail", path, async, os)}, {}, ts, middleware, allow) :
      async, allow \in BOOLEAN, path \in {"/", "/{pk}"}, ts, os \in {None, {}, {"rate"}, {"other"}}, middleware \in {<<>>, <<"log", "headers">>, <<"log">>}}}
  \cup {{Controller(mro, IF n = 0 THEN {} ELSE {Served("list", "/", FALSE, None)}, routes, None, <<>>, FALSE) : mro \in Below(own, mixin)} :
     own \in {{}, Options("value"), Options("callable")}, mixin \in {{}, Options("value")}, routes \in {{}, {"list"}, {"nope"}}, n \in 0 .. 1}

(******************************* Questions ********************************)
MCQuestions(t) ==
  CASE t = "permissions" -> {PermissionsQuestions(Trees)}
    [] t = "routes" -> {RoutesQuestions(Paths)}
    [] t = "errors" -> {ErrorsQuestions(RuleLists)}
    [] t = "bulk" -> BulkQuestions(Lists)
    [] t = "pages" -> {PagesQuestions(Tables)}
    [] t = "plans" -> PlansQuestions(Worlds)
    [] t = "diff" -> {DiffQuestions(Docs), DiffQuestions(More)}
    [] t = "clients" -> {ClientsQuestions(Ids)}
    [] t = "responses" -> {AnswersQuestions(Answers)}
    [] t = "wiring" -> {WiringQuestions(Optional)}
    [] t = "registration" -> RegistrationQuestions(OptionLayers)
    [] t = "schemas" -> SchemasQuestions(Columned)
    [] t = "sharing" -> {SharingQuestions(Worlds2)}
    [] t = "response" -> ResponseQuestions(Stacks)
    [] t = "webhooks" -> WebhooksQuestions(Urls)
    [] t = "resources" -> ResourcesQuestions(Whos)
    [] t = "identity" -> {IdentityQuestions(Askings)}
    [] t = "rendering" -> RenderingQuestions(Askers)
    [] t = "filters" -> FiltersQuestions(Filtersets)
    [] t = "checks" -> ChecksQuestions(DOMAIN MCModel \cup {"nope"})

(******************************* Properties *******************************)

\* Every row of the list is shown once and only those rows, by pages, exports, counts and stats; each
\* query parameter is applied once; whatever is serialized was loaded, and is shown to those who may
\* see it (crud/controllers.py:696-786, crud/pagination.py, crud/filters.py, crud/optimization.py, serialization/visibility.py).
ReadsAreComplete ==
  /\ Asked("pages") => G!PagesCoverTheList(case) /\ G!SameRowsEverywhere(case)
  /\ Asked("filters") => /\ G!ParametersAreApplied(case.c, case.q, case.ordering, RowsOf)
                         /\ G!OrdersResolve(case.c, case.q, case.ordering, RowsOf)
  /\ Asked("plans") => L!PlanLoadsWhatIsRead(case) /\ L!RulesKeepTheFirst(case)
  /\ Asked("rendering") => Y!ResponsesShow(case)

\* What the library checks ahead works when a request comes: a dependency graph that the container's
\* check accepts resolves, whatever is asked for first and from wherever, every mounted controller is
\* looked at, one of which nothing is said serves its schema with its service, and a change of the API
\* in which nothing is reported as breaking breaks no client (dependencies/engine.py,
\* dependencies/container.py, configuration/checks.py, crud/controllers.py:500-581, tooling/openapi_diff.py).
WhatIsCheckedWorks ==
  /\ Asked("wiring") => W!CheckedGraphResolves(case, <<"A", "D", "C">>)
  /\ Asked("checks") => IF case.asks = "project" THEN X!PassedWorks(case) ELSE X!MountedAsDeclared(case)
  /\ Asked("diff") => D!BreakingIsReported(case)

\* docs/guide/crud.md:431 and transfer.py:11-14: all rows of an import are created, or none (transfer.py:284-320).
ImportIsAllOrNone == Asked("bulk") => B!ImportIsAllOrNone(case)
=============================================================================
