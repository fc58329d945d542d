------------------------------- MODULE Routing -------------------------------
(***************************************************************************)
(* From the methods of a controller class to what a request reaches and    *)
(* what the OpenAPI document says of it: discovery along the class         *)
(* hierarchy, overrides of routes, the order of registration, error rules  *)
(* by layer.                                                               *)
(***************************************************************************)
EXTENDS Integers, Sequences, FiniteSets

CONSTANT None

Least(ns) == CHOOSE n \in ns : \A o \in ns : n <= o
Greatest(ns) == CHOOSE n \in ns : \A o \in ns : o <= n

(******************************* Discovery ********************************)
\* classes: name -> [bases, members]; a member is [name, specs], decorated with specs
\* [method, path] or plain (<<>>).  mro is Python's linearization, closest first.
Joined(lists) ==
  LET upTo[n \in 0 .. Len(lists)] == IF n = 0 THEN <<>> ELSE upTo[n - 1] \o lists[n] IN upTo[Len(lists)]
Visit(class, visited) ==   \* bases first, left to right, then the class's own
  Joined([i \in DOMAIN class.bases |-> visited[class.bases[i]]]) \o [i \in DOMAIN class.members |-> class.members[i].name]
\* No chain of bases is longer than the mro.
NamesIn(c) ==
  LET names[depth \in 0 .. Len(c.mro)] ==
        IF depth = 0 THEN [k \in DOMAIN c.classes |-> <<>>] ELSE [k \in DOMAIN c.classes |-> Visit(c.classes[k], names[depth - 1])]
  IN names[Len(c.mro)][c.mro[1]]
Once(names) == {n \in DOMAIN names : \A j \in 1 .. n - 1 : names[j] # names[n]}   \* a name keeps its first position
MembersIn(c, k, name) == {i \in DOMAIN c.classes[k].members : c.classes[k].members[i].name = name}
Having(c, name) == {n \in DOMAIN c.mro : MembersIn(c, c.mro[n], name) # {}}
SpecsAt(c, n, name) == LET class == c.classes[c.mro[n]] IN class.members[CHOOSE i \in MembersIn(c, c.mro[n], name) : TRUE].specs
MemberOfBase(c, name) == IF Having(c, name) = {} THEN <<>> ELSE SpecsAt(c, Greatest(Having(c, name)), name)  \* mutant: the farthest class wins
Member(c, name) == IF Having(c, name) = {} THEN <<>> ELSE SpecsAt(c, Least(Having(c, name)), name)

\* routes: name -> [enabled, path]; ModelController gives {pk} a converter when asked to.
WithConverter(c, path) == IF ~c.converter THEN path
  ELSE [i \in DOMAIN path |-> IF path[i] = [conv |-> "str", name |-> "pk"]
                              THEN [path[i] EXCEPT !.conv = c.converter_type] ELSE path[i]]
Route(c, name, spec) ==
  LET path == IF name \in DOMAIN c.routes THEN c.routes[name].path ELSE None
  IN [name |-> name, method |-> spec.method, path |-> WithConverter(c, IF path = None THEN spec.path ELSE path)]
Enabled(c, name) == name \in DOMAIN c.routes => c.routes[name].enabled
\* A route is declared at a place: that of the method's name, and its own among the method's specs.
Registrations(c) ==
  LET names == NamesIn(c)
      places == UNION {{n} \X DOMAIN Member(c, names[n]) : n \in {x \in Once(names) : Enabled(c, names[x])}}
  IN [at \in places |-> Route(c, names[at[1]], Member(c, names[at[1]])[at[2]])]

(********************************** Order *********************************)
\* A path is a sequence of segments [conv, name]: conv is "" for static text.
Rank(segment) == CASE segment.conv = "" -> 0
                   [] segment.conv \in {"str", "path"} -> 2
                   [] OTHER -> 1
Specificity(path) == [i \in DOMAIN path |-> Rank(path[i])]
\* Tuples compare as in Python: the first difference, then the length.
Below(a, b) ==
  \/ \E i \in DOMAIN a \cap DOMAIN b : a[i] < b[i] /\ \A j \in 1 .. i - 1 : a[j] = b[j]
  \/ Len(a) < Len(b) /\ \A j \in DOMAIN a : a[j] = b[j]
Earlier(a, b) == a[1] < b[1] \/ (a[1] = b[1] /\ a[2] < b[2])
BeforeByLength(regs, a, b) ==  \* mutant: shorter paths first, declaration order otherwise
  \/ Len(regs[a].path) < Len(regs[b].path)
  \/ Len(regs[a].path) = Len(regs[b].path) /\ Earlier(a, b)
Before(regs, a, b) ==
  LET Key(at) == Specificity(regs[at].path) IN Below(Key(a), Key(b)) \/ (Key(a) = Key(b) /\ Earlier(a, b))
First(regs, places) == CHOOSE a \in places : \A b \in places : b = a \/ Before(regs, a, b)

\* Ninja keeps one view per path, in the order the paths come, and Django takes the first
\* path that matches; a view without the method answers 405.
Accepts(segment, token) == CASE segment.conv = "" -> segment.name = token
                             [] segment.conv = "int" -> token \in {"1", "2"}
                             [] OTHER -> TRUE
Matches(path, url) == /\ Len(path) = Len(url)
                      /\ \A i \in DOMAIN path : Accepts(path[i], url[i])
Dispatch(regs, method, url) ==
  LET hits == {at \in DOMAIN regs : Matches(regs[at].path, url)}
      path == regs[First(regs, hits)].path
      sameView == {at \in DOMAIN regs : regs[at].path = path /\ regs[at].method = method}
  IN IF hits = {} THEN [status |-> 404, path |-> None, name |-> None]
     ELSE IF sameView = {} THEN [status |-> 405, path |-> path, name |-> None]
     ELSE [status |-> 200, path |-> path, name |-> regs[First(regs, sameView)].name]

(********************************* Errors *********************************)
\* Rules [exception, status] of Django's defaults, settings, controller and operation, in
\* this order; kinds gives the classes of an exception, closest first.
Rules(e) == e.defaults \o e.settings \o e.controller \o e.operation
Own(e, exc) == IF exc \in DOMAIN e.own THEN e.own[exc] ELSE 0   \* http_status and code
RulesOf(rules, class) == {i \in DOMAIN rules : rules[i].exception = class}
StatusFirst(rules, kinds, own) ==  \* mutant: the last rule that matches wins, whatever its class
  LET hits == UNION {RulesOf(rules, kinds[k]) : k \in DOMAIN kinds} IN IF hits # {} THEN rules[Greatest(hits)].status ELSE own
Status(rules, kinds, own) ==
  LET close == {k \in DOMAIN kinds : RulesOf(rules, kinds[k]) # {}}
  IN IF close # {} THEN rules[Greatest(RulesOf(rules, kinds[Least(close)]))].status ELSE own
RuleFor(e, exc) == Status(Rules(e), e.kinds[exc], Own(e, exc))

\* What is asked: a class hierarchy, where a class has a name once, and requests; or layers of
\* rules and one more for the operation.
Segments == [conv : STRING, name : STRING]
Specs == [method : STRING, path : Seq(Segments)]
Attributes == [name : STRING, specs : Seq(Specs)]
IsCase(c) ==
  /\ c.mro \in Seq(DOMAIN c.classes) /\ c.mro # <<>>
  /\ \A k \in DOMAIN c.classes :
       /\ c.classes[k].bases \in Seq(DOMAIN c.classes)
       /\ c.classes[k].members \in Seq(Attributes)
       /\ \A i, j \in DOMAIN c.classes[k].members : c.classes[k].members[i].name = c.classes[k].members[j].name => i = j
  /\ \A name \in DOMAIN c.routes : c.routes[name].path # None => c.routes[name].path \in Seq(Segments)
  /\ c.converter_type \in STRING /\ c.urls \subseteq Seq(STRING)
ErrorRules == [exception : STRING, status : Int]
AreRules(rules) == rules \in Seq(ErrorRules)
IsRaised(e) ==
  /\ DOMAIN e = {"defaults", "settings", "controller", "operation", "added", "kinds", "own"}
  /\ AreRules(e.defaults) /\ AreRules(e.settings) /\ AreRules(e.controller) /\ AreRules(e.operation) /\ e.added \in ErrorRules
  /\ \A exc \in DOMAIN e.kinds : LET kinds == e.kinds[exc] IN kinds \in Seq(STRING) /\ \A i, j \in DOMAIN kinds : kinds[i] = kinds[j] => i = j

(******************************* Properties *******************************)
\* A request is served by the class closest to the controller that defines the name, and no
\* route that fits the URL better segment by segment, with the method, is passed over; a
\* plain override or enabled = False takes the route away (controller.py:371-402).
Better(p, q) == /\ \A i \in DOMAIN p : Rank(p[i]) <= Rank(q[i])
                /\ \E i \in DOMAIN p : Rank(p[i]) < Rank(q[i])
BestRouteServes(c) ==
  LET regs == Registrations(c) IN \A url \in c.urls, method \in {"GET", "POST"} :
    LET s == Dispatch(regs, method, url)
        fits == {at \in DOMAIN regs : Matches(regs[at].path, url)}
    IN /\ s.status = 404 <=> fits = {}
       /\ s.status # 404 => \A at \in fits : regs[at].method = method => ~Better(regs[at].path, s.path)
       /\ s.status = 200 =>
            /\ \E at \in fits : regs[at].name = s.name /\ regs[at].method = method /\ regs[at].path = s.path
            /\ Enabled(c, s.name)
            /\ \E n \in DOMAIN c.mro :
                 /\ \A j \in 1 .. n - 1 : MembersIn(c, c.mro[j], s.name) = {}
                 /\ \E i \in MembersIn(c, c.mro[n], s.name) : \E x \in DOMAIN c.classes[c.mro[n]].members[i].specs :
                      c.classes[c.mro[n]].members[i].specs[x].method = method

\* The rule of an exception is the one of its closest class, and the nearest layer decides
\* between rules of one class: adding a rule to the operation changes nothing else.
NearestRuleWins(e) ==
  LET with == [e EXCEPT !.operation = Append(e.operation, e.added)]
  IN \A exc \in DOMAIN e.kinds : RuleFor(with, exc) # RuleFor(e, exc) =>
       /\ RuleFor(with, exc) = e.added.status
       /\ \E k \in DOMAIN e.kinds[exc] :
            /\ e.kinds[exc][k] = e.added.exception
            /\ \A j \in 1 .. k - 1, i \in DOMAIN Rules(e) : Rules(e)[i].exception # e.kinds[exc][j]
=============================================================================
