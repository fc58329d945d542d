------------------------------ MODULE Decisions ------------------------------
(***************************************************************************)
(* The decisions of the library that are functions of what they are asked: *)
(* a topic is chosen, a question is asked and answered, and so on.  The    *)
(* questions of a topic are a constant, family by family; MCDecisions      *)
(* enumerates some, of these topics and of its own, and DecisionsProofs    *)
(* takes them all.                                                         *)
(***************************************************************************)
EXTENDS Integers, Sequences, FiniteSets
CONSTANTS None, Topics, Questions(_),
          KnownUsers,   \* the users of Permissions, by name
          Members,      \* the users of Sharing, by name
          GroupNames    \* the groups of Sharing
VARIABLES topic, case

P == INSTANCE Permissions WITH Users <- KnownUsers, Unset <- "unset"
H == INSTANCE Sharing WITH Users <- Members, Groups <- GroupNames
B == INSTANCE BulkWrites
O == INSTANCE Resources
E == INSTANCE WebhookTransport
N == INSTANCE Registration
K == INSTANCE Clients
S == INSTANCE Schemas
R == INSTANCE Routing
V == INSTANCE Responses

\* None is no value of the program; names are strings, and no user is called None.  The literals
\* are named because the proofs look at them one by one.
Literals == {"msg", "IsAuthenticated", "IsAuthenticatedOrReadOnly"} \cup B!Failures \cup P!Codes
ASSUME NoneIsNothing ==
  /\ None \notin STRING \cup Literals /\ None \notin Int \cup BOOLEAN
  /\ None \notin P!Objects /\ None \notin O!Rows /\ None \notin E!Messages /\ None \notin E!Signatures /\ None \notin K!Keys
ASSUME UsersAreNamed ==
  /\ DOMAIN KnownUsers \subseteq STRING \ P!Codes /\ \A u \in DOMAIN KnownUsers : KnownUsers[u] \in P!Accounts
  /\ DOMAIN Members \cup GroupNames \subseteq STRING /\ \A u \in DOMAIN Members : Members[u].active \in BOOLEAN
\* Every question is one that the program can be asked.
ASSUME QuestionsFit ==
  /\ \A family \in Questions("permissions") : \A c \in family : P!IsCase(c)
  /\ \A family \in Questions("identity") : \A c \in family : P!IsAsked(c)
  /\ \A family \in Questions("sharing") : \A c \in family : H!IsCase(c)
  /\ \A family \in Questions("bulk") : \A c \in family : B!IsCase(c)
  /\ \A family \in Questions("resources") : \A c \in family : O!IsCase(c)
  /\ \A family \in Questions("webhooks") : \A c \in family : E!IsCase(c)
  /\ \A family \in Questions("registration") : \A c \in family : N!IsCase(c)
  /\ \A family \in Questions("clients") : \A c \in family : K!IsCase(c)
  /\ \A family \in Questions("responses") : \A c \in family : K!IsAnswered(c)
  /\ \A family \in Questions("schemas") : \A c \in family : S!IsCase(c)
  /\ \A family \in Questions("routes") : \A c \in family : R!IsCase(c)
  /\ \A family \in Questions("errors") : \A c \in family : R!IsRaised(c)
  /\ \A family \in Questions("response") : \A c \in family : V!IsCase(c)

Init == topic = None /\ case = None
Choose == topic = None /\ topic' \in Topics /\ case' = None
Ask == topic # None /\ case = None /\ (\E family \in Questions(topic) : case' \in family) /\ topic' = topic
Answered == case # None /\ topic' = None /\ case' = None
Next == Choose \/ Ask \/ Answered
Spec == Init /\ [][Next]_<<topic, case>>
Asked(t) == topic = t /\ case # None

(******************************* Properties *******************************)
\* Who may do what, asked in every way the library asks it: the passes of a request, the rows of a
\* list, masked fields, the list of allowed transitions and the grants a caller gave agree, hide
\* alike, and are about one user and one tenant (security/permissions.py, _permission_eval.py,
\* security/object_permissions.py, crud/sharing.py, crud/transitions.py:100-140, security/tenancy.py).
AccessIsDecidedOnce ==
  /\ Asked("permissions") => /\ P!PermissionsDecide(case) /\ P!HiddenLooksMissing(case)
                             /\ P!VisibilityFailsClosed(case) /\ P!ListedTransitionsRun(case)
  /\ Asked("sharing") => H!SharedAsAsked(case) /\ H!GrantsAgree(case)
  /\ Asked("identity") => P!OneIdentity(case)

\* What a bulk operation or an import reports is what it left in the database, item by item,
\* wherever one of the items fails (crud/bulk.py, crud/transfer.py:238-340).
ReportsTellTheTruth == Asked("bulk") => B!ReportAgrees(case) /\ B!ToldImportIsWhole(case)

\* A write never leaves the scope of who writes: tenant, parent, owner and visible fields, on create,
\* update and restore; what is deleted is gone from every read (crud/controllers.py:299-614 and 833-946,
\* crud/nested.py, crud/soft_delete.py, serialization/visibility.py:161-197).
WritesKeepTheirScope ==
  /\ Asked("resources") => O!WritesStayInScope(case) /\ O!DeletedIsGone(case) /\ O!LookupsAreRead(case)
  /\ Asked("rendering") => O!WritesAreAllowed(case)

\* An event goes to the endpoints that subscribed to it, signed so that they can verify it, over a
\* connection to the address that was checked; a key rotation changes none of that
\* (contrib/webhooks/outbox.py:47-137 and 269-351, secrets.py, signing.py, network.py).
WebhooksArriveSafely == Asked("webhooks") => E!DeliversSafely(case) /\ E!SubscribersAreServed(case)

\* What is said of an operation is what it does: a controller that registers runs with all its options and
\* documents what it answers, the calls of a generated client arrive as they were meant and its answers have
\* the type of their status, and a schema that drift accepts takes what the model takes
\* (routing/operations.py, routing/compiler.py, codegen/, tooling/drift.py, tooling/scaffold.py).
DocumentsAgree ==
  /\ Asked("registration") => N!RegisteredRuns(case) /\ N!AnswersAreDocumented(case)
  /\ Asked("clients") => K!CallsArrive(case)
  /\ Asked("responses") => K!AnswersAreTyped(case)
  /\ Asked("schemas") => S!SchemasAgree(case)

\* A call reaches the best of the declared routes with the options it was declared with, an
\* exception gets the nearest rule's answer, and the middleware around it changes nothing but what
\* it is for (routing/controller.py, http/errors.py, http/middleware.py, http/versioning.py, http/conditional.py).
RequestsAreServed ==
  /\ Asked("routes") => R!BestRouteServes(case)
  /\ Asked("errors") => R!NearestRuleWins(case)
  /\ Asked("response") => V!StackIsTransparent(case) /\ V!VersionsAndTags(case)
=============================================================================
