------------------------------ MODULE Services ------------------------------
(***************************************************************************)
(* The state machines that one request meets.  They share no state: a      *)
(* behaviour is one of the part chosen at its start, and every other part  *)
(* stays where it begins.  The constants of CrudWrites are those of the    *)
(* first part.                                                             *)
(***************************************************************************)
EXTENDS CrudWrites, Integers, Sequences, Functions
CONSTANTS
  Middlewares, Loggers, Hooks, RequestPlans,    \* Requests
  CacheRequests, CacheWriters, EarliestTime, LatestTime,   \* ResponseCache
  Callers, Throttles, ThrottleTime,             \* Throttling
  KeyRequests, KeyManagers, Grantable, Required, KeyTime,            \* ApiKeys
  AuditRequests, Policy, Values, Metadata, Hidden, MaxEntries,       \* AuditTrail
  Probes, Checks,                                                    \* Health
  Units, Events, Handlers, Repository, Queue, MaxSteps, MaxHandlers  \* UnitsOfWork
VARIABLE part
VARIABLES r_plan, r_phase, r_pc, r_mw, r_entered, r_told, r_counting, r_open, r_left, r_lost, r_failed, r_written, r_claim, r_answer, r_started
VARIABLES c_data, c_version, c_entries, c_pc, c_key, c_answer, c_step, c_written, c_invalidated, c_since, c_now, c_used, c_returned
VARIABLES t_now, t_storage, t_counters, t_pc, t_at, t_window, t_hits
VARIABLES k_row, k_active, k_now, k_held, k_plan, k_used, k_found, k_pc, k_replaced, k_since
VARIABLES a_row, a_log, a_changes, a_locking, a_holder, a_pc, a_instance, a_saved, a_entry
VARIABLES u_active, u_blocks, u_rows, u_hooks, u_calls, u_raising, u_handlers, u_entered, u_undone, u_written, u_published, u_told, u_dropped
VARIABLES h_workers, h_slot, h_pc, h_joined, h_results, h_doneBefore

R == INSTANCE Requests WITH Plans <- RequestPlans,
  plan <- r_plan, phase <- r_phase, pc <- r_pc, mw <- r_mw, entered <- r_entered, told <- r_told, counting <- r_counting, open <- r_open, left <- r_left, lost <- r_lost, failed <- r_failed, written <- r_written, claim <- r_claim, answer <- r_answer, started <- r_started
C == INSTANCE ResponseCache WITH Requests <- CacheRequests, Writers <- CacheWriters,
  data <- c_data, version <- c_version, entries <- c_entries, pc <- c_pc, key <- c_key, answer <- c_answer, step <- c_step, written <- c_written, invalidated <- c_invalidated, since <- c_since, now <- c_now, used <- c_used, returned <- c_returned
T == INSTANCE Throttling WITH MaxTime <- ThrottleTime,
  now <- t_now, storage <- t_storage, counters <- t_counters, pc <- t_pc, at <- t_at, window <- t_window, hits <- t_hits
K == INSTANCE ApiKeys WITH Requests <- KeyRequests, Managers <- KeyManagers, MaxTime <- KeyTime,
  row <- k_row, active <- k_active, now <- k_now, held <- k_held, plan <- k_plan, used <- k_used, found <- k_found, pc <- k_pc, replaced <- k_replaced, since <- k_since
A == INSTANCE AuditTrail WITH Requests <- AuditRequests,
  row <- a_row, log <- a_log, changes <- a_changes, locking <- a_locking, holder <- a_holder, pc <- a_pc, instance <- a_instance, saved <- a_saved, entry <- a_entry
H == INSTANCE Health WITH workers <- h_workers, slot <- h_slot, pc <- h_pc, joined <- h_joined, results <- h_results, doneBefore <- h_doneBefore
U == INSTANCE UnitsOfWork WITH active <- u_active, blocks <- u_blocks, rows <- u_rows, hooks <- u_hooks, calls <- u_calls, raising <- u_raising, handlers <- u_handlers, entered <- u_entered, undone <- u_undone, written <- u_written, published <- u_published, told <- u_told, dropped <- u_dropped

\* No hook is called what a step of the framework is called.
ASSUME RequestsAssumption ==
  /\ Middlewares \in Seq(Range(Middlewares)) /\ Hooks \in Seq(Range(Hooks)) /\ RequestPlans \subseteq R!PlanType
  /\ Range(Hooks) \cap (R!Steps \cup {"none", "replay", "body"}) = {}
\* The version of a cached response is set to a number of seconds since 1970.
ASSUME CacheAssumption == EarliestTime \in Nat \ {0} /\ LatestTime \in Nat
\* parse_rate() accepts no limit and no period below one (http/throttling.py:77).
ASSUME ThrottlesAssumption ==
  /\ None \notin Nat /\ ThrottleTime \in Nat
  /\ Throttles \in Seq(Range(Throttles))
  /\ \A t \in Range(Throttles) : /\ t.duration \in Nat \ {0}
                                /\ {t.user, t.anon} \subseteq (Nat \ {0}) \cup {None}
  /\ \A c \in Range(Callers) : c.keyLimit \in (Nat \ {0}) \cup {None}
\* The row of a key is not None.
ASSUME KeysAssumption ==
  /\ KeyTime \in Nat /\ IsFiniteSet(KeyManagers)
  /\ None \notin [secret : K!Secrets, revoked : BOOLEAN, scopes : K!ScopeSets, expires : Nat, used : Nat \cup {None}]
\* A row of an audited model is not None, whatever its columns hold.
ASSUME AuditAssumption ==
  /\ None \notin [DOMAIN Policy.kept -> Values] /\ None \notin AuditRequests
  /\ \A f \in DOMAIN Policy.kept : Policy.kept[f] \in {"plain", "redact", "exclude"}
\* None, which stands for an empty slot, is no thread's number.
ASSUME HealthAssumption == Checks \in Seq(Range(Checks)) /\ None \notin Nat

crudvars == vars
requestsvars == <<r_plan, r_phase, r_pc, r_mw, r_entered, r_told, r_counting, r_open, r_left, r_lost, r_failed, r_written, r_claim, r_answer, r_started>>
cachevars == <<c_data, c_version, c_entries, c_pc, c_key, c_answer, c_step, c_written, c_invalidated, c_since, c_now, c_used, c_returned>>
throttlevars == <<t_now, t_storage, t_counters, t_pc, t_at, t_window, t_hits>>
keysvars == <<k_row, k_active, k_now, k_held, k_plan, k_used, k_found, k_pc, k_replaced, k_since>>
auditvars == <<a_row, a_log, a_changes, a_locking, a_holder, a_pc, a_instance, a_saved, a_entry>>
healthvars == <<h_workers, h_slot, h_pc, h_joined, h_results, h_doneBefore>>
unitsvars == <<u_active, u_blocks, u_rows, u_hooks, u_calls, u_raising, u_handlers, u_entered, u_undone, u_written, u_published, u_told, u_dropped>>
allvars == <<part, crudvars, requestsvars, cachevars, throttlevars, keysvars, auditvars, healthvars, unitsvars>>

\* Where a part can begin in several ways, one is enough while another part moves.
Start ==
  /\ part \in {"crud", "requests", "cache", "throttle", "keys", "audit", "health", "units"}
  /\ Init /\ R!Init /\ C!Init /\ T!Init /\ K!Init /\ A!Init /\ H!Init /\ U!Init
  /\ part # "crud" => setup = [etag |-> TRUE, soft |-> TRUE]
  /\ part # "requests" => r_plan = [kind |-> "sync", atomic |-> TRUE, idempotent |-> TRUE, scoped |-> TRUE]
  /\ part # "throttle" => t_storage = "cache"
  /\ part # "audit" => a_locking
  /\ part # "keys" => \A r \in KeyRequests : k_used[r] = 0
Move ==
  /\ UNCHANGED part
  /\ \/ part = "crud" /\ Next /\ UNCHANGED <<requestsvars, cachevars, throttlevars, keysvars, auditvars, healthvars, unitsvars>>
     \/ part = "requests" /\ R!Next /\ UNCHANGED <<crudvars, cachevars, throttlevars, keysvars, auditvars, healthvars, unitsvars>>
     \/ part = "cache" /\ C!Next /\ UNCHANGED <<crudvars, requestsvars, throttlevars, keysvars, auditvars, healthvars, unitsvars>>
     \/ part = "throttle" /\ T!Next /\ UNCHANGED <<crudvars, requestsvars, cachevars, keysvars, auditvars, healthvars, unitsvars>>
     \/ part = "keys" /\ K!Next /\ UNCHANGED <<crudvars, requestsvars, cachevars, throttlevars, auditvars, healthvars, unitsvars>>
     \/ part = "audit" /\ A!Next /\ UNCHANGED <<crudvars, requestsvars, cachevars, throttlevars, keysvars, healthvars, unitsvars>>
     \/ part = "health" /\ H!Next /\ UNCHANGED <<crudvars, requestsvars, cachevars, throttlevars, keysvars, auditvars, unitsvars>>
     \/ part = "units" /\ U!Next /\ UNCHANGED <<crudvars, requestsvars, cachevars, throttlevars, keysvars, auditvars, healthvars>>
\* These may stop: everyone has been served.
Rest == part \in {"cache", "throttle", "keys", "audit", "health"} /\ UNCHANGED allvars
Services == Start /\ [][Move \/ Rest]_allvars

(******************************* Properties *******************************)
\* A request leaves everything it entered, whatever fails on the way: each middleware hears of its end
\* once, each manager is left once, the claim on its idempotency key is settled, and its answer tells
\* the fate of what the handler wrote (http/middleware.py:89-150, routing/invocation.py:89-190).
RequestsUnwind == R!TypeOK /\ R!MiddlewareUnwinds /\ R!WholeOrNothing /\ R!ClaimSettled /\ R!ManagersLeft
\* A request that begins after an invalidation is answered with nothing older than it, also when
\* the version was evicted, while no version that was used before comes back (http/cache.py:9,49).
InvalidatedIsGone == C!InvalidatedIsGone
\* Of the hits of one identity in a window no more than the limit pass, over all processes (http/throttling.py:19).
LimitHolds == T!LimitHolds
\* A request that begins after a revocation, or after a rotation away from its secret, is refused (contrib/apikeys/auth.py:103).
RefusedOnceReplaced == K!RefusedOnceReplaced
\* A save of a key read before brings back no secret, scope or key that is gone (contrib/apikeys/auth.py:106).
NothingComesBack == K!NothingComesBack
\* What is told of a write is what was committed, once and in order: the entries of the log follow one
\* from the other and end at what the row holds where writes lock the row they read, tell of no value
\* the row never had where they do not, and show no credential (contrib/audit/log.py:165), and
\* handlers hear of events when, and only when, the rows of their unit are kept (cqrs/events.py:52).
WhatIsToldWasDone == A!LogTellsTheRow /\ U!EventsFollowCommits
\* A check has one thread at work, and a probe never answers with news from before it (http/health.py:105).
OneWorkerAndItsNews == H!OneWorkerAndItsNews
=============================================================================
