----------------------------- MODULE MCServices -----------------------------
(***************************************************************************)
(* Services on a small instance of every part.                             *)
(***************************************************************************)
EXTENDS Services, TLC
\* Three requests of any kind on one object with one row below it (the constants of
\* CrudWrites are in the .cfg).
MCMoves == [source |-> "draft", target |-> "done"]
\* Two middlewares, one of which counts queries, two hooks, every kind of operation.
MCMiddlewares == <<"id", "log">>
MCHooks == <<"audit", "timing">>
MCPlans == [kind : {"sync", "async", "generator", "agenerator"}, atomic : BOOLEAN, idempotent : BOOLEAN, scoped : BOOLEAN]
\* Ann with a session, Ann with an API key that has a limit of its own, and an anonymous
\* caller of the same tenant and address, past a throttle per client and one per tenant.
Caller(user, tenant, key, limit) == [user |-> user, ip |-> "ip", tenant |-> tenant, apikey |-> key, keyLimit |-> limit]
MCCallers == [a |-> Caller("ann", "t", None, None), b |-> Caller("ann", None, "key", 1), c |-> Caller(None, "t", None, None)]
Throttle(kind, scope, user, anon, duration) == [kind |-> kind, scope |-> scope, user |-> user, anon |-> anon, duration |-> duration]
MCThrottles == <<Throttle("client", "uploads", 1, 1, 2), Throttle("tenant", "tenant", 1, None, 3)>>
MCGrantable == {<<"orders", "read">>, <<"orders", "*">>}
MCRequired == {<<"orders", "write">>}
\* A field of each kind, and metadata with a credential below a mapping.
MCPolicy == [kept |-> [name |-> "plain", token |-> "redact", password |-> "exclude"], metadata |-> None,
             folded |-> [n \in {"API_KEY", "api_key", "tenant"} |-> IF n = "tenant" THEN n ELSE "api_key"], credentials |-> {"api_key"}]
MCMetadata == <<"tenant">> :> 1 @@ <<"tenant", "API_KEY">> :> 2
\* Units of the repository's database, one of them durable, and one of another database.
Unit(using, durable) == [using |-> using, durable |-> durable]
MCUnits == [u |-> Unit("main", FALSE), d |-> Unit("main", TRUE), o |-> Unit("other", FALSE)]
\* A thread for the database and one for the cache.
MCChecks == <<"database", "cache">>
=============================================================================
