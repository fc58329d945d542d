----------------------------- MODULE Throttling ----------------------------
(***************************************************************************)
(* http/throttling.py: fixed windows counted in a Django cache (add, then  *)
(* incr) or on Redis (INCR and EXPIRE NX in one transaction).  A request   *)
(* passes every throttle of its operation, each in its own steps; the time *)
(* a window begins and ends, and the time a counter expires, is the same   *)
(* clock's.  Ninja asks every throttle, also after one has refused.        *)
(***************************************************************************)
EXTENDS Integers, Sequences, FiniteSets
CONSTANTS
  Callers,    \* request -> [user, ip, tenant, apikey, keyLimit]
  Throttles,  \* sequence of [kind, scope, user, anon, duration]: limits per duration
  MaxTime, None
VARIABLES now, storage, counters, pc, at, window, hits
vars == <<now, storage, counters, pc, at, window, hits>>
Calls == DOMAIN Callers

\* RateThrottle.identify() and get_rate() of each class.
Identity(t, c) ==
  CASE t.kind = "user" -> IF c.user = None THEN None ELSE <<"user", c.user>>
    [] t.kind = "anon" -> IF c.user = None THEN <<"ip", c.ip>> ELSE None
    [] t.kind = "client" -> IF c.user = None THEN <<"ip", c.ip>> ELSE <<"user", c.user>>
    [] t.kind = "tenant" -> IF c.tenant = None THEN None ELSE <<"tenant", c.tenant>>
    [] t.kind = "apikey" -> IF c.apikey = None THEN None ELSE <<"apikey", c.apikey>>
Limit(t, c) ==
  CASE t.kind = "apikey" /\ c.apikey # None /\ c.keyLimit # None -> c.keyLimit
    [] t.kind = "client" /\ c.user = None -> t.anon
    [] OTHER -> t.user
Applies(t, c) == Identity(t, c) # None /\ Limit(t, c) # None

Current(r) == Throttles[at[r]]
\* Throttles of one scope and duration count into one key: the limit is not part of it.
Key(r) == [scope |-> Current(r).scope, who |-> Identity(Current(r), Callers[r]),
           duration |-> Current(r).duration, window |-> window[r]]
Live(k) == {c \in counters : c.key = k /\ now < c.expires}
Put(k, count, ttl) == {c \in counters : c.key # k} \cup {[key |-> k, count |-> count, expires |-> now + ttl]}
TtlShort(duration) == duration - 1
Ttl(duration) == IF storage = "redis" THEN duration ELSE duration + 1

Init ==
  /\ now = 0 /\ storage \in {"cache", "redis"} /\ counters = {} /\ hits = {}
  /\ pc = [r \in Calls |-> "ask"]
  /\ at = [r \in Calls |-> 1]
  /\ window = [r \in Calls |-> 0]

Ask(r) ==
  /\ pc[r] = "ask" /\ at[r] <= Len(Throttles)
  /\ Applies(Current(r), Callers[r])
  /\ window' = [window EXCEPT ![r] = now \div Current(r).duration]
  /\ pc' = [pc EXCEPT ![r] = IF storage = "redis" THEN "count" ELSE "add"]
  /\ UNCHANGED <<now, storage, counters, at, hits>>
Skip(r) ==
  /\ pc[r] = "ask" /\ at[r] <= Len(Throttles)
  /\ ~Applies(Current(r), Callers[r])
  /\ at' = [at EXCEPT ![r] = at[r] + 1]
  /\ UNCHANGED <<now, storage, counters, pc, window, hits>>

\* CacheThrottleStorage.hit(): add() only stores a key that is not there.
Add(r) ==
  /\ pc[r] = "add"
  /\ counters' = IF Live(Key(r)) # {} THEN counters ELSE Put(Key(r), 0, Ttl(Current(r).duration))
  /\ pc' = [pc EXCEPT ![r] = "count"]
  /\ UNCHANGED <<now, storage, at, window, hits>>

\* The count is compared with the limit and the throttle reports what is left.
Counted(r, count) ==
  /\ hits' = hits \cup {[key |-> Key(r), by |-> r, nth |-> at[r], count |-> count, when |-> now,
                         limit |-> Limit(Current(r), Callers[r]), reset |-> Key(r).duration - (now % Key(r).duration)]}
  /\ at' = [at EXCEPT ![r] = at[r] + 1]
  /\ pc' = [pc EXCEPT ![r] = "ask"]
  /\ UNCHANGED <<now, storage, window>>
Incr(r) ==
  /\ pc[r] = "count"
  /\ \E c \in Live(Key(r)) :
       /\ counters' = (counters \ {c}) \cup {[c EXCEPT !.count = c.count + 1]}
       /\ Counted(r, c.count + 1)
\* Redis makes the missing counter; the cache's incr() raises, and a set() follows.
IncrMissing(r) ==
  /\ pc[r] = "count" /\ Live(Key(r)) = {} /\ storage = "redis"
  /\ counters' = Put(Key(r), 1, Ttl(Current(r).duration))
  /\ Counted(r, 1)
IncrRaises(r) ==
  /\ pc[r] = "count" /\ Live(Key(r)) = {} /\ storage = "cache"
  /\ pc' = [pc EXCEPT ![r] = "set"]
  /\ UNCHANGED <<now, storage, counters, at, window, hits>>
SetOne(r) ==
  /\ pc[r] = "set"
  /\ counters' = Put(Key(r), 1, Ttl(Current(r).duration))
  /\ Counted(r, 1)

Tick ==
  /\ now < MaxTime
  /\ now' = now + 1
  /\ UNCHANGED <<storage, counters, pc, at, window, hits>>

Next ==
  \/ \E r \in Calls : Ask(r) \/ Skip(r) \/ Add(r) \/ Incr(r) \/ IncrMissing(r) \/ IncrRaises(r) \/ SetOne(r)
  \/ Tick
Spec == Init /\ [][Next]_vars

Hits(r) == {h \in hits : h.by = r}
Refused(r) == \E h \in Hits(r) : h.count > h.limit
Remaining(h) == IF h.limit > h.count THEN h.limit - h.count ELSE 0
\* RateLimitHeadersMiddleware reports the throttle with least left, then the nearest reset.
Tighter(g, h) == Remaining(g) < Remaining(h) \/ (Remaining(g) = Remaining(h) /\ g.reset < h.reset)
Tightest(r) == {h \in Hits(r) : \A g \in Hits(r) : ~Tighter(g, h)}

\* A hit counted while its window lasts; a request may also stall beyond the window's end.
OnTime(h) == h.when \div h.key.duration = h.key.window
\* throttling.py:19 "so limits hold across processes": of the hits of one identity that are
\* counted in their window, no more than the limit pass, and each hit that is refused comes after a
\* limit's worth of hits; what the headers report of a refused request is that nothing is left.
LimitHolds ==
  /\ \A h \in hits : Cardinality({g \in hits : g.key = h.key /\ g.nth = h.nth /\ g.limit = h.limit
                                               /\ OnTime(g) /\ g.count <= g.limit}) <= h.limit
  /\ \A h \in hits : h.count > h.limit => Cardinality({g \in hits : g.key = h.key /\ g.count < h.count}) >= h.limit
  /\ \A r \in Calls : Refused(r) => \A h \in Tightest(r) : Remaining(h) = 0
=============================================================================
