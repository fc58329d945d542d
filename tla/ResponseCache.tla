--------------------------- MODULE ResponseCache ---------------------------
(***************************************************************************)
(* http/cache.py: whole responses kept under a key that holds a version,   *)
(* and invalidate_cache(), which changes the version after a write.  The   *)
(* cache may drop anything at any time, the version too.  A response is    *)
(* the number of writes its handler saw committed.                         *)
(***************************************************************************)
EXTENDS Integers
CONSTANTS Requests, Writers, EarliestTime, LatestTime
VARIABLES data, version, entries, pc, key, answer, step, written, invalidated, since, now, used, returned
vars == <<data, version, entries, pc, key, answer, step, written, invalidated, since, now, used, returned>>
\* invalidated: the last write whose invalidation took effect; since[r] and an entry's
\* since: what invalidated was when the request that serves or stored it read the version.
\* used: the versions some key was built from; returned: those of them that came back,
\* because a read found the version lost, or because two versions fell in one second.

Lost == 0   \* no version is in the cache
Init ==
  /\ data = 0 /\ version = Lost /\ entries = {} /\ invalidated = 0
  /\ now = EarliestTime /\ used = {} /\ returned = {}
  /\ pc = [p \in Requests |-> "start"]
  /\ key = [r \in Requests |-> 0]
  /\ answer = [r \in Requests |-> 0]
  /\ since = [r \in Requests |-> 0]
  /\ step = [w \in Writers |-> "write"]
  /\ written = [w \in Writers |-> 0]

\* process_request(): the key is built from the version, then looked up.  get_or_set() begins
\* again with 1 when there is none.
Found == IF version = Lost THEN 1 ELSE version
ReadVersion(r) ==
  /\ pc[r] = "start"
  /\ pc' = [pc EXCEPT ![r] = "lookup"]
  /\ version' = Found
  /\ key' = [key EXCEPT ![r] = Found]
  /\ since' = [since EXCEPT ![r] = invalidated]
  /\ used' = used \cup {Found}
  /\ returned' = IF version = Lost THEN returned \cup used ELSE returned
  /\ UNCHANGED <<data, entries, answer, step, written, invalidated, now>>

Hit(r) ==
  /\ pc[r] = "lookup"
  /\ \E e \in entries :
       /\ e.version = key[r]
       /\ answer' = [answer EXCEPT ![r] = e.value]
  /\ pc' = [pc EXCEPT ![r] = "served"]
  /\ UNCHANGED <<data, version, entries, key, step, written, invalidated, since, now, used, returned>>

Miss(r) ==
  /\ pc[r] = "lookup"
  /\ \A e \in entries : e.version # key[r]
  /\ pc' = [pc EXCEPT ![r] = "handler"]
  /\ UNCHANGED <<data, version, entries, key, answer, step, written, invalidated, since, now, used, returned>>

Handle(r) ==
  /\ pc[r] = "handler"
  /\ answer' = [answer EXCEPT ![r] = data]
  /\ pc' = [pc EXCEPT ![r] = "handled"]
  /\ UNCHANGED <<data, version, entries, key, step, written, invalidated, since, now, used, returned>>

\* process_response() stores under the key of process_request(), whatever happened since.
StoreKeyNow(r) == Found
StoreKey(r) == key[r]
Store(r) ==
  /\ pc[r] = "handled"
  /\ entries' = {e \in entries : e.version # StoreKey(r)}
                  \cup {[version |-> StoreKey(r), value |-> answer[r], since |-> since[r]]}
  /\ pc' = [pc EXCEPT ![r] = "served"]
  /\ UNCHANGED <<data, version, key, answer, step, written, invalidated, since, now, used, returned>>

\* A streaming response, or one of another status, is sent and not stored.
Pass(r) ==
  /\ pc[r] = "handled"
  /\ pc' = [pc EXCEPT ![r] = "served"]
  /\ UNCHANGED <<data, version, entries, key, answer, step, written, invalidated, since, now, used, returned>>

\* A response expires or is evicted.
Expire ==
  /\ \E e \in entries : entries' = entries \ {e}
  /\ UNCHANGED <<data, version, pc, key, answer, step, written, invalidated, since, now, used, returned>>

\* The version has no timeout, but is evicted, or flushed, like everything else.
Lose ==
  /\ version # Lost
  /\ version' = Lost
  /\ UNCHANGED <<data, entries, pc, key, answer, step, written, invalidated, since, now, used, returned>>

Tick ==
  /\ now < LatestTime
  /\ now' = now + 1
  /\ UNCHANGED <<data, version, entries, pc, key, answer, step, written, invalidated, since, used, returned>>

Commit(w) ==
  /\ step[w] = "write"
  /\ data' = data + 1
  /\ written' = [written EXCEPT ![w] = data + 1]
  /\ step' = [step EXCEPT ![w] = "incr"]
  /\ UNCHANGED <<version, entries, pc, key, answer, invalidated, since, now, used, returned>>

\* Invalidations may end in another order than their writes.
Invalidated(w) ==
  /\ invalidated' = IF written[w] > invalidated THEN written[w] ELSE invalidated
  /\ step' = [step EXCEPT ![w] = "done"]

\* invalidate_cache(): one atomic increment ...
Increment(w) ==
  /\ step[w] = "incr" /\ version # Lost
  /\ version' = version + 1
  /\ Invalidated(w)
  /\ UNCHANGED <<data, entries, pc, key, answer, written, since, now, used, returned>>

\* ... which raises ValueError when there is no version; by the time another is set,
\* somebody else may have set or read one.
NoVersion(w) ==
  /\ step[w] = "incr" /\ version = Lost
  /\ step' = [step EXCEPT ![w] = "set"]
  /\ UNCHANGED <<data, version, entries, pc, key, answer, written, invalidated, since, now, used, returned>>

AnotherIsOne == 1   \* mutant: begin again, as a read does
Another == now
Renew(w) ==
  /\ step[w] = "set"
  /\ version' = Another
  /\ returned' = returned \cup {v \in used : v >= now}
  /\ Invalidated(w)
  /\ UNCHANGED <<data, entries, pc, key, answer, written, since, now, used>>

Next ==
  \/ \E r \in Requests : ReadVersion(r) \/ Hit(r) \/ Miss(r) \/ Handle(r) \/ Store(r) \/ Pass(r)
  \/ \E w \in Writers : Commit(w) \/ Increment(w) \/ NoVersion(w) \/ Renew(w)
  \/ Expire \/ Lose \/ Tick
Spec == Init /\ [][Next]_vars

\* cache.py:9 "Invalidate every cached response sharing a prefix": a request that begins
\* after an invalidation is never answered with what was true before the invalidated write,
\* also when a slower request stores its older answer in between, and when the invalidation
\* found the version evicted (cache.py:49).  Excepted are the versions that came back: a read
\* that finds the version evicted makes it 1 again, and the time is no newer than a version
\* set, or counted up to, in the same second.
InvalidatedIsGone == \A r \in Requests : pc[r] = "served" /\ key[r] \notin returned => answer[r] >= since[r]
=============================================================================
