---------------------------- MODULE ServicesProofs ----------------------------
(***************************************************************************)
(* Proofs about the state machines of Services, each for every value of    *)
(* its constants: what holds of a part's own specification holds of it     *)
(* in Services too.                                                        *)
(***************************************************************************)
EXTENDS Services, FiniteSetTheorems, TLAPS

-----------------------------------------------------------------------------
(* Response cache: an invalidated response is gone.                        *)

CacheStages == {"start", "lookup", "handler", "handled", "served"}
CacheTypeInv ==
  /\ c_data \in Nat /\ c_version \in Nat /\ c_invalidated \in Nat /\ c_now \in Nat
  /\ c_used \subseteq Nat \ {0} /\ c_returned \subseteq Nat
  /\ c_entries \subseteq [version : Nat, value : Nat, since : Nat]
  /\ c_pc \in [CacheRequests -> CacheStages]
  /\ c_key \in [CacheRequests -> Nat] /\ c_answer \in [CacheRequests -> Nat] /\ c_since \in [CacheRequests -> Nat]
  /\ c_written \in [CacheWriters -> Nat]

\* Only committed writes are invalidated.
CacheBehind == c_invalidated <= c_data /\ \A w \in CacheWriters : c_written[w] <= c_data

CacheBegun(r) == c_pc[r] # "start"
\* A version that did not come back stands for one moment: what was invalidated when it was
\* read.  The present version is the newest of them.
CacheOfItsVersion ==
  /\ c_version # C!Lost => \A v \in c_used \ c_returned : v <= c_version
  /\ \A r \in CacheRequests : CacheBegun(r) =>
       /\ c_key[r] \in c_used
       /\ c_since[r] <= c_invalidated
       /\ c_key[r] = c_version /\ c_key[r] \notin c_returned => c_since[r] = c_invalidated
  /\ \A e \in c_entries :
       /\ e.version \in c_used
       /\ e.version = c_version /\ e.version \notin c_returned => e.since = c_invalidated
  /\ \A r \in CacheRequests : CacheBegun(r) /\ c_key[r] \notin c_returned =>
       \A e \in c_entries : e.version = c_key[r] => e.since = c_since[r]
  /\ \A r, q \in CacheRequests :
       CacheBegun(r) /\ CacheBegun(q) /\ c_key[r] = c_key[q] /\ c_key[r] \notin c_returned => c_since[r] = c_since[q]

\* Nothing older than that moment is stored or sent under the version.
CacheNoOlder ==
  /\ \A e \in c_entries : e.value >= e.since
  /\ \A r \in CacheRequests : c_pc[r] = "handled" => c_answer[r] >= c_since[r]
  /\ \A r \in CacheRequests : c_pc[r] = "served" /\ c_key[r] \notin c_returned => c_answer[r] >= c_since[r]

CacheIInv == CacheTypeInv /\ CacheBehind /\ CacheOfItsVersion /\ CacheNoOlder

LEMMA InitCache == C!Init => CacheIInv
BY CacheAssumption DEF C!Init, C!Lost, CacheIInv, CacheTypeInv, CacheStages, CacheBehind, CacheOfItsVersion, CacheBegun, CacheNoOlder

\* A request reads the version, so its moment is the present one; when there is none, every
\* version used before comes back.
LEMMA ReadVersionCache == ASSUME CacheIInv, NEW r \in CacheRequests, C!ReadVersion(r) PROVE CacheIInv'
<1>1. CacheTypeInv'  BY DEF C!ReadVersion, C!Found, C!Lost, CacheIInv, CacheTypeInv, CacheStages
<1>2. CacheBehind'  BY DEF C!ReadVersion, CacheIInv, CacheBehind
<1>3. CacheOfItsVersion'
  <2>1. CASE c_version = C!Lost
    <3>1. /\ c_version' = 1 /\ c_used' = c_used \cup {1} /\ c_returned' = c_returned \cup c_used
          /\ c_key' = [c_key EXCEPT ![r] = 1] /\ c_since' = [c_since EXCEPT ![r] = c_invalidated]
          /\ UNCHANGED <<c_entries, c_invalidated>>
      BY <2>1 DEF C!ReadVersion, C!Found
    <3>2. \A q \in CacheRequests : q # r => (CacheBegun(q)' <=> CacheBegun(q))
      BY DEF C!ReadVersion, CacheBegun, CacheIInv, CacheTypeInv
    <3>3. /\ \A q \in CacheRequests : q # r /\ CacheBegun(q) => c_key[q] \in c_used /\ c_key'[q] = c_key[q] /\ c_since'[q] = c_since[q]
          /\ \A e \in c_entries : e.version \in c_used
      BY <3>1 DEF CacheIInv, CacheTypeInv, CacheOfItsVersion
    <3>4. c_key'[r] = 1 /\ c_since'[r] = c_invalidated
      BY <3>1 DEF CacheIInv, CacheTypeInv
    <3> QED BY <3>1, <3>2, <3>3, <3>4 DEF CacheIInv, CacheTypeInv, CacheOfItsVersion
  <2>2. CASE c_version # C!Lost
    <3>1. /\ c_version' = c_version /\ c_used' = c_used \cup {c_version} /\ c_returned' = c_returned
          /\ c_key' = [c_key EXCEPT ![r] = c_version] /\ c_since' = [c_since EXCEPT ![r] = c_invalidated]
          /\ UNCHANGED <<c_entries, c_invalidated>>
      BY <2>2 DEF C!ReadVersion, C!Found
    <3>2. \A q \in CacheRequests : q # r => (CacheBegun(q)' <=> CacheBegun(q))
      BY DEF C!ReadVersion, CacheBegun, CacheIInv, CacheTypeInv
    <3>3. /\ \A q \in CacheRequests : q # r => c_key'[q] = c_key[q] /\ c_since'[q] = c_since[q]
          /\ c_key'[r] = c_version /\ c_since'[r] = c_invalidated
      BY <3>1 DEF CacheIInv, CacheTypeInv
    <3> QED BY <2>2, <3>1, <3>2, <3>3 DEF CacheIInv, CacheTypeInv, CacheOfItsVersion
  <2> QED BY <2>1, <2>2
<1>4. CacheNoOlder'  BY DEF C!ReadVersion, CacheIInv, CacheTypeInv, CacheStages, CacheNoOlder
<1>5. QED  BY <1>1, <1>2, <1>3, <1>4 DEF CacheIInv

\* A hit is an entry of the request's own version, so of the same moment.
LEMMA HitCache == ASSUME CacheIInv, NEW r \in CacheRequests, C!Hit(r) PROVE CacheIInv'
<1>1. PICK e \in c_entries : e.version = c_key[r] /\ c_answer' = [c_answer EXCEPT ![r] = e.value]  BY DEF C!Hit
<1>2. CacheTypeInv'  BY <1>1 DEF C!Hit, CacheIInv, CacheTypeInv, CacheStages
<1>3. CacheBehind' /\ CacheOfItsVersion'  BY DEF C!Hit, CacheIInv, CacheTypeInv, CacheStages, CacheBehind, CacheOfItsVersion, CacheBegun
<1>4. c_key[r] \notin c_returned => e.value >= c_since[r]
  BY <1>1 DEF C!Hit, CacheIInv, CacheTypeInv, CacheOfItsVersion, CacheBegun, CacheNoOlder
<1>5. CacheNoOlder'  BY <1>1, <1>4 DEF C!Hit, CacheIInv, CacheTypeInv, CacheStages, CacheNoOlder
<1>6. QED  BY <1>2, <1>3, <1>5 DEF CacheIInv

LEMMA MissCache == ASSUME CacheIInv, NEW r \in CacheRequests, C!Miss(r) PROVE CacheIInv'
BY DEF C!Miss, CacheIInv, CacheTypeInv, CacheStages, CacheBehind, CacheOfItsVersion, CacheBegun, CacheNoOlder

\* The handler sees every write that was invalidated when its request began.
LEMMA HandleCache == ASSUME CacheIInv, NEW r \in CacheRequests, C!Handle(r) PROVE CacheIInv'
<1>1. CacheTypeInv'  BY DEF C!Handle, CacheIInv, CacheTypeInv, CacheStages
<1>2. CacheBehind' /\ CacheOfItsVersion'  BY DEF C!Handle, CacheIInv, CacheTypeInv, CacheStages, CacheBehind, CacheOfItsVersion, CacheBegun
<1>3. c_data >= c_since[r]  BY DEF C!Handle, CacheIInv, CacheTypeInv, CacheBehind, CacheOfItsVersion, CacheBegun
<1>4. CacheNoOlder'  BY <1>3 DEF C!Handle, CacheIInv, CacheTypeInv, CacheStages, CacheNoOlder
<1>5. QED  BY <1>1, <1>2, <1>4 DEF CacheIInv

\* What is stored is no older than the moment of the version it is stored under.
LEMMA StoreCache == ASSUME CacheIInv, NEW r \in CacheRequests, C!Store(r) PROVE CacheIInv'
<1>1. CacheTypeInv'  BY DEF C!Store, C!StoreKey, CacheIInv, CacheTypeInv, CacheStages
<1>2. CacheBehind'  BY DEF C!Store, CacheIInv, CacheBehind
<1>3. CacheOfItsVersion'
  <2>1. CacheBegun(r) /\ \A q \in CacheRequests : CacheBegun(q)' <=> CacheBegun(q)  BY DEF C!Store, CacheIInv, CacheTypeInv, CacheStages, CacheBegun
  <2>2. \A e \in c_entries' : e \in c_entries \/ (e.version = c_key[r] /\ e.since = c_since[r])  BY DEF C!Store, C!StoreKey
  <2>3. QED  BY <2>1, <2>2 DEF C!Store, CacheIInv, CacheTypeInv, CacheOfItsVersion
<1>4. CacheNoOlder'
  <2>1. \A e \in c_entries' : e \in c_entries \/ (e.value = c_answer[r] /\ e.since = c_since[r])  BY DEF C!Store, C!StoreKey
  <2>2. QED  BY <2>1 DEF C!Store, CacheIInv, CacheTypeInv, CacheStages, CacheNoOlder
<1>5. QED  BY <1>1, <1>2, <1>3, <1>4 DEF CacheIInv

LEMMA PassCache == ASSUME CacheIInv, NEW r \in CacheRequests, C!Pass(r) PROVE CacheIInv'
BY DEF C!Pass, CacheIInv, CacheTypeInv, CacheStages, CacheBehind, CacheOfItsVersion, CacheBegun, CacheNoOlder

\* What the cache drops, and time: where there is no version, none is the newest.
LEMMA LoseCache == ASSUME CacheIInv, C!Expire \/ C!Lose \/ C!Tick PROVE CacheIInv'
<1>1. CASE C!Expire
  BY <1>1 DEF C!Expire, CacheIInv, CacheTypeInv, CacheStages, CacheBehind, CacheOfItsVersion, CacheBegun, CacheNoOlder
<1>2. CASE C!Lose
  <2>1. CacheTypeInv' /\ CacheBehind' /\ CacheNoOlder'
    BY <1>2 DEF C!Lose, C!Lost, CacheIInv, CacheTypeInv, CacheBehind, CacheNoOlder
  <2>2. CacheOfItsVersion'
    <3>1. \A v \in c_used : v # 0
      BY DEF CacheIInv, CacheTypeInv
    <3> QED BY <1>2, <3>1 DEF C!Lose, C!Lost, CacheIInv, CacheTypeInv, CacheOfItsVersion, CacheBegun
  <2> QED BY <2>1, <2>2 DEF CacheIInv
<1>3. CASE C!Tick
  BY <1>3 DEF C!Tick, CacheIInv, CacheTypeInv, CacheStages, CacheBehind, CacheOfItsVersion, CacheBegun, CacheNoOlder
<1> QED BY <1>1, <1>2, <1>3

LEMMA WriteCache == ASSUME CacheIInv, NEW w \in CacheWriters, C!Commit(w) \/ C!NoVersion(w) PROVE CacheIInv'
<1>1. CASE C!Commit(w)
  BY <1>1 DEF C!Commit, CacheIInv, CacheTypeInv, CacheStages, CacheBehind, CacheOfItsVersion, CacheBegun, CacheNoOlder
<1>2. CASE C!NoVersion(w)
  BY <1>2 DEF C!NoVersion, CacheIInv, CacheTypeInv, CacheStages, CacheBehind, CacheOfItsVersion, CacheBegun, CacheNoOlder
<1> QED BY <1>1, <1>2

\* Every key and entry is of an older version afterwards, or of one that came back, so no
\* moment changes.
LEMMA InvalidateCache == ASSUME CacheIInv, NEW w \in CacheWriters, C!Increment(w) \/ C!Renew(w) PROVE CacheIInv'
<1>1. c_invalidated' \in Nat /\ c_invalidated <= c_invalidated' /\ c_invalidated' <= c_data
  <2>1. C!Invalidated(w)
    BY DEF C!Increment, C!Renew
  <2>2. c_written[w] \in Nat /\ c_written[w] <= c_data /\ c_invalidated \in Nat /\ c_invalidated <= c_data
    BY DEF CacheIInv, CacheTypeInv, CacheBehind
  <2> QED BY <2>1, <2>2 DEF C!Invalidated
<1>2. /\ UNCHANGED <<c_data, c_entries, c_pc, c_key, c_answer, c_written, c_since, c_now, c_used>>
      /\ c_returned \subseteq c_returned' /\ c_returned' \subseteq Nat /\ c_version' \in Nat
  <2>1. c_version \in Nat /\ c_now \in Nat /\ c_used \subseteq Nat /\ c_returned \subseteq Nat
    BY DEF CacheIInv, CacheTypeInv
  <2>2. CASE C!Increment(w)
    BY <2>1, <2>2 DEF C!Increment
  <2>3. CASE C!Renew(w)
    BY <2>1, <2>3 DEF C!Renew, C!Another
  <2> QED BY <2>2, <2>3
<1>3. c_version' \notin c_used \ c_returned' /\ \A v \in c_used \ c_returned' : v <= c_version'
  <2>1. CASE C!Increment(w)
    BY <2>1 DEF C!Increment, CacheIInv, CacheTypeInv, CacheOfItsVersion
  <2>2. CASE C!Renew(w)
    BY <2>2 DEF C!Renew, C!Another, CacheIInv, CacheTypeInv
  <2> QED BY <2>1, <2>2
<1>4. CacheTypeInv' /\ CacheBehind'
  BY <1>1, <1>2 DEF CacheIInv, CacheTypeInv, CacheBehind
<1>5. CacheOfItsVersion'
  BY <1>1, <1>2, <1>3 DEF CacheIInv, CacheTypeInv, CacheOfItsVersion, CacheBegun
<1>6. CacheNoOlder'
  BY <1>2 DEF CacheIInv, CacheTypeInv, CacheNoOlder
<1> QED BY <1>4, <1>5, <1>6 DEF CacheIInv

\* The invariant holds in every state of every behaviour.
LEMMA CacheInductive == C!Spec => []CacheIInv
<1>1. C!Init => CacheIInv  BY InitCache
<1>2. CacheIInv /\ [C!Next]_C!vars => CacheIInv'
  <2> SUFFICES ASSUME CacheIInv, [C!Next]_C!vars PROVE CacheIInv'  OBVIOUS
  <2>1. CASE C!Next
    BY <2>1, ReadVersionCache, HitCache, MissCache, HandleCache, StoreCache, PassCache, LoseCache, WriteCache, InvalidateCache DEF C!Next
  <2>2. CASE UNCHANGED C!vars
    BY <2>2 DEF C!vars, CacheIInv, CacheTypeInv, CacheBehind, CacheOfItsVersion, CacheBegun, CacheNoOlder
  <2>3. QED  BY <2>1, <2>2
<1>3. QED  BY <1>1, <1>2, PTL DEF C!Spec

\* cache.py:9: after invalidate_cache() has returned, no request is answered with older
\* data, however the stores of slower requests and the drops of entries and of the version
\* interleave with it, while its version is not one that came back.
THEOREM InvalidatedIsGoneHolds == C!Spec => []InvalidatedIsGone
<1>1. CacheIInv => InvalidatedIsGone  BY DEF CacheIInv, CacheNoOlder, InvalidatedIsGone, C!InvalidatedIsGone
<1>2. QED  BY <1>1, CacheInductive, PTL

-----------------------------------------------------------------------------
(* API keys: what was revoked or replaced is refused and does not return.  *)

KeyRow == [secret : K!Secrets, revoked : BOOLEAN, scopes : K!ScopeSets,
           expires : {KeyTime, KeyTime + 1}, used : Nat \cup {None}]
KeyStages == {"start", "find", "check", "touch", "scope", "allowed", "denied", "refused"}
KeySince == [revoked : BOOLEAN, replaced : SUBSET K!Secrets]
KeyTypes ==
  /\ k_row \in KeyRow \cup {None} /\ k_active \in BOOLEAN /\ k_now \in Nat
  /\ k_held \in [KeyManagers -> KeyRow \cup {None}] /\ k_plan \in [KeyManagers -> K!Plans \cup {None}]
  /\ k_used \in [KeyRequests -> K!Secrets]
  /\ k_found \in [KeyRequests -> [row : KeyRow, active : BOOLEAN] \cup {None}]
  /\ k_pc \in [KeyRequests -> KeyStages] /\ k_replaced \subseteq K!Secrets
  /\ k_since \in [KeyRequests -> KeySince \cup {None}]
(* The secret of the row is one that nothing took the place of.            *)
KeyIsCurrent == IF k_row = None THEN k_replaced = {} ELSE k_row.secret \notin k_replaced
(* What a request noted when it began only grows.                          *)
KeysOnlyGo ==
  \A r \in KeyRequests : k_pc[r] # "start" =>
    /\ k_since[r] \in KeySince /\ k_since[r].replaced \subseteq k_replaced
    /\ k_since[r].revoked => k_row # None /\ k_row.revoked
(* What a request found was the row at a moment after it began.            *)
FoundSince(r) ==
  /\ k_since[r].revoked => k_found[r].row.revoked
  /\ k_found[r].row.secret = k_used[r] /\ k_used[r] \notin k_since[r].replaced
KeysFound ==
  \A r \in KeyRequests :
    /\ k_pc[r] = "check" => k_found[r] = None \/ FoundSince(r)
    /\ k_pc[r] \in {"touch", "scope", "allowed", "denied"} =>
         ~k_since[r].revoked /\ k_used[r] \notin k_since[r].replaced
(* Who plans something has loaded the key, and who found the key found one *)
(* that is still there.                                                    *)
KeysHeld ==
  /\ \A m \in KeyManagers : k_plan[m] # None => k_held[m] # None /\ k_row # None
  /\ \A r \in KeyRequests : k_found[r] # None \/ k_pc[r] = "touch" => k_row # None
KeysIInv == KeyTypes /\ KeyIsCurrent /\ KeysOnlyGo /\ KeysFound /\ KeysHeld
LEMMA KeyRowIsNotNone == None \notin KeyRow
  BY KeysAssumption DEF KeyRow

LEMMA InitKeys == K!Init => KeysIInv
  BY DEF K!Init, KeysIInv, KeyTypes, KeyStages, KeyIsCurrent, KeysOnlyGo, KeysFound, KeysHeld

(* A step that leaves the requests alone: it may only add to what is gone. *)
LEMMA KeysStayFound ==
  ASSUME KeysIInv, UNCHANGED <<k_used, k_found, k_pc, k_since>>, k_replaced \subseteq k_replaced',
         k_row # None /\ k_row.revoked => k_row' # None /\ k_row'.revoked
  PROVE  KeysOnlyGo' /\ KeysFound'
  BY DEF KeysIInv, KeyTypes, KeysOnlyGo, KeysFound, FoundSince

LEMMA CreateKeys == ASSUME KeysIInv, K!Create PROVE KeysIInv'
<1>1. PICK s \in K!ScopeSets, e \in {KeyTime, KeyTime + 1} :
        k_row' = [secret |-> 0, revoked |-> FALSE, scopes |-> s, expires |-> e, used |-> None]
  BY DEF K!Create
<1>2. k_row' \in KeyRow
  <2>1. 0 \in K!Secrets
    <3>1. Cardinality(KeyManagers) \in Nat
      BY KeysAssumption, FS_CardinalityType
    <3>2. K!Cardinality(KeyManagers) = Cardinality(KeyManagers)
      BY Zenon DEF K!Cardinality, Cardinality
    <3> QED BY <3>1, <3>2 DEF K!Secrets
  <2> QED BY <1>1, <2>1 DEF KeyRow
<1> QED BY <1>2, KeysStayFound, KeyRowIsNotNone DEF K!Create, KeysIInv, KeyTypes, KeyIsCurrent, KeysHeld
(* save(update_fields=...) takes some columns from an instance.            *)
LEMMA SavedKey ==
  ASSUME KeyTypes, k_row # None, NEW i \in KeyRow, NEW columns,
         columns \subseteq {"secret", "scopes", "expires", "revoked"}
  PROVE  /\ K!Saved(i, columns) \in KeyRow
         /\ \A c \in {"secret", "revoked", "scopes", "expires", "used"} :
              K!Saved(i, columns)[c] = IF c \in columns THEN i[c] ELSE k_row[c]
<1>1. k_row \in KeyRow /\ DOMAIN k_row = {"secret", "revoked", "scopes", "expires", "used"}
  BY DEF KeyTypes, KeyRow
<1>2. K!Saved(i, columns) = [secret  |-> IF "secret" \in columns THEN i.secret ELSE k_row.secret,
                             revoked |-> IF "revoked" \in columns THEN i.revoked ELSE k_row.revoked,
                             scopes  |-> IF "scopes" \in columns THEN i.scopes ELSE k_row.scopes,
                             expires |-> IF "expires" \in columns THEN i.expires ELSE k_row.expires,
                             used    |-> IF "used" \in columns THEN i.used ELSE k_row.used]
  BY <1>1 DEF K!Saved
<1> HIDE DEF K!Saved
<1> QED BY <1>1, <1>2 DEF KeyRow

LEMMA LoadKeys == ASSUME KeysIInv, NEW m \in KeyManagers, K!Load(m) PROVE KeysIInv'
  BY KeyRowIsNotNone, KeysStayFound DEF K!Load, KeysIInv, KeyTypes, KeyIsCurrent, KeysHeld

LEMMA RevokeKeys == ASSUME KeysIInv, NEW m \in KeyManagers, K!Revoke(m) PROVE KeysIInv'
<1> DEFINE i == [k_held[m] EXCEPT !.revoked = TRUE]
<1>1. k_row # None /\ k_held[m] \in KeyRow
  BY DEF K!Revoke, KeysIInv, KeyTypes, KeysHeld
<1>2. i \in KeyRow /\ i.revoked
  BY <1>1 DEF KeyRow
<1>3. k_row' = K!Saved(i, {"revoked"})
  BY DEF K!Revoke
<1> HIDE DEF i
<1>4. k_row' \in KeyRow /\ k_row'.revoked /\ k_row'.secret = k_row.secret
  BY <1>1, <1>2, <1>3, SavedKey DEF KeysIInv
<1> QED BY <1>1, <1>4, KeysStayFound, KeyRowIsNotNone
        DEF K!Revoke, K!Finish, KeysIInv, KeyTypes, KeyIsCurrent, KeysHeld

(* A rotation takes a secret of its own and keeps the other columns.       *)
LEMMA RotatedKey ==
  ASSUME KeysIInv, NEW m \in KeyManagers, K!Rotate(m)
  PROVE  /\ k_row \in KeyRow /\ k_row # None /\ k_row' \in KeyRow
         /\ k_row'.secret \notin k_replaced \cup {k_row.secret}
         /\ k_row'.revoked = k_row.revoked
         /\ k_row'.scopes = k_row.scopes \/ k_row'.scopes = k_plan[m].scopes
<1> DEFINE p == k_plan[m]
           given == {c \in {"scopes", "expires"} : p[c] # None}
<1>1. /\ k_row # None /\ k_row \in KeyRow /\ k_held[m] \in KeyRow
      /\ p \in K!Plans
  BY DEF K!Rotate, KeysIInv, KeyTypes, KeysHeld
<1>2. PICK s \in K!Unused :
        k_row' = K!Saved([k_held[m] EXCEPT !.secret = s,
                                           !.scopes = IF "scopes" \in given THEN p.scopes ELSE @,
                                           !.expires = IF "expires" \in given THEN p.expires ELSE @],
                         {"secret"} \cup given)
  BY DEF K!Rotate
<1> DEFINE i == [k_held[m] EXCEPT !.secret = s, !.scopes = IF "scopes" \in given THEN p.scopes ELSE @,
                                  !.expires = IF "expires" \in given THEN p.expires ELSE @]
<1>3. "scopes" \in given => p.scopes \in K!ScopeSets
  BY <1>1 DEF K!Plans
<1>4. "expires" \in given => p.expires \in {KeyTime, KeyTime + 1}
  BY <1>1 DEF K!Plans
<1>5. s \in K!Secrets /\ s \notin k_replaced \cup {k_row.secret}
  BY DEF K!Unused
<1>6. i \in KeyRow /\ i.secret = s /\ ("scopes" \in given => i.scopes = p.scopes)
  BY <1>1, <1>3, <1>4, <1>5 DEF KeyRow
<1>7. given \subseteq {"scopes", "expires"}
  OBVIOUS
<1> DEFINE columns == {"secret"} \cup given
<1>8. /\ k_row' = K!Saved(i, columns)
      /\ columns \subseteq {"secret", "scopes", "expires", "revoked"}
      /\ "secret" \in columns /\ "revoked" \notin columns
      /\ "scopes" \in columns <=> "scopes" \in given
  BY <1>2, <1>7
<1> HIDE DEF i, given, columns
<1>9. /\ k_row' \in KeyRow /\ k_row'.secret = i.secret /\ k_row'.revoked = k_row.revoked
      /\ k_row'.scopes = IF "scopes" \in given THEN i.scopes ELSE k_row.scopes
  BY <1>1, <1>6, <1>8, SavedKey DEF KeysIInv
<1> QED BY <1>1, <1>5, <1>6, <1>9

LEMMA RotateKeys == ASSUME KeysIInv, NEW m \in KeyManagers, K!Rotate(m) PROVE KeysIInv'
<1>1. k_replaced' = k_replaced \cup {k_row.secret}
  BY DEF K!Rotate
<1>2. k_row.secret \in K!Secrets
  BY RotatedKey DEF KeyRow
<1> QED BY <1>1, <1>2, RotatedKey, KeysStayFound, KeyRowIsNotNone
        DEF K!Rotate, K!Finish, KeysIInv, KeyTypes, KeyIsCurrent, KeysHeld

LEMMA RotateRefusedKeys == ASSUME KeysIInv, NEW m \in KeyManagers, K!RotateRefused(m) PROVE KeysIInv'
  BY KeysStayFound DEF K!RotateRefused, K!Finish, KeysIInv, KeyTypes, KeyIsCurrent, KeysHeld

LEMMA BeginKeys == ASSUME KeysIInv, NEW r \in KeyRequests, K!Begin(r) PROVE KeysIInv'
<1> DEFINE since == [revoked |-> k_row # None /\ k_row.revoked, replaced |-> k_replaced]
<1>1. /\ since \in KeySince
      /\ since.revoked = (k_row # None /\ k_row.revoked) /\ since.replaced = k_replaced
  BY DEF KeysIInv, KeyTypes, KeyRow, KeySince
<1>2. /\ k_pc[r] = "start" /\ k_since' = [k_since EXCEPT ![r] = since]
      /\ k_pc' = [k_pc EXCEPT ![r] = "find"]
      /\ UNCHANGED <<k_row, k_active, k_now, k_held, k_plan, k_used, k_found, k_replaced>>
  BY DEF K!Begin
<1> HIDE DEF since
<1>3. KeyTypes' /\ KeyIsCurrent' /\ KeysHeld'
  BY <1>1, <1>2 DEF KeysIInv, KeyTypes, KeyStages, KeyIsCurrent, KeysHeld
<1>4. KeysOnlyGo' /\ KeysFound'
  BY <1>1, <1>2 DEF KeysIInv, KeyTypes, KeysOnlyGo, KeysFound, FoundSince
<1> QED BY <1>3, <1>4 DEF KeysIInv

(* The row is read once: it is then what every manager has left of it.     *)
LEMMA FindKeys == ASSUME KeysIInv, NEW r \in KeyRequests, K!Find(r) PROVE KeysIInv'
<1> DEFINE found == IF k_row # None /\ k_row.secret = k_used[r]
                    THEN [row |-> k_row, active |-> k_active] ELSE None
<1>1. found \in [row : KeyRow, active : BOOLEAN] \cup {None}
      /\ (found = None \/ (found.row = k_row /\ k_row # None /\ k_row.secret = k_used[r]))
  BY DEF KeysIInv, KeyTypes
<1>2. /\ k_pc[r] = "find" /\ k_found' = [k_found EXCEPT ![r] = found]
      /\ k_pc' = [k_pc EXCEPT ![r] = "check"]
      /\ UNCHANGED <<k_row, k_active, k_now, k_held, k_plan, k_used, k_replaced, k_since>>
  BY DEF K!Find
<1> HIDE DEF found
<1>3. KeyTypes' /\ KeyIsCurrent' /\ KeysOnlyGo' /\ KeysHeld'
  BY <1>1, <1>2 DEF KeysIInv, KeyTypes, KeyStages, KeyIsCurrent, KeysOnlyGo, KeysHeld
<1>4. KeysFound'
  BY <1>1, <1>2 DEF KeysIInv, KeyTypes, KeyIsCurrent, KeysOnlyGo, KeysFound, FoundSince
<1> QED BY <1>3, <1>4 DEF KeysIInv

LEMMA CheckKeys ==
  ASSUME KeysIInv, NEW r \in KeyRequests, K!Refuse(r) \/ K!Accept(r) \/ K!HasScopes(r)
  PROVE  KeysIInv'
<1>1. CASE K!Refuse(r)
  BY <1>1 DEF K!Refuse, KeysIInv, KeyTypes, KeyStages, KeyIsCurrent, KeysOnlyGo, KeysFound, FoundSince, KeysHeld
<1>2. CASE K!Accept(r)
  <2>1. k_found[r] # None /\ ~k_found[r].row.revoked /\ k_pc[r] = "check"
    BY <1>2 DEF K!Accept, K!Valid
  <2>2. k_since[r].revoked \in BOOLEAN
    BY <2>1 DEF KeysIInv, KeysOnlyGo, KeySince
  <2>3. ~k_since[r].revoked /\ k_used[r] \notin k_since[r].replaced
    BY <2>1, <2>2 DEF KeysIInv, KeysFound, FoundSince
  <2>4. PICK stage \in {"touch", "scope"} : k_pc' = [k_pc EXCEPT ![r] = stage]
    BY <1>2 DEF K!Accept
  <2>5. k_row # None
    BY <2>1 DEF KeysIInv, KeysHeld
  <2>6. UNCHANGED <<k_row, k_active, k_now, k_held, k_plan, k_used, k_found, k_replaced, k_since>>
    BY <1>2 DEF K!Accept
  <2> QED BY <2>1, <2>3, <2>4, <2>5, <2>6 DEF KeysIInv, KeyTypes, KeyStages, KeyIsCurrent, KeysOnlyGo,
                                         KeysFound, FoundSince, KeysHeld
<1>3. CASE K!HasScopes(r)
  BY <1>3 DEF K!HasScopes, KeysIInv, KeyTypes, KeyStages, KeyIsCurrent, KeysOnlyGo, KeysFound, FoundSince, KeysHeld
<1> QED BY <1>1, <1>2, <1>3

LEMMA TouchKeys == ASSUME KeysIInv, NEW r \in KeyRequests, K!Touch(r) PROVE KeysIInv'
<1>1. k_pc[r] = "touch" /\ k_row' = [k_row EXCEPT !.used = k_now]
  BY DEF K!Touch, K!Touched
<1>2. k_row # None /\ k_row \in KeyRow
  BY <1>1 DEF KeysIInv, KeyTypes, KeysHeld
<1>3. k_row' \in KeyRow /\ k_row'.secret = k_row.secret /\ k_row'.revoked = k_row.revoked
  BY <1>1, <1>2 DEF KeysIInv, KeyTypes, KeyRow
<1>4. k_row' # None /\ KeyTypes' /\ KeyIsCurrent' /\ KeysHeld'
  BY <1>2, <1>3, KeyRowIsNotNone DEF K!Touch, KeysIInv, KeyTypes, KeyStages, KeyIsCurrent, KeysHeld
<1>5. KeysOnlyGo' /\ KeysFound'
  BY <1>2, <1>3, <1>4 DEF K!Touch, KeysIInv, KeyTypes, KeysOnlyGo, KeysFound, FoundSince
<1> QED BY <1>4, <1>5 DEF KeysIInv

LEMMA ElsewhereKeys == ASSUME KeysIInv, K!Deactivate \/ K!Tick PROVE KeysIInv'
<1>1. /\ k_active' \in BOOLEAN /\ k_now' \in Nat
      /\ UNCHANGED <<k_row, k_held, k_plan, k_used, k_found, k_pc, k_replaced, k_since>>
  <2>1. k_now + 1 \in Nat
    BY DEF KeysIInv, KeyTypes
  <2> QED BY <2>1 DEF K!Deactivate, K!Tick, KeysIInv, KeyTypes
<1> QED BY <1>1, KeysStayFound DEF KeysIInv, KeyTypes, KeyIsCurrent, KeysHeld

LEMMA KeysInductive == K!Spec => []KeysIInv
<1>1. KeysIInv /\ [K!Next]_K!vars => KeysIInv'
  <2> SUFFICES ASSUME KeysIInv, [K!Next]_K!vars PROVE KeysIInv'
    OBVIOUS
  <2>1. CASE K!Next
    BY <2>1, CreateKeys, LoadKeys, RevokeKeys, RotateKeys, RotateRefusedKeys, BeginKeys, FindKeys,
       CheckKeys, TouchKeys, ElsewhereKeys DEF K!Next
  <2>2. CASE UNCHANGED K!vars
    BY <2>2 DEF K!vars, KeysIInv, KeyTypes, KeyIsCurrent, KeysOnlyGo, KeysFound, FoundSince, KeysHeld
  <2> QED BY <2>1, <2>2
<1> QED BY <1>1, InitKeys, PTL DEF K!Spec

(* auth.py:103: a request that begins after a revocation, or after a       *)
(* rotation away from its secret, is refused, whatever ran meanwhile.      *)
THEOREM RefusedOnceReplacedAlways == K!Spec => []RefusedOnceReplaced
<1>1. KeysIInv => RefusedOnceReplaced
  BY DEF KeysIInv, KeysFound, RefusedOnceReplaced, K!RefusedOnceReplaced
<1> QED BY <1>1, KeysInductive, PTL

(* auth.py:106: no save of an instance loaded earlier brings back a key, a *)
(* secret or a scope; only a rotation that asks for scopes changes them.   *)
LEMMA KeysStayGone ==
  ASSUME KeysIInv, [K!Next]_K!vars, k_row # None
  PROVE  /\ k_row.revoked => k_row'.revoked
         /\ k_row'.secret \notin k_replaced
         /\ \/ k_row'.scopes = k_row.scopes
            \/ \E m \in KeyManagers : /\ k_plan[m] # None /\ k_plan[m].scopes = k_row'.scopes
                                     /\ k_plan'[m] = None
<1>1. k_row \in KeyRow /\ k_row.secret \notin k_replaced
  BY DEF KeysIInv, KeyTypes, KeyIsCurrent
<1>2. CASE UNCHANGED k_row
  BY <1>1, <1>2
<1>3. ASSUME NEW m \in KeyManagers, K!Rotate(m)
      PROVE  k_plan[m] # None /\ k_plan'[m] = None
  BY <1>3 DEF K!Rotate, K!Finish, KeysIInv, KeyTypes
<1>4. ASSUME NEW m \in KeyManagers, K!Revoke(m)
      PROVE  k_row'.revoked /\ k_row'.secret = k_row.secret /\ k_row'.scopes = k_row.scopes
  <2> DEFINE i == [k_held[m] EXCEPT !.revoked = TRUE]
  <2>1. k_held[m] \in KeyRow
    BY <1>4 DEF K!Revoke, KeysIInv, KeyTypes, KeysHeld
  <2>2. i \in KeyRow /\ i.revoked
    BY <2>1 DEF KeyRow
  <2>3. k_row' = K!Saved(i, {"revoked"})
    BY <1>4 DEF K!Revoke
  <2> HIDE DEF i
  <2> QED BY <2>2, <2>3, SavedKey DEF KeysIInv
<1>5. ASSUME NEW r \in KeyRequests, K!Touch(r)
      PROVE  k_row'.revoked = k_row.revoked /\ k_row'.secret = k_row.secret /\ k_row'.scopes = k_row.scopes
  BY <1>1, <1>5 DEF K!Touch, K!Touched, KeyRow
<1>6. CASE K!Next
  <2>1. \/ UNCHANGED k_row
        \/ \E m \in KeyManagers : K!Rotate(m) \/ K!Revoke(m)
        \/ \E r \in KeyRequests : K!Touch(r)
    BY <1>6 DEF K!Next, K!Create, K!Deactivate, K!Tick, K!Load, K!RotateRefused, K!Begin, K!Find, K!Refuse,
                K!Accept, K!HasScopes
  <2>2. CASE \E m \in KeyManagers : K!Rotate(m)
    BY <1>1, <1>3, <2>2, RotatedKey
  <2> QED BY <1>1, <1>2, <1>4, <1>5, <2>1, <2>2
<1> QED BY <1>2, <1>6 DEF K!vars

THEOREM NothingComesBackAlways == K!Spec => NothingComesBack
<1>1. KeysIInv /\ [K!Next]_K!vars =>
        [k_row # None => /\ k_row.revoked => k_row'.revoked
                         /\ k_row'.secret \notin k_replaced
                         /\ k_row'.scopes = k_row.scopes \/ \E m \in KeyManagers : k_plan[m] # None /\ k_plan[m].scopes = k_row'.scopes /\ k_plan'[m] = None]_K!vars
  BY KeysStayGone
<1> QED BY <1>1, KeysInductive, PTL DEF K!Spec, NothingComesBack, K!NothingComesBack

-----------------------------------------------------------------------------
(* Throttles: what the counters and the hits tell of each other.           *)

(* The time at which the window of a key is over.                          *)
End(k) == (k.window + 1) * k.duration
KeyOK(k) == k.duration \in Nat \ {0} /\ k.window \in Nat
CounterOK(c) ==
  /\ c = [key |-> c.key, count |-> c.count, expires |-> c.expires]
  /\ KeyOK(c.key) /\ c.count \in Nat /\ c.expires \in Nat
HitOK(h) == KeyOK(h.key) /\ h.count \in Nat \ {0} /\ h.limit \in Nat \ {0} /\ h.when \in Nat
ThrottleTypes ==
  /\ t_now \in Nat /\ t_storage \in {"cache", "redis"}
  /\ t_pc \in [T!Calls -> {"ask", "add", "count", "set"}]
  /\ t_at \in [T!Calls -> Nat \ {0}] /\ t_window \in [T!Calls -> Nat]
  /\ \A c \in t_counters : CounterOK(c)
  /\ \A h \in t_hits : HitOK(h)
  /\ IsFiniteSet(t_hits)
(* A request between its Ask and its count works in a window that began.   *)
Working ==
  \A r \in T!Calls : t_pc[r] # "ask" =>
    /\ t_at[r] <= Len(Throttles) /\ T!Applies(T!Current(r), Callers[r])
    /\ t_window[r] * T!Current(r).duration <= t_now
(* A key has one counter, which lasts to the end of its window.            *)
OneCounter ==
  /\ \A b, c \in t_counters : b.key = c.key => b = c
  /\ \A c \in t_counters : End(c.key) <= c.expires
(* A counter was raised by a hit each time, and so was what a hit saw.     *)
CountedUp ==
  \A c \in t_counters \cup t_hits : \A i \in 1..c.count : \E h \in t_hits : h.key = c.key /\ h.count = i
(* As long as a window lasts its counter is not behind any hit.            *)
Ahead ==
  \A h \in t_hits : t_now < End(h.key) => \E c \in t_counters : c.key = h.key /\ h.count <= c.count
CountsDiffer ==
  \A g, h \in t_hits : g.key = h.key /\ T!OnTime(g) /\ T!OnTime(h) /\ g.count = h.count => g = h
(* The cache's counter is there as long as the window lasts, so incr()     *)
(* only misses it, and set() only replaces it, afterwards.                 *)
Missed ==
  \A r \in T!Calls :
    /\ t_pc[r] = "count" /\ t_storage = "cache" /\ t_now < End(T!Key(r)) =>
         \E c \in t_counters : c.key = T!Key(r)
    /\ t_pc[r] = "set" => End(T!Key(r)) <= t_now
ThrottleIInv ==
  ThrottleTypes /\ Working /\ OneCounter /\ CountedUp /\ Ahead /\ CountsDiffer /\ Missed

(* The whole divisions of the clock.                                       *)
LEMMA Windows ==
  ASSUME NEW n \in Nat, NEW d \in Nat \ {0}
  PROVE  /\ n \div d \in Nat /\ (n \div d) * d <= n /\ n < ((n \div d) + 1) * d
         /\ n % d \in 0..(d - 1)
  BY SMTT(20)
LEMMA EndAfter ==
  ASSUME NEW k, KeyOK(k)
  PROVE  End(k) \in Nat /\ End(k) = k.window * k.duration + k.duration
  BY SMTT(20) DEF KeyOK, End
LEMMA OnTimeBefore ==
  ASSUME NEW h, HitOK(h), T!OnTime(h)
  PROVE  h.when < End(h.key)
  BY Windows DEF HitOK, KeyOK, T!OnTime, End

LEMMA InitThrottle == T!Init => ThrottleIInv
  BY FS_EmptySet DEF T!Init, ThrottleIInv, ThrottleTypes, Working, OneCounter, CountedUp, Ahead,
     CountsDiffer, Missed, T!Calls

(* The throttle a request is at, its limit and its key.                    *)
LEMMA AtThrottle ==
  ASSUME ThrottleTypes, NEW r \in T!Calls, t_at[r] <= Len(Throttles)
  PROVE  /\ T!Current(r).duration \in Nat \ {0}
         /\ KeyOK(T!Key(r)) /\ T!Key(r).window = t_window[r] /\ T!Key(r).duration = T!Current(r).duration
         /\ T!Applies(T!Current(r), Callers[r]) => T!Limit(T!Current(r), Callers[r]) \in Nat \ {0}
<1>1. t_at[r] \in DOMAIN Throttles /\ t_window[r] \in Nat
  BY ThrottlesAssumption DEF ThrottleTypes
<1>2. T!Current(r) \in Range(Throttles)
  BY <1>1 DEF T!Current, Range
<1>3. Callers[r] \in Range(Callers)
  BY DEF T!Calls, Range
<1>4. /\ T!Current(r).duration \in Nat \ {0} /\ Callers[r].keyLimit \in (Nat \ {0}) \cup {None}
      /\ T!Current(r).user \in (Nat \ {0}) \cup {None} /\ T!Current(r).anon \in (Nat \ {0}) \cup {None}
  BY <1>2, <1>3, ThrottlesAssumption
<1>5. T!Applies(T!Current(r), Callers[r]) => T!Limit(T!Current(r), Callers[r]) \in Nat \ {0}
  <2>1. T!Limit(T!Current(r), Callers[r]) \in (Nat \ {0}) \cup {None}
    BY <1>4 DEF T!Limit
  <2> QED BY <2>1 DEF T!Applies
<1> QED BY <1>1, <1>4, <1>5 DEF T!Key, KeyOK

LEMMA Elsewhere ==
  ASSUME NEW q \in T!Calls, t_at'[q] = t_at[q], t_window'[q] = t_window[q]
  PROVE  T!Current(q)' = T!Current(q) /\ T!Key(q)' = T!Key(q)
  BY DEF T!Current, T!Key

LEMMA TickThrottle == ASSUME ThrottleIInv, T!Tick PROVE ThrottleIInv'
<1>1. /\ t_now \in Nat /\ t_now' = t_now + 1 /\ t_now' \in Nat
      /\ UNCHANGED <<t_storage, t_counters, t_pc, t_at, t_window, t_hits>>
  BY DEF T!Tick, ThrottleIInv, ThrottleTypes
<1>2. ThrottleTypes' /\ OneCounter' /\ CountedUp' /\ CountsDiffer'
  BY <1>1 DEF ThrottleIInv, ThrottleTypes, OneCounter, CountedUp, CountsDiffer, T!OnTime
<1>3. Working'
  <2> SUFFICES ASSUME NEW r \in T!Calls, t_pc[r] # "ask"
               PROVE  /\ t_at[r] <= Len(Throttles) /\ T!Applies(T!Current(r), Callers[r])
                      /\ t_window[r] * T!Current(r).duration <= t_now'
    BY <1>1 DEF Working, T!Current
  <2>1. t_at[r] <= Len(Throttles) /\ t_window[r] * T!Current(r).duration <= t_now
        /\ T!Applies(T!Current(r), Callers[r])
    BY DEF ThrottleIInv, Working
  <2>2. t_window[r] * T!Current(r).duration \in Nat
    BY <2>1, AtThrottle DEF ThrottleIInv, ThrottleTypes
  <2> QED BY <1>1, <2>1, <2>2
<1>4. Ahead'
  BY <1>1, EndAfter DEF ThrottleIInv, ThrottleTypes, HitOK, Ahead
<1>5. Missed'
  <2> SUFFICES ASSUME NEW r \in T!Calls, t_pc[r] # "ask"
               PROVE  /\ t_pc[r] = "count" /\ t_storage = "cache" /\ t_now' < End(T!Key(r)) =>
                           \E c \in t_counters : c.key = T!Key(r)
                      /\ t_pc[r] = "set" => End(T!Key(r)) <= t_now'
    BY <1>1, Elsewhere DEF Missed
  <2>1. End(T!Key(r)) \in Nat
    BY AtThrottle, EndAfter DEF ThrottleIInv, Working
  <2> QED BY <1>1, <2>1 DEF ThrottleIInv, Missed
<1> QED BY <1>2, <1>3, <1>4, <1>5 DEF ThrottleIInv

LEMMA AskThrottle == ASSUME ThrottleIInv, NEW r \in T!Calls, T!Ask(r) PROVE ThrottleIInv'
<1>1. /\ t_at[r] <= Len(Throttles) /\ T!Applies(T!Current(r), Callers[r])
      /\ t_window' = [t_window EXCEPT ![r] = t_now \div T!Current(r).duration]
      /\ t_pc' = [t_pc EXCEPT ![r] = IF t_storage = "redis" THEN "count" ELSE "add"]
      /\ UNCHANGED <<t_now, t_storage, t_counters, t_at, t_hits>>
  BY DEF T!Ask
<1>2. T!Current(r).duration \in Nat \ {0}
  BY <1>1, AtThrottle DEF ThrottleIInv
<1>3. /\ t_now \div T!Current(r).duration \in Nat
      /\ (t_now \div T!Current(r).duration) * T!Current(r).duration <= t_now
  BY <1>2, Windows DEF ThrottleIInv, ThrottleTypes
<1>4. /\ ThrottleTypes' /\ t_window'[r] = t_now \div T!Current(r).duration
      /\ t_pc'[r] = IF t_storage = "redis" THEN "count" ELSE "add"
      /\ \A q \in T!Calls \ {r} : t_window'[q] = t_window[q] /\ t_pc'[q] = t_pc[q]
  BY <1>1, <1>3 DEF ThrottleIInv, ThrottleTypes
<1>5. Working'
  BY <1>1, <1>3, <1>4 DEF ThrottleIInv, Working, T!Current
<1>6. Missed'
  BY <1>1, <1>4, Elsewhere DEF ThrottleIInv, Missed
<1> QED BY <1>1, <1>4, <1>5, <1>6 DEF ThrottleIInv, OneCounter, CountedUp, Ahead, CountsDiffer, T!OnTime

LEMMA SkipThrottle == ASSUME ThrottleIInv, NEW r \in T!Calls, T!Skip(r) PROVE ThrottleIInv'
<1>1. /\ t_pc[r] = "ask" /\ t_at' = [t_at EXCEPT ![r] = t_at[r] + 1]
      /\ UNCHANGED <<t_now, t_storage, t_counters, t_pc, t_window, t_hits>>
  BY DEF T!Skip
<1>2. ThrottleTypes' /\ \A q \in T!Calls \ {r} : t_at'[q] = t_at[q]
  BY <1>1 DEF ThrottleIInv, ThrottleTypes
<1>3. Working' /\ Missed'
  BY <1>1, <1>2, Elsewhere DEF ThrottleIInv, Working, Missed
<1> QED BY <1>1, <1>2, <1>3 DEF ThrottleIInv, OneCounter, CountedUp, Ahead, CountsDiffer, T!OnTime

(* A counter that is there counts to the end of its window.                *)
LEMMA LivesOn ==
  ASSUME ThrottleIInv, NEW k, NEW c \in t_counters, c.key = k, t_now < End(k)
  PROVE  c \in T!Live(k)
<1>1. CounterOK(c) /\ End(k) <= c.expires /\ t_now \in Nat /\ End(k) \in Nat
  BY EndAfter DEF ThrottleIInv, ThrottleTypes, OneCounter, CounterOK
<1> QED BY <1>1 DEF T!Live, CounterOK

(* What is put under a key lasts to the end of its window.                 *)
LEMMA PutLasts ==
  ASSUME ThrottleIInv, NEW r \in T!Calls, t_pc[r] # "ask"
  PROVE  /\ KeyOK(T!Key(r)) /\ End(T!Key(r)) \in Nat
         /\ t_now + T!Ttl(T!Current(r).duration) \in Nat
         /\ End(T!Key(r)) <= t_now + T!Ttl(T!Current(r).duration)
<1>1. /\ t_at[r] <= Len(Throttles) /\ t_window[r] * T!Current(r).duration <= t_now
      /\ t_now \in Nat /\ t_window[r] \in Nat
  BY DEF ThrottleIInv, Working, ThrottleTypes
<1>2. /\ T!Current(r).duration \in Nat \ {0} /\ KeyOK(T!Key(r)) /\ T!Key(r).window = t_window[r]
      /\ T!Key(r).duration = T!Current(r).duration
  BY <1>1, AtThrottle DEF ThrottleIInv
<1>3. /\ End(T!Key(r)) \in Nat
      /\ End(T!Key(r)) = t_window[r] * T!Current(r).duration + T!Current(r).duration
  BY <1>2, EndAfter
<1>4. T!Ttl(T!Current(r).duration) \in {T!Current(r).duration, T!Current(r).duration + 1}
  BY DEF T!Ttl
<1>5. t_window[r] * T!Current(r).duration \in Nat
  BY <1>1, <1>2
<1> HIDE DEF T!Current
<1> QED BY <1>1, <1>2, <1>3, <1>4, <1>5

LEMMA AddThrottle == ASSUME ThrottleIInv, NEW r \in T!Calls, T!Add(r) PROVE ThrottleIInv'
<1> DEFINE k == T!Key(r)
           new == [key |-> k, count |-> 0, expires |-> t_now + T!Ttl(T!Current(r).duration)]
<1>1. /\ t_pc[r] = "add" /\ t_pc' = [t_pc EXCEPT ![r] = "count"]
      /\ \/ T!Live(k) # {} /\ t_counters' = t_counters
         \/ T!Live(k) = {} /\ t_counters' = {c \in t_counters : c.key # k} \cup {new}
      /\ UNCHANGED <<t_now, t_storage, t_at, t_window, t_hits>>
  BY DEF T!Add, T!Put
<1>2. KeyOK(k) /\ CounterOK(new) /\ End(k) <= new.expires /\ new.key = k /\ new.count = 0
  BY <1>1, PutLasts DEF CounterOK
<1> HIDE DEF new, k
<1>3. ThrottleTypes' /\ \A q \in T!Calls : t_pc'[q] = IF q = r THEN "count" ELSE t_pc[q]
  BY <1>1, <1>2 DEF ThrottleIInv, ThrottleTypes
<1>4. \A q \in T!Calls : T!Current(q)' = T!Current(q) /\ T!Key(q)' = T!Key(q)
  BY <1>1, Elsewhere
<1>5. Working'
  BY <1>1, <1>3, <1>4 DEF ThrottleIInv, Working
<1>6. OneCounter' /\ CountedUp' /\ CountsDiffer'
  BY <1>1, <1>2 DEF ThrottleIInv, OneCounter, CountedUp, CountsDiffer, T!OnTime
<1>7. T!Live(k) = {} /\ t_now < End(k) => \A c \in t_counters : c.key # k
  BY LivesOn
<1>8. \A j : t_now < End(j) =>
        /\ \A c \in t_counters : c.key = j => c \in t_counters'
        /\ j = k => \E c \in t_counters' : c.key = k
  <2> SUFFICES ASSUME NEW j, t_now < End(j)
               PROVE  /\ \A c \in t_counters : c.key = j => c \in t_counters'
                      /\ j = k => \E c \in t_counters' : c.key = k
    OBVIOUS
  <2>1. T!Live(k) # {} => \E c \in t_counters : c.key = k
    BY DEF T!Live
  <2> QED BY <1>1, <1>2, <1>7, <2>1
<1>9. Ahead'
  BY <1>1, <1>8 DEF ThrottleIInv, Ahead
<1>10. Missed'
  BY <1>1, <1>3, <1>4, <1>8 DEF ThrottleIInv, Missed, k
<1> QED BY <1>3, <1>5, <1>6, <1>9, <1>10 DEF ThrottleIInv

LEMMA IncrRaisesThrottle == ASSUME ThrottleIInv, NEW r \in T!Calls, T!IncrRaises(r) PROVE ThrottleIInv'
<1>1. /\ t_pc[r] = "count" /\ t_storage = "cache" /\ T!Live(T!Key(r)) = {}
      /\ t_pc' = [t_pc EXCEPT ![r] = "set"]
      /\ UNCHANGED <<t_now, t_storage, t_counters, t_at, t_window, t_hits>>
  BY DEF T!IncrRaises
<1>2. End(T!Key(r)) <= t_now
  BY <1>1, LivesOn, PutLasts DEF ThrottleIInv, Missed, ThrottleTypes
<1>3. ThrottleTypes' /\ \A q \in T!Calls : t_pc'[q] = IF q = r THEN "set" ELSE t_pc[q]
  BY <1>1 DEF ThrottleIInv, ThrottleTypes
<1>4. \A q \in T!Calls : T!Current(q)' = T!Current(q) /\ T!Key(q)' = T!Key(q)
  BY <1>1, Elsewhere
<1>5. Working' /\ Missed'
  BY <1>1, <1>2, <1>3, <1>4 DEF ThrottleIInv, Working, Missed
<1> QED BY <1>1, <1>3, <1>5 DEF ThrottleIInv, OneCounter, CountedUp, Ahead, CountsDiffer, T!OnTime

(* A hit that leaves its key with one counter, at the hit's own count.     *)
LEMMA CountThrottle ==
  ASSUME ThrottleIInv, NEW r \in T!Calls, t_pc[r] # "ask", NEW n \in Nat \ {0}, NEW e \in Nat,
         T!Counted(r, n), End(T!Key(r)) <= e,
         t_counters' = {c \in t_counters : c.key # T!Key(r)}
                         \cup {[key |-> T!Key(r), count |-> n, expires |-> e]},
         \A i \in 1..(n - 1) : \E h \in t_hits : h.key = T!Key(r) /\ h.count = i,
         t_now < End(T!Key(r)) => \A h \in t_hits : h.key = T!Key(r) => h.count < n
  PROVE  ThrottleIInv'
<1> DEFINE k == T!Key(r)
           new == [key |-> k, count |-> n, expires |-> e]
           hit == [key |-> k, by |-> r, nth |-> t_at[r], count |-> n, when |-> t_now,
                   limit |-> T!Limit(T!Current(r), Callers[r]), reset |-> k.duration - (t_now % k.duration)]
<1>1. /\ t_hits' = t_hits \cup {hit} /\ t_at' = [t_at EXCEPT ![r] = t_at[r] + 1]
      /\ t_pc' = [t_pc EXCEPT ![r] = "ask"] /\ UNCHANGED <<t_now, t_storage, t_window>>
  BY DEF T!Counted
<1>2. /\ KeyOK(k) /\ End(k) \in Nat /\ t_now \in Nat
      /\ T!Limit(T!Current(r), Callers[r]) \in Nat \ {0}
  BY PutLasts, AtThrottle DEF ThrottleIInv, ThrottleTypes, Working
<1>3. HitOK(hit) /\ hit.key = k /\ hit.count = n /\ hit.when = t_now
  BY <1>2 DEF HitOK
<1>4. CounterOK(new) /\ new.key = k /\ new.count = n /\ new.expires = e
  BY <1>2 DEF CounterOK
<1>5. /\ t_counters' = {c \in t_counters : c.key # k} \cup {new} /\ End(k) <= e
      /\ \A i \in 1..(n - 1) : \E h \in t_hits : h.key = k /\ h.count = i
      /\ t_now < End(k) => \A h \in t_hits : h.key = k => h.count < n
  OBVIOUS
<1> HIDE DEF k, new, hit
<1>6. /\ t_pc'[r] = "ask"
      /\ \A q \in T!Calls \ {r} : /\ t_pc'[q] = t_pc[q] /\ t_at'[q] = t_at[q] /\ t_window'[q] = t_window[q]
                                 /\ T!Current(q)' = T!Current(q) /\ T!Key(q)' = T!Key(q)
  BY <1>1, Elsewhere DEF ThrottleIInv, ThrottleTypes
<1>7. ThrottleTypes'
  <2>1. IsFiniteSet(t_hits')
    BY <1>1, FS_AddElement DEF ThrottleIInv, ThrottleTypes
  <2>2. t_at' \in [T!Calls -> Nat \ {0}]
    BY <1>1 DEF ThrottleIInv, ThrottleTypes
  <2> QED BY <1>1, <1>3, <1>4, <1>5, <2>1, <2>2 DEF ThrottleIInv, ThrottleTypes
<1>8. Working'
  BY <1>1, <1>6 DEF ThrottleIInv, Working
<1>9. OneCounter'
  BY <1>4, <1>5 DEF ThrottleIInv, OneCounter
<1>10. CountedUp'
  <2>1. \A i \in 1..n : \E h \in t_hits' : h.key = k /\ h.count = i
    BY <1>1, <1>3, <1>5
  <2> QED BY <1>1, <1>3, <1>4, <1>5, <2>1 DEF ThrottleIInv, CountedUp
<1>11. Ahead'
  <2> SUFFICES ASSUME NEW h \in t_hits', t_now < End(h.key)
               PROVE  \E c \in t_counters' : c.key = h.key /\ h.count <= c.count
    BY <1>1 DEF Ahead
  <2>1. CASE h.key = k
    BY <1>1, <1>3, <1>4, <1>5, <2>1 DEF ThrottleIInv, ThrottleTypes, HitOK
  <2>2. CASE h.key # k
    BY <1>1, <1>3, <1>5, <2>2 DEF ThrottleIInv, Ahead
  <2> QED BY <2>1, <2>2
<1>12. CountsDiffer'
  <2>1. T!OnTime(hit) => t_now < End(k)
    BY <1>3, OnTimeBefore
  <2>2. T!OnTime(hit) => \A h \in t_hits : h.key = k => h.count # n
    BY <1>5, <2>1 DEF ThrottleIInv, ThrottleTypes, HitOK
  <2> QED BY <1>1, <1>3, <2>2 DEF ThrottleIInv, CountsDiffer, T!OnTime
<1>13. Missed'
  BY <1>1, <1>4, <1>5, <1>6 DEF ThrottleIInv, Missed
<1> QED BY <1>7, <1>8, <1>9, <1>10, <1>11, <1>12, <1>13 DEF ThrottleIInv

LEMMA IncrThrottle == ASSUME ThrottleIInv, NEW r \in T!Calls, T!Incr(r) PROVE ThrottleIInv'
<1>1. PICK c \in T!Live(T!Key(r)) :
        /\ t_counters' = (t_counters \ {c}) \cup {[c EXCEPT !.count = c.count + 1]}
        /\ T!Counted(r, c.count + 1)
  BY DEF T!Incr
<1>2. t_pc[r] # "ask"
  BY DEF T!Incr
<1>3. /\ c \in t_counters /\ c.key = T!Key(r) /\ CounterOK(c) /\ End(T!Key(r)) <= c.expires
      /\ c.count + 1 \in Nat \ {0} /\ c.expires \in Nat
  BY DEF T!Live, ThrottleIInv, ThrottleTypes, OneCounter, CounterOK
<1>4. \A b \in t_counters : b.key = T!Key(r) <=> b = c
  BY <1>3 DEF ThrottleIInv, OneCounter
<1>5. [c EXCEPT !.count = c.count + 1] = [key |-> T!Key(r), count |-> c.count + 1, expires |-> c.expires]
  BY <1>3 DEF CounterOK
<1>6. t_counters' = {b \in t_counters : b.key # T!Key(r)}
                      \cup {[key |-> T!Key(r), count |-> c.count + 1, expires |-> c.expires]}
  BY <1>1, <1>4, <1>5
<1>7. \A i \in 1..c.count : \E h \in t_hits : h.key = T!Key(r) /\ h.count = i
  BY <1>3 DEF ThrottleIInv, CountedUp
<1>8. t_now < End(T!Key(r)) => \A h \in t_hits : h.key = T!Key(r) => h.count < c.count + 1
  <2> SUFFICES ASSUME t_now < End(T!Key(r)), NEW h \in t_hits, h.key = T!Key(r) PROVE h.count < c.count + 1
    OBVIOUS
  <2>1. PICK b \in t_counters : b.key = h.key /\ h.count <= b.count
    BY DEF ThrottleIInv, Ahead
  <2>2. b = c
    BY <1>4, <2>1
  <2> QED BY <1>3, <2>1, <2>2 DEF CounterOK, ThrottleIInv, ThrottleTypes, HitOK
<1>9. PICK n : n = c.count + 1
  OBVIOUS
<1>10. n \in Nat \ {0} /\ T!Counted(r, n)
  BY <1>1, <1>3, <1>9
<1>11. t_counters' = {b \in t_counters : b.key # T!Key(r)}
                       \cup {[key |-> T!Key(r), count |-> n, expires |-> c.expires]}
  BY <1>6, <1>9
<1>12. \A i \in 1..(n - 1) : \E h \in t_hits : h.key = T!Key(r) /\ h.count = i
  <2>1. n - 1 = c.count
    BY <1>3, <1>9 DEF CounterOK
  <2> QED BY <1>7, <2>1
<1>13. t_now < End(T!Key(r)) => \A h \in t_hits : h.key = T!Key(r) => h.count < n
  BY <1>8, <1>9
<1> QED BY <1>2, <1>3, <1>10, <1>11, <1>12, <1>13, CountThrottle

(* The first hit that a counter holds: INCR on Redis, set() on the cache.  *)
LEMMA FirstThrottle ==
  ASSUME ThrottleIInv, NEW r \in T!Calls, T!IncrMissing(r) \/ T!SetOne(r)
  PROVE  ThrottleIInv'
<1>1. /\ t_pc[r] # "ask" /\ T!Counted(r, 1)
      /\ t_counters' = {c \in t_counters : c.key # T!Key(r)}
                          \cup {[key |-> T!Key(r), count |-> 1, expires |-> t_now + T!Ttl(T!Current(r).duration)]}
  BY DEF T!IncrMissing, T!SetOne, T!Put
<1>2. t_now < End(T!Key(r)) => \A c \in t_counters : c.key # T!Key(r)
  <2>1. CASE T!IncrMissing(r)
    BY <2>1, LivesOn DEF T!IncrMissing
  <2>2. CASE T!SetOne(r)
    BY <1>1, <2>2, PutLasts DEF T!SetOne, ThrottleIInv, Missed, ThrottleTypes
  <2> QED BY <2>1, <2>2
<1>3. t_now < End(T!Key(r)) => \A h \in t_hits : h.key = T!Key(r) => h.count < 1
  BY <1>2 DEF ThrottleIInv, Ahead
<1>4. 1..(1 - 1) = {}
  OBVIOUS
<1> HIDE DEF T!Key
<1> QED BY <1>1, <1>3, <1>4, PutLasts, CountThrottle

LEMMA ThrottleInductive == T!Spec => []ThrottleIInv
<1>1. ThrottleIInv /\ [T!Next]_T!vars => ThrottleIInv'
  <2> SUFFICES ASSUME ThrottleIInv, [T!Next]_T!vars PROVE ThrottleIInv'
    OBVIOUS
  <2>1. ASSUME NEW r \in T!Calls, T!Ask(r) PROVE ThrottleIInv'
    BY <2>1, AskThrottle
  <2>2. ASSUME NEW r \in T!Calls, T!Skip(r) PROVE ThrottleIInv'
    BY <2>2, SkipThrottle
  <2>3. ASSUME NEW r \in T!Calls, T!Add(r) PROVE ThrottleIInv'
    BY <2>3, AddThrottle
  <2>4. ASSUME NEW r \in T!Calls, T!Incr(r) PROVE ThrottleIInv'
    BY <2>4, IncrThrottle
  <2>5. ASSUME NEW r \in T!Calls, T!IncrMissing(r) \/ T!SetOne(r) PROVE ThrottleIInv'
    BY <2>5, FirstThrottle
  <2>6. ASSUME NEW r \in T!Calls, T!IncrRaises(r) PROVE ThrottleIInv'
    BY <2>6, IncrRaisesThrottle
  <2>7. CASE T!Tick
    BY <2>7, TickThrottle
  <2>8. CASE UNCHANGED T!vars
    BY <2>8, Elsewhere DEF T!vars, ThrottleIInv, ThrottleTypes, Working, OneCounter, CountedUp, Ahead,
       CountsDiffer, Missed, T!OnTime
  <2> QED BY <2>1, <2>2, <2>3, <2>4, <2>5, <2>6, <2>7, <2>8 DEF T!Next
<1> QED BY <1>1, InitThrottle, PTL DEF T!Spec

LEMMA ThrottleCardinality == ASSUME NEW S PROVE T!Cardinality(S) = Cardinality(S)
  BY Zenon DEF T!Cardinality, Cardinality

(* Where no two hits of a set have one count, the counts number the set.   *)
LEMMA DistinctCounts ==
  ASSUME NEW S, NEW n \in Nat, \A g \in S : g.count \in 1..n,
         \A g, h \in S : g.count = h.count => g = h
  PROVE  Cardinality(S) <= n
<1> DEFINE f == [g \in S |-> g.count]
<1>1. f \in Injection(S, 1..n)
  BY DEF Injection, IsInjective
<1>2. IsFiniteSet(1..n) /\ Cardinality(1..n) = n
  BY FS_Interval
<1> HIDE DEF f
<1> QED BY <1>1, <1>2, FS_Injection

(* Where every number up to n is the count of a hit, there are n hits.     *)
LEMMA EveryCount ==
  ASSUME NEW S, IsFiniteSet(S), NEW n \in Nat, \A i \in 1..n : \E g \in S : g.count = i
  PROVE  Cardinality(S) >= n
<1> DEFINE f == [i \in 1..n |-> CHOOSE g \in S : g.count = i]
<1>1. f \in Injection(1..n, S)
  <2>1. \A i \in 1..n : f[i] \in S /\ f[i].count = i
    OBVIOUS
  <2> HIDE DEF f
  <2>2. f \in [1..n -> S]
    BY <2>1 DEF f
  <2> QED BY <2>1, <2>2 DEF Injection, IsInjective
<1>2. IsFiniteSet(1..n) /\ Cardinality(1..n) = n
  BY FS_Interval
<1>3. Cardinality(S) \in Nat
  BY FS_CardinalityType
<1> HIDE DEF f
<1> QED BY <1>1, <1>2, <1>3, FS_Injection

(* LimitHolds: of the hits of one identity that are counted in their       *)
(* window no more than the limit pass, a refused hit comes after a limit's *)
(* worth of hits, and the headers of a refused request report that nothing *)
(* is left (http/throttling.py:19, 150-178).                               *)
THEOREM LimitHoldsAlways == T!Spec => []LimitHolds
<1>1. ThrottleIInv => LimitHolds
  <2> SUFFICES ASSUME ThrottleIInv PROVE LimitHolds
    OBVIOUS
  <2>1. \A h \in t_hits : h.count \in Nat \ {0} /\ h.limit \in Nat \ {0}
    BY DEF ThrottleIInv, ThrottleTypes, HitOK
  <2>2. ASSUME NEW h \in t_hits
        PROVE  T!Cardinality({g \in t_hits : g.key = h.key /\ g.nth = h.nth /\ g.limit = h.limit
                                             /\ T!OnTime(g) /\ g.count <= g.limit}) <= h.limit
    <3> DEFINE S == {g \in t_hits : g.key = h.key /\ g.nth = h.nth /\ g.limit = h.limit
                                    /\ T!OnTime(g) /\ g.count <= g.limit}
    <3>1. \A g \in S : g.count \in 1..h.limit
      BY <2>1
    <3>2. \A f, g \in S : f.count = g.count => f = g
      BY DEF ThrottleIInv, CountsDiffer
    <3> HIDE DEF S
    <3>3. Cardinality(S) <= h.limit
      BY <2>1, <3>1, <3>2, DistinctCounts
    <3> QED BY <3>3, ThrottleCardinality DEF S
  <2>3. ASSUME NEW h \in t_hits, h.count > h.limit
        PROVE  T!Cardinality({g \in t_hits : g.key = h.key /\ g.count < h.count}) >= h.limit
    <3> DEFINE S == {g \in t_hits : g.key = h.key /\ g.count < h.count}
    <3>1. IsFiniteSet(S)
      BY FS_Subset DEF ThrottleIInv, ThrottleTypes
    <3>2. \A i \in 1..h.limit : \E g \in S : g.count = i
      <4> SUFFICES ASSUME NEW i \in 1..h.limit PROVE \E g \in S : g.count = i
        OBVIOUS
      <4>1. i \in 1..h.count /\ i < h.count
        BY <2>1, <2>3
      <4> QED BY <4>1 DEF ThrottleIInv, CountedUp
    <3> HIDE DEF S
    <3>3. Cardinality(S) >= h.limit
      BY <2>1, <3>1, <3>2, EveryCount
    <3> QED BY <3>3, ThrottleCardinality DEF S
  <2>4. ASSUME NEW r \in T!Calls, T!Refused(r), NEW h \in T!Tightest(r)
        PROVE  T!Remaining(h) = 0
    <3>1. PICK g \in T!Hits(r) : g.count > g.limit
      BY <2>4 DEF T!Refused
    <3>2. h \in T!Hits(r) /\ ~T!Tighter(g, h) /\ h \in t_hits /\ g \in t_hits
      BY <3>1 DEF T!Tightest, T!Hits
    <3>3. T!Remaining(g) = 0
      BY <2>1, <3>1, <3>2 DEF T!Remaining
    <3>4. T!Remaining(h) \in Nat
      BY <2>1, <3>2 DEF T!Remaining
    <3> QED BY <3>2, <3>3, <3>4 DEF T!Tighter
  <2> QED BY <2>2, <2>3, <2>4 DEF LimitHolds, T!LimitHolds
<1> QED BY <1>1, ThrottleInductive, PTL

(***************************************************************************)
(* Readiness: the slot holds the last thread of its check, and all the     *)
(* earlier ones have ended.                                                *)
(***************************************************************************)
ThreadStates == {"running", "closing ok", "closing error", "ok", "error"}
HealthTypes ==
  /\ h_workers \in [H!Slots -> Seq(ThreadStates)]
  /\ DOMAIN h_slot = H!Slots
  /\ h_pc \in [Probes -> {"start", "wait", "late", "200", "503"}]
  /\ DOMAIN h_joined = Probes /\ \A p \in Probes : DOMAIN h_joined[p] = H!Slots
  /\ h_results \in [Probes -> Seq({"ok", "error", "timeout"})]
  /\ h_doneBefore \in [Probes -> SUBSET (H!Slots \X Nat)]
SlotHoldsLast ==
  \A c \in H!Slots :
    /\ h_slot[c] = IF h_workers[c] = <<>> THEN None ELSE Len(h_workers[c])
    /\ \A i \in DOMAIN h_workers[c] : i # Len(h_workers[c]) => H!Done(c, i)
JoinedNews ==
  \A p \in Probes : IF h_pc[p] = "start" THEN \A c \in H!Slots : h_joined[p][c] = None
                    ELSE \A c \in H!Slots : /\ h_joined[p][c] \in DOMAIN h_workers[c]
                                            /\ <<c, h_joined[p][c]>> \notin h_doneBefore[p]
(* A result that says ok is that of the thread joined, in the order of the *)
(* checks; "200" is said with all of them.                                 *)
ResultsAreTheirs ==
  \A p \in Probes :
    /\ h_pc[p] = "start" => h_results[p] = <<>>
    /\ \A i \in DOMAIN h_results[p] :
         i \in H!Slots /\ (h_results[p][i] = "ok" => h_workers[i][h_joined[p][i]] = "ok")
    /\ h_pc[p] = "200" => /\ Len(h_results[p]) = Len(Checks)
                          /\ \A i \in DOMAIN h_results[p] : h_results[p][i] = "ok"
HealthIInv == HealthTypes /\ SlotHoldsLast /\ JoinedNews /\ ResultsAreTheirs

LEMMA SlotsAreNumbers == H!Slots = 1..Len(Checks) /\ Len(Checks) \in Nat
  BY HealthAssumption DEF H!Slots

LEMMA InitHealth == H!Init => HealthIInv
  BY DEF H!Init, HealthIInv, HealthTypes, SlotHoldsLast, JoinedNews, ResultsAreTheirs, ThreadStates

LEMMA RunHealth == ASSUME HealthIInv, NEW p \in Probes, H!Run(p) PROVE HealthIInv'
<1>1. /\ h_pc[p] = "start" /\ h_pc' = [h_pc EXCEPT ![p] = "wait"]
      /\ h_workers' = [c \in H!Slots |-> IF H!Starts(c) THEN Append(h_workers[c], "running") ELSE h_workers[c]]
      /\ h_slot' = [c \in H!Slots |-> IF H!Starts(c) THEN Len(h_workers[c]) + 1 ELSE h_slot[c]]
      /\ h_joined' = [h_joined EXCEPT ![p] = h_slot']
      /\ h_doneBefore' = [h_doneBefore EXCEPT ![p] = H!EndedWorkers]
      /\ UNCHANGED h_results
  BY DEF H!Run
<1>2. \A c \in H!Slots : h_workers[c] \in Seq(ThreadStates) /\ "running" \in ThreadStates
  BY DEF HealthIInv, HealthTypes, ThreadStates
<1>3. H!EndedWorkers \subseteq H!Slots \X Nat
  BY <1>2 DEF H!EndedWorkers
<1>4. HealthTypes'
  BY <1>1, <1>2, <1>3 DEF HealthIInv, HealthTypes
<1>5. \A c \in H!Slots :
        /\ h_workers'[c] # <<>> /\ h_slot'[c] = Len(h_workers'[c]) /\ h_slot'[c] \in DOMAIN h_workers'[c]
        /\ DOMAIN h_workers[c] \subseteq DOMAIN h_workers'[c]
        /\ \A i \in DOMAIN h_workers[c] : h_workers'[c][i] = h_workers[c][i]
        /\ \A i \in DOMAIN h_workers'[c] : i # Len(h_workers'[c]) => H!Done(c, i)'
        /\ <<c, h_slot'[c]>> \notin H!EndedWorkers
  <2> SUFFICES ASSUME NEW c \in H!Slots
               PROVE  /\ h_workers'[c] # <<>> /\ h_slot'[c] = Len(h_workers'[c]) /\ h_slot'[c] \in DOMAIN h_workers'[c]
                      /\ DOMAIN h_workers[c] \subseteq DOMAIN h_workers'[c]
                      /\ \A i \in DOMAIN h_workers[c] : h_workers'[c][i] = h_workers[c][i]
                      /\ \A i \in DOMAIN h_workers'[c] : i # Len(h_workers'[c]) => H!Done(c, i)'
                      /\ <<c, h_slot'[c]>> \notin H!EndedWorkers
    OBVIOUS
  <2>1. /\ h_slot[c] = IF h_workers[c] = <<>> THEN None ELSE Len(h_workers[c])
        /\ \A i \in DOMAIN h_workers[c] : i # Len(h_workers[c]) => H!Done(c, i)
    BY DEF HealthIInv, SlotHoldsLast
  <2>2. \A i : <<c, i>> \in H!EndedWorkers => i \in DOMAIN h_workers[c] /\ H!Done(c, i)
    BY DEF H!EndedWorkers
  <2>3. CASE H!Starts(c)
    <3>1. /\ h_workers'[c] = Append(h_workers[c], "running") /\ h_slot'[c] = Len(h_workers[c]) + 1
      BY <1>1, <2>3
    <3>2. \A i \in DOMAIN h_workers[c] : H!Done(c, i)
      <4>1. DOMAIN h_workers[c] = 1..Len(h_workers[c]) /\ Len(h_workers[c]) \in Nat
        BY <1>2
      <4>2. DOMAIN h_workers[c] # {} => h_slot[c] = Len(h_workers[c]) /\ h_slot[c] # None
        BY <2>1, <4>1, HealthAssumption
      <4> QED BY <2>1, <2>3, <4>2 DEF H!Starts
    <3> QED BY <1>2, <2>2, <3>1, <3>2 DEF H!Done
  <2>4. CASE ~H!Starts(c)
    <3>1. h_workers'[c] = h_workers[c] /\ h_slot'[c] = h_slot[c]
      BY <1>1, <2>4
    <3>2. h_slot[c] # None /\ ~H!Done(c, h_slot[c])
      BY <2>4 DEF H!Starts
    <3> QED BY <1>2, <2>1, <2>2, <3>1, <3>2 DEF H!Done
  <2> QED BY <2>3, <2>4
<1>6. SlotHoldsLast'
  BY <1>1, <1>5 DEF SlotHoldsLast
<1>7. JoinedNews'
  <2> SUFFICES ASSUME NEW q \in Probes
               PROVE  IF h_pc'[q] = "start" THEN \A c \in H!Slots : h_joined'[q][c] = None
                      ELSE \A c \in H!Slots : /\ h_joined'[q][c] \in DOMAIN h_workers'[c]
                                              /\ <<c, h_joined'[q][c]>> \notin h_doneBefore'[q]
    BY DEF JoinedNews, H!Slots
  <2>1. CASE q = p
    BY <1>1, <1>5, <2>1 DEF HealthIInv, HealthTypes
  <2>2. CASE q # p
    BY <1>1, <1>5, <2>2 DEF HealthIInv, HealthTypes, JoinedNews
  <2> QED BY <2>1, <2>2
<1>8. ResultsAreTheirs'
  <2> SUFFICES ASSUME NEW q \in Probes
               PROVE  /\ h_pc'[q] = "start" => h_results[q] = <<>>
                      /\ \A i \in DOMAIN h_results[q] :
                           i \in H!Slots /\ (h_results[q][i] = "ok" => h_workers'[i][h_joined'[q][i]] = "ok")
                      /\ h_pc'[q] = "200" => /\ Len(h_results[q]) = Len(Checks)
                                             /\ \A i \in DOMAIN h_results[q] : h_results[q][i] = "ok"
    BY <1>1 DEF ResultsAreTheirs, H!Slots
  <2>1. CASE q = p
    BY <1>1, <2>1 DEF HealthIInv, HealthTypes, ResultsAreTheirs
  <2>2. CASE q # p
    <3>1. h_pc'[q] = h_pc[q] /\ h_joined'[q] = h_joined[q]
      BY <1>1, <2>2 DEF HealthIInv, HealthTypes
    <3>2. CASE h_pc[q] = "start"
      BY <3>1, <3>2 DEF HealthIInv, ResultsAreTheirs
    <3>3. CASE h_pc[q] # "start"
      <4>1. \A c \in H!Slots : h_joined[q][c] \in DOMAIN h_workers[c]
        BY <3>3 DEF HealthIInv, JoinedNews
      <4>2. \A i \in DOMAIN h_results[q] :
              i \in H!Slots /\ (h_results[q][i] = "ok" => h_workers[i][h_joined[q][i]] = "ok")
        BY DEF HealthIInv, ResultsAreTheirs
      <4>3. \A i \in H!Slots : h_workers'[i][h_joined[q][i]] = h_workers[i][h_joined[q][i]]
        BY <1>5, <4>1
      <4> QED BY <3>1, <4>2, <4>3 DEF HealthIInv, ResultsAreTheirs
    <3> QED BY <3>2, <3>3
  <2> QED BY <2>1, <2>2
<1> QED BY <1>4, <1>6, <1>7, <1>8 DEF HealthIInv

LEMMA TakeHealth == ASSUME HealthIInv, NEW p \in Probes, H!Take(p) \/ H!TimeOut(p) PROVE HealthIInv'
<1>1. /\ h_pc[p] \in {"wait", "late"} /\ H!Turn(p) \in H!Slots
      /\ UNCHANGED <<h_workers, h_slot, h_pc, h_joined, h_doneBefore>>
  BY DEF H!Take, H!TimeOut
<1>2. PICK s \in {"ok", "error", "timeout"} :
        /\ h_results' = [h_results EXCEPT ![p] = Append(h_results[p], s)]
        /\ s = "ok" => h_workers[H!Turn(p)][h_joined[p][H!Turn(p)]] = "ok"
  BY DEF H!Take, H!TimeOut, H!Done, H!Ended
<1>3. h_results[p] \in Seq({"ok", "error", "timeout"}) /\ H!Turn(p) = Len(h_results[p]) + 1
  BY DEF HealthIInv, HealthTypes, H!Turn
<1>4. HealthTypes' /\ SlotHoldsLast' /\ JoinedNews'
  BY <1>1, <1>2, <1>3 DEF HealthIInv, HealthTypes, SlotHoldsLast, JoinedNews, H!Slots, H!Done
<1>5. /\ h_results'[p] = Append(h_results[p], s)
      /\ \A q \in Probes \ {p} : h_results'[q] = h_results[q]
  BY <1>2 DEF HealthIInv, HealthTypes
<1>6. ResultsAreTheirs'
  BY <1>1, <1>2, <1>3, <1>5 DEF HealthIInv, ResultsAreTheirs, H!Slots
<1> QED BY <1>4, <1>6 DEF HealthIInv

LEMMA AnswerHealth == ASSUME HealthIInv, NEW p \in Probes, H!Deadline(p) \/ H!Ready(p) PROVE HealthIInv'
<1>1. /\ h_pc[p] \in {"wait", "late"} /\ UNCHANGED <<h_workers, h_slot, h_joined, h_results, h_doneBefore>>
  BY DEF H!Deadline, H!Ready
<1>2. PICK s \in {"late", "200", "503"} :
        /\ h_pc' = [h_pc EXCEPT ![p] = s]
        /\ s = "200" => /\ Len(h_results[p]) = Len(Checks)
                        /\ \A i \in DOMAIN h_results[p] : h_results[p][i] = "ok"
  BY DEF H!Deadline, H!Ready
<1> QED BY <1>1, <1>2 DEF HealthIInv, HealthTypes, SlotHoldsLast, JoinedNews, ResultsAreTheirs, H!Slots, H!Done

LEMMA ThreadHealth ==
  ASSUME HealthIInv, NEW c \in H!Slots, NEW i \in DOMAIN h_workers[c], H!Check(c, i) \/ H!Deliver(c, i)
  PROVE  HealthIInv'
<1>1. /\ UNCHANGED <<h_slot, h_pc, h_joined, h_results, h_doneBefore>> /\ ~H!Done(c, i)
      /\ \E s \in ThreadStates : h_workers' = [h_workers EXCEPT ![c][i] = s]
  BY DEF H!Check, H!Deliver, H!Done, H!Ended, ThreadStates
<1>2. PICK s \in ThreadStates : h_workers' = [h_workers EXCEPT ![c] = [h_workers[c] EXCEPT ![i] = s]]
  BY <1>1
<1>3. h_workers \in [H!Slots -> Seq(ThreadStates)] /\ h_workers[c] \in Seq(ThreadStates)
  BY DEF HealthIInv, HealthTypes
<1>4. /\ [h_workers[c] EXCEPT ![i] = s] \in Seq(ThreadStates)
      /\ Len([h_workers[c] EXCEPT ![i] = s]) = Len(h_workers[c])
  BY <1>2, <1>3
<1>5. /\ h_workers' \in [H!Slots -> Seq(ThreadStates)]
      /\ \A d \in H!Slots : /\ DOMAIN h_workers'[d] = DOMAIN h_workers[d]
                            /\ Len(h_workers'[d]) = Len(h_workers[d])
                            /\ h_workers'[d] = <<>> <=> h_workers[d] = <<>>
                            /\ \A j \in DOMAIN h_workers[d] : H!Done(d, j) => h_workers'[d][j] = h_workers[d][j]
  BY <1>1, <1>2, <1>3, <1>4
<1>6. HealthTypes' /\ JoinedNews'
  BY <1>1, <1>5 DEF HealthIInv, HealthTypes, JoinedNews, H!Slots
<1>7. SlotHoldsLast'
  BY <1>1, <1>5 DEF HealthIInv, SlotHoldsLast, H!Slots, H!Done
<1>8. ResultsAreTheirs'
  <2> SUFFICES ASSUME NEW p \in Probes, NEW d \in DOMAIN h_results[p], h_results[p][d] = "ok"
               PROVE  h_workers'[d][h_joined[p][d]] = "ok"
    BY <1>1 DEF HealthIInv, ResultsAreTheirs, H!Slots
  <2>1. d \in H!Slots /\ h_workers[d][h_joined[p][d]] = "ok" /\ h_pc[p] # "start"
    BY DEF HealthIInv, ResultsAreTheirs
  <2>2. h_joined[p][d] \in DOMAIN h_workers[d]
    BY <2>1 DEF HealthIInv, JoinedNews
  <2> QED BY <1>5, <2>1, <2>2 DEF H!Done, H!Ended
<1> QED BY <1>6, <1>7, <1>8 DEF HealthIInv

LEMMA HealthInductive == H!Spec => []HealthIInv
<1>1. HealthIInv /\ [H!Next]_H!vars => HealthIInv'
  <2> SUFFICES ASSUME HealthIInv, [H!Next]_H!vars PROVE HealthIInv'
    OBVIOUS
  <2>1. ASSUME NEW p \in Probes, H!Run(p) PROVE HealthIInv'
    BY <2>1, RunHealth
  <2>2. ASSUME NEW p \in Probes, H!Take(p) \/ H!TimeOut(p) PROVE HealthIInv'
    BY <2>2, TakeHealth
  <2>3. ASSUME NEW p \in Probes, H!Deadline(p) \/ H!Ready(p) PROVE HealthIInv'
    BY <2>3, AnswerHealth
  <2>4. ASSUME NEW c \in H!Slots, NEW i \in DOMAIN h_workers[c], H!Check(c, i) \/ H!Deliver(c, i)
        PROVE  HealthIInv'
    BY <2>4, ThreadHealth
  <2>5. CASE UNCHANGED H!vars
    BY <2>5 DEF H!vars, HealthIInv, HealthTypes, SlotHoldsLast, JoinedNews, ResultsAreTheirs, H!Slots, H!Done
  <2> QED BY <2>1, <2>2, <2>3, <2>4, <2>5 DEF H!Next
<1> QED BY <1>1, InitHealth, PTL DEF H!Spec

(* OneWorkerAndItsNews: a check has one thread at work, however many       *)
(* probes ask; a probe never waits for a thread that had ended before it   *)
(* began; "200" is only said of what every thread waited for found ok      *)
(* (http/health.py:105).                                                   *)
THEOREM OneWorkerAndItsNewsAlways == H!Spec => []OneWorkerAndItsNews
<1>1. HealthIInv => OneWorkerAndItsNews
  <2> SUFFICES ASSUME HealthIInv PROVE OneWorkerAndItsNews
    OBVIOUS
  <2>1. ASSUME NEW c \in H!Slots, NEW i \in DOMAIN h_workers[c], NEW j \in DOMAIN h_workers[c]
        PROVE  H!Done(c, i) \/ H!Done(c, j) \/ i = j
    BY DEF HealthIInv, SlotHoldsLast
  <2>2. ASSUME NEW p \in Probes, NEW c \in H!Slots
        PROVE  <<c, h_joined[p][c]>> \notin h_doneBefore[p]
    <3>1. CASE h_pc[p] = "start"
      <4>1. h_joined[p][c] = None /\ h_doneBefore[p] \subseteq H!Slots \X Nat
        BY <3>1 DEF HealthIInv, JoinedNews, HealthTypes
      <4> QED BY <4>1, HealthAssumption
    <3>2. CASE h_pc[p] # "start"
      BY <3>2 DEF HealthIInv, JoinedNews
    <3> QED BY <3>1, <3>2
  <2>3. ASSUME NEW p \in Probes, h_pc[p] = "200", NEW c \in H!Slots
        PROVE  h_workers[c][h_joined[p][c]] = "ok"
    BY <2>3, SlotsAreNumbers DEF HealthIInv, ResultsAreTheirs, HealthTypes
  <2> QED BY <2>1, <2>2, <2>3 DEF OneWorkerAndItsNews, H!OneWorkerAndItsNews
<1> QED BY <1>1, HealthInductive, PTL

-----------------------------------------------------------------------------
(***************************************************************************)
(* The audit log: a write and its entry are one transaction, made by the   *)
(* request that has the row.  What a request read is what the row holds    *)
(* where reading locks, and where it does not, something the log has told. *)
(***************************************************************************)
AuditRow == [A!Fields -> Values]
Told(before, after) == A!Entry(A!ActionOf(before, after), A!Recorded(before, after))
AuditEntries == {Told(w[1], w[2]) : w \in (AuditRow \cup {None}) \X (AuditRow \cup {None})}
AuditTypes ==
  /\ a_row \in AuditRow \cup {None}
  /\ a_log \in Seq(AuditEntries)
  /\ a_changes \in [A!Fields -> Nat]
  /\ a_pc \in [AuditRequests -> {"idle", "create", "write", "record", "commit"}]
  /\ a_instance \in [AuditRequests -> AuditRow \cup {None}]
  /\ a_saved \in [AuditRequests -> AuditRow \cup {None}]
  /\ a_entry \in [AuditRequests -> AuditEntries \cup {None}]
Wrote(r) == a_pc[r] \in {"record", "commit"}
OneTransaction ==
  \A r \in AuditRequests :
    /\ a_pc[r] \in {"idle", "create"} => a_holder # r /\ a_instance[r] = None
    /\ a_pc[r] = "write" => a_instance[r] # None
    /\ Wrote(r) => a_holder = r /\ (a_instance[r] = None => a_row = None)
    /\ a_locking /\ (a_pc[r] = "write" \/ Wrote(r)) => a_holder = r /\ a_instance[r] = a_row
    /\ a_pc[r] = "commit" => a_entry[r] = Told(a_instance[r], a_saved[r])
\* The values of a row that is there, and of what a request read, were told.
ToldOf(l, f, value) ==
  \E j \in DOMAIN l : f \in DOMAIN l[j].changes /\ value = l[j].changes[f][2]
FollowsIn(l, locks, value, f, js) ==
  js # {} => IF locks THEN value = l[A!Last(js)].changes[f][2] ELSE \E j \in js : value = l[j].changes[f][2]
ReadIsTold ==
  \A f \in A!Fields : A!Kept(f) = "plain" =>
    /\ a_row # None => ToldOf(a_log, f, A!Snapshot(a_row)[f])
    /\ \A r \in AuditRequests : a_instance[r] # None => ToldOf(a_log, f, A!Snapshot(a_instance[r])[f])
\* Last() of the entries of a field, or of those before one of them, is one of them.
HasLast(js) == js # {} => \E j \in js : \A k \in js : k <= j
LastIsThere ==
  \A f \in A!Fields : HasLast(A!Mentions(f)) /\ \A i \in A!Mentions(f) : HasLast(A!Before(f, i))
AuditIInv == AuditTypes /\ OneTransaction /\ LastIsThere /\ ReadIsTold /\ A!LogTellsTheRow

LEMMA AuditCardinality == ASSUME NEW S PROVE A!Cardinality(S) = Cardinality(S)
  BY Zenon DEF A!Cardinality, Cardinality

LEMMA LastOf == ASSUME NEW js, NEW j \in js, js \subseteq Nat, \A k \in js : k <= j PROVE A!Last(js) = j
<1>1. A!Last(js) \in js /\ \A k \in js : k <= A!Last(js)
  BY Zenon DEF A!Last
<1>2. j <= A!Last(js) /\ A!Last(js) <= j
  BY <1>1
<1>3. j \in Nat /\ A!Last(js) \in Nat
  BY <1>1
<1> QED BY <1>2, <1>3

(* What the entry of a write says of a field.                              *)
LEMMA EntryFacts ==
  ASSUME NEW b \in AuditRow \cup {None}, NEW c \in AuditRow \cup {None}, NEW f \in A!Fields,
         NEW e, e = Told(b, c)
  PROVE  /\ f \in DOMAIN e.changes <=> (A!Kept(f) # "exclude" /\ (b = None \/ c = None \/ b[f] # c[f]))
         /\ f \in DOMAIN e.changes /\ A!Kept(f) = "plain" =>
              e.changes[f][1] = A!Snapshot(b)[f] /\ e.changes[f][2] = A!Snapshot(c)[f]
         /\ f \in DOMAIN e.changes /\ A!Kept(f) = "redact" => {e.changes[f][1], e.changes[f][2]} \subseteq {None, Hidden}
         /\ \A p \in DOMAIN e.metadata :
              (\E k \in DOMAIN p : A!Folded(p[k]) \in Policy.credentials) => e.metadata[p] = Hidden
<1> DEFINE d == A!Recorded(b, c)
           Shows == {g \in A!Fields : A!Kept(g) # "exclude"}
<1>1. /\ Told(b, c).changes = A!Private(d)
      /\ Told(b, c).metadata = A!PrivateMetadata(Metadata)
  BY DEF Told, A!Entry
<1>2. \A i \in AuditRow \cup {None} :
        /\ DOMAIN A!Snapshot(i) = Shows
        /\ \A g \in Shows : A!Snapshot(i)[g] = IF i = None THEN None ELSE i[g]
  BY DEF A!Snapshot
<1> HIDE DEF Shows
<1>3. /\ f \in DOMAIN d <=> (f \in Shows /\ (b = None \/ c = None \/ b[f] # c[f]))
      /\ f \in DOMAIN d => d[f] = <<A!Snapshot(b)[f], A!Snapshot(c)[f]>>
  <2>1. CASE b = None \/ c = None
    <3>1. d = [g \in DOMAIN A!Snapshot(None) |-> <<A!Snapshot(b)[g], A!Snapshot(c)[g]>>]
      BY <2>1 DEF A!Recorded
    <3> QED BY <1>2, <2>1, <3>1
  <2>2. CASE ~(b = None \/ c = None)
    <3>1. d = A!Diff(A!Snapshot(b), A!Snapshot(c))
      BY <2>2 DEF A!Recorded
    <3>2. d = [g \in {h \in Shows : A!Snapshot(b)[h] # A!Snapshot(c)[h]} |-> <<A!Snapshot(b)[g], A!Snapshot(c)[g]>>]
      BY <1>2, <3>1 DEF A!Diff
    <3> QED BY <1>2, <2>2, <3>2
  <2> QED BY <2>1, <2>2
<1> HIDE DEF d
<1>4. /\ DOMAIN A!Private(d) = DOMAIN d
      /\ f \in DOMAIN d => A!Private(d)[f] = IF A!Kept(f) = "redact" THEN <<A!Redacted(d[f][1]), A!Redacted(d[f][2])>> ELSE d[f]
  BY DEF A!Private
<1>5. \A p \in DOMAIN A!PrivateMetadata(Metadata) :
        (\E k \in DOMAIN p : A!Folded(p[k]) \in Policy.credentials) => A!PrivateMetadata(Metadata)[p] = Hidden
  BY DEF A!PrivateMetadata
<1>6. f \in Shows <=> A!Kept(f) # "exclude"
  BY DEF Shows
<1>7. f \in DOMAIN d /\ A!Kept(f) = "plain" => A!Private(d)[f][1] = A!Snapshot(b)[f] /\ A!Private(d)[f][2] = A!Snapshot(c)[f]
  BY <1>3, <1>4
<1>8. f \in DOMAIN d /\ A!Kept(f) = "redact" => {A!Private(d)[f][1], A!Private(d)[f][2]} \subseteq {None, Hidden}
  BY <1>4 DEF A!Redacted
<1> QED BY <1>1, <1>3, <1>4, <1>5, <1>6, <1>7, <1>8

LEMMA ToldIsEntry ==
  ASSUME NEW b \in AuditRow \cup {None}, NEW c \in AuditRow \cup {None}
  PROVE  Told(b, c) \in AuditEntries
<1> DEFINE w == <<b, c>>
<1>1. w \in (AuditRow \cup {None}) \X (AuditRow \cup {None}) /\ w[1] = b /\ w[2] = c
  OBVIOUS
<1> HIDE DEF w
<1>2. Told(w[1], w[2]) \in AuditEntries
  BY <1>1, Zenon DEF AuditEntries
<1> QED BY <1>1, <1>2

LEMMA InitAudit == A!Init => AuditIInv
<1> SUFFICES ASSUME A!Init PROVE AuditIInv
  OBVIOUS
<1>1. /\ a_row = None /\ a_log = <<>> /\ a_holder = None /\ a_changes = [f \in A!Fields |-> 0] /\ a_locking \in BOOLEAN
      /\ a_pc = [r \in AuditRequests |-> "idle"]
      /\ a_instance = [r \in AuditRequests |-> None] /\ a_saved = [r \in AuditRequests |-> None]
      /\ a_entry = [r \in AuditRequests |-> None]
  BY DEF A!Init
<1>2. \A f : A!Mentions(f) = {}
  BY <1>1 DEF A!Mentions
<1>3. AuditTypes
  BY <1>1 DEF AuditTypes
<1>4. OneTransaction /\ LastIsThere /\ ReadIsTold
  BY <1>1, <1>2, AuditAssumption DEF OneTransaction, Wrote, LastIsThere, HasLast, ReadIsTold
<1>5. Cardinality({}) = 0
  BY FS_EmptySet
<1>6. A!LogTellsTheRow
  <2>1. \A f \in A!Fields : A!Cardinality(A!Mentions(f)) = a_changes[f]
    BY <1>1, <1>2, <1>5, AuditCardinality
  <2>2. DOMAIN a_log = {}
    BY <1>1
  <2>3. \A f, value : A!Follows(value, f, A!Mentions(f))
    BY <1>2 DEF A!Follows
  <2> HIDE DEF A!Fields, A!Kept, A!Mentions
  <2> QED BY <1>2, <2>1, <2>2, <2>3 DEF A!LogTellsTheRow
<1> QED BY <1>3, <1>4, <1>6 DEF AuditIInv

(* A step that commits nothing.                                            *)
LEMMA NothingTold ==
  ASSUME AuditIInv, UNCHANGED <<a_row, a_log, a_changes, a_locking>>
  PROVE  LastIsThere' /\ A!LogTellsTheRow' /\ \A f, value : ToldOf(a_log', f, value) <=> ToldOf(a_log, f, value)
<1>1. \A f : A!Mentions(f)' = A!Mentions(f)
  BY DEF A!Mentions
<1>2. \A f, i : A!Before(f, i)' = A!Before(f, i)
  BY <1>1 DEF A!Before
<1>3. LastIsThere'
  BY <1>1, <1>2 DEF AuditIInv, LastIsThere
<1>4. A!LogTellsTheRow'
  <2>1. A!Snapshot(a_row)' = A!Snapshot(a_row)
    OBVIOUS
  <2>2. ASSUME NEW f, NEW js, NEW value PROVE A!Follows(value, f, js)' <=> A!Follows(value, f, js)
    BY DEF A!Follows
  <2> QED BY <1>1, <1>2, <2>1, <2>2 DEF AuditIInv, A!LogTellsTheRow
<1>5. ASSUME NEW f, NEW value PROVE ToldOf(a_log', f, value) <=> ToldOf(a_log, f, value)
  BY DEF ToldOf
<1> QED BY <1>3, <1>4, <1>5

LEMMA BeginAudit ==
  ASSUME AuditIInv, NEW r \in AuditRequests, A!BeginCreate(r) \/ A!Load(r) \/ A!LoadLocked(r)
  PROVE  AuditIInv'
<1>1. /\ UNCHANGED <<a_row, a_log, a_changes, a_locking, a_saved, a_entry>>
      /\ a_pc[r] = "idle" /\ a_instance' = [a_instance EXCEPT ![r] = a_row]
  BY DEF A!Begin, A!BeginCreate, A!Load, A!LoadLocked
<1>2. /\ a_row = None => a_pc' = [a_pc EXCEPT ![r] = "create"] /\ a_holder' = a_holder
      /\ a_row # None => a_pc' = [a_pc EXCEPT ![r] = "write"]
      /\ a_row # None /\ a_locking => a_holder = None /\ a_holder' = r
      /\ a_holder' = a_holder \/ (a_holder = None /\ a_holder' = r /\ a_row # None)
  BY DEF A!BeginCreate, A!Load, A!LoadLocked
<1>3. AuditTypes'
  BY <1>1, <1>2 DEF AuditIInv, AuditTypes
<1>4. OneTransaction'
  <2> SUFFICES ASSUME NEW q \in AuditRequests
               PROVE  /\ a_pc'[q] \in {"idle", "create"} => a_holder' # q /\ a_instance'[q] = None
                      /\ a_pc'[q] = "write" => a_instance'[q] # None
                      /\ Wrote(q)' => a_holder' = q /\ (a_instance'[q] = None => a_row' = None)
                      /\ a_locking' /\ (a_pc'[q] = "write" \/ Wrote(q)') => a_holder' = q /\ a_instance'[q] = a_row'
                      /\ a_pc'[q] = "commit" => a_entry'[q] = Told(a_instance'[q], a_saved'[q])
    BY DEF OneTransaction, Told, A!Entry, A!ActionOf, A!Recorded, A!Snapshot, A!Diff, A!Private, A!Redacted, A!PrivateMetadata
  <2>1. CASE q = r
    BY <1>1, <1>2, <2>1 DEF AuditIInv, AuditTypes, OneTransaction, Wrote
  <2>2. CASE q # r
    <3>1. a_pc'[q] = a_pc[q] /\ a_instance'[q] = a_instance[q] /\ (Wrote(q)' <=> Wrote(q))
      BY <1>1, <1>2, <2>2 DEF AuditIInv, AuditTypes, Wrote
    <3>2. a_holder = q => a_holder' = q
      BY <1>2, AuditAssumption
    <3>3. a_holder # q => a_holder' # q
      BY <1>2, <2>2
    <3> QED BY <1>1, <3>1, <3>2, <3>3 DEF AuditIInv, OneTransaction
  <2> QED BY <2>1, <2>2
<1>5. ReadIsTold'
  <2> SUFFICES ASSUME NEW f \in A!Fields, A!Kept(f) = "plain"
               PROVE  /\ a_row' # None => ToldOf(a_log', f, A!Snapshot(a_row')[f])
                      /\ \A q \in AuditRequests : a_instance'[q] # None => ToldOf(a_log', f, A!Snapshot(a_instance'[q])[f])
    BY DEF ReadIsTold
  <2>1. a_row # None => ToldOf(a_log, f, A!Snapshot(a_row)[f])
    BY DEF AuditIInv, ReadIsTold
  <2>2. \A q \in AuditRequests : a_instance[q] # None => ToldOf(a_log, f, A!Snapshot(a_instance[q])[f])
    BY DEF AuditIInv, ReadIsTold
  <2>3. \A value : ToldOf(a_log', f, value) <=> ToldOf(a_log, f, value)
    BY <1>1, NothingTold
  <2>4. \A q \in AuditRequests : a_instance'[q] \in {a_instance[q], a_row}
    BY <1>1 DEF AuditIInv, AuditTypes
  <2> HIDE DEF ToldOf, A!Snapshot
  <2> QED BY <1>1, <2>1, <2>2, <2>3, <2>4
<1> QED BY <1>1, <1>3, <1>4, <1>5, NothingTold DEF AuditIInv

LEMMA WriteAudit ==
  ASSUME AuditIInv, NEW r \in AuditRequests,
         A!Create(r) \/ A!Update(r) \/ A!Destroy(r) \/ A!Record(r) \/ A!Abort(r)
  PROVE  AuditIInv'
<1>1. UNCHANGED <<a_row, a_log, a_changes, a_locking>>
  BY DEF A!Write, A!Create, A!Update, A!Destroy, A!Record, A!Abort, A!Left
<1>2. /\ a_pc' = [a_pc EXCEPT ![r] = a_pc'[r]] /\ a_pc'[r] \in {"idle", "record", "commit"}
      /\ a_instance' = [a_instance EXCEPT ![r] = a_instance'[r]] /\ a_instance'[r] \in {a_instance[r], None}
      /\ a_saved' = [a_saved EXCEPT ![r] = a_saved'[r]] /\ a_saved'[r] \in AuditRow \cup {None}
      /\ a_entry' = [a_entry EXCEPT ![r] = a_entry'[r]] /\ a_entry'[r] \in AuditEntries \cup {None}
  <2>1. CASE A!Create(r)
    BY <2>1 DEF A!Create, A!Write, AuditRow, AuditIInv, AuditTypes
  <2>2. CASE A!Update(r)
    <3>1. a_instance[r] \in AuditRow
      BY <2>2 DEF A!Update, AuditIInv, AuditTypes, OneTransaction
    <3>2. PICK f \in A!Fields, v \in Values : a_saved' = [a_saved EXCEPT ![r] = [a_instance[r] EXCEPT ![f] = v]]
      BY <2>2 DEF A!Update
    <3>3. [a_instance[r] EXCEPT ![f] = v] \in AuditRow
      BY <3>1 DEF AuditRow
    <3> QED BY <2>2, <3>2, <3>3 DEF A!Update, A!Write, AuditIInv, AuditTypes
  <2>3. CASE A!Destroy(r)
    BY <2>3 DEF A!Destroy, A!Write, AuditIInv, AuditTypes
  <2>4. CASE A!Record(r)
    <3>1. a_entry' = [a_entry EXCEPT ![r] = Told(a_instance[r], a_saved[r])]
      BY <2>4 DEF A!Record, Told
    <3>2. Told(a_instance[r], a_saved[r]) \in AuditEntries
      BY ToldIsEntry DEF AuditIInv, AuditTypes
    <3> QED BY <2>4, <3>1, <3>2 DEF A!Record, AuditIInv, AuditTypes
  <2>5. CASE A!Abort(r)
    BY <2>5 DEF A!Abort, A!Left, AuditIInv, AuditTypes
  <2> QED BY <2>1, <2>2, <2>3, <2>4, <2>5
<1>3. AuditTypes'
  BY <1>1, <1>2 DEF AuditIInv, AuditTypes
<1>4. ASSUME NEW q \in AuditRequests, q # r
      PROVE  a_pc'[q] = a_pc[q] /\ a_instance'[q] = a_instance[q] /\ a_saved'[q] = a_saved[q] /\ a_entry'[q] = a_entry[q]
  BY <1>2, <1>4 DEF AuditIInv, AuditTypes
<1>5. /\ A!Create(r) \/ A!Update(r) \/ A!Destroy(r) \/ A!Record(r) => a_holder' = r /\ a_holder \in {None, r} /\ a_instance' = a_instance
      /\ A!Abort(r) => a_holder' = (IF a_holder = r THEN None ELSE a_holder) /\ a_pc'[r] = "idle" /\ a_instance'[r] = None
  BY DEF A!Write, A!Create, A!Update, A!Destroy, A!Record, A!Abort, A!Left, AuditIInv, AuditTypes, OneTransaction, Wrote
<1>6. OneTransaction'
  <2> SUFFICES ASSUME NEW q \in AuditRequests
               PROVE  /\ a_pc'[q] \in {"idle", "create"} => a_holder' # q /\ a_instance'[q] = None
                      /\ a_pc'[q] = "write" => a_instance'[q] # None
                      /\ Wrote(q)' => a_holder' = q /\ (a_instance'[q] = None => a_row' = None)
                      /\ a_locking' /\ (a_pc'[q] = "write" \/ Wrote(q)') => a_holder' = q /\ a_instance'[q] = a_row'
                      /\ a_pc'[q] = "commit" => a_entry'[q] = Told(a_instance'[q], a_saved'[q])
    BY DEF OneTransaction, Told, A!Entry, A!ActionOf, A!Recorded, A!Snapshot, A!Diff, A!Private, A!Redacted, A!PrivateMetadata
  <2>1. CASE q # r
    <3>1. Wrote(q)' <=> Wrote(q)
      BY <1>4, <2>1 DEF Wrote
    <3>2. a_holder = q => a_holder' = q
      BY <1>5, <2>1, AuditAssumption
    <3>3. a_holder # q => a_holder' # q
      BY <1>5, <2>1, AuditAssumption
    <3> QED BY <1>1, <1>4, <2>1, <3>1, <3>2, <3>3 DEF AuditIInv, OneTransaction
  <2>2. CASE q = r /\ A!Abort(r)
    BY <1>5, <2>2, AuditAssumption DEF Wrote
  <2>3. CASE q = r /\ A!Create(r)
    <3>1. a_pc[r] = "create" /\ a_pc'[r] = "record" /\ a_row = None
      BY <2>3 DEF A!Create, A!Write, AuditIInv, AuditTypes
    <3> QED BY <1>1, <1>5, <2>3, <3>1 DEF AuditIInv, OneTransaction, Wrote
  <2>4. CASE q = r /\ (A!Update(r) \/ A!Destroy(r))
    <3>1. a_pc[r] = "write" /\ a_pc'[r] = "record"
      BY <2>4 DEF A!Update, A!Destroy, A!Write, AuditIInv, AuditTypes
    <3> QED BY <1>1, <1>5, <2>4, <3>1 DEF AuditIInv, OneTransaction, Wrote
  <2>5. CASE q = r /\ A!Record(r)
    <3>1. a_pc[r] = "record" /\ a_pc'[r] = "commit" /\ a_saved' = a_saved /\ a_entry'[r] = Told(a_instance[r], a_saved[r])
      BY <2>5 DEF A!Record, Told, AuditIInv, AuditTypes
    <3> QED BY <1>1, <1>5, <2>5, <3>1 DEF AuditIInv, OneTransaction, Wrote
  <2> QED BY <2>1, <2>2, <2>3, <2>4, <2>5
<1>7. ReadIsTold'
  <2> SUFFICES ASSUME NEW f \in A!Fields, A!Kept(f) = "plain"
               PROVE  /\ a_row' # None => ToldOf(a_log', f, A!Snapshot(a_row')[f])
                      /\ \A q \in AuditRequests : a_instance'[q] # None => ToldOf(a_log', f, A!Snapshot(a_instance'[q])[f])
    BY DEF ReadIsTold
  <2>1. /\ a_row # None => ToldOf(a_log, f, A!Snapshot(a_row)[f])
        /\ \A q \in AuditRequests : a_instance[q] # None => ToldOf(a_log, f, A!Snapshot(a_instance[q])[f])
    BY DEF AuditIInv, ReadIsTold
  <2>2. \A value : ToldOf(a_log', f, value) <=> ToldOf(a_log, f, value)
    BY <1>1, NothingTold
  <2>3. \A q \in AuditRequests : a_instance'[q] \in {a_instance[q], None}
    BY <1>2, <1>4
  <2> HIDE DEF ToldOf, A!Snapshot
  <2> QED BY <1>1, <2>1, <2>2, <2>3
<1> QED BY <1>1, <1>3, <1>6, <1>7, NothingTold DEF AuditIInv

(* The entry of a write goes to the end of the log.                        *)
LEMMA CommitAudit ==
  ASSUME AuditIInv, NEW r \in AuditRequests, A!Commit(r), NEW n, n = Len(a_log) + 1, NEW e, e = Told(a_instance[r], a_saved[r])
  PROVE  AuditIInv'
<1> DEFINE read == a_instance[r]
           wrote == a_saved[r]
           Shows(f) == A!Kept(f) # "exclude" /\ (read = None \/ wrote = None \/ read[f] # wrote[f])
<1>1. /\ a_pc[r] = "commit" /\ a_holder = r /\ a_entry[r] = e /\ wrote \in AuditRow \cup {None}
      /\ read \in AuditRow \cup {None} /\ a_row \in AuditRow \cup {None}
      /\ read = None => a_row = None
      /\ a_locking => read = a_row
      /\ a_row' = wrote /\ a_log' = Append(a_log, e) /\ a_locking' = a_locking
      /\ a_changes' = [f \in A!Fields |-> a_changes[f] + IF a_row = None \/ wrote = None \/ a_row[f] # wrote[f] THEN 1 ELSE 0]
      /\ a_holder' = None /\ a_pc' = [a_pc EXCEPT ![r] = "idle"]
      /\ a_instance' = [a_instance EXCEPT ![r] = None] /\ a_saved' = [a_saved EXCEPT ![r] = None]
      /\ a_entry' = [a_entry EXCEPT ![r] = None]
  BY DEF A!Commit, A!Left, AuditIInv, AuditTypes, OneTransaction, Wrote
<1>2. /\ e \in AuditEntries
      /\ a_log \in Seq(AuditEntries)
  <2>1. a_log \in Seq(AuditEntries)
    BY DEF AuditIInv, AuditTypes
  <2>2. Told(read, wrote) \in AuditEntries
    BY <1>1, ToldIsEntry
  <2> QED BY <2>1, <2>2
<1>3. AuditTypes'
  <2>1. a_changes' \in [A!Fields -> Nat]
    <3>1. \A f \in A!Fields : a_changes[f] \in Nat /\ a_changes[f] + 0 \in Nat /\ a_changes[f] + 1 \in Nat
      BY DEF AuditIInv, AuditTypes
    <3> QED BY <1>1, <3>1
  <2>2. a_pc' \in [AuditRequests -> {"idle", "create", "write", "record", "commit"}]
    BY <1>1 DEF AuditIInv, AuditTypes
  <2>3. a_log' \in Seq(AuditEntries)
    BY <1>1, <1>2
  <2>4. /\ a_row' \in AuditRow \cup {None}
        /\ a_instance' \in [AuditRequests -> AuditRow \cup {None}]
        /\ a_saved' \in [AuditRequests -> AuditRow \cup {None}]
        /\ a_entry' \in [AuditRequests -> AuditEntries \cup {None}]
    BY <1>1 DEF AuditIInv, AuditTypes
  <2> QED BY <2>1, <2>2, <2>3, <2>4 DEF AuditTypes
<1>4. OneTransaction'
  <2> SUFFICES ASSUME NEW q \in AuditRequests
               PROVE  /\ a_pc'[q] \in {"idle", "create"} => a_holder' # q /\ a_instance'[q] = None
                      /\ a_pc'[q] = "write" => a_instance'[q] # None
                      /\ Wrote(q)' => a_holder' = q /\ (a_instance'[q] = None => a_row' = None)
                      /\ a_locking' /\ (a_pc'[q] = "write" \/ Wrote(q)') => a_holder' = q /\ a_instance'[q] = a_row'
                      /\ a_pc'[q] = "commit" => a_entry'[q] = Told(a_instance'[q], a_saved'[q])
    BY DEF OneTransaction, Told, A!Entry, A!ActionOf, A!Recorded, A!Snapshot, A!Diff, A!Private, A!Redacted, A!PrivateMetadata
  <2>1. a_holder' # q
    BY <1>1, AuditAssumption
  <2>2. CASE q = r
    <3>1. a_pc'[q] = "idle" /\ a_instance'[q] = None
      BY <1>1, <2>2 DEF AuditIInv, AuditTypes
    <3> QED BY <2>1, <3>1 DEF Wrote
  <2>3. CASE q # r
    <3>1. a_pc'[q] = a_pc[q] /\ a_instance'[q] = a_instance[q]
      BY <1>1, <2>3 DEF AuditIInv, AuditTypes
    <3>2. a_holder # q
      BY <1>1, <2>3
    <3>3. a_pc[q] \in {"idle", "create", "write"} /\ ~(a_locking /\ a_pc[q] = "write")
      BY <3>2 DEF AuditIInv, AuditTypes, OneTransaction, Wrote
    <3> QED BY <1>1, <2>1, <3>1, <3>3 DEF AuditIInv, OneTransaction, Wrote
  <2> QED BY <2>2, <2>3
<1>5. /\ n \in Nat /\ DOMAIN a_log' = DOMAIN a_log \cup {n} /\ a_log'[n] = e /\ n \notin DOMAIN a_log
      /\ \A i \in DOMAIN a_log : i \in Nat /\ i < n /\ a_log'[i] = a_log[i]
  <2>1. a_log' = Append(a_log, e) /\ a_log \in Seq(AuditEntries) /\ e \in AuditEntries
    BY <1>1, <1>2
  <2> QED BY <2>1
<1>6. ASSUME NEW f \in A!Fields
      PROVE  /\ (f \in DOMAIN e.changes) <=> Shows(f)
             /\ f \in DOMAIN e.changes /\ A!Kept(f) = "plain" =>
                  e.changes[f][1] = A!Snapshot(read)[f] /\ e.changes[f][2] = A!Snapshot(wrote)[f]
             /\ f \in DOMAIN e.changes /\ A!Kept(f) = "redact" => {e.changes[f][1], e.changes[f][2]} \subseteq {None, Hidden}
             /\ \A p \in DOMAIN e.metadata :
                  (\E k \in DOMAIN p : A!Folded(p[k]) \in Policy.credentials) => e.metadata[p] = Hidden
  <2>1. read \in AuditRow \cup {None} /\ wrote \in AuditRow \cup {None} /\ e = Told(read, wrote)
    BY <1>1
  <2> HIDE DEF read, wrote
  <2> QED BY <2>1, EntryFacts, SMTT(60)
<1> HIDE DEF Shows
<1>7. ASSUME NEW f \in A!Fields
      PROVE  A!Mentions(f)' = IF Shows(f) THEN A!Mentions(f) \cup {n} ELSE A!Mentions(f)
  <2>1. A!Mentions(f)' = {i \in DOMAIN a_log' : f \in DOMAIN a_log'[i].changes}
    BY DEF A!Mentions
  <2>2. A!Mentions(f) = {i \in DOMAIN a_log : f \in DOMAIN a_log[i].changes}
    BY DEF A!Mentions
  <2> QED BY <1>5, <1>6, <2>1, <2>2
<1>8. ASSUME NEW f \in A!Fields
      PROVE  /\ A!Mentions(f) \subseteq DOMAIN a_log /\ A!Mentions(f) \subseteq Nat
             /\ n \notin A!Mentions(f)
             /\ \A i \in A!Mentions(f) : A!Before(f, i)' = A!Before(f, i)
             /\ Shows(f) => A!Before(f, n)' = A!Mentions(f)
  <2>1. A!Mentions(f) \subseteq DOMAIN a_log /\ A!Mentions(f) \subseteq Nat /\ n \notin A!Mentions(f)
    BY <1>5 DEF A!Mentions
  <2>2. \A i \in A!Mentions(f) : i < n /\ ~(n < i)
    BY <1>5, <2>1
  <2>3. \A i : A!Before(f, i)' = {j \in A!Mentions(f)' : j < i}
    BY <1>7 DEF A!Before
  <2>4. \A i : A!Before(f, i) = {j \in A!Mentions(f) : j < i}
    BY DEF A!Before
  <2>5. ~(n < n)
    BY <1>5
  <2> HIDE DEF A!Mentions
  <2>6. \A i \in A!Mentions(f) : A!Before(f, i)' = A!Before(f, i)
    <3> SUFFICES ASSUME NEW i \in A!Mentions(f) PROVE {j \in A!Mentions(f)' : j < i} = {j \in A!Mentions(f) : j < i}
      BY <2>3, <2>4
    <3>1. ~(n < i)
      BY <2>2
    <3> QED BY <1>7, <3>1
  <2>7. A!Before(f, n)' = A!Mentions(f)
    BY <1>7, <2>2, <2>3, <2>5
  <2> QED BY <2>1, <2>6, <2>7
<1>9. ASSUME NEW f \in A!Fields
      PROVE  /\ A!Mentions(f) # {} => A!Last(A!Mentions(f)) \in A!Mentions(f)
             /\ \A i \in A!Mentions(f) : A!Before(f, i) # {} => A!Last(A!Before(f, i)) \in A!Mentions(f)
             /\ Shows(f) => A!Last(A!Mentions(f)') = n /\ HasLast(A!Mentions(f)')
             /\ ~Shows(f) => A!Mentions(f)' = A!Mentions(f)
  <2>1. ASSUME NEW js, HasLast(js), js # {}, js \subseteq A!Mentions(f) PROVE A!Last(js) \in A!Mentions(f)
    <3>1. PICK j \in js : \A k \in js : k <= j
      BY <2>1 DEF HasLast
    <3> HIDE DEF A!Mentions
    <3> QED BY <1>8, <2>1, <3>1, LastOf
  <2>2. Shows(f) => A!Last(A!Mentions(f)') = n /\ HasLast(A!Mentions(f)')
    <3> SUFFICES ASSUME Shows(f) PROVE A!Last(A!Mentions(f)') = n /\ HasLast(A!Mentions(f)')
      OBVIOUS
    <3> DEFINE js == A!Mentions(f)'
    <3>1. js = A!Mentions(f) \cup {n}
      BY <1>7
    <3>2. \A k \in A!Mentions(f) : k \in Nat /\ k <= n
      BY <1>5, <1>8
    <3> HIDE DEF js
    <3>3. n \in js /\ js \subseteq Nat /\ \A k \in js : k <= n
      BY <1>5, <3>1, <3>2
    <3>4. A!Last(js) = n /\ HasLast(js)
      BY <3>3, LastOf DEF HasLast
    <3> QED BY <3>4 DEF js
  <2>3. \A i : A!Before(f, i) \subseteq A!Mentions(f)
    BY DEF A!Before
  <2>4. HasLast(A!Mentions(f)) /\ \A i \in A!Mentions(f) : HasLast(A!Before(f, i))
    BY DEF AuditIInv, LastIsThere
  <2> HIDE DEF A!Mentions, A!Before
  <2> QED BY <1>7, <2>1, <2>2, <2>3, <2>4
<1>10. LastIsThere'
  <2> SUFFICES ASSUME NEW f \in A!Fields
               PROVE  HasLast(A!Mentions(f)') /\ \A i \in A!Mentions(f)' : HasLast(A!Before(f, i)')
    BY DEF LastIsThere, HasLast
  <2>1. HasLast(A!Mentions(f)) /\ \A i \in A!Mentions(f) : HasLast(A!Before(f, i))
    BY DEF AuditIInv, LastIsThere
  <2> HIDE DEF A!Mentions, A!Before
  <2>2. \A i \in A!Mentions(f)' : A!Before(f, i)' = A!Mentions(f) \/ (i \in A!Mentions(f) /\ A!Before(f, i)' = A!Before(f, i))
    BY <1>7, <1>8
  <2> QED BY <1>9, <2>1, <2>2
<1>11. ASSUME NEW f \in A!Fields, A!Kept(f) = "plain"
       PROVE  /\ \A i \in A!Mentions(f)' : FollowsIn(a_log', a_locking', a_log'[i].changes[f][1], f, A!Before(f, i)')
              /\ FollowsIn(a_log', a_locking', A!Snapshot(a_row')[f], f, A!Mentions(f)')
              /\ wrote # None => ToldOf(a_log', f, A!Snapshot(wrote)[f])
              /\ \A value : ToldOf(a_log, f, value) => ToldOf(a_log', f, value)
  <2>1. Shows(f) => e.changes[f][1] = A!Snapshot(read)[f] /\ e.changes[f][2] = A!Snapshot(wrote)[f]
    BY <1>6, <1>11
  <2>2. ~Shows(f) => read # None /\ A!Snapshot(wrote)[f] = A!Snapshot(read)[f]
    BY <1>1, <1>11 DEF Shows, A!Snapshot
  <2>3. A!Follows(A!Snapshot(read)[f], f, A!Mentions(f))
    <3>1. A!Follows(A!Snapshot(a_row)[f], f, A!Mentions(f))
      BY <1>11 DEF AuditIInv, A!LogTellsTheRow
    <3>2. CASE read = a_row
      BY <3>1, <3>2
    <3>3. CASE read # a_row
      <4>1. ToldOf(a_log, f, A!Snapshot(read)[f]) /\ ~a_locking
        BY <1>1, <1>11, <3>3 DEF AuditIInv, ReadIsTold
      <4> QED BY <4>1 DEF ToldOf, A!Follows, A!Mentions
    <3> QED BY <3>2, <3>3
  <2>4. ASSUME NEW js, js \subseteq A!Mentions(f), js # {} => A!Last(js) \in A!Mentions(f), NEW value, A!Follows(value, f, js)
        PROVE  js # {} => IF a_locking THEN value = a_log'[A!Last(js)].changes[f][2] ELSE \E j \in js : value = a_log'[j].changes[f][2]
    <3>1. \A j \in A!Mentions(f) : a_log'[j] = a_log[j]
      BY <1>5, <1>8
    <3> QED BY <2>4, <3>1 DEF A!Follows
  <2>5. ASSUME NEW i \in A!Mentions(f)'
        PROVE  FollowsIn(a_log', a_locking', a_log'[i].changes[f][1], f, A!Before(f, i)')
    <3> DEFINE js == A!Before(f, i)'
    <3>1. CASE i \in A!Mentions(f)
      <4>1. A!Follows(a_log[i].changes[f][1], f, A!Before(f, i)) /\ js = A!Before(f, i)
        BY <1>8, <1>11, <3>1 DEF AuditIInv, A!LogTellsTheRow
      <4>2. js \subseteq A!Mentions(f) /\ (js # {} => A!Last(js) \in A!Mentions(f))
        BY <1>9, <3>1, <4>1 DEF A!Before
      <4>3. a_log'[i] = a_log[i]
        BY <1>5, <1>8, <3>1
      <4>4. a_locking' = a_locking
        BY <1>1
      <4> HIDE DEF js
      <4>5. A!Follows(a_log'[i].changes[f][1], f, js)
        BY <4>1, <4>3
      <4>6. js # {} => IF a_locking THEN a_log'[i].changes[f][1] = a_log'[A!Last(js)].changes[f][2]
                       ELSE \E j \in js : a_log'[i].changes[f][1] = a_log'[j].changes[f][2]
        BY <2>4, <4>2, <4>5
      <4> QED BY <4>4, <4>6 DEF FollowsIn, js
    <3>2. CASE i \notin A!Mentions(f)
      <4>1. i = n /\ Shows(f) /\ js = A!Mentions(f) /\ a_log'[i] = e
        BY <1>5, <1>7, <1>8, <3>2
      <4>2. js \subseteq A!Mentions(f) /\ (js # {} => A!Last(js) \in A!Mentions(f))
        BY <1>9, <4>1
      <4>3. a_locking' = a_locking
        BY <1>1
      <4> HIDE DEF js
      <4>4. A!Follows(a_log'[i].changes[f][1], f, js)
        BY <2>1, <2>3, <4>1
      <4>5. js # {} => IF a_locking THEN a_log'[i].changes[f][1] = a_log'[A!Last(js)].changes[f][2]
                       ELSE \E j \in js : a_log'[i].changes[f][1] = a_log'[j].changes[f][2]
        BY <2>4, <4>2, <4>4
      <4> QED BY <4>3, <4>5 DEF FollowsIn, js
    <3> QED BY <3>1, <3>2
  <2>7. ASSUME NEW value, ToldOf(a_log, f, value) PROVE ToldOf(a_log', f, value)
    <3>1. PICK j \in A!Mentions(f) : value = a_log[j].changes[f][2]
      BY <2>7 DEF ToldOf, A!Mentions
    <3>2. j \in A!Mentions(f)' /\ a_log'[j] = a_log[j]
      BY <1>5, <1>7, <1>8
    <3> QED BY <3>1, <3>2 DEF ToldOf, A!Mentions
  <2>6. /\ FollowsIn(a_log', a_locking', A!Snapshot(a_row')[f], f, A!Mentions(f)')
        /\ wrote # None => ToldOf(a_log', f, A!Snapshot(wrote)[f])
    <3> DEFINE js == A!Mentions(f)'
    <3>1. CASE Shows(f)
      <4>1. n \in js /\ A!Last(js) = n /\ a_log'[n] = e /\ a_row' = wrote
        BY <1>1, <1>5, <1>7, <1>9, <3>1
      <4>2. a_log'[n].changes[f][2] = A!Snapshot(wrote)[f]
        BY <2>1, <3>1, <4>1
      <4> HIDE DEF js
      <4>3. ToldOf(a_log', f, A!Snapshot(wrote)[f])
        BY <4>1, <4>2 DEF ToldOf, js, A!Mentions
      <4> QED BY <4>1, <4>2, <4>3 DEF FollowsIn, js
    <3>2. CASE ~Shows(f)
      <4>1. js = A!Mentions(f) /\ a_row' = wrote /\ a_locking' = a_locking /\ A!Snapshot(wrote)[f] = A!Snapshot(read)[f]
        BY <1>1, <1>9, <2>2, <3>2
      <4>2. js # {} => A!Last(js) \in A!Mentions(f)
        BY <1>9, <4>1
      <4> DEFINE value == A!Snapshot(wrote)[f]
      <4>3. A!Snapshot(a_row')[f] = value /\ A!Follows(value, f, js)
        BY <2>3, <4>1
      <4>5. read # None /\ ToldOf(a_log, f, value)
        BY <1>11, <2>2, <3>2, <4>1 DEF AuditIInv, ReadIsTold
      <4>6. ToldOf(a_log', f, value)
        BY <2>7, <4>5
      <4> HIDE DEF js, value
      <4>4. js # {} => IF a_locking THEN value = a_log'[A!Last(js)].changes[f][2] ELSE \E j \in js : value = a_log'[j].changes[f][2]
        BY <2>4, <4>1, <4>2, <4>3
      <4>7. FollowsIn(a_log', a_locking', A!Snapshot(a_row')[f], f, A!Mentions(f)')
        BY <4>1, <4>3, <4>4 DEF FollowsIn, js
      <4> QED BY <4>6, <4>7 DEF value
    <3> QED BY <3>1, <3>2
  <2> QED BY <2>5, <2>6, <2>7
<1>12. ASSUME NEW f \in A!Fields, A!Kept(f) # "exclude", a_locking
       PROVE  Cardinality(A!Mentions(f)') = a_changes'[f]
  <2>1. Cardinality(A!Mentions(f)) = a_changes[f] /\ a_changes[f] \in Nat
    BY <1>12, AuditCardinality DEF AuditIInv, AuditTypes, A!LogTellsTheRow
  <2>2. IsFiniteSet(A!Mentions(f))
    <3>1. DOMAIN a_log = 1..Len(a_log) /\ Len(a_log) \in Nat
      BY <1>2
    <3>2. IsFiniteSet(1..Len(a_log))
      BY <3>1, FS_Interval
    <3> QED BY <1>8, <3>1, <3>2, FS_Subset
  <2>3. a_changes'[f] = a_changes[f] + IF Shows(f) THEN 1 ELSE 0
    BY <1>1, <1>12 DEF Shows
  <2>4. CASE Shows(f)
    <3>1. Cardinality(A!Mentions(f) \cup {n}) = Cardinality(A!Mentions(f)) + 1
      BY <1>8, <2>2, FS_AddElement
    <3> QED BY <1>7, <2>1, <2>3, <2>4, <3>1
  <2>5. CASE ~Shows(f)
    BY <1>9, <2>1, <2>3, <2>5
  <2> QED BY <2>4, <2>5
<1>13. ASSUME NEW f \in A!Fields, A!Kept(f) = "redact", NEW i \in A!Mentions(f)'
       PROVE  {a_log'[i].changes[f][1], a_log'[i].changes[f][2]} \subseteq {None, Hidden}
  <2>1. CASE i \in A!Mentions(f)
    BY <1>5, <1>8, <1>13, <2>1 DEF AuditIInv, A!LogTellsTheRow
  <2>2. CASE i \notin A!Mentions(f)
    <3>1. i = n /\ Shows(f)
      BY <1>7, <1>13, <2>2
    <3>2. {e.changes[f][1], e.changes[f][2]} \subseteq {None, Hidden}
      BY <1>6, <1>13, <3>1
    <3> QED BY <1>5, <3>1, <3>2
  <2> QED BY <2>1, <2>2
<1>14. ASSUME NEW f \in A!Fields, A!Kept(f) = "exclude" PROVE A!Mentions(f)' = {}
  BY <1>7, <1>14 DEF Shows, AuditIInv, A!LogTellsTheRow
<1>15. ASSUME NEW f \in A!Fields, NEW i \in DOMAIN a_log', NEW p \in DOMAIN a_log'[i].metadata,
              \E k \in DOMAIN p : A!Folded(p[k]) \in Policy.credentials
       PROVE  a_log'[i].metadata[p] = Hidden
  <2>1. CASE i \in DOMAIN a_log
    BY <1>5, <1>15, <2>1 DEF AuditIInv, A!LogTellsTheRow
  <2>2. CASE i \notin DOMAIN a_log
    <3>1. a_log'[i] = e
      BY <1>5, <2>2
    <3> QED BY <1>6, <1>15, <3>1
  <2> QED BY <2>1, <2>2
<1>16. A!LogTellsTheRow'
  <2>1. a_locking' = a_locking
    BY <1>1
  <2> HIDE DEF A!Mentions, A!Before, A!Snapshot, A!Last, ToldOf
  <2> QED BY <1>11, <1>12, <1>13, <1>14, <1>15, <2>1, AuditCardinality DEF A!LogTellsTheRow, A!Follows, FollowsIn
<1>17. ReadIsTold'
  <2> SUFFICES ASSUME NEW f \in A!Fields, A!Kept(f) = "plain"
               PROVE  /\ a_row' # None => ToldOf(a_log', f, A!Snapshot(a_row')[f])
                      /\ \A q \in AuditRequests : a_instance'[q] # None => ToldOf(a_log', f, A!Snapshot(a_instance'[q])[f])
    BY DEF ReadIsTold
  <2>1. a_row' = wrote /\ \A q \in AuditRequests : a_instance'[q] \in {a_instance[q], None}
    BY <1>1 DEF AuditIInv, AuditTypes
  <2>2. \A q \in AuditRequests : a_instance[q] # None => ToldOf(a_log, f, A!Snapshot(a_instance[q])[f])
    BY DEF AuditIInv, ReadIsTold
  <2> HIDE DEF ToldOf, A!Snapshot, wrote
  <2> QED BY <1>11, <2>1, <2>2
<1> QED BY <1>3, <1>4, <1>10, <1>16, <1>17 DEF AuditIInv

LEMMA AuditInductive == A!Spec => []AuditIInv
<1>1. AuditIInv /\ [A!Next]_(A!vars) => AuditIInv'
  <2> SUFFICES ASSUME AuditIInv, [A!Next]_(A!vars) PROVE AuditIInv'
    OBVIOUS
  <2>1. CASE A!Next
    <3>1. PICK r \in AuditRequests :
            \/ A!BeginCreate(r) \/ A!Load(r) \/ A!LoadLocked(r)
            \/ A!Create(r) \/ A!Update(r) \/ A!Destroy(r) \/ A!Record(r) \/ A!Commit(r) \/ A!Abort(r)
      BY <2>1 DEF A!Next
    <3> QED BY <3>1, BeginAudit, WriteAudit, CommitAudit
  <2>2. CASE UNCHANGED A!vars
    <3>1. UNCHANGED <<a_row, a_log, a_changes, a_locking, a_holder, a_pc, a_instance, a_saved, a_entry>>
      BY <2>2 DEF A!vars
    <3>2. ReadIsTold'
      BY <3>1, NothingTold DEF AuditIInv, ReadIsTold
    <3> QED BY <3>1, <3>2, NothingTold DEF AuditIInv, AuditTypes, OneTransaction, Wrote
  <2> QED BY <2>1, <2>2
<1> QED BY <1>1, InitAudit, PTL DEF A!Spec

-----------------------------------------------------------------------------
(***************************************************************************)
(* A unit of work.  Blocks are numbered as they are entered, so what was   *)
(* written or published in a block has the numbers of those around it.     *)
(***************************************************************************)
UBlock == [kind : {"unit", "service", "save"}, who : DOMAIN Units \cup {"save", "remove"}, db : U!Databases,
           id : Nat, step : {"begin", "row", "done"}, before : SUBSET Nat, hooked : Nat]
UWrite(ids) == [within : SUBSET ids, call : ids, part : {"row", "relations", "removal"}]
UEvent(ids) == [within : SUBSET ids, to : Nat]
UCall == [of : Nat, nth : Nat]
UnitsTypes ==
  /\ u_blocks \in Seq(UBlock) /\ u_entered \in Seq(U!Databases) /\ u_undone \subseteq 1..Len(u_entered)
  /\ u_written \in Seq(UWrite(1..Len(u_entered))) /\ u_published \in Seq(UEvent(1..Len(u_entered)))
  /\ u_hooks \in Seq(UCall) /\ u_calls \in Seq(UCall) /\ u_told \in Seq(UCall) /\ u_dropped \subseteq UCall
  /\ u_rows \subseteq Nat /\ u_handlers \in [Events -> Seq(Handlers)]
Numbered ==
  /\ \A b \in DOMAIN u_blocks : /\ u_blocks[b].id \in 1..Len(u_entered) /\ u_entered[u_blocks[b].id] = u_blocks[b].db
                                /\ u_blocks[b].id \notin u_undone
                                /\ u_blocks[b].kind # "unit" => u_blocks[b].db = Repository
  /\ \A a, b \in DOMAIN u_blocks : a < b => u_blocks[a].id < u_blocks[b].id /\ u_blocks[a].kind # "save"
\* Units are around services, services around saves; and calls run when nothing but units is open.
Nested ==
  /\ \A a, b \in DOMAIN u_blocks : a < b /\ u_blocks[a].kind = "service" => u_blocks[b].kind = "save"
  /\ u_calls # <<>> => \A b \in DOMAIN u_blocks : u_blocks[b].kind = "unit"
\* A write knows the blocks around it; each block knows the rows of before it.
Rows ==
  /\ u_rows = {i \in DOMAIN u_written : u_written[i].within \cap u_undone = {}}
  /\ \A i \in DOMAIN u_written : \A w \in u_written[i].within : u_entered[w] = Repository
  /\ \A b \in DOMAIN u_blocks : u_blocks[b].db = Repository =>
       /\ \A i \in DOMAIN u_written : u_blocks[b].id \in u_written[i].within \/ \A w \in u_written[i].within : w < u_blocks[b].id
       /\ u_blocks[b].before = {i \in u_rows : u_blocks[b].id \notin u_written[i].within}
\* The row of a save is followed by its relations, or undone with it.
Saves ==
  /\ \A i \in DOMAIN u_written : u_written[i].part # "removal" => u_written[i].call \in u_written[i].within
  /\ \A i \in DOMAIN u_written, b \in DOMAIN u_blocks :
       u_blocks[b].kind = "save" /\ u_blocks[b].id = u_written[i].call => u_written[i].within = U!Within(Repository)
  /\ \A i \in DOMAIN u_written : u_written[i].part = "row" =>
       \/ u_written[i].call \in u_undone
       \/ \E b \in DOMAIN u_blocks : u_blocks[b].kind = "save" /\ u_blocks[b].id = u_written[i].call /\ u_blocks[b].step = "row"
       \/ \E j \in DOMAIN u_written : /\ u_written[j].part = "relations" /\ u_written[j].call = u_written[i].call
                                      /\ u_written[j].within = u_written[i].within
\* An event, too, knows the blocks around it.
Publications ==
  /\ \A n \in DOMAIN u_published : \A w \in u_published[n].within : u_entered[w] = Queue
  /\ \A n \in DOMAIN u_published, b \in DOMAIN u_blocks : u_blocks[b].db = Queue =>
       u_blocks[b].id \in u_published[n].within \/ \A w \in u_published[n].within : w < u_blocks[b].id
\* A call is waiting, running, told or dropped, and once; or it was undone.
Around(c) == u_published[c.of].within
Made == {c \in UCall : c.of \in DOMAIN u_published /\ c.nth \in 1..u_published[c.of].to}
Once(s) == \A i, j \in DOMAIN s : s[i] = s[j] => i = j
OneFate ==
  /\ Range(u_hooks) \cup Range(u_calls) \cup Range(u_told) \cup u_dropped \subseteq Made
  /\ Once(u_hooks) /\ Once(u_calls) /\ Once(u_told)
  /\ Range(u_hooks) \cap (Range(u_calls) \cup Range(u_told) \cup u_dropped) = {}
  /\ Range(u_calls) \cap (Range(u_told) \cup u_dropped) = {}
  /\ Range(u_told) \cap u_dropped = {}
  /\ \A c \in Range(u_hooks) \cup Range(u_calls) \cup Range(u_told) : Around(c) \cap u_undone = {}
  /\ \A c \in Made : Around(c) \cap u_undone = {} => c \in Range(u_hooks) \cup Range(u_calls) \cup Range(u_told) \cup u_dropped
\* The hooks are those of the transaction that is open; each block knows how many came before it.
Hooked ==
  /\ (\A b \in DOMAIN u_blocks : u_blocks[b].db # Queue) => u_hooks = <<>>
  /\ \A b \in DOMAIN u_blocks : u_blocks[b].db = Queue =>
       /\ u_calls = <<>> /\ u_blocks[b].hooked <= Len(u_hooks)
       /\ \A k \in DOMAIN u_hooks : (k > u_blocks[b].hooked) <=> (u_blocks[b].id \in Around(u_hooks[k]))
       /\ (\A a \in DOMAIN u_blocks : u_blocks[a].db = Queue => b <= a) => u_blocks[b].hooked = 0
       /\ \A i \in DOMAIN u_told : \A w \in Around(u_told[i]) : w < u_blocks[b].id
InTurn(c, d) == Around(c) \cap Around(d) # {} => c.of < d.of \/ (c.of = d.of /\ c.nth < d.nth)
Turns ==
  /\ \A i, j \in DOMAIN u_told : i < j => InTurn(u_told[i], u_told[j])
  /\ \A i, j \in DOMAIN u_calls : i < j => InTurn(u_calls[i], u_calls[j])
  /\ \A i, j \in DOMAIN u_hooks : i < j => InTurn(u_hooks[i], u_hooks[j])
  /\ \A i \in DOMAIN u_told, j \in DOMAIN u_calls : InTurn(u_told[i], u_calls[j])
  /\ \A i \in DOMAIN u_told, j \in DOMAIN u_hooks : Around(u_told[i]) \cap Around(u_hooks[j]) = {}
UnitsIInv == UnitsTypes /\ Numbered /\ Nested /\ Rows /\ Saves /\ Publications /\ OneFate /\ Hooked /\ Turns

LEMMA UnitsCardinality == \A S : U!Cardinality(S) = Cardinality(S)
  BY Zenon DEF U!Cardinality, Cardinality

(* What is open, without counting.                                         *)
LEMMA OpenBlocks ==
  ASSUME u_blocks \in Seq(UBlock), NEW base
  PROVE  /\ U!Open(base) = {b \in DOMAIN u_blocks : u_blocks[b].db = base}
         /\ U!Within(base) = {u_blocks[b].id : b \in {c \in DOMAIN u_blocks : u_blocks[c].db = base}}
         /\ U!InAtomicBlock(base) <=> \E b \in DOMAIN u_blocks : u_blocks[b].db = base
         /\ DOMAIN u_blocks = 1..Len(u_blocks) /\ Len(u_blocks) \in Nat
<1>1. DOMAIN u_blocks = 1..Len(u_blocks) /\ Len(u_blocks) \in Nat
  OBVIOUS
<1>2. U!Open(base) = {b \in DOMAIN u_blocks : u_blocks[b].db = base}
  BY <1>1 DEF U!Open
<1> QED BY <1>1, <1>2 DEF U!Within, U!InAtomicBlock

(* The types of what the sequences hold.                                   *)
LEMMA HeldTypes ==
  ASSUME UnitsTypes
  PROVE  /\ Len(u_entered) \in Nat /\ DOMAIN u_entered = 1..Len(u_entered)
         /\ \A b \in DOMAIN u_blocks : /\ u_blocks[b] \in UBlock /\ u_blocks[b].id \in Nat /\ u_blocks[b].hooked \in Nat
                                       /\ u_blocks[b].db \in U!Databases
         /\ \A i \in DOMAIN u_written : u_written[i].within \subseteq 1..Len(u_entered) /\ u_written[i].call \in 1..Len(u_entered)
         /\ DOMAIN u_written = 1..Len(u_written) /\ Len(u_written) \in Nat
         /\ \A n \in DOMAIN u_published : u_published[n].within \subseteq 1..Len(u_entered) /\ u_published[n].to \in Nat
         /\ DOMAIN u_published = 1..Len(u_published) /\ Len(u_published) \in Nat
         /\ DOMAIN u_hooks = 1..Len(u_hooks) /\ Len(u_hooks) \in Nat /\ \A k \in DOMAIN u_hooks : u_hooks[k] \in UCall
         /\ DOMAIN u_calls = 1..Len(u_calls) /\ Len(u_calls) \in Nat /\ \A k \in DOMAIN u_calls : u_calls[k] \in UCall
         /\ DOMAIN u_told = 1..Len(u_told) /\ Len(u_told) \in Nat /\ \A k \in DOMAIN u_told : u_told[k] \in UCall
<1>1. Len(u_entered) \in Nat /\ DOMAIN u_entered = 1..Len(u_entered)
  BY DEF UnitsTypes
<1>2. ASSUME NEW b \in DOMAIN u_blocks
      PROVE  /\ u_blocks[b] \in UBlock /\ u_blocks[b].id \in Nat /\ u_blocks[b].hooked \in Nat /\ u_blocks[b].db \in U!Databases
  <2>1. u_blocks[b] \in UBlock
    BY DEF UnitsTypes
  <2> QED BY <2>1 DEF UBlock
<1>3. ASSUME NEW i \in DOMAIN u_written
      PROVE  u_written[i].within \subseteq 1..Len(u_entered) /\ u_written[i].call \in 1..Len(u_entered)
  <2>1. u_written[i] \in UWrite(1..Len(u_entered))
    BY DEF UnitsTypes
  <2> QED BY <2>1 DEF UWrite
<1>4. ASSUME NEW n \in DOMAIN u_published
      PROVE  u_published[n].within \subseteq 1..Len(u_entered) /\ u_published[n].to \in Nat
  <2>1. u_published[n] \in UEvent(1..Len(u_entered))
    BY DEF UnitsTypes
  <2> QED BY <2>1 DEF UEvent
<1>5. /\ DOMAIN u_written = 1..Len(u_written) /\ Len(u_written) \in Nat
      /\ DOMAIN u_published = 1..Len(u_published) /\ Len(u_published) \in Nat
  BY DEF UnitsTypes
<1>6. /\ DOMAIN u_hooks = 1..Len(u_hooks) /\ Len(u_hooks) \in Nat /\ \A k \in DOMAIN u_hooks : u_hooks[k] \in UCall
      /\ DOMAIN u_calls = 1..Len(u_calls) /\ Len(u_calls) \in Nat /\ \A k \in DOMAIN u_calls : u_calls[k] \in UCall
      /\ DOMAIN u_told = 1..Len(u_told) /\ Len(u_told) \in Nat /\ \A k \in DOMAIN u_told : u_told[k] \in UCall
  BY DEF UnitsTypes
<1> QED BY <1>1, <1>2, <1>3, <1>4, <1>5, <1>6

LEMMA MoreIds ==
  ASSUME NEW I, NEW J, I \subseteq J
  PROVE  Seq(UWrite(I)) \subseteq Seq(UWrite(J)) /\ Seq(UEvent(I)) \subseteq Seq(UEvent(J))
<1>1. UWrite(I) \subseteq UWrite(J) /\ UEvent(I) \subseteq UEvent(J)
  BY DEF UWrite, UEvent
<1> QED BY <1>1

LEMMA InitUnits == U!Init => UnitsIInv
<1> SUFFICES ASSUME U!Init PROVE UnitsIInv
  OBVIOUS
<1>1. /\ u_blocks = <<>> /\ u_rows = {} /\ u_hooks = <<>> /\ u_calls = <<>> /\ u_told = <<>> /\ u_dropped = {}
      /\ u_handlers = [e \in Events |-> <<>>]
      /\ u_entered = <<>> /\ u_undone = {} /\ u_written = <<>> /\ u_published = <<>>
  BY DEF U!Init
<1>2. \A S : <<>> \in Seq(S)
  OBVIOUS
<1>3. DOMAIN <<>> = {} /\ Range(<<>>) = {}
  BY DEF Range
<1>4. UnitsTypes
  BY <1>1, <1>2 DEF UnitsTypes
<1>5. Numbered /\ Nested /\ Rows /\ Saves /\ Publications
  BY <1>1, <1>3 DEF Numbered, Nested, Rows, Saves, Publications
<1>6. OneFate
  BY <1>1, <1>3 DEF OneFate, Made, Once
<1>7. Hooked /\ Turns
  BY <1>1, <1>3 DEF Hooked, Turns
<1> QED BY <1>4, <1>5, <1>6, <1>7 DEF UnitsIInv

LEMMA TurnsStay ==
  ASSUME Turns, u_told' = u_told, u_calls' = u_calls, u_hooks' = u_hooks, u_published' = u_published
  PROVE  Turns'
<1>1. /\ \A i, j \in DOMAIN u_told' : i < j => InTurn(u_told[i], u_told[j])'
      /\ \A i, j \in DOMAIN u_calls' : i < j => InTurn(u_calls[i], u_calls[j])'
      /\ \A i, j \in DOMAIN u_hooks' : i < j => InTurn(u_hooks[i], u_hooks[j])'
  BY DEF Turns, Around, InTurn
<1>2. /\ \A i \in DOMAIN u_told', j \in DOMAIN u_calls' : InTurn(u_told[i], u_calls[j])'
      /\ \A i \in DOMAIN u_told', j \in DOMAIN u_hooks' : Around(u_told[i])' \cap Around(u_hooks[j])' = {}
  BY DEF Turns, Around, InTurn
<1> QED BY <1>1, <1>2 DEF Turns

LEMMA StillUnits ==
  ASSUME UnitsIInv, UNCHANGED <<u_blocks, u_rows, u_hooks, u_calls, u_entered, u_undone, u_written, u_published, u_told, u_dropped>>,
         u_handlers' \in [Events -> Seq(Handlers)]
  PROVE  UnitsIInv'
<1>1. UnitsTypes' /\ Numbered' /\ Nested' /\ Rows'
  BY DEF UnitsIInv, UnitsTypes, Numbered, Nested, Rows
<1>2. Saves' /\ Publications'
  BY DEF UnitsIInv, Saves, Publications, U!Within, U!Open
<1>3. OneFate'
  BY DEF UnitsIInv, OneFate, Made, Around
<1>4. Hooked'
  BY DEF UnitsIInv, Hooked, Around
<1>5. Turns'
  BY TurnsStay DEF UnitsIInv
<1> QED BY <1>1, <1>2, <1>3, <1>4, <1>5 DEF UnitsIInv

(* A block is entered: a unit, a service, or a save.                       *)
LEMMA PushUnits ==
  ASSUME UnitsIInv, NEW kind \in {"unit", "service", "save"}, NEW who \in DOMAIN Units \cup {"save", "remove"},
         NEW base \in U!Databases, U!Push(kind, who, base), kind # "unit" => base = Repository, u_calls = <<>>,
         \A b \in DOMAIN u_blocks : u_blocks[b].kind # "save" /\ (u_blocks[b].kind = "service" => kind = "save"),
         UNCHANGED <<u_rows, u_hooks, u_calls, u_handlers, u_undone, u_written, u_published, u_told, u_dropped>>
  PROVE  UnitsIInv'
<1> DEFINE n == Len(u_blocks)
           m == Len(u_entered) + 1
           B == [kind |-> kind, who |-> who, db |-> base, id |-> m, step |-> "begin", before |-> u_rows, hooked |-> Len(u_hooks)]
<1>0. UnitsTypes
  BY DEF UnitsIInv
<1>1. u_blocks' = Append(u_blocks, B) /\ u_entered' = Append(u_entered, base) /\ u_blocks \in Seq(UBlock) /\ B \in UBlock
  BY <1>0, HeldTypes DEF U!Push, UnitsTypes, UBlock
<1>2. /\ n \in Nat /\ DOMAIN u_blocks = 1..n /\ DOMAIN u_blocks' = 1..(n + 1) /\ u_blocks' \in Seq(UBlock)
      /\ Len(u_blocks') = n + 1
      /\ \A b \in 1..n : u_blocks'[b] = u_blocks[b]
      /\ u_blocks'[n + 1] = B
  <2> HIDE DEF B
  <2> QED BY <1>1
<1>3. /\ B.kind = kind /\ B.db = base /\ B.id = m /\ B.step = "begin" /\ B.before = u_rows /\ B.hooked = Len(u_hooks)
  OBVIOUS
<1>4. /\ m \in Nat /\ Len(u_entered') = m /\ \A w \in 1..(m - 1) : u_entered'[w] = u_entered[w] /\ w < m
      /\ u_entered'[m] = base /\ u_entered' \in Seq(U!Databases) /\ 1..(m - 1) \subseteq 1..m /\ m \in 1..m /\ m \notin 1..(m - 1)
      /\ m - 1 = Len(u_entered)
  BY <1>0, <1>1, HeldTypes DEF UnitsTypes
<1> HIDE DEF B, m, n
<1>5. UnitsTypes'
  BY <1>0, <1>2, <1>4, MoreIds DEF UnitsTypes
<1>6. Numbered'
  <2>1. ASSUME NEW b \in DOMAIN u_blocks'
        PROVE  /\ u_blocks'[b].id \in 1..Len(u_entered') /\ u_entered'[u_blocks'[b].id] = u_blocks'[b].db
               /\ u_blocks'[b].id \notin u_undone' /\ (u_blocks'[b].kind # "unit" => u_blocks'[b].db = Repository)
    <3>1. CASE b \in 1..n
      BY <1>2, <1>4, <3>1 DEF UnitsIInv, Numbered
    <3>2. CASE b = n + 1
      BY <1>0, <1>2, <1>3, <1>4, <3>2 DEF UnitsTypes
    <3> QED BY <1>2, <2>1, <3>1, <3>2
  <2>2. ASSUME NEW a \in DOMAIN u_blocks', NEW b \in DOMAIN u_blocks', a < b
        PROVE  u_blocks'[a].id < u_blocks'[b].id /\ u_blocks'[a].kind # "save"
    <3>1. a \in 1..n
      BY <1>2, <2>2
    <3>2. CASE b \in 1..n
      BY <1>2, <2>2, <3>1, <3>2 DEF UnitsIInv, Numbered
    <3>3. CASE b = n + 1
      BY <1>2, <1>3, <1>4, <2>2, <3>1, <3>3 DEF UnitsIInv, Numbered
    <3> QED BY <1>2, <2>2, <3>2, <3>3
  <2> QED BY <2>1, <2>2 DEF Numbered
<1>7. Rows'
  <2>1. u_rows' = {i \in DOMAIN u_written' : u_written'[i].within \cap u_undone' = {}}
    BY DEF UnitsIInv, Rows
  <2>2. \A i \in DOMAIN u_written' : \A w \in u_written'[i].within : u_entered'[w] = Repository
    BY <1>0, <1>4, HeldTypes DEF UnitsIInv, Rows
  <2>3. ASSUME NEW b \in DOMAIN u_blocks', u_blocks'[b].db = Repository
        PROVE  /\ \A i \in DOMAIN u_written' : u_blocks'[b].id \in u_written'[i].within \/ \A w \in u_written'[i].within : w < u_blocks'[b].id
               /\ u_blocks'[b].before = {i \in u_rows' : u_blocks'[b].id \notin u_written'[i].within}
    <3>1. CASE b \in 1..n
      BY <1>2, <2>3, <3>1 DEF UnitsIInv, Rows
    <3>2. CASE b = n + 1
      <4>1. \A i \in DOMAIN u_written : m \notin u_written[i].within /\ \A w \in u_written[i].within : w < m
        BY <1>0, <1>4, HeldTypes
      <4>2. u_rows \subseteq DOMAIN u_written
        BY DEF UnitsIInv, Rows
      <4> QED BY <1>2, <1>3, <3>2, <4>1, <4>2
    <3> QED BY <1>2, <2>3, <3>1, <3>2
  <2> QED BY <2>1, <2>2, <2>3 DEF Rows
<1>8. Saves'
  <2>1. \A i \in DOMAIN u_written, b \in DOMAIN u_blocks' : ~(u_blocks'[b].kind = "save" /\ u_blocks'[b].id = u_written[i].call)
    BY <1>0, <1>2, <1>3, <1>4, HeldTypes
  <2>2. ASSUME NEW i \in DOMAIN u_written, u_written[i].part = "row", u_written[i].call \notin u_undone
        PROVE  \E j \in DOMAIN u_written : /\ u_written[j].part = "relations" /\ u_written[j].call = u_written[i].call
                                          /\ u_written[j].within = u_written[i].within
    BY <2>2 DEF UnitsIInv, Saves
  <2> QED BY <2>1, <2>2 DEF UnitsIInv, Saves
<1>9. Publications'
  <2>1. \A i \in DOMAIN u_published' : \A w \in u_published'[i].within : u_entered'[w] = Queue
    BY <1>0, <1>4, HeldTypes DEF UnitsIInv, Publications
  <2>2. ASSUME NEW i \in DOMAIN u_published, NEW b \in DOMAIN u_blocks', u_blocks'[b].db = Queue
        PROVE  u_blocks'[b].id \in u_published[i].within \/ \A w \in u_published[i].within : w < u_blocks'[b].id
    <3>1. CASE b \in 1..n
      BY <1>2, <2>2, <3>1 DEF UnitsIInv, Publications
    <3>2. CASE b = n + 1
      BY <1>0, <1>2, <1>3, <1>4, <3>2, HeldTypes
    <3> QED BY <1>2, <2>2, <3>1, <3>2
  <2> QED BY <2>1, <2>2 DEF Publications
<1>10. OneFate'
  BY DEF UnitsIInv, OneFate, Made, Around
<1>11. Hooked'
  <2>1. ASSUME \A b \in DOMAIN u_blocks' : u_blocks'[b].db # Queue PROVE u_hooks' = <<>>
    BY <1>2, <2>1 DEF UnitsIInv, Hooked
  <2>2. ASSUME NEW b \in DOMAIN u_blocks', u_blocks'[b].db = Queue
        PROVE  /\ u_calls' = <<>> /\ u_blocks'[b].hooked <= Len(u_hooks)
               /\ \A k \in DOMAIN u_hooks : (k > u_blocks'[b].hooked) <=> (u_blocks'[b].id \in Around(u_hooks[k]))
               /\ (\A a \in DOMAIN u_blocks' : u_blocks'[a].db = Queue => b <= a) => u_blocks'[b].hooked = 0
               /\ \A i \in DOMAIN u_told : \A w \in Around(u_told[i]) : w < u_blocks'[b].id
    <3>1. CASE b \in 1..n
      BY <1>2, <2>2, <3>1 DEF UnitsIInv, Hooked
    <3>2. CASE b = n + 1
      <4>1. \A c \in Range(u_hooks) \cup Range(u_told) : Around(c) \subseteq 1..(m - 1)
        BY <1>0, <1>4, HeldTypes DEF UnitsIInv, OneFate, Made, Around
      <4>2. \A k \in DOMAIN u_hooks : ~(k > Len(u_hooks)) /\ m \notin Around(u_hooks[k])
        BY <1>0, <1>4, <4>1, HeldTypes DEF Range
      <4>3. \A i \in DOMAIN u_told : \A w \in Around(u_told[i]) : w < m
        BY <1>4, <4>1 DEF Range
      <4>4. ASSUME \A a \in DOMAIN u_blocks' : u_blocks'[a].db = Queue => b <= a PROVE Len(u_hooks) = 0
        <5>1. \A a \in DOMAIN u_blocks : u_blocks[a].db # Queue
          BY <1>2, <3>2, <4>4
        <5> QED BY <5>1 DEF UnitsIInv, Hooked
      <4>5. Len(u_hooks) <= Len(u_hooks)
        BY <1>0, HeldTypes
      <4> QED BY <1>2, <1>3, <3>2, <4>2, <4>3, <4>4, <4>5
    <3> QED BY <1>2, <2>2, <3>1, <3>2
  <2> QED BY <2>1, <2>2 DEF Hooked, Around
<1>12. Turns'
  BY TurnsStay DEF UnitsIInv
<1>13. Nested'
  <2>1. Nested /\ u_calls' = <<>>
    BY DEF UnitsIInv
  <2>2. ASSUME NEW a \in DOMAIN u_blocks', NEW b \in DOMAIN u_blocks', a < b, u_blocks'[a].kind = "service"
        PROVE  u_blocks'[b].kind = "save"
    <3>1. a \in 1..n
      BY <1>2, <2>2
    <3>2. CASE b \in 1..n
      BY <1>2, <2>1, <2>2, <3>1, <3>2 DEF Nested
    <3>3. CASE b = n + 1
      BY <1>2, <1>3, <2>2, <3>1, <3>3
    <3> QED BY <1>2, <2>2, <3>2, <3>3
  <2> QED BY <2>1, <2>2 DEF Nested
<1> QED BY <1>5, <1>6, <1>7, <1>8, <1>9, <1>10, <1>11, <1>12, <1>13 DEF UnitsIInv

LEMMA InnerBlock ==
  ASSUME UnitsTypes
  PROVE  /\ u_blocks = <<>> => U!Inner.kind = "none"
         /\ u_blocks # <<>> => /\ U!Inner = u_blocks[Len(u_blocks)] /\ Len(u_blocks) \in DOMAIN u_blocks
                               /\ Len(u_blocks) \in Nat \ {0} /\ DOMAIN u_blocks = 1..Len(u_blocks)
  BY DEF UnitsTypes, U!Inner

(* The inner block writes.                                                 *)
LEMMA WriteUnits ==
  ASSUME UnitsIInv, NEW step \in {"row", "done"}, NEW wpart \in {"row", "relations", "removal"},
         u_blocks # <<>>, U!Step(step), U!Write(U!Inner.id, wpart),
         \/ U!Inner.kind = "save" /\ U!Inner.step = "begin" /\ step = "row" /\ wpart = "row"
         \/ U!Inner.kind = "save" /\ U!Inner.step = "row" /\ step = "done" /\ wpart = "relations"
         \/ U!Inner.kind = "service" /\ step = "done" /\ wpart = "removal",
         UNCHANGED <<u_hooks, u_calls, u_handlers, u_entered, u_undone, u_published, u_told, u_dropped>>
  PROVE  UnitsIInv'
<1> DEFINE n == Len(u_blocks)
           W == U!Within(Repository)
           w0 == [within |-> W, call |-> U!Inner.id, part |-> wpart]
           k == Len(u_written) + 1
<1>0. UnitsTypes
  BY DEF UnitsIInv
<1>1. /\ n \in Nat \ {0} /\ DOMAIN u_blocks = 1..n /\ U!Inner = u_blocks[n] /\ n \in DOMAIN u_blocks
      /\ u_blocks[n] \in UBlock /\ u_blocks \in Seq(UBlock) /\ u_blocks' = [u_blocks EXCEPT ![n].step = step]
  BY <1>0, InnerBlock, HeldTypes DEF UnitsTypes, U!Step
<1>2. /\ DOMAIN u_blocks' = DOMAIN u_blocks /\ u_blocks' \in Seq(UBlock)
      /\ \A b \in DOMAIN u_blocks : /\ u_blocks'[b].id = u_blocks[b].id /\ u_blocks'[b].kind = u_blocks[b].kind
                                    /\ u_blocks'[b].db = u_blocks[b].db /\ u_blocks'[b].before = u_blocks[b].before
                                    /\ u_blocks'[b].hooked = u_blocks[b].hooked
                                    /\ b # n => u_blocks'[b].step = u_blocks[b].step
      /\ u_blocks'[n].step = step
  <2>1. [u_blocks[n] EXCEPT !.step = step] \in UBlock
    BY <1>1 DEF UBlock
  <2>2. u_blocks' = [u_blocks EXCEPT ![n] = [u_blocks[n] EXCEPT !.step = step]]
    BY <1>1
  <2>3. DOMAIN u_blocks' = DOMAIN u_blocks /\ u_blocks' \in Seq(UBlock)
    BY <1>1, <2>1, <2>2
  <2>4. \A b \in DOMAIN u_blocks : b # n => u_blocks'[b] = u_blocks[b]
    BY <2>2
  <2>5. u_blocks'[n] = [u_blocks[n] EXCEPT !.step = step]
    BY <1>1, <2>2
  <2>6. /\ u_blocks'[n].id = u_blocks[n].id /\ u_blocks'[n].kind = u_blocks[n].kind /\ u_blocks'[n].db = u_blocks[n].db
        /\ u_blocks'[n].before = u_blocks[n].before /\ u_blocks'[n].hooked = u_blocks[n].hooked /\ u_blocks'[n].step = step
    BY <1>1, <2>5 DEF UBlock
  <2> QED BY <2>3, <2>4, <2>6
<1>3. /\ W = {u_blocks[b].id : b \in {c \in DOMAIN u_blocks : u_blocks[c].db = Repository}}
      /\ U!Within(Repository)' = W
  <2>1. W = {u_blocks[b].id : b \in {c \in DOMAIN u_blocks : u_blocks[c].db = Repository}}
    BY <1>1, OpenBlocks
  <2>2. DOMAIN u_blocks' = 1..Len(u_blocks')
    BY <1>2
  <2>3. U!Within(Repository)' = {u_blocks'[b].id : b \in {c \in DOMAIN u_blocks' : u_blocks'[c].db = Repository}}
    BY <2>2 DEF U!Within, U!Open
  <2> QED BY <1>2, <2>1, <2>3
<1>4. /\ U!Inner.kind \in {"save", "service"} /\ u_blocks[n].db = Repository /\ u_blocks[n].id \in W /\ W \cap u_undone = {}
      /\ W \subseteq 1..Len(u_entered) /\ \A w \in W : u_entered[w] = Repository
  BY <1>1, <1>3 DEF UnitsIInv, Numbered
<1>5. w0.within = W /\ w0.call = u_blocks[n].id /\ w0.part = wpart /\ w0 \in UWrite(1..Len(u_entered))
  BY <1>1, <1>4 DEF UWrite
<1>6. /\ DOMAIN u_written' = DOMAIN u_written \cup {k} /\ u_written'[k] = w0 /\ \A i \in DOMAIN u_written : u_written'[i] = u_written[i]
      /\ k \notin DOMAIN u_written /\ u_written' \in Seq(UWrite(1..Len(u_entered))) /\ u_rows' = u_rows \cup {k} /\ k \in Nat
  <2>1. u_written' = Append(u_written, w0) /\ u_written \in Seq(UWrite(1..Len(u_entered))) /\ u_rows' = u_rows \cup {k}
    BY <1>0, <1>1 DEF U!Write, UnitsTypes
  <2> HIDE DEF w0
  <2> QED BY <1>5, <2>1
<1> HIDE DEF n, W, w0, k
<1>7. UnitsTypes'
  BY <1>0, <1>2, <1>6 DEF UnitsTypes
<1>8. Numbered' /\ Nested'
  BY <1>1, <1>2 DEF UnitsIInv, Numbered, Nested
<1>9. Rows'
  <2>1. u_rows' = {i \in DOMAIN u_written' : u_written'[i].within \cap u_undone' = {}}
    BY <1>4, <1>5, <1>6 DEF UnitsIInv, Rows
  <2>2. \A i \in DOMAIN u_written' : \A w \in u_written'[i].within : u_entered'[w] = Repository
    BY <1>4, <1>5, <1>6 DEF UnitsIInv, Rows
  <2>3. ASSUME NEW b \in DOMAIN u_blocks, u_blocks[b].db = Repository
        PROVE  /\ \A i \in DOMAIN u_written' : u_blocks[b].id \in u_written'[i].within \/ \A w \in u_written'[i].within : w < u_blocks[b].id
               /\ u_blocks[b].before = {i \in u_rows' : u_blocks[b].id \notin u_written'[i].within}
    <3>1. u_blocks[b].id \in W
      BY <1>3, <2>3
    <3>2. u_rows \subseteq DOMAIN u_written
      BY DEF UnitsIInv, Rows
    <3>3. u_blocks[b].before = {i \in u_rows : u_blocks[b].id \notin u_written[i].within}
      BY <2>3 DEF UnitsIInv, Rows
    <3>4. \A i \in DOMAIN u_written : u_blocks[b].id \in u_written[i].within \/ \A w \in u_written[i].within : w < u_blocks[b].id
      BY <2>3 DEF UnitsIInv, Rows
    <3> QED BY <1>5, <1>6, <3>1, <3>2, <3>3, <3>4
  <2> QED BY <1>2, <2>1, <2>2, <2>3 DEF Rows
<1>10. Saves'
  <2>1. \A i \in DOMAIN u_written' : u_written'[i].part # "removal" => u_written'[i].call \in u_written'[i].within
    BY <1>4, <1>5, <1>6 DEF UnitsIInv, Saves
  <2>2. \A i \in DOMAIN u_written', b \in DOMAIN u_blocks' :
          u_blocks'[b].kind = "save" /\ u_blocks'[b].id = u_written'[i].call => u_written'[i].within = U!Within(Repository)'
    BY <1>2, <1>3, <1>5, <1>6 DEF UnitsIInv, Saves, W
  <2>3. ASSUME NEW i \in DOMAIN u_written', u_written'[i].part = "row"
        PROVE  \/ u_written'[i].call \in u_undone'
               \/ \E b \in DOMAIN u_blocks' : u_blocks'[b].kind = "save" /\ u_blocks'[b].id = u_written'[i].call /\ u_blocks'[b].step = "row"
               \/ \E j \in DOMAIN u_written' : /\ u_written'[j].part = "relations" /\ u_written'[j].call = u_written'[i].call
                                               /\ u_written'[j].within = u_written'[i].within
    <3>1. CASE i = k
      BY <1>1, <1>2, <1>5, <1>6, <2>3, <3>1
    <3>2. ASSUME i # k, NEW b \in DOMAIN u_blocks, u_blocks[b].kind = "save", u_blocks[b].id = u_written[i].call, u_blocks[b].step = "row"
          PROVE  \E j \in DOMAIN u_written' : /\ u_written'[j].part = "relations" /\ u_written'[j].call = u_written'[i].call
                                              /\ u_written'[j].within = u_written'[i].within
      <4>1. b = n
        BY <1>1, <3>2 DEF UnitsIInv, Numbered
      <4>2. wpart = "relations"
        BY <1>1, <3>2, <4>1
      <4>3. u_written[i].within = W
        BY <1>6, <3>2 DEF UnitsIInv, Saves, W
      <4> QED BY <1>5, <1>6, <3>2, <4>1, <4>2, <4>3
    <3>3. CASE i # k
      BY <1>6, <2>3, <3>2, <3>3 DEF UnitsIInv, Saves
    <3> QED BY <3>1, <3>3
  <2> QED BY <2>1, <2>2, <2>3 DEF Saves
<1>11. Publications'
  BY <1>2 DEF UnitsIInv, Publications
<1>12. OneFate'
  BY DEF UnitsIInv, OneFate, Made, Around
<1>13. Hooked'
  <2>1. Hooked
    BY DEF UnitsIInv
  <2> QED BY <1>2, <2>1 DEF Hooked, Around
<1>14. Turns'
  BY TurnsStay DEF UnitsIInv
<1> QED BY <1>7, <1>8, <1>9, <1>10, <1>11, <1>12, <1>13, <1>14 DEF UnitsIInv

(* What is open when the inner block has ended.                            *)
LEMMA OuterBlocks ==
  ASSUME UnitsTypes, u_blocks # <<>>, u_blocks' = U!Outer
  PROVE  /\ u_blocks' \in Seq(UBlock) /\ DOMAIN u_blocks' = 1..(Len(u_blocks) - 1)
         /\ \A b \in DOMAIN u_blocks' :
              /\ b \in DOMAIN u_blocks /\ b < Len(u_blocks)
              /\ u_blocks'[b].id = u_blocks[b].id /\ u_blocks'[b].kind = u_blocks[b].kind
              /\ u_blocks'[b].db = u_blocks[b].db /\ u_blocks'[b].before = u_blocks[b].before
              /\ u_blocks'[b].hooked = u_blocks[b].hooked
<1> DEFINE n == Len(u_blocks)
<1>1. n \in Nat \ {0} /\ DOMAIN u_blocks = 1..n /\ \A b \in 1..n : u_blocks[b] \in UBlock
  BY InnerBlock, HeldTypes
<1>2. u_blocks' = [i \in 1..(n - 1) |-> IF i = n - 1 /\ u_blocks[i].kind = "service" THEN [u_blocks[i] EXCEPT !.step = "done"] ELSE u_blocks[i]]
  BY DEF U!Outer
<1> HIDE DEF n
<1>3. n - 1 \in Nat /\ DOMAIN u_blocks' = 1..(n - 1) /\ \A b \in 1..(n - 1) : b \in 1..n /\ b < n
  BY <1>1, <1>2
<1>4. ASSUME NEW b \in 1..(n - 1)
      PROVE  /\ u_blocks'[b] \in UBlock /\ u_blocks'[b].id = u_blocks[b].id /\ u_blocks'[b].kind = u_blocks[b].kind
             /\ u_blocks'[b].db = u_blocks[b].db /\ u_blocks'[b].before = u_blocks[b].before
             /\ u_blocks'[b].hooked = u_blocks[b].hooked
  <2>1. u_blocks[b] \in UBlock /\ (u_blocks'[b] = u_blocks[b] \/ u_blocks'[b] = [u_blocks[b] EXCEPT !.step = "done"])
    BY <1>1, <1>2, <1>3
  <2> QED BY <2>1 DEF UBlock
<1>5. u_blocks' \in Seq(UBlock)
  <2>1. u_blocks' \in [1..(n - 1) -> UBlock]
    BY <1>2, <1>4
  <2> QED BY <1>3, <2>1
<1> QED BY <1>1, <1>3, <1>4, <1>5 DEF n

(* A block ends well: it is kept, with what was done in it.                *)
LEMMA KeepUnits ==
  ASSUME UnitsIInv, u_blocks # <<>>, u_calls = <<>>, U!Inner.kind = "unit" \/ U!Inner.step = "done", u_blocks' = U!Outer,
         IF U!Inner.db = Queue /\ Cardinality(U!Open(Queue)) = 1
         THEN u_calls' = u_hooks /\ u_hooks' = <<>> ELSE UNCHANGED <<u_calls, u_hooks>>,
         UNCHANGED <<u_rows, u_handlers, u_entered, u_undone, u_written, u_published, u_told, u_dropped>>
  PROVE  UnitsIInv'
<1> DEFINE n == Len(u_blocks)
<1>0. UnitsTypes
  BY DEF UnitsIInv
<1>1. /\ n \in Nat \ {0} /\ DOMAIN u_blocks = 1..n /\ U!Inner = u_blocks[n] /\ n \in DOMAIN u_blocks
      /\ u_blocks \in Seq(UBlock)
  BY <1>0, InnerBlock DEF UnitsTypes
<1>2. /\ u_blocks' \in Seq(UBlock) /\ DOMAIN u_blocks' = 1..(n - 1)
      /\ \A b \in DOMAIN u_blocks' :
           /\ b \in DOMAIN u_blocks /\ b < n
           /\ u_blocks'[b].id = u_blocks[b].id /\ u_blocks'[b].kind = u_blocks[b].kind
           /\ u_blocks'[b].db = u_blocks[b].db /\ u_blocks'[b].before = u_blocks[b].before
           /\ u_blocks'[b].hooked = u_blocks[b].hooked
  BY <1>0, OuterBlocks
<1> HIDE DEF n
\* A commit: nothing of the queue's is open any more.
<1>3. \/ /\ u_calls' = u_hooks /\ u_hooks' = <<>> /\ u_blocks[n].db = Queue
         /\ \A b \in DOMAIN u_blocks' : u_blocks'[b].db # Queue
      \/ /\ u_calls' = <<>> /\ u_hooks' = u_hooks
         /\ (\A b \in DOMAIN u_blocks' : u_blocks'[b].db # Queue) => u_hooks = <<>>
  <2>1. U!Open(Queue) = {b \in DOMAIN u_blocks : u_blocks[b].db = Queue}
    BY <1>1, OpenBlocks
  <2>2. CASE U!Inner.db = Queue /\ Cardinality(U!Open(Queue)) = 1
    <3>1. n \in U!Open(Queue) /\ IsFiniteSet(U!Open(Queue))
      <4>1. IsFiniteSet(1..n)
        BY <1>1, FS_Interval
      <4> QED BY <1>1, <2>1, <2>2, <4>1, FS_Subset
    <3>2. \A b \in U!Open(Queue) : b = n
      BY <2>2, <3>1, FS_Singleton
    <3> QED BY <1>1, <1>2, <2>1, <2>2, <3>2
  <2>3. CASE ~(U!Inner.db = Queue /\ Cardinality(U!Open(Queue)) = 1)
    <3>1. u_calls' = <<>> /\ u_hooks' = u_hooks
      BY <2>3
    <3>2. ASSUME \A b \in DOMAIN u_blocks' : u_blocks'[b].db # Queue PROVE u_hooks = <<>>
      <4>1. \A b \in DOMAIN u_blocks : u_blocks[b].db = Queue => b = n
        BY <1>1, <1>2, <3>2
      <4>2. CASE u_blocks[n].db = Queue
        <5>1. U!Open(Queue) = {n}
          BY <1>1, <2>1, <4>1, <4>2
        <5> QED BY <1>1, <2>3, <4>2, <5>1, FS_Singleton
      <4>3. CASE u_blocks[n].db # Queue
        BY <4>1, <4>3 DEF UnitsIInv, Hooked
      <4> QED BY <4>2, <4>3
    <3> QED BY <3>1, <3>2
  <2> QED BY <2>2, <2>3
<1>4. UnitsTypes'
  BY <1>0, <1>2, <1>3 DEF UnitsTypes
<1>5. Numbered' /\ Nested'
  <2>1. Numbered'
    BY <1>2 DEF UnitsIInv, Numbered
  <2>2. \A a, b \in DOMAIN u_blocks' : a < b /\ u_blocks'[a].kind = "service" => u_blocks'[b].kind = "save"
    BY <1>2 DEF UnitsIInv, Nested
  <2>3. ASSUME u_calls' # <<>>, NEW a \in DOMAIN u_blocks' PROVE u_blocks'[a].kind = "unit"
    <3>1. u_blocks[n].db = Queue /\ u_blocks[a].db # Queue /\ a \in DOMAIN u_blocks /\ a < n
      BY <1>2, <1>3, <2>3
    <3>2. u_blocks[a].kind # "save" /\ (u_blocks[a].kind = "service" => u_blocks[n].kind = "save")
      BY <1>1, <3>1 DEF UnitsIInv, Numbered, Nested
    <3>3. ~(u_blocks[a].kind = "service" /\ u_blocks[n].kind = "save")
      BY <1>1, <3>1 DEF UnitsIInv, Numbered
    <3>4. u_blocks[a].kind \in {"unit", "service", "save"}
      BY <1>0, <3>1, HeldTypes DEF UBlock
    <3> QED BY <1>2, <3>2, <3>3, <3>4
  <2> QED BY <2>1, <2>2, <2>3 DEF Nested
<1>6. Rows'
  BY <1>2 DEF UnitsIInv, Rows
<1>7. Saves'
  <2>1. \A b \in DOMAIN u_blocks' : u_blocks'[b].kind # "save"
    BY <1>1, <1>2 DEF UnitsIInv, Numbered
  <2>2. \A b \in DOMAIN u_blocks : u_blocks[b].kind = "save" => u_blocks[b].step # "row"
    <3> SUFFICES ASSUME NEW b \in DOMAIN u_blocks, u_blocks[b].kind = "save" PROVE u_blocks[b].step # "row"
      OBVIOUS
    <3>1. b = n
      BY <1>1 DEF UnitsIInv, Numbered
    <3> QED BY <1>1, <3>1
  <2>3. Saves
    BY DEF UnitsIInv
  <2> QED BY <2>1, <2>2, <2>3 DEF Saves
<1>8. Publications'
  BY <1>2 DEF UnitsIInv, Publications
<1>9. OneFate'
  <2>1. OneFate /\ Range(<<>>) = {} /\ Once(<<>>)
    BY DEF UnitsIInv, Range, Once
  <2>2. Range(u_hooks)' \cup Range(u_calls)' = Range(u_hooks) \cup Range(u_calls) /\ Range(u_hooks)' \cap Range(u_calls)' = {}
    BY <1>3, <2>1
  <2>3. Once(u_hooks)' /\ Once(u_calls)'
    BY <1>3, <2>1 DEF OneFate
  <2>4. Range(u_told)' = Range(u_told) /\ Made' = Made /\ Once(u_told)' = Once(u_told)
    BY DEF Made
  <2>5. \A c : Around(c)' = Around(c)
    BY DEF Around
  <2> QED BY <2>1, <2>2, <2>3, <2>4, <2>5 DEF OneFate
<1>10. Hooked'
  <2>1. CASE u_hooks' = <<>> /\ \A b \in DOMAIN u_blocks' : u_blocks'[b].db # Queue
    BY <2>1 DEF Hooked
  <2>2. CASE u_calls' = <<>> /\ u_hooks' = u_hooks /\ ((\A b \in DOMAIN u_blocks' : u_blocks'[b].db # Queue) => u_hooks = <<>>)
    <3>1. ASSUME NEW b \in DOMAIN u_blocks', u_blocks'[b].db = Queue
          PROVE  /\ u_blocks'[b].hooked <= Len(u_hooks)
                 /\ \A k \in DOMAIN u_hooks : (k > u_blocks'[b].hooked) <=> (u_blocks'[b].id \in Around(u_hooks[k]))
                 /\ \A i \in DOMAIN u_told : \A w \in Around(u_told[i]) : w < u_blocks'[b].id
      BY <1>2, <3>1 DEF UnitsIInv, Hooked
    <3>2. ASSUME NEW b \in DOMAIN u_blocks', u_blocks'[b].db = Queue, \A a \in DOMAIN u_blocks' : u_blocks'[a].db = Queue => b <= a
          PROVE  u_blocks'[b].hooked = 0
      <4>1. \A a \in DOMAIN u_blocks : u_blocks[a].db = Queue => b <= a
        BY <1>1, <1>2, <3>2
      <4> QED BY <1>2, <3>2, <4>1 DEF UnitsIInv, Hooked
    <3> QED BY <2>2, <3>1, <3>2 DEF Hooked, Around
  <2> QED BY <1>3, <2>1, <2>2
<1>11. Turns'
  <2>1. Turns /\ u_told' = u_told /\ u_published' = u_published
    BY DEF UnitsIInv
  <2>2. CASE u_calls' = u_hooks /\ u_hooks' = <<>>
    <3>1. \A i \in DOMAIN u_told, j \in DOMAIN u_hooks : InTurn(u_told[i], u_hooks[j])
      BY <2>1 DEF Turns, InTurn
    <3> QED BY <2>1, <2>2, <3>1 DEF Turns, Around, InTurn
  <2>3. CASE u_calls' = u_calls /\ u_hooks' = u_hooks
    BY <2>1, <2>3, TurnsStay
  <2> QED BY <1>3, <2>2, <2>3
<1> QED BY <1>4, <1>5, <1>6, <1>7, <1>8, <1>9, <1>10, <1>11 DEF UnitsIInv

(* A block is left by an exception: what was done in it is undone.         *)
LEMMA UndoUnits ==
  ASSUME UnitsIInv, U!Exit, u_raising
  PROVE  UnitsIInv'
<1>e. /\ u_blocks # <<>> /\ u_calls = <<>> /\ u_blocks' = U!Outer
      /\ UNCHANGED <<u_calls, u_handlers, u_entered, u_written, u_published, u_told, u_dropped>>
  BY DEF U!Exit, U!RollsBack
<1> DEFINE n == Len(u_blocks)
           I == u_blocks[n]
           D == {i \in I.id..Len(u_entered) : u_entered[i] = I.db}
<1>0. UnitsTypes
  BY DEF UnitsIInv
<1>1. /\ n \in Nat \ {0} /\ DOMAIN u_blocks = 1..n /\ U!Inner = I /\ n \in DOMAIN u_blocks
      /\ I \in UBlock /\ u_blocks \in Seq(UBlock) /\ I.id \in Nat /\ I.hooked \in Nat /\ I.before \subseteq Nat
  <2>1. I \in UBlock /\ n \in Nat \ {0} /\ DOMAIN u_blocks = 1..n /\ U!Inner = I /\ n \in DOMAIN u_blocks
    BY <1>0, <1>e, InnerBlock, HeldTypes
  <2> QED BY <1>0, <2>1 DEF UBlock, UnitsTypes
<1>2. /\ u_blocks' \in Seq(UBlock) /\ DOMAIN u_blocks' = 1..(n - 1)
      /\ \A b \in DOMAIN u_blocks' :
           /\ b \in DOMAIN u_blocks /\ b < n
           /\ u_blocks'[b].id = u_blocks[b].id /\ u_blocks'[b].kind = u_blocks[b].kind
           /\ u_blocks'[b].db = u_blocks[b].db /\ u_blocks'[b].before = u_blocks[b].before
           /\ u_blocks'[b].hooked = u_blocks[b].hooked
  BY <1>0, <1>e, OuterBlocks
<1>3. /\ I.id \in D /\ u_undone' = u_undone \cup D /\ D \subseteq 1..Len(u_entered)
      /\ \A w \in D : w >= I.id /\ u_entered[w] = I.db /\ w \in Nat
  <2>1. I.id \in 1..Len(u_entered) /\ u_entered[I.id] = I.db
    BY <1>1 DEF UnitsIInv, Numbered
  <2>2. u_undone' = u_undone \cup D
    BY <1>1 DEF U!Exit
  <2> QED BY <1>0, <1>1, <2>1, <2>2, HeldTypes
<1>4. \A b \in DOMAIN u_blocks' : u_blocks[b].id < I.id /\ u_blocks[b].id \in Nat /\ u_blocks[b].kind # "save"
  BY <1>0, <1>1, <1>2, HeldTypes DEF UnitsIInv, Numbered
\* What has an older block around it, and not this one, is not undone.
<1>5. /\ u_rows' = (IF I.db = Repository THEN I.before ELSE u_rows)
      /\ u_hooks' = (IF I.db = Queue THEN SubSeq(u_hooks, 1, I.hooked) ELSE u_hooks)
  BY <1>1 DEF U!Exit, U!RollsBack
<1> HIDE DEF n, I, D
<1>o. \A w \in D : u_entered[w] = I.db
  BY <1>3
<1>6. \A i \in DOMAIN u_written : u_written[i].within \cap D = {} <=> (I.db = Repository => I.id \notin u_written[i].within)
  <2> SUFFICES ASSUME NEW i \in DOMAIN u_written
               PROVE  u_written[i].within \cap D = {} <=> (I.db = Repository => I.id \notin u_written[i].within)
    OBVIOUS
  <2>1. CASE I.db # Repository
    <3>1. \A w \in u_written[i].within : u_entered[w] = Repository
      BY DEF UnitsIInv, Rows
    <3>2. \A w \in u_written[i].within : w \notin D
      BY <1>o, <2>1, <3>1
    <3> QED BY <2>1, <3>2
  <2>2. CASE I.db = Repository
    <3>1. I.id \in u_written[i].within \/ \A w \in u_written[i].within : w < I.id
      BY <1>1, <2>2 DEF UnitsIInv, Rows, I
    <3>2. I.id \in u_written[i].within => u_written[i].within \cap D # {}
      BY <1>3
    <3>3. \A w \in D : ~(w < I.id)
      BY <1>1, <1>3
    <3>4. I.id \notin u_written[i].within => \A w \in u_written[i].within : w \notin D
      BY <3>1, <3>3
    <3> QED BY <2>2, <3>2, <3>4
  <2> QED BY <2>1, <2>2
<1>7. \A m \in DOMAIN u_published : u_published[m].within \cap D = {} <=> (I.db = Queue => I.id \notin u_published[m].within)
  <2> SUFFICES ASSUME NEW m \in DOMAIN u_published
               PROVE  u_published[m].within \cap D = {} <=> (I.db = Queue => I.id \notin u_published[m].within)
    OBVIOUS
  <2>1. CASE I.db # Queue
    <3>1. \A w \in u_published[m].within : u_entered[w] = Queue
      BY DEF UnitsIInv, Publications
    <3>2. \A w \in u_published[m].within : w \notin D
      BY <1>o, <2>1, <3>1
    <3> QED BY <2>1, <3>2
  <2>2. CASE I.db = Queue
    <3>1. I.id \in u_published[m].within \/ \A w \in u_published[m].within : w < I.id
      BY <1>1, <2>2 DEF UnitsIInv, Publications, I
    <3>2. I.id \in u_published[m].within => u_published[m].within \cap D # {}
      BY <1>3
    <3>3. \A w \in D : ~(w < I.id)
      BY <1>1, <1>3
    <3>4. I.id \notin u_published[m].within => \A w \in u_published[m].within : w \notin D
      BY <3>1, <3>3
    <3> QED BY <2>2, <3>2, <3>4
  <2> QED BY <2>1, <2>2
\* The hooks that stay: those of before the block.
<1> DEFINE h == IF I.db = Queue THEN I.hooked ELSE Len(u_hooks)
<1>8. /\ I.db = Queue => h = I.hooked /\ u_hooks' = SubSeq(u_hooks, 1, h)
      /\ I.db # Queue => h = Len(u_hooks) /\ u_hooks' = u_hooks
  BY <1>5
<1> HIDE DEF h
<1>9. /\ h \in Nat /\ h <= Len(u_hooks) /\ DOMAIN u_hooks = 1..Len(u_hooks) /\ Len(u_hooks) \in Nat
      /\ u_hooks' \in Seq(UCall) /\ DOMAIN u_hooks' = 1..h /\ Len(u_hooks') = h
      /\ \A k \in 1..h : u_hooks'[k] = u_hooks[k] /\ k \in DOMAIN u_hooks
  <2>1. u_hooks \in Seq(UCall) /\ DOMAIN u_hooks = 1..Len(u_hooks) /\ Len(u_hooks) \in Nat
    BY <1>0, HeldTypes DEF UnitsTypes
  <2>2. CASE I.db = Queue
    <3>1. I.hooked <= Len(u_hooks)
      BY <1>1, <2>2 DEF UnitsIInv, Hooked, I
    <3> QED BY <1>1, <1>8, <2>1, <2>2, <3>1
  <2>3. CASE I.db # Queue
    BY <1>8, <2>1, <2>3
  <2> QED BY <2>2, <2>3
<1>h. /\ \A k \in DOMAIN u_hooks : k \in Nat /\ k <= Len(u_hooks)
      /\ \A k : k \in 1..h <=> k \in DOMAIN u_hooks /\ k <= h
  <2>1. h \in Nat /\ h <= Len(u_hooks) /\ DOMAIN u_hooks = 1..Len(u_hooks) /\ Len(u_hooks) \in Nat
    BY <1>9
  <2> QED BY <2>1
<1>l. I.db # Queue => h = Len(u_hooks)
  BY <1>8
<1>10. \A k \in DOMAIN u_hooks : k <= h <=> Around(u_hooks[k]) \cap D = {}
  <2> SUFFICES ASSUME NEW k \in DOMAIN u_hooks PROVE k <= h <=> Around(u_hooks[k]) \cap D = {}
    OBVIOUS
  <2>1. u_hooks[k].of \in DOMAIN u_published
    BY DEF UnitsIInv, OneFate, Range, Made
  <2>2. CASE I.db = Queue
    <3>1. (k > I.hooked) <=> (I.id \in Around(u_hooks[k]))
      BY <1>1, <2>2 DEF UnitsIInv, Hooked, I
    <3> QED BY <1>1, <1>7, <1>8, <1>9, <2>1, <2>2, <3>1 DEF Around
  <2>3. CASE I.db # Queue
    <3>1. Around(u_hooks[k]) \cap D = {}
      BY <1>7, <2>1, <2>3 DEF Around
    <3>2. k <= h
      BY <1>h, <1>l, <2>3
    <3> QED BY <3>1, <3>2
  <2> QED BY <2>2, <2>3
<1>11. UnitsTypes'
  <2>1. u_rows' \subseteq Nat /\ u_undone' \subseteq 1..Len(u_entered)
    BY <1>0, <1>1, <1>3, <1>5 DEF UnitsTypes
  <2> QED BY <1>0, <1>2, <1>9, <1>e, <2>1 DEF UnitsTypes
<1>12. Numbered'
  <2>1. \A b \in DOMAIN u_blocks' : u_blocks[b].id \notin D
    BY <1>1, <1>3, <1>4
  <2> QED BY <1>2, <1>3, <1>e, <2>1 DEF UnitsIInv, Numbered
<1>n. Nested'
  BY <1>2, <1>e DEF UnitsIInv, Nested
<1>13. Rows'
  <2>1. u_rows' = {i \in u_rows : u_written[i].within \cap D = {}}
    <3>1. u_rows \subseteq DOMAIN u_written
      BY DEF UnitsIInv, Rows
    <3>2. CASE I.db = Repository
      <4>1. I.before = {i \in u_rows : I.id \notin u_written[i].within}
        BY <1>1, <3>2 DEF UnitsIInv, Rows, I
      <4> QED BY <1>5, <1>6, <3>1, <3>2, <4>1
    <3>3. CASE I.db # Repository
      BY <1>5, <1>6, <3>1, <3>3
    <3> QED BY <3>2, <3>3
  <2>2. u_rows' = {i \in DOMAIN u_written' : u_written'[i].within \cap u_undone' = {}}
    BY <1>3, <1>e, <2>1 DEF UnitsIInv, Rows
  <2>3. ASSUME NEW b \in DOMAIN u_blocks', u_blocks'[b].db = Repository
        PROVE  /\ \A i \in DOMAIN u_written : u_blocks'[b].id \in u_written[i].within \/ \A w \in u_written[i].within : w < u_blocks'[b].id
               /\ u_blocks'[b].before = {i \in u_rows' : u_blocks'[b].id \notin u_written[i].within}
    <3>1. u_blocks[b].before = {i \in u_rows : u_blocks[b].id \notin u_written[i].within}
      BY <1>2, <2>3 DEF UnitsIInv, Rows
    <3>2. \A i \in DOMAIN u_written : u_blocks[b].id \in u_written[i].within \/ \A w \in u_written[i].within : w < u_blocks[b].id
      BY <1>2, <2>3 DEF UnitsIInv, Rows
    <3>3. \A i \in u_rows : u_blocks[b].id \notin u_written[i].within => u_written[i].within \cap D = {}
      <4>1. u_rows \subseteq DOMAIN u_written
        BY DEF UnitsIInv, Rows
      <4>2. \A i \in u_rows : u_blocks[b].id \notin u_written[i].within => I.id \notin u_written[i].within
        BY <1>1, <1>4, <3>2, <4>1
      <4> QED BY <1>6, <4>1, <4>2
    <3>4. u_blocks'[b].id = u_blocks[b].id /\ u_blocks'[b].before = u_blocks[b].before
      BY <1>2
    <3> QED BY <2>1, <3>1, <3>2, <3>3, <3>4
  <2>4. \A i \in DOMAIN u_written' : \A w \in u_written'[i].within : u_entered'[w] = Repository
    BY <1>e DEF UnitsIInv, Rows
  <2> QED BY <1>e, <2>2, <2>3, <2>4 DEF Rows
<1>14. Saves'
  <2>1. \A b \in DOMAIN u_blocks' : u_blocks'[b].kind # "save"
    BY <1>2, <1>4
  <2>2. \A b \in DOMAIN u_blocks : u_blocks[b].kind = "save" => u_blocks[b].id \in u_undone'
    <3> SUFFICES ASSUME NEW b \in DOMAIN u_blocks, u_blocks[b].kind = "save" PROVE u_blocks[b].id \in u_undone'
      OBVIOUS
    <3>1. b = n
      BY <1>1 DEF UnitsIInv, Numbered
    <3> QED BY <1>3, <3>1 DEF I
  <2>3. Saves /\ u_undone \subseteq u_undone'
    BY <1>3 DEF UnitsIInv
  <2>4. ASSUME NEW i \in DOMAIN u_written, u_written[i].part = "row", u_written[i].call \notin u_undone'
        PROVE  \E j \in DOMAIN u_written : /\ u_written[j].part = "relations" /\ u_written[j].call = u_written[i].call
                                          /\ u_written[j].within = u_written[i].within
    BY <2>2, <2>3, <2>4 DEF Saves
  <2> QED BY <1>e, <2>1, <2>3, <2>4 DEF Saves
<1>15. Publications'
  BY <1>2, <1>e DEF UnitsIInv, Publications
<1>16. OneFate'
  <2>1. OneFate /\ Made' = Made /\ \A c : Around(c)' = Around(c)
    BY <1>e DEF UnitsIInv, Made, Around
  <2>2. Range(u_hooks') \subseteq Range(u_hooks) /\ \A c \in Range(u_hooks) : c \in Range(u_hooks') <=> Around(c) \cap D = {}
    <3>1. \A k \in DOMAIN u_hooks : Around(u_hooks[k]) \cap D = {} => k \in 1..h
      <4> SUFFICES ASSUME NEW k \in DOMAIN u_hooks, Around(u_hooks[k]) \cap D = {} PROVE k \in 1..h
        OBVIOUS
      <4>1. k <= h
        BY <1>10
      <4> QED BY <1>h, <4>1
    <3>2. \A k \in 1..h : Around(u_hooks[k]) \cap D = {}
      BY <1>h, <1>10
    <3> QED BY <1>8, <1>9, <3>1, <3>2 DEF Range
  <2>3. Once(u_hooks')
    BY <1>8, <1>9, <2>1 DEF OneFate, Once
  <2>4. \A c \in Range(u_told) : Around(c) \cap D = {}
    <3> SUFFICES ASSUME NEW i \in DOMAIN u_told PROVE Around(u_told[i]) \cap D = {}
      BY DEF Range
    <3>1. u_told[i].of \in DOMAIN u_published
      BY <2>1 DEF OneFate, Range, Made
    <3>2. I.db = Queue => \A w \in Around(u_told[i]) : w < I.id
      BY <1>1 DEF UnitsIInv, Hooked, I
    <3> QED BY <1>1, <1>7, <3>1, <3>2 DEF Around
  <2>5. \A c \in Range(u_calls) : FALSE
    BY <1>e DEF Range
  <2>6. /\ Range(u_hooks') \cup Range(u_calls) \cup Range(u_told) \cup u_dropped \subseteq Made
        /\ Range(u_hooks') \cap (Range(u_calls) \cup Range(u_told) \cup u_dropped) = {}
    BY <2>1, <2>2 DEF OneFate
  <2>7. \A c \in Range(u_hooks') \cup Range(u_calls) \cup Range(u_told) : Around(c) \cap u_undone' = {}
    BY <1>3, <2>1, <2>2, <2>4, <2>5 DEF OneFate
  <2>8. \A c \in Made : Around(c) \cap u_undone' = {} => c \in Range(u_hooks') \cup Range(u_calls) \cup Range(u_told) \cup u_dropped
    BY <1>3, <2>1, <2>2 DEF OneFate
  <2> QED BY <1>e, <2>1, <2>3, <2>6, <2>7, <2>8 DEF OneFate
<1>17. Hooked'
  <2>1. ASSUME \A b \in DOMAIN u_blocks' : u_blocks'[b].db # Queue PROVE u_hooks' = <<>>
    <3>1. \A b \in DOMAIN u_blocks : u_blocks[b].db = Queue => b = n
      BY <1>1, <1>2, <2>1
    <3>2. CASE I.db = Queue
      <4>1. \A a \in DOMAIN u_blocks : u_blocks[a].db = Queue => n <= a
        BY <1>1, <3>1
      <4>2. I.hooked = 0
        BY <1>1, <3>2, <4>1 DEF UnitsIInv, Hooked, I
      <4>3. h = 0
        BY <1>8, <1>9, <3>2, <4>2
      <4>4. u_hooks' \in Seq(UCall) /\ Len(u_hooks') = 0
        BY <1>8, <1>9, <4>3
      <4> QED BY <4>4
    <3>3. CASE I.db # Queue
      BY <1>8, <1>9, <3>1, <3>3 DEF UnitsIInv, Hooked, I
    <3> QED BY <3>2, <3>3
  <2>2. ASSUME NEW b \in DOMAIN u_blocks', u_blocks'[b].db = Queue
        PROVE  /\ u_blocks'[b].hooked <= Len(u_hooks')
               /\ \A k \in DOMAIN u_hooks' : (k > u_blocks'[b].hooked) <=> (u_blocks'[b].id \in Around(u_hooks'[k]))
               /\ (\A a \in DOMAIN u_blocks' : u_blocks'[a].db = Queue => b <= a) => u_blocks'[b].hooked = 0
               /\ \A i \in DOMAIN u_told : \A w \in Around(u_told[i]) : w < u_blocks'[b].id
    <3>1. b \in DOMAIN u_blocks /\ u_blocks[b].db = Queue /\ u_blocks[b].hooked \in Nat
      BY <1>0, <1>2, <2>2, HeldTypes
    <3>2. /\ u_blocks[b].hooked <= Len(u_hooks)
          /\ \A k \in DOMAIN u_hooks : (k > u_blocks[b].hooked) <=> (u_blocks[b].id \in Around(u_hooks[k]))
          /\ (\A a \in DOMAIN u_blocks : u_blocks[a].db = Queue => b <= a) => u_blocks[b].hooked = 0
          /\ \A i \in DOMAIN u_told : \A w \in Around(u_told[i]) : w < u_blocks[b].id
      BY <3>1 DEF UnitsIInv, Hooked
    <3>3. u_blocks[b].hooked <= h
      <4> SUFFICES ASSUME ~(u_blocks[b].hooked <= h) PROVE FALSE
        OBVIOUS
      <4> DEFINE k == u_blocks[b].hooked
      <4>0. k \in Nat /\ ~(k <= h) /\ k <= Len(u_hooks) /\ k = u_blocks[b].hooked
        BY <3>1, <3>2
      <4> HIDE DEF k
      <4>1. k \in DOMAIN u_hooks /\ ~(k <= h) /\ ~(k > u_blocks[b].hooked)
        <5>1. k # 0 /\ DOMAIN u_hooks = 1..Len(u_hooks) /\ Len(u_hooks) \in Nat /\ h \in Nat
          BY <1>9, <4>0
        <5> QED BY <4>0, <5>1
      <4>2. Around(u_hooks[k]) \cap D # {} /\ u_blocks[b].id \notin Around(u_hooks[k])
        BY <1>10, <3>2, <4>1
      <4>3. u_hooks[k].of \in DOMAIN u_published
        BY <4>1 DEF UnitsIInv, OneFate, Range, Made
      <4>4. \A w \in Around(u_hooks[k]) : w < u_blocks[b].id
        BY <3>1, <4>2, <4>3 DEF UnitsIInv, Publications, Around
      <4>5. PICK w \in D : w < u_blocks[b].id
        BY <4>2, <4>4
      <4>6. w \in Nat /\ w >= I.id /\ u_blocks[b].id < I.id /\ u_blocks[b].id \in Nat
        BY <1>3, <1>4, <2>2
      <4> QED BY <1>1, <4>5, <4>6
    <3>4. ASSUME \A a \in DOMAIN u_blocks' : u_blocks'[a].db = Queue => b <= a PROVE u_blocks[b].hooked = 0
      <4>1. \A a \in DOMAIN u_blocks : u_blocks[a].db = Queue => b <= a
        BY <1>1, <1>2, <2>2, <3>4
      <4> QED BY <3>2, <4>1
    <3>5. u_blocks'[b].hooked = u_blocks[b].hooked /\ u_blocks'[b].id = u_blocks[b].id
      BY <1>2
    <3> QED BY <1>8, <1>9, <3>2, <3>3, <3>4, <3>5
  <2> QED BY <1>e, <2>1, <2>2 DEF Hooked, Around
<1>18. Turns'
  <2>1. Turns /\ u_told' = u_told /\ u_calls' = u_calls /\ u_published' = u_published
    BY <1>e DEF UnitsIInv
  <2>2. /\ \A i, j \in DOMAIN u_hooks' : i < j => InTurn(u_hooks[i], u_hooks[j])
        /\ \A i \in DOMAIN u_told, j \in DOMAIN u_hooks' : Around(u_told[i]) \cap Around(u_hooks[j]) = {}
        /\ \A j \in DOMAIN u_hooks' : u_hooks'[j] = u_hooks[j]
    BY <1>8, <1>9, <2>1 DEF Turns
  <2>3. /\ \A i, j \in DOMAIN u_told' : i < j => InTurn(u_told[i], u_told[j])'
        /\ \A i, j \in DOMAIN u_calls' : i < j => InTurn(u_calls[i], u_calls[j])'
        /\ \A i \in DOMAIN u_told', j \in DOMAIN u_calls' : InTurn(u_told[i], u_calls[j])'
    BY <2>1 DEF Turns, Around, InTurn
  <2>4. /\ \A i, j \in DOMAIN u_hooks' : i < j => InTurn(u_hooks[i], u_hooks[j])'
        /\ \A i \in DOMAIN u_told', j \in DOMAIN u_hooks' : Around(u_told[i])' \cap Around(u_hooks[j])' = {}
    <3>1. \A c, d : /\ Around(c)' = Around(c)
                    /\ InTurn(c, d)' <=> InTurn(c, d)
      BY <2>1 DEF Around, InTurn
    <3>2. /\ \A i, j \in DOMAIN u_hooks' : i < j => InTurn(u_hooks'[i], u_hooks'[j])
          /\ \A i \in DOMAIN u_told, j \in DOMAIN u_hooks' : Around(u_told[i]) \cap Around(u_hooks'[j]) = {}
      BY <2>2
    <3>3. /\ \A i, j \in DOMAIN u_hooks' : i < j => InTurn(u_hooks[i], u_hooks[j])'
      BY <2>1, <3>2 DEF Around, InTurn
    <3>4. \A i \in DOMAIN u_told', j \in DOMAIN u_hooks' : Around(u_told[i])' \cap Around(u_hooks[j])' = {}
      BY <2>1, <3>2 DEF Around
    <3> QED BY <3>3, <3>4
  <2> QED BY <2>3, <2>4 DEF Turns
<1> QED BY <1>11, <1>12, <1>n, <1>13, <1>14, <1>15, <1>16, <1>17, <1>18 DEF UnitsIInv

(* The calls of an event are new.                                          *)
LEMMA EventCalls ==
  ASSUME UnitsTypes, NEW e \in Events, NEW N, N = U!CallsOf(e)
  PROVE  /\ N \in Seq(UCall) /\ Len(u_handlers[e]) \in Nat /\ DOMAIN N = 1..Len(u_handlers[e]) /\ Len(N) = Len(u_handlers[e]) /\ Once(N)
         /\ \A k \in DOMAIN N : N[k] = [of |-> Len(u_published) + 1, nth |-> k]
<1>1. Len(u_handlers[e]) \in Nat /\ Len(u_published) \in Nat
  BY DEF UnitsTypes
<1>2. N = [nth \in 1..Len(u_handlers[e]) |-> [of |-> Len(u_published) + 1, nth |-> nth]]
  BY DEF U!CallsOf
<1>3. N \in [1..Len(u_handlers[e]) -> UCall]
  BY <1>1, <1>2 DEF UCall
<1>4. N \in Seq(UCall) /\ DOMAIN N = 1..Len(u_handlers[e])
  BY <1>1, <1>3
<1>5. Len(N) = Len(u_handlers[e])
  BY <1>1, <1>4
<1>6. \A k \in DOMAIN N : N[k] = [of |-> Len(u_published) + 1, nth |-> k]
  BY <1>2, <1>4
<1>7. Once(N)
  <2> SUFFICES ASSUME NEW i \in DOMAIN N, NEW j \in DOMAIN N, N[i] = N[j] PROVE i = j
    BY DEF Once
  <2>1. N[i].nth = i /\ N[j].nth = j
    BY <1>6
  <2> QED BY <2>1
<1> QED BY <1>1, <1>4, <1>5, <1>6, <1>7

LEMMA PublishedFacts ==
  ASSUME UnitsIInv, NEW e \in Events, NEW N, N = U!CallsOf(e), U!Published(e), UNCHANGED <<u_blocks, u_entered>>
  PROVE  /\ u_published' \in Seq(UEvent(1..Len(u_entered))) /\ Publications'
         /\ DOMAIN u_published \subseteq DOMAIN u_published'
         /\ \A m \in DOMAIN u_published : u_published'[m] = u_published[m]
         /\ Range(N) \cap Made = {} /\ Made' = Made \cup Range(N)
         /\ \A c \in Made : Around(c)' = Around(c)
         /\ \A c \in Range(N) : Around(c)' = U!Within(Queue)
         /\ \A c \in Made, d \in Range(N) : c.of < d.of
<1> DEFINE m == Len(u_published) + 1
           W == U!Within(Queue)
           p == [within |-> W, to |-> Len(u_handlers[e])]
<1>0. UnitsTypes
  BY DEF UnitsIInv
<1>1. /\ N \in Seq(UCall) /\ Len(u_handlers[e]) \in Nat /\ DOMAIN N = 1..Len(u_handlers[e])
      /\ \A k \in DOMAIN N : N[k] = [of |-> m, nth |-> k]
  BY <1>0, EventCalls
<1>2. /\ W = {u_blocks[b].id : b \in {c \in DOMAIN u_blocks : u_blocks[c].db = Queue}}
      /\ W \subseteq 1..Len(u_entered) /\ \A w \in W : u_entered[w] = Queue
  <2>1. W = {u_blocks[b].id : b \in {c \in DOMAIN u_blocks : u_blocks[c].db = Queue}}
    BY <1>0, OpenBlocks DEF UnitsTypes
  <2> QED BY <2>1 DEF UnitsIInv, Numbered
<1>3. /\ DOMAIN u_published' = DOMAIN u_published \cup {m} /\ u_published'[m] = p /\ m \in Nat
      /\ \A i \in DOMAIN u_published : u_published'[i] = u_published[i] /\ i \in Nat /\ i < m
      /\ u_published' \in Seq(UEvent(1..Len(u_entered)))
  <2>1. p \in UEvent(1..Len(u_entered))
    BY <1>1, <1>2 DEF UEvent
  <2>2. u_published' = Append(u_published, p) /\ u_published \in Seq(UEvent(1..Len(u_entered)))
    BY <1>0 DEF U!Published, UnitsTypes
  <2> HIDE DEF p
  <2> QED BY <2>1, <2>2
<1>4. p.within = W /\ p.to = Len(u_handlers[e])
  OBVIOUS
<1> HIDE DEF m, W, p
<1>5. m \notin DOMAIN u_published
  BY <1>3
<1>6. \A c \in Range(N) : c \in UCall /\ c.of = m /\ c.nth \in 1..Len(u_handlers[e])
  <2> SUFFICES ASSUME NEW k \in DOMAIN N PROVE N[k] \in UCall /\ N[k].of = m /\ N[k].nth \in 1..Len(u_handlers[e])
    BY DEF Range
  <2>1. N[k] = [of |-> m, nth |-> k] /\ k \in 1..Len(u_handlers[e]) /\ k \in Nat /\ m \in Nat
    BY <1>1, <1>3
  <2> QED BY <2>1 DEF UCall
<1>7. Range(N) \cap Made = {}
  BY <1>5, <1>6 DEF Made
<1>8. Made' = Made \cup Range(N)
  <2>1. Made' = {c \in UCall : c.of \in DOMAIN u_published' /\ c.nth \in 1..u_published'[c.of].to}
    BY DEF Made
  <2>2. ASSUME NEW c \in UCall, c.of = m, c.nth \in 1..Len(u_handlers[e]) PROVE c \in Range(N)
    <3>1. c = [of |-> m, nth |-> c.nth]
      BY <2>2 DEF UCall
    <3>2. c.nth \in DOMAIN N /\ N[c.nth] = c
      BY <1>1, <2>2, <3>1
    <3> QED BY <3>2 DEF Range
  <2>3. \A c \in Range(N) : c \in Made'
    BY <1>3, <1>4, <1>6, <2>1
  <2>4. \A c \in UCall : c \in Made' <=> c \in Made \/ (c.of = m /\ c.nth \in 1..Len(u_handlers[e]))
    BY <1>3, <1>4, <1>5, <2>1 DEF Made
  <2>5. Made \subseteq UCall /\ Made' \subseteq UCall
    BY <2>1 DEF Made
  <2> QED BY <1>6, <2>2, <2>3, <2>4, <2>5
<1>9. \A c \in Made : Around(c)' = Around(c) /\ c.of < m
  BY <1>3 DEF Made, Around
<1>10. \A c \in Range(N) : Around(c)' = W
  BY <1>3, <1>4, <1>6 DEF Around
<1>11. Publications'
  <2>1. \A i \in DOMAIN u_published' : \A w \in u_published'[i].within : u_entered'[w] = Queue
    BY <1>2, <1>3, <1>4 DEF UnitsIInv, Publications
  <2>2. ASSUME NEW i \in DOMAIN u_published', NEW b \in DOMAIN u_blocks', u_blocks'[b].db = Queue
        PROVE  u_blocks'[b].id \in u_published'[i].within \/ \A w \in u_published'[i].within : w < u_blocks'[b].id
    <3>1. CASE i = m
      BY <1>2, <1>3, <1>4, <2>2, <3>1
    <3>2. CASE i \in DOMAIN u_published
      BY <1>3, <2>2, <3>2 DEF UnitsIInv, Publications
    <3> QED BY <1>3, <3>1, <3>2
  <2> QED BY <2>1, <2>2 DEF Publications
<1>12. \A c \in Made, d \in Range(N) : c.of < d.of
  BY <1>6, <1>9
<1> QED BY <1>3, <1>7, <1>8, <1>9, <1>10, <1>11, <1>12 DEF W

(* One sequence of calls after another, and what follows the first call.   *)
LEMMA JoinedCalls ==
  ASSUME NEW s \in Seq(UCall), NEW t \in Seq(UCall), NEW j, j = s \o t
  PROVE  /\ j \in Seq(UCall) /\ Range(j) = Range(s) \cup Range(t)
         /\ Once(s) /\ Once(t) /\ Range(s) \cap Range(t) = {} => Once(j)
         /\ DOMAIN s = 1..Len(s) /\ Len(s) \in Nat
         /\ \A i \in DOMAIN j : \/ i \in DOMAIN s /\ j[i] = s[i]
                                \/ i \in Nat /\ i > Len(s) /\ i - Len(s) \in DOMAIN t /\ j[i] = t[i - Len(s)]
         /\ \A i \in DOMAIN s : i \in DOMAIN j /\ j[i] = s[i]
<1>1. j \in Seq(UCall) /\ Len(j) = Len(s) + Len(t) /\ DOMAIN j = 1..(Len(s) + Len(t))
  OBVIOUS
<1>2. DOMAIN s = 1..Len(s) /\ DOMAIN t = 1..Len(t) /\ Len(s) \in Nat /\ Len(t) \in Nat
  OBVIOUS
<1>3. /\ \A i \in 1..Len(s) : j[i] = s[i]
      /\ \A i \in 1..Len(t) : j[i + Len(s)] = t[i]
  OBVIOUS
<1>4. \A i \in DOMAIN j : \/ i \in DOMAIN s /\ j[i] = s[i]
                          \/ i \in Nat /\ i > Len(s) /\ i - Len(s) \in DOMAIN t /\ j[i] = t[i - Len(s)]
  <2> SUFFICES ASSUME NEW i \in DOMAIN j, i \notin DOMAIN s
               PROVE  i \in Nat /\ i > Len(s) /\ i - Len(s) \in DOMAIN t /\ j[i] = t[i - Len(s)]
    BY <1>2, <1>3
  <2>1. i \in Nat /\ i > Len(s) /\ i - Len(s) \in 1..Len(t) /\ (i - Len(s)) + Len(s) = i
    BY <1>1, <1>2
  <2> QED BY <1>2, <1>3, <2>1
<1>5. \A i \in DOMAIN s : i \in DOMAIN j /\ j[i] = s[i]
  BY <1>1, <1>2, <1>3
<1>6. \A i \in DOMAIN t : i + Len(s) \in DOMAIN j /\ j[i + Len(s)] = t[i]
  BY <1>1, <1>2, <1>3
<1>7. Range(j) = Range(s) \cup Range(t)
  <2>1. Range(j) \subseteq Range(s) \cup Range(t)
    BY <1>4 DEF Range
  <2>2. Range(s) \subseteq Range(j) /\ Range(t) \subseteq Range(j)
    BY <1>5, <1>6 DEF Range
  <2> QED BY <2>1, <2>2
<1>8. ASSUME Once(s), Once(t), Range(s) \cap Range(t) = {} PROVE Once(j)
  <2> SUFFICES ASSUME NEW i \in DOMAIN j, NEW k \in DOMAIN j, j[i] = j[k] PROVE i = k
    BY DEF Once
  <2>1. \A a \in DOMAIN s, b \in DOMAIN t : s[a] # t[b]
    BY <1>8 DEF Range
  <2>2. CASE i \in DOMAIN s /\ k \in DOMAIN s
    BY <1>5, <1>8, <2>2 DEF Once
  <2>3. CASE i \notin DOMAIN s /\ k \notin DOMAIN s
    <3>1. i - Len(s) = k - Len(s) /\ i \in Nat /\ k \in Nat
      BY <1>4, <1>8, <2>3 DEF Once
    <3> QED BY <1>2, <3>1
  <2> QED BY <1>4, <2>1, <2>2, <2>3
<1> QED BY <1>1, <1>2, <1>4, <1>5, <1>7, <1>8

LEMMA TailOfCalls ==
  ASSUME NEW s \in Seq(UCall), s # <<>>, Once(s), NEW r, r = Tail(s)
  PROVE  /\ r \in Seq(UCall) /\ Once(r) /\ Range(r) = Range(s) \ {Head(s)} /\ Head(s) \in Range(s) /\ Head(s) \in UCall
         /\ {s[i] : i \in 2..Len(s)} = Range(r) /\ 1 \in DOMAIN s /\ Head(s) = s[1]
         /\ \A i \in DOMAIN r : i \in Nat /\ i + 1 \in DOMAIN s /\ r[i] = s[i + 1] /\ 1 < i + 1
<1>1. /\ DOMAIN s = 1..Len(s) /\ Len(s) \in Nat \ {0} /\ Head(s) = s[1] /\ s[1] \in UCall
      /\ r \in Seq(UCall) /\ DOMAIN r = 1..(Len(s) - 1) /\ \A i \in 1..(Len(s) - 1) : r[i] = s[i + 1]
  OBVIOUS
<1>2. \A i \in DOMAIN r : i \in Nat /\ i + 1 \in DOMAIN s /\ r[i] = s[i + 1] /\ 1 < i + 1
  BY <1>1
<1>3. 1 \in DOMAIN s /\ \A i \in DOMAIN s : i \in Nat /\ (i = 1 \/ (i \in 2..Len(s) /\ i - 1 \in DOMAIN r /\ r[i - 1] = s[i]))
  BY <1>1
<1>4. {s[i] : i \in 2..Len(s)} = Range(r)
  <2>1. \A i \in 2..Len(s) : i - 1 \in DOMAIN r /\ r[i - 1] = s[i]
    BY <1>1
  <2>2. \A i \in DOMAIN r : i + 1 \in 2..Len(s)
    BY <1>1
  <2>3. \A i \in 2..Len(s) : s[i] \in Range(r)
    BY <2>1 DEF Range
  <2>4. \A i \in DOMAIN r : r[i] \in {s[k] : k \in 2..Len(s)}
    BY <1>2, <2>2
  <2> QED BY <2>3, <2>4 DEF Range
<1>5. Once(r)
  <2> SUFFICES ASSUME NEW i \in DOMAIN r, NEW k \in DOMAIN r, r[i] = r[k] PROVE i = k
    BY DEF Once
  <2>1. i + 1 = k + 1 /\ i \in Nat /\ k \in Nat
    BY <1>2 DEF Once
  <2> QED BY <2>1
<1>6. Range(r) = Range(s) \ {Head(s)}
  <2>1. \A i \in DOMAIN r : r[i] \in Range(s) /\ r[i] # s[1]
    BY <1>2, <1>3 DEF Once, Range
  <2>2. \A i \in DOMAIN s : s[i] = s[1] \/ s[i] \in Range(r)
    BY <1>3 DEF Range
  <2> QED BY <1>1, <2>1, <2>2 DEF Range
<1> QED BY <1>1, <1>2, <1>3, <1>4, <1>5, <1>6 DEF Range

LEMMA AppendedCall ==
  ASSUME NEW s \in Seq(UCall), Once(s), NEW c \in UCall, c \notin Range(s), NEW t, t = Append(s, c)
  PROVE  /\ t \in Seq(UCall) /\ Range(t) = Range(s) \cup {c} /\ Once(t)
         /\ \A i \in DOMAIN t : (i \in DOMAIN s /\ t[i] = s[i]) \/ (i = Len(s) + 1 /\ t[i] = c)
         /\ \A i \in DOMAIN s : i \in Nat /\ i <= Len(s)
         /\ Len(s) \in Nat
<1>1. /\ t \in Seq(UCall) /\ DOMAIN t = 1..(Len(s) + 1) /\ DOMAIN s = 1..Len(s) /\ Len(s) \in Nat
      /\ \A i \in 1..Len(s) : t[i] = s[i]
      /\ t[Len(s) + 1] = c
  OBVIOUS
<1>2. \A i \in DOMAIN t : (i \in DOMAIN s /\ t[i] = s[i]) \/ (i = Len(s) + 1 /\ t[i] = c)
  BY <1>1
<1>3. \A i \in DOMAIN s : i \in DOMAIN t /\ i \in Nat /\ i <= Len(s) /\ t[i] = s[i]
  BY <1>1
<1>4. Len(s) + 1 \in DOMAIN t
  BY <1>1
<1>5. Range(t) = Range(s) \cup {c}
  BY <1>1, <1>2, <1>3, <1>4 DEF Range
<1>6. Once(t)
  BY <1>2 DEF Once, Range
<1> QED BY <1>1, <1>2, <1>3, <1>5, <1>6

(* An event is published: its calls wait for the commit, or run.           *)
LEMMA PublishUnits ==
  ASSUME UnitsIInv, NEW e \in Events, U!Publish(e)
  PROVE  UnitsIInv'
<1> DEFINE N == U!CallsOf(e)
           W == U!Within(Queue)
<1>0. UnitsTypes
  BY DEF UnitsIInv
<1>e. /\ U!Published(e) /\ u_calls = <<>>
      /\ UNCHANGED <<u_blocks, u_rows, u_handlers, u_entered, u_undone, u_written, u_told, u_dropped>>
      /\ U!InAtomicBlock(Queue) => u_hooks' = u_hooks \o N /\ u_calls' = u_calls
      /\ ~U!InAtomicBlock(Queue) => u_calls' = N /\ u_hooks' = u_hooks
  BY DEF U!Publish, U!Running, U!InUseCase, U!Defers
<1>1. /\ N \in Seq(UCall) /\ Once(N) /\ Len(u_handlers[e]) \in Nat /\ DOMAIN N = 1..Len(u_handlers[e])
      /\ \A k \in DOMAIN N : N[k] = [of |-> Len(u_published) + 1, nth |-> k]
  BY <1>0, EventCalls
<1>2. /\ u_published' \in Seq(UEvent(1..Len(u_entered))) /\ Publications'
      /\ Range(N) \cap Made = {} /\ Made' = Made \cup Range(N)
      /\ \A c \in Made : Around(c)' = Around(c)
      /\ \A c \in Range(N) : Around(c)' = W
      /\ \A c \in Made, d \in Range(N) : c.of < d.of
  BY <1>e, PublishedFacts
<1>3. /\ W = {u_blocks[b].id : b \in {c \in DOMAIN u_blocks : u_blocks[c].db = Queue}}
      /\ U!InAtomicBlock(Queue) <=> \E b \in DOMAIN u_blocks : u_blocks[b].db = Queue
  BY <1>0, OpenBlocks DEF UnitsTypes
<1>4. W \cap u_undone = {}
  BY <1>3 DEF UnitsIInv, Numbered
<1> HIDE DEF N, W
<1>5. \A i, j \in DOMAIN N : i < j => N[i].of = N[j].of /\ N[i].nth < N[j].nth
  <2>1. \A k \in DOMAIN N : N[k].of = Len(u_published) + 1 /\ N[k].nth = k
    <3> SUFFICES ASSUME NEW k \in DOMAIN N PROVE N[k].of = Len(u_published) + 1 /\ N[k].nth = k
      OBVIOUS
    <3>1. N[k] = [of |-> Len(u_published) + 1, nth |-> k]
      BY <1>1
    <3> QED BY <3>1
  <2> QED BY <2>1
<1>6. OneFate /\ Hooked /\ Turns /\ Range(<<>>) = {} /\ Once(<<>>)
  BY DEF UnitsIInv, Range, Once
<1>7. u_hooks \in Seq(UCall) /\ u_calls \in Seq(UCall) /\ u_told \in Seq(UCall)
  BY <1>0 DEF UnitsTypes
\* Either way the calls are there, and once.
<1>8. /\ u_hooks' \in Seq(UCall) /\ u_calls' \in Seq(UCall)
      /\ Once(u_hooks)' /\ Once(u_calls)' /\ Range(u_hooks)' \cap Range(u_calls)' = {}
      /\ Range(u_hooks)' \cup Range(u_calls)' = Range(u_hooks) \cup Range(u_calls) \cup Range(N)
      /\ Range(u_hooks) \subseteq Range(u_hooks)'
  <2>1. Range(u_hooks) \cap Range(N) = {}
    BY <1>2, <1>6 DEF OneFate
  <2>2. CASE U!InAtomicBlock(Queue)
    <3>1. /\ u_hooks' \in Seq(UCall) /\ Range(u_hooks') = Range(u_hooks) \cup Range(N) /\ Once(u_hooks')
      BY <1>1, <1>6, <1>7, <1>e, <2>1, <2>2, JoinedCalls DEF OneFate
    <3> QED BY <1>6, <1>7, <1>e, <2>2, <3>1
  <2>3. CASE ~U!InAtomicBlock(Queue)
    BY <1>1, <1>6, <1>7, <1>e, <2>1, <2>3 DEF OneFate
  <2> QED BY <2>2, <2>3
<1>9. UnitsTypes'
  BY <1>0, <1>2, <1>8, <1>e DEF UnitsTypes
<1>n. Nested'
  <2>1. U!Inner.kind \in {"none", "unit"} /\ Nested
    BY DEF UnitsIInv, U!Publish, U!Running, U!InUseCase
  <2>2. ASSUME NEW b \in DOMAIN u_blocks PROVE u_blocks[b].kind = "unit"
    <3>1. u_blocks # <<>>
      OBVIOUS
    <3>2. U!Inner = u_blocks[Len(u_blocks)] /\ Len(u_blocks) \in DOMAIN u_blocks /\ DOMAIN u_blocks = 1..Len(u_blocks) /\ Len(u_blocks) \in Nat
      BY <1>0, <3>1, InnerBlock
    <3>3. u_blocks[Len(u_blocks)].kind = "unit"
      BY <1>0, <2>1, <3>2, HeldTypes DEF UBlock
    <3>4. CASE b < Len(u_blocks)
      <4>1. u_blocks[b].kind # "save" /\ u_blocks[b].kind # "service"
        BY <2>1, <3>2, <3>3, <3>4 DEF UnitsIInv, Numbered, Nested
      <4> QED BY <1>0, <4>1, HeldTypes DEF UBlock
    <3>5. b = Len(u_blocks) \/ b < Len(u_blocks)
      BY <3>2
    <3> QED BY <3>3, <3>4, <3>5
  <2> QED BY <1>e, <2>1, <2>2 DEF Nested
<1>10. Numbered' /\ Rows' /\ Saves'
  <2>1. U!Within(Repository)' = U!Within(Repository)
    BY <1>e DEF U!Within, U!Open
  <2>2. Numbered' /\ Rows'
    BY <1>e DEF UnitsIInv, Numbered, Rows
  <2>3. Saves'
    BY <1>e, <2>1 DEF UnitsIInv, Saves
  <2> QED BY <2>2, <2>3
<1>11. OneFate'
  <2>1. /\ Range(u_hooks) \cup Range(u_calls) \cup Range(u_told) \cup u_dropped \subseteq Made
        /\ Range(u_told)' = Range(u_told) /\ u_dropped' = u_dropped /\ u_undone' = u_undone
    BY <1>6, <1>e DEF OneFate
  <2>2. /\ Range(u_hooks)' \cup Range(u_calls)' \cup Range(u_told)' \cup u_dropped' \subseteq Made'
        /\ Range(u_hooks)' \cap (Range(u_calls)' \cup Range(u_told)' \cup u_dropped') = {}
        /\ Range(u_calls)' \cap (Range(u_told)' \cup u_dropped') = {}
        /\ Range(u_told)' \cap u_dropped' = {}
    BY <1>2, <1>6, <1>8, <2>1 DEF OneFate
  <2>3. \A c \in Range(u_hooks)' \cup Range(u_calls)' \cup Range(u_told)' : Around(c)' \cap u_undone' = {}
    <3>1. \A c \in Range(u_hooks) \cup Range(u_calls) \cup Range(u_told) : Around(c)' \cap u_undone = {}
      BY <1>2, <1>6, <2>1 DEF OneFate
    <3>2. \A c \in Range(N) : Around(c)' \cap u_undone = {}
      BY <1>2, <1>4
    <3> QED BY <1>8, <2>1, <3>1, <3>2
  <2>4. \A c \in Made' : Around(c)' \cap u_undone' = {} => c \in Range(u_hooks)' \cup Range(u_calls)' \cup Range(u_told)' \cup u_dropped'
    BY <1>2, <1>6, <1>8, <2>1 DEF OneFate
  <2>5. Once(u_told)'
    BY <1>6, <1>e DEF OneFate, Once
  <2> QED BY <1>8, <2>2, <2>3, <2>4, <2>5 DEF OneFate
\* What the calls that were there have around them has not changed.
<1>12. /\ \A i \in DOMAIN u_told : u_told[i] \in Made /\ Around(u_told[i])' = Around(u_told[i])
       /\ \A k \in DOMAIN u_hooks : u_hooks[k] \in Made /\ (\A c : c = u_hooks[k] => Around(c)' = Around(c))
  <2>1. \A i \in DOMAIN u_told : u_told[i] \in Made /\ (\A c : c = u_told[i] => Around(c)' = Around(c))
    BY <1>2, <1>6 DEF OneFate, Range
  <2>2. \A k \in DOMAIN u_hooks : u_hooks[k] \in Made /\ (\A c : c = u_hooks[k] => Around(c)' = Around(c))
    BY <1>2, <1>6 DEF OneFate, Range
  <2>3. \A i \in DOMAIN u_told : Around(u_told[i])' = Around(u_told[i])
    BY <1>e, <2>1 DEF Around
  <2> QED BY <2>1, <2>2, <2>3
<1>13. CASE U!InAtomicBlock(Queue)
  <2>1. /\ u_calls' = <<>> /\ u_hooks' = u_hooks \o N
    BY <1>e, <1>13
  <2>2. /\ \A k \in DOMAIN u_hooks' : \/ k \in DOMAIN u_hooks /\ u_hooks'[k] = u_hooks[k]
                                      \/ k \in Nat /\ k > Len(u_hooks) /\ k - Len(u_hooks) \in DOMAIN N /\ u_hooks'[k] = N[k - Len(u_hooks)]
        /\ DOMAIN u_hooks = 1..Len(u_hooks) /\ Len(u_hooks) \in Nat
        /\ Len(u_hooks) <= Len(u_hooks')
    <3>1. Len(u_hooks') = Len(u_hooks) + Len(N) /\ Len(N) \in Nat /\ Len(u_hooks) \in Nat
      BY <1>1, <1>7, <2>1
    <3> QED BY <1>1, <1>7, <2>1, <3>1, JoinedCalls
  <2>3. \A k \in DOMAIN u_hooks' : k \notin DOMAIN u_hooks => u_hooks'[k] \in Range(N) /\ Around(u_hooks[k])' = W
    <3> SUFFICES ASSUME NEW k \in DOMAIN u_hooks', k \notin DOMAIN u_hooks
                 PROVE  u_hooks'[k] \in Range(N) /\ Around(u_hooks[k])' = W
      OBVIOUS
    <3>1. u_hooks'[k] \in Range(N)
      BY <2>2 DEF Range
    <3>2. \A c : c = u_hooks'[k] => Around(c)' = W
      BY <1>2, <3>1
    <3> QED BY <3>1, <3>2 DEF Around
  <2>4. \A k \in DOMAIN u_hooks' : k \in DOMAIN u_hooks => u_hooks'[k] = u_hooks[k] /\ Around(u_hooks[k])' = Around(u_hooks[k])
    <3> SUFFICES ASSUME NEW k \in DOMAIN u_hooks', k \in DOMAIN u_hooks
                 PROVE  u_hooks'[k] = u_hooks[k] /\ Around(u_hooks[k])' = Around(u_hooks[k])
      OBVIOUS
    <3>1. u_hooks'[k] = u_hooks[k]
      BY <2>2
    <3> QED BY <1>12, <3>1 DEF Around
  <2>5. Hooked'
    <3>1. \E b \in DOMAIN u_blocks' : u_blocks'[b].db = Queue
      BY <1>3, <1>13, <1>e
    <3>2. ASSUME NEW b \in DOMAIN u_blocks, u_blocks[b].db = Queue
          PROVE  /\ u_calls' = <<>> /\ u_blocks[b].hooked <= Len(u_hooks')
                 /\ \A k \in DOMAIN u_hooks' : (k > u_blocks[b].hooked) <=> (u_blocks[b].id \in Around(u_hooks[k])')
                 /\ (\A a \in DOMAIN u_blocks : u_blocks[a].db = Queue => b <= a) => u_blocks[b].hooked = 0
                 /\ \A i \in DOMAIN u_told : \A w \in Around(u_told[i])' : w < u_blocks[b].id
      <4>1. u_blocks[b].id \in W /\ u_blocks[b].hooked \in Nat
        BY <1>0, <1>3, <3>2, HeldTypes
      <4>2. /\ u_blocks[b].hooked <= Len(u_hooks)
            /\ \A k \in DOMAIN u_hooks : (k > u_blocks[b].hooked) <=> (u_blocks[b].id \in Around(u_hooks[k]))
            /\ (\A a \in DOMAIN u_blocks : u_blocks[a].db = Queue => b <= a) => u_blocks[b].hooked = 0
            /\ \A i \in DOMAIN u_told : \A w \in Around(u_told[i]) : w < u_blocks[b].id
        BY <1>6, <3>2 DEF Hooked
      <4>3. ASSUME NEW k \in DOMAIN u_hooks'
            PROVE  (k > u_blocks[b].hooked) <=> (u_blocks[b].id \in Around(u_hooks[k])')
        <5>1. CASE k \in DOMAIN u_hooks
          BY <2>4, <4>2, <5>1
        <5>2. CASE k \notin DOMAIN u_hooks
          <6>1. k \in Nat /\ k > Len(u_hooks) /\ Len(u_hooks) \in Nat
            BY <2>2, <5>2
          <6>2. Around(u_hooks[k])' = W
            BY <2>3, <5>2
          <6> QED BY <4>1, <4>2, <6>1, <6>2
        <5> QED BY <5>1, <5>2
      <4>4. u_blocks[b].hooked <= Len(u_hooks')
        <5>1. Len(u_hooks') \in Nat /\ Len(u_hooks) \in Nat /\ Len(u_hooks) <= Len(u_hooks')
          BY <1>8, <2>2
        <5> QED BY <4>1, <4>2, <5>1
      <4> QED BY <1>12, <2>1, <4>2, <4>3, <4>4
    <3> QED BY <1>e, <3>1, <3>2 DEF Hooked
  <2>6. Turns'
    <3>1. ASSUME NEW i \in DOMAIN u_hooks', NEW j \in DOMAIN u_hooks', i < j
          PROVE  InTurn(u_hooks[i], u_hooks[j])'
      <4>1. CASE i \in DOMAIN u_hooks /\ j \in DOMAIN u_hooks
        <5>1. InTurn(u_hooks[i], u_hooks[j])
          BY <1>6, <3>1, <4>1 DEF Turns
        <5> QED BY <2>4, <4>1, <5>1 DEF InTurn
      <4>2. CASE i \in DOMAIN u_hooks /\ j \notin DOMAIN u_hooks
        <5>1. u_hooks'[i] \in Made /\ u_hooks'[j] \in Range(N)
          BY <1>12, <2>3, <2>4, <4>2
        <5>2. u_hooks'[i].of < u_hooks'[j].of
          BY <1>2, <5>1
        <5> QED BY <5>2 DEF InTurn
      <4>3. CASE i \notin DOMAIN u_hooks /\ j \notin DOMAIN u_hooks
        <5> DEFINE a == i - Len(u_hooks)
                   c == j - Len(u_hooks)
        <5>1. a \in DOMAIN N /\ c \in DOMAIN N /\ u_hooks'[i] = N[a] /\ u_hooks'[j] = N[c] /\ a < c
          BY <2>2, <3>1, <4>3
        <5> HIDE DEF a, c
        <5>2. u_hooks'[i].of = u_hooks'[j].of /\ u_hooks'[i].nth < u_hooks'[j].nth
          BY <1>5, <5>1
        <5> QED BY <5>2 DEF InTurn
      <4>4. i \notin DOMAIN u_hooks => j \notin DOMAIN u_hooks
        BY <2>2, <3>1
      <4> QED BY <4>1, <4>2, <4>3, <4>4
    <3>2. ASSUME NEW i \in DOMAIN u_told, NEW j \in DOMAIN u_hooks'
          PROVE  Around(u_told[i])' \cap Around(u_hooks[j])' = {}
      <4>1. CASE j \in DOMAIN u_hooks
        BY <1>6, <1>12, <2>4, <4>1 DEF Turns
      <4>2. CASE j \notin DOMAIN u_hooks
        <5>1. \A w \in W : w \notin Around(u_told[i])
          <6> SUFFICES ASSUME NEW b \in DOMAIN u_blocks, u_blocks[b].db = Queue, u_blocks[b].id \in Around(u_told[i]) PROVE FALSE
            BY <1>3
          <6>1. u_blocks[b].id < u_blocks[b].id /\ u_blocks[b].id \in Nat
            BY <1>0, <1>6, HeldTypes DEF Hooked
          <6> QED BY <6>1
        <5> QED BY <1>12, <2>3, <4>2, <5>1
      <4> QED BY <4>1, <4>2
    <3>3. ASSUME NEW i \in DOMAIN u_told, NEW j \in DOMAIN u_told, i < j PROVE InTurn(u_told[i], u_told[j])'
      <4>1. InTurn(u_told[i], u_told[j])
        BY <1>6, <3>3 DEF Turns
      <4> QED BY <1>12, <1>e, <4>1 DEF InTurn
    <3>4. DOMAIN u_calls' = {} /\ DOMAIN u_told' = DOMAIN u_told
      BY <1>e, <2>1
    <3> QED BY <3>1, <3>2, <3>3, <3>4 DEF Turns
  <2> QED BY <1>9, <1>10, <1>n, <1>2, <1>11, <2>5, <2>6 DEF UnitsIInv
<1>14. CASE ~U!InAtomicBlock(Queue)
  <2>1. u_hooks = <<>> /\ u_hooks' = <<>> /\ u_calls' = N /\ W = {} /\ \A b \in DOMAIN u_blocks : u_blocks[b].db # Queue
    BY <1>3, <1>6, <1>e, <1>14 DEF Hooked
  <2>2. Hooked'
    BY <1>e, <2>1 DEF Hooked
  <2>3. ASSUME NEW i \in DOMAIN u_told, NEW j \in DOMAIN u_told, i < j PROVE InTurn(u_told[i], u_told[j])'
    <3>1. InTurn(u_told[i], u_told[j])
      BY <1>6, <2>3 DEF Turns
    <3> QED BY <1>12, <1>e, <3>1 DEF InTurn
  <2>4. \A j \in DOMAIN u_calls' : Around(u_calls[j])' = {}
    <3> SUFFICES ASSUME NEW j \in DOMAIN u_calls' PROVE Around(u_calls[j])' = {}
      OBVIOUS
    <3>1. u_calls'[j] \in Range(N)
      BY <2>1 DEF Range
    <3>2. \A c : c = u_calls'[j] => Around(c)' = {}
      BY <1>2, <2>1, <3>1
    <3> QED BY <3>2 DEF Around
  <2>5. \A c, d : Around(c)' = {} \/ Around(d)' = {} => InTurn(c, d)'
    BY DEF InTurn
  <2>6. ASSUME NEW j \in DOMAIN u_calls', NEW i PROVE InTurn(u_calls[i], u_calls[j])' /\ InTurn(u_told[i], u_calls[j])'
    BY <2>4 DEF InTurn
  <2>7. DOMAIN u_hooks' = {} /\ DOMAIN u_told' = DOMAIN u_told
    BY <1>e, <2>1
  <2>8. Turns'
    BY <2>3, <2>6, <2>7 DEF Turns
  <2> QED BY <1>9, <1>10, <1>n, <1>2, <1>11, <2>2, <2>8 DEF UnitsIInv
<1> QED BY <1>13, <1>14

(* A call has run: X are the calls of what it published, Z those that      *)
(* still wait behind it, L those that never run.                           *)
LEMMA CallFate ==
  ASSUME OneFate, NEW h, NEW X, NEW Z, NEW L,
         Range(u_calls) = {h} \cup Z \cup L, h \notin Z \cup L, Z \cap L = {},
         Made' = Made \cup X, X \cap Made = {}, \A c \in Made : Around(c)' = Around(c), \A c \in X : Around(c)' = {},
         Range(u_hooks) = {}, Range(u_hooks)' = {}, Once(u_hooks)', Once(u_calls)', Once(u_told)',
         Range(u_told)' = Range(u_told) \cup {h}, Range(u_calls)' = X \cup Z, u_dropped' = u_dropped \cup L, u_undone' = u_undone
  PROVE  OneFate'
<1>1. Z \cup L \cup {h} \cup Range(u_told) \cup u_dropped \subseteq Made
  BY DEF OneFate
<1>2. /\ Range(u_hooks)' \cup Range(u_calls)' \cup Range(u_told)' \cup u_dropped' \subseteq Made'
      /\ Range(u_hooks)' \cap (Range(u_calls)' \cup Range(u_told)' \cup u_dropped') = {}
      /\ Range(u_calls)' \cap (Range(u_told)' \cup u_dropped') = {}
      /\ Range(u_told)' \cap u_dropped' = {}
  BY <1>1 DEF OneFate
<1>3. \A c \in Range(u_hooks)' \cup Range(u_calls)' \cup Range(u_told)' : Around(c)' \cap u_undone' = {}
  <2>1. \A c \in Z \cup {h} \cup Range(u_told) : Around(c)' \cap u_undone = {}
    BY <1>1 DEF OneFate
  <2>2. \A c \in X : Around(c)' \cap u_undone = {}
    OBVIOUS
  <2> QED BY <2>1, <2>2
<1>4. \A c \in Made' : Around(c)' \cap u_undone' = {} => c \in Range(u_hooks)' \cup Range(u_calls)' \cup Range(u_told)' \cup u_dropped'
  <2>1. \A c \in Made : Around(c)' \cap u_undone = {} => c \in {h} \cup Z \cup L \cup Range(u_told) \cup u_dropped
    BY DEF OneFate
  <2> QED BY <2>1
<1> QED BY <1>2, <1>3, <1>4 DEF OneFate

(* What runs keeps the order it had before.                                *)
LEMMA CallTurns ==
  ASSUME OneFate, Turns, u_calls \in Seq(UCall), u_told \in Seq(UCall), u_calls # <<>>, u_hooks' = <<>>,
         u_told' = Append(u_told, Head(u_calls)), Once(u_told), Head(u_calls) \notin Range(u_told), Once(u_calls),
         \A c \in Made : Around(c)' = Around(c),
         \A i \in DOMAIN u_calls' : Around(u_calls[i])' = {} \/ \E k \in DOMAIN u_calls : 1 < k /\ u_calls'[i] = u_calls[k],
         \A i, j \in DOMAIN u_calls' : i < j => \/ Around(u_calls[i])' = {} \/ Around(u_calls[j])' = {}
                                                \/ \E k, l \in DOMAIN u_calls : k < l /\ u_calls'[i] = u_calls[k] /\ u_calls'[j] = u_calls[l]
  PROVE  Turns'
<1>1. 1 \in DOMAIN u_calls /\ Head(u_calls) = u_calls[1] /\ Head(u_calls) \in UCall
  OBVIOUS
<1>2. /\ \A i \in DOMAIN u_told' : (i \in DOMAIN u_told /\ u_told'[i] = u_told[i]) \/ (i = Len(u_told) + 1 /\ u_told'[i] = u_calls[1])
      /\ \A i \in DOMAIN u_told : i \in Nat /\ i <= Len(u_told)
      /\ Len(u_told) \in Nat
  BY <1>1, AppendedCall
\* Two calls of which one has no transaction around it, or that were in turn, are.
<1>3. \A c, d : Around(c)' = {} \/ Around(d)' = {} => InTurn(c, d)'
  BY DEF InTurn
<1>4. \A c, d \in Made : InTurn(c, d) => InTurn(c, d)'
  BY DEF InTurn
<1>5. /\ \A i \in DOMAIN u_told : u_told[i] \in Made
      /\ \A k \in DOMAIN u_calls : u_calls[k] \in Made
  BY DEF OneFate, Range
<1>6. ASSUME NEW i \in DOMAIN u_told', NEW j \in DOMAIN u_told', i < j PROVE InTurn(u_told[i], u_told[j])'
  <2> SUFFICES ASSUME NEW c, NEW d, c = u_told'[i], d = u_told'[j] PROVE InTurn(c, d)'
    BY DEF InTurn, Around
  <2>1. i \in DOMAIN u_told /\ c = u_told[i]
    BY <1>2, <1>6
  <2>2. CASE j \in DOMAIN u_told /\ d = u_told[j]
    <3>1. InTurn(c, d)
      BY <1>6, <2>1, <2>2 DEF Turns
    <3> QED BY <1>4, <1>5, <2>1, <2>2, <3>1
  <2>3. CASE d = u_calls[1]
    <3>1. InTurn(c, d)
      BY <1>1, <2>1, <2>3 DEF Turns
    <3> QED BY <1>1, <1>4, <1>5, <2>1, <2>3, <3>1
  <2> QED BY <1>2, <2>2, <2>3
<1>7. ASSUME NEW i \in DOMAIN u_calls', NEW j \in DOMAIN u_calls', i < j PROVE InTurn(u_calls[i], u_calls[j])'
  <2> SUFFICES ASSUME NEW c, NEW d, c = u_calls'[i], d = u_calls'[j] PROVE InTurn(c, d)'
    BY DEF InTurn, Around
  <2>1. CASE Around(u_calls[i])' = {} \/ Around(u_calls[j])' = {}
    BY <1>3, <2>1 DEF Around
  <2>2. ASSUME NEW k \in DOMAIN u_calls, NEW l \in DOMAIN u_calls, k < l, u_calls'[i] = u_calls[k], u_calls'[j] = u_calls[l]
        PROVE  InTurn(c, d)'
    <3>1. InTurn(c, d)
      BY <2>2 DEF Turns
    <3> QED BY <1>4, <1>5, <2>2, <3>1
  <2> QED BY <1>7, <2>1, <2>2
<1>8. ASSUME NEW i \in DOMAIN u_told', NEW j \in DOMAIN u_calls' PROVE InTurn(u_told[i], u_calls[j])'
  <2> SUFFICES ASSUME NEW c, NEW d, c = u_told'[i], d = u_calls'[j] PROVE InTurn(c, d)'
    BY DEF InTurn, Around
  <2>1. CASE Around(u_calls[j])' = {}
    BY <1>3, <2>1 DEF Around
  <2>2. ASSUME NEW k \in DOMAIN u_calls, 1 < k, u_calls'[j] = u_calls[k] PROVE InTurn(c, d)'
    <3>1. CASE i \in DOMAIN u_told /\ c = u_told[i]
      <4>1. InTurn(c, d)
        BY <2>2, <3>1 DEF Turns
      <4> QED BY <1>4, <1>5, <2>2, <3>1, <4>1
    <3>2. CASE c = u_calls[1]
      <4>1. InTurn(c, d)
        BY <1>1, <2>2, <3>2 DEF Turns
      <4> QED BY <1>1, <1>4, <1>5, <2>2, <3>2, <4>1
    <3> QED BY <1>2, <3>1, <3>2
  <2> QED BY <2>1, <2>2
<1>9. DOMAIN u_hooks' = {}
  OBVIOUS
<1> QED BY <1>6, <1>7, <1>8, <1>9 DEF Turns

(* A call returns, publishes an event, or raises.                          *)
LEMMA CallUnits ==
  ASSUME UnitsIInv, U!Call
  PROVE  UnitsIInv'
<1>0. UnitsTypes
  BY DEF UnitsIInv
<1>e. /\ u_calls # <<>> /\ u_told' = Append(u_told, Head(u_calls))
      /\ UNCHANGED <<u_blocks, u_rows, u_hooks, u_handlers, u_entered, u_undone, u_written>>
  BY DEF U!Call
<1>1. OneFate /\ Hooked /\ Turns /\ Range(<<>>) = {} /\ Once(<<>>)
  BY DEF UnitsIInv, Range, Once
<1>2. /\ (\A b \in DOMAIN u_blocks : u_blocks[b].db # Queue) /\ u_hooks = <<>> /\ u_hooks' = <<>>
      /\ u_calls \in Seq(UCall) /\ u_told \in Seq(UCall)
  BY <1>0, <1>1, <1>e DEF Hooked, UnitsTypes
<1>3. U!Within(Queue) = {}
  BY <1>0, <1>2, OpenBlocks DEF UnitsTypes
<1>4. Numbered' /\ Nested' /\ Rows' /\ Saves' /\ Hooked'
  <2>1. U!Within(Repository)' = U!Within(Repository)
    BY <1>e DEF U!Within, U!Open
  <2>2. Numbered' /\ Nested' /\ Rows'
    BY <1>e DEF UnitsIInv, Numbered, Nested, Rows
  <2>3. Saves'
    BY <1>e, <2>1 DEF UnitsIInv, Saves
  <2>4. Hooked'
    BY <1>2, <1>e DEF Hooked
  <2> QED BY <2>2, <2>3, <2>4
<1> DEFINE h == Head(u_calls)
           r == Tail(u_calls)
<1>5. /\ Once(u_calls) /\ r \in Seq(UCall) /\ Once(r) /\ Range(r) = Range(u_calls) \ {h} /\ h \in Range(u_calls) /\ h \in UCall
      /\ {u_calls[i] : i \in 2..Len(u_calls)} = Range(r)
      /\ \A i \in DOMAIN r : i \in Nat /\ i + 1 \in DOMAIN u_calls /\ r[i] = u_calls[i + 1] /\ 1 < i + 1
  BY <1>1, <1>2, <1>e, TailOfCalls DEF OneFate
<1>6. h \notin Range(u_told) /\ Once(u_told) /\ u_told' = Append(u_told, h)
  BY <1>1, <1>5, <1>e DEF OneFate
<1> HIDE DEF r
<1>7. u_told' \in Seq(UCall) /\ Range(u_told') = Range(u_told) \cup {h} /\ Once(u_told')
  <2> HIDE DEF h
  <2> QED BY <1>2, <1>5, <1>6, AppendedCall
<1>8. CASE u_calls' = r /\ UNCHANGED <<u_raising, u_published, u_dropped>>
  <2>1. UnitsTypes' /\ Publications'
    <3>1. Publications'
      BY <1>8, <1>e DEF UnitsIInv, Publications
    <3> QED BY <1>0, <1>5, <1>7, <1>8, <1>e, <3>1 DEF UnitsTypes
  <2>2. Made' = Made /\ \A c : Around(c)' = Around(c)
    BY <1>8 DEF Made, Around
  <2>3. Once(u_hooks)' /\ Once(u_calls)' /\ Once(u_told)' /\ Range(u_hooks) = {} /\ Range(u_hooks)' = {}
    BY <1>1, <1>2, <1>5, <1>7, <1>8
  <2>4. OneFate'
    <3> SUFFICES ASSUME NEW Z, Z = Range(r), NEW X, X = {} PROVE OneFate'
      OBVIOUS
    <3>1. /\ Range(u_calls) = {h} \cup Z \cup X /\ h \notin Z \cup X /\ Z \cap X = {}
          /\ Range(u_told)' = Range(u_told) \cup {h} /\ Range(u_calls)' = X \cup Z /\ u_dropped' = u_dropped \cup X
          /\ Made' = Made \cup X /\ X \cap Made = {} /\ u_undone' = u_undone
      BY <1>5, <1>7, <1>8, <1>e, <2>2
    <3>2. (\A c \in Made : Around(c)' = Around(c)) /\ \A c \in X : Around(c)' = {}
      BY <2>2
    <3> HIDE DEF h
    <3> QED BY <1>1, <2>3, <3>1, <3>2, CallFate
  <2>5. \A i \in DOMAIN u_calls' : \E k \in DOMAIN u_calls : 1 < k /\ u_calls'[i] = u_calls[k]
    BY <1>5, <1>8
  <2>6. \A i, j \in DOMAIN u_calls' : i < j => \E k, l \in DOMAIN u_calls : k < l /\ u_calls'[i] = u_calls[k] /\ u_calls'[j] = u_calls[l]
    <3> SUFFICES ASSUME NEW i \in DOMAIN u_calls', NEW j \in DOMAIN u_calls', i < j
                 PROVE  i + 1 \in DOMAIN u_calls /\ j + 1 \in DOMAIN u_calls /\ i + 1 < j + 1
                        /\ u_calls'[i] = u_calls[i + 1] /\ u_calls'[j] = u_calls[j + 1]
      OBVIOUS
    <3> QED BY <1>5, <1>8
  <2>7. Turns'
    BY <1>1, <1>2, <1>5, <1>6, <1>e, <2>2, <2>5, <2>6, CallTurns
  <2> QED BY <1>4, <2>1, <2>4, <2>7 DEF UnitsIInv
<1>9. ASSUME NEW e \in Events, U!Published(e), u_calls' = U!CallsOf(e) \o r, UNCHANGED <<u_raising, u_dropped>>
      PROVE  UnitsIInv'
  <2> SUFFICES ASSUME NEW N, N = U!CallsOf(e) PROVE UnitsIInv'
    OBVIOUS
  <2>1. /\ N \in Seq(UCall) /\ Once(N)
    BY <1>0, EventCalls
  <2>2. /\ u_published' \in Seq(UEvent(1..Len(u_entered))) /\ Publications'
        /\ Range(N) \cap Made = {} /\ Made' = Made \cup Range(N)
        /\ \A c \in Made : Around(c)' = Around(c)
        /\ \A c \in Range(N) : Around(c)' = {}
    BY <1>3, <1>9, <1>e, PublishedFacts
  <2>3. Range(N) \cap Range(r) = {}
    BY <1>1, <1>5, <2>2 DEF OneFate
  <2>4. /\ u_calls' \in Seq(UCall) /\ Range(u_calls') = Range(N) \cup Range(r) /\ Once(u_calls')
        /\ DOMAIN N = 1..Len(N) /\ Len(N) \in Nat
        /\ \A i \in DOMAIN u_calls' : \/ i \in DOMAIN N /\ u_calls'[i] = N[i]
                                      \/ i \in Nat /\ i > Len(N) /\ i - Len(N) \in DOMAIN r /\ u_calls'[i] = r[i - Len(N)]
    <3>1. N \in Seq(UCall) /\ r \in Seq(UCall) /\ u_calls' = N \o r /\ Once(N) /\ Once(r)
      BY <1>5, <1>9, <2>1
    <3>2. u_calls' \in Seq(UCall) /\ Range(u_calls') = Range(N) \cup Range(r)
      BY <3>1, JoinedCalls
    <3>3. Once(u_calls')
      BY <2>3, <3>1, JoinedCalls
    <3> QED BY <3>1, <3>2, <3>3, JoinedCalls
  <2>5. UnitsTypes'
    BY <1>0, <1>7, <1>9, <1>e, <2>2, <2>4 DEF UnitsTypes
  <2>6. Once(u_hooks)' /\ Range(u_hooks) = {} /\ Range(u_hooks)' = {} /\ Once(u_calls)' /\ Once(u_told)'
    BY <1>1, <1>2, <1>7, <2>4
  <2>7. OneFate'
    <3> SUFFICES ASSUME NEW Z, Z = Range(r), NEW L, L = {} PROVE OneFate'
      OBVIOUS
    <3>1. /\ Range(u_calls) = {h} \cup Z \cup L /\ h \notin Z \cup L /\ Z \cap L = {}
          /\ Range(u_told)' = Range(u_told) \cup {h} /\ Range(u_calls)' = Range(N) \cup Z /\ u_dropped' = u_dropped \cup L
          /\ u_undone' = u_undone
      BY <1>5, <1>7, <1>9, <1>e, <2>4
    <3> HIDE DEF h
    <3> QED BY <1>1, <2>2, <2>6, <3>1, CallFate
  <2>8. \A i \in DOMAIN u_calls' : \/ Around(u_calls[i])' = {}
                                   \/ i \in Nat /\ i > Len(N) /\ i - Len(N) \in DOMAIN r /\ u_calls'[i] = r[i - Len(N)]
    <3> SUFFICES ASSUME NEW i \in DOMAIN N, u_calls'[i] = N[i] PROVE Around(u_calls[i])' = {}
      BY <2>4
    <3>1. N[i] \in Range(N)
      BY DEF Range
    <3>2. Around(N[i])' = {}
      BY <2>2, <3>1
    <3> QED BY <3>2 DEF Around
  <2>9. \A i \in DOMAIN u_calls' : \/ Around(u_calls[i])' = {}
                                   \/ /\ i \in Nat /\ i - Len(N) + 1 \in DOMAIN u_calls /\ 1 < i - Len(N) + 1
                                      /\ u_calls'[i] = u_calls[i - Len(N) + 1]
    BY <1>5, <2>8
  <2>10. \A i \in DOMAIN u_calls' : Around(u_calls[i])' = {} \/ \E k \in DOMAIN u_calls : 1 < k /\ u_calls'[i] = u_calls[k]
    BY <2>9
  <2>11. \A i, j \in DOMAIN u_calls' : i < j => \/ Around(u_calls[i])' = {} \/ Around(u_calls[j])' = {}
                                                \/ \E k, l \in DOMAIN u_calls : k < l /\ u_calls'[i] = u_calls[k] /\ u_calls'[j] = u_calls[l]
    <3> SUFFICES ASSUME NEW i \in DOMAIN u_calls', NEW j \in DOMAIN u_calls', i < j, Around(u_calls[i])' # {}, Around(u_calls[j])' # {}
                 PROVE  \E k, l \in DOMAIN u_calls : k < l /\ u_calls'[i] = u_calls[k] /\ u_calls'[j] = u_calls[l]
      OBVIOUS
    <3>1. /\ i \in Nat /\ i - Len(N) + 1 \in DOMAIN u_calls /\ u_calls'[i] = u_calls[i - Len(N) + 1]
          /\ j \in Nat /\ j - Len(N) + 1 \in DOMAIN u_calls /\ u_calls'[j] = u_calls[j - Len(N) + 1]
      BY <2>9
    <3>2. i - Len(N) + 1 < j - Len(N) + 1
      BY <2>4, <3>1
    <3> QED BY <3>1, <3>2
  <2>12. Turns'
    BY <1>1, <1>2, <1>5, <1>6, <1>e, <2>2, <2>10, <2>11, CallTurns
  <2> QED BY <1>4, <2>2, <2>5, <2>7, <2>12 DEF UnitsIInv
<1>10. CASE u_calls' = <<>> /\ u_dropped' = u_dropped \cup Range(r) /\ UNCHANGED u_published
  <2>1. UnitsTypes' /\ Publications'
    <3>1. Publications'
      BY <1>10, <1>e DEF UnitsIInv, Publications
    <3>2. Range(r) \subseteq UCall
      BY <1>5 DEF Range
    <3> QED BY <1>0, <1>2, <1>7, <1>10, <1>e, <3>1, <3>2 DEF UnitsTypes
  <2>2. Made' = Made /\ \A c : Around(c)' = Around(c)
    BY <1>10 DEF Made, Around
  <2>3. Once(u_hooks)' /\ Once(u_calls)' /\ Once(u_told)' /\ Range(u_hooks) = {} /\ Range(u_hooks)' = {}
    BY <1>1, <1>2, <1>7, <1>10
  <2>4. OneFate'
    <3> SUFFICES ASSUME NEW L, L = Range(r), NEW X, X = {} PROVE OneFate'
      OBVIOUS
    <3>1. /\ Range(u_calls) = {h} \cup X \cup L /\ h \notin X \cup L /\ X \cap L = {}
          /\ Range(u_told)' = Range(u_told) \cup {h} /\ Range(u_calls)' = X \cup X /\ u_dropped' = u_dropped \cup L
          /\ Made' = Made \cup X /\ X \cap Made = {} /\ u_undone' = u_undone
      BY <1>1, <1>5, <1>7, <1>10, <1>e, <2>2
    <3>2. (\A c \in Made : Around(c)' = Around(c)) /\ \A c \in X : Around(c)' = {}
      BY <2>2
    <3> HIDE DEF h
    <3> QED BY <1>1, <2>3, <3>1, <3>2, CallFate
  <2>5. DOMAIN u_calls' = {}
    BY <1>10
  <2>6. Turns'
    BY <1>1, <1>2, <1>5, <1>6, <1>e, <2>2, <2>5, CallTurns
  <2> QED BY <1>4, <2>1, <2>4, <2>6 DEF UnitsIInv
<1> QED BY <1>5, <1>8, <1>9, <1>10 DEF U!Call, r

(* What the run checks of them.                                            *)
LEMMA EventsFollow == ASSUME UnitsIInv PROVE U!EventsFollowCommits
<1>1. /\ DOMAIN u_written = 1..Len(u_written) /\ DOMAIN u_told = 1..Len(u_told)
      /\ DOMAIN u_published = 1..Len(u_published) /\ u_blocks \in Seq(UBlock)
      /\ DOMAIN u_blocks = 1..Len(u_blocks)
  BY OpenBlocks DEF UnitsIInv, UnitsTypes
<1>2. U!RowsFollowBlocks
  <2>1. u_rows = {i \in 1..Len(u_written) : u_written[i].within \cap u_undone = {}}
    BY <1>1 DEF UnitsIInv, Rows
  <2>2. ASSUME NEW i \in u_rows, u_written[i].part = "row"
        PROVE  \/ \E b \in 1..Len(u_blocks) : u_blocks[b].kind = "save" /\ u_blocks[b].id = u_written[i].call
               \/ \E j \in u_rows : u_written[j].call = u_written[i].call /\ u_written[j].part = "relations"
    <3>1. i \in DOMAIN u_written /\ u_written[i].within \cap u_undone = {}
      BY <1>1, <2>1
    <3>2. u_written[i].call \notin u_undone
      BY <2>2, <3>1 DEF UnitsIInv, Saves
    <3>3. CASE \E b \in DOMAIN u_blocks : u_blocks[b].kind = "save" /\ u_blocks[b].id = u_written[i].call /\ u_blocks[b].step = "row"
      BY <1>1, <3>3
    <3>4. ASSUME NEW j \in DOMAIN u_written, u_written[j].part = "relations", u_written[j].call = u_written[i].call,
                 u_written[j].within = u_written[i].within
          PROVE  \E k \in u_rows : u_written[k].call = u_written[i].call /\ u_written[k].part = "relations"
      BY <1>1, <2>1, <3>1, <3>4
    <3> QED BY <2>2, <3>1, <3>2, <3>3, <3>4 DEF UnitsIInv, Saves
  <2> QED BY <2>1, <2>2 DEF U!RowsFollowBlocks
<1>3. U!ToldAfterCommit
  <2> SUFFICES ASSUME NEW i \in DOMAIN u_told PROVE u_published[u_told[i].of].within \cap (u_undone \cup U!Within(Queue)) = {}
    BY <1>1 DEF U!ToldAfterCommit
  <2>1. Around(u_told[i]) \cap u_undone = {} /\ u_told[i].of \in DOMAIN u_published
    BY DEF UnitsIInv, OneFate, Range, Made
  <2>2. \A b \in DOMAIN u_blocks : u_blocks[b].db = Queue => u_blocks[b].id \notin Around(u_told[i])
    <3> SUFFICES ASSUME NEW b \in DOMAIN u_blocks, u_blocks[b].db = Queue, u_blocks[b].id \in Around(u_told[i]) PROVE FALSE
      OBVIOUS
    <3>1. u_blocks[b].id < u_blocks[b].id /\ u_blocks[b].id \in Nat
      BY DEF UnitsIInv, Hooked, Numbered
    <3> QED BY <3>1
  <2> QED BY <1>1, <2>1, <2>2, OpenBlocks DEF Around
<1>4. U!EveryoneIsTold
  <2>1. \A i, j \in 1..Len(u_told) : u_told[i] = u_told[j] => i = j
    BY <1>1 DEF UnitsIInv, OneFate, Once
  <2>2. ASSUME u_calls = <<>>, ~U!InAtomicBlock(Queue), NEW n \in 1..Len(u_published), u_published[n].within \cap u_undone = {},
               NEW nth \in 1..u_published[n].to, NEW c, c = [of |-> n, nth |-> nth]
        PROVE  (\E i \in 1..Len(u_told) : u_told[i] = c) <=> c \notin u_dropped
    <3>1. u_hooks = <<>>
      BY <1>1, <2>2, OpenBlocks DEF UnitsIInv, Hooked
    <3>2. Range(u_hooks) = {} /\ Range(u_calls) = {}
      BY <2>2, <3>1 DEF Range
    <3>3. u_published[n].to \in Nat
      BY <1>1, <2>2, HeldTypes DEF UnitsIInv
    <3>4. c \in UCall /\ c.of = n /\ c.nth = nth
      BY <2>2, <3>3 DEF UCall
    <3>5. c \in Made /\ Around(c) \cap u_undone = {}
      BY <1>1, <2>2, <3>4 DEF Made, Around
    <3>6. c \in Range(u_told) \cup u_dropped /\ Range(u_told) \cap u_dropped = {}
      BY <3>2, <3>5 DEF UnitsIInv, OneFate
    <3> QED BY <1>1, <3>6 DEF Range
  <2> QED BY <2>1, <2>2 DEF U!EveryoneIsTold
<1>5. U!InOrder
  BY <1>1 DEF UnitsIInv, Turns, InTurn, Around, U!InOrder
<1> QED BY <1>2, <1>3, <1>4, <1>5 DEF U!EventsFollowCommits

LEMMA UnitsInductive == U!Spec => []UnitsIInv
<1>1. UnitsIInv /\ [U!Next]_(U!vars) => UnitsIInv'
  <2> SUFFICES ASSUME UnitsIInv, [U!Next]_(U!vars) PROVE UnitsIInv'
    OBVIOUS
  <2>0. UnitsTypes
    BY DEF UnitsIInv
  \* What is around the inner block, from its kind.
  <2>1. ASSUME U!Inner.kind # "save"
        PROVE  \A b \in DOMAIN u_blocks : u_blocks[b].kind # "save" /\ (u_blocks[b].kind = "service" => U!Inner.kind = "service")
    <3> SUFFICES ASSUME NEW b \in DOMAIN u_blocks
                 PROVE  u_blocks[b].kind # "save" /\ (u_blocks[b].kind = "service" => U!Inner.kind = "service")
      OBVIOUS
    <3>1. u_blocks # <<>>
      OBVIOUS
    <3>2. U!Inner = u_blocks[Len(u_blocks)] /\ Len(u_blocks) \in DOMAIN u_blocks /\ DOMAIN u_blocks = 1..Len(u_blocks)
      BY <2>0, <3>1, InnerBlock
    <3>3. b = Len(u_blocks) \/ b < Len(u_blocks)
      BY <3>2
    <3> QED BY <2>1, <3>2, <3>3 DEF UnitsIInv, Numbered, Nested
  <2>2. Repository \in U!Databases /\ \A u \in DOMAIN Units : Units[u].using \in U!Databases
    BY DEF U!Databases
  <2>3. ASSUME NEW u \in DOMAIN Units, U!Enter(u) PROVE UnitsIInv'
    <3>1. u_calls = <<>> /\ U!Inner.kind \in {"none", "unit"} /\ UNCHANGED <<u_rows, u_hooks, u_calls, u_handlers, u_undone, u_written, u_published, u_told, u_dropped>>
      BY <2>3 DEF U!Enter, U!Running, U!InUseCase
    <3>2. CASE U!Push("unit", u, Units[u].using)
      BY <2>1, <2>2, <3>1, <3>2, PushUnits
    <3>3. CASE UNCHANGED <<u_blocks, u_entered>>
      BY <2>0, <3>1, <3>3, StillUnits DEF UnitsTypes
    <3> QED BY <2>3, <3>2, <3>3 DEF U!Enter
  <2>4. ASSUME U!Exit PROVE UnitsIInv'
    <3>1. CASE u_raising
      BY <2>4, <3>1, UndoUnits
    <3>2. CASE ~u_raising
      <4>1. u_undone' = u_undone
        BY <2>4, <3>2 DEF U!Exit
      <4>2. /\ u_blocks # <<>> /\ u_calls = <<>> /\ (U!Inner.kind = "unit" \/ U!Inner.step = "done") /\ u_blocks' = U!Outer
            /\ IF U!Inner.db = Queue /\ Cardinality(U!Open(Queue)) = 1
               THEN u_calls' = u_hooks /\ u_hooks' = <<>> ELSE UNCHANGED <<u_calls, u_hooks>>
            /\ UNCHANGED <<u_rows, u_handlers, u_entered, u_written, u_published, u_told, u_dropped>>
        BY <2>4, <3>2, UnitsCardinality DEF U!Exit, U!RollsBack
      <4> QED BY <4>1, <4>2, KeepUnits
    <3> QED BY <3>1, <3>2
  <2>5. ASSUME U!Catch \/ U!Raise \/ U!Fail \/ UNCHANGED U!vars PROVE UnitsIInv'
    <3>1. UNCHANGED <<u_blocks, u_rows, u_hooks, u_calls, u_entered, u_undone, u_written, u_published, u_told, u_dropped, u_handlers>>
      BY <2>5 DEF U!Catch, U!Raise, U!Fail, U!history, U!vars
    <3> QED BY <2>0, <3>1, StillUnits DEF UnitsTypes
  <2>6. ASSUME NEW op \in {"save", "remove"}, U!Serve(op) PROVE UnitsIInv'
    <3>1. u_calls = <<>> /\ U!Inner.kind \in {"none", "unit"} /\ U!Push("service", op, Repository)
          /\ UNCHANGED <<u_rows, u_hooks, u_calls, u_handlers, u_undone, u_written, u_published, u_told, u_dropped>>
      BY <2>6 DEF U!Serve, U!Running, U!InUseCase
    <3> QED BY <2>1, <2>2, <3>1, PushUnits
  <2>7. ASSUME U!Save PROVE UnitsIInv'
    <3>1. U!Inner.kind # "save" /\ U!Push("save", "save", Repository)
          /\ UNCHANGED <<u_rows, u_hooks, u_calls, u_handlers, u_undone, u_written, u_published, u_told, u_dropped>>
      BY <2>7 DEF U!Save, U!Saves, U!Begin, U!Running, U!InUseCase
    \* No call runs while a service is open.
    <3>2. u_calls = <<>>
      <4>1. CASE U!Inner.kind = "service"
        <5>1. u_blocks # <<>>
          BY <2>0, <4>1, InnerBlock
        <5>2. U!Inner = u_blocks[Len(u_blocks)] /\ Len(u_blocks) \in DOMAIN u_blocks
          BY <2>0, <5>1, InnerBlock
        <5> QED BY <4>1, <5>2 DEF UnitsIInv, Nested
      <4>2. CASE U!Running
        BY <4>2 DEF U!Running, U!InUseCase
      <4> QED BY <2>7, <4>1, <4>2 DEF U!Save, U!Saves
    <3> QED BY <2>1, <2>2, <3>1, <3>2, PushUnits
  <2>8. ASSUME U!SaveRow \/ U!SetRelations \/ U!Remove PROVE UnitsIInv'
    <3>1. u_blocks # <<>>
      BY <2>0, <2>8, InnerBlock DEF U!SaveRow, U!SetRelations, U!Remove
    <3>2. CASE U!SaveRow
      BY <3>1, <3>2, WriteUnits DEF U!SaveRow
    <3>3. CASE U!SetRelations
      BY <3>1, <3>3, WriteUnits DEF U!SetRelations
    <3>4. CASE U!Remove
      BY <3>1, <3>4, WriteUnits DEF U!Remove
    <3> QED BY <2>8, <3>2, <3>3, <3>4
  <2>9. ASSUME U!Clear \/ \E e \in Events, hd \in Handlers : U!Subscribe(e, hd) PROVE UnitsIInv'
    <3>1. UNCHANGED <<u_blocks, u_rows, u_hooks, u_calls, u_entered, u_undone, u_written, u_published, u_told, u_dropped>>
      BY <2>9 DEF U!Clear, U!Subscribe, U!history
    <3>2. u_handlers' \in [Events -> Seq(Handlers)]
      <4>1. CASE U!Clear
        <5>1. <<>> \in Seq(Handlers)
          OBVIOUS
        <5> QED BY <4>1, <5>1 DEF U!Clear
      <4>2. ASSUME NEW e \in Events, NEW hd \in Handlers, U!Subscribe(e, hd) PROVE u_handlers' \in [Events -> Seq(Handlers)]
        <5>1. u_handlers[e] \in Seq(Handlers)
          BY <2>0 DEF UnitsTypes
        <5>2. Append(u_handlers[e], hd) \in Seq(Handlers)
          BY <5>1
        <5>3. u_handlers' = [u_handlers EXCEPT ![e] = Append(u_handlers[e], hd)]
          BY <4>2 DEF U!Subscribe
        <5> QED BY <2>0, <5>2, <5>3 DEF UnitsTypes
      <4> QED BY <2>9, <4>1, <4>2
    <3> QED BY <3>1, <3>2, StillUnits
  <2>10. ASSUME NEW e \in Events, U!Publish(e) PROVE UnitsIInv'
    BY <2>10, PublishUnits
  <2>11. ASSUME U!Call PROVE UnitsIInv'
    BY <2>11, CallUnits
  <2> QED BY <2>3, <2>4, <2>5, <2>6, <2>7, <2>8, <2>9, <2>10, <2>11 DEF U!Next
<1> QED BY <1>1, InitUnits, PTL DEF U!Spec

-----------------------------------------------------------------------------
(* WhatIsToldWasDone: where rows are read with a lock, the entries of the  *)
(* log follow one from the other and end at what the row holds; where they *)
(* are not, an entry still tells no value, and the row has none, that no   *)
(* earlier entry brought; they show no credential (contrib/audit/log.py:   *)
(* 165).  What is in the database was written in blocks that were kept,    *)
(* and each handler hears once, in order, of the events whose transaction  *)
(* was committed, and of no other (cqrs/events.py:52).                     *)
THEOREM WhatIsToldAlways == A!Spec /\ U!Spec => []WhatIsToldWasDone
<1>1. AuditIInv /\ UnitsIInv => WhatIsToldWasDone
  BY EventsFollow DEF AuditIInv, WhatIsToldWasDone
<1> QED BY <1>1, AuditInductive, UnitsInductive, PTL

(* PartsAreAlone: a behaviour of all the state machines side by side, one  *)
(* of which moves, is a behaviour of every one of them.                    *)
THEOREM PartsAreAlone ==
  Services => Spec /\ R!Spec /\ C!Spec /\ T!Spec /\ K!Spec /\ A!Spec /\ H!Spec /\ U!Spec
<1>1. Start => Init /\ R!Init /\ C!Init /\ T!Init /\ K!Init /\ A!Init /\ H!Init /\ U!Init
  BY DEF Start
<1> DEFINE Others == <<crudvars, requestsvars, cachevars, throttlevars, keysvars, auditvars, healthvars, unitsvars>>
<1>2. [Move \/ Rest]_allvars =>
        /\ Next \/ UNCHANGED crudvars
        /\ R!Next \/ UNCHANGED requestsvars
        /\ C!Next \/ UNCHANGED cachevars
        /\ T!Next \/ UNCHANGED throttlevars
        /\ K!Next \/ UNCHANGED keysvars
        /\ A!Next \/ UNCHANGED auditvars
        /\ H!Next \/ UNCHANGED healthvars
        /\ U!Next \/ UNCHANGED unitsvars
  <2>1. Rest \/ UNCHANGED allvars => UNCHANGED Others
    BY DEF Rest, allvars
  <2> HIDE DEF Others
  <2>2. UNCHANGED Others => /\ UNCHANGED crudvars /\ UNCHANGED requestsvars /\ UNCHANGED cachevars /\ UNCHANGED throttlevars
                            /\ UNCHANGED keysvars /\ UNCHANGED auditvars /\ UNCHANGED healthvars /\ UNCHANGED unitsvars
    BY DEF Others
  <2> QED BY <2>1, <2>2 DEF Move
<1>3. /\ UNCHANGED crudvars => UNCHANGED vars
      /\ UNCHANGED requestsvars => UNCHANGED R!vars
      /\ UNCHANGED cachevars => UNCHANGED C!vars
      /\ UNCHANGED throttlevars => UNCHANGED T!vars
      /\ UNCHANGED keysvars => UNCHANGED K!vars
      /\ UNCHANGED auditvars => UNCHANGED A!vars
      /\ UNCHANGED healthvars => UNCHANGED H!vars
      /\ UNCHANGED unitsvars => UNCHANGED U!vars
  BY DEF crudvars, requestsvars, R!vars, cachevars, C!vars, throttlevars, T!vars, keysvars, K!vars, auditvars, A!vars,
         healthvars, H!vars, unitsvars, U!vars
<1>4. [Move \/ Rest]_allvars =>
        /\ [Next]_vars /\ [R!Next]_(R!vars) /\ [C!Next]_(C!vars) /\ [T!Next]_(T!vars)
        /\ [K!Next]_(K!vars) /\ [A!Next]_(A!vars) /\ [H!Next]_(H!vars) /\ [U!Next]_(U!vars)
  BY <1>2, <1>3
<1> QED BY <1>1, <1>4, PTL DEF Services, Spec, R!Spec, C!Spec, T!Spec, K!Spec, A!Spec, H!Spec, U!Spec

(* So what is proved of the parts holds of the behaviours that the run     *)
(* checks, whatever part moves: this is every property of these parts.     *)
THEOREM ServicesKeepTheirPromises ==
  Services => []InvalidatedIsGone /\ []LimitHolds /\ []RefusedOnceReplaced /\ NothingComesBack
              /\ []WhatIsToldWasDone /\ []OneWorkerAndItsNews
  BY PartsAreAlone, InvalidatedIsGoneHolds, LimitHoldsAlways, RefusedOnceReplacedAlways, NothingComesBackAlways,
     WhatIsToldAlways, OneWorkerAndItsNewsAlways, PTL
=============================================================================
