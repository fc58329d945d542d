---------------------------- MODULE UploadsProofs ----------------------------
(***************************************************************************)
(* Proofs about Uploads for every set of keys, users, contents and         *)
(* completing requests, every expiry, grace and upload time, and every     *)
(* configuration of policy and bucket.                                     *)
(***************************************************************************)
EXTENDS Uploads, FiniteSetTheorems, SequenceTheorems, TLAPS

Cleaning == cleaner.pc \in {"stat", "delete", "save"}

(* A row lock belongs to the request, or the cleanup, that works on its    *)
(* record, and to nobody else.                                             *)
Locks ==
  /\ \A k \in Keys, c \in Completers :
       lock[k] = c <=> completer[c].pc # "idle" /\ completer[c].key = k
  /\ \A k \in Keys : lock[k] = "cleaner" <=> Cleaning /\ cleaner.key = k
  /\ \A c \in Completers : completer[c].pc # "idle" => completer[c].key \in Keys
  /\ Cleaning => cleaner.key \in Keys

Holds(k, o) == \E i \in DOMAIN bucket[k] : bucket[k][i] = o
(* Every stored object and every PUT has a version of its own kind.        *)
Stored == \A k \in Keys : \A i \in DOMAIN bucket[k] : bucket[k][i].version # 0

(* What a completing request saw it may still report when it saves: the    *)
(* store kept it, and a record completed before agrees with it.            *)
SawIsThere ==
  \A c \in Completers : completer[c].pc # "idle" =>
    LET k == completer[c].key  o == completer[c].saw IN
    /\ record[k].state \in {"pending", "complete"}
    /\ completer[c].pc = "save" =>
         /\ o \in Objects /\ bucket[k] # <<>>
         /\ policy.versioned => Holds(k, o)
         /\ record[k].state = "complete" => SameObject(k, o)

Reported(o) == [o EXCEPT !.version = VersionId(o)]
(* All that was ever reported of a key is what its record says.            *)
AnsweredOnce ==
  \A k \in Keys :
    /\ record[k].state = "complete" => record[k].saved \in Objects
    /\ \A o \in returned[k] : record[k].state = "complete" /\ o = Reported(record[k].saved)

(* The cleanup works on records whose last PUT is over.                    *)
CleansExpired ==
  /\ cleaner.pc # "idle" => cleaner.cutoff + Grace <= now
  /\ Cleaning => LET k == cleaner.key IN
       /\ record[k].state = "pending" /\ record[k].expires < cleaner.cutoff
       /\ cleaner.pc = "save" /\ ~policy.versioned => bucket[k] = <<>>
PutsInTime ==
  \A p \in flying : /\ record[p.key].state # "none"
                    /\ p.started <= record[p.key].expires /\ now <= p.started + UploadTime
ExpiredIsOver ==
  \A k \in Keys : record[k].state = "expired" =>
    /\ record[k].expires + Grace < now
    /\ ~policy.versioned => bucket[k] = <<>>

IInv == /\ TypeOK /\ Locks /\ Stored /\ SawIsThere /\ AnsweredOnce /\ CompletedObjectKept
        /\ CleansExpired /\ PutsInTime /\ ExpiredIsOver

-----------------------------------------------------------------------------
LEMMA IdleIsTyped ==
  /\ Idle \in Holder /\ Idle.pc = "idle"
  /\ NoRecord.state = "none" /\ NoRecord.saved = NoObject /\ NoRecord.expires = 0
  /\ NoObject.version = 0
  BY DEF Idle, Holder, NoRecord, NoObject

LEMMA InitIInv == ASSUME Init PROVE IInv
<1> USE IdleIsTyped, UploadsAssumption DEF Init
<1>1. NoRecord \in Records
  BY DEF NoRecord, Records
<1>2. TypeOK
  BY <1>1 DEF TypeOK, Cleaner, Puts, Nobody
<1>3. Locks
  BY DEF Locks, Cleaning, Nobody
<1>4. Stored /\ SawIsThere /\ AnsweredOnce /\ CompletedObjectKept
  BY DEF Stored, SawIsThere, AnsweredOnce, CompletedObjectKept
<1>5. CleansExpired /\ PutsInTime /\ ExpiredIsOver
  BY DEF CleansExpired, PutsInTime, ExpiredIsOver, Cleaning
<1> QED BY <1>2, <1>3, <1>4, <1>5 DEF IInv

LEMMA TickInv == ASSUME IInv, Tick PROVE IInv'
<1> USE UploadsAssumption DEF IInv, Tick
<1>1. TypeOK'
  BY DEF TypeOK
<1>2. Locks' /\ Stored' /\ SawIsThere' /\ AnsweredOnce' /\ CompletedObjectKept'
  BY DEF Locks, Cleaning, Stored, SawIsThere, Holds, SameObject, VersionId, AnsweredOnce, Reported,
         CompletedObjectKept
<1>3. CleansExpired' /\ PutsInTime' /\ ExpiredIsOver'
  BY DEF CleansExpired, PutsInTime, ExpiredIsOver, Cleaning, TypeOK, Cleaner, Puts, Records
<1> QED BY <1>1, <1>2, <1>3

LEMMA SignUploadInv == ASSUME IInv, NEW k \in Keys, SignUpload(k) PROVE IInv'
<1> USE UploadsAssumption DEF IInv, SignUpload
<1>1. now + ExpiresIn \in 0..MaxTime
  BY DEF TypeOK
<1>2. record' \in [Keys -> Records] /\ record'[k].state = "pending"
      /\ \A j \in Keys \ {k} : record'[j] = record[j]
  BY <1>1 DEF TypeOK, Records
<1>3. TypeOK'
  BY <1>2 DEF TypeOK
<1>4. Locks' /\ Stored'
  BY DEF Locks, Cleaning, Stored
<1>5. SawIsThere'
  BY <1>2 DEF SawIsThere, Locks, Holds, SameObject, VersionId
<1>6. AnsweredOnce' /\ CompletedObjectKept'
  BY <1>2 DEF AnsweredOnce, Reported, VersionId, CompletedObjectKept
<1>7. CleansExpired'
  BY <1>2 DEF CleansExpired, Locks, Cleaning
<1>8. PutsInTime' /\ ExpiredIsOver'
  BY <1>2 DEF PutsInTime, ExpiredIsOver, TypeOK, Puts
<1> QED BY <1>3, <1>4, <1>5, <1>6, <1>7, <1>8

LEMMA StartPutInv ==
  ASSUME IInv, NEW k \in Keys, NEW x \in Contents, StartPut(k, x) PROVE IInv'
<1> USE UploadsAssumption DEF IInv, StartPut
<1>1. TypeOK'
  <2>1. [key |-> k, content |-> x, version |-> puts[k] + 1, started |-> now] \in Puts
    BY DEF TypeOK, Puts
  <2>2. puts' \in [Keys -> Nat] /\ \A j \in Keys : puts'[j] <= MaxPuts[j]
    <3>1. puts \in [Keys -> Nat] /\ MaxPuts \in [Keys -> Nat] /\ \A j \in Keys : puts[j] <= MaxPuts[j]
      BY DEF TypeOK
    <3>2. puts[k] + 1 \in Nat /\ puts[k] + 1 <= MaxPuts[k]
      BY <3>1
    <3>3. puts' = [puts EXCEPT ![k] = puts[k] + 1]
      OBVIOUS
    <3> QED BY <3>1, <3>2, <3>3
  <2> QED BY <2>1, <2>2 DEF TypeOK
<1>2. Locks' /\ Stored' /\ SawIsThere' /\ AnsweredOnce' /\ CompletedObjectKept'
  BY DEF Locks, Cleaning, Stored, SawIsThere, Holds, SameObject, VersionId, AnsweredOnce, Reported,
         CompletedObjectKept
<1>3. CleansExpired' /\ ExpiredIsOver'
  BY DEF CleansExpired, ExpiredIsOver, Cleaning
<1>4. PutsInTime'
  BY DEF PutsInTime, TypeOK, Records
<1> QED BY <1>1, <1>2, <1>3, <1>4

(* A PUT that lands is in time, so nothing was cleaned under its key yet.  *)
LEMMA LandPutInv == ASSUME IInv, NEW p \in flying, LandPut(p) PROVE IInv'
<1> USE UploadsAssumption DEF IInv
<1> DEFINE k == p.key
           o == [version |-> p.version, content |-> p.content]
<1>1. p \in Puts /\ k \in Keys /\ o \in Objects /\ o.version # 0
  BY DEF TypeOK, Puts, Objects
<1>2. /\ bucket[k] \in Seq(Objects)
      /\ bucket' = [bucket EXCEPT ![k] = IF policy.versioned THEN Append(@, o) ELSE <<o>>]
      /\ flying' = flying \ {p}
      /\ UNCHANGED <<now, policy, record, puts, lock, completer, cleaner, returned>>
  BY <1>1 DEF LandPut, TypeOK
<1> HIDE DEF o, k
<1>3. /\ bucket'[k] \in Seq(Objects) /\ bucket'[k] # <<>>
      /\ \A i \in DOMAIN bucket'[k] :
           bucket'[k][i] = o \/ (i \in DOMAIN bucket[k] /\ bucket'[k][i] = bucket[k][i])
      /\ policy.versioned => \A i \in DOMAIN bucket[k] :
                               i \in DOMAIN bucket'[k] /\ bucket'[k][i] = bucket[k][i]
  <2>1. CASE policy.versioned
    <3>1. bucket'[k] = Append(bucket[k], o)
      BY <1>1, <1>2, <2>1 DEF TypeOK
    <3>2. /\ Append(bucket[k], o) \in Seq(Objects)
          /\ DOMAIN Append(bucket[k], o) = 1..(Len(bucket[k]) + 1)
          /\ DOMAIN bucket[k] = 1..Len(bucket[k]) /\ Len(bucket[k]) \in Nat
          /\ Append(bucket[k], o)[Len(bucket[k]) + 1] = o
          /\ \A i \in 1..Len(bucket[k]) : Append(bucket[k], o)[i] = bucket[k][i]
      BY <1>1, <1>2
    <3>3. Append(bucket[k], o) # <<>>
      BY <3>2, 1 \in DOMAIN Append(bucket[k], o)
    <3> QED BY <3>1, <3>2, <3>3
  <2>2. CASE ~policy.versioned
    <3>1. bucket'[k] = <<o>>
      BY <1>1, <1>2, <2>2 DEF TypeOK
    <3>2. <<o>> \in Seq(Objects) /\ <<o>> # <<>> /\ DOMAIN <<o>> = {1} /\ <<o>>[1] = o
      BY <1>1
    <3> QED BY <3>1, <3>2, <2>2
  <2> QED BY <2>1, <2>2
<1>4. \A j \in Keys \ {k} : bucket'[j] = bucket[j]
  BY <1>1, <1>2 DEF TypeOK
<1>5. TypeOK'
  BY <1>1, <1>2, <1>3 DEF TypeOK
<1>6. Locks' /\ AnsweredOnce' /\ PutsInTime'
  BY <1>2 DEF Locks, Cleaning, AnsweredOnce, Reported, VersionId, PutsInTime
<1>7. Stored'
  BY <1>1, <1>3, <1>4 DEF Stored
<1>8. \A j \in Keys : /\ bucket[j] # <<>> => bucket'[j] # <<>>
                      /\ policy.versioned => \A x : Holds(j, x) => Holds(j, x)'
  BY <1>3, <1>4 DEF Holds
<1>9. SawIsThere'
  BY <1>2, <1>8 DEF SawIsThere, SameObject, VersionId, Locks
<1>10. CompletedObjectKept'
  <2> SUFFICES ASSUME NEW j \in Keys, record[j].state = "complete"
               PROVE  IF policy.versioned THEN Holds(j, record[j].saved)' ELSE bucket'[j] # <<>>
    BY <1>2 DEF CompletedObjectKept, Holds
  <2>1. IF policy.versioned THEN Holds(j, record[j].saved) ELSE bucket[j] # <<>>
    BY DEF CompletedObjectKept, Holds
  <2> QED BY <1>2, <1>8, <2>1 DEF Holds
<1>11. record[k].state # "none" /\ now <= record[k].expires + Grace
  BY <1>1 DEF PutsInTime, k, TypeOK, Puts, Records
<1>12. CleansExpired'
  <2>1. Cleaning => cleaner.key \in Keys \ {k}
    BY <1>1, <1>11 DEF CleansExpired, Locks, Cleaning, TypeOK, Cleaner, Records
  <2> QED BY <1>2, <1>4, <2>1 DEF CleansExpired, Cleaning
<1>13. ExpiredIsOver'
  BY <1>1, <1>2, <1>4, <1>11 DEF ExpiredIsOver, TypeOK, Records
<1> QED BY <1>5, <1>6, <1>7, <1>9, <1>10, <1>12, <1>13
-----------------------------------------------------------------------------
LEMMA CompleteLockInv ==
  ASSUME IInv, NEW c \in Completers, NEW k \in Keys, NEW u \in Users, CompleteLock(c, k, u)
  PROVE  IInv'
<1> USE UploadsAssumption, IdleIsTyped DEF IInv
<1> DEFINE started == [Idle EXCEPT !.pc = "stat", !.key = k]
<1>1. started \in Holder /\ started.pc = "stat" /\ started.key = k
  BY DEF Holder
<1>2. /\ completer[c].pc = "idle" /\ record[k].state \in {"pending", "complete"} /\ lock[k] = Nobody
      /\ lock' = [lock EXCEPT ![k] = c] /\ completer' = [completer EXCEPT ![c] = started]
      /\ UNCHANGED <<now, policy, record, bucket, flying, puts, cleaner, returned>>
  BY DEF CompleteLock, Gone, Acquire, TypeOK, Records
<1> HIDE DEF started
<1>3. TypeOK'
  BY <1>1, <1>2 DEF TypeOK
<1>4. Locks'
  BY <1>1, <1>2 DEF Locks, Cleaning, TypeOK, Nobody
<1>5. Stored' /\ AnsweredOnce' /\ CompletedObjectKept'
  BY <1>2 DEF Stored, AnsweredOnce, Reported, VersionId, CompletedObjectKept
<1>6. SawIsThere'
  BY <1>1, <1>2 DEF SawIsThere, TypeOK, Holds, SameObject, VersionId
<1>7. CleansExpired' /\ PutsInTime' /\ ExpiredIsOver'
  BY <1>2 DEF CompleteLock, CleansExpired, PutsInTime, ExpiredIsOver, Cleaning
<1> QED BY <1>3, <1>4, <1>5, <1>6, <1>7

(* A request that ends gives up its lock, which only it had.               *)
LEMMA ReleasedLocks ==
  ASSUME IInv, NEW c \in Completers, completer[c].pc # "idle",
         completer' = [completer EXCEPT ![c] = Idle], Release(completer[c].key), UNCHANGED cleaner
  PROVE  /\ completer' \in [Completers -> Holder] /\ Locks'
         /\ lock' \in [Keys -> Completers \cup {"cleaner", Nobody}]
<1> USE UploadsAssumption, IdleIsTyped DEF IInv, Release
<1>1. completer[c].key \in Keys /\ lock[completer[c].key] = c
  BY DEF Locks
<1>2. completer' \in [Completers -> Holder]
      /\ lock' \in [Keys -> Completers \cup {"cleaner", Nobody}]
  BY <1>1 DEF TypeOK
<1>3. Locks'
  BY <1>1 DEF Locks, Cleaning, TypeOK, Nobody
<1> QED BY <1>2, <1>3

(* The object the store shows of a key is one it holds.                    *)
LEMMA StatIsThere ==
  ASSUME IInv, NEW k \in Keys
  PROVE  /\ Stat(k) \in Objects \cup {NoObject}
         /\ Stat(k) = NoObject => bucket[k] = <<>>
         /\ Stat(k) # NoObject => /\ Stat(k) \in Objects /\ bucket[k] # <<>>
                                 /\ Holds(k, Stat(k)) /\ Stat(k).version # 0
<1>1. CASE bucket[k] = <<>>
  BY <1>1 DEF Stat
<1>2. CASE bucket[k] # <<>>
  <2>1. bucket[k] \in Seq(Objects) /\ Stat(k) = bucket[k][Len(bucket[k])]
    BY <1>2 DEF IInv, TypeOK, Stat, Last
  <2>2. Len(bucket[k]) \in DOMAIN bucket[k] /\ Stat(k) \in Objects
    BY <1>2, <2>1
  <2>3. Stat(k).version # 0
    BY <2>1, <2>2 DEF IInv, Stored
  <2> QED BY <1>2, <2>1, <2>2, <2>3, IdleIsTyped DEF Holds
<1> QED BY <1>1, <1>2

LEMMA CompleteStatInv == ASSUME IInv, NEW c \in Completers, CompleteStat(c) PROVE IInv'
<1> USE UploadsAssumption DEF IInv
<1> DEFINE k == completer[c].key
           o == Stat(k)
<1>1. /\ k \in Keys /\ lock[k] = c /\ completer[c].pc = "stat"
      /\ UNCHANGED <<now, policy, record, bucket, flying, puts, cleaner, returned>>
  BY DEF CompleteStat, Locks
<1>2. CASE /\ o # NoObject /\ (record[k].state = "complete" => SameObject(k, o))
           /\ completer' = [completer EXCEPT ![c].pc = "save", ![c].saw = o] /\ UNCHANGED lock
  <2>1. o \in Objects /\ bucket[k] # <<>> /\ Holds(k, o)
    BY <1>1, <1>2, StatIsThere
  <2> HIDE DEF o
  <2>2. /\ completer' \in [Completers -> Holder]
        /\ completer'[c].pc = "save" /\ completer'[c].saw = o /\ completer'[c].key = k
        /\ \A d \in Completers \ {c} : completer'[d] = completer[d]
    BY <1>1, <1>2, <2>1 DEF TypeOK, Holder
  <2>3. TypeOK' /\ Locks'
    BY <1>1, <1>2, <2>2 DEF TypeOK, Locks, Cleaning
  <2>4. record[k].state \in {"pending", "complete"}
    BY <1>1 DEF SawIsThere
  <2>5. SawIsThere'
    <3>1. ASSUME NEW j, NEW x
          PROVE  /\ Holds(j, x)' = Holds(j, x) /\ SameObject(j, x)' = SameObject(j, x)
      BY <1>1 DEF Holds, SameObject, VersionId
    <3> QED BY <1>1, <1>2, <2>1, <2>2, <2>4, <3>1 DEF SawIsThere
  <2> QED BY <1>1, <2>3, <2>5 DEF Stored, AnsweredOnce, Reported, VersionId, CompletedObjectKept,
                CleansExpired, PutsInTime, ExpiredIsOver, Cleaning
<1>3. CASE completer' = [completer EXCEPT ![c] = Idle] /\ Release(k)
  <2>1. TypeOK' /\ Locks'
    BY <1>1, <1>3, ReleasedLocks DEF TypeOK
  <2>2. SawIsThere'
    BY <1>1, <1>3, IdleIsTyped DEF SawIsThere, TypeOK, Holds, SameObject, VersionId
  <2> QED BY <1>1, <2>1, <2>2 DEF Stored, AnsweredOnce, Reported, VersionId, CompletedObjectKept,
                CleansExpired, PutsInTime, ExpiredIsOver, Cleaning
<1> QED BY <1>2, <1>3 DEF CompleteStat

LEMMA CompleteAbortInv == ASSUME IInv, NEW c \in Completers, CompleteAbort(c) PROVE IInv'
<1> USE UploadsAssumption DEF IInv, CompleteAbort
<1>1. TypeOK' /\ Locks'
  BY ReleasedLocks DEF TypeOK
<1>2. SawIsThere'
  BY IdleIsTyped DEF SawIsThere, TypeOK, Holds, SameObject, VersionId
<1> QED BY <1>1, <1>2 DEF Stored, AnsweredOnce, Reported, VersionId, CompletedObjectKept,
             CleansExpired, PutsInTime, ExpiredIsOver, Cleaning

LEMMA SavedReported ==
  ASSUME IInv, NEW k \in Keys, NEW o \in Objects, record[k].saved \in Objects, SameObject(k, o)
  PROVE  Reported(o) = Reported(record[k].saved)
  BY DEF SameObject, Reported, Objects

LEMMA CompleteSaveInv == ASSUME IInv, NEW c \in Completers, CompleteSave(c) PROVE IInv'
<1> USE UploadsAssumption DEF IInv
<1> DEFINE k == completer[c].key
           o == completer[c].saw
<1>1. /\ k \in Keys /\ lock[k] = c /\ completer[c].pc = "save"
      /\ completer' = [completer EXCEPT ![c] = Idle] /\ Release(k)
      /\ UNCHANGED <<now, policy, bucket, flying, puts, cleaner>>
  BY DEF CompleteSave, Locks
<1>2. /\ record[k].state \in {"pending", "complete"} /\ o \in Objects /\ bucket[k] # <<>>
      /\ policy.versioned => Holds(k, o)
      /\ record[k].state = "complete" => SameObject(k, o)
  BY <1>1 DEF SawIsThere
<1>3. Reported(o) \in Objects
  <2>1. policy.versioned \in BOOLEAN /\ o.version \in Nat
    BY <1>2 DEF TypeOK, Policies, Objects
  <2>2. VersionId(o) \in Nat
    BY <2>1 DEF VersionId
  <2> QED BY <1>2, <2>2 DEF Reported, Objects
<1>4. returned' = [returned EXCEPT ![k] = @ \cup {Reported(o)}]
  BY DEF CompleteSave, Reported
<1>5. record' = IF record[k].state = "complete" THEN record
                ELSE [record EXCEPT ![k].state = "complete", ![k].saved = o]
  BY DEF CompleteSave, Saved
<1> HIDE DEF k, o
<1>6. /\ record' \in [Keys -> Records] /\ record'[k].state = "complete"
      /\ record'[k].saved \in Objects /\ record'[k].expires = record[k].expires
      /\ record'[k].saved = IF record[k].state = "complete" THEN record[k].saved ELSE o
      /\ \A j \in Keys \ {k} : record'[j] = record[j]
  <2>1. CASE record[k].state = "complete"
    BY <1>1, <1>2, <1>5, <2>1 DEF TypeOK, AnsweredOnce
  <2>2. CASE record[k].state # "complete"
    BY <1>1, <1>2, <1>5, <2>2 DEF TypeOK, Records
  <2> QED BY <2>1, <2>2
<1>7. TypeOK' /\ Locks'
  <2>1. returned' \in [Keys -> SUBSET Objects]
    BY <1>1, <1>3, <1>4 DEF TypeOK
  <2> QED BY <1>1, <1>6, <2>1, ReleasedLocks DEF TypeOK, k
<1>8. \A d \in Completers \ {c} : completer'[d] = completer[d]
                              /\ (completer[d].pc # "idle" => completer[d].key # k)
  BY <1>1 DEF TypeOK, Locks
<1>9. SawIsThere'
  <2> SUFFICES ASSUME NEW d \in Completers \ {c}, completer[d].pc # "idle"
               PROVE  LET j == completer[d].key  x == completer[d].saw IN
                      /\ record'[j].state \in {"pending", "complete"}
                      /\ completer[d].pc = "save" =>
                           /\ x \in Objects /\ bucket'[j] # <<>>
                           /\ policy'.versioned => Holds(j, x)'
                           /\ record'[j].state = "complete" => SameObject(j, x)'
    BY <1>1, <1>8, IdleIsTyped DEF SawIsThere, TypeOK
  <2>1. completer[d].key \in Keys \ {k}
    BY <1>8 DEF Locks
  <2> QED BY <1>1, <1>6, <2>1 DEF SawIsThere, Holds, SameObject, VersionId
<1>10. AnsweredOnce'
  <2>1. \A j \in Keys \ {k} : returned'[j] = returned[j]
    BY <1>1, <1>4 DEF TypeOK
  <2>2. returned'[k] = returned[k] \cup {Reported(o)}
    BY <1>1, <1>4 DEF TypeOK
  <2>3. record[k].state = "complete" => Reported(o) = Reported(record[k].saved)
    BY <1>1, <1>2, SavedReported DEF AnsweredOnce
  <2>4. \A x : Reported(x)' = Reported(x)
    BY <1>1 DEF Reported, VersionId
  <2>5. \A x \in returned'[k] : x = Reported(record'[k].saved)
    BY <1>1, <1>6, <2>2, <2>3 DEF AnsweredOnce
  <2> QED BY <1>1, <1>6, <2>1, <2>4, <2>5 DEF AnsweredOnce
<1>11. CompletedObjectKept'
  <2>1. policy.versioned => Holds(k, record'[k].saved)
    BY <1>1, <1>2, <1>6 DEF CompletedObjectKept, Holds
  <2> QED BY <1>1, <1>2, <1>6, <2>1 DEF CompletedObjectKept, Holds
<1>12. Cleaning => cleaner.key # k
  BY <1>1 DEF Locks
<1>13. CleansExpired'
  BY <1>1, <1>6, <1>12 DEF CleansExpired, Cleaning, Locks
<1>14. PutsInTime'
  BY <1>1, <1>6 DEF PutsInTime, TypeOK, Puts
<1>15. ExpiredIsOver' /\ Stored'
  BY <1>1, <1>6 DEF ExpiredIsOver, Stored
<1> QED BY <1>7, <1>9, <1>10, <1>11, <1>13, <1>14, <1>15
-----------------------------------------------------------------------------
LEMMA CandidatesInOrder ==
  ASSUME IInv, NEW s \in InOrder(Candidates(Cutoff))
  PROVE  s \in Seq(Keys)
<1> DEFINE C == Candidates(Cutoff)
<1>1. C \subseteq Keys
  BY DEF Candidates
<1>2. Cardinality(C) \in Nat
  BY <1>1, UploadsAssumption, FS_Subset, FS_CardinalityType
<1>3. s \in [1..Cardinality(C) -> C]
  BY DEF InOrder, SetToSeqs
<1> HIDE DEF C
<1> QED BY <1>1, <1>2, <1>3

LEMMA CleanListInv == ASSUME IInv, CleanList PROVE IInv'
<1> USE UploadsAssumption DEF IInv
<1>1. PICK s \in InOrder(Candidates(Cutoff)) :
        cleaner' = [cleaner EXCEPT !.pc = "next", !.cutoff = Cutoff,
                                   !.todo = SubSeq(s, 1, IF Len(s) < Limit THEN Len(s) ELSE Limit)]
  BY DEF CleanList
<1>2. SubSeq(s, 1, IF Len(s) < Limit THEN Len(s) ELSE Limit) \in Seq(Keys)
  <2>1. s \in Seq(Keys)
    BY CandidatesInOrder
  <2> QED BY <2>1
<1>3. Cutoff \in Nat /\ Cutoff + Grace = now
  BY DEF CleanList, Cutoff, TypeOK
<1>4. /\ cleaner' \in Cleaner /\ cleaner'.pc = "next" /\ cleaner'.cutoff = Cutoff
      /\ cleaner.pc = "idle"
      /\ UNCHANGED <<now, policy, record, bucket, flying, puts, lock, completer, returned>>
  BY <1>1, <1>2, <1>3 DEF CleanList, TypeOK, Cleaner
<1>5. TypeOK' /\ Locks'
  BY <1>4 DEF TypeOK, Locks, Cleaning
<1>6. CleansExpired'
  BY <1>3, <1>4 DEF CleansExpired, Cleaning, TypeOK
<1> QED BY <1>4, <1>5, <1>6 DEF Stored, SawIsThere, Holds, SameObject, VersionId, AnsweredOnce, Reported,
             CompletedObjectKept, PutsInTime, ExpiredIsOver
LEMMA CleanLockInv == ASSUME IInv, CleanLock PROVE IInv'
<1> USE UploadsAssumption DEF IInv
<1> DEFINE k == Head(cleaner.todo)
<1>1. /\ k \in Keys /\ Tail(cleaner.todo) \in Seq(Keys) /\ cleaner.pc = "next" /\ lock[k] = Nobody
      /\ UNCHANGED <<now, policy, record, bucket, flying, puts, completer, returned>>
  BY DEF CleanLock, TypeOK, Cleaner
<1> HIDE DEF k
<1>2. CASE cleaner' = [cleaner EXCEPT !.todo = Tail(@)] /\ UNCHANGED lock
  <2>1. cleaner' \in Cleaner /\ cleaner'.pc = "next" /\ cleaner'.cutoff = cleaner.cutoff
    BY <1>1, <1>2 DEF TypeOK, Cleaner
  <2>2. TypeOK'
    BY <1>1, <1>2, <2>1 DEF TypeOK
  <2>3. Locks'
    BY <1>1, <1>2, <2>1 DEF Locks, Cleaning
  <2>4. CleansExpired'
    BY <1>1, <2>1 DEF CleansExpired, Cleaning
  <2> QED BY <1>1, <2>2, <2>3, <2>4 DEF Stored, SawIsThere, Holds, SameObject, VersionId, AnsweredOnce,
                Reported, CompletedObjectKept, PutsInTime, ExpiredIsOver
<1>3. CASE /\ ~Skipped(k) /\ Acquire(k, "cleaner")
           /\ cleaner' = [cleaner EXCEPT !.pc = "stat", !.key = k, !.todo = Tail(@)]
  <2>1. /\ cleaner' \in Cleaner /\ cleaner'.pc = "stat" /\ cleaner'.key = k
        /\ cleaner'.cutoff = cleaner.cutoff /\ lock' = [lock EXCEPT ![k] = "cleaner"]
    BY <1>1, <1>3 DEF TypeOK, Cleaner, Acquire
  <2>2. TypeOK'
    BY <1>1, <2>1 DEF TypeOK
  <2>3. Locks'
    BY <1>1, <2>1 DEF TypeOK, Locks, Cleaning, Nobody
  <2>4. record[k].state = "pending" /\ record[k].expires < cleaner.cutoff
    BY <1>1, <1>3 DEF Skipped, TypeOK, Records, Cleaner
  <2>5. CleansExpired'
    BY <1>1, <2>1, <2>4 DEF CleansExpired, Cleaning
  <2> QED BY <1>1, <2>2, <2>3, <2>5 DEF Stored, SawIsThere, Holds, SameObject, VersionId,
                AnsweredOnce, Reported, CompletedObjectKept, PutsInTime, ExpiredIsOver
<1> QED BY <1>2, <1>3 DEF CleanLock, k

LEMMA CleanStatInv == ASSUME IInv, CleanStat PROVE IInv'
<1> USE UploadsAssumption DEF IInv
<1> DEFINE o == Stat(cleaner.key)
<1>1. /\ cleaner.pc = "stat" /\ cleaner.key \in Keys
      /\ cleaner' = [cleaner EXCEPT !.saw = o, !.pc = IF o = NoObject THEN "save" ELSE "delete"]
      /\ UNCHANGED <<now, policy, record, bucket, flying, puts, lock, completer, returned>>
  BY DEF CleanStat, Locks, Cleaning
<1>2. o \in Objects \cup {NoObject} /\ (o = NoObject => bucket[cleaner.key] = <<>>)
  BY <1>1, StatIsThere
<1> HIDE DEF o
<1>3. /\ cleaner' \in Cleaner /\ cleaner'.key = cleaner.key /\ cleaner'.cutoff = cleaner.cutoff
      /\ cleaner'.pc = IF o = NoObject THEN "save" ELSE "delete"
  BY <1>1, <1>2 DEF TypeOK, Cleaner
<1>4. TypeOK' /\ Locks'
  BY <1>1, <1>3 DEF TypeOK, Locks, Cleaning
<1>5. CleansExpired'
  BY <1>1, <1>2, <1>3 DEF CleansExpired, Cleaning
<1> QED BY <1>1, <1>4, <1>5 DEF Stored, SawIsThere, Holds, SameObject, VersionId, AnsweredOnce,
             Reported, CompletedObjectKept, PutsInTime, ExpiredIsOver

(* A delete takes one version out, or all there is.                        *)
LEMMA RemainingIsLess ==
  ASSUME IInv, NEW k \in Keys, NEW v
  PROVE  /\ Remaining(k, v) \in Seq(Objects)
         /\ ~policy.versioned => Remaining(k, v) = <<>>
         /\ \A i \in DOMAIN Remaining(k, v) :
              \E j \in DOMAIN bucket[k] : Remaining(k, v)[i] = bucket[k][j]
<1> DEFINE b == bucket[k]
           places == {i \in DOMAIN b : b[i].version = v}
           i == CHOOSE i \in places : TRUE
<1>1. b \in Seq(Objects)
  BY DEF IInv, TypeOK
<1>2. CASE ~policy.versioned
  BY <1>2 DEF Remaining
<1>3. CASE policy.versioned /\ places = {}
  BY <1>1, <1>3 DEF Remaining
<1>4. CASE policy.versioned /\ places # {}
  <2>1. Remaining(k, v) = RemoveAt(b, i)
    BY <1>4 DEF Remaining
  <2>2. i \in 1..Len(b) /\ Len(b) \in Nat
    BY <1>1, <1>4
  <2> HIDE DEF b, i, places
  <2>3. /\ RemoveAt(b, i) \in Seq(Objects) /\ Len(RemoveAt(b, i)) = Len(b) - 1
        /\ \A j \in 1..(Len(b) - 1) : RemoveAt(b, i)[j] = IF j < i THEN b[j] ELSE b[j + 1]
    <3> DEFINE head == SubSeq(b, 1, i - 1)
               tail == SubSeq(b, i + 1, Len(b))
    <3>1. /\ head \in Seq(Objects) /\ Len(head) = i - 1
          /\ \A j \in 1..(i - 1) : head[j] = b[j]
      BY <1>1, <2>2
    <3>2. /\ tail \in Seq(Objects) /\ Len(tail) = Len(b) - i
          /\ \A j \in 1..(Len(b) - i) : tail[j] = b[i + j]
      BY <1>1, <2>2
    <3> HIDE DEF head, tail
    <3>3. /\ head \o tail \in Seq(Objects) /\ Len(head \o tail) = Len(head) + Len(tail)
          /\ \A j \in 1..(Len(head) + Len(tail)) :
               (head \o tail)[j] = IF j <= Len(head) THEN head[j] ELSE tail[j - Len(head)]
      BY <3>1, <3>2, ConcatProperties
    <3>4. RemoveAt(b, i) = head \o tail
      BY DEF RemoveAt, head, tail
    <3>5. Len(head) + Len(tail) = Len(b) - 1
      BY <2>2, <3>1, <3>2
    <3>6. \A j \in 1..(Len(b) - 1) : (head \o tail)[j] = IF j < i THEN b[j] ELSE b[j + 1]
      <4> TAKE j \in 1..(Len(b) - 1)
      <4>1. CASE j < i
        BY <2>2, <3>1, <3>3, <3>5, <4>1, j \in 1..(i - 1)
      <4>2. CASE ~(j < i)
        <5>1. j - Len(head) \in 1..(Len(b) - i) /\ ~(j <= Len(head))
              /\ i + (j - Len(head)) = j + 1
          BY <2>2, <3>1, <4>2
        <5> QED BY <3>2, <3>3, <3>5, <4>2, <5>1
      <4> QED BY <4>1, <4>2
    <3> QED BY <3>3, <3>4, <3>5, <3>6
  <2>4. \A j \in DOMAIN RemoveAt(b, i) : \E m \in DOMAIN b : RemoveAt(b, i)[j] = b[m]
    <3> TAKE j \in DOMAIN RemoveAt(b, i)
    <3>1. j \in 1..(Len(b) - 1)
      BY <2>2, <2>3
    <3>2. CASE j < i
      BY <1>1, <2>2, <2>3, <3>1, <3>2, j \in DOMAIN b
    <3>3. CASE ~(j < i)
      BY <1>1, <2>2, <2>3, <3>1, <3>3, j + 1 \in DOMAIN b
    <3> QED BY <3>2, <3>3
  <2> QED BY <1>4, <2>1, <2>3, <2>4 DEF b
<1> QED BY <1>2, <1>3, <1>4

LEMMA CleanDeleteInv == ASSUME IInv, CleanDelete PROVE IInv'
<1> USE UploadsAssumption DEF IInv
<1> DEFINE k == cleaner.key
           rest == Remaining(k, cleaner.saw.version)
<1>1. /\ cleaner.pc = "delete" /\ k \in Keys /\ lock[k] = "cleaner" /\ record[k].state = "pending"
      /\ bucket' = [bucket EXCEPT ![k] = rest] /\ cleaner' = [cleaner EXCEPT !.pc = "save"]
      /\ UNCHANGED <<now, policy, record, flying, puts, lock, completer, returned>>
  BY DEF CleanDelete, Locks, Cleaning, CleansExpired
<1>2. /\ rest \in Seq(Objects) /\ (~policy.versioned => rest = <<>>)
      /\ \A i \in DOMAIN rest : \E j \in DOMAIN bucket[k] : rest[i] = bucket[k][j]
  BY <1>1, RemainingIsLess
<1>3. /\ cleaner' \in Cleaner /\ cleaner'.pc = "save" /\ cleaner'.key = k
      /\ cleaner'.cutoff = cleaner.cutoff
  BY <1>1 DEF TypeOK, Cleaner
<1> HIDE DEF k, rest
<1>4. bucket'[k] = rest /\ \A j \in Keys \ {k} : bucket'[j] = bucket[j]
  BY <1>1 DEF TypeOK
<1>5. TypeOK' /\ Locks'
  <2>1. TypeOK'
    BY <1>1, <1>2, <1>3 DEF TypeOK
  <2> QED BY <1>1, <1>3, <2>1 DEF Locks, Cleaning, k
<1>6. Stored'
  BY <1>2, <1>4 DEF Stored
<1>7. SawIsThere'
  <2>1. \A c \in Completers : completer[c].pc # "idle" => completer[c].key \in Keys \ {k}
    BY <1>1 DEF Locks
  <2>2. ASSUME NEW j \in Keys \ {k}, NEW x
        PROVE  Holds(j, x)' = Holds(j, x) /\ SameObject(j, x)' = SameObject(j, x)
    BY <1>1, <1>4 DEF Holds, SameObject, VersionId
  <2> QED BY <1>1, <1>4, <2>1, <2>2 DEF SawIsThere
<1>8. AnsweredOnce' /\ PutsInTime'
  BY <1>1 DEF AnsweredOnce, Reported, VersionId, PutsInTime
<1>9. CompletedObjectKept'
  BY <1>1, <1>4 DEF CompletedObjectKept
<1>10. CleansExpired'
  BY <1>1, <1>2, <1>3, <1>4 DEF CleansExpired, Cleaning, k
<1>11. ExpiredIsOver'
  BY <1>1, <1>4 DEF ExpiredIsOver
<1> QED BY <1>5, <1>6, <1>7, <1>8, <1>9, <1>10, <1>11

(* The cleanup leaves a record: its lock is free again.                    *)
LEMMA CleanerLeaves ==
  ASSUME IInv, Cleaning, Release(cleaner.key), cleaner' \in Cleaner,
         cleaner'.pc \in {"idle", "next"}, UNCHANGED completer
  PROVE  Locks' /\ lock' \in [Keys -> Completers \cup {"cleaner", Nobody}]
<1>1. cleaner.key \in Keys /\ lock[cleaner.key] = "cleaner"
  BY DEF IInv, Locks
<1> QED BY <1>1, UploadsAssumption DEF IInv, TypeOK, Locks, Cleaning, Release, Nobody

LEMMA CleanSaveInv == ASSUME IInv, CleanSave PROVE IInv'
<1> USE UploadsAssumption DEF IInv
<1> DEFINE k == cleaner.key
<1>1. /\ cleaner.pc = "save" /\ Cleaning /\ k \in Keys /\ lock[k] = "cleaner" /\ Release(k)
      /\ record[k].state = "pending" /\ record[k].expires < cleaner.cutoff
      /\ cleaner.cutoff + Grace <= now /\ (~policy.versioned => bucket[k] = <<>>)
      /\ record' = [record EXCEPT ![k].state = "expired"]
      /\ cleaner' = [cleaner EXCEPT !.pc = "next", !.key = Nobody, !.saw = NoObject]
      /\ UNCHANGED <<now, policy, bucket, flying, puts, completer, returned>>
  BY DEF CleanSave, Locks, Cleaning, CleansExpired
<1>2. cleaner' \in Cleaner /\ cleaner'.pc = "next" /\ cleaner'.cutoff = cleaner.cutoff
  BY <1>1 DEF TypeOK, Cleaner
<1> HIDE DEF k
<1>3. /\ record' \in [Keys -> Records] /\ record'[k].state = "expired"
      /\ record'[k].expires = record[k].expires
      /\ \A j \in Keys \ {k} : record'[j] = record[j]
  BY <1>1 DEF TypeOK, Records
<1>4. TypeOK' /\ Locks'
  BY <1>1, <1>2, <1>3, CleanerLeaves DEF TypeOK, k
<1>5. SawIsThere'
  <2>1. \A c \in Completers : completer[c].pc # "idle" => completer[c].key \in Keys \ {k}
    BY <1>1 DEF Locks
  <2>2. ASSUME NEW j \in Keys \ {k}, NEW x
        PROVE  Holds(j, x)' = Holds(j, x) /\ SameObject(j, x)' = SameObject(j, x)
    BY <1>1, <1>3 DEF Holds, SameObject, VersionId
  <2> QED BY <1>1, <1>3, <2>1, <2>2 DEF SawIsThere
<1>6. AnsweredOnce' /\ CompletedObjectKept'
  BY <1>1, <1>3 DEF AnsweredOnce, Reported, VersionId, CompletedObjectKept
<1>7. CleansExpired'
  BY <1>1, <1>2 DEF CleansExpired, Cleaning
<1>8. PutsInTime'
  BY <1>1, <1>3 DEF PutsInTime, TypeOK, Puts
<1>9. record[k].expires + Grace < now
  BY <1>1 DEF TypeOK, Records, Cleaner
<1>10. ExpiredIsOver' /\ Stored'
  BY <1>1, <1>3, <1>9 DEF ExpiredIsOver, Stored
<1> QED BY <1>4, <1>5, <1>6, <1>7, <1>8, <1>10

LEMMA CleanEndInv == ASSUME IInv, CleanDone \/ CleanAbort PROVE IInv'
<1> USE UploadsAssumption DEF IInv
<1>1. /\ cleaner' \in Cleaner /\ cleaner'.pc = "idle"
      /\ UNCHANGED <<now, policy, record, bucket, flying, puts, completer, returned>>
  <2>1. CASE CleanDone
    BY <2>1 DEF CleanDone, TypeOK, Cleaner
  <2>2. CASE CleanAbort
    BY <2>2 DEF CleanAbort, TypeOK, Cleaner
  <2> QED BY <2>1, <2>2
<1>2. TypeOK' /\ Locks'
  <2>1. CASE CleanDone
    BY <1>1, <2>1 DEF CleanDone, TypeOK, Locks, Cleaning
  <2>2. CASE CleanAbort
    BY <1>1, <2>2, CleanerLeaves DEF CleanAbort, Cleaning, TypeOK
  <2> QED BY <2>1, <2>2
<1>3. CleansExpired'
  BY <1>1 DEF CleansExpired, Cleaning
<1> QED BY <1>1, <1>2, <1>3 DEF Stored, SawIsThere, Holds, SameObject, VersionId, AnsweredOnce,
             Reported, CompletedObjectKept, PutsInTime, ExpiredIsOver
-----------------------------------------------------------------------------
(* Every step of the system preserves the inductive invariant.             *)
LEMMA NextInv == ASSUME IInv, Next PROVE IInv'
<1>1. CASE Clean
  BY <1>1, CleanListInv, CleanLockInv, CleanStatInv, CleanDeleteInv, CleanSaveInv, CleanEndInv
     DEF Clean
<1>2. CASE \E k \in Keys : SignUpload(k) \/ (\E x \in Contents : StartPut(k, x))
  BY <1>2, SignUploadInv, StartPutInv
<1>3. CASE \E c \in Completers : Complete(c) \/ CompleteAbort(c)
  BY <1>3, CompleteLockInv, CompleteStatInv, CompleteSaveInv, CompleteAbortInv DEF Complete
<1> QED BY <1>1, <1>2, <1>3, TickInv, CleanEndInv, LandPutInv DEF Next

LEMMA StutterInv == ASSUME IInv, UNCHANGED vars PROVE IInv'
  BY DEF vars, IInv, TypeOK, Locks, Cleaning, Stored, SawIsThere, Holds, SameObject, VersionId,
         AnsweredOnce, Reported, CompletedObjectKept, CleansExpired, PutsInTime, ExpiredIsOver

LEMMA Inductive == Spec => []IInv
<1>1. IInv /\ [Next]_vars => IInv'
  BY NextInv, StutterInv
<1> QED BY InitIInv, <1>1, PTL DEF Spec

(* All reports of a key are one; an upload that expired left nothing.      *)
LEMMA IInvSuffices == ASSUME IInv PROVE ObjectsAgree
<1>1. OneObjectReported
  <2> SUFFICES ASSUME NEW k \in Keys PROVE Cardinality(returned[k]) <= 1
    BY DEF OneObjectReported
  <2> DEFINE r == Reported(record[k].saved)
  <2>1. returned[k] \subseteq {r}
    BY DEF IInv, AnsweredOnce
  <2> HIDE DEF r
  <2>2. IsFiniteSet({r}) /\ Cardinality({r}) = 1
    BY FS_Singleton
  <2>3. Cardinality(returned[k]) <= Cardinality({r})
    BY <2>1, <2>2, FS_Subset
  <2> QED BY <2>2, <2>3
<1>2. ExpiredLeavesNothing
  <2> SUFFICES ASSUME NEW k \in Keys, record[k].state = "expired"
               PROVE  /\ \A p \in flying : p.key # k
                      /\ ~policy.versioned => bucket[k] = <<>>
    BY DEF ExpiredLeavesNothing
  <2>1. \A p \in flying : p.key = k => FALSE
    BY UploadsAssumption DEF IInv, TypeOK, Puts, Records, PutsInTime, ExpiredIsOver
  <2> QED BY <2>1 DEF IInv, ExpiredIsOver
<1> QED BY <1>1, <1>2 DEF ObjectsAgree, IInv

(* An upload and the object in the store tell the same story, whoever      *)
(* completes, cleans or PUTs meanwhile (api.py:228-313).                   *)
THEOREM ObjectsAgreeAlways == Spec => []ObjectsAgree
  BY Inductive, IInvSuffices, PTL

LEMMA AnsweredStays ==
  ASSUME IInv, [Next]_vars, NEW k \in Keys, record[k].state \in {"complete", "expired"}
  PROVE  record'[k] = record[k]
<1>1. CASE UNCHANGED record
  BY <1>1
<1>2. ASSUME NEW j \in Keys, SignUpload(j) PROVE record'[k] = record[k]
  BY <1>2 DEF SignUpload, IInv, TypeOK
<1>3. ASSUME NEW c \in Completers, CompleteSave(c) PROVE record'[k] = record[k]
  BY <1>3 DEF CompleteSave, IInv, TypeOK, SawIsThere, Locks
<1>4. CASE CleanSave
  BY <1>4 DEF CleanSave, IInv, TypeOK, CleansExpired, Cleaning, Locks
<1>5. CASE Clean
  BY <1>1, <1>4, <1>5 DEF Clean, CleanList, CleanLock, CleanStat, CleanDelete, CleanDone
<1>6. ASSUME NEW c \in Completers, Complete(c) \/ CompleteAbort(c) PROVE record'[k] = record[k]
  BY <1>1, <1>3, <1>6 DEF Complete, CompleteAbort, CompleteLock, CompleteStat
<1>7. ASSUME NEW j \in Keys, SignUpload(j) \/ \E x \in Contents : StartPut(j, x)
      PROVE  record'[k] = record[k]
  BY <1>2, <1>7 DEF StartPut
<1>8. CASE Tick \/ CleanAbort \/ \E p \in flying : LandPut(p)
  BY <1>8 DEF Tick, CleanAbort, LandPut
<1> QED BY <1>1, <1>5, <1>6, <1>7, <1>8 DEF Next, vars

(* A completed record keeps state, version and etag, an expired one stays  *)
(* expired: no step of a request or of the cleanup changes it.             *)
THEOREM FinalAlways == Spec => Final
<1>1. IInv /\ [Next]_vars =>
        [\A k \in Keys : record[k].state \in {"complete", "expired"} => record'[k] = record[k]]_vars
  BY AnsweredStays
<1> QED BY <1>1, Inductive, PTL DEF Spec, Final
=============================================================================
