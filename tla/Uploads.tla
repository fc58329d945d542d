------------------------------ MODULE Uploads ------------------------------
(***************************************************************************)
(* Direct-to-storage uploads (contrib/uploads).  sign_upload() stores a    *)
(* pending record and hands out a form that the store accepts, any number  *)
(* of times, until it expires; complete_upload() compares what the store   *)
(* has with the record while it holds the record's row lock;               *)
(* cleanup_expired() lists expired pending records and takes them one by   *)
(* one, each in its own transaction.  The store is external: a PUT arrives *)
(* some time after it was started, whatever the records say.               *)
(***************************************************************************)
EXTENDS Naturals, FiniteSets, Sequences, SequencesExt

CONSTANTS Keys,            \* object keys, one per signed upload
          Users, Owner,    \* Owner[k]: the caller who signed k
          Contents,        \* what a client may send
          Matching,        \* the contents of the signed size and type
          Requested,       \* the content whose checksum is signed, if one is
          Completers,      \* requests to POST /complete being served
          ExpiresIn, Grace, UploadTime, Limit,
          Configs,         \* the configurations of policy and bucket
          MaxTime, MaxPuts \* bounds of the model: clock, PUTs of each key

Policies == [versioned : BOOLEAN, checksum : BOOLEAN, require_version : BOOLEAN]
Nobody == "nobody"
ASSUME UploadsAssumption ==
  /\ IsFiniteSet(Keys) /\ {"cleaner", Nobody} \cap Completers = {}
  /\ Owner \in [Keys -> Users]
  /\ Configs \subseteq Policies /\ Requested \in Matching /\ Matching \subseteq Contents
  /\ {ExpiresIn, Grace, UploadTime, Limit, MaxTime} \subseteq Nat
  /\ MaxPuts \in [Keys -> Nat]
  /\ UploadTime <= Grace      \* the guide: "a grace longer than the upload"

VARIABLES now, policy, record, bucket, flying, puts, lock, completer, cleaner,
          returned
vars == <<now, policy, record, bucket, flying, puts, lock, completer, cleaner,
          returned>>

NoObject == [version |-> 0, content |-> "none"]
Objects == [version : Nat, content : Contents]
NoRecord == [state |-> "none", expires |-> 0, saved |-> NoObject]
Records == [state : {"none", "pending", "complete", "expired"},
            expires : 0..MaxTime, saved : Objects \cup {NoObject}]
Idle == [pc |-> "idle", key |-> Nobody, saw |-> NoObject]

Puts == [key : Keys, content : Contents, version : Nat \ {0}, started : Nat]
Holder == [pc : {"idle", "stat", "save"}, key : Keys \cup {Nobody}, saw : Objects \cup {NoObject}]
Cleaner == [pc : {"idle", "next", "stat", "delete", "save"}, cutoff : Nat, todo : Seq(Keys),
            key : Keys \cup {Nobody}, saw : Objects \cup {NoObject}]

TypeOK ==
  /\ now \in 0..MaxTime /\ policy \in Configs
  /\ record \in [Keys -> Records]
  /\ bucket \in [Keys -> Seq(Objects)] /\ flying \subseteq Puts
  /\ puts \in [Keys -> Nat] /\ \A k \in Keys : puts[k] <= MaxPuts[k]
  /\ lock \in [Keys -> Completers \cup {"cleaner", Nobody}]
  /\ completer \in [Completers -> Holder] /\ cleaner \in Cleaner
  /\ returned \in [Keys -> SUBSET Objects]

Init ==
  /\ now = 0 /\ policy \in Configs
  /\ record = [k \in Keys |-> NoRecord]
  /\ bucket = [k \in Keys |-> <<>>]
  /\ flying = {} /\ puts = [k \in Keys |-> 0]
  /\ lock = [k \in Keys |-> Nobody]
  /\ completer = [c \in Completers |-> Idle]
  /\ cleaner = [pc |-> "idle", cutoff |-> 0, todo |-> <<>>, key |-> Nobody, saw |-> NoObject]
  /\ returned = [k \in Keys |-> {}]

(******************************* The store ********************************)
\* The current object, or None: stat() of a key.
Stat(k) == IF bucket[k] = <<>> THEN NoObject ELSE Last(bucket[k])
VersionId(o) == IF policy.versioned THEN o.version ELSE 0
\* delete(key, version_id): the named version of a versioned bucket, else the object.
Remaining(k, version) ==
  LET places == {i \in DOMAIN bucket[k] : bucket[k][i].version = version} IN
  IF ~policy.versioned THEN <<>>
  ELSE IF places = {} THEN bucket[k] ELSE RemoveAt(bucket[k], CHOOSE i \in places : TRUE)

\* A client sends the form.  The store checks its expiry, and its checksum when one is signed.
StartPut(k, content) ==
  /\ record[k].state # "none" /\ now <= record[k].expires /\ puts[k] < MaxPuts[k]
  /\ policy.checksum => content = Requested
  /\ puts' = [puts EXCEPT ![k] = @ + 1]
  /\ flying' = flying \cup
       {[key |-> k, content |-> content, version |-> puts[k] + 1, started |-> now]}
  /\ UNCHANGED <<now, policy, record, bucket, lock, completer, cleaner, returned>>
\* The bytes are all there: the object replaces, or is put above, the one before.
LandPut(p) ==
  LET o == [version |-> p.version, content |-> p.content] IN
  /\ bucket' = [bucket EXCEPT ![p.key] = IF policy.versioned THEN Append(@, o) ELSE <<o>>]
  /\ flying' = flying \ {p}
  /\ UNCHANGED <<now, policy, record, puts, lock, completer, cleaner, returned>>
Tick ==
  /\ now < MaxTime /\ now' = now + 1
  /\ \A p \in flying : now' <= p.started + UploadTime
  /\ UNCHANGED <<policy, record, bucket, flying, puts, lock, completer, cleaner, returned>>

(******************************* The controller ***************************)
\* sign_upload(): a refused type, size or missing checksum stores nothing.
SignUpload(k) ==
  /\ record[k].state = "none" /\ now + ExpiresIn + Grace < MaxTime  \* a bound
  /\ record' = [record EXCEPT ![k].state = "pending", ![k].expires = now + ExpiresIn]
  /\ UNCHANGED <<now, policy, bucket, flying, puts, lock, completer, cleaner, returned>>

Acquire(k, who) == lock[k] = Nobody /\ lock' = [lock EXCEPT ![k] = who]
Release(k) == lock' = [lock EXCEPT ![k] = Nobody]

GoneIfPending(k) == record[k].state = "pending" /\ record[k].expires <= now  \* mutant
\* The 410 of complete_upload().
Gone(k) == \/ record[k].state = "expired"
           \/ record[k].state = "pending" /\ record[k].expires <= now
\* The 422: stored size, type, checksum and version against record and policy.
Accepted(o) ==
  /\ o.content \in Matching
  /\ policy.checksum => o.content = Requested
  /\ policy.require_version => policy.versioned
SameVersion(k, o) == VersionId(record[k].saved) = VersionId(o)  \* mutant: no etag check
\* The 409 of a later completion: another version, or another etag.
SameObject(k, o) ==
  /\ VersionId(record[k].saved) = VersionId(o) /\ record[k].saved.content = o.content

\* select_for_update() by key, namespace and owner; 404 and 410 end the transaction.
CompleteLock(c, k, u) ==
  /\ completer[c].pc = "idle" /\ record[k].state # "none" /\ Owner[k] = u
  /\ ~Gone(k) /\ Acquire(k, c)
  /\ completer' = [completer EXCEPT ![c] = [Idle EXCEPT !.pc = "stat", !.key = k]]
  /\ UNCHANGED <<now, policy, record, bucket, flying, puts, cleaner, returned>>
\* stat(), then the checks that refuse: 404, 422 and 409.
CompleteStat(c) ==
  LET k == completer[c].key  o == Stat(k) IN
  /\ completer[c].pc = "stat"
  /\ IF o # NoObject /\ Accepted(o) /\ (record[k].state = "complete" => SameObject(k, o))
       THEN /\ completer' = [completer EXCEPT ![c].pc = "save", ![c].saw = o]
            /\ UNCHANGED lock
       ELSE completer' = [completer EXCEPT ![c] = Idle] /\ Release(k)
  /\ UNCHANGED <<now, policy, record, bucket, flying, puts, cleaner, returned>>
SavedVersion(o) == [o EXCEPT !.content = "none"]  \* mutant: the version without the etag
Saved(o) == o
\* A first completion saves what it saw; both answer with it when the transaction commits.
CompleteSave(c) ==
  LET k == completer[c].key  o == completer[c].saw IN
  /\ completer[c].pc = "save"
  /\ record' = IF record[k].state = "complete" THEN record
               ELSE [record EXCEPT ![k].state = "complete", ![k].saved = Saved(o)]
  /\ returned' = [returned EXCEPT ![k] = @ \cup {[o EXCEPT !.version = VersionId(o)]}]
  /\ Release(k) /\ completer' = [completer EXCEPT ![c] = Idle]
  /\ UNCHANGED <<now, policy, bucket, flying, puts, cleaner>>
\* The store fails, or the process dies: the transaction is rolled back.
CompleteAbort(c) ==
  /\ completer[c].pc # "idle" /\ Release(completer[c].key)
  /\ completer' = [completer EXCEPT ![c] = Idle]
  /\ UNCHANGED <<now, policy, record, bucket, flying, puts, cleaner, returned>>

CutoffAtExpiry == now  \* mutant: no grace
Cutoff == now - Grace
\* The cutoff is taken once per run; the first `limit` candidates by expires_at, pk.
Candidates(cutoff) ==
  {k \in Keys : record[k].state = "pending" /\ record[k].expires < cutoff}
InOrder(ks) == {s \in SetToSeqs(ks) :
                  \A i \in 2..Len(s) : record[s[i - 1]].expires <= record[s[i]].expires}
CleanList ==
  /\ cleaner.pc = "idle" /\ now >= Grace /\ Candidates(Cutoff) # {}
  /\ \E s \in InOrder(Candidates(Cutoff)) :
       cleaner' = [cleaner EXCEPT !.pc = "next", !.cutoff = Cutoff,
                                  !.todo = SubSeq(s, 1, IF Len(s) < Limit THEN Len(s) ELSE Limit)]
  /\ UNCHANGED <<now, policy, record, bucket, flying, puts, lock, completer, returned>>

SkippedIfLive(k) == record[k].expires >= cleaner.cutoff  \* mutant: the state is not read again
SkippedIfExpired(k) == record[k].expires <= cleaner.cutoff  \* mutant: inverted comparison
\* The condition under which cleanup_expired() leaves the row it has just locked.
Skipped(k) == record[k].state # "pending" \/ record[k].expires >= cleaner.cutoff
CleanLock ==
  LET k == Head(cleaner.todo) IN
  /\ cleaner.pc = "next" /\ cleaner.todo # <<>> /\ lock[k] = Nobody
  /\ IF Skipped(k)
       THEN cleaner' = [cleaner EXCEPT !.todo = Tail(@)] /\ UNCHANGED lock
       ELSE /\ cleaner' = [cleaner EXCEPT !.pc = "stat", !.key = k, !.todo = Tail(@)]
            /\ Acquire(k, "cleaner")
  /\ UNCHANGED <<now, policy, record, bucket, flying, puts, completer, returned>>
CleanStat ==
  LET o == Stat(cleaner.key) IN
  /\ cleaner.pc = "stat"
  /\ cleaner' = [cleaner EXCEPT !.saw = o, !.pc = IF o = NoObject THEN "save" ELSE "delete"]
  /\ UNCHANGED <<now, policy, record, bucket, flying, puts, lock, completer, returned>>
CleanDelete ==
  LET k == cleaner.key IN
  /\ cleaner.pc = "delete"
  /\ bucket' = [bucket EXCEPT ![k] = Remaining(k, cleaner.saw.version)]
  /\ cleaner' = [cleaner EXCEPT !.pc = "save"]
  /\ UNCHANGED <<now, policy, record, flying, puts, lock, completer, returned>>
CleanSave ==
  LET k == cleaner.key IN
  /\ cleaner.pc = "save" /\ Release(k)
  /\ record' = [record EXCEPT ![k].state = "expired"]
  /\ cleaner' = [cleaner EXCEPT !.pc = "next", !.key = Nobody, !.saw = NoObject]
  /\ UNCHANGED <<now, policy, bucket, flying, puts, completer, returned>>
CleanDone ==
  /\ cleaner.pc = "next" /\ cleaner.todo = <<>>
  /\ cleaner' = [cleaner EXCEPT !.pc = "idle", !.cutoff = 0]
  /\ UNCHANGED <<now, policy, record, bucket, flying, puts, lock, completer, returned>>
\* A storage failure, or a crash: the transaction is rolled back and the batch ends.
CleanAbort ==
  /\ cleaner.pc \in {"stat", "delete", "save"} /\ Release(cleaner.key)
  /\ cleaner' = [pc |-> "idle", cutoff |-> 0, todo |-> <<>>, key |-> Nobody, saw |-> NoObject]
  /\ UNCHANGED <<now, policy, record, bucket, flying, puts, completer, returned>>

Clean == CleanList \/ CleanLock \/ CleanStat \/ CleanDelete \/ CleanSave \/ CleanDone
Complete(c) ==
  \/ \E k \in Keys, u \in Users : CompleteLock(c, k, u)
  \/ CompleteStat(c) \/ CompleteSave(c)
Next ==
  \/ Tick \/ Clean \/ CleanAbort
  \/ \E k \in Keys : SignUpload(k) \/ (\E x \in Contents : StartPut(k, x))
  \/ \E p \in flying : LandPut(p)
  \/ \E c \in Completers : Complete(c) \/ CompleteAbort(c)

Spec == Init /\ [][Next]_vars
\* Clock, running requests and the store go on; the cleanup command is run again and again,
\* the store does not fail it for ever (strong fairness of the steps that may fail), and
\* a row lock that is released again and again is granted in the end.
FairSpec ==
  /\ Spec /\ WF_vars(Tick) /\ WF_vars(Clean) /\ SF_vars(CleanLock)
  /\ SF_vars(CleanStat) /\ SF_vars(CleanDelete) /\ SF_vars(CleanSave)
  /\ \A c \in Completers : WF_vars(CompleteStat(c) \/ CompleteSave(c))
  /\ WF_vars(\E p \in flying : LandPut(p))

(******************************* Properties *******************************)
\* Every successful completion of a key reported one and the same object
\* (version and etag): what the first caller recorded is what later callers
\* are told, although the form stays usable and the store may change between
\* the look-up, the save and the later completion (api.py:247-282).
OneObjectReported == \A k \in Keys : Cardinality(returned[k]) <= 1

\* The object of a completed record is never removed by the cleanup: in a
\* versioned bucket the recorded version is still there, in an unversioned one
\* the key still has an object (uploads.md:138, api.py:305-311).
CompletedObjectKept ==
  \A k \in Keys : record[k].state = "complete" =>
    IF policy.versioned THEN \E i \in DOMAIN bucket[k] : bucket[k][i] = record[k].saved
    ELSE bucket[k] # <<>>

\* Once an upload is marked expired nothing of it can be stored any more: no
\* PUT is in flight and, without versions, the key has no object; so a client
\* that was told 410 left no object behind (api.py:284-313, the grace).
ExpiredLeavesNothing ==
  \A k \in Keys : record[k].state = "expired" =>
    /\ \A p \in flying : p.key # k
    /\ ~policy.versioned => bucket[k] = <<>>

\* An upload and the object in the store tell the same story, whoever completes, cleans or PUTs
\* meanwhile (api.py:247-313).
ObjectsAgree == TypeOK /\ OneObjectReported /\ CompletedObjectKept /\ ExpiredLeavesNothing

\* An answer is final: a completed record keeps state, version and etag, an
\* expired one stays expired (no completion after 410, no expiry after 200).
Final == [][\A k \in Keys : record[k].state \in {"complete", "expired"} =>
              record'[k] = record[k]]_vars

\* An abandoned upload is cleaned in the end, even when the store fails now
\* and then or a batch stops half-way (api.py:297-312).
EventuallySettled ==
  \A k \in Keys : (record[k].state = "pending") ~> (record[k].state # "pending")
=============================================================================
