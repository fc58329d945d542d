--------------------------- MODULE WebhookTransport ---------------------------
(***************************************************************************)
(* One webhook from its publication to the receiver: who is to get it, the *)
(* stored signing secret, the URL policy, the request and its signature.   *)
(* The claims, retries and crashes of the delivery are WebhookOutbox.      *)
(***************************************************************************)
EXTENDS Integers, Sequences, FiniteSets, SequencesExt

CONSTANT None

(****************************** Subscriptions *****************************)
\* An event type is a tuple of words; a pattern is everything, a type, or a type and ".*".
PatternMatches(p, type) == \/ p.kind = "all"
                           \/ p.kind = "exact" /\ p.words = type
                           \/ p.kind = "below" /\ IsStrictPrefix(p.words, type)
EventMatches(patterns, type) == \E p \in patterns : PatternMatches(p, type)
CheckEvents(w, patterns) == w.available = None \/ \A p \in patterns : \E name \in w.available : EventMatches({p}, name)

\* publish(): the refusals, the audience, and the endpoints that get a delivery.
Refused(a) == \/ a.broadcast /\ (a.owner # None \/ a.tenant # "")
              \/ ~a.broadcast /\ a.owner = None /\ a.tenant = ""
AudienceOf(a) == [owner |-> a.owner, tenant |-> a.tenant, broadcast |-> a.broadcast]
Selected(a, e) == a.broadcast \/ (e.tenant = a.tenant /\ (a.owner = None \/ e.owner = a.owner))
Publish(a, type, endpoints) ==
  IF Refused(a) THEN {} ELSE {e \in endpoints : e.active /\ Selected(a, e) /\ EventMatches(e.events, type)}
AudienceAtPublish(audience, e) == TRUE  \* mutant: an endpoint stays in the audience it had
AudienceMatches(audience, e) == \/ audience.broadcast
                                \/ audience.tenant = e.tenant /\ (audience.owner = None \/ audience.owner = e.owner)

(******************************** The secret ******************************)
\* A stored secret is [key, raw]; key None is a plain value. Keys are tried in order.
Encrypt(keys, raw) == [key |-> IF keys = <<>> THEN None ELSE Head(keys), raw |-> raw]
Decrypt(keys, stored) == IF stored.key = None \/ stored.key \in ToSet(keys) THEN stored.raw ELSE None
ReencryptPlain(keys, stored) == IF stored.key = None THEN Encrypt(keys, stored.raw) ELSE stored  \* mutant: encrypted values are left
Reencrypt(keys, stored) == IF stored.key = None \/ stored.key \in ToSet(keys) THEN Encrypt(keys, stored.raw) ELSE None
\* The signature is the message under the secret: nothing else makes the same one.
Sign(secret, id, stamp, body) == <<secret, id, stamp, body>>
SignatureHeaders(secret, id, stamp, body) == [id |-> id, stamp |-> stamp, signature |-> Sign(secret, id, stamp, body)]
Distance(a, b) == IF a > b THEN a - b ELSE b - a
VerifySignature(secrets, headers, body, tolerance, now) ==
  /\ headers.id # None /\ headers.stamp # None /\ headers.signature # None
  /\ Distance(now, headers.stamp) <= tolerance
  /\ \E s \in secrets : Sign(s, headers.id, headers.stamp, body) = headers.signature

(******************************* The request ******************************)
\* An address is [kind]: the kind of a v6 address that stands for a v4 one is that of the v4 one.
IsPublicAddress(address) == address.kind = "public"
LocalNames == {"localhost"}
\* A URL is [scheme, credentials, host, address]: the address when the host is one.
CheckUrl(url, policy) ==
  /\ url.scheme = "https" \/ (url.scheme = "http" /\ policy.allowHttp)
  /\ ~url.credentials
  /\ url.host # None
  /\ \/ policy.allowPrivate
     \/ url.host \notin LocalNames /\ (url.address = None \/ IsPublicAddress(url.address))
ConnectAnywhere(url, policy, peer) == TRUE  \* mutant: the address a name resolves to is not looked at
Connect(url, policy, peer) == policy.allowPrivate \/ IsPublicAddress(peer)
\* What the peer answers is the status, a redirect included: it is not followed.
Send(url, policy, peer, answer) ==
  IF ~CheckUrl(url, policy) \/ ~Connect(url, policy, peer) \/ answer = None THEN None ELSE answer
\* _attempt(): None is a worker that raises; sent is what the peer received.
Attempt(w, audience, e, body) ==
  LET secret == Decrypt(w.keysNow, e.secret)
      headers == SignatureHeaders(secret, "msg", w.now, body)
      status == IF AudienceMatches(audience, e) THEN Send(e.url, w.policy, w.peer, w.answer) ELSE None
  IN IF secret = None THEN None
     ELSE [status |-> status, success |-> status # None /\ status \in 200 .. 299,
           sent |-> IF status = None THEN None ELSE [headers |-> headers, body |-> body]]

(***************************** From end to end ****************************)
\* An endpoint as the API creates it, secrets that are re-encrypted by the command, an admin
\* or a PATCH that changes the endpoint, and then the attempt.
CreateEndpoint(w, e) == IF CheckEvents(w, e.events) /\ CheckUrl(e.url, w.policyThen) THEN [e EXCEPT !.secret = Encrypt(w.keysThen, "raw")] ELSE None
RotateSecret(w, e) == [e EXCEPT !.secret = Encrypt(w.keysThen, "raw2")]
EncryptSecrets(w, e) == IF w.keysBetween = None THEN e ELSE [e EXCEPT !.secret = Reencrypt(w.keysBetween, @)]
Story(w) ==
  LET made == CreateEndpoint(w, w.endpoint)
      e == IF w.rotated THEN RotateSecret(w, made) ELSE made
  IN IF made = None THEN None
     ELSE IF EncryptSecrets(w, e).secret = None THEN None
     ELSE [queued |-> Publish(w.args, w.type, {e}), endpoint |-> [EncryptSecrets(w, e) EXCEPT !.owner = w.ownerNow]]

(******************************* Properties *******************************)
\* Everything that may come between an endpoint's creation and a delivery.
Signatures == {"raw", "raw2"} \X {"msg"} \X Int \X {"body"}
Messages == [headers : [id : {"msg"}, stamp : Int, signature : Signatures], body : {"body"}]
Patterns == [kind : {"all", "exact", "below"}, words : Seq(STRING)]
Addresses == [kind : STRING]
Urls == [scheme : STRING, credentials : BOOLEAN, host : STRING \cup {None}, address : Addresses \cup {None}]
Policies == [allowHttp : BOOLEAN, allowPrivate : BOOLEAN]
IsCase(w) ==
  /\ w.endpoint \in [url : Urls, events : SUBSET Patterns, active : BOOLEAN, owner : STRING, tenant : STRING, secret : {None}]
  /\ w.args \in [owner : STRING \cup {None}, tenant : STRING, broadcast : BOOLEAN]
  /\ w.type \in Seq(STRING) /\ w.ownerNow \in STRING /\ w.now \in Int /\ w.rotated \in BOOLEAN
  /\ w.policyThen \in Policies /\ w.policy \in Policies /\ w.peer \in Addresses /\ w.answer \in Int \cup {None}
  /\ w.keysThen \in Seq(Nat) /\ w.keysNow \in Seq(Nat) /\ (w.keysBetween # None => w.keysBetween \in Seq(Nat) \ {<<>>})
  /\ w.available # None => w.available \subseteq Seq(STRING)

\* A message that reaches a peer reaches one that the policy of the worker allows, of an
\* endpoint that is still in the audience of the event, is verified by the holder of the
\* current secret within the tolerance, and by nobody with another secret, body or time; a
\* success is an answer of 2xx; secrets survive a rotation of keys that kept the old key until
\* they were encrypted again (network.py:88-173, secrets.py:48-85, outbox.py:282-300, 340-351).
DeliversSafely(w) ==
  LET story == Story(w)
      attempt == Attempt(w, AudienceOf(w.args), story.endpoint, "body")
      raw == IF w.rotated THEN "raw2" ELSE "raw"
  IN (story # None) =>
       /\ \A e \in story.queued : e.active /\ (w.args.broadcast \/ e.tenant = w.args.tenant)
       /\ \A key \in (IF w.keysBetween = None THEN {} ELSE {Head(w.keysBetween)}) : Decrypt(<<key>>, story.endpoint.secret) = raw
       /\ (story.queued # {} /\ attempt # None) =>
            /\ (attempt.sent # None) =>
                 /\ w.args.broadcast \/ w.args.owner \in {None, w.ownerNow}
                 /\ w.policy.allowPrivate \/ IsPublicAddress(w.peer)
                 /\ CheckUrl(story.endpoint.url, w.policy)
                 /\ \A secrets \in {{"raw"}, {"raw2"}, {"raw", "raw2"}}, body \in {"body", "other"}, at \in w.now - 2 .. w.now + 2 :
                      VerifySignature(secrets, attempt.sent.headers, body, 1, at) <=> (raw \in secrets /\ body = "body" /\ at \in w.now - 1 .. w.now + 1)
            /\ attempt.success => (attempt.sent # None /\ w.answer \in 200 .. 299)
\* Whoever may subscribe under the available events gets at least one of them, and a delivery is
\* queued for an endpoint exactly when it is active, in the audience and subscribed.
SubscribersAreServed(w) ==
  /\ (w.available # None /\ CheckEvents(w, w.endpoint.events) /\ w.endpoint.events # {} /\ w.endpoint.active) =>
       \E name \in w.available : Publish([owner |-> None, tenant |-> "", broadcast |-> TRUE], name, {w.endpoint}) # {}
  /\ ~Refused(w.args) => \A e \in {w.endpoint} :
       (e \in Publish(w.args, w.type, {e})) <=>
         (e.active /\ AudienceMatches(AudienceOf(w.args), e) /\ \E p \in e.events : p.kind = "all" \/ (p.kind = "exact" /\ p.words = w.type) \/ (p.kind = "below" /\ Len(p.words) < Len(w.type) /\ IsPrefix(p.words, w.type)))
=============================================================================
