---------------------------- MODULE MCIdempotency ----------------------------
(* Instance of Idempotency: one key, requests with two fingerprints.       *)
EXTENDS Idempotency, FiniteSets

CONSTANTS r1, r2, r3, k, f1, f2

MCKeyOf == [r \in Requests |-> k]
MCFingerprintOf == [r \in Requests |-> IF r = r1 THEN f1 ELSE f2]
=============================================================================
