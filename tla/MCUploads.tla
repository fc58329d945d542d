----------------------------- MODULE MCUploads -----------------------------
\* Two uploads of two users; contents a and b are the signed size and type, x is not.
EXTENDS Uploads, TLC
MCOwner == "k1" :> "u1" @@ "k2" :> "u2"
MCMaxPuts == "k1" :> 2 @@ "k2" :> 0
MCConfigs ==
  {[versioned |-> v, checksum |-> c, require_version |-> v /\ c] : v, c \in BOOLEAN}
MCMatching == {"a", "b"}
=============================================================================
