---------------------------- MODULE MCJwksCache ----------------------------
(* An instance of the key cache for TLC.  Requests are alike, and so are    *)
(* kids, and no liveness is checked: they may be permuted.                 *)
EXTENDS JwksCache, TLC

Alike == Permutations(Verifiers) \cup Permutations(Keys)
=============================================================================
