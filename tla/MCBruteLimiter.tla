--------------------------- MODULE MCBruteLimiter ---------------------------
(***************************************************************************)
(* BruteLimiter for TLC: three keys in a table for two, so that it fills   *)
(* up, and a clock long enough for two locks of one key to expire.         *)
(***************************************************************************)
EXTENDS BruteLimiter, TLC

CONSTANTS k1, k2, k3, c1, c2

MCSymmetry == Permutations(Keys) \union Permutations(Clients)
=============================================================================
