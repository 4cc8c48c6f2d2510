--------------------------- MODULE MCImageUpdates ---------------------------
(***************************************************************************)
(* ImageUpdates for TLC: entries live three ticks, the registry's answers  *)
(* are stored within one.                                                  *)
(***************************************************************************)
EXTENDS ImageUpdates, TLC

CONSTANTS k1, k2, r1, r2

MCSymmetry == Permutations(Checks) \union Permutations(Requests)
=============================================================================
