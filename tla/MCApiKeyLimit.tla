--------------------------- MODULE MCApiKeyLimit ----------------------------
(***************************************************************************)
(* ApiKeyLimit for TLC: two requests per window from three clients, with   *)
(* clock readings up to one tick old.                                      *)
(***************************************************************************)
EXTENDS ApiKeyLimit, TLC

CONSTANTS c1, c2, c3

MCSymmetry == Permutations(Callers)
=============================================================================
