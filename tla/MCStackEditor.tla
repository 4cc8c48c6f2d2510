--------------------------- MODULE MCStackEditor ---------------------------
(* Two stacks, with and without a .env, and one text of the user's or of   *)
(* another writer.                                                         *)
EXTENDS StackEditor, TLC

CONSTANTS a, b

Stacks == {a, b}
StackSymmetry == Permutations(Stacks)
=============================================================================
