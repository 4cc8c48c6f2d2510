----------------------------- MODULE MCAccounts -----------------------------
(***************************************************************************)
(* Accounts for TLC: two identities, two callbacks at once, and emails for *)
(* the admin, for another user and to change to.                           *)
(***************************************************************************)
EXTENDS Accounts, TLC

CONSTANTS e1, e2, e3, s1, s2, k1, k2

MCSymmetry == Permutations(Callbacks) \union Permutations(Subjects)
                \union Permutations(Emails \ {AdminEmail})
=============================================================================
