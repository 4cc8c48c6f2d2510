------------------------------ MODULE MCStacks ------------------------------
(***************************************************************************)
(* Stacks for TLC: two stacks, and two services of which the second needs  *)
(* the first.  The starter file declares only the first, so a save can add *)
(* a service, or take one away whose container exists.                     *)
(***************************************************************************)
EXTENDS Stacks, TLC

CONSTANTS web, db, starter, full, torn, c1, c2, n1, n2

MCServicesOf == [f \in {starter, full} |->
                   IF f = full THEN {web, db} ELSE {web}]
MCDeps == [s \in {web, db} |-> IF s = web THEN {} ELSE {web}]

MCClients == Permutations(Clients)

\* Every operation of the API.
EveryOp == AllOps

\* The operations that write directories or start containers.
PairOps ==
  {"create", "save", "rename", "destroy", "up", "redeploy", "redeployAll"}

\* Every operation runs alone, those of PairOps two at a time.
PairsOverlap ==
  \E c \in Clients : Busy \subseteq {c} \/ \A d \in Busy : req[d].op \in PairOps
=============================================================================
