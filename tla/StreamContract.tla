--------------------------- MODULE StreamContract ---------------------------
(***************************************************************************)
(* What Stacks.StreamCompose promises the caller that drains its channel:  *)
(* lines of the two pipes arrive until the exit status of the command is   *)
(* known, a successful command has delivered every readable line before    *)
(* that, and the channel is closed only once the status can be taken.      *)
(***************************************************************************)
EXTENDS Naturals

CONSTANTS Pipes

VARIABLES readable,   \* readable[p]: lines of pipe p the command would deliver
          delivered,  \* delivered[p]: lines of pipe p the caller has received
          status,     \* exit status of the command: "none" until it is known
          closed      \* the line channel is closed

contractVars == <<readable, delivered, status, closed>>

Init ==
  /\ readable \in [Pipes -> Nat]
  /\ delivered = [p \in Pipes |-> 0]
  /\ status = "none"
  /\ closed = FALSE

Deliver(p) ==
  /\ status = "none"
  /\ delivered[p] < readable[p]
  /\ delivered' = [delivered EXCEPT ![p] = @ + 1]
  /\ UNCHANGED <<readable, status, closed>>

Settle ==
  /\ status = "none"
  /\ status' \in {"ok", "failed"}
  /\ status' = "ok" => \A p \in Pipes : delivered[p] = readable[p]
  /\ UNCHANGED <<readable, delivered, closed>>

Close ==
  /\ status # "none"
  /\ ~closed
  /\ closed' = TRUE
  /\ UNCHANGED <<readable, delivered, status>>

Next == (\E p \in Pipes : Deliver(p)) \/ Settle \/ Close

Spec == Init /\ [][Next]_contractVars
=============================================================================
