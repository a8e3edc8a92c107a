------------------------------ MODULE Permits ------------------------------
(***************************************************************************)
(* What the approval gate promises the operator: a risky tool runs only by *)
(* spending an approval given for its session, an approval is spent by one *)
(* tool at most, and a gate's verdict is final.  How requests and answers  *)
(* reach the gate, and what is lost on the way, is left open: an approval  *)
(* may always be revoked and a tool always be refused.  ApprovalGate is    *)
(* shown to implement this.                                                *)
(***************************************************************************)
CONSTANTS Gates, Sessions, SessionOf

VARIABLES
    gate,               \* [Gates -> {"closed", "open", "run", "refused"}]
    permit              \* [Sessions -> BOOLEAN]: an unspent approval

vars == <<gate, permit>>

Init ==
    /\ gate = [g \in Gates |-> "closed"]
    /\ permit = [s \in Sessions |-> FALSE]

Move(g, from, to) ==
    /\ gate[g] = from
    /\ gate' = [gate EXCEPT ![g] = to]

Open(g) == Move(g, "closed", "open") /\ UNCHANGED permit

Permit(s, given) ==
    /\ permit' = [permit EXCEPT ![s] = given]
    /\ UNCHANGED gate

Run(g) ==
    /\ permit[SessionOf[g]]
    /\ Move(g, "open", "run")
    /\ permit' = [permit EXCEPT ![SessionOf[g]] = FALSE]

Refuse(g) ==
    /\ Move(g, "open", "refused")
    /\ permit' = [permit EXCEPT ![SessionOf[g]] = FALSE]

Next ==
    \/ \E g \in Gates : Open(g) \/ Run(g) \/ Refuse(g)
    \/ \E s \in Sessions, given \in BOOLEAN : Permit(s, given)

Spec == Init /\ [][Next]_vars
=============================================================================
