--------------------------- MODULE MCApprovalGate ---------------------------
(* Small instances of ApprovalGate: all gates are of one session, which is *)
(* where they meet.                                                        *)
EXTENDS ApprovalGate

CONSTANT s1

TheSession == [g \in Gates |-> s1]
=============================================================================
