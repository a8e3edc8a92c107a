---------------------------- MODULE MCTurnGuard ----------------------------
(* Small instances of TurnGuard.                                           *)
EXTENDS TurnGuard, TLC

\* The calls of chat() are interchangeable (for invariants only).
ChatSymmetry == Permutations(Chats)
=============================================================================
