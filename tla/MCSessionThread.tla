-------------------------- MODULE MCSessionThread --------------------------
(* Two or three messages to one thread.                                    *)
EXTENDS SessionThread

CONSTANTS a, b
=============================================================================
