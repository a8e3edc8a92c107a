---------------------------- MODULE TurnService ----------------------------
(***************************************************************************)
(* What HermesClient.chat() promises its callers, with no process, no      *)
(* watchdog and no flag: every message queues for the one local model, the *)
(* model works on one message at a time, and a message is worked on again  *)
(* at most once before its caller gets an answer, which is final.          *)
(* TurnGuard is shown to implement this.                                   *)
(***************************************************************************)
EXTENDS Naturals

CONSTANT Chats          \* the calls of chat(), one per mesh message

VARIABLES
    phase,              \* [Chats -> Phases]
    tries               \* [Chats -> 1..2]: which attempt a call is on

vars == <<phase, tries>>

Phases == {"new", "queued", "turn", "settling", "answered"}

Init ==
    /\ phase = [c \in Chats |-> "new"]
    /\ tries = [c \in Chats |-> 1]

Move(c, from, to) ==
    /\ phase[c] = from
    /\ phase' = [phase EXCEPT ![c] = to]

Submit(c) == Move(c, "new", "queued") /\ UNCHANGED tries

\* The model takes a message only when it works on no other.
Serve(c) ==
    /\ \A d \in Chats : phase[d] /= "turn"
    /\ Move(c, "queued", "turn")
    /\ UNCHANGED tries

Release(c) == Move(c, "turn", "settling") /\ UNCHANGED tries

\* One resume-and-retry, never a second.
Requeue(c) ==
    /\ tries[c] = 1
    /\ Move(c, "settling", "queued")
    /\ tries' = [tries EXCEPT ![c] = 2]

Answer(c) == Move(c, "settling", "answered") /\ UNCHANGED tries

Next == \E c \in Chats :
    Submit(c) \/ Serve(c) \/ Release(c) \/ Requeue(c) \/ Answer(c)

Spec == Init /\ [][Next]_vars
=============================================================================
