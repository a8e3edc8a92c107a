---------------------------- MODULE ApprovalGate ----------------------------
(***************************************************************************)
(* The approval gate of core/control_server.py with its two kinds of       *)
(* client, the mesh-tool-gate plugin, which asks before a tool runs (POST  *)
(* /gate/notify), and the older step hook (POST /step, kind "gate"), and   *)
(* with the operator's /approve and /deny.                                 *)
(*                                                                         *)
(* Requests and answers run in threads of their own, none takes a lock,    *)
(* and all of one session share one entry of each dictionary of            *)
(* ControlState: every access to a dictionary is a step.                   *)
(***************************************************************************)
CONSTANTS
    Gates,              \* requests for an approval
    StepGates,          \* those of the step hook
    Sessions,           \* mesh thread names
    SessionOf,          \* [Gates -> Sessions]
    Answers,            \* threads that run /approve or /deny
    NoGate              \* no gate is pending

ASSUME GatesAssumption ==
    /\ StepGates \subseteq Gates
    /\ SessionOf \in [Gates -> Sessions]
    /\ NoGate \notin Gates

VARIABLES
    at,                 \* where the thread of each gate is
    rung,               \* is each gate's threading.Event set?
    verdict,            \* what request_approval() returned to each gate
    response,           \* what each gate's client was told
    pending,            \* _pending of each session
    decision,           \* _decisions of each session
    reason,             \* has _deny_reasons a reason for the session?
    answered,           \* _answered of each session
    hand,               \* where each answering thread is
    whom,               \* the session it answers
    word,               \* the answer it gives
    heard               \* history of each gate: the answers that found it in
                        \* the slot, was an approval "stored" since it cleared
                        \* the older ones, has another gate "joined" it?

gateVars == <<at, rung, verdict, response>>
dictVars == <<pending, decision, reason, answered>>
handVars == <<hand, whom, word>>
vars == <<gateVars, dictVars, handVars, heard>>

Open == {"opened", "waiting", "woken", "lapsed"}
Cleared == {"waiting", "woken", "lapsed", "heeded", "expired"}
Ruled == {"judged", "reasoned", "unreasoned"}
Places == {"opened"} \cup Cleared \cup Ruled \cup {"idle", "closed"}
Words == {"approve", "deny", "denyWhy"}
Responses == Words \cup {"none", "timeout", "gateError"}
Hands == {"idle", "found", "ruled", "explained", "noted"}

Goto(g, from, to) ==
    /\ at[g] = from
    /\ at' = [at EXCEPT ![g] = to]

Init ==
    /\ at = [g \in Gates |-> "idle"]
    /\ rung = [g \in Gates |-> FALSE]
    /\ verdict = [g \in Gates |-> "none"]
    /\ response = [g \in Gates |-> "none"]
    /\ pending = [s \in Sessions |-> NoGate]
    /\ decision = [s \in Sessions |-> "none"]
    /\ reason = [s \in Sessions |-> FALSE]
    /\ answered = [s \in Sessions |-> FALSE]
    /\ hand = [a \in Answers |-> "idle"]
    /\ whom \in [Answers -> Sessions]
    /\ word = [a \in Answers |-> "deny"]
    /\ heard = [g \in Gates |-> {}]

-----------------------------------------------------------------------------
(* request_approval(): the newest gate of a session takes the slot         *)

\* The other gates of the session that are not over.
Neighbours(g) == {h \in Gates \ {g} : /\ SessionOf[h] = SessionOf[g]
                                     /\ at[h] \notin {"idle", "closed"}}

Request(g) ==
    /\ Goto(g, "idle", "opened")
    /\ pending' = [pending EXCEPT ![SessionOf[g]] = g]
    /\ heard' = [h \in Gates |->
            IF h \in Neighbours(g) \/ (h = g /\ Neighbours(g) /= {})
            THEN heard[h] \cup {"joined"} ELSE heard[h]]
    /\ UNCHANGED <<rung, verdict, response, decision, reason, answered, handVars>>

StaleClear(g) ==
    /\ Goto(g, "opened", "waiting")
    /\ UNCHANGED <<rung, verdict, response, dictVars, handVars, heard>>

\* A decision left by an earlier gate is not for this one.
Clear(g) ==
    /\ Goto(g, "opened", "waiting")
    /\ decision' = [decision EXCEPT ![SessionOf[g]] = "none"]
    /\ UNCHANGED <<rung, verdict, response, pending, reason, answered>>
    /\ UNCHANGED <<handVars, heard>>

Await(g, to) ==
    /\ Goto(g, "waiting", to)
    /\ UNCHANGED <<rung, verdict, response, dictVars, handVars, heard>>

\* event.wait(timeout): the event is set, or nobody sets it for so long.
Wake(g) == rung[g] /\ Await(g, "woken")

NoDeadline(g) == rung[g] /\ Await(g, "lapsed")

Lapse(g) == ~rung[g] /\ Await(g, "lapsed")

LeaveTo(g, from, to) ==
    /\ Goto(g, from, to)
    /\ UNCHANGED <<rung, verdict, response, decision, reason, answered>>
    /\ UNCHANGED <<handVars, heard>>

FreeSlot(g) == pending' = [pending EXCEPT ![SessionOf[g]] = NoGate]

ForgetfulLeave(g) ==
    \/ LeaveTo(g, "woken", "heeded") /\ FreeSlot(g)
    \/ LeaveTo(g, "lapsed", "expired") /\ UNCHANGED pending

\* _pending.pop(session), whichever gate is in the slot by now.
Leave(g) ==
    /\ FreeSlot(g)
    /\ \/ LeaveTo(g, "woken", "heeded")
       \/ LeaveTo(g, "lapsed", "expired")

\* A wait that timed out is a deny, and so is an answer that got lost.
Judge(g, ruling) ==
    /\ \/ Goto(g, "heeded", "judged") /\ ruling = decision[SessionOf[g]]
       \/ Goto(g, "expired", "judged") /\ ruling = "none"
    /\ verdict' = [verdict EXCEPT ![g] =
                        IF ruling = "approve" THEN "approve" ELSE "deny"]
    /\ UNCHANGED <<rung, response, pending, reason, answered>>
    /\ UNCHANGED <<handVars, heard>>

PeekDecision(g) ==
    /\ \E ruling \in {"none", "approve", "deny"} : Judge(g, ruling)
    /\ UNCHANGED decision

\* _decisions.pop(session): a decision is used by one gate only.
TakeDecision(g) ==
    /\ \E ruling \in {"none", "approve", "deny"} : Judge(g, ruling)
    /\ decision' = [decision EXCEPT ![SessionOf[g]] = "none"]

\* What the client is told.  A client that has lost its connection or whose
\* own HTTP timeout was shorter is not there any more: it has long gone on,
\* with the tool blocked as a gate error, and may have asked again meanwhile.
Tell(g, from, text) ==
    /\ Goto(g, from, "closed")
    /\ \E told \in {text, "gateError"} :
          response' = [response EXCEPT ![g] = told]
    /\ UNCHANGED <<rung, verdict, pending, decision, reason, handVars, heard>>

\* POST /step: the verdict itself.
RespondToHook(g) ==
    /\ g \in StepGates
    /\ Tell(g, "judged", verdict[g])
    /\ UNCHANGED answered

\* POST /gate/notify: _deny_reasons.pop(session) ...
TakeReason(g) ==
    /\ g \notin StepGates
    /\ Goto(g, "judged", IF reason[SessionOf[g]] THEN "reasoned" ELSE "unreasoned")
    /\ reason' = [reason EXCEPT ![SessionOf[g]] = FALSE]
    /\ UNCHANGED <<rung, verdict, response, pending, decision, answered>>
    /\ UNCHANGED <<handVars, heard>>

Reply(g) ==
    IF verdict[g] = "approve" THEN "approve"
    ELSE IF ~answered[SessionOf[g]] THEN "timeout"
    ELSE IF at[g] = "reasoned" THEN "denyWhy" ELSE "deny"

\* ... and _answered.pop(session), which tells a deny from a timeout.
RespondToPlugin(g) ==
    /\ at[g] \in {"reasoned", "unreasoned"}
    /\ Tell(g, at[g], Reply(g))
    /\ answered' = [answered EXCEPT ![SessionOf[g]] = FALSE]

-----------------------------------------------------------------------------
(* answer_approval()                                                       *)

Step(a, from, to) ==
    /\ hand[a] = from
    /\ hand' = [hand EXCEPT ![a] = to]
    /\ UNCHANGED <<at, verdict, response, pending, whom>>

\* What an answer decides: the reason of a deny is kept apart.
Ruling(w) == IF w = "approve" THEN "approve" ELSE "deny"

\* The slot has a gate; "No pending approval" changes nothing.  The answer is
\* meant for the gate that is found here.
FindGate(a) ==
    /\ pending[whom[a]] /= NoGate
    /\ Step(a, "idle", "found")
    /\ \E w \in Words :
          /\ word' = [word EXCEPT ![a] = w]
          /\ heard' = [heard EXCEPT ![pending[whom[a]]] = @ \cup {Ruling(w)}]
    /\ UNCHANGED <<rung, decision, reason, answered>>

RawWord(a) == word[a]

Decision(a) == Ruling(word[a])

WriteDecision(a) ==
    /\ Step(a, "found", "ruled")
    /\ decision' = [decision EXCEPT ![whom[a]] = Decision(a)]
    /\ heard' = [g \in Gates |->
            IF SessionOf[g] = whom[a] /\ at[g] \in Cleared /\ Decision(a) = "approve"
            THEN heard[g] \cup {"stored"} ELSE heard[g]]
    /\ UNCHANGED <<rung, reason, answered, word>>

\* _deny_reasons, for a deny only; one without a reason stores the empty one.
WriteReason(a) ==
    /\ word[a] /= "approve"
    /\ Step(a, "ruled", "explained")
    /\ reason' = [reason EXCEPT ![whom[a]] = word[a] = "denyWhy"]
    /\ UNCHANGED <<rung, decision, answered, word, heard>>

\* _answered.
WriteAnswered(a) ==
    /\ \/ word[a] = "approve" /\ Step(a, "ruled", "noted")
       \/ Step(a, "explained", "noted")
    /\ answered' = [answered EXCEPT ![whom[a]] = TRUE]
    /\ UNCHANGED <<rung, decision, reason, word, heard>>

\* _pending[session].set(); a KeyError if the gate has left meanwhile, which
\* the operator is told as a failed command.
Ring(a) ==
    /\ Step(a, "noted", "idle")
    /\ rung' = [g \in Gates |-> rung[g] \/ pending[whom[a]] = g]
    /\ word' = [word EXCEPT ![a] = "deny"]
    /\ UNCHANGED <<decision, reason, answered, heard>>

-----------------------------------------------------------------------------

\* The HTTP thread of a gate goes on by itself.
GateStep(g) ==
    \/ Clear(g) \/ Wake(g) \/ Lapse(g) \/ Leave(g)
    \/ TakeDecision(g) \/ RespondToHook(g) \/ TakeReason(g) \/ RespondToPlugin(g)

AnswerStep(a) ==
    WriteDecision(a) \/ WriteReason(a) \/ WriteAnswered(a) \/ Ring(a)

Next ==
    \/ \E g \in Gates : Request(g) \/ GateStep(g)
    \/ \E a \in Answers : FindGate(a) \/ AnswerStep(a)

Spec == Init /\ [][Next]_vars

\* Threads run and the wait has a timeout; no operator owes an answer.
Fairness == \A g \in Gates : WF_vars(GateStep(g))

FairSpec == Spec /\ Fairness

-----------------------------------------------------------------------------
(* Properties                                                              *)

\* Each variable holds a value of its kind.
TypeOK ==
    /\ at \in [Gates -> Places]
    /\ rung \in [Gates -> BOOLEAN]
    /\ verdict \in [Gates -> {"none", "approve", "deny"}]
    /\ response \in [Gates -> Responses]
    /\ pending \in [Sessions -> Gates \cup {NoGate}]
    /\ decision \in [Sessions -> {"none", "approve", "deny"}]
    /\ reason \in [Sessions -> BOOLEAN]
    /\ answered \in [Sessions -> BOOLEAN]
    /\ hand \in [Answers -> Hands]
    /\ whom \in [Answers -> Sessions]
    /\ word \in [Answers -> Words]
    /\ heard \in [Gates -> SUBSET {"approve", "deny", "stored", "joined"}]

\* A session's slot holds a gate only while that gate waits in its session: an
\* /approve is never swallowed by a request that is over, and a session with
\* no open gate reports none (control_server.py:301, status_payload).
NoPhantomGate ==
    \A s \in Sessions : pending[s] /= NoGate =>
        SessionOf[pending[s]] = s /\ at[pending[s]] \in Open

\* No tool runs on an approval left behind: a client is told "approve" only if
\* its own event was set, and an approval of its session was stored after the
\* gate had cleared what older gates and answers left.  That approval may have
\* been meant for another gate (see UnansweredNeverRuns): answer_approval()
\* looks at the slot, stores, and looks again.
ApprovedInItsTime ==
    \A g \in Gates : response[g] = "approve" => rung[g] /\ "stored" \in heard[g]

\* An unanswered gate never executes a risky tool (control_server.py:258-260):
\* no client is told "approve" whose gate no /approve has found.
UnansweredNeverRuns ==
    \A g \in Gates : response[g] = "approve" => "approve" \in heard[g]

\* A gate that was alone in its session for all its life, and that no answer
\* found, is told to the model as a timeout and never as a refusal by the user
\* (control_server.py:88-90).
SilenceIsTimeout ==
    [][\A g \in Gates : RespondToPlugin(g) /\ heard[g] \subseteq {"stored"} =>
            response'[g] \in {"timeout", "gateError"}]_vars

\* Deny-by-default needs no operator: every request is answered.
EveryGateCloses == \A g \in Gates : (at[g] = "opened") ~> (at[g] = "closed")

\* The abstract state of a gate.
GateOf(g) ==
    IF at[g] = "idle" THEN "closed"
    ELSE IF verdict[g] = "none" THEN "open"
    ELSE IF verdict[g] = "approve" THEN "run" ELSE "refused"

Promise == INSTANCE Permits WITH
    gate <- [g \in Gates |-> GateOf(g)],
    permit <- [s \in Sessions |-> decision[s] = "approve"]

\* One approval authorises one tool at most, of the session it was given for.
ImplementsPermits == Promise!Spec
=============================================================================
