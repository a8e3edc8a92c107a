------------------------- MODULE ApprovalGateProofs -------------------------
(***************************************************************************)
(* Proofs about ApprovalGate, for any number of gates, sessions and        *)
(* answering threads: the type invariant, NoPhantomGate, ApprovedInItsTime *)
(* and that the gate implements Permits.                                   *)
(*                                                                         *)
(* ApprovedInItsTime rests on the decision of a session that a gate will   *)
(* take having been written since that gate cleared it (Fresh), and on a   *)
(* gate that timed out taking none (Heard).                                *)
(***************************************************************************)
EXTENDS ApprovalGate, TLAPS

\* The two halves of TypeOK: what SMT types, and the Boolean entries.
DataOK ==
    /\ at \in [Gates -> Places]
    /\ verdict \in [Gates -> {"none", "approve", "deny"}]
    /\ response \in [Gates -> Responses]
    /\ pending \in [Sessions -> Gates \cup {NoGate}]
    /\ decision \in [Sessions -> {"none", "approve", "deny"}]
    /\ hand \in [Answers -> Hands]
    /\ whom \in [Answers -> Sessions]
    /\ word \in [Answers -> Words]
    /\ heard \in [Gates -> SUBSET {"approve", "deny", "stored", "joined"}]

FlagOK ==
    /\ rung \in [Gates -> BOOLEAN]
    /\ reason \in [Sessions -> BOOLEAN]
    /\ answered \in [Sessions -> BOOLEAN]

\* The decision a gate is going to take was written after the gate cleared it.
Fresh ==
    \A g \in Gates :
        /\ /\ at[g] \in Cleared
           /\ decision[SessionOf[g]] = "approve"
           => "stored" \in heard[g]
        /\ verdict[g] = "approve" => "stored" \in heard[g]
        /\ response[g] = "approve" => verdict[g] = "approve"

\* A gate that did not time out was rung, and no other gate is approved.
Heard ==
    \A g \in Gates :
        (at[g] \in {"woken", "heeded"} \/ verdict[g] = "approve") => rung[g]

\* A gate has a verdict once it has taken its decision.
Judged == \A g \in Gates : verdict[g] = "none" <=> at[g] \notin Ruled \cup {"closed"}

IInv == TypeOK /\ NoPhantomGate /\ Fresh /\ Heard /\ Judged

-----------------------------------------------------------------------------

LEMMA TypeHalves == TypeOK <=> DataOK /\ FlagOK
BY DEF TypeOK, DataOK, FlagOK

LEMMA InitInv == Init => IInv
<1> SUFFICES ASSUME Init PROVE IInv
    OBVIOUS
<1>1. DataOK
    BY DEF Init, DataOK, Places, Open, Cleared, Ruled, Responses, Words, Hands
<1>2. FlagOK
    BY Zenon DEF Init, FlagOK
<1>3. NoPhantomGate /\ Fresh /\ Heard /\ Judged
    BY GatesAssumption DEF Init, NoPhantomGate, Fresh, Heard, Judged, Cleared, Ruled
<1> QED
    BY <1>1, <1>2, <1>3, TypeHalves DEF IInv

LEMMA DataStep == DataOK /\ [Next]_vars => DataOK'
<1> SUFFICES ASSUME DataOK, [Next]_vars PROVE DataOK'
    OBVIOUS
<1> USE GatesAssumption DEF DataOK, dictVars, handVars, Places, Open, Cleared, Ruled,
        Words, Responses, Hands
<1>1. ASSUME NEW g \in Gates, Request(g) PROVE DataOK'
    BY <1>1 DEF Request, Neighbours, Goto
<1>2. ASSUME NEW g \in Gates, Clear(g) PROVE DataOK'
    BY <1>2 DEF Clear, Goto
<1>3. ASSUME NEW g \in Gates, Wake(g) PROVE DataOK'
    BY <1>3 DEF Wake, Await, Goto
<1>4. ASSUME NEW g \in Gates, Lapse(g) PROVE DataOK'
    BY <1>4 DEF Lapse, Await, Goto
<1>5. ASSUME NEW g \in Gates, Leave(g) PROVE DataOK'
    BY <1>5 DEF Leave, LeaveTo, FreeSlot, Goto
<1>6. ASSUME NEW g \in Gates, TakeDecision(g) PROVE DataOK'
    BY <1>6 DEF TakeDecision, Judge, Goto
<1>7. ASSUME NEW g \in Gates, RespondToHook(g) PROVE DataOK'
    BY <1>7 DEF RespondToHook, Tell, Goto
<1>8. ASSUME NEW g \in Gates, RespondToPlugin(g) PROVE DataOK'
    BY <1>8 DEF RespondToPlugin, Reply, Tell, Goto
<1>9. ASSUME NEW a \in Answers, FindGate(a) PROVE DataOK'
    BY <1>9 DEF FindGate, Ruling, Step
<1>10. ASSUME NEW a \in Answers, WriteDecision(a) PROVE DataOK'
    BY <1>10 DEF WriteDecision, Decision, Ruling, Step
<1>11. ASSUME NEW a \in Answers, WriteAnswered(a) PROVE DataOK'
    BY <1>11 DEF WriteAnswered, Step
<1>12. ASSUME NEW a \in Answers, Ring(a) PROVE DataOK'
    BY <1>12 DEF Ring, Step
<1>13. ASSUME NEW g \in Gates, TakeReason(g) PROVE DataOK'
    BY <1>13 DEF TakeReason, Goto
<1>14. ASSUME NEW a \in Answers, WriteReason(a) PROVE DataOK'
    BY <1>14 DEF WriteReason, Step
<1>15. CASE UNCHANGED vars
    BY <1>15 DEF vars, gateVars
<1> QED
    BY <1>1, <1>2, <1>3, <1>4, <1>5, <1>6, <1>7, <1>8, <1>9, <1>10, <1>11,
       <1>12, <1>13, <1>14, <1>15 DEF Next, GateStep, AnswerStep

LEMMA FlagStep == FlagOK /\ [Next]_vars => FlagOK'
<1> SUFFICES ASSUME FlagOK, [Next]_vars PROVE FlagOK'
    OBVIOUS
<1> USE DEF FlagOK, dictVars, handVars
<1>1. ASSUME NEW g \in Gates, Request(g) PROVE FlagOK'
    BY Zenon, <1>1 DEF Request, Goto
<1>2. ASSUME NEW g \in Gates, Clear(g) PROVE FlagOK'
    BY Zenon, <1>2 DEF Clear, Goto
<1>3. ASSUME NEW g \in Gates, Wake(g) PROVE FlagOK'
    BY Zenon, <1>3 DEF Wake, Await, Goto
<1>4. ASSUME NEW g \in Gates, Lapse(g) PROVE FlagOK'
    BY Zenon, <1>4 DEF Lapse, Await, Goto
<1>5. ASSUME NEW g \in Gates, Leave(g) PROVE FlagOK'
    BY Zenon, <1>5 DEF Leave, LeaveTo, FreeSlot, Goto
<1>6. ASSUME NEW g \in Gates, TakeDecision(g) PROVE FlagOK'
    BY Zenon, <1>6 DEF TakeDecision, Judge, Goto
<1>7. ASSUME NEW g \in Gates, RespondToHook(g) PROVE FlagOK'
    BY Zenon, <1>7 DEF RespondToHook, Tell, Goto
<1>8. ASSUME NEW g \in Gates, RespondToPlugin(g) PROVE FlagOK'
    BY Zenon, <1>8 DEF RespondToPlugin, Reply, Tell, Goto
<1>9. ASSUME NEW a \in Answers, FindGate(a) PROVE FlagOK'
    BY Zenon, <1>9 DEF FindGate, Step
<1>10. ASSUME NEW a \in Answers, WriteDecision(a) PROVE FlagOK'
    BY Zenon, <1>10 DEF WriteDecision, Decision, Ruling, Step
<1>11. ASSUME NEW a \in Answers, WriteAnswered(a) PROVE FlagOK'
    BY Zenon, <1>11 DEF WriteAnswered, Step
<1>12. ASSUME NEW a \in Answers, Ring(a) PROVE FlagOK'
    BY Zenon, <1>12 DEF Ring, Step
<1>13. ASSUME NEW g \in Gates, TakeReason(g) PROVE FlagOK'
    BY Zenon, <1>13 DEF TakeReason, Goto
<1>14. ASSUME NEW a \in Answers, WriteReason(a) PROVE FlagOK'
    BY Zenon, <1>14 DEF WriteReason, Step
<1>15. CASE UNCHANGED vars
    BY Zenon, <1>15 DEF vars, gateVars
<1> QED
    BY <1>1, <1>2, <1>3, <1>4, <1>5, <1>6, <1>7, <1>8, <1>9, <1>10, <1>11,
       <1>12, <1>13, <1>14, <1>15 DEF Next, GateStep, AnswerStep

LEMMA SlotStep == DataOK /\ NoPhantomGate /\ [Next]_vars => NoPhantomGate'
<1> SUFFICES ASSUME DataOK, NoPhantomGate, [Next]_vars PROVE NoPhantomGate'
    OBVIOUS
<1> USE GatesAssumption DEF DataOK, NoPhantomGate, dictVars, handVars, Open
<1>1. ASSUME NEW g \in Gates, Request(g) PROVE NoPhantomGate'
    BY <1>1 DEF Request, Neighbours, Goto
<1>2. ASSUME NEW g \in Gates, Clear(g) PROVE NoPhantomGate'
    BY <1>2 DEF Clear, Goto
<1>3. ASSUME NEW g \in Gates, Wake(g) PROVE NoPhantomGate'
    BY <1>3 DEF Wake, Await, Goto
<1>4. ASSUME NEW g \in Gates, Lapse(g) PROVE NoPhantomGate'
    BY <1>4 DEF Lapse, Await, Goto
<1>5. ASSUME NEW g \in Gates, Leave(g) PROVE NoPhantomGate'
    BY <1>5 DEF Leave, LeaveTo, FreeSlot, Goto
<1>6. ASSUME NEW g \in Gates, TakeDecision(g) PROVE NoPhantomGate'
    BY <1>6 DEF TakeDecision, Judge, Goto
<1>7. ASSUME NEW g \in Gates, RespondToHook(g) PROVE NoPhantomGate'
    BY <1>7 DEF RespondToHook, Tell, Goto
<1>8. ASSUME NEW g \in Gates, RespondToPlugin(g) PROVE NoPhantomGate'
    BY <1>8 DEF RespondToPlugin, Reply, Tell, Goto
<1>9. ASSUME NEW a \in Answers, FindGate(a) PROVE NoPhantomGate'
    BY <1>9 DEF FindGate, Ruling, Step
<1>10. ASSUME NEW a \in Answers, WriteDecision(a) PROVE NoPhantomGate'
    BY <1>10 DEF WriteDecision, Decision, Ruling, Step
<1>11. ASSUME NEW a \in Answers, WriteAnswered(a) PROVE NoPhantomGate'
    BY <1>11 DEF WriteAnswered, Step
<1>12. ASSUME NEW a \in Answers, Ring(a) PROVE NoPhantomGate'
    BY <1>12 DEF Ring, Step
<1>13. ASSUME NEW g \in Gates, TakeReason(g) PROVE NoPhantomGate'
    BY <1>13 DEF TakeReason, Goto
<1>14. ASSUME NEW a \in Answers, WriteReason(a) PROVE NoPhantomGate'
    BY <1>14 DEF WriteReason, Step
<1>15. CASE UNCHANGED vars
    BY <1>15 DEF vars, gateVars
<1> QED
    BY <1>1, <1>2, <1>3, <1>4, <1>5, <1>6, <1>7, <1>8, <1>9, <1>10, <1>11,
       <1>12, <1>13, <1>14, <1>15 DEF Next, GateStep, AnswerStep

LEMMA FreshStep == DataOK /\ Judged /\ Fresh /\ [Next]_vars => (Judged /\ Fresh)'
<1> SUFFICES ASSUME DataOK, Judged, Fresh, [Next]_vars PROVE (Judged /\ Fresh)'
    OBVIOUS
<1> USE GatesAssumption DEF DataOK, Judged, Fresh, dictVars, handVars, Cleared, Ruled, Places
<1>1. ASSUME NEW g \in Gates, Request(g) PROVE (Judged /\ Fresh)'
    BY <1>1 DEF Request, Neighbours, Goto
<1>2. ASSUME NEW g \in Gates, Clear(g) PROVE (Judged /\ Fresh)'
    BY <1>2 DEF Clear, Goto
<1>3. ASSUME NEW g \in Gates, Wake(g) PROVE (Judged /\ Fresh)'
    BY <1>3 DEF Wake, Await, Goto
<1>4. ASSUME NEW g \in Gates, Lapse(g) PROVE (Judged /\ Fresh)'
    BY <1>4 DEF Lapse, Await, Goto
<1>5. ASSUME NEW g \in Gates, Leave(g) PROVE (Judged /\ Fresh)'
    BY <1>5 DEF Leave, LeaveTo, FreeSlot, Goto
<1>6. ASSUME NEW g \in Gates, TakeDecision(g) PROVE (Judged /\ Fresh)'
    BY <1>6 DEF TakeDecision, Judge, Goto
<1>7. ASSUME NEW g \in Gates, RespondToHook(g) PROVE (Judged /\ Fresh)'
    BY <1>7 DEF RespondToHook, Tell, Goto
<1>8. ASSUME NEW g \in Gates, RespondToPlugin(g) PROVE (Judged /\ Fresh)'
    BY <1>8 DEF RespondToPlugin, Reply, Tell, Goto
<1>9. ASSUME NEW a \in Answers, FindGate(a) PROVE (Judged /\ Fresh)'
    BY <1>9 DEF FindGate, Ruling, Step
<1>10. ASSUME NEW a \in Answers, WriteDecision(a) PROVE (Judged /\ Fresh)'
    BY <1>10 DEF WriteDecision, Decision, Ruling, Step
<1>11. ASSUME NEW a \in Answers, WriteAnswered(a) PROVE (Judged /\ Fresh)'
    BY <1>11 DEF WriteAnswered, Step
<1>12. ASSUME NEW a \in Answers, Ring(a) PROVE (Judged /\ Fresh)'
    BY <1>12 DEF Ring, Step
<1>13. ASSUME NEW g \in Gates, TakeReason(g) PROVE (Judged /\ Fresh)'
    BY <1>13 DEF TakeReason, Goto
<1>14. ASSUME NEW a \in Answers, WriteReason(a) PROVE (Judged /\ Fresh)'
    BY <1>14 DEF WriteReason, Step
<1>15. CASE UNCHANGED vars
    BY <1>15 DEF vars, gateVars
<1> QED
    BY <1>1, <1>2, <1>3, <1>4, <1>5, <1>6, <1>7, <1>8, <1>9, <1>10, <1>11,
       <1>12, <1>13, <1>14, <1>15 DEF Next, GateStep, AnswerStep

LEMMA HeardStep == DataOK /\ Heard /\ [Next]_vars => Heard'
<1> SUFFICES ASSUME DataOK, Heard, [Next]_vars PROVE Heard'
    OBVIOUS
<1> USE DEF DataOK, Heard, dictVars, handVars
\* A gate wakes because it was rung, and is judged by a decision only then.
<1>1. ASSUME NEW g \in Gates, Wake(g) PROVE Heard'
    BY <1>1 DEF Wake, Await, Goto
<1>2. ASSUME NEW g \in Gates, Leave(g) PROVE Heard'
    BY <1>2 DEF Leave, LeaveTo, Goto
<1>3. ASSUME NEW g \in Gates, TakeDecision(g) PROVE Heard'
    BY <1>3 DEF TakeDecision, Judge, Goto
\* No event is ever cleared.
<1>4. ASSUME NEW a \in Answers, Ring(a) PROVE Heard'
  <2>1. \A g \in Gates : rung[g] => rung'[g]
    BY Zenon, <1>4 DEF Ring
  <2> QED
    BY <1>4, <2>1 DEF Ring, Step
\* The other steps wake nobody, judge nobody and ring no event.
<1>5. ASSUME NEW g \in Gates, Request(g) \/ Clear(g) \/ Lapse(g) PROVE Heard'
    BY <1>5 DEF Request, Clear, Lapse, Await, Goto
<1>6. ASSUME NEW g \in Gates,
             RespondToHook(g) \/ TakeReason(g) \/ RespondToPlugin(g)
      PROVE  Heard'
    BY <1>6 DEF RespondToHook, TakeReason, RespondToPlugin, Tell, Goto
<1>7. ASSUME NEW a \in Answers,
             FindGate(a) \/ WriteDecision(a) \/ WriteReason(a) \/ WriteAnswered(a)
      PROVE  Heard'
    BY <1>7 DEF FindGate, WriteDecision, WriteReason, WriteAnswered, Step
<1>8. CASE UNCHANGED vars
    BY <1>8 DEF vars, gateVars
<1> QED
    BY <1>1, <1>2, <1>3, <1>4, <1>5, <1>6, <1>7, <1>8 DEF Next, GateStep, AnswerStep

LEMMA InductiveStep == IInv /\ [Next]_vars => IInv'
<1> SUFFICES ASSUME IInv, [Next]_vars PROVE IInv'
    OBVIOUS
<1>1. DataOK /\ FlagOK
    BY TypeHalves DEF IInv
<1>2. TypeOK'
  <2>1. DataOK' /\ FlagOK'
    BY <1>1, DataStep, FlagStep
  <2> QED
    BY <2>1 DEF TypeOK, DataOK, FlagOK
<1>3. NoPhantomGate' /\ Fresh' /\ Heard' /\ Judged'
    BY <1>1, SlotStep, FreshStep, HeardStep DEF IInv
<1> QED
    BY <1>2, <1>3 DEF IInv

LEMMA Invariance == Spec => []IInv
BY InitInv, InductiveStep, PTL DEF Spec

-----------------------------------------------------------------------------

\* Every entry of every dictionary keeps a value of its kind.
THEOREM TypeCorrect == Spec => []TypeOK
<1>1. IInv => TypeOK
    BY DEF IInv
<1> QED
    BY <1>1, Invariance, PTL

\* For any number of overlapping gates and answers, a session's slot never
\* holds a gate that is over.
THEOREM NoGateLingers == Spec => []NoPhantomGate
<1>1. IInv => NoPhantomGate
    BY DEF IInv
<1> QED
    BY <1>1, Invariance, PTL

\* For any number of overlapping gates and answers, a tool runs only if its own
\* event was set, and on an approval stored since its gate cleared older ones.
THEOREM NoOldApproval == Spec => []ApprovedInItsTime
<1>1. IInv => ApprovedInItsTime
    BY DEF IInv, Fresh, Heard, ApprovedInItsTime
<1> QED
    BY <1>1, Invariance, PTL

-----------------------------------------------------------------------------
(* ApprovalGate implements Permits.                                        *)

\* What a step may do to the abstract state, gate by gate.
LEMMA PromiseStep == IInv /\ [Next]_vars => [Promise!Next]_(Promise!vars)
<1> SUFFICES ASSUME IInv, [Next]_vars
             PROVE  Promise!Next \/ UNCHANGED Promise!vars
    OBVIOUS
<1> DEFINE gate == [g \in Gates |-> GateOf(g)]
           permit == [s \in Sessions |-> decision[s] = "approve"]
<1>0. DataOK /\ Judged
    BY TypeHalves DEF IInv
<1> USE GatesAssumption DEF dictVars, handVars
<1>1. ASSUME NEW g \in Gates, Request(g) PROVE Promise!Next
  <2>1. gate[g] = "closed" /\ gate' = [gate EXCEPT ![g] = "open"]
    BY <1>0, <1>1 DEF Request, Goto, GateOf, Judged, Ruled, DataOK
  <2>2. UNCHANGED permit
    BY <1>1 DEF Request
  <2> QED
    BY <2>1, <2>2 DEF Promise!Next, Promise!Open, Promise!Move
<1>2. ASSUME NEW g \in Gates, TakeDecision(g) PROVE Promise!Next
  <2> DEFINE s == SessionOf[g]
  <2>1. s \in Sessions
    OBVIOUS
  <2>2. permit' = [permit EXCEPT ![s] = FALSE]
    BY <1>0, <1>2 DEF TakeDecision, DataOK
  <2>3. gate[g] = "open"
    BY <1>0, <1>2 DEF TakeDecision, Judge, Goto, GateOf, Judged, Ruled
  <2>4. CASE verdict'[g] = "approve"
    <3>1. permit[s]
      BY <1>0, <1>2, <2>1, <2>4 DEF TakeDecision, Judge, DataOK
    <3>2. gate' = [gate EXCEPT ![g] = "run"]
      BY <1>0, <1>2, <2>4 DEF TakeDecision, Judge, Goto, GateOf, DataOK
    <3> QED
      BY <2>1, <2>2, <2>3, <3>1, <3>2 DEF Promise!Next, Promise!Run, Promise!Move
  <2>5. CASE verdict'[g] = "deny"
    <3>1. gate' = [gate EXCEPT ![g] = "refused"]
      BY <1>0, <1>2, <2>5 DEF TakeDecision, Judge, Goto, GateOf, DataOK
    <3> QED
      BY <2>1, <2>2, <2>3, <3>1 DEF Promise!Next, Promise!Refuse, Promise!Move
  <2>6. verdict'[g] \in {"approve", "deny"}
    BY <1>0, <1>2 DEF TakeDecision, Judge, DataOK
  <2> QED
    BY <2>4, <2>5, <2>6
\* A gate loses a leftover decision, an answer gives or takes one back.
<1>3. ASSUME NEW s \in Sessions, NEW w, UNCHANGED gate,
             decision' = [decision EXCEPT ![s] = w]
      PROVE  Promise!Next
  <2>1. permit' = [permit EXCEPT ![s] = (w = "approve")]
    BY <1>0, <1>3 DEF DataOK
  <2> QED
    BY <1>3, <2>1 DEF Promise!Next, Promise!Permit
<1>4. ASSUME NEW g \in Gates, Clear(g) PROVE Promise!Next
  <2>1. UNCHANGED gate
    BY <1>0, <1>4 DEF Clear, Goto, GateOf, DataOK
  <2> QED
    BY <1>3, <1>4, <2>1 DEF Clear
<1>5. ASSUME NEW a \in Answers, WriteDecision(a) PROVE Promise!Next
  <2>1. UNCHANGED gate /\ whom[a] \in Sessions
    BY <1>0, <1>5 DEF WriteDecision, Step, GateOf, DataOK
  <2> QED
    BY <1>3, <1>5, <2>1 DEF WriteDecision
\* Every other step is invisible.
<1>6. ASSUME UNCHANGED <<verdict, decision>>,
             \A g \in Gates : at'[g] = "idle" <=> at[g] = "idle"
      PROVE  UNCHANGED Promise!vars
    BY <1>6 DEF Promise!vars, GateOf
<1>7. ASSUME NEW g \in Gates,
             \/ Wake(g) \/ Lapse(g) \/ Leave(g)
             \/ RespondToHook(g) \/ TakeReason(g) \/ RespondToPlugin(g)
      PROVE  UNCHANGED Promise!vars
  <2>1. UNCHANGED <<verdict, decision>>
    BY <1>7 DEF Wake, Lapse, Await, Leave, LeaveTo, RespondToHook,
                TakeReason, RespondToPlugin, Tell
  <2>2. \A h \in Gates : at'[h] = "idle" <=> at[h] = "idle"
    BY <1>0, <1>7 DEF Wake, Lapse, Await, Leave, LeaveTo, RespondToHook,
                      TakeReason, RespondToPlugin, Tell, Goto, DataOK
  <2> QED
    BY <1>6, <2>1, <2>2
<1>8. ASSUME NEW a \in Answers,
             FindGate(a) \/ WriteReason(a) \/ WriteAnswered(a) \/ Ring(a)
      PROVE  UNCHANGED Promise!vars
    BY <1>6, <1>8 DEF FindGate, WriteReason, WriteAnswered, Ring, Step
<1>9. CASE UNCHANGED vars
    BY <1>6, <1>9 DEF vars, gateVars
<1> QED
    BY <1>1, <1>2, <1>4, <1>5, <1>7, <1>8, <1>9 DEF Next, GateStep, AnswerStep

\* For any number of overlapping gates and answers, one approval authorises one
\* tool at most, of the session it was given for.
THEOREM GateImplementsPermits == Spec => ImplementsPermits
<1>1. ASSUME Init PROVE Promise!Init
  <2>1. [g \in Gates |-> GateOf(g)] = [g \in Gates |-> "closed"]
    BY <1>1 DEF Init, GateOf
  <2>2. \A s \in Sessions : (decision[s] = "approve") = FALSE
    BY <1>1 DEF Init
  <2>3. [s \in Sessions |-> decision[s] = "approve"] = [s \in Sessions |-> FALSE]
    BY Zenon, <2>2
  <2> QED
    BY Zenon, <2>1, <2>3 DEF Promise!Init
<1> QED
    BY <1>1, PromiseStep, Invariance, PTL
    DEF Spec, ImplementsPermits, Promise!Spec

=============================================================================
