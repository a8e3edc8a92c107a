--------------------------- MODULE ToolHookProofs ---------------------------
(***************************************************************************)
(* Proofs about ToolHook, for every floor, every answer of Jev and every   *)
(* choice of the timeouts: who may let a call pass, who may refuse it, and *)
(* that the clocks are stacked in the right order.                         *)
(***************************************************************************)
EXTENDS ToolHook, TLAPS

Early == {"idle", "scoped", "mesh", "resolved", "extract", "command", "floored"}

\* The control server has a reply only from the operator or from its clock.
ServerInv ==
    /\ phase \in Early \cup {"asking", "rated", "gate", "raised"} => server = "idle"
    /\ phase = "posted" => server # "idle"
    /\ phase = "proceeds" => server \in {"idle", "replied"}
    /\ server # "replied" => said = "none" /\ marked = 0
    /\ server = "replied" =>
           reply = IF said # "none" THEN said
                   ELSE IF marked = 1 THEN "deny" ELSE "timeout"

\* No clock runs on beyond its limit.
ClockInv ==
    /\ phase \in Early => clock = 0
    /\ phase \in {"asking", "rated", "gate"} => clock <= TriageTimeout
    /\ phase = "posted" =>
           /\ posted <= TriageTimeout
           /\ clock <= posted + GateTimeout
           /\ server = "notified" => clock <= posted + Lag
           /\ server = "waits" => /\ opened <= posted + Lag
                                  /\ clock <= opened + ApprovalTimeout
           /\ server = "replied" => clock <= posted + Lag + ApprovalTimeout

\* If the plugin is patient enough, a call that was put to the operator and met
\* no failure is blocked by a reply only.
HeardInv ==
    GateTimeout > ApprovalTimeout + Lag =>
        (phase = "blocks" /\ server # "idle" /\ failed = 0 =>
             server = "replied" /\ notice = reply)

\* What the hook knows of the call at each place.
FoundInv ==
    /\ phase \in Early => found = "nothing"
    /\ phase \in Early \cup {"asking", "rated", "gate", "posted"} => notice = "none"
    /\ phase \in {"extract", "command", "floored"} => tool # "execute_code"
    /\ phase \in {"asking", "rated"} => mode # "off"
    /\ phase \in {"asking", "rated", "gate", "posted"} =>
           found = IF tool = "execute_code" THEN "opaque" ELSE "dangerous"
    /\ phase = "rated" =>
           /\ answer \in JevAnswers
           /\ benign = Held(BenignAnswer(answer), TakenForBenign(answer))
           /\ condemned = Held(CondemningAnswer(answer), TakenForCondemning(answer))

HookInv ==
    /\ HookTypeOK
    /\ ServerInv
    /\ ClockInv
    /\ HeardInv
    /\ HookInTime
    /\ FoundInv
    /\ RunsByConsent
    /\ RefusalIsMeant

-----------------------------------------------------------------------------
(* The thresholds                                                          *)

LEMMA HookLimits ==
    /\ TriageTimeout \in Nat /\ Lag \in Nat /\ ApprovalTimeout \in Nat
    /\ GateTimeout \in Nat /\ HookTimeout \in Nat
    /\ Absent \notin Int /\ NotANumber \notin Int /\ Yes \notin Int /\ No \notin Int
    /\ Absent \notin {NotANumber, Yes, No}
    /\ Yes \notin {NotANumber, No} /\ NotANumber # No
    BY HookAssumption

\* min() and max() keep within the scale, and reach what the number reaches.
LEMMA ClampIs ==
    ASSUME NEW n \in Int
    PROVE  /\ Clamp(n) \in Percent
           /\ \A m \in 1..100 : Clamp(n) >= m <=> n >= m
           /\ \A m \in Int : n >= m => Clamp(n) >= Clamp(m)
    BY DEF Clamp, Lesser, Greater, Percent

LEMMA ConfidenceType ==
    ASSUME NEW x PROVE ToConf(x) \in Percent
    BY ClampIs DEF ToConf, Percent

LEMMA RiskType ==
    ASSUME NEW r \in Risks PROVE Noul(r) \in Percent
    BY ClampIs DEF Noul, Percent

LEMMA RiskBelow ==
    ASSUME NEW r \in Risks, Noul(r) < 20
    PROVE  r \in {No, NotANumber} \/ (r \in Int /\ r < 20)
    <1>1. CASE r \in Int
        <2>1. Noul(r) = Clamp(r) /\ Clamp(r) \in Percent
            BY <1>1, ClampIs DEF Noul
        <2>2. Clamp(r) >= 20 <=> r >= 20
            BY <1>1, ClampIs
        <2> QED
            BY <1>1, <2>1, <2>2 DEF Percent
    <1>2. CASE r \in {Absent, Yes}
        <2>1. Noul(r) = 100
            BY <1>2, HookLimits DEF Noul
        <2> QED
            BY <2>1
    <1> QED
        BY <1>1, <1>2, HookAssumption

LEMMA RiskAbove ==
    ASSUME NEW r \in Risks, Noul(r) > 80
    PROVE  r \in {Yes, Absent} \/ (r \in Int /\ r > 80)
    <1>1. CASE r \in Int
        <2>1. Noul(r) = Clamp(r) /\ Clamp(r) \in Percent
            BY <1>1, ClampIs DEF Noul
        <2>2. Clamp(r) >= 81 <=> r >= 81
            BY <1>1, ClampIs
        <2> QED
            BY <1>1, <2>1, <2>2 DEF Percent
    <1>2. CASE r \in {NotANumber, No}
        <2>1. Noul(r) = 0
            BY <1>2, HookLimits DEF Noul
        <2> QED
            BY <2>1
    <1> QED
        BY <1>1, <1>2, HookAssumption

\* A confidence that reaches a floor was stated, and by both axes.
LEMMA SureIsStated ==
    ASSUME NEW a \in JevAnswers, NEW n \in Percent, Confidence(a) >= n
    PROVE  TakenForSure(a, n)
    <1>1. /\ ToConf(a.handlingConf) \in Percent /\ ToConf(a.stakesConf) \in Percent
          /\ ToConf(a.handlingConf) >= n /\ ToConf(a.stakesConf) >= n
        BY ConfidenceType DEF Confidence, Lesser, Percent
    <1>2. ASSUME NEW x, ToConf(x) >= n, n > 0
          PROVE  x = Yes \/ (x \in Int /\ x >= n)
        <2>1. n \in 1..100
            BY <1>2 DEF Percent
        <2>2. CASE x \in Int
            <3>1. ToConf(x) = Clamp(x)
                BY <2>2 DEF ToConf
            <3>2. Clamp(x) >= n <=> x >= n
                BY <2>1, <2>2, ClampIs
            <3> QED
                BY <1>2, <2>2, <3>1, <3>2
        <2>3. CASE x \notin Int /\ x # Yes
            <3>1. ToConf(x) = 0
                BY <2>3 DEF ToConf
            <3> QED
                BY <1>2, <2>1, <3>1
        <2> QED
            BY <2>2, <2>3
    <1> QED
        BY <1>1, <1>2 DEF TakenForSure

LEMMA AllowIsBenign ==
    ASSUME HookTypeOK, NEW a \in JevAnswers, Verdict(a) = "allow"
    PROVE  TakenForBenign(a) /\ tool # "execute_code"
    <1>1. /\ floor \in Percent /\ a.risk \in Risks
          /\ Confidence(a) \in Percent
        BY ConfidenceType DEF HookTypeOK, JevAnswers, Confidence, Lesser
    <1>2. /\ a.handling = "allow" /\ ClassifyStakes(a.stakes) = "routine"
          /\ tool # "execute_code" /\ Noul(a.risk) < 20 /\ Confidence(a) >= floor
        BY <1>1 DEF Verdict, Greater, Percent
    <1>3. a.stakes = "routine"
        BY <1>2 DEF ClassifyStakes, Buckets
    <1>4. a.risk \in {No, NotANumber} \/ (a.risk \in Int /\ a.risk < 20)
        BY <1>1, <1>2, RiskBelow
    <1> QED
        BY <1>1, <1>2, <1>3, <1>4, SureIsStated DEF TakenForBenign

LEMMA DenyIsCondemning ==
    ASSUME HookTypeOK, NEW a \in JevAnswers, Verdict(a) = "deny"
    PROVE  TakenForCondemning(a)
    <1>1. /\ floor \in Percent /\ a.risk \in Risks
          /\ Confidence(a) \in Percent
          /\ Greater(floor, 90) \in Percent
        BY ConfidenceType DEF HookTypeOK, JevAnswers, Confidence, Lesser, Greater, Percent
    <1>2. \/ a.handling = "deny" /\ Confidence(a) >= floor
          \/ /\ ClassifyStakes(a.stakes) = "destructive" /\ Noul(a.risk) > 80
             /\ Confidence(a) >= Greater(floor, 90)
        BY <1>1 DEF Verdict
    <1>3. CASE a.handling = "deny" /\ Confidence(a) >= floor
        BY <1>1, <1>3, SureIsStated DEF TakenForCondemning
    <1>4. CASE /\ ClassifyStakes(a.stakes) = "destructive" /\ Noul(a.risk) > 80
               /\ Confidence(a) >= Greater(floor, 90)
        <2>1. a.stakes \in {"destructive", "unnamed"}
            BY <1>4 DEF ClassifyStakes, Buckets, JevAnswers
        <2>2. a.risk \in {Yes, Absent} \/ (a.risk \in Int /\ a.risk > 80)
            BY <1>1, <1>4, RiskAbove
        <2> QED
            BY <1>1, <1>4, <2>1, <2>2, SureIsStated DEF TakenForCondemning
    <1> QED
        BY <1>2, <1>3, <1>4

\* What verdict() comes to.
LEMMA VerdictIs ==
    ASSUME HookTypeOK, NEW a \in JevAnswers
    PROVE  /\ Verdict(a) \in {"allow", "escalate", "deny"}
           /\ Verdict(a) = "allow" <=>
                  /\ a.handling = "allow" /\ ClassifyStakes(a.stakes) = "routine"
                  /\ Noul(a.risk) < 20 /\ Confidence(a) >= floor
                  /\ tool # "execute_code"
           /\ Verdict(a) = "deny" <=>
                  \/ a.handling = "deny" /\ Confidence(a) >= floor
                  \/ /\ a.handling \notin {"nothing", "deny"}
                     /\ ClassifyStakes(a.stakes) = "destructive"
                     /\ Noul(a.risk) > 80 /\ Confidence(a) >= Greater(floor, 90)
    <1>1. floor \in Percent /\ Confidence(a) \in Percent /\ a.risk \in Risks
        BY ConfidenceType DEF HookTypeOK, JevAnswers, Confidence, Lesser
    <1>2. Greater(floor, 0) = floor
        BY <1>1 DEF Greater, Percent
    <1>3. Noul(a.risk) \in Percent
        BY <1>1, RiskType
    <1>4. ClassifyStakes(a.stakes) = "routine" => ClassifyStakes(a.stakes) # "destructive"
        OBVIOUS
    <1>5. CASE a.handling = "nothing"
        <2>1. Verdict(a) = "escalate"
            BY <1>5 DEF Verdict
        <2> QED
            BY <1>5, <2>1
    <1>6. CASE a.handling = "deny"
        <2>1. Verdict(a) = IF Confidence(a) >= floor THEN "deny" ELSE "escalate"
            BY <1>6 DEF Verdict
        <2> QED
            BY <1>6, <2>1
    <1>7. CASE /\ a.handling \notin {"nothing", "deny"}
               /\ ClassifyStakes(a.stakes) = "destructive" /\ Noul(a.risk) > 80
        <2>1. Verdict(a) = IF Confidence(a) >= Greater(floor, 90)
                           THEN "deny" ELSE "escalate"
            BY <1>7 DEF Verdict
        <2> QED
            BY <1>4, <1>7, <2>1
    <1>8. CASE /\ a.handling \notin {"nothing", "deny"}
               /\ ~(ClassifyStakes(a.stakes) = "destructive" /\ Noul(a.risk) > 80)
        <2> DEFINE needed == IF ClassifyStakes(a.stakes) = "destructive" THEN 90 ELSE 0
        <2>1. Verdict(a) = IF /\ a.handling = "allow"
                              /\ Confidence(a) >= Greater(floor, needed)
                              /\ Noul(a.risk) < 20
                              /\ ClassifyStakes(a.stakes) = "routine"
                              /\ tool # "execute_code"
                           THEN "allow" ELSE "escalate"
            BY <1>8 DEF Verdict
        <2>2. ClassifyStakes(a.stakes) = "routine" => Greater(floor, needed) = floor
            BY <1>2, <1>4
        <2> QED
            BY <1>8, <2>1, <2>2
    <1> QED
        BY <1>5, <1>6, <1>7, <1>8

\* A graver answer has the same confidence and risks at least as much.
LEMMA GraverIs ==
    ASSUME NEW b \in JevAnswers, b.handling # "number", NEW a \in GraverAnswers(b)
    PROVE  /\ a \in JevAnswers /\ Confidence(a) = Confidence(b)
           /\ Noul(a.risk) \in Percent /\ Noul(b.risk) \in Percent
           /\ Noul(a.risk) >= Noul(b.risk)
           /\ ClassifyStakes(a.stakes) = "routine" => ClassifyStakes(b.stakes) = "routine"
           /\ ClassifyStakes(b.stakes) = "destructive" =>
                  ClassifyStakes(a.stakes) = "destructive"
           /\ a.handling = b.handling \/ GraverChoice(a.handling, b.handling)
    <1>1. /\ a \in JevAnswers
          /\ a.handling = b.handling \/ GraverChoice(a.handling, b.handling)
          /\ a.stakes = b.stakes \/ GraverStakes(a.stakes, b.stakes)
          /\ a.risk = b.risk \/ GraverRisk(a.risk, b.risk)
          /\ a.handlingConf = b.handlingConf /\ a.stakesConf = b.stakesConf
        <2>1. CASE \E c \in Choices : /\ GraverChoice(c, b.handling)
                                      /\ a = [b EXCEPT !.handling = c]
            BY <2>1 DEF JevAnswers
        <2>2. CASE \E c \in Buckets \cup {"unnamed"} : /\ GraverStakes(c, b.stakes)
                                                       /\ a = [b EXCEPT !.stakes = c]
            BY <2>2 DEF JevAnswers
        <2>3. CASE \E r \in Risks : /\ GraverRisk(r, b.risk)
                                    /\ a = [b EXCEPT !.risk = r]
            BY <2>3 DEF JevAnswers
        <2> QED
            BY <2>1, <2>2, <2>3 DEF GraverAnswers
    <1>2. a.risk \in Risks /\ b.risk \in Risks
        BY <1>1 DEF JevAnswers
    <1>3. Noul(a.risk) \in Percent /\ Noul(b.risk) \in Percent
        BY <1>2, RiskType
    <1>4. Noul(a.risk) >= Noul(b.risk)
        <2>1. CASE a.risk = b.risk
            BY <1>3, <2>1 DEF Percent
        <2>2. CASE a.risk \in {Absent, Yes}
            <3>1. Noul(a.risk) = 100
                BY <2>2, HookLimits DEF Noul
            <3> QED
                BY <1>3, <3>1 DEF Percent
        <2>3. CASE b.risk = No
            <3>1. Noul(b.risk) = 0
                BY <2>3, HookLimits DEF Noul
            <3> QED
                BY <1>3, <3>1 DEF Percent
        <2>4. CASE a.risk \in Int /\ b.risk \in Int /\ a.risk >= b.risk
            <3>1. Noul(a.risk) = Clamp(a.risk) /\ Noul(b.risk) = Clamp(b.risk)
                BY <2>4 DEF Noul
            <3> QED
                BY <2>4, <3>1, ClampIs
        <2> QED
            BY <1>1, <2>1, <2>2, <2>3, <2>4 DEF GraverRisk
    <1>5. Confidence(a) = Confidence(b)
        BY <1>1 DEF Confidence
    <1>6. /\ ClassifyStakes(a.stakes) = "routine" => ClassifyStakes(b.stakes) = "routine"
          /\ ClassifyStakes(b.stakes) = "destructive" =>
                 ClassifyStakes(a.stakes) = "destructive"
        BY <1>1 DEF GraverStakes, ClassifyStakes, Buckets, JevAnswers
    <1> QED
        BY <1>1, <1>3, <1>4, <1>5, <1>6

LEMMA GraverIsNoMilder ==
    ASSUME HookTypeOK, NEW b \in JevAnswers, b.handling # "number",
           NEW a \in GraverAnswers(b)
    PROVE  Severity(Verdict(a)) >= Severity(Verdict(b))
    <1>1. a \in JevAnswers /\ floor \in Percent /\ Confidence(b) \in Percent
        BY GraverIs, ConfidenceType DEF HookTypeOK, Confidence, Lesser
    <1>2. ASSUME Verdict(a) = "allow"
          PROVE  Verdict(b) = "allow"
        BY <1>1, <1>2, VerdictIs, GraverIs DEF GraverChoice, Percent
    <1>3. ASSUME Verdict(b) = "deny"
          PROVE  Verdict(a) = "deny"
        BY <1>1, <1>3, VerdictIs, GraverIs DEF GraverChoice, Greater, Percent
    <1>4. /\ Verdict(a) \in {"allow", "escalate", "deny"}
          /\ Verdict(b) \in {"allow", "escalate", "deny"}
        BY <1>1, VerdictIs
    <1> QED
        BY <1>2, <1>3, <1>4 DEF Severity

LEMMA LesserIsMonotone ==
    ASSUME NEW w \in Percent, NEW x \in Percent, NEW y \in Percent, NEW z \in Percent,
           w <= y, x <= z
    PROVE  /\ Lesser(w, x) \in Percent /\ Lesser(y, z) \in Percent
           /\ Lesser(w, x) <= Lesser(y, z)
    BY DEF Lesser, Percent

LEMMA LessSureEscalates ==
    ASSUME HookTypeOK, NEW b \in JevAnswers, NEW a \in LessSureAnswers(b)
    PROVE  Verdict(a) \in {Verdict(b), "escalate"}
    <1>1. /\ ToConf(a.handlingConf) \in Percent /\ ToConf(b.handlingConf) \in Percent
          /\ ToConf(a.stakesConf) \in Percent /\ ToConf(b.stakesConf) \in Percent
        BY ConfidenceType
    <1>2. /\ a \in JevAnswers /\ a.handling = b.handling
          /\ a.stakes = b.stakes /\ a.risk = b.risk
          /\ a.handlingConf = b.handlingConf
                \/ ToConf(a.handlingConf) <= ToConf(b.handlingConf)
          /\ a.stakesConf = b.stakesConf \/ ToConf(a.stakesConf) <= ToConf(b.stakesConf)
        <2>1. CASE \E c \in Confidences : /\ ToConf(c) <= ToConf(b.handlingConf)
                                          /\ a = [b EXCEPT !.handlingConf = c]
            BY <2>1 DEF JevAnswers
        <2>2. CASE \E c \in Confidences : /\ ToConf(c) <= ToConf(b.stakesConf)
                                          /\ a = [b EXCEPT !.stakesConf = c]
            BY <2>2 DEF JevAnswers
        <2> QED
            BY <2>1, <2>2 DEF LessSureAnswers
    <1>3. /\ ToConf(a.handlingConf) <= ToConf(b.handlingConf)
          /\ ToConf(a.stakesConf) <= ToConf(b.stakesConf)
        BY <1>1, <1>2 DEF Percent
    <1>4. /\ Confidence(a) \in Percent /\ Confidence(b) \in Percent
          /\ Confidence(a) <= Confidence(b)
        BY <1>1, <1>3, LesserIsMonotone DEF Confidence
    <1>5. floor \in Percent /\ Greater(floor, 90) \in Percent
        BY DEF HookTypeOK, Greater, Percent
    <1>6. Verdict(a) = "allow" => Verdict(b) = "allow"
        BY <1>2, <1>4, <1>5, VerdictIs DEF Percent
    <1>7. Verdict(a) = "deny" => Verdict(b) = "deny"
        BY <1>2, <1>4, <1>5, VerdictIs DEF Percent
    <1> QED
        BY <1>2, <1>6, <1>7, VerdictIs

-----------------------------------------------------------------------------
(* Every action keeps the invariant                                        *)

LEMMA CallKeeps == HookInv /\ Call => HookInv'
    <1>1. HookInv /\ Call => HookTypeOK'
        BY HookLimits DEF HookInv, HookTypeOK, Working, Call, Decide, Move, Tools,
            GatedTools, confVars, callVars, gateVars, rateVars
    <1>2. HookInv /\ Call => ServerInv'
        BY DEF HookInv, ServerInv, Early, HookTypeOK, Call, Decide, Move, Tools,
            GatedTools, confVars, callVars, gateVars, rateVars
    <1>3. HookInv /\ Call => ClockInv'
        BY HookLimits DEF HookInv, ClockInv, Early, HookTypeOK, Call, Decide, Move,
            Tools, GatedTools, confVars, callVars, gateVars, rateVars
    <1>4. HookInv /\ Call => HeardInv'
        BY HookLimits DEF HookInv, HeardInv, Early, HookTypeOK, ServerInv, ClockInv,
            Call, Decide, Move, Tools, GatedTools, confVars, callVars, gateVars,
            rateVars
    <1>5. HookInv /\ Call => HookInTime'
        BY HookLimits DEF HookInv, HookInTime, ClockInv, Early, HookTypeOK, Call,
            Decide, Move, Tools, GatedTools, confVars, callVars, gateVars, rateVars
    <1>6. HookInv /\ Call => FoundInv'
        BY DEF HookInv, FoundInv, Early, HookTypeOK, Call, Decide, Move, Tools,
            GatedTools, confVars, callVars, gateVars, rateVars
    <1>7. HookInv /\ Call => RunsByConsent'
        BY DEF HookInv, RunsByConsent, FoundInv, ServerInv, Early, HookTypeOK, Call,
            Decide, Move, Tools, GatedTools, confVars, callVars, gateVars, rateVars
    <1>8. HookInv /\ Call => RefusalIsMeant'
        BY DEF HookInv, RefusalIsMeant, FoundInv, ServerInv, Early, HookTypeOK,
            Call, Decide, Move, Tools, GatedTools, confVars, callVars, gateVars,
            rateVars
    <1> QED
        BY <1>1, <1>2, <1>3, <1>4, <1>5, <1>6, <1>7, <1>8 DEF HookInv

LEMMA IsMeshSessionKeeps == HookInv /\ IsMeshSession => HookInv'
    <1>1. HookInv /\ IsMeshSession => HookTypeOK'
        BY HookLimits DEF HookInv, HookTypeOK, Working, IsMeshSession, Look, Decide,
            Move, confVars, callVars, gateVars, rateVars
    <1>2. HookInv /\ IsMeshSession => ServerInv'
        BY DEF HookInv, ServerInv, Early, HookTypeOK, IsMeshSession, Look, Decide,
            Move, confVars, callVars, gateVars, rateVars
    <1>3. HookInv /\ IsMeshSession => ClockInv'
        BY HookLimits DEF HookInv, ClockInv, Early, HookTypeOK, IsMeshSession, Look,
            Decide, Move, confVars, callVars, gateVars, rateVars
    <1>4. HookInv /\ IsMeshSession => HeardInv'
        BY HookLimits DEF HookInv, HeardInv, Early, HookTypeOK, ServerInv, ClockInv,
            IsMeshSession, Look, Decide, Move, confVars, callVars, gateVars,
            rateVars
    <1>5. HookInv /\ IsMeshSession => HookInTime'
        BY HookLimits DEF HookInv, HookInTime, ClockInv, Early, HookTypeOK,
            IsMeshSession, Look, Decide, Move, confVars, callVars, gateVars,
            rateVars
    <1>6. HookInv /\ IsMeshSession => FoundInv'
        BY DEF HookInv, FoundInv, Early, HookTypeOK, IsMeshSession, Look, Decide,
            Move, confVars, callVars, gateVars, rateVars
    <1>7. HookInv /\ IsMeshSession => RunsByConsent'
        BY DEF HookInv, RunsByConsent, FoundInv, ServerInv, Early, HookTypeOK,
            IsMeshSession, Look, Decide, Move, confVars, callVars, gateVars,
            rateVars
    <1>8. HookInv /\ IsMeshSession => RefusalIsMeant'
        BY DEF HookInv, RefusalIsMeant, FoundInv, ServerInv, Early, HookTypeOK,
            IsMeshSession, Look, Decide, Move, confVars, callVars, gateVars,
            rateVars
    <1> QED
        BY <1>1, <1>2, <1>3, <1>4, <1>5, <1>6, <1>7, <1>8 DEF HookInv

LEMMA ResolveAgainKeeps == HookInv /\ ResolveAgain => HookInv'
    <1>1. HookInv /\ ResolveAgain => HookTypeOK'
        BY HookLimits DEF HookInv, HookTypeOK, Working, ResolveAgain, Look, Decide,
            Move, confVars, callVars, gateVars, rateVars
    <1>2. HookInv /\ ResolveAgain => ServerInv'
        BY DEF HookInv, ServerInv, Early, HookTypeOK, ResolveAgain, Look, Decide,
            Move, confVars, callVars, gateVars, rateVars
    <1>3. HookInv /\ ResolveAgain => ClockInv'
        BY HookLimits DEF HookInv, ClockInv, Early, HookTypeOK, ResolveAgain, Look,
            Decide, Move, confVars, callVars, gateVars, rateVars
    <1>4. HookInv /\ ResolveAgain => HeardInv'
        BY HookLimits DEF HookInv, HeardInv, Early, HookTypeOK, ServerInv, ClockInv,
            ResolveAgain, Look, Decide, Move, confVars, callVars, gateVars, rateVars
    <1>5. HookInv /\ ResolveAgain => HookInTime'
        BY HookLimits DEF HookInv, HookInTime, ClockInv, Early, HookTypeOK,
            ResolveAgain, Look, Decide, Move, confVars, callVars, gateVars, rateVars
    <1>6. HookInv /\ ResolveAgain => FoundInv'
        BY DEF HookInv, FoundInv, Early, HookTypeOK, ResolveAgain, Look, Decide,
            Move, confVars, callVars, gateVars, rateVars
    <1>7. HookInv /\ ResolveAgain => RunsByConsent'
        BY DEF HookInv, RunsByConsent, FoundInv, ServerInv, Early, HookTypeOK,
            ResolveAgain, Look, Decide, Move, confVars, callVars, gateVars, rateVars
    <1>8. HookInv /\ ResolveAgain => RefusalIsMeant'
        BY DEF HookInv, RefusalIsMeant, FoundInv, ServerInv, Early, HookTypeOK,
            ResolveAgain, Look, Decide, Move, confVars, callVars, gateVars, rateVars
    <1> QED
        BY <1>1, <1>2, <1>3, <1>4, <1>5, <1>6, <1>7, <1>8 DEF HookInv

LEMMA CheckYoloKeeps == HookInv /\ CheckYolo => HookInv'
    <1>1. HookInv /\ CheckYolo => HookTypeOK'
        BY HookLimits DEF HookInv, HookTypeOK, Working, CheckYolo, Gate, Decide,
            Move, Tools, confVars, callVars, gateVars, rateVars
    <1>2. HookInv /\ CheckYolo => ServerInv'
        BY DEF HookInv, ServerInv, Early, HookTypeOK, CheckYolo, Gate, Decide, Move,
            Tools, confVars, callVars, gateVars, rateVars
    <1>3. HookInv /\ CheckYolo => ClockInv'
        BY HookLimits DEF HookInv, ClockInv, Early, HookTypeOK, CheckYolo, Gate,
            Decide, Move, Tools, confVars, callVars, gateVars, rateVars
    <1>4. HookInv /\ CheckYolo => HeardInv'
        BY HookLimits DEF HookInv, HeardInv, Early, HookTypeOK, ServerInv, ClockInv,
            CheckYolo, Gate, Decide, Move, Tools, confVars, callVars, gateVars,
            rateVars
    <1>5. HookInv /\ CheckYolo => HookInTime'
        BY HookLimits DEF HookInv, HookInTime, ClockInv, Early, HookTypeOK,
            CheckYolo, Gate, Decide, Move, Tools, confVars, callVars, gateVars,
            rateVars
    <1>6. HookInv /\ CheckYolo => FoundInv'
        BY DEF HookInv, FoundInv, Early, HookTypeOK, CheckYolo, Gate, Decide, Move,
            Tools, confVars, callVars, gateVars, rateVars
    <1>7. HookInv /\ CheckYolo => RunsByConsent'
        BY DEF HookInv, RunsByConsent, FoundInv, ServerInv, Early, HookTypeOK,
            CheckYolo, Gate, Decide, Move, Tools, confVars, callVars, gateVars,
            rateVars
    <1>8. HookInv /\ CheckYolo => RefusalIsMeant'
        BY DEF HookInv, RefusalIsMeant, FoundInv, ServerInv, Early, HookTypeOK,
            CheckYolo, Gate, Decide, Move, Tools, confVars, callVars, gateVars,
            rateVars
    <1> QED
        BY <1>1, <1>2, <1>3, <1>4, <1>5, <1>6, <1>7, <1>8 DEF HookInv

LEMMA ExtractKeeps == HookInv /\ Extract => HookInv'
    <1>1. HookInv /\ Extract => HookTypeOK'
        BY HookLimits DEF HookInv, HookTypeOK, Working, Extract, Decide, Move,
            confVars, callVars, gateVars, rateVars
    <1>2. HookInv /\ Extract => ServerInv'
        BY DEF HookInv, ServerInv, Early, HookTypeOK, Extract, Decide, Move,
            confVars, callVars, gateVars, rateVars
    <1>3. HookInv /\ Extract => ClockInv'
        BY HookLimits DEF HookInv, ClockInv, Early, HookTypeOK, Extract, Decide,
            Move, confVars, callVars, gateVars, rateVars
    <1>4. HookInv /\ Extract => HeardInv'
        BY HookLimits DEF HookInv, HeardInv, Early, HookTypeOK, ServerInv, ClockInv,
            Extract, Decide, Move, confVars, callVars, gateVars, rateVars
    <1>5. HookInv /\ Extract => HookInTime'
        BY HookLimits DEF HookInv, HookInTime, ClockInv, Early, HookTypeOK, Extract,
            Decide, Move, confVars, callVars, gateVars, rateVars
    <1>6. HookInv /\ Extract => FoundInv'
        BY DEF HookInv, FoundInv, Early, HookTypeOK, Extract, Decide, Move,
            confVars, callVars, gateVars, rateVars
    <1>7. HookInv /\ Extract => RunsByConsent'
        BY DEF HookInv, RunsByConsent, FoundInv, ServerInv, Early, HookTypeOK,
            Extract, Decide, Move, confVars, callVars, gateVars, rateVars
    <1>8. HookInv /\ Extract => RefusalIsMeant'
        BY DEF HookInv, RefusalIsMeant, FoundInv, ServerInv, Early, HookTypeOK,
            Extract, Decide, Move, confVars, callVars, gateVars, rateVars
    <1> QED
        BY <1>1, <1>2, <1>3, <1>4, <1>5, <1>6, <1>7, <1>8 DEF HookInv

LEMMA DetectHardlineKeeps == HookInv /\ DetectHardline => HookInv'
    <1>1. HookInv /\ DetectHardline => HookTypeOK'
        BY HookLimits DEF HookInv, HookTypeOK, Working, DetectHardline, Decide,
            Move, confVars, callVars, gateVars, rateVars
    <1>2. HookInv /\ DetectHardline => ServerInv'
        BY DEF HookInv, ServerInv, Early, HookTypeOK, DetectHardline, Decide, Move,
            confVars, callVars, gateVars, rateVars
    <1>3. HookInv /\ DetectHardline => ClockInv'
        BY HookLimits DEF HookInv, ClockInv, Early, HookTypeOK, DetectHardline,
            Decide, Move, confVars, callVars, gateVars, rateVars
    <1>4. HookInv /\ DetectHardline => HeardInv'
        BY HookLimits DEF HookInv, HeardInv, Early, HookTypeOK, ServerInv, ClockInv,
            DetectHardline, Decide, Move, confVars, callVars, gateVars, rateVars
    <1>5. HookInv /\ DetectHardline => HookInTime'
        BY HookLimits DEF HookInv, HookInTime, ClockInv, Early, HookTypeOK,
            DetectHardline, Decide, Move, confVars, callVars, gateVars, rateVars
    <1>6. HookInv /\ DetectHardline => FoundInv'
        BY DEF HookInv, FoundInv, Early, HookTypeOK, DetectHardline, Decide, Move,
            confVars, callVars, gateVars, rateVars
    <1>7. HookInv /\ DetectHardline => RunsByConsent'
        BY DEF HookInv, RunsByConsent, FoundInv, ServerInv, Early, HookTypeOK,
            DetectHardline, Decide, Move, confVars, callVars, gateVars, rateVars
    <1>8. HookInv /\ DetectHardline => RefusalIsMeant'
        BY DEF HookInv, RefusalIsMeant, FoundInv, ServerInv, Early, HookTypeOK,
            DetectHardline, Decide, Move, confVars, callVars, gateVars, rateVars
    <1> QED
        BY <1>1, <1>2, <1>3, <1>4, <1>5, <1>6, <1>7, <1>8 DEF HookInv

LEMMA DetectDangerousKeeps == HookInv /\ DetectDangerous => HookInv'
    <1>1. HookInv /\ DetectDangerous => HookTypeOK'
        BY HookLimits DEF HookInv, HookTypeOK, Working, DetectDangerous, Gate,
            Decide, Move, confVars, callVars, gateVars, rateVars
    <1>2. HookInv /\ DetectDangerous => ServerInv'
        BY DEF HookInv, ServerInv, Early, HookTypeOK, DetectDangerous, Gate, Decide,
            Move, confVars, callVars, gateVars, rateVars
    <1>3. HookInv /\ DetectDangerous => ClockInv'
        BY HookLimits DEF HookInv, ClockInv, Early, HookTypeOK, DetectDangerous,
            Gate, Decide, Move, confVars, callVars, gateVars, rateVars
    <1>4. HookInv /\ DetectDangerous => HeardInv'
        BY HookLimits DEF HookInv, HeardInv, Early, HookTypeOK, ServerInv, ClockInv,
            DetectDangerous, Gate, Decide, Move, confVars, callVars, gateVars,
            rateVars
    <1>5. HookInv /\ DetectDangerous => HookInTime'
        BY HookLimits DEF HookInv, HookInTime, ClockInv, Early, HookTypeOK,
            DetectDangerous, Gate, Decide, Move, confVars, callVars, gateVars,
            rateVars
    <1>6. HookInv /\ DetectDangerous => FoundInv'
        BY DEF HookInv, FoundInv, Early, HookTypeOK, DetectDangerous, Gate, Decide,
            Move, confVars, callVars, gateVars, rateVars
    <1>7. HookInv /\ DetectDangerous => RunsByConsent'
        BY DEF HookInv, RunsByConsent, FoundInv, ServerInv, Early, HookTypeOK,
            DetectDangerous, Gate, Decide, Move, confVars, callVars, gateVars,
            rateVars
    <1>8. HookInv /\ DetectDangerous => RefusalIsMeant'
        BY DEF HookInv, RefusalIsMeant, FoundInv, ServerInv, Early, HookTypeOK,
            DetectDangerous, Gate, Decide, Move, confVars, callVars, gateVars,
            rateVars
    <1> QED
        BY <1>1, <1>2, <1>3, <1>4, <1>5, <1>6, <1>7, <1>8 DEF HookInv

LEMMA JevAnswersHookKeeps == HookInv /\ JevAnswersHook => HookInv'
    <1>1. HookInv /\ JevAnswersHook => HookTypeOK'
        BY HookLimits DEF HookInv, Held, HookTypeOK, Working, JevAnswersHook, Move,
            confVars, callVars, gateVars, rateVars
    <1>2. HookInv /\ JevAnswersHook => ServerInv'
        BY DEF HookInv, ServerInv, Early, HookTypeOK, JevAnswersHook, Move,
            confVars, callVars, gateVars, rateVars
    <1>3. HookInv /\ JevAnswersHook => ClockInv'
        BY HookLimits DEF HookInv, ClockInv, Early, HookTypeOK, JevAnswersHook,
            Move, confVars, callVars, gateVars, rateVars
    <1>4. HookInv /\ JevAnswersHook => HeardInv'
        BY HookLimits DEF HookInv, HeardInv, Early, HookTypeOK, ServerInv, ClockInv,
            JevAnswersHook, Move, confVars, callVars, gateVars, rateVars
    <1>5. HookInv /\ JevAnswersHook => HookInTime'
        BY HookLimits DEF HookInv, HookInTime, ClockInv, Early, HookTypeOK,
            JevAnswersHook, Move, confVars, callVars, gateVars, rateVars
    <1>6. HookInv /\ JevAnswersHook => FoundInv'
        BY DEF HookInv, FoundInv, Early, HookTypeOK, JevAnswersHook, Move, confVars,
            callVars, gateVars, rateVars, BenignAnswer, CondemningAnswer,
            TakenForBenign, TakenForCondemning, SureBy, TakenForSure, Greater
    <1>7. HookInv /\ JevAnswersHook => RunsByConsent'
        BY DEF HookInv, RunsByConsent, FoundInv, ServerInv, Early, HookTypeOK,
            JevAnswersHook, Move, confVars, callVars, gateVars, rateVars
    <1>8. HookInv /\ JevAnswersHook => RefusalIsMeant'
        BY DEF HookInv, RefusalIsMeant, FoundInv, ServerInv, Early, HookTypeOK,
            JevAnswersHook, Move, confVars, callVars, gateVars, rateVars
    <1> QED
        BY <1>1, <1>2, <1>3, <1>4, <1>5, <1>6, <1>7, <1>8 DEF HookInv

LEMMA JevFailsKeeps == HookInv /\ JevFails => HookInv'
    <1>1. HookInv /\ JevFails => HookTypeOK'
        BY HookLimits DEF HookInv, HookTypeOK, Working, JevFails, Decide, Move,
            confVars, callVars, gateVars, rateVars
    <1>2. HookInv /\ JevFails => ServerInv'
        BY DEF HookInv, ServerInv, Early, HookTypeOK, JevFails, Decide, Move,
            confVars, callVars, gateVars, rateVars
    <1>3. HookInv /\ JevFails => ClockInv'
        BY HookLimits DEF HookInv, ClockInv, Early, HookTypeOK, JevFails, Decide,
            Move, confVars, callVars, gateVars, rateVars
    <1>4. HookInv /\ JevFails => HeardInv'
        BY HookLimits DEF HookInv, HeardInv, Early, HookTypeOK, ServerInv, ClockInv,
            JevFails, Decide, Move, confVars, callVars, gateVars, rateVars
    <1>5. HookInv /\ JevFails => HookInTime'
        BY HookLimits DEF HookInv, HookInTime, ClockInv, Early, HookTypeOK,
            JevFails, Decide, Move, confVars, callVars, gateVars, rateVars
    <1>6. HookInv /\ JevFails => FoundInv'
        BY DEF HookInv, FoundInv, Early, HookTypeOK, JevFails, Decide, Move,
            confVars, callVars, gateVars, rateVars
    <1>7. HookInv /\ JevFails => RunsByConsent'
        BY DEF HookInv, RunsByConsent, FoundInv, ServerInv, Early, HookTypeOK,
            JevFails, Decide, Move, confVars, callVars, gateVars, rateVars
    <1>8. HookInv /\ JevFails => RefusalIsMeant'
        BY DEF HookInv, RefusalIsMeant, FoundInv, ServerInv, Early, HookTypeOK,
            JevFails, Decide, Move, confVars, callVars, gateVars, rateVars
    <1> QED
        BY <1>1, <1>2, <1>3, <1>4, <1>5, <1>6, <1>7, <1>8 DEF HookInv

LEMMA RateKeeps == HookInv /\ Rate => HookInv'
    <1>1. HookInv /\ Rate => HookTypeOK'
        BY HookLimits DEF HookInv, HookTypeOK, Working, Rate, Move, Routed,
            confVars, callVars, gateVars, rateVars
    <1>2. HookInv /\ Rate => ServerInv'
        BY DEF HookInv, ServerInv, Early, HookTypeOK, Rate, Move, Routed, confVars,
            callVars, gateVars, rateVars
    <1>3. HookInv /\ Rate => ClockInv'
        BY HookLimits DEF HookInv, ClockInv, Early, HookTypeOK, Rate, Move, Routed,
            confVars, callVars, gateVars, rateVars
    <1>4. HookInv /\ Rate => HeardInv'
        BY HookLimits DEF HookInv, HeardInv, Early, HookTypeOK, ServerInv, ClockInv,
            Rate, Move, Routed, confVars, callVars, gateVars, rateVars
    <1>5. HookInv /\ Rate => HookInTime'
        BY HookLimits DEF HookInv, HookInTime, ClockInv, Early, HookTypeOK, Rate,
            Move, Routed, confVars, callVars, gateVars, rateVars
    <1>6. HookInv /\ Rate => FoundInv'
        BY DEF HookInv, FoundInv, Early, HookTypeOK, Rate, Move, Routed, confVars,
            callVars, gateVars, rateVars
    <1>7. HookInv /\ Rate => RunsByConsent'
        BY AllowIsBenign, DenyIsCondemning DEF HookInv, Held, RunsByConsent,
            FoundInv, ServerInv, Early, HookTypeOK, Rate, Move, Routed, confVars,
            callVars, gateVars, rateVars
    <1>8. HookInv /\ Rate => RefusalIsMeant'
        BY AllowIsBenign, DenyIsCondemning DEF HookInv, Held, RefusalIsMeant,
            FoundInv, ServerInv, Early, HookTypeOK, Rate, Move, Routed, confVars,
            callVars, gateVars, rateVars
    <1> QED
        BY <1>1, <1>2, <1>3, <1>4, <1>5, <1>6, <1>7, <1>8 DEF HookInv

LEMMA RateRaisesKeeps == HookInv /\ RateRaises => HookInv'
    <1>1. HookInv /\ RateRaises => HookTypeOK'
        BY HookLimits DEF HookInv, HookTypeOK, Working, RateRaises, Move, confVars,
            callVars, gateVars, rateVars
    <1>2. HookInv /\ RateRaises => ServerInv'
        BY DEF HookInv, ServerInv, Early, HookTypeOK, RateRaises, Move, confVars,
            callVars, gateVars, rateVars
    <1>3. HookInv /\ RateRaises => ClockInv'
        BY HookLimits DEF HookInv, ClockInv, Early, HookTypeOK, RateRaises, Move,
            confVars, callVars, gateVars, rateVars
    <1>4. HookInv /\ RateRaises => HeardInv'
        BY HookLimits DEF HookInv, HeardInv, Early, HookTypeOK, ServerInv, ClockInv,
            RateRaises, Move, confVars, callVars, gateVars, rateVars
    <1>5. HookInv /\ RateRaises => HookInTime'
        BY HookLimits DEF HookInv, HookInTime, ClockInv, Early, HookTypeOK,
            RateRaises, Move, confVars, callVars, gateVars, rateVars
    <1>6. HookInv /\ RateRaises => FoundInv'
        BY DEF HookInv, FoundInv, Early, HookTypeOK, RateRaises, Move, confVars,
            callVars, gateVars, rateVars
    <1>7. HookInv /\ RateRaises => RunsByConsent'
        BY DEF HookInv, RunsByConsent, FoundInv, ServerInv, Early, HookTypeOK,
            RateRaises, Move, confVars, callVars, gateVars, rateVars
    <1>8. HookInv /\ RateRaises => RefusalIsMeant'
        BY DEF HookInv, RefusalIsMeant, FoundInv, ServerInv, Early, HookTypeOK,
            RateRaises, Move, confVars, callVars, gateVars, rateVars
    <1> QED
        BY <1>1, <1>2, <1>3, <1>4, <1>5, <1>6, <1>7, <1>8 DEF HookInv

LEMMA PostKeeps == HookInv /\ Post => HookInv'
    <1>1. HookInv /\ Post => HookTypeOK'
        BY HookLimits DEF HookInv, HookTypeOK, Working, Post, Move, confVars,
            callVars, gateVars, rateVars
    <1>2. HookInv /\ Post => ServerInv'
        BY DEF HookInv, ServerInv, Early, HookTypeOK, Post, Move, confVars,
            callVars, gateVars, rateVars
    <1>3. HookInv /\ Post => ClockInv'
        BY HookLimits DEF HookInv, ClockInv, Early, HookTypeOK, Post, Move,
            confVars, callVars, gateVars, rateVars
    <1>4. HookInv /\ Post => HeardInv'
        BY HookLimits DEF HookInv, HeardInv, Early, HookTypeOK, ServerInv, ClockInv,
            Post, Move, confVars, callVars, gateVars, rateVars
    <1>5. HookInv /\ Post => HookInTime'
        BY HookLimits DEF HookInv, HookInTime, ClockInv, Early, HookTypeOK, Post,
            Move, confVars, callVars, gateVars, rateVars
    <1>6. HookInv /\ Post => FoundInv'
        BY DEF HookInv, FoundInv, Early, HookTypeOK, Post, Move, confVars, callVars,
            gateVars, rateVars
    <1>7. HookInv /\ Post => RunsByConsent'
        BY DEF HookInv, RunsByConsent, FoundInv, ServerInv, Early, HookTypeOK, Post,
            Move, confVars, callVars, gateVars, rateVars
    <1>8. HookInv /\ Post => RefusalIsMeant'
        BY DEF HookInv, RefusalIsMeant, FoundInv, ServerInv, Early, HookTypeOK,
            Post, Move, confVars, callVars, gateVars, rateVars
    <1> QED
        BY <1>1, <1>2, <1>3, <1>4, <1>5, <1>6, <1>7, <1>8 DEF HookInv

LEMMA GateFailsKeeps == HookInv /\ GateFails => HookInv'
    <1>1. HookInv /\ GateFails => HookTypeOK'
        BY HookLimits DEF HookInv, HookTypeOK, Working, GateFails, Blocked, Move,
            confVars, callVars, gateVars, rateVars
    <1>2. HookInv /\ GateFails => ServerInv'
        BY DEF HookInv, ServerInv, Early, HookTypeOK, GateFails, Blocked, Move,
            confVars, callVars, gateVars, rateVars
    <1>3. HookInv /\ GateFails => ClockInv'
        BY HookLimits DEF HookInv, ClockInv, Early, HookTypeOK, GateFails, Blocked,
            Move, confVars, callVars, gateVars, rateVars
    <1>4. HookInv /\ GateFails => HeardInv'
        BY HookLimits DEF HookInv, HeardInv, Early, HookTypeOK, ServerInv, ClockInv,
            GateFails, Blocked, Move, confVars, callVars, gateVars, rateVars
    <1>5. HookInv /\ GateFails => HookInTime'
        BY HookLimits DEF HookInv, HookInTime, ClockInv, Early, HookTypeOK,
            GateFails, Blocked, Move, confVars, callVars, gateVars, rateVars
    <1>6. HookInv /\ GateFails => FoundInv'
        BY DEF HookInv, FoundInv, Early, HookTypeOK, GateFails, Blocked, Move,
            confVars, callVars, gateVars, rateVars
    <1>7. HookInv /\ GateFails => RunsByConsent'
        BY DEF HookInv, RunsByConsent, FoundInv, ServerInv, Early, HookTypeOK,
            GateFails, Blocked, Move, confVars, callVars, gateVars, rateVars
    <1>8. HookInv /\ GateFails => RefusalIsMeant'
        BY DEF HookInv, RefusalIsMeant, FoundInv, ServerInv, Early, HookTypeOK,
            GateFails, Blocked, Move, confVars, callVars, gateVars, rateVars
    <1> QED
        BY <1>1, <1>2, <1>3, <1>4, <1>5, <1>6, <1>7, <1>8 DEF HookInv

LEMMA GateExpiresKeeps == HookInv /\ GateExpires => HookInv'
    <1>1. HookInv /\ GateExpires => HookTypeOK'
        BY HookLimits DEF HookInv, HookTypeOK, Working, GateExpires, PatienceEnds,
            Blocked, Move, confVars, callVars, gateVars, rateVars
    <1>2. HookInv /\ GateExpires => ServerInv'
        BY DEF HookInv, ServerInv, Early, HookTypeOK, GateExpires, PatienceEnds,
            Blocked, Move, confVars, callVars, gateVars, rateVars
    <1>3. HookInv /\ GateExpires => ClockInv'
        BY HookLimits DEF HookInv, ClockInv, Early, HookTypeOK, GateExpires,
            PatienceEnds, Blocked, Move, confVars, callVars, gateVars, rateVars
    <1>4. HookInv /\ GateExpires => HeardInv'
        BY HookLimits DEF HookInv, HeardInv, Early, HookTypeOK, ServerInv, ClockInv,
            GateExpires, PatienceEnds, Blocked, Move, confVars, callVars, gateVars,
            rateVars
    <1>5. HookInv /\ GateExpires => HookInTime'
        BY HookLimits DEF HookInv, HookInTime, ClockInv, Early, HookTypeOK,
            GateExpires, PatienceEnds, Blocked, Move, confVars, callVars, gateVars,
            rateVars
    <1>6. HookInv /\ GateExpires => FoundInv'
        BY DEF HookInv, FoundInv, Early, HookTypeOK, GateExpires, PatienceEnds,
            Blocked, Move, confVars, callVars, gateVars, rateVars
    <1>7. HookInv /\ GateExpires => RunsByConsent'
        BY DEF HookInv, RunsByConsent, FoundInv, ServerInv, Early, HookTypeOK,
            GateExpires, PatienceEnds, Blocked, Move, confVars, callVars, gateVars,
            rateVars
    <1>8. HookInv /\ GateExpires => RefusalIsMeant'
        BY DEF HookInv, RefusalIsMeant, FoundInv, ServerInv, Early, HookTypeOK,
            GateExpires, PatienceEnds, Blocked, Move, confVars, callVars, gateVars,
            rateVars
    <1> QED
        BY <1>1, <1>2, <1>3, <1>4, <1>5, <1>6, <1>7, <1>8 DEF HookInv

LEMMA ReceiveKeeps == HookInv /\ Receive => HookInv'
    <1>1. HookInv /\ Receive => HookTypeOK'
        BY HookLimits DEF HookInv, HookTypeOK, Working, Receive, Consents, Decide,
            Move, confVars, callVars, gateVars, rateVars
    <1>2. HookInv /\ Receive => ServerInv'
        BY DEF HookInv, ServerInv, Early, HookTypeOK, Receive, Consents, Decide,
            Move, confVars, callVars, gateVars, rateVars
    <1>3. HookInv /\ Receive => ClockInv'
        BY HookLimits DEF HookInv, ClockInv, Early, HookTypeOK, Receive, Consents,
            Decide, Move, confVars, callVars, gateVars, rateVars
    <1>4. HookInv /\ Receive => HeardInv'
        BY HookLimits DEF HookInv, HeardInv, Early, HookTypeOK, ServerInv, ClockInv,
            Receive, Consents, Decide, Move, confVars, callVars, gateVars, rateVars
    <1>5. HookInv /\ Receive => HookInTime'
        BY HookLimits DEF HookInv, HookInTime, ClockInv, Early, HookTypeOK, Receive,
            Consents, Decide, Move, confVars, callVars, gateVars, rateVars
    <1>6. HookInv /\ Receive => FoundInv'
        BY DEF HookInv, FoundInv, Early, HookTypeOK, Receive, Consents, Decide,
            Move, confVars, callVars, gateVars, rateVars
    <1>7. HookInv /\ Receive => RunsByConsent'
        BY DEF HookInv, RunsByConsent, FoundInv, ServerInv, Early, HookTypeOK,
            Receive, Consents, Decide, Move, confVars, callVars, gateVars, rateVars
    <1>8. HookInv /\ Receive => RefusalIsMeant'
        BY DEF HookInv, RefusalIsMeant, FoundInv, ServerInv, Early, HookTypeOK,
            Receive, Consents, Decide, Move, confVars, callVars, gateVars, rateVars
    <1> QED
        BY <1>1, <1>2, <1>3, <1>4, <1>5, <1>6, <1>7, <1>8 DEF HookInv

LEMMA OpenGateKeeps == HookInv /\ OpenGate => HookInv'
    <1>1. HookInv /\ OpenGate => HookTypeOK'
        BY HookLimits DEF HookInv, HookTypeOK, Working, OpenGate, confVars,
            callVars, gateVars, rateVars
    <1>2. HookInv /\ OpenGate => ServerInv'
        BY DEF HookInv, ServerInv, Early, HookTypeOK, OpenGate, confVars, callVars,
            gateVars, rateVars
    <1>3. HookInv /\ OpenGate => ClockInv'
        BY HookLimits DEF HookInv, ClockInv, Early, HookTypeOK, OpenGate, confVars,
            callVars, gateVars, rateVars
    <1>4. HookInv /\ OpenGate => HeardInv'
        BY HookLimits DEF HookInv, HeardInv, Early, HookTypeOK, ServerInv, ClockInv,
            OpenGate, confVars, callVars, gateVars, rateVars
    <1>5. HookInv /\ OpenGate => HookInTime'
        BY HookLimits DEF HookInv, HookInTime, ClockInv, Early, HookTypeOK,
            OpenGate, confVars, callVars, gateVars, rateVars
    <1>6. HookInv /\ OpenGate => FoundInv'
        BY DEF HookInv, FoundInv, Early, HookTypeOK, OpenGate, confVars, callVars,
            gateVars, rateVars, ServerInv
    <1>7. HookInv /\ OpenGate => RunsByConsent'
        BY DEF HookInv, RunsByConsent, FoundInv, ServerInv, Early, HookTypeOK,
            OpenGate, confVars, callVars, gateVars, rateVars
    <1>8. HookInv /\ OpenGate => RefusalIsMeant'
        BY DEF HookInv, RefusalIsMeant, FoundInv, ServerInv, Early, HookTypeOK,
            OpenGate, confVars, callVars, gateVars, rateVars
    <1> QED
        BY <1>1, <1>2, <1>3, <1>4, <1>5, <1>6, <1>7, <1>8 DEF HookInv

LEMMA LapseKeeps == HookInv /\ Lapse => HookInv'
    <1>1. HookInv /\ Lapse => HookTypeOK'
        BY HookLimits DEF HookInv, HookTypeOK, Working, Lapse, Lapsed, Respond,
            confVars, callVars, gateVars, rateVars
    <1>2. HookInv /\ Lapse => ServerInv'
        BY DEF HookInv, ServerInv, Early, HookTypeOK, Lapse, Lapsed, Respond,
            confVars, callVars, gateVars, rateVars
    <1>3. HookInv /\ Lapse => ClockInv'
        BY HookLimits DEF HookInv, ClockInv, Early, HookTypeOK, Lapse, Lapsed,
            Respond, confVars, callVars, gateVars, rateVars
    <1>4. HookInv /\ Lapse => HeardInv'
        BY HookLimits DEF HookInv, HeardInv, Early, HookTypeOK, ServerInv, ClockInv,
            Lapse, Lapsed, Respond, confVars, callVars, gateVars, rateVars
    <1>5. HookInv /\ Lapse => HookInTime'
        BY HookLimits DEF HookInv, HookInTime, ClockInv, Early, HookTypeOK, Lapse,
            Lapsed, Respond, confVars, callVars, gateVars, rateVars
    <1>6. HookInv /\ Lapse => FoundInv'
        BY DEF HookInv, FoundInv, Early, HookTypeOK, Lapse, Lapsed, Respond,
            confVars, callVars, gateVars, rateVars, ServerInv
    <1>7. HookInv /\ Lapse => RunsByConsent'
        BY DEF HookInv, RunsByConsent, FoundInv, ServerInv, Early, HookTypeOK,
            Lapse, Lapsed, Respond, confVars, callVars, gateVars, rateVars
    <1>8. HookInv /\ Lapse => RefusalIsMeant'
        BY DEF HookInv, RefusalIsMeant, FoundInv, ServerInv, Early, HookTypeOK,
            Lapse, Lapsed, Respond, confVars, callVars, gateVars, rateVars
    <1> QED
        BY <1>1, <1>2, <1>3, <1>4, <1>5, <1>6, <1>7, <1>8 DEF HookInv

LEMMA SpeakKeeps == HookInv /\ (Operator("approve") \/ Operator("deny")) => HookInv'
    <1>1. HookInv /\ (Operator("approve") \/ Operator("deny")) => HookTypeOK'
        BY HookLimits DEF HookInv, HookTypeOK, Working, Operator, Respond, confVars,
            callVars, gateVars, rateVars
    <1>2. HookInv /\ (Operator("approve") \/ Operator("deny")) => ServerInv'
        BY DEF HookInv, ServerInv, Early, HookTypeOK, Operator, Respond, confVars,
            callVars, gateVars, rateVars
    <1>3. HookInv /\ (Operator("approve") \/ Operator("deny")) => ClockInv'
        BY HookLimits DEF HookInv, ClockInv, Early, HookTypeOK, Operator, Respond,
            confVars, callVars, gateVars, rateVars
    <1>4. HookInv /\ (Operator("approve") \/ Operator("deny")) => HeardInv'
        BY HookLimits DEF HookInv, HeardInv, Early, HookTypeOK, ServerInv, ClockInv,
            Operator, Respond, confVars, callVars, gateVars, rateVars
    <1>5. HookInv /\ (Operator("approve") \/ Operator("deny")) => HookInTime'
        BY HookLimits DEF HookInv, HookInTime, ClockInv, Early, HookTypeOK,
            Operator, Respond, confVars, callVars, gateVars, rateVars
    <1>6. HookInv /\ (Operator("approve") \/ Operator("deny")) => FoundInv'
        BY DEF HookInv, FoundInv, Early, HookTypeOK, Operator, Respond, confVars,
            callVars, gateVars, rateVars, ServerInv
    <1>7. HookInv /\ (Operator("approve") \/ Operator("deny")) => RunsByConsent'
        BY DEF HookInv, RunsByConsent, FoundInv, ServerInv, Early, HookTypeOK,
            Operator, Respond, confVars, callVars, gateVars, rateVars
    <1>8. HookInv /\ (Operator("approve") \/ Operator("deny")) => RefusalIsMeant'
        BY DEF HookInv, RefusalIsMeant, FoundInv, ServerInv, Early, HookTypeOK,
            Operator, Respond, confVars, callVars, gateVars, rateVars
    <1> QED
        BY <1>1, <1>2, <1>3, <1>4, <1>5, <1>6, <1>7, <1>8 DEF HookInv

LEMMA CutOffKeeps == HookInv /\ CutOff => HookInv'
    <1>1. HookInv /\ CutOff => HookTypeOK'
        BY HookLimits DEF HookInv, HookTypeOK, Working, CutOff, confVars, callVars,
            gateVars, rateVars
    <1>2. HookInv /\ CutOff => ServerInv'
        BY DEF HookInv, ServerInv, Early, HookTypeOK, CutOff, Working, confVars,
            callVars, gateVars, rateVars
    <1>3. HookInv /\ CutOff => ClockInv'
        BY HookLimits DEF HookInv, ClockInv, Early, HookTypeOK, CutOff, Working,
            confVars, callVars, gateVars, rateVars
    <1>4. HookInv /\ CutOff => HeardInv'
        BY HookLimits DEF HookInv, HeardInv, Early, HookTypeOK, ServerInv, ClockInv,
            CutOff, Working, confVars, callVars, gateVars, rateVars
    <1>5. HookInv /\ CutOff => HookInTime'
        BY HookLimits DEF HookInv, HookInTime, ClockInv, Early, HookTypeOK, CutOff,
            Working, confVars, callVars, gateVars, rateVars
    <1>6. HookInv /\ CutOff => FoundInv'
        BY DEF HookInv, FoundInv, Early, HookTypeOK, CutOff, Working, confVars,
            callVars, gateVars, rateVars
    <1>7. HookInv /\ CutOff => RunsByConsent'
        BY DEF HookInv, RunsByConsent, FoundInv, ServerInv, Early, HookTypeOK,
            CutOff, Working, confVars, callVars, gateVars, rateVars
    <1>8. HookInv /\ CutOff => RefusalIsMeant'
        BY DEF HookInv, RefusalIsMeant, FoundInv, ServerInv, Early, HookTypeOK,
            CutOff, Working, confVars, callVars, gateVars, rateVars
    <1> QED
        BY <1>1, <1>2, <1>3, <1>4, <1>5, <1>6, <1>7, <1>8 DEF HookInv

LEMMA ElapseKeeps == HookInv /\ Elapse => HookInv'
    <1>1. HookInv /\ Elapse => HookTypeOK'
        BY HookLimits DEF HookInv, HookTypeOK, Working, Elapse, confVars, callVars,
            gateVars, rateVars
    <1>2. HookInv /\ Elapse => ServerInv'
        BY DEF HookInv, ServerInv, Early, HookTypeOK, Elapse, confVars, callVars,
            gateVars, rateVars
    <1>3. HookInv /\ Elapse => ClockInv'
        BY HookLimits DEF HookInv, ClockInv, Early, HookTypeOK, Elapse, confVars,
            callVars, gateVars, rateVars
    <1>4. HookInv /\ Elapse => HeardInv'
        BY HookLimits DEF HookInv, HeardInv, Early, HookTypeOK, ServerInv, ClockInv,
            Elapse, confVars, callVars, gateVars, rateVars
    <1>5. HookInv /\ Elapse => HookInTime'
        BY HookLimits DEF HookInv, HookInTime, ClockInv, Early, HookTypeOK, Elapse,
            confVars, callVars, gateVars, rateVars
    <1>6. HookInv /\ Elapse => FoundInv'
        BY DEF HookInv, FoundInv, Early, HookTypeOK, Elapse, confVars, callVars,
            gateVars, rateVars
    <1>7. HookInv /\ Elapse => RunsByConsent'
        BY DEF HookInv, RunsByConsent, FoundInv, ServerInv, Early, HookTypeOK,
            Elapse, confVars, callVars, gateVars, rateVars
    <1>8. HookInv /\ Elapse => RefusalIsMeant'
        BY DEF HookInv, RefusalIsMeant, FoundInv, ServerInv, Early, HookTypeOK,
            Elapse, confVars, callVars, gateVars, rateVars
    <1> QED
        BY <1>1, <1>2, <1>3, <1>4, <1>5, <1>6, <1>7, <1>8 DEF HookInv

-----------------------------------------------------------------------------
(* The theorems                                                            *)

LEMMA InitHookInv == HookInit => HookInv
    <1> SUFFICES ASSUME HookInit PROVE HookInv
        OBVIOUS
    <1>1. mode \in {"off", "hint_only", "allow_benign"} /\ floor \in Percent
        BY DEF HookInit, ValidMode, ValidFloor, Percent
    <1>2. HookTypeOK
        BY <1>1, HookAssumption DEF HookInit, HookTypeOK, Working, Tools
    <1>3. ServerInv /\ ClockInv /\ HeardInv /\ FoundInv
        BY HookLimits DEF HookInit, ServerInv, ClockInv, HeardInv, FoundInv, Early
    <1> QED
        BY <1>2, <1>3 DEF HookInit, HookInv, HookInTime, RunsByConsent, RefusalIsMeant

LEMMA StutterKeeps == HookInv /\ UNCHANGED hookVars => HookInv'
    <1> SUFFICES ASSUME HookInv, UNCHANGED hookVars PROVE HookInv'
        OBVIOUS
    <1>1. UNCHANGED <<answer, floor>>
        BY DEF hookVars, confVars, rateVars
    <1>2. FoundInv'
        BY <1>1 DEF HookInv, FoundInv, BenignAnswer, CondemningAnswer, TakenForBenign,
            TakenForCondemning, SureBy, TakenForSure, Held, Early, hookVars, confVars,
            callVars, gateVars, rateVars
    <1>3. /\ HookTypeOK' /\ ServerInv' /\ ClockInv' /\ HeardInv' /\ HookInTime'
          /\ RunsByConsent' /\ RefusalIsMeant'
        BY DEF HookInv, HookTypeOK, ServerInv, ClockInv, HeardInv, HookInTime,
            RunsByConsent, RefusalIsMeant, hookVars, confVars, callVars, gateVars,
            rateVars
    <1> QED
        BY <1>2, <1>3 DEF HookInv

LEMMA NextHookInv == HookInv /\ [HookNext]_hookVars => HookInv'
    BY CallKeeps, IsMeshSessionKeeps, ResolveAgainKeeps, CheckYoloKeeps, ExtractKeeps,
       DetectHardlineKeeps, DetectDangerousKeeps, JevAnswersHookKeeps, JevFailsKeeps,
       RateKeeps, RateRaisesKeeps, PostKeeps, GateFailsKeeps, GateExpiresKeeps,
       ReceiveKeeps, OpenGateKeeps, LapseKeeps, SpeakKeeps, CutOffKeeps, ElapseKeeps,
       StutterKeeps DEF HookNext

\* The inductive invariant of a call of on_pre_tool_call() holds throughout.
THEOREM HookInvariance == HookSpec => []HookInv
    BY InitHookInv, NextHookInv, PTL DEF HookSpec

\* Every variable keeps its type: on_pre_tool_call() is always at one of its
\* places, and a notice is one that _block_message() knows.
THEOREM HookTypesHold == HookSpec => []HookTypeOK
    <1>1. HookInv => HookTypeOK
        BY DEF HookInv
    <1> QED
        BY <1>1, HookInvariance, PTL

\* Whatever fails and whatever Jev answers, a gated tool of a mesh session runs
\* only if its command was found safe, by the operator's word, by Jev's answer that
\* on_pre_tool_call() takes for a confident allow, in YOLO mode or with a title that
\* could not be read.
THEOREM RunsOnlyByConsent == HookSpec => []RunsByConsent
    <1>1. HookInv => RunsByConsent
        BY DEF HookInv
    <1> QED
        BY <1>1, HookInvariance, PTL

\* On the scale an answer that is taken for benign is benign beyond doubt.
LEMMA ScaledIsBenign ==
    ASSUME InScale, HookTypeOK, NEW a \in JevAnswers, TakenForBenign(a)
    PROVE  BenignAnswer(a)
    <1>1. /\ a.handlingConf \in Confidences /\ a.stakesConf \in Confidences
          /\ a.risk \in Risks /\ floor \in Percent
        BY DEF JevAnswers, HookTypeOK
    <1>2. ASSUME NEW c \in Confidences, NEW n \in Percent, n > 0,
                 c = Yes \/ (c \in Int /\ c >= n)
          PROVE  c \in n..100
        <2>1. c \in Percent \cup {Absent, NotANumber, No}
            BY DEF InScale
        <2>2. c # Yes
            BY <2>1, HookLimits DEF Percent
        <2>3. c \in Percent
            BY <1>2, <2>1, <2>2, HookLimits
        <2> QED
            BY <1>2, <2>2, <2>3 DEF Percent
    <1>3. SureBy(a, floor)
        BY <1>1, <1>2 DEF TakenForBenign, TakenForSure, SureBy
    <1>4. a.risk = No \/ a.risk \in 0..19
        <2>1. a.risk \in Percent \cup {Absent, Yes, No}
            BY <1>1 DEF InScale
        <2>2. a.risk # NotANumber
            BY <2>1, HookLimits DEF Percent
        <2>3. CASE a.risk \in Int /\ a.risk < 20
            BY <2>1, <2>3, HookLimits DEF Percent
        <2> QED
            BY <2>2, <2>3 DEF TakenForBenign
    <1> QED
        BY <1>3, <1>4 DEF TakenForBenign, BenignAnswer

\* While Jev keeps to its scale and state.db can be read, on_pre_tool_call() fails
\* closed without exception but YOLO mode: what Jev lets pass was stated benign, with
\* both confidences stated and above the floor.
THEOREM ScaledHookFailsClosed ==
    ASSUME InScale PROVE HookSpec => [](blind = 0 => FailsClosed)
    <1> DEFINE Beyond == benign # "odd"
    <1>1. HookInit => Beyond
        BY DEF HookInit
    <1>2. HookInv /\ Beyond /\ [HookNext]_hookVars => Beyond'
        <2> SUFFICES ASSUME HookInv, Beyond, [HookNext]_hookVars PROVE Beyond'
            OBVIOUS
        <2>1. CASE JevAnswersHook
            BY <2>1, ScaledIsBenign DEF JevAnswersHook, Held, HookInv
        <2>2. CASE ~JevAnswersHook
            <3>1. benign' = benign
                BY <2>2 DEF HookNext, Call, IsMeshSession, ResolveAgain, Look, CheckYolo,
                    Extract, DetectHardline, DetectDangerous, JevFails, Rate, RateRaises,
                    Post, GateFails, GateExpires, Receive, Blocked, OpenGate, Lapse,
                    Operator, Respond, CutOff, Elapse, Decide, hookVars, rateVars
            <3> QED
                BY <3>1
        <2> QED
            BY <2>1, <2>2
    <1>3. HookInv /\ Beyond => (blind = 0 => FailsClosed)
        BY DEF HookInv, HookTypeOK, RunsByConsent, FailsClosed
    <1> HIDE DEF Beyond
    <1> QED
        BY <1>1, <1>2, <1>3, HookInvariance, PTL DEF HookSpec

\* The model is told of a denial only if the operator denied, if verdict() took
\* Jev's answer for a confident deny, or if silence met the mark of another answer
\* (_block_message(), POST /gate/notify).
THEOREM RefusesOnlyIfMeant == HookSpec => []RefusalIsMeant
    <1>1. HookInv => RefusalIsMeant
        BY DEF HookInv
    <1> QED
        BY <1>1, HookInvariance, PTL

\* For all timeouts: the hook outlasts the plugin's wait if its limit exceeds the
\* gate's by a triage, and the plugin outlasts the control server's if its limit
\* exceeds the approval's by the lag (_gate_tool(), request_approval()).
THEOREM ClocksAreAligned == HookSpec => []ClocksAligned
    <1>1. HookInv => ClocksAligned
        BY DEF HookInv, HeardInv, ServerInv, ClocksAligned, OperatorHeard
    <1> QED
        BY <1>1, HookInvariance, PTL

\* For every floor and every answer: a graver answer never has a milder verdict,
\* and a less sure one at most goes to the operator (triage.verdict()).
THEOREM VerdictsAreMonotone == HookSpec => []VerdictMonotone
    <1>1. HookInv => VerdictMonotone
        BY GraverIsNoMilder, LessSureEscalates DEF HookInv, FoundInv, VerdictMonotone
    <1> QED
        BY <1>1, HookInvariance, PTL
=============================================================================
