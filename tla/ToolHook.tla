------------------------------ MODULE ToolHook ------------------------------
(***************************************************************************)
(* The mesh-tool-gate plugin: one call of its pre_tool_call hook, with the *)
(* triage by Jev (triage.py) and the question to the operator, which the   *)
(* control server passes on (/gate/notify).                                *)
(*                                                                         *)
(* Everything the hook consults may fail, and each failure has its own     *)
(* direction.  Three clocks are stacked: the control server's on the       *)
(* operator, the plugin's on the control server and Hermes' on the hook,   *)
(* in which the time of the triage is spent too.  Confidence and risk are  *)
(* in per cent, but what Jev states may be any number, true, false, NaN or *)
(* nothing.  Only the triage and the operator take time.                   *)
(***************************************************************************)
EXTENDS Integers

CONSTANTS
    Modes,              \* what MESH_GATE_TRIAGE may be configured as
    Floors,             \* what MESH_GATE_TRIAGE_CONF may be configured as
    Yolos,              \* may HERMES_YOLO_MODE be set?  A set of 0 and 1
    Confidences,        \* what Jev may state for one, in per cent
    Risks,              \* likewise
    Absent,             \* an answer that is missing or of another shape
    NotANumber,         \* NaN, which JSON lets through
    Yes, No,            \* true and false
    TriageTimeout,      \* _TRIAGE_TIMEOUT
    ApprovalTimeout,    \* HERMES_MESH_APPROVAL_TIMEOUT of the control server
    GateTimeout,        \* MESH_GATE_TIMEOUT of the plugin
    HookTimeout,        \* plugins.hook_callback_timeout of Hermes
    Lag                 \* the most the control server takes to open the gate

Percent == 0..100

ASSUME HookAssumption ==
    /\ \A v \in {Absent, NotANumber, Yes, No} : v \notin Int
    /\ Absent \notin {NotANumber, Yes, No}
    /\ Yes \notin {NotANumber, No} /\ NotANumber # No
    /\ Confidences \subseteq Int \cup {Absent, NotANumber, Yes, No}
    /\ Risks \subseteq Int \cup {Absent, NotANumber, Yes, No}
    /\ Yolos \subseteq {0, 1}
    /\ TriageTimeout \in Nat /\ Lag \in Nat
    /\ ApprovalTimeout \in Nat /\ GateTimeout \in Nat /\ HookTimeout \in Nat

VARIABLES
    mode,               \* TRIAGE_MODE
    floor,              \* TRIAGE_CONF_FLOOR
    yolo,               \* HERMES_YOLO_MODE
    phase,              \* where the hook is
    tool,               \* the tool it was called for
    title,              \* the session's title in state.db: ours or another
    blind,              \* history: a look at state.db failed
    found,              \* what Hermes' detectors said of the command
    answer,             \* Jev's, as it came
    notice,             \* what a blocked call is told to the model
    server,             \* where the control server is with the gate
    reply,              \* its reply to the plugin
    clock,              \* time since the hook was called
    posted,             \* when the plugin asked the control server
    opened,             \* when that began to wait for the operator
    said,               \* history: what the operator said
    marked,             \* history: silence found a mark of another answer
    benign,             \* history: did Jev hold the call benign?
    condemned,          \* history: did Jev hold that it must be blocked?
    failed              \* history: token, connection or control server failed

confVars == <<mode, floor, yolo>>
gateVars == <<server, reply, posted, opened, said, marked>>
rateVars == <<answer, benign, condemned>>
callVars == <<tool, title, blind>>
hookVars == <<confVars, callVars, phase, found, notice, clock, failed, gateVars,
              rateVars>>

Tools == {"terminal", "write_file", "patch", "execute_code", "read_file"}
GatedTools == Tools \ {"read_file"}

Choices == {"allow", "escalate", "deny", "nothing", "number"}
Buckets == {"routine", "sensitive", "destructive"}

JevAnswers ==
    [handling : Choices, handlingConf : Confidences,
     stakes : Buckets \cup {"unnamed"}, stakesConf : Confidences, risk : Risks]

NoAnswer == [handling |-> "nothing", handlingConf |-> 0,
             stakes |-> "unnamed", stakesConf |-> 0, risk |-> 0]

\* A mode that is misspelt is "off", a floor that is no number in [0, 1] 0.6.
ValidMode(m) == IF m \in {"off", "hint_only", "allow_benign"} THEN m ELSE "off"

ValidFloor(f) == IF f \in Percent THEN f ELSE 60

\* The bridge refuses to start with other timeouts (cli.py).
Accepted == GateTimeout > 0 /\ ApprovalTimeout > 0 /\ GateTimeout >= ApprovalTimeout

HookInit ==
    /\ Accepted
    /\ mode \in {ValidMode(m) : m \in Modes}
    /\ floor \in {ValidFloor(f) : f \in Floors}
    /\ yolo \in Yolos
    /\ phase = "idle"
    /\ tool = "read_file"
    /\ title = "other"
    /\ blind = 0
    /\ found = "nothing"
    /\ answer = NoAnswer
    /\ notice = "none"
    /\ server = "idle"
    /\ reply = "none"
    /\ clock = 0
    /\ posted = 0
    /\ opened = 0
    /\ said = "none"
    /\ marked = 0
    /\ benign = "no"
    /\ condemned = "no"
    /\ failed = 0

Move(from, to) == phase = from /\ phase' = to

Decide(from, to) ==
    Move(from, to) /\ UNCHANGED <<confVars, clock, failed, gateVars, rateVars>>

-----------------------------------------------------------------------------
(* on_pre_tool_call(): scope and detection                                 *)

Call ==
    /\ \E t \in Tools :
          /\ tool' = t
          /\ Decide("idle", IF t \in GatedTools THEN "scoped" ELSE "proceeds")
    /\ title' \in {"mesh", "other"}
    /\ UNCHANGED <<blind, found, notice>>

\* _resolve_mesh_session(), twice: a title that is not of the mesh, or of
\* another profile, or that cannot be read: the call is none of the hook's
\* business.
Look(from, to) ==
    /\ \/ Decide(from, IF title = "mesh" THEN to ELSE "proceeds") /\ UNCHANGED blind
       \/ Decide(from, "proceeds") /\ blind' = 1
    /\ UNCHANGED <<tool, title, found, notice>>

IsMeshSession == Look("scoped", "mesh")

ResolveAgain == Look("mesh", "resolved")

Gate == IF mode = "off" THEN "gate" ELSE "asking"

\* With HERMES_YOLO_MODE everything runs; execute_code is not looked into.
CheckYolo ==
    /\ Decide("resolved", IF yolo = 1 THEN "proceeds"
                          ELSE IF tool = "execute_code" THEN Gate ELSE "extract")
    /\ found' = IF tool = "execute_code" THEN "opaque" ELSE found
    /\ UNCHANGED <<callVars, notice>>

\* Arguments without a command or a path: nothing to ask about.
Extract ==
    /\ \/ Decide("extract", "command") /\ UNCHANGED found
       \/ Decide("extract", "proceeds") /\ found' = "empty"
    /\ UNCHANGED <<callVars, notice>>

\* A detector that raises has found nothing hardline, ...
DetectHardline ==
    /\ \/ Decide("command", "blocks") /\ found' = "hardline" /\ notice' = "hardline"
       \/ Decide("command", "floored") /\ UNCHANGED <<found, notice>>
    /\ UNCHANGED callVars

\* ...and one that raises has found the command dangerous.
DetectDangerous ==
    /\ \/ Decide("floored", "proceeds") /\ found' = "safe"
       \/ Decide("floored", Gate) /\ found' = "dangerous"
    /\ UNCHANGED <<callVars, notice>>

-----------------------------------------------------------------------------
(* The triage                                                              *)

Lesser(x, y) == IF x < y THEN x ELSE y
Greater(x, y) == IF x < y THEN y ELSE x

\* min(1.0, max(0.0, f)), which makes 0.0 of NaN.
Clamp(n) == Lesser(100, Greater(0, n))

\* _to_conf()
ToConf(c) == IF c \in Int THEN Clamp(c) ELSE IF c = Yes THEN 100 ELSE 0

RecklessNoul(r) == IF r \in Int THEN Clamp(r) ELSE IF r = Yes THEN 100 ELSE 0

\* _noul()
Noul(r) == IF r \in Int THEN Clamp(r) ELSE IF r \in {Absent, Yes} THEN 100 ELSE 0

\* _ask_jev() trusts the weakest of Jev's confidences.
Confidence(a) == Lesser(ToConf(a.handlingConf), ToConf(a.stakesConf))

ClassifyStakes(b) == IF b \in Buckets THEN b ELSE "destructive"

\* verdict(); allow_execute_code is off.
Verdict(a) ==
    LET risk == Noul(a.risk)
        stakes == ClassifyStakes(a.stakes)
        sure == Confidence(a) >= Greater(floor, IF stakes = "destructive" THEN 90 ELSE 0)
    IN  CASE a.handling = "nothing" -> "escalate"
          [] a.handling = "deny" ->
                 IF Confidence(a) >= floor THEN "deny" ELSE "escalate"
          [] /\ a.handling \notin {"nothing", "deny"}
             /\ stakes = "destructive" /\ risk > 80 ->
                 IF sure THEN "deny" ELSE "escalate"
          [] OTHER ->
                 IF /\ a.handling = "allow" /\ sure /\ risk < 20
                    /\ stakes = "routine" /\ tool # "execute_code"
                 THEN "allow" ELSE "escalate"

\* Both confidences are stated, as numbers of the scale, and reach n; or they
\* are true, or beyond the scale, and taken for it.
SureBy(a, n) ==
    n > 0 => \A c \in {a.handlingConf, a.stakesConf} : c \in n..100

TakenForSure(a, n) ==
    n > 0 => \A c \in {a.handlingConf, a.stakesConf} :
                 c = Yes \/ (c \in Int /\ c >= n)

\* Benign beyond doubt; or taken for it, with odd confidences or a risk that is
\* below the scale or NaN.
BenignAnswer(a) ==
    /\ a.handling = "allow"
    /\ SureBy(a, floor)
    /\ a.risk = No \/ a.risk \in 0..19
    /\ a.stakes = "routine"

TakenForBenign(a) ==
    /\ a.handling = "allow"
    /\ TakenForSure(a, floor)
    /\ a.risk \in {No, NotANumber} \/ (a.risk \in Int /\ a.risk < 20)
    /\ a.stakes = "routine"

\* To be blocked beyond doubt; or taken for it, with odd confidences, a risk that
\* is missing or beyond the scale, or stakes that are unnamed.
CondemningAnswer(a) ==
    \/ a.handling = "deny" /\ SureBy(a, floor)
    \/ /\ a.stakes = "destructive"
       /\ a.risk = Yes \/ a.risk \in 81..100
       /\ SureBy(a, Greater(floor, 90))

TakenForCondemning(a) ==
    \/ a.handling = "deny" /\ TakenForSure(a, floor)
    \/ /\ a.stakes \in {"destructive", "unnamed"}
       /\ a.risk \in {Yes, Absent} \/ (a.risk \in Int /\ a.risk > 80)
       /\ TakenForSure(a, Greater(floor, 90))

Held(doubtless, taken) == IF doubtless THEN "yes" ELSE IF taken THEN "odd" ELSE "no"

JevAnswersHook ==
    /\ Move("asking", "rated")
    /\ \E a \in JevAnswers :
          /\ answer' = a
          /\ benign' = Held(BenignAnswer(a), TakenForBenign(a))
          /\ condemned' = Held(CondemningAnswer(a), TakenForCondemning(a))
    /\ UNCHANGED <<confVars, callVars, found, notice, clock, failed, gateVars>>

\* No key, a time-out, a transport error, or a body that cannot be parsed.
JevFails ==
    /\ Decide("asking", "gate")
    /\ UNCHANGED <<callVars, found, notice>>

Applied(v) == v

\* A dry run rates the call and leaves it to the operator.
Routed(v) == IF mode = "hint_only" THEN "escalate" ELSE v

Rate ==
    /\ answer.handling # "number"
    /\ LET v == Routed(Verdict(answer))
       IN  /\ Move("rated", CASE v = "allow" -> "proceeds"
                              [] v = "deny" -> "blocks"
                              [] OTHER -> "gate")
           /\ notice' = IF v = "deny" THEN "deny" ELSE notice
    /\ answer' = NoAnswer
    /\ UNCHANGED <<confVars, callVars, found, clock, failed, gateVars, benign,
                   condemned>>

\* A choice that is no string has no strip(): the exception leaves the hook.
RateRaises ==
    /\ answer.handling = "number"
    /\ Move("rated", "raised")
    /\ answer' = NoAnswer
    /\ UNCHANGED <<confVars, callVars, found, notice, clock, failed, gateVars,
                   benign, condemned>>

-----------------------------------------------------------------------------
(* _gate_tool() and the control server                                     *)

Post ==
    /\ Move("gate", "posted")
    /\ server' = "notified"
    /\ posted' = clock
    /\ UNCHANGED <<confVars, callVars, found, notice, clock, failed, reply,
                   opened, said, marked, rateVars>>

Blocked(from, message) ==
    /\ Move(from, "blocks")
    /\ notice' = message
    /\ UNCHANGED <<confVars, callVars, found, clock, gateVars, rateVars>>

\* No token, no connection, an HTTP error, a control server that stops.
GateFails ==
    /\ \E from \in {"gate", "posted"} : Blocked(from, "gateError")
    /\ failed' = 1

ImpatientEnds == clock >= GateTimeout

\* urlopen(timeout=_GATE_TIMEOUT)
PatienceEnds == clock - posted >= GateTimeout

GateExpires ==
    /\ PatienceEnds
    /\ Blocked("posted", "gateError")
    /\ UNCHANGED failed

\* The relay and the thread of the request take up to Lag.
OpenGate ==
    /\ server = "notified"
    /\ server' = "waits"
    /\ opened' = clock
    /\ UNCHANGED <<confVars, callVars, phase, found, notice, clock, failed, reply,
                   posted, said, marked, rateVars>>

Respond(text) ==
    /\ server = "waits"
    /\ server' = "replied"
    /\ reply' = text
    /\ UNCHANGED <<confVars, callVars, phase, found, notice, clock, failed, posted,
                   opened, rateVars>>

Operator(word) == Respond(word) /\ said' = word /\ UNCHANGED marked

Lapsed == clock - opened >= ApprovalTimeout

\* Silence is told as such, unless it finds the mark of an answer to another gate
\* of the session, or of one that came too late (ApprovalGate has how).
Lapse ==
    /\ Lapsed
    /\ \E m \in {0, 1} :
          marked' = m /\ Respond(IF m = 1 THEN "deny" ELSE "timeout")
    /\ UNCHANGED said

ConsentsUnlessDenied(text) == text # "deny"

\* "approve" and nothing else lets the call proceed.
Consents(text) == text = "approve"

Receive ==
    /\ server = "replied"
    /\ Decide("posted", IF Consents(reply) THEN "proceeds" ELSE "blocks")
    /\ notice' = IF Consents(reply) THEN notice ELSE reply
    /\ UNCHANGED <<callVars, found>>

-----------------------------------------------------------------------------
(* Time, and Hermes around the hook                                        *)

Working == {"scoped", "mesh", "resolved", "extract", "command", "floored",
            "asking", "rated", "gate", "posted"}

\* pre_tool_call fails closed, and for a while every tool fails.
CutOff ==
    /\ phase \in Working
    /\ clock >= HookTimeout
    /\ phase' = "cut"
    /\ UNCHANGED <<confVars, callVars, found, notice, clock, failed, gateVars,
                   rateVars>>

Elapse ==
    /\ \/ phase = "asking" /\ clock < TriageTimeout
       \/ /\ phase = "posted"
          /\ clock - posted < GateTimeout
          /\ CASE server = "notified" -> clock - posted < Lag
               [] server = "waits" -> clock - opened < ApprovalTimeout
               [] OTHER -> FALSE
    /\ clock < HookTimeout
    /\ clock' = clock + 1
    /\ UNCHANGED <<confVars, callVars, phase, found, notice, failed, gateVars,
                   rateVars>>

HookNext ==
    \/ Call \/ IsMeshSession \/ ResolveAgain \/ CheckYolo \/ Extract
    \/ DetectHardline \/ DetectDangerous
    \/ JevAnswersHook \/ JevFails \/ Rate \/ RateRaises
    \/ Post \/ GateFails \/ GateExpires \/ Receive
    \/ OpenGate \/ Lapse \/ Operator("approve") \/ Operator("deny")
    \/ CutOff \/ Elapse

HookSpec == HookInit /\ [][HookNext]_hookVars
-----------------------------------------------------------------------------
(* Properties                                                              *)

HookTypeOK ==
    /\ mode \in {"off", "hint_only", "allow_benign"}
    /\ floor \in Percent
    /\ yolo \in {0, 1}
    /\ phase \in Working \cup {"idle", "proceeds", "blocks", "raised", "cut"}
    /\ tool \in Tools
    /\ title \in {"mesh", "other"}
    /\ found \in {"nothing", "opaque", "empty", "hardline", "dangerous", "safe"}
    /\ answer \in JevAnswers \cup {NoAnswer}
    /\ notice \in {"none", "hardline", "deny", "timeout", "gateError"}
    /\ server \in {"idle", "notified", "waits", "replied"}
    /\ reply \in {"none", "approve", "deny", "timeout"}
    /\ said \in {"none", "approve", "deny"}
    /\ clock \in Nat /\ posted \in Nat /\ opened \in Nat
    /\ benign \in {"no", "odd", "yes"} /\ condemned \in {"no", "odd", "yes"}
    /\ blind \in {0, 1} /\ marked \in {0, 1} /\ failed \in {0, 1}

\* A gated tool of a mesh session runs only if the detectors found nothing in its
\* command, or with the operator's approval, or if Jev, in the mode for it,
\* called it benign: neither silence, nor a failure of the detector, the triage
\* or the gate, nor a dry run gets it through, and execute_code gets through with
\* the operator alone.  What the code lets pass besides is named: YOLO mode, a
\* title that could not be read, and a Jev whose odd numbers are taken for
\* benign.
RunsByConsent ==
    phase = "proceeds" /\ title = "mesh" /\ tool \in GatedTools =>
        \/ found \in {"safe", "empty"}
        \/ said = "approve"
        \/ mode = "allow_benign" /\ found = "dangerous" /\ benign # "no"
        \/ yolo = 1
        \/ blind = 1

\* "Never auto-allow on doubt" (triage.py:88), and closed when a look-up fails:
\* the same without the last two exceptions.  The code breaks it both ways.
FailsClosed ==
    phase = "proceeds" /\ title = "mesh" /\ tool \in GatedTools =>
        \/ found \in {"safe", "empty"}
        \/ said = "approve"
        \/ mode = "allow_benign" /\ found = "dangerous" /\ benign = "yes"
        \/ yolo = 1

\* Jev keeps to its scale, or states nothing.
InScale ==
    /\ Confidences \subseteq Percent \cup {Absent, NotANumber, No}
    /\ Risks \subseteq Percent \cup {Absent, Yes, No}

\* The model is told that the call was denied only if the operator denied it, or
\* if Jev, in the mode for it, condemned it: not by a dry run, nor by a failure,
\* nor by an answer that is unsure.  What is told so besides is named: silence
\* that finds the mark of another answer, and a Jev whose odd numbers, or missing
\* risk or stakes, are taken for condemning.
RefusalIsMeant ==
    phase = "blocks" /\ notice = "deny" =>
        \/ said = "deny"
        \/ mode = "allow_benign" /\ condemned # "no"
        \/ marked = 1

\* "Never start blocking on a verdict Jev isn't sure of", such as "one deduced
\* from a malformed risk/stakes payload": the same without odd answers.  The code
\* breaks it.
RefusalIsSure ==
    phase = "blocks" /\ notice = "deny" =>
        \/ said = "deny"
        \/ mode = "allow_benign" /\ condemned = "yes"
        \/ marked = 1

\* What is as grave as another, or graver.  A missing risk counts as the highest,
\* an unnamed stake too; NaN, which the code takes for no risk, counts as no graver
\* than any number.
GraverChoice(c, d) ==
    <<c, d>> \in {<<"allow", "allow">>, <<"escalate", "allow">>,
                  <<"escalate", "escalate">>, <<"deny", "allow">>,
                  <<"deny", "escalate">>, <<"deny", "deny">>}

GraverStakes(c, d) ==
    c = d \/ d = "routine" \/ c \in {"destructive", "unnamed"}

GraverRisk(r, s) ==
    r \in {Absent, Yes} \/ s = No \/ (r \in Int /\ s \in Int /\ r >= s)

GraverAnswers(b) ==
    {[b EXCEPT !.handling = c] : c \in {x \in Choices : GraverChoice(x, b.handling)}}
        \cup {[b EXCEPT !.stakes = c] :
                 c \in {x \in Buckets \cup {"unnamed"} : GraverStakes(x, b.stakes)}}
        \cup {[b EXCEPT !.risk = r] : r \in {x \in Risks : GraverRisk(x, b.risk)}}

LessSureAnswers(b) ==
    {[b EXCEPT !.handlingConf = c] :
        c \in {x \in Confidences : ToConf(x) <= ToConf(b.handlingConf)}}
    \cup {[b EXCEPT !.stakesConf = c] :
            c \in {x \in Confidences : ToConf(x) <= ToConf(b.stakesConf)}}

Severity(v) == CASE v = "allow" -> 0 [] v = "escalate" -> 1 [] v = "deny" -> 2

\* The thresholds fit together: an answer that is graver in one respect, and so
\* one that is in several, never has a milder verdict, so that "an odd answer
\* never lowers asserted risk" (but for NaN), and an answer that is less sure only
\* ever moves the call to the operator.
VerdictMonotone ==
    phase = "rated" /\ answer.handling # "number" =>
        /\ \A a \in GraverAnswers(answer) :
               Severity(Verdict(a)) >= Severity(Verdict(answer))
        /\ \A a \in LessSureAnswers(answer) :
               Verdict(a) \in {Verdict(answer), "escalate"}

\* Hermes does not cut the hook off if its timeout exceeds the plugin's by the
\* time of a triage.
HookInTime == HookTimeout > GateTimeout + TriageTimeout => phase # "cut"

\* Without a failure every word of the operator is heard, and silence is told
\* as such unless it finds a mark, if the plugin waits for longer than the control
\* server and its lag.
OperatorHeard ==
    GateTimeout > ApprovalTimeout + Lag =>
        (phase = "blocks" /\ server # "idle" /\ failed = 0 =>
             notice = IF said # "none" THEN said
                      ELSE IF marked = 1 THEN "deny" ELSE "timeout")

\* "Three timeouts must stay aligned": what it takes for the three clocks, which
\* is more than what cli.py accepts.
ClocksAligned == HookInTime /\ OperatorHeard

\* What _block_message() says of its cases: "the operator never answered" is a
\* timeout, and a gate error is an infrastructure failure.
SilenceIsNoFailure ==
    phase = "blocks" /\ notice = "gateError" => failed = 1
=============================================================================
