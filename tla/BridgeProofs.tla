---------------------------- MODULE BridgeProofs ----------------------------
(***************************************************************************)
(* Proofs about the parts beside the turns.  For any messages, workers and *)
(* hold limit, a reply is held no longer than the limit; the three copies  *)
(* of the model pin agree, and the file brings back the pin of the last    *)
(* command; a wedged bridge is killed in time and no other is.  MCBridge   *)
(* then runs every part as its own specification does, so that what is     *)
(* proved of a part holds of the whole.                                    *)
(***************************************************************************)
EXTENDS MCBridge, AnnouncerProofs, ToolHookProofs, TLAPS

-----------------------------------------------------------------------------
(* The worker pool and the hold gate                                       *)

\* A reply waits longer only when a look has found it within its time, and
\* whoever has looked is still at the gate.
LookedInTime ==
    \A m \in looked : stage[m] = "held" /\ waited[m] < HoldLimit

PoolInv == PoolTypeOK /\ HoldIsBounded /\ LookedInTime

LEMMA InitPoolInv == PoolInit => PoolInv
    <1> SUFFICES ASSUME PoolInit PROVE PoolInv
        OBVIOUS
    <1>1. queue \in Seq(Messages) /\ 0 \in 0..MaxRestarts /\ 0 \in 0..HoldLimit + 1
        BY PoolAssumption DEF PoolInit
    <1>2. stage \in [Messages -> InHandler \cup Over \cup {"unsent", "queued"}]
        BY DEF PoolInit
    <1>3. waited \in [Messages -> 0..HoldLimit + 1] /\ HoldIsBounded
        BY <1>1, PoolAssumption DEF PoolInit, HoldIsBounded
    <1>4. stepMode \in BOOLEAN /\ hold \in BOOLEAN
        BY PoolAssumption DEF PoolInit
    <1> QED
        BY <1>1, <1>2, <1>3, <1>4 DEF PoolInit, PoolInv, PoolTypeOK, LookedInTime

\* A step of a handler moves one message and nobody's clock.
LEMMA StageKeeps ==
    ASSUME PoolInv, NEW m \in Messages,
           NEW to \in InHandler \cup Over \cup {"unsent", "queued"},
           stage' = [stage EXCEPT ![m] = to], stage[m] # "held",
           waited' = waited, looked' = looked
    PROVE  /\ stage' \in [Messages -> InHandler \cup Over \cup {"unsent", "queued"}]
           /\ waited' \in [Messages -> 0..HoldLimit + 1]
           /\ looked' \subseteq Messages
           /\ HoldIsBounded'
           /\ LookedInTime'
    BY DEF PoolInv, PoolTypeOK, HoldIsBounded, LookedInTime

LEMMA EnterKeeps == ASSUME PoolInv, NEW m \in Messages, Enter(m) PROVE PoolInv'
    BY StageKeeps DEF PoolInv, PoolTypeOK, Enter, Becomes, InHandler, Over

LEMMA TakeTurnKeeps ==
    ASSUME PoolInv, NEW m \in Messages, TakeTurn(m) PROVE PoolInv'
    BY StageKeeps DEF PoolInv, PoolTypeOK, TakeTurn, Becomes, InHandler, Over

LEMMA SpawnKeeps ==
    ASSUME PoolInv, NEW m \in Messages, Spawn(m) PROVE PoolInv'
    BY StageKeeps DEF PoolInv, PoolTypeOK, Spawn, Becomes, InHandler, Over

LEMMA ChildExitsKeeps ==
    ASSUME PoolInv, NEW m \in Messages, ChildExits(m) PROVE PoolInv'
    BY StageKeeps DEF PoolInv, PoolTypeOK, ChildExits, Becomes, InHandler, Over

LEMMA EndTurnKeeps ==
    ASSUME PoolInv, NEW m \in Messages, EndTurn(m) PROVE PoolInv'
    BY StageKeeps DEF PoolInv, PoolTypeOK, EndTurn, Becomes, InHandler, Over

LEMMA PassGateKeeps ==
    ASSUME PoolInv, NEW m \in Messages, PassGate(m) PROVE PoolInv'
    BY StageKeeps DEF PoolInv, PoolTypeOK, PassGate, Becomes, InHandler, Over

LEMMA MeetGateKeeps ==
    ASSUME PoolInv, NEW m \in Messages, MeetGate(m) PROVE PoolInv'
    BY StageKeeps DEF PoolInv, PoolTypeOK, MeetGate, Becomes, InHandler, Over

LEMMA CheckRunningKeeps ==
    ASSUME PoolInv, NEW m \in Messages, CheckRunning(m) PROVE PoolInv'
    BY StageKeeps DEF PoolInv, PoolTypeOK, CheckRunning, Becomes, InHandler, Over

LEMMA ArmKeeps == ASSUME PoolInv, NEW m \in Messages, Arm(m) PROVE PoolInv'
    BY StageKeeps DEF PoolInv, PoolTypeOK, Arm, Becomes, InHandler, Over

LEMMA CheckHeldKeeps ==
    ASSUME PoolInv, NEW m \in Messages, CheckHeld(m) PROVE PoolInv'
    BY StageKeeps DEF PoolInv, PoolTypeOK, CheckHeld, Becomes, InHandler, Over

LEMMA ClearKeeps == ASSUME PoolInv, NEW m \in Messages, Clear(m) PROVE PoolInv'
    BY StageKeeps DEF PoolInv, PoolTypeOK, Clear, Becomes, InHandler, Over

LEMMA LookAgainKeeps ==
    ASSUME PoolInv, NEW m \in Messages, LookAgain(m) PROVE PoolInv'
    BY DEF PoolInv, PoolTypeOK, HoldIsBounded, LookedInTime, LookAgain, StaysHeld

LEMMA SeeReleaseKeeps ==
    ASSUME PoolInv, NEW m \in Messages, SeeRelease(m) PROVE PoolInv'
    BY DEF PoolInv, PoolTypeOK, HoldIsBounded, LookedInTime, SeeRelease, Becomes,
           InHandler

LEMMA LeaveGateKeeps ==
    ASSUME PoolInv, NEW m \in Messages, LeaveGate(m) PROVE PoolInv'
    <1>1. stage[m] = "leaves" /\ stage' = [stage EXCEPT ![m] = "answered"]
        BY DEF LeaveGate, Becomes
    <1>2. waited' = [waited EXCEPT ![m] = 0] /\ 0 \in 0..HoldLimit + 1
        BY PoolAssumption DEF LeaveGate
    <1>3. stage' \in [Messages -> InHandler \cup Over \cup {"unsent", "queued"}]
        BY <1>1 DEF PoolInv, PoolTypeOK, Over
    <1>4. waited' \in [Messages -> 0..HoldLimit + 1] /\ HoldIsBounded'
        BY <1>2, PoolAssumption DEF PoolInv, PoolTypeOK, HoldIsBounded
    <1>5. LookedInTime'
        BY <1>1, <1>2 DEF PoolInv, PoolTypeOK, LookedInTime, LeaveGate
    <1> QED
        BY <1>3, <1>4, <1>5 DEF PoolInv, PoolTypeOK, LeaveGate

LEMMA ArriveKeeps ==
    ASSUME PoolInv, NEW m \in Messages, Arrive(m) PROVE PoolInv'
    <1>1. queue' \in Seq(Messages)
        BY DEF PoolInv, PoolTypeOK, Arrive
    <1> QED
        BY <1>1, StageKeeps DEF PoolInv, PoolTypeOK, Arrive, Becomes

LEMMA DropKeeps == ASSUME PoolInv, NEW m \in Messages, Drop(m) PROVE PoolInv'
    BY StageKeeps DEF PoolInv, PoolTypeOK, Drop, Becomes, Over

LEMMA TakeNextKeeps == ASSUME PoolInv, TakeNext PROVE PoolInv'
    <1>1. Head(queue) \in Messages /\ queue' \in Seq(Messages)
        BY DEF PoolInv, PoolTypeOK, TakeNext
    <1> QED
        BY <1>1, StageKeeps DEF PoolInv, PoolTypeOK, TakeNext, Becomes, InHandler

\* When a second is over every held reply has looked, and in time.
LEMMA SecondKeeps == ASSUME PoolInv, Second PROVE PoolInv'
    <1>1. \A m \in HeldOnes : waited[m] < HoldLimit
        BY DEF PoolInv, LookedInTime, Second
    <1>2. waited' \in [Messages -> 0..HoldLimit + 1] /\ HoldIsBounded'
        BY <1>1, PoolAssumption DEF PoolInv, PoolTypeOK, HoldIsBounded, Second
    <1> QED
        BY <1>2 DEF PoolInv, PoolTypeOK, LookedInTime, Second

LEMMA ExitKeeps == ASSUME PoolInv, Exit PROVE PoolInv'
    <1>1. queue' \in Seq(Messages)
        BY DEF Exit
    <1>2. stage' \in [Messages -> InHandler \cup Over \cup {"unsent", "queued"}]
        BY DEF PoolInv, PoolTypeOK, Exit, Over
    <1> QED
        BY <1>1, <1>2, PoolAssumption
           DEF PoolInv, PoolTypeOK, HoldIsBounded, LookedInTime, Exit

LEMMA ProcessKeeps ==
    ASSUME PoolInv, Register \/ OpenPool \/ Shut \/ Reboot PROVE PoolInv'
    <1>1. UNCHANGED <<queue, stage, turn, waited, looked>>
        BY DEF Register, OpenPool, Shut, Reboot
    <1>2. bridge' \in {"off", "registered", "up", "shut", "gone"}
        BY DEF Register, OpenPool, Shut, Reboot
    <1>3. hold' \in BOOLEAN /\ stepMode' \in BOOLEAN
        BY DEF PoolInv, PoolTypeOK, Register, OpenPool, Shut, Reboot
    <1>4. reboots' \in 0..MaxRestarts
        BY PoolAssumption DEF PoolInv, PoolTypeOK, Register, OpenPool, Shut, Reboot
    <1> QED
        BY <1>1, <1>2, <1>3, <1>4
           DEF PoolInv, PoolTypeOK, HoldIsBounded, LookedInTime

LEMMA NextPoolInv == PoolInv /\ [PoolNext]_poolVars => PoolInv'
    <1> SUFFICES ASSUME PoolInv, [PoolNext]_poolVars PROVE PoolInv'
        OBVIOUS
    <1>1. ASSUME NEW m \in Messages, HandlerStep(m) PROVE PoolInv'
        BY <1>1, EnterKeeps, TakeTurnKeeps, SpawnKeeps, ChildExitsKeeps, EndTurnKeeps,
           PassGateKeeps, MeetGateKeeps, LookAgainKeeps, SeeReleaseKeeps, LeaveGateKeeps, CheckRunningKeeps,
           ArmKeeps, CheckHeldKeeps, ClearKeeps DEF HandlerStep
    <1>2. CASE UNCHANGED poolVars
        BY <1>2 DEF poolVars, PoolInv, PoolTypeOK, HoldIsBounded, LookedInTime
    <1> QED
        BY <1>1, <1>2, ArriveKeeps, DropKeeps, TakeNextKeeps, SecondKeeps, ExitKeeps,
           ProcessKeeps DEF PoolNext

\* The inductive invariant of the pool and the gate holds throughout.
THEOREM PoolInvariance == PoolSpec => []PoolInv
    BY InitPoolInv, NextPoolInv, PTL DEF PoolSpec

\* Every variable of the pool keeps its type.
THEOREM PoolTypesHold == PoolSpec => []PoolTypeOK
    <1>1. PoolInv => PoolTypeOK
        BY DEF PoolInv
    <1> QED
        BY <1>1, PoolInvariance, PTL

\* For any messages, workers and hold limit, and however /hold and /go race with
\* the gate: no reply waits longer than the limit (_apply_hold_gate()).
THEOREM HoldsAreBounded == PoolSpec => []HoldIsBounded
    <1>1. PoolInv => HoldIsBounded
        BY DEF PoolInv
    <1> QED
        BY <1>1, PoolInvariance, PTL

-----------------------------------------------------------------------------
(* The model pin                                                           *)

\* The lock of the handler excludes.
OneHolder == \A c \in Commands : at[c] \in Busy <=> holder = c

Agree ==
    /\ client \in {active} \cup (IF active = Default THEN {EnvModel} ELSE {})
    /\ lost = "no" => active = settled

\* How far the holder has come with its three copies.
Underway ==
    \A c \in Commands :
        /\ at[c] = "locked" => Agree
        /\ at[c] \in Busy \ {"locked"} => active = choice[c]
        /\ at[c] \in {"persisted", "applied"} => settled = choice[c]
        /\ at[c] = "applied" => client = choice[c]

PinInv == PinTypeOK /\ OneHolder /\ PinsAgree /\ Underway /\ PinSurvives

LEMMA PinValues == EnvModel \in Pins /\ Default \in Pins /\ Loaded \in Pins /\ Booted \in Pins
    BY PinAssumption DEF Pins, Loaded, Booted

LEMMA LoadsPin == \A p \in Pins : file = p => Loaded = p
    BY PinAssumption DEF Pins, Loaded

LEMMA BootAgrees ==
    Booted \in {Loaded} \cup (IF Loaded = Default THEN {EnvModel} ELSE {})
    BY DEF Booted

LEMMA InitPinInv == PinInit => PinInv
    <1> SUFFICES ASSUME PinInit PROVE PinInv
        OBVIOUS
    <1>1. \A c \in Commands : at[c] \notin Busy /\ holder # c
        BY PinAssumption DEF PinInit, Busy
    <1>2. PinTypeOK
        <2>1. boots \in 0..MaxBoots
            BY PinAssumption DEF PinInit
        <2> QED
            BY <2>1, PinValues DEF PinInit, PinTypeOK, Pins
    <1>3. Agree
        BY BootAgrees DEF PinInit, Agree
    <1>4. PinSurvives
        BY <1>1 DEF PinInit, PinSurvives, Busy
    <1>5. PinsAgree
        BY <1>3 DEF PinInit, PinsAgree, Agree
    <1> QED
        BY <1>1, <1>2, <1>4, <1>5 DEF PinInv, OneHolder, Underway, Busy

\* A command that proceeds while it holds the lock is alone.
LEMMA Solo ==
    ASSUME PinInv, NEW c \in Commands, at[c] \in Busy
    PROVE  /\ holder = c /\ holder # Unlocked
           /\ \A d \in Commands \ {c} : at[d] \notin Busy
    BY PinAssumption DEF PinInv, OneHolder

LEMMA RestartKeeps == PinInv /\ Restart => PinInv'
    <1> SUFFICES ASSUME PinInv, Restart PROVE PinInv'
        OBVIOUS
    <1>1. \A c \in Commands : at'[c] \notin Busy /\ holder' # c
        BY PinAssumption DEF Restart, Busy
    <1>2. PinTypeOK'
        BY PinValues, PinAssumption DEF PinInv, PinTypeOK, Restart
    <1>3. Loaded' = Loaded
        BY DEF Restart, Loaded
    <1>4. lost' = "no" => lost = "no" /\ ~Emptied
        BY DEF Restart
    <1>5. PinSurvives'
        BY <1>3, <1>4 DEF PinInv, Restart, PinSurvives
    <1>6. PinsAgree'
        BY <1>3, <1>4, BootAgrees DEF PinInv, PinSurvives, Restart, PinsAgree
    <1> QED
        BY <1>1, <1>2, <1>5, <1>6 DEF PinInv, OneHolder, Underway, Busy

LEMMA AskModelKeeps ==
    ASSUME PinInv, NEW c \in Commands, AskModel(c) PROVE PinInv'
    <1>1. PinTypeOK'
        BY PinValues DEF PinInv, PinTypeOK, AskModel, Proceed, Busy
    <1>2. OneHolder'
        BY PinAssumption DEF PinInv, PinTypeOK, OneHolder, AskModel, Proceed, Busy
    <1>3. PinsAgree'
        BY DEF PinInv, PinsAgree, AskModel, Loaded
    <1>4. Underway'
        BY Solo DEF PinInv, PinTypeOK, OneHolder, PinsAgree, Underway, Agree,
           AskModel, Proceed, Busy
    <1>5. PinSurvives'
        BY Solo DEF PinInv, PinTypeOK, Underway, PinSurvives, Emptied, Loaded, AskModel,
           Proceed, Busy
    <1> QED
        BY <1>1, <1>2, <1>3, <1>4, <1>5 DEF PinInv

LEMMA TakeLockKeeps ==
    ASSUME PinInv, NEW c \in Commands, TakeLock(c) PROVE PinInv'
    <1>1. PinTypeOK'
        BY PinValues DEF PinInv, PinTypeOK, TakeLock, Proceed, Busy
    <1>2. OneHolder'
        BY PinAssumption DEF PinInv, PinTypeOK, OneHolder, TakeLock, Proceed, Busy,
           Free
    <1>3. PinsAgree'
        BY PinAssumption DEF TakeLock, PinsAgree
    <1>4. Underway'
        BY Solo DEF PinInv, PinTypeOK, OneHolder, PinsAgree, Underway, Agree,
           TakeLock, Proceed, Busy, Free
    <1>5. PinSurvives'
        BY Solo DEF PinInv, PinTypeOK, Underway, PinSurvives, Emptied, Loaded, TakeLock,
           Proceed, Busy
    <1> QED
        BY <1>1, <1>2, <1>3, <1>4, <1>5 DEF PinInv

LEMMA MarkKeeps == ASSUME PinInv, NEW c \in Commands, Mark(c) PROVE PinInv'
    <1>1. PinTypeOK'
        BY PinValues DEF PinInv, PinTypeOK, Mark, Proceed, Busy
    <1>2. OneHolder'
        BY PinAssumption DEF PinInv, PinTypeOK, OneHolder, Mark, Proceed, Busy
    <1>3. PinsAgree'
        BY Solo DEF PinInv, PinTypeOK, PinsAgree, Underway, Agree, Mark, Proceed,
           Busy
    <1>4. Underway'
        BY Solo DEF PinInv, PinTypeOK, OneHolder, PinsAgree, Underway, Agree, Mark,
           Proceed, Busy
    <1>5. PinSurvives'
        BY Solo DEF PinInv, PinTypeOK, Underway, PinSurvives, Emptied, Loaded, Mark,
           Proceed, Busy
    <1> QED
        BY <1>1, <1>2, <1>3, <1>4, <1>5 DEF PinInv

LEMMA EmptyKeeps == ASSUME PinInv, NEW c \in Commands, Empty(c) PROVE PinInv'
    <1>1. PinTypeOK'
        BY PinValues DEF PinInv, PinTypeOK, Empty, Proceed, Busy, Pins
    <1>2. OneHolder'
        BY PinAssumption DEF PinInv, PinTypeOK, OneHolder, Empty, Proceed, Busy
    <1>3. PinsAgree'
        BY Solo DEF PinInv, PinTypeOK, PinsAgree, Underway, Agree, Empty, Proceed,
           Busy
    <1>4. Underway'
        BY Solo DEF PinInv, PinTypeOK, OneHolder, PinsAgree, Underway, Agree, Empty,
           Proceed, Busy
    <1>5. PinSurvives'
        BY Solo DEF PinInv, PinTypeOK, Underway, PinSurvives, Emptied, Loaded, Empty,
           Proceed, Busy
    <1> QED
        BY <1>1, <1>2, <1>3, <1>4, <1>5 DEF PinInv

LEMMA PersistKeeps ==
    ASSUME PinInv, NEW c \in Commands, Persist(c) PROVE PinInv'
    <1>1. PinTypeOK'
        BY PinValues DEF PinInv, PinTypeOK, Persist, Proceed, Busy, Written, Pins
    <1>2. OneHolder'
        BY PinAssumption DEF PinInv, PinTypeOK, OneHolder, Persist, Proceed, Busy
    <1>3. PinsAgree'
        BY Solo DEF PinInv, PinTypeOK, PinsAgree, Underway, Agree, Persist, Proceed,
           Busy
    <1>4. Underway'
        BY Solo DEF PinInv, PinTypeOK, OneHolder, PinsAgree, Underway, Agree,
           Persist, Proceed, Busy
    <1>5. PinSurvives'
        <2>1. active = choice[c] /\ choice[c] \in Pins
            BY DEF PinInv, PinTypeOK, Underway, Persist, Proceed, Busy
        <2>2. file' = choice[c] /\ settled' = choice[c]
            BY <2>1 DEF Persist, Written
        <2> QED
            BY <2>1, <2>2, PinAssumption DEF Pins, Loaded, PinSurvives
    <1> QED
        BY <1>1, <1>2, <1>3, <1>4, <1>5 DEF PinInv

LEMMA PersistFailsKeeps ==
    ASSUME PinInv, NEW c \in Commands, PersistFails(c) PROVE PinInv'
    <1>1. PinTypeOK'
        BY PinValues DEF PinInv, PinTypeOK, PersistFails, Proceed, Busy
    <1>2. OneHolder'
        BY PinAssumption
           DEF PinInv, PinTypeOK, OneHolder, PersistFails, Proceed, Busy
    <1>3. PinsAgree'
        BY Solo DEF PinInv, PinTypeOK, PinsAgree, Underway, Agree, PersistFails,
           Proceed, Busy
    <1>4. Underway'
        BY Solo DEF PinInv, PinTypeOK, OneHolder, PinsAgree, Underway, Agree,
           PersistFails, Proceed, Busy
    <1>5. PinSurvives'
        BY Solo
           DEF PinInv, PinTypeOK, Underway, PinSurvives, Emptied, Loaded, PersistFails,
           Proceed, Busy
    <1> QED
        BY <1>1, <1>2, <1>3, <1>4, <1>5 DEF PinInv

LEMMA ApplyKeeps == ASSUME PinInv, NEW c \in Commands, Apply(c) PROVE PinInv'
    <1>1. PinTypeOK'
        BY PinValues DEF PinInv, PinTypeOK, Apply, Proceed, Busy
    <1>2. OneHolder'
        BY PinAssumption DEF PinInv, PinTypeOK, OneHolder, Apply, Proceed, Busy
    <1>3. PinsAgree'
        BY Solo DEF PinInv, PinTypeOK, PinsAgree, Underway, Agree, Apply, Proceed,
           Busy
    <1>4. Underway'
        BY Solo DEF PinInv, PinTypeOK, OneHolder, PinsAgree, Underway, Agree, Apply,
           Proceed, Busy
    <1>5. PinSurvives'
        BY Solo DEF PinInv, PinTypeOK, Underway, PinSurvives, Emptied, Loaded, Apply,
           Proceed, Busy
    <1> QED
        BY <1>1, <1>2, <1>3, <1>4, <1>5 DEF PinInv

LEMMA ReleaseKeeps ==
    ASSUME PinInv, NEW c \in Commands, Release(c) PROVE PinInv'
    <1>1. PinTypeOK'
        BY PinValues DEF PinInv, PinTypeOK, Release, Proceed, Busy
    <1>2. OneHolder'
        BY PinAssumption DEF PinInv, PinTypeOK, OneHolder, Release, Proceed, Busy
    <1>3. PinsAgree'
        <2>1. at[c] = "applied" /\ at[c] \in Busy
            BY DEF Release, Proceed, Busy
        <2>2. active = choice[c] /\ settled = choice[c] /\ client = choice[c]
            BY <2>1 DEF PinInv, Underway, Busy
        <2>3. ~Emptied
            BY <2>1, Solo DEF Emptied, Busy
        <2>4. UNCHANGED <<active, client, settled, lost>> /\ Loaded' = Loaded
            BY DEF Release, Loaded
        <2> QED
            BY <2>2, <2>3, <2>4 DEF PinInv, PinSurvives, PinsAgree
    <1>4. Underway'
        BY Solo DEF PinInv, PinTypeOK, OneHolder, PinsAgree, Underway, Agree,
           Release, Proceed, Busy
    <1>5. PinSurvives'
        BY Solo DEF PinInv, PinTypeOK, Underway, PinSurvives, Emptied, Loaded, Release,
           Proceed, Busy
    <1> QED
        BY <1>1, <1>2, <1>3, <1>4, <1>5 DEF PinInv

LEMMA ConfirmKeeps ==
    ASSUME PinInv, NEW c \in Commands, Confirm(c) PROVE PinInv'
    <1>1. PinTypeOK'
        BY PinValues DEF PinInv, PinTypeOK, Confirm, Proceed, Busy
    <1>2. OneHolder'
        BY PinAssumption DEF PinInv, PinTypeOK, OneHolder, Confirm, Proceed, Busy
    <1>3. PinsAgree'
        BY DEF PinInv, PinsAgree, Confirm, Loaded
    <1>4. Underway'
        BY Solo DEF PinInv, PinTypeOK, OneHolder, PinsAgree, Underway, Agree,
           Confirm, Proceed, Busy
    <1>5. PinSurvives'
        BY Solo DEF PinInv, PinTypeOK, Underway, PinSurvives, Emptied, Loaded, Confirm,
           Proceed, Busy
    <1> QED
        BY <1>1, <1>2, <1>3, <1>4, <1>5 DEF PinInv

LEMMA NextPinInv == PinInv /\ [PinNext]_pinVars => PinInv'
    <1> SUFFICES ASSUME PinInv, [PinNext]_pinVars PROVE PinInv'
        OBVIOUS
    <1>1. ASSUME NEW c \in Commands, PinStep(c) PROVE PinInv'
        BY <1>1, AskModelKeeps, TakeLockKeeps, MarkKeeps, EmptyKeeps, PersistKeeps,
           PersistFailsKeeps, ApplyKeeps, ReleaseKeeps, ConfirmKeeps DEF PinStep
    <1>2. CASE UNCHANGED pinVars
        BY <1>2
           DEF pinVars, PinInv, PinTypeOK, OneHolder, PinsAgree, Underway, Agree,
                    PinSurvives, Emptied, Loaded
    <1> QED
        BY <1>1, <1>2, RestartKeeps DEF PinNext

\* The inductive invariant of the three copies of the pin holds throughout.
THEOREM PinInvariance == PinSpec => []PinInv
    BY InitPinInv, NextPinInv, PTL DEF PinSpec

\* Every variable keeps its type.
THEOREM PinTypesHold == PinSpec => []PinTypeOK
    <1>1. PinInv => PinTypeOK
        BY DEF PinInv
    <1> QED
        BY <1>1, PinInvariance, PTL

\* For any commands, models and restarts: whenever no command is at work, the
\* handler, the file and the client hold the pin of the last one, the file and
\* the pin unless a write has failed or was cut short (_set(), run(), __init__()).
THEOREM CopiesAgree == PinSpec => []PinsAgree
    <1>1. PinInv => PinsAgree
        BY DEF PinInv
    <1> QED
        BY <1>1, PinInvariance, PTL

\* Whatever commands race and wherever the process is killed, but for the moment
\* at which the file is open and empty, the file brings back the pin of the last
\* command that wrote it (_persist(), _load()).
THEOREM PinIsKept == PinSpec => []PinSurvives
    <1>1. PinInv => PinSurvives
        BY DEF PinInv
    <1> QED
        BY <1>1, PinInvariance, PTL

-----------------------------------------------------------------------------
(* The liveness proxy                                                      *)

\* The last ping found the job loop fresh, by the wall clock, or the unit has just
\* started.
PingsAreFresh == skew + back >= 0 /\ jobAge <= MaxAge + silent + back

\* Without a freeze the probes are on time, and each that has not pinged is a miss.
ProbesAreCounted ==
    froze = 0 => /\ frozen = 0
                 /\ slept <= Interval
                 /\ silent <= misses * Interval + slept

KilledWhenDue == unit = "dead" => silent >= WatchdogSec

ProxyInv == ProxyTypeOK /\ PingsAreFresh /\ ProbesAreCounted /\ KilledWhenDue

LEMMA OneMore ==
    ASSUME NEW m \in Nat, NEW n \in Nat
    PROVE  /\ m * n \in Nat /\ (m + 1) * n \in Nat
           /\ (m + 1) * n = m * n + n
           /\ 0 * n = 0
    OBVIOUS

LEMMA InitProxyInv == ProxyInit => ProxyInv
    <1> SUFFICES ASSUME ProxyInit PROVE ProxyInv
        OBVIOUS
    <1>1. Interval \in Nat /\ MaxAge \in Nat /\ WatchdogSec \in Nat
        BY LivenessAssumption
    <1> QED
        BY <1>1, OneMore DEF ProxyInit, ProxyInv, ProxyTypeOK, PingsAreFresh,
                             ProbesAreCounted, KilledWhenDue

LEMMA NextProxyInv == ProxyInv /\ [ProxyNext]_proxyVars => ProxyInv'
    <1> SUFFICES ASSUME ProxyInv, [ProxyNext]_proxyVars PROVE ProxyInv'
        OBVIOUS
    <1>1. /\ Interval \in Nat \ {0} /\ MaxAge \in Nat /\ WatchdogSec \in Nat \ {0}
          /\ misses \in Nat /\ slept \in Nat /\ silent \in Nat
        BY LivenessAssumption DEF ProxyInv, ProxyTypeOK
    <1>2. /\ misses * Interval \in Nat
          /\ (misses + 1) * Interval = misses * Interval + Interval
        BY <1>1, OneMore
    <1> USE <1>1 DEF ProxyInv, ProxyTypeOK, PingsAreFresh, ProbesAreCounted, KilledWhenDue
    <1>3. CASE JobsRun
        BY <1>3 DEF JobsRun
    <1>4. CASE Probe
        <2>1. CASE Healthy
            BY <1>4, <2>1, OneMore DEF Probe, ProbeDue, Healthy
        <2>2. CASE ~Healthy
            <3>1. misses' * Interval = misses * Interval + Interval
                BY <1>2, <1>4, <2>2 DEF Probe
            <3>2. ProbesAreCounted'
                BY <1>2, <1>4, <2>2, <3>1 DEF Probe, ProbeDue
            <3> QED
                BY <1>4, <2>2, <3>2 DEF Probe
        <2> QED
            BY <2>1, <2>2
    <1>11. CASE SetClock
        BY <1>11, LivenessAssumption DEF SetClock
    <1>5. CASE Freeze
        BY <1>5 DEF Freeze
    <1>6. CASE Kill
        BY <1>6 DEF Kill, KillDue
    <1>7. CASE Restarted
        BY <1>7, OneMore DEF Restarted, Started
    <1>8. CASE Stopped
        BY <1>8 DEF Stopped
    <1>9. CASE Pass
        BY <1>2, <1>9 DEF Pass, ProbeDue, KillDue
    <1>10. CASE UNCHANGED proxyVars
        BY <1>10 DEF proxyVars
    <1> QED
        BY <1>3, <1>4, <1>5, <1>6, <1>7, <1>8, <1>9, <1>10, <1>11 DEF ProxyNext

\* The inductive invariant of the proxy and its unit holds throughout.
THEOREM ProxyInvariance == ProxySpec => []ProxyInv
    BY InitProxyInv, NextProxyInv, PTL DEF ProxySpec

\* Every variable keeps its type.
THEOREM ProxyTypesHold == ProxySpec => []ProxyTypeOK
    <1>1. ProxyInv => ProxyTypeOK
        BY DEF ProxyInv
    <1> QED
        BY <1>1, ProxyInvariance, PTL

\* For every interval, age limit and watchdog: no bridge is up longer than the
\* two together after its job loop last ran, but for what the wall clock was set
\* back (_tick(), WatchdogSec).
THEOREM WedgesAreKilled == ProxySpec => []WedgeIsKilled
    <1>1. ProxyInv => WedgeIsKilled
        BY LivenessAssumption
           DEF ProxyInv, ProxyTypeOK, PingsAreFresh, WedgeIsKilled
    <1> QED
        BY <1>1, ProxyInvariance, PTL

\* A bridge that did not freeze is killed only after as many stale probes in a
\* row as fit into the watchdog's time (_loop(), default_rns_probe()).
THEOREM NoneIsKilledInError == ProxySpec => []NoFalseKill
    <1>1. ASSUME ProxyInv PROVE NoFalseKill
        <2>1. misses * Interval \in Nat
            BY <1>1, LivenessAssumption, OneMore DEF ProxyInv, ProxyTypeOK
        <2> QED
            BY <1>1, <2>1, LivenessAssumption
               DEF ProxyInv, ProxyTypeOK, ProbesAreCounted, KilledWhenDue, NoFalseKill
    <1> QED
        BY <1>1, ProxyInvariance, PTL

-----------------------------------------------------------------------------
(* The parts together                                                      *)

\* The parts start as their own specifications have them start.
LEMMA PartsStart == Init => PoolInit /\ AnnInit /\ PinInit /\ ProxyInit /\ HookInit
    BY DEF Init

\* A step of the whole is a step of one part, at which every other stands still.
LEMMA PartsStep ==
    [Next]_vars =>
        /\ [PoolNext]_poolVars /\ [AnnNext]_annVars /\ [PinNext]_pinVars
        /\ [ProxyNext]_proxyVars /\ [HookNext]_hookVars
    BY DEF Next, vars

LEMMA PartIsFixed ==
    /\ Init => part \in Parts
    /\ part \in Parts /\ [Next]_vars => (part \in Parts)'
    BY DEF Init, Next, vars

\* The instance that is checked implements the specification of every part, so
\* whatever is proved of a part is true of it.
THEOREM PartsAreImplemented ==
    FairSpec => PoolSpec /\ AnnSpec /\ PinSpec /\ ProxySpec /\ HookSpec
    BY PartsStart, PartsStep, PTL
       DEF FairSpec, PoolSpec, AnnSpec, PinSpec, ProxySpec, HookSpec

\* Every variable of every part keeps its type, for all the parts' constants.
THEOREM BridgeTypesHold == FairSpec => []TypeOK
    <1>1. FairSpec => [](part \in Parts)
        BY PartIsFixed, PTL DEF FairSpec
    <1>2. /\ part \in Parts /\ PoolTypeOK /\ AnnTypeOK
          /\ PinTypeOK /\ ProxyTypeOK /\ HookTypeOK
          => TypeOK
        BY DEF TypeOK
    <1> QED
        BY <1>1, <1>2, PartsAreImplemented, PoolTypesHold, AnnTypesHold, PinTypesHold,
           ProxyTypesHold, HookTypesHold, PTL
=============================================================================
