------------------------ MODULE LivenessGuardProofs ------------------------
(***************************************************************************)
(* Proofs about LivenessGuard, for every window, cap and horizon: its      *)
(* types, that no turn outlives the hard cap, that a stalled child is dead *)
(* within two windows and the time of two pushes, and that one which works *)
(* in steps is not killed.                                                 *)
(***************************************************************************)
EXTENDS LivenessGuard, TLAPS

\* The watchdog has polled this second and let the child live.
PolledInTime ==
    child = "alive" /\ polled =>
        /\ cap > 0 => age <= cap
        /\ window > 0 => quiet < window

\* A row waits for the push of the rows before it and one more second, and is
\* then pushed itself.
FreshRows ==
    /\ pushing => stepMode /\ known
    /\ child = "alive" /\ calm /\ stepMode /\ known =>
          IF pushing
          THEN /\ idle <= PushLimit + 1 + lag
               /\ rows => idle <= lag
          ELSE rows => idle <= PushLimit + (IF watched THEN 0 ELSE 1)

\* The marker is younger than the last progress by two pushes and a second at
\* most, and the clock was touched at most a window after that.
Heard ==
    child = "alive" /\ calm =>
        /\ idle <= marker.age + 2 * PushLimit + 1
        /\ window > 0 => idle <= quiet + window + 2 * PushLimit + 1

\* No child is alive past a limit by more than the second of a poll.
InTime ==
    child = "alive" =>
        /\ cap > 0 => age <= cap + 1
        /\ window > 0 => quiet <= window

IInv == TypeOK /\ InTime /\ PolledInTime /\ FreshRows /\ Heard

-----------------------------------------------------------------------------

\* A second more is at most one more, and the horizon is beyond every limit.
LEMMA Seconds1 ==
    ASSUME NEW t \in Seconds
    PROVE  /\ Later(t) \in Seconds
           /\ t <= Later(t) /\ Later(t) <= t + 1
           /\ Later(t) = t + 1 \/ Later(t) = Horizon
           /\ t < Horizon => Later(t) = t + 1
    BY ClockAssumption DEF Seconds, Later

LEMMA Limits ==
    ASSUME TypeOK
    PROVE  /\ window \in Nat /\ cap \in Nat /\ Horizon \in Nat
           /\ PushLimit \in Nat /\ lag \in Nat /\ lag <= PushLimit
           /\ 2 * window + 2 * PushLimit + 3 <= Horizon /\ cap + 2 <= Horizon
           /\ 0 \in Seconds
    BY ClockAssumption DEF TypeOK, Seconds

LEMMA FreshMarker ==
    ASSUME NEW n \in BOOLEAN, NEW k \in BOOLEAN, 0 \in Seconds
    PROVE  [named |-> n, current |-> k, age |-> 0] \in Markers
    BY DEF Markers

LEMMA InitIInv == Init => IInv
    <1> SUFFICES ASSUME Init PROVE IInv
        OBVIOUS
    <1>1. TypeOK
        <2>1. Horizon \in Nat /\ 0 \in Seconds /\ 0 \in 0..PushLimit
            BY ClockAssumption DEF Seconds
        <2>2. marker \in Markers
            BY <2>1, FreshMarker DEF Init
        <2> QED
            BY <2>1, <2>2 DEF Init, TypeOK
    <1>2. child /= "alive" /\ ~pushing
        BY DEF Init
    <1> QED
        BY <1>1, <1>2 DEF IInv, InTime, PolledInTime, FreshRows, Heard

-----------------------------------------------------------------------------
(* One lemma for each group of actions that touch the same state.          *)

LEMMA SpawnKeeps == IInv /\ Spawn => IInv'
    <1> SUFFICES ASSUME IInv, Spawn PROVE IInv'
        OBVIOUS
    <1>1. TypeOK
        BY DEF IInv
    <1>2. /\ 0 \in Seconds /\ window \in Nat /\ cap \in Nat /\ Horizon \in Nat
          /\ PushLimit \in Nat /\ 0 \in 0..PushLimit
        BY <1>1, Limits
    <1>3. Heartbeat \in Markers /\ Heartbeat.age = 0
        BY <1>2 DEF Heartbeat, Markers
    <1>4. TypeOK'
        BY <1>1, <1>2, <1>3 DEF TypeOK, Spawn, config
    <1>5. InTime' /\ PolledInTime' /\ Heard'
        BY <1>2, <1>3 DEF Spawn, config, InTime, PolledInTime, Heard
    <1>6. FreshRows'
        BY <1>2 DEF Spawn, config, FreshRows
    <1> QED
        BY <1>4, <1>5, <1>6 DEF IInv

LEMMA ProgressKeeps == IInv /\ (PrintLine \/ StoreRow) => IInv'
    <1> SUFFICES ASSUME IInv, PrintLine \/ StoreRow PROVE IInv'
        OBVIOUS
    <1>1. TypeOK
        BY DEF IInv
    <1>2. 0 \in Seconds /\ window \in Nat /\ cap \in Nat
        BY <1>1, Limits
    <1>3. /\ Progress
          /\ quiet' \in {0, quiet} /\ rows' \in BOOLEAN
        BY <1>1 DEF PrintLine, StoreRow, TypeOK
    <1>4. quiet \in Nat /\ quiet' \in Nat /\ quiet' <= quiet /\ marker.age \in Nat
        BY <1>1, <1>2, <1>3, Limits DEF TypeOK, Seconds, Markers
    <1>5. TypeOK'
        BY <1>1, <1>2, <1>3 DEF TypeOK, Progress, config
    <1>6. InTime' /\ PolledInTime'
        BY <1>2, <1>3, <1>4 DEF IInv, Progress, config, InTime, PolledInTime
    <1>7. FreshRows'
        BY <1>1, <1>3, Limits DEF IInv, Progress, config, FreshRows
    <1>8. Heard'
        <2>1. /\ idle' = 0 /\ marker' = marker /\ window' = window
              /\ PushLimit \in Nat
            BY <1>1, <1>3, Limits DEF Progress, config
        <2>2. \A n \in Nat, m \in Nat, k \in Nat :
                  0 <= n + 2 * k + 1 /\ 0 <= n + m + 2 * k + 1
            OBVIOUS
        <2>3. idle' <= marker'.age + 2 * PushLimit + 1
            BY <1>4, <2>1, <2>2
        <2>4. idle' <= quiet' + window' + 2 * PushLimit + 1
            BY <1>2, <1>4, <2>1, <2>2
        <2> QED
            BY <2>3, <2>4 DEF Heard
    <1> QED
        BY <1>5, <1>6, <1>7, <1>8 DEF IInv

LEMMA EndKeeps == IInv /\ (Exit \/ BiteAtCap \/ BiteSilent) => IInv'
    <1> SUFFICES ASSUME IInv, Exit \/ BiteAtCap \/ BiteSilent PROVE IInv'
        OBVIOUS
    <1>1. TypeOK
        BY DEF IInv
    <1>2. NoMarker \in Markers
        BY <1>1, Limits DEF NoMarker, Markers, Seconds
    <1>3. /\ \E why \in {"self", "cap", "silent"} : End(why)
          /\ marker' \in Markers /\ polled' \in BOOLEAN
        BY <1>1, <1>2 DEF Exit, BiteAtCap, BiteSilent, Bite, Poll, TypeOK
    <1>4. TypeOK'
        BY <1>1, <1>3 DEF TypeOK, End, config, watcher
    <1>5. child' = "dead"
        BY <1>3 DEF End
    <1>6. FreshRows'
        BY <1>3, <1>5 DEF IInv, FreshRows, End, config, watcher
    <1> QED
        BY <1>4, <1>5, <1>6 DEF IInv, InTime, PolledInTime, Heard

LEMMA WatchKeeps == IInv /\ WatchRows => IInv'
    <1> SUFFICES ASSUME IInv, WatchRows PROVE IInv'
        OBVIOUS
    <1>1. TypeOK
        BY DEF IInv
    <1>2. PushLimit \in Nat /\ idle \in Nat /\ lag \in Nat /\ 0 \in 0..PushLimit
        BY <1>1, Limits DEF TypeOK, Seconds
    <1>3. TypeOK'
        BY <1>1, <1>2 DEF TypeOK, WatchRows, config
    <1>4. InTime' /\ PolledInTime' /\ Heard'
        BY DEF IInv, WatchRows, config, InTime, PolledInTime, Heard
    <1>5. FreshRows'
        <2>1. /\ pushing' <=> rows /\ known
              /\ rows' <=> rows /\ ~known
              /\ lag' = 0 /\ stepMode /\ ~pushing /\ ~watched
              /\ UNCHANGED <<child, calm, stepMode, known, idle>>
            BY DEF WatchRows, config
        <2>2. CASE rows /\ known
            <3>1. child = "alive" /\ calm => idle <= PushLimit + 1
                BY <2>1, <2>2 DEF IInv, FreshRows
            <3> QED
                BY <1>2, <2>1, <2>2, <3>1 DEF FreshRows
        <2>3. CASE ~(rows /\ known)
            BY <2>1, <2>3 DEF FreshRows
        <2> QED
            BY <2>2, <2>3
    <1> QED
        BY <1>3, <1>4, <1>5 DEF IInv

LEMMA WriteKeeps == IInv /\ WriteMarker => IInv'
    <1> SUFFICES ASSUME IInv, WriteMarker PROVE IInv'
        OBVIOUS
    <1>1. TypeOK
        BY DEF IInv
    <1>2. marker' \in Markers /\ marker'.age = 0
        BY <1>1, Limits DEF WriteMarker, Heartbeat, Markers
    <1>3. /\ idle \in Nat /\ quiet \in Nat /\ window \in Nat
          /\ PushLimit \in Nat /\ lag \in Nat /\ lag <= PushLimit
          /\ 0 \in 0..PushLimit
        BY <1>1, Limits DEF TypeOK, Seconds
    <1>4. TypeOK'
        BY <1>1, <1>2, <1>3 DEF TypeOK, WriteMarker, EndPush, config
    <1>5. InTime' /\ PolledInTime'
        BY DEF IInv, WriteMarker, EndPush, config, InTime, PolledInTime
    <1>6. FreshRows'
        BY <1>3 DEF IInv, WriteMarker, EndPush, config, FreshRows
    <1>7. Heard'
        <2> SUFFICES ASSUME child = "alive", calm
                     PROVE  /\ idle <= 2 * PushLimit + 1
                            /\ window > 0 =>
                                 idle <= quiet + window + 2 * PushLimit + 1
            BY <1>2, <1>3 DEF WriteMarker, EndPush, config, Heard
        <2>1. idle <= PushLimit + 1 + lag
            BY DEF IInv, FreshRows, WriteMarker, EndPush
        <2> QED
            BY <1>3, <2>1 DEF IInv, Heard
    <1> QED
        BY <1>4, <1>5, <1>6, <1>7 DEF IInv

LEMMA DisturbKeeps == IInv /\ (Rename \/ HookWrites) => IInv'
    <1> SUFFICES ASSUME IInv, Rename \/ HookWrites PROVE IInv'
        OBVIOUS
    <1>1. TypeOK
        BY DEF IInv
    <1>2. /\ ~calm
          /\ UNCHANGED <<config, child, cause, age, quiet, polled, watcher,
                         idle, steady>>
        BY DEF Rename, HookWrites
    <1>3. marker' \in Markers
        <2>1. CASE Rename
            BY <1>1, <2>1 DEF TypeOK, Rename, Markers
        <2>2. CASE HookWrites
            <3>1. NoMarker \in Markers
                BY <1>1, Limits DEF NoMarker, Markers, Seconds
            <3>2. 0 \in Seconds
                BY <1>1, Limits
            <3> QED
                BY <2>2, <3>1, <3>2, FreshMarker DEF HookWrites
        <2> QED
            BY <2>1, <2>2
    <1>4. TypeOK'
        BY <1>1, <1>2, <1>3 DEF TypeOK, config, watcher
    <1>5. InTime' /\ PolledInTime' /\ FreshRows' /\ Heard'
        BY <1>2 DEF IInv, config, watcher, InTime, PolledInTime, FreshRows, Heard
    <1> QED
        BY <1>4, <1>5 DEF IInv

\* A touch is worth a window, and the marker that causes it is at most a window
\* old: this is where the two windows of StalledIsKilled come from.
LEMMA ListenKeeps == IInv /\ Listen => IInv'
    <1> SUFFICES ASSUME IInv, Listen PROVE IInv'
        OBVIOUS
    <1>1. TypeOK
        BY DEF IInv
    <1>2. /\ window \in Nat /\ cap \in Nat /\ age \in Nat /\ quiet \in Nat
          /\ idle \in Nat /\ marker.age \in Nat /\ PushLimit \in Nat
          /\ 0 \in Seconds
        BY <1>1, Limits DEF TypeOK, Seconds, Markers
    <1>3. /\ quiet' \in Seconds /\ quiet' <= quiet
          /\ quiet' = quiet \/ marker.age <= window
        BY <1>1, <1>2 DEF Listen, MarkerAlive, TypeOK
    <1>4. TypeOK'
        BY <1>1, <1>3 DEF TypeOK, Listen, Poll, config, watcher
    <1>5. (cap > 0 => age <= cap) /\ (window > 0 => quiet < window)
        BY <1>2 DEF Listen, CapDue, SilenceDue
    <1>6. quiet' \in Nat
        BY <1>2, <1>3 DEF Listen
    <1>7. InTime' /\ PolledInTime'
        BY <1>2, <1>3, <1>5, <1>6
           DEF Listen, Poll, config, InTime, PolledInTime
    <1>8. FreshRows'
        BY DEF IInv, Listen, Poll, config, watcher, FreshRows
    <1>9. Heard'
        BY <1>2, <1>3, <1>6 DEF IInv, Listen, Poll, config, Heard
    <1> QED
        BY <1>4, <1>7, <1>8, <1>9 DEF IInv

\* A second goes by only when the watchdog has looked in it.
LEMMA TickKeeps == IInv /\ Tick => IInv'
    <1> SUFFICES ASSUME IInv, Tick PROVE IInv'
        OBVIOUS
    <1>1. TypeOK
        BY DEF IInv
    <1>2. /\ window \in Nat /\ cap \in Nat /\ Horizon \in Nat
          /\ PushLimit \in Nat /\ lag \in Nat
          /\ 2 * window + 2 * PushLimit + 3 <= Horizon /\ cap + 2 <= Horizon
          /\ age \in Nat /\ quiet \in Nat /\ idle \in Nat /\ marker.age \in Nat
        BY <1>1, Limits DEF TypeOK, Seconds, Markers
    <1>3. /\ age \in Seconds /\ quiet \in Seconds /\ idle \in Seconds
          /\ marker.age \in Seconds
        BY <1>1 DEF TypeOK, Markers
    <1>4. /\ age' \in Seconds /\ age' <= age + 1
          /\ quiet' \in Seconds /\ quiet' <= quiet + 1
          /\ quiet < Horizon => quiet' = quiet + 1
          /\ idle' \in Seconds /\ idle' <= idle + 1
        BY <1>3, Seconds1 DEF Tick
    <1>5. /\ marker' \in Markers
          /\ marker'.age = marker.age + 1 \/ marker'.age = Horizon
        BY <1>1, <1>3, Seconds1 DEF Tick, TypeOK, Markers
    <1>6. age' \in Nat /\ quiet' \in Nat /\ idle' \in Nat /\ idle' <= Horizon
        BY <1>2, <1>4 DEF Seconds
    <1>7. TypeOK'
        <2>1. steady' \in BOOLEAN
            BY <1>1 DEF TypeOK, Tick
        <2>2. lag' \in 0..PushLimit
            BY <1>1, <1>2 DEF TypeOK, Tick
        <2> QED
            BY <1>1, <1>4, <1>5, <2>1, <2>2 DEF TypeOK, Tick, config
    <1>8. (cap > 0 => age <= cap) /\ (window > 0 => quiet < window)
        BY DEF IInv, PolledInTime, Tick
    <1>9. InTime' /\ PolledInTime'
        BY <1>2, <1>4, <1>6, <1>8 DEF Tick, config, InTime, PolledInTime
    <1>10. FreshRows'
        BY <1>2, <1>4, <1>6 DEF IInv, Tick, config, FreshRows
    <1>11. Heard'
        BY <1>2, <1>4, <1>5, <1>6, <1>8 DEF IInv, Tick, config, Heard
    <1> QED
        BY <1>7, <1>9, <1>10, <1>11 DEF IInv

-----------------------------------------------------------------------------

LEMMA NextKeeps == IInv /\ [Next]_vars => IInv'
    <1> SUFFICES ASSUME IInv, [Next]_vars PROVE IInv'
        OBVIOUS
    <1>1. CASE Next
        BY <1>1, SpawnKeeps, ProgressKeeps, EndKeeps, WatchKeeps, WriteKeeps,
           DisturbKeeps, ListenKeeps, TickKeeps DEF Next
    <1>2. CASE UNCHANGED vars
        BY <1>2 DEF vars, config, watcher, IInv, TypeOK, InTime, PolledInTime,
                    FreshRows, Heard
    <1> QED
        BY <1>1, <1>2

LEMMA Invariance == Spec => []IInv
    BY InitIInv, NextKeeps, PTL DEF Spec

\* Every variable holds a value of its kind, whatever the limits.
THEOREM TypeCorrect == Spec => []TypeOK
    <1>1. IInv => TypeOK
        BY DEF IInv
    <1> QED
        BY <1>1, Invariance, PTL

\* The hard cap of _watchdog() holds for every cap, with the silence window on
\* or off and whatever is written into the marker file.
THEOREM CapAlwaysHolds == Spec => []CapHolds
    <1>1. IInv => CapHolds
        BY DEF IInv, InTime, CapHolds
    <1> QED
        BY <1>1, Invariance, PTL

\* For every window and every longest push, a stalled child whose marker nobody
\* disturbs is dead two windows, two pushes and a second after its last progress.
THEOREM StallsAreKilled == Spec => []StalledIsKilled
    <1>1. IInv => StalledIsKilled
        <2> SUFFICES ASSUME IInv, calm, window > 0, child = "alive"
                     PROVE  idle <= 2 * window + 2 * PushLimit + 1
            BY DEF StalledIsKilled
        <2>1. /\ window \in Nat /\ quiet \in Nat /\ idle \in Nat
              /\ PushLimit \in Nat
            BY Limits DEF IInv, TypeOK, Seconds
        <2>2. /\ quiet <= window
              /\ idle <= quiet + window + 2 * PushLimit + 1
            BY DEF IInv, InTime, Heard
        <2> QED
            BY <2>1, <2>2
    <1> QED
        BY <1>1, Invariance, PTL

-----------------------------------------------------------------------------
(* A second invariant, on top of the first, for the child that works: the   *)
(* silence the clock sees is the child's own, or the last tool row is on    *)
(* its way to the clock with the seconds it needs.                          *)

\* Without a disturbance the marker is this turn's, written by this turn.
OwnMarker == child = "alive" /\ calm => marker.named /\ marker.current

\* A row takes the watcher's poll, its push, the write and the watchdog's poll.
\* The write that is on its way may be that of the rows before it.
OnItsWay ==
    \/ /\ rows /\ ~pushing
       /\ quiet + PushLimit + (IF watched THEN 3 ELSE 2) <= window
    \/ pushing /\ quiet + (PushLimit - lag) + 2 <= window
    \/ /\ marker.age <= 1 /\ quiet + 1 <= window
       /\ polled => marker.age = 0 /\ quiet + 2 <= window

Working ==
    child = "alive" /\ calm /\ stepMode /\ known /\ steady /\ window > 0

Warm ==
    Working =>
        /\ idle > 0 => idle + PushLimit + 2 < window
        /\ quiet <= idle \/ OnItsWay

Unharmed == child = "alive" => cause = "none"

WInv == OwnMarker /\ Warm /\ Unharmed /\ WatchedWorkSurvives

LEMMA InitWInv == Init => WInv
    BY DEF Init, WInv, OwnMarker, Warm, Working, Unharmed,
           WatchedWorkSurvives, WorkSurvives

\* What every proof below reads off the types.
LEMMA Counts ==
    ASSUME TypeOK
    PROVE  /\ window \in Nat /\ quiet \in Nat /\ idle \in Nat
           /\ marker.age \in Nat
           /\ PushLimit \in Nat /\ lag \in Nat /\ lag <= PushLimit
    BY Limits DEF TypeOK, Seconds, Markers

\* A living child has no cause of death, and a step that lets it live adds
\* none.
LEMMA NoCauseYet ==
    ASSUME WInv, child = "alive", UNCHANGED <<child, cause>>
    PROVE  Unharmed' /\ WatchedWorkSurvives'
    BY DEF WInv, Unharmed, WatchedWorkSurvives, WorkSurvives

LEMMA SpawnKeepsWork == IInv /\ WInv /\ Spawn => WInv'
    <1> SUFFICES ASSUME IInv, WInv, Spawn PROVE WInv'
        OBVIOUS
    <1>1. cause' = "none" /\ quiet' = 0 /\ idle' = 0
        BY DEF Spawn
    <1>2. OwnMarker'
        BY DEF Spawn, config, OwnMarker, Heartbeat
    <1>3. Warm'
        BY <1>1 DEF Warm
    <1>4. Unharmed' /\ WatchedWorkSurvives'
        BY <1>1 DEF Unharmed, WatchedWorkSurvives, WorkSurvives
    <1> QED
        BY <1>2, <1>3, <1>4 DEF WInv

\* A line silences nothing; a row of a child the clock had heard of late has
\* its three seconds, because the child was never silent for longer than the
\* window less two.
LEMMA ProgressKeepsWork == IInv /\ WInv /\ (PrintLine \/ StoreRow) => WInv'
    <1> SUFFICES ASSUME IInv, WInv, PrintLine \/ StoreRow PROVE WInv'
        OBVIOUS
    <1>1. TypeOK
        BY DEF IInv
    <1>2. /\ window \in Nat /\ quiet \in Nat /\ idle \in Nat
          /\ marker.age \in Nat
          /\ PushLimit \in Nat /\ lag \in Nat /\ lag <= PushLimit
        BY <1>1, Counts
    <1>3. /\ child = "alive" /\ idle' = 0
          /\ UNCHANGED <<window, calm, stepMode, child, cause, marker, known,
                         pushing, lag, polled, watched, steady>>
        BY DEF PrintLine, StoreRow, Progress, config
    <1>4. OwnMarker'
        BY <1>3 DEF WInv, OwnMarker
    <1>5. Warm'
        <2> SUFFICES ASSUME Working' PROVE quiet' <= idle' \/ OnItsWay'
            BY <1>3 DEF Warm
        <2>1. CASE PrintLine
            BY <1>3, <2>1 DEF PrintLine
        <2>2. CASE StoreRow
            <3>1. rows' = TRUE /\ quiet' = quiet
                BY <2>2 DEF StoreRow
            <3>2. /\ idle > 0 => idle + PushLimit + 2 < window
                  /\ quiet <= idle \/ OnItsWay
                BY <1>3 DEF WInv, Warm, Working
            <3>3. CASE quiet = 0
                BY <1>3, <3>1, <3>3
            <3>4. CASE quiet > 0 /\ quiet <= idle
                <4>1. quiet + PushLimit + 3 <= window
                    BY <1>2, <3>2, <3>4
                <4>2. CASE pushing
                    <5>1. quiet + (PushLimit - lag) + 2 <= window
                        BY <1>2, <4>1
                    <5> QED
                        BY <1>3, <3>1, <4>2, <5>1 DEF OnItsWay
                <4>3. CASE ~pushing
                    <5>1. quiet + PushLimit + (IF watched THEN 3 ELSE 2) <= window
                        BY <1>2, <4>1
                    <5> QED
                        BY <1>3, <3>1, <4>3, <5>1 DEF OnItsWay
                <4> QED
                    BY <4>2, <4>3
            <3>5. CASE OnItsWay
                <4>1. window' = window /\ quiet' = quiet /\ rows'
                    BY <1>3, <3>1
                <4> QED
                    BY <1>3, <3>5, <4>1 DEF OnItsWay
            <3> QED
                BY <1>2, <3>2, <3>3, <3>4, <3>5
        <2> QED
            BY <2>1, <2>2
    <1> QED
        BY <1>3, <1>4, <1>5, NoCauseYet DEF WInv

\* The bite of a working child that has a watcher is impossible: the silence
\* the clock has counted is shorter than the window.
LEMMA EndKeepsWork ==
    IInv /\ WInv /\ (Exit \/ BiteAtCap \/ BiteSilent) => WInv'
    <1> SUFFICES ASSUME IInv, WInv, Exit \/ BiteAtCap \/ BiteSilent
                 PROVE  WInv'
        OBVIOUS
    <1>1. TypeOK
        BY DEF IInv
    <1>2. /\ window \in Nat /\ quiet \in Nat /\ idle \in Nat
          /\ marker.age \in Nat
          /\ PushLimit \in Nat /\ lag \in Nat /\ lag <= PushLimit
        BY <1>1, Counts
    <1>3. child = "alive" /\ child' = "dead"
        BY DEF Exit, BiteAtCap, BiteSilent, Bite, End
    <1>4. UNCHANGED <<calm, stepMode, known, steady>>
        BY DEF Exit, BiteAtCap, BiteSilent, Bite, End, config, watcher
    <1>5. cause' = "silent" => BiteSilent
        BY DEF Exit, BiteAtCap, Bite, End
    <1>6. ASSUME BiteSilent, calm, stepMode, known PROVE ~steady
        <2> SUFFICES ASSUME steady PROVE FALSE
            OBVIOUS
        <2>1. window > 0 /\ quiet >= window /\ ~polled
            BY <1>6 DEF BiteSilent, SilenceDue, Poll
        <2>2. /\ idle > 0 => idle + PushLimit + 2 < window
              /\ quiet <= idle \/ OnItsWay
            BY <1>3, <1>6, <2>1 DEF WInv, Warm, Working
        <2>3. ~(quiet <= idle)
            BY <1>2, <2>1, <2>2
        <2>4. ~OnItsWay
            <3>1. /\ ~(quiet + 1 <= window)
                  /\ ~(quiet + PushLimit + 2 <= window)
                  /\ ~(quiet + PushLimit + 3 <= window)
                  /\ ~(quiet + (PushLimit - lag) + 2 <= window)
                BY <1>2, <2>1
            <3> QED
                BY <3>1 DEF OnItsWay
        <2> QED
            BY <2>2, <2>3, <2>4
    <1>7. WatchedWorkSurvives'
        BY <1>4, <1>5, <1>6 DEF WatchedWorkSurvives, WorkSurvives
    <1> QED
        BY <1>3, <1>7 DEF WInv, OwnMarker, Warm, Working, Unharmed

\* The watcher takes the rows into a push, and nothing of its time is gone.
LEMMA WatchKeepsWork == IInv /\ WInv /\ WatchRows => WInv'
    <1> SUFFICES ASSUME IInv, WInv, WatchRows PROVE WInv'
        OBVIOUS
    <1>1. TypeOK
        BY DEF IInv
    <1>2. /\ window \in Nat /\ quiet \in Nat /\ idle \in Nat
          /\ PushLimit \in Nat
        BY <1>1, Counts
    <1>3. /\ child = "alive" /\ ~watched /\ ~pushing
          /\ pushing' = (rows /\ known) /\ lag' = 0
          /\ UNCHANGED <<window, calm, stepMode, known, child, cause, quiet,
                         marker, polled, idle, steady>>
        BY DEF WatchRows, config
    <1>4. OwnMarker'
        BY <1>3 DEF WInv, OwnMarker
    <1>5. Warm'
        <2> SUFFICES ASSUME Working'
                     PROVE  /\ idle' > 0 => idle' + PushLimit + 2 < window'
                            /\ quiet' <= idle' \/ OnItsWay'
            BY DEF Warm
        <2>1. /\ idle > 0 => idle + PushLimit + 2 < window
              /\ quiet <= idle \/ OnItsWay
            BY <1>3 DEF WInv, Warm, Working
        <2>2. ASSUME OnItsWay PROVE OnItsWay'
            <3>1. CASE rows /\ quiet + PushLimit + 2 <= window
                <4>1. pushing'
                    BY <1>3, <3>1 DEF Working
                <4>2. quiet' + (PushLimit - lag') + 2 <= window'
                    BY <1>2, <1>3, <3>1
                <4> QED
                    BY <4>1, <4>2 DEF OnItsWay
            <3>2. CASE /\ marker.age <= 1 /\ quiet + 1 <= window
                       /\ polled => marker.age = 0 /\ quiet + 2 <= window
                BY <1>3, <3>2 DEF OnItsWay
            <3> QED
                BY <1>3, <2>2, <3>1, <3>2 DEF OnItsWay
        <2> QED
            BY <1>3, <2>1, <2>2
    <1> QED
        BY <1>3, <1>4, <1>5, NoCauseYet DEF WInv

\* What is written is a heartbeat of the turn under way.
LEMMA WriteKeepsWork == IInv /\ WInv /\ WriteMarker => WInv'
    <1> SUFFICES ASSUME IInv, WInv, WriteMarker PROVE WInv'
        OBVIOUS
    <1>1. TypeOK
        BY DEF IInv
    <1>2. /\ window \in Nat /\ quiet \in Nat /\ idle \in Nat
          /\ PushLimit \in Nat /\ lag \in Nat /\ lag <= PushLimit
        BY <1>1, Counts
    <1>3. /\ pushing /\ marker' = Heartbeat
          /\ UNCHANGED <<window, calm, stepMode, known, child, cause, quiet,
                         polled, idle, steady>>
        BY DEF WriteMarker, EndPush, config
    <1>4. marker'.named /\ marker'.current /\ marker'.age = 0
        BY <1>3 DEF Heartbeat
    <1>5. OwnMarker'
        BY <1>4 DEF OwnMarker
    <1>6. Warm'
        <2> SUFFICES ASSUME Working'
                     PROVE  /\ idle' > 0 => idle' + PushLimit + 2 < window'
                            /\ quiet' <= idle' \/ OnItsWay'
            BY DEF Warm
        <2>1. /\ idle > 0 => idle + PushLimit + 2 < window
              /\ quiet <= idle \/ OnItsWay
            BY <1>3 DEF WInv, Warm, Working
        <2>2. ASSUME OnItsWay PROVE OnItsWay'
            <3>1. /\ quiet + 1 <= window
                  /\ polled => quiet + 2 <= window
                <4>1. CASE quiet + (PushLimit - lag) + 2 <= window
                    BY <1>2, <4>1
                <4>2. CASE /\ quiet + 1 <= window
                           /\ polled => quiet + 2 <= window
                    BY <4>2
                <4> QED
                    BY <1>3, <2>2, <4>1, <4>2 DEF OnItsWay
            <3>2. marker'.age <= 1
                BY <1>4
            <3> QED
                BY <1>3, <1>4, <3>1, <3>2 DEF OnItsWay
        <2> QED
            BY <1>3, <2>1, <2>2
    <1>7. Unharmed' /\ WatchedWorkSurvives'
        BY <1>3 DEF WInv, Unharmed, WatchedWorkSurvives, WorkSurvives
    <1> QED
        BY <1>5, <1>6, <1>7 DEF WInv

LEMMA DisturbKeepsWork == IInv /\ WInv /\ (Rename \/ HookWrites) => WInv'
    <1> SUFFICES ASSUME IInv, WInv, Rename \/ HookWrites PROVE WInv'
        OBVIOUS
    <1>1. ~calm'
        BY DEF Rename, HookWrites, config
    <1>2. UNCHANGED <<child, cause>>
        BY DEF Rename, HookWrites
    <1> QED
        BY <1>1, <1>2 DEF WInv, OwnMarker, Warm, Working, Unharmed,
                          WatchedWorkSurvives, WorkSurvives

\* The watchdog finds the marker, and the row has arrived at the clock.
LEMMA ListenKeepsWork == IInv /\ WInv /\ Listen => WInv'
    <1> SUFFICES ASSUME IInv, WInv, Listen PROVE WInv'
        OBVIOUS
    <1>1. TypeOK
        BY DEF IInv
    <1>2. /\ window \in Nat /\ quiet \in Nat /\ idle \in Nat
          /\ marker.age \in Nat
          /\ PushLimit \in Nat /\ lag \in Nat /\ lag <= PushLimit
        BY <1>1, Counts
    <1>3. /\ child = "alive"
          /\ quiet' = IF MarkerAlive THEN 0 ELSE quiet
          /\ UNCHANGED <<window, calm, stepMode, child, cause, marker, known,
                         rows, pushing, lag, watched, idle, steady>>
        BY DEF Listen, Poll, config, watcher
    <1>4. OwnMarker'
        BY <1>3 DEF WInv, OwnMarker
    <1>5. Warm'
        <2> SUFFICES ASSUME Working'
                     PROVE  /\ idle' > 0 => idle' + PushLimit + 2 < window'
                            /\ quiet' <= idle' \/ OnItsWay'
            BY DEF Warm
        <2>1. /\ idle > 0 => idle + PushLimit + 2 < window
              /\ quiet <= idle \/ OnItsWay
            BY <1>3 DEF WInv, Warm, Working
        <2>2. window > 0 /\ calm
            BY <1>3 DEF Working
        <2>3. CASE MarkerAlive
            BY <1>2, <1>3, <2>1, <2>3
        <2>4. CASE ~MarkerAlive
            <3>1. quiet' = quiet
                BY <1>3, <2>4
            <3>2. ~(marker.age <= 1)
                <4>1. marker.named /\ marker.current
                    BY <1>3, <2>2 DEF WInv, OwnMarker
                <4>2. ~(marker.age <= window)
                    BY <2>2, <2>4, <4>1 DEF MarkerAlive
                <4> QED
                    BY <1>2, <2>2, <4>2
            <3>3. ASSUME OnItsWay PROVE OnItsWay'
                <4>1. CASE /\ rows /\ ~pushing
                           /\ quiet + PushLimit + (IF watched THEN 3 ELSE 2)
                                <= window
                    BY <1>3, <3>1, <4>1 DEF OnItsWay
                <4>2. CASE pushing /\ quiet + (PushLimit - lag) + 2 <= window
                    BY <1>3, <3>1, <4>2 DEF OnItsWay
                <4> QED
                    BY <3>2, <3>3, <4>1, <4>2 DEF OnItsWay
            <3> QED
                BY <1>3, <2>1, <3>1, <3>3
        <2> QED
            BY <2>3, <2>4
    <1> QED
        BY <1>3, <1>4, <1>5, NoCauseYet DEF WInv

\* A second costs the row one of the seconds it has, and both polls have been.
LEMMA TickKeepsWork == IInv /\ WInv /\ Tick => WInv'
    <1> SUFFICES ASSUME IInv, WInv, Tick PROVE WInv'
        OBVIOUS
    <1>1. TypeOK
        BY DEF IInv
    <1>2. /\ window \in Nat /\ Horizon \in Nat
          /\ quiet \in Nat /\ idle \in Nat /\ marker.age \in Nat
          /\ PushLimit \in Nat /\ lag \in Nat
        BY <1>1, Counts, Limits
    <1>3. /\ quiet \in Seconds /\ idle \in Seconds /\ marker.age \in Seconds
          /\ window + 2 <= Horizon
        BY <1>1, <1>2, Limits DEF TypeOK, Markers
    <1>4. /\ child = "alive" /\ polled
          /\ stepMode => watched \/ pushing
          /\ lag' = IF pushing THEN lag + 1 ELSE lag
          /\ ~polled' /\ ~watched'
          /\ UNCHANGED <<window, calm, stepMode, known, child, cause, rows,
                         pushing>>
        BY DEF Tick, config
    <1>5. OwnMarker'
        <2>1. /\ marker'.named = marker.named
              /\ marker'.current = marker.current
            BY <1>1 DEF Tick, TypeOK, Markers
        <2> QED
            BY <1>4, <2>1 DEF WInv, OwnMarker
    <1>6. Warm'
        <2> SUFFICES ASSUME Working'
                     PROVE  /\ idle' > 0 => idle' + PushLimit + 2 < window'
                            /\ quiet' <= idle' \/ OnItsWay'
            BY DEF Warm
        <2>1. steady /\ idle' + PushLimit + 2 < window
            BY DEF Tick, Working
        <2>2. Working /\ stepMode /\ window > 0
            BY <1>4, <2>1 DEF Working
        <2>3. /\ idle > 0 => idle + PushLimit + 2 < window
              /\ quiet <= idle \/ OnItsWay
            BY <2>2 DEF WInv, Warm
        <2>4. quiet < window
            BY <1>4, <2>2 DEF IInv, PolledInTime
        <2>5. quiet' = quiet + 1
            <3>1. quiet < Horizon
                BY <1>2, <1>3, <2>4
            <3> QED
                BY <1>3, <3>1, Seconds1 DEF Tick
        <2>6. idle' = idle + 1
            <3>1. idle' \in Seconds /\ (idle' = idle + 1 \/ idle' = Horizon)
                BY <1>3, Seconds1 DEF Tick
            <3>2. idle' /= Horizon
                <4>1. window + 2 <= Horizon /\ idle' + PushLimit + 2 < window
                    BY <1>3, <2>1
                <4>2. ~(Horizon + PushLimit + 2 < window)
                    BY <1>2, <4>1
                <4> QED
                    BY <4>1, <4>2
            <3> QED
                BY <3>1, <3>2
        <2>7. CASE quiet <= idle
            <3>1. quiet' <= idle'
                BY <1>2, <2>5, <2>6, <2>7
            <3> QED
                BY <1>4, <2>1, <3>1
        <2>8. CASE OnItsWay
            <3>1. CASE rows /\ ~pushing /\ quiet + PushLimit + 3 <= window
                <4>1. quiet' + PushLimit + 2 <= window'
                    BY <1>2, <1>4, <2>5, <3>1
                <4>2. quiet' + PushLimit + (IF watched' THEN 3 ELSE 2)
                        <= window'
                    BY <1>4, <4>1
                <4>3. OnItsWay'
                    BY <1>4, <3>1, <4>2 DEF OnItsWay
                <4> QED
                    BY <1>4, <2>1, <4>3
            <3>2. CASE marker.age = 0 /\ quiet + 2 <= window
                <4>1. marker'.age = 1
                    <5>1. 0 < Horizon
                        BY <1>2, <1>3
                    <5>2. Later(0) = 1
                        BY <1>3, <3>2, <5>1 DEF Later
                    <5> QED
                        BY <1>1, <3>2, <5>2 DEF Tick, TypeOK, Markers
                <4>2. quiet' + 1 <= window'
                    BY <1>2, <1>4, <2>5, <3>2
                <4>3. OnItsWay'
                    BY <1>4, <4>1, <4>2 DEF OnItsWay
                <4> QED
                    BY <1>4, <2>1, <4>3
            <3>3. CASE pushing /\ quiet + (PushLimit - lag) + 2 <= window
                <4>1. quiet' + (PushLimit - lag') + 2 <= window'
                    BY <1>2, <1>4, <2>5, <3>3
                <4> QED
                    BY <1>4, <2>1, <3>3, <4>1 DEF OnItsWay
            <3>4. \/ rows /\ ~pushing /\ quiet + PushLimit + 3 <= window
                  \/ pushing /\ quiet + (PushLimit - lag) + 2 <= window
                  \/ marker.age = 0 /\ quiet + 2 <= window
                BY <1>4, <2>2, <2>8 DEF OnItsWay
            <3> QED
                BY <3>1, <3>2, <3>3, <3>4
        <2> QED
            BY <2>3, <2>7, <2>8
    <1> QED
        BY <1>4, <1>5, <1>6, NoCauseYet DEF WInv

LEMMA NextKeepsWork == IInv /\ WInv /\ [Next]_vars => WInv'
    <1> SUFFICES ASSUME IInv, WInv, [Next]_vars PROVE WInv'
        OBVIOUS
    <1>1. CASE Next
        BY <1>1, SpawnKeepsWork, ProgressKeepsWork, EndKeepsWork,
           WatchKeepsWork, WriteKeepsWork, DisturbKeepsWork, ListenKeepsWork,
           TickKeepsWork DEF Next
    <1>2. CASE UNCHANGED vars
        BY <1>2 DEF vars, config, watcher, WInv, OwnMarker, Warm, Working,
                    OnItsWay, Unharmed, WatchedWorkSurvives, WorkSurvives
    <1> QED
        BY <1>1, <1>2

\* For every window and every longest push, a child whose step watcher knows its
\* session, and that prints or runs a tool in every window less the time of a
\* push and two seconds, is never killed as silent, when nobody disturbs its
\* marker.
THEOREM WorkersSurvive == Spec => []WatchedWorkSurvives
    <1>1. WInv => WatchedWorkSurvives
        BY DEF WInv
    <1>2. Spec => [](IInv /\ WInv)
        BY InitIInv, InitWInv, NextKeeps, NextKeepsWork, PTL DEF Spec
    <1> QED
        BY <1>1, <1>2, PTL
=============================================================================
