--------------------------- MODULE LivenessGuard ---------------------------
(***************************************************************************)
(* The clock of the liveness guard of core/hermes_client.py: successive    *)
(* turns, the hermes child of the turn under way, the silence window, the  *)
(* hard cap, the turn-alive marker file and its writers, and the polls of  *)
(* the watchdog and of the step watcher, each once a second.  The unit of  *)
(* time is the second.  How the watchdog's kill meets the other threads is *)
(* TurnGuard's subject: here a kill is one step.                           *)
(***************************************************************************)
EXTENDS Naturals

CONSTANTS
    Windows,            \* values of HERMES_LIVENESS_TIMEOUT (0 is off)
    Caps,               \* values of HERMES_TURN_HARD_CAP (0 is off)
    PushLimit,          \* bound: the most seconds the mesh takes for a batch
    Horizon             \* bound: seconds are counted up to here

ASSUME ClockAssumption ==
    /\ Windows \subseteq Nat /\ Caps \subseteq Nat
    /\ PushLimit \in Nat /\ Horizon \in Nat
    /\ \A w \in Windows : 2 * w + 2 * PushLimit + 3 <= Horizon
    /\ \A c \in Caps : c + 2 <= Horizon

VARIABLES
    window, cap,        \* the configuration
    stepMode,           \* the turn has a step watcher ...
    known,              \* ... that was given the id of the turn's session
    calm,               \* nothing disturbs the marker (see Rename)
    child,              \* the hermes child
    cause,              \* why the last child ended
    age,                \* seconds since the child's spawn
    quiet,              \* seconds since last_activity
    marker,             \* the turn-alive file
    rows,               \* state.db has tool rows the watcher has not seen
    pushing,            \* the watcher sends a batch of tool calls to the mesh
    lag,                \* seconds since it began
    polled,             \* the watchdog has polled this second
    watched,            \* the step watcher has polled this second
    idle,               \* history: seconds since the child's last progress
    steady              \* history: see Tick

config == <<window, cap, stepMode, calm>>
watcher == <<known, rows, pushing, lag, watched>>
vars == <<config, child, cause, age, quiet, marker, polled, watcher, idle,
          steady>>

Seconds == 0..Horizon

\* named: its session is session_name; current: its gen is _turn_alive_gen.
Markers == [named : BOOLEAN, current : BOOLEAN, age : Seconds]
NoMarker == [named |-> FALSE, current |-> FALSE, age |-> Horizon]
GenlessHeartbeat == [named |-> TRUE, age |-> 0]
Heartbeat == [named |-> TRUE, current |-> TRUE, age |-> 0]

Later(t) == IF t < Horizon THEN t + 1 ELSE t

Init ==
    /\ window \in Windows /\ cap \in Caps
    /\ stepMode \in BOOLEAN /\ calm \in BOOLEAN
    /\ child = "none" /\ cause = "none"
    /\ age = 0 /\ quiet = 0 /\ idle = 0
    /\ \E n, k \in BOOLEAN :
          marker = [named |-> n, current |-> k, age |-> 0]  \* an older bridge's
    /\ known = FALSE /\ rows = FALSE /\ pushing = FALSE /\ lag = 0
    /\ polled = FALSE /\ watched = FALSE
    /\ steady = TRUE

-----------------------------------------------------------------------------
(* The turn                                                                *)

\* bump_turn_alive_gen(), then _run_with_liveness_guard() up to the spawn: the
\* clock starts, the marker is cleared and written again.  chat() has fixed the
\* session id of the watcher before it waited for the turn lock, and there is
\* none on the first turn of a thread.
Spawn ==
    /\ child /= "alive"
    /\ calm => ~pushing
    /\ child' = "alive" /\ cause' = "none"
    /\ age' = 0 /\ quiet' = 0 /\ idle' = 0 /\ steady' = TRUE
    /\ marker' = Heartbeat
    /\ known' \in BOOLEAN /\ rows' = FALSE
    /\ pushing' = FALSE /\ lag' = 0
    /\ polled' = FALSE /\ watched' = FALSE
    /\ UNCHANGED config

Progress ==
    /\ child = "alive"
    /\ idle' = 0
    /\ UNCHANGED <<config, child, cause, age, marker, known, pushing, lag,
                   polled, watched, steady>>

\* A line on stdout or stderr: a reader thread touches the clock.
PrintLine == Progress /\ quiet' = 0 /\ UNCHANGED rows

\* The child stores a tool call or a tool result in state.db.
StoreRow == Progress /\ rows' = TRUE /\ UNCHANGED quiet

End(why) ==
    /\ child = "alive"
    /\ child' = "dead" /\ cause' = why
    /\ UNCHANGED <<config, age, quiet, watcher, idle, steady>>

\* The marker of a turn that ends by itself stays.
Exit == End("self") /\ UNCHANGED <<marker, polled>>

-----------------------------------------------------------------------------
(* _run_step_watcher()                                                     *)

\* A poll.  The queries of a watcher without a session id match nothing;
\* otherwise the rows are fetched and their push begins.
WatchRows ==
    /\ child = "alive" /\ stepMode
    /\ ~watched /\ ~pushing
    /\ watched' = TRUE
    /\ pushing' = (rows /\ known)
    /\ rows' = (rows /\ ~known)
    /\ lag' = 0
    /\ UNCHANGED <<config, child, cause, age, quiet, marker, known, polled,
                   idle, steady>>

EndPush ==
    /\ pushing
    /\ pushing' = FALSE /\ lag' = 0
    /\ watched' = TRUE                          \* the next poll is a second away
    /\ UNCHANGED <<config, child, cause, age, quiet, known, rows, polled, idle,
                   steady>>

ForgetMarker == EndPush /\ UNCHANGED marker

\* The batch is sent, part by part and each at its pace: only now the marker is
\* written, with the session name and the generation of this moment.
WriteMarker == EndPush /\ marker' = Heartbeat

-----------------------------------------------------------------------------
(* What disturbs the marker, absent when calm.                            *)

\* /new gives the thread another name.
Rename ==
    /\ ~calm
    /\ marker' = [marker EXCEPT !.named = FALSE]
    /\ UNCHANGED <<config, child, cause, age, quiet, polled, watcher, idle,
                   steady>>

\* The step hook of the gateway process writes the same file for any session,
\* the watcher of another turn, queued or not yet gone, writes it when its own
\* push is over, and a write or a read may fail.
HookWrites ==
    /\ ~calm
    /\ \/ marker' = NoMarker
       \/ \E n, k \in BOOLEAN :
             marker' = [named |-> n, current |-> k, age |-> 0]
    /\ UNCHANGED <<config, child, cause, age, quiet, polled, watcher, idle,
                   steady>>

-----------------------------------------------------------------------------
(* _watchdog(), once a second                                              *)

DeafMarkerAlive == window > 0 /\ marker.named /\ marker.current

\* _marker_alive()
MarkerAlive ==
    /\ window > 0
    /\ marker.age <= window
    /\ marker.named /\ marker.current

WindowedCap == window > 0 /\ cap > 0 /\ age > cap

CapDue == cap > 0 /\ age > cap

SilenceDue == window > 0 /\ quiet >= window

Poll == child = "alive" /\ ~polled /\ polled' = TRUE

Bite(why) == End(why) /\ marker' = NoMarker

BiteAtCap == Poll /\ CapDue /\ Bite("cap")

BiteSilent == Poll /\ ~CapDue /\ SilenceDue /\ Bite("silent")

\* A fresh marker counts as activity at this moment, whenever it was written.
Listen ==
    /\ Poll
    /\ ~CapDue /\ ~SilenceDue
    /\ quiet' = IF MarkerAlive THEN 0 ELSE quiet
    /\ UNCHANGED <<config, child, cause, age, marker, watcher, idle, steady>>

\* A second passes: the watchdog has polled, and the watcher too unless it is
\* pushing.  Steady is a child whose every progress leaves the window the time
\* of a push and of two polls.
Tick ==
    /\ child = "alive"
    /\ polled
    /\ stepMode => watched \/ pushing
    /\ pushing => lag < PushLimit
    /\ lag' = IF pushing THEN lag + 1 ELSE lag
    /\ polled' = FALSE /\ watched' = FALSE
    /\ age' = Later(age) /\ quiet' = Later(quiet) /\ idle' = Later(idle)
    /\ marker' = [marker EXCEPT !.age = Later(@)]
    /\ steady' = (steady /\ idle' + PushLimit + 2 < window)
    /\ UNCHANGED <<config, child, cause, known, rows, pushing>>

Next ==
    \/ Spawn \/ PrintLine \/ StoreRow \/ Exit
    \/ WatchRows \/ WriteMarker \/ Rename \/ HookWrites
    \/ BiteAtCap \/ BiteSilent \/ Listen
    \/ Tick

Spec == Init /\ [][Next]_vars

-----------------------------------------------------------------------------
(* Properties                                                              *)

\* Each variable holds a value of its kind.
TypeOK ==
    /\ window \in Windows /\ cap \in Caps
    /\ stepMode \in BOOLEAN /\ calm \in BOOLEAN
    /\ child \in {"none", "alive", "dead"}
    /\ cause \in {"none", "self", "cap", "silent"}
    /\ age \in Seconds /\ quiet \in Seconds /\ idle \in Seconds
    /\ marker \in Markers
    /\ known \in BOOLEAN /\ rows \in BOOLEAN
    /\ pushing \in BOOLEAN /\ lag \in 0..PushLimit
    /\ polled \in BOOLEAN /\ watched \in BOOLEAN /\ steady \in BOOLEAN

\* A slow but working model runs to completion (hermes_client.py:151-157): a
\* child is not killed as silent when it has printed or run a tool in every
\* window, less the seconds a push and two polls may take to tell of it ...
WorkSurvives == calm /\ cause = "silent" => ~steady

\* ... which the code keeps for the turns that have a step watcher, except the
\* first turn of a thread, whose watcher looks for rows of no session.
WatchedWorkSurvives == stepMode /\ known => WorkSurvives

\* What the comment on the watcher promises (536-543): its refresh keeps a
\* working turn's marker fresh.  TLC refutes it on the first turn of a thread.
StepModeSurvives == stepMode => WorkSurvives

\* A stalled child is dead after two windows, two pushes and a second.  Its last
\* row may wait for the push of the one before and is only then pushed itself;
\* the marker written after that may be touched up to one window later, and the
\* silence is counted from the touch.
StalledIsKilled ==
    calm /\ window > 0 /\ child = "alive" =>
        idle <= 2 * window + 2 * PushLimit + 1

\* No turn outlives the hard cap by more than a poll, whatever keeps the marker
\* warm and with the silence window off too.
CapHolds == cap > 0 /\ child = "alive" => age <= cap + 1

=============================================================================
