----------------------------- MODULE Announcer -----------------------------
(***************************************************************************)
(* The periodic re-announce of core/bridge.py: announce(), which a start   *)
(* and every /announce call in threads of their own, the loop thread of    *)
(* each timer, and stop(), which the main thread and the thread of a       *)
(* signal may both call.                                                   *)
(*                                                                         *)
(* The swap of timers runs under _announce_lock, but the cadence is        *)
(* written outside it, the loops read their stop event from the bridge     *)
(* without it, and announce(0) forgets a timer without stopping it.        *)
(***************************************************************************)
EXTENDS Naturals

CONSTANTS
    Callers,            \* threads that call announce()
    Stoppers,           \* threads that call stop()
    Cadences,           \* valid intervals other than 0, in minutes
    EnvInterval,        \* RETICULUM_ANNOUNCE_INTERVAL, a cadence or 0
    MaxTimers,          \* bound: timers ever started
    Nobody              \* holds no lock

ASSUME AnnouncerAssumption ==
    /\ Callers \cap Stoppers = {}
    /\ Cadences \subseteq Nat \ {0}
    /\ EnvInterval \in Cadences \cup {0}
    /\ MaxTimers \in Nat
    /\ Nobody \notin Callers \cup Stoppers

VARIABLES
    running,            \* _running: "runs" or "stopped"
    cadence,            \* announce_interval_min
    timer,              \* _announce_timer: number of its thread, 0 is None
    event,              \* _announce_timer_stop: number of its event, 0 is None
    born,               \* timers started: each brings a thread and an event
    rung,               \* the events that are set
    owner,              \* who holds _announce_lock
    doing,              \* where each caller and stopper is
    want,               \* the interval each caller is about to set
    loop,               \* where each loop thread is
    watches,            \* the event each loop waits on
    forgotten           \* history: events that announce(0) has dropped

annVars == <<running, cadence, timer, event, born, rung, owner, doing, want,
             loop, watches, forgotten>>

Timers == 1..MaxTimers
Intervals == Cadences \cup {0}
Threads == Callers \cup Stoppers
Inside == {"swap", "ring", "join", "start"}
Looping == {"waits", "woken", "announces"}

AnnInit ==
    /\ running = "runs"
    /\ cadence = EnvInterval
    /\ timer = 0
    /\ event = 0
    /\ born = 0
    /\ rung = {}
    /\ owner = Nobody
    /\ doing = [t \in Threads |-> "idle"]
    /\ want = [c \in Callers |-> 0]
    /\ loop = [i \in Timers |-> "unborn"]
    /\ watches = [i \in Timers |-> 0]
    /\ forgotten = {}

Advance(t, from, to) ==
    /\ doing[t] = from
    /\ doing' = [doing EXCEPT ![t] = to]

Leave(t, from, to) == Advance(t, from, to) /\ owner' = Nobody

-----------------------------------------------------------------------------
(* announce()                                                              *)

\* A bare /announce keeps the cadence it reads here.
AskCadence(c) ==
    /\ Advance(c, "idle", "asked")
    /\ \E w \in Intervals : want' = [want EXCEPT ![c] = w]
    /\ UNCHANGED <<running, cadence, timer, event, born, rung, owner, loop,
                   watches, forgotten>>

AskAgain(c) ==
    /\ Advance(c, "idle", "asked")
    /\ want' = [want EXCEPT ![c] = cadence]
    /\ UNCHANGED <<running, cadence, timer, event, born, rung, owner, loop,
                   watches, forgotten>>

\* The first announce goes out before the lock is taken.
SetCadence(c) ==
    /\ Advance(c, "asked", "set")
    /\ cadence' = want[c]
    /\ UNCHANGED <<running, timer, event, born, rung, owner, want, loop, watches,
                   forgotten>>

Lock(t, from) ==
    /\ owner = Nobody
    /\ Advance(t, from, "swap")
    /\ owner' = t
    /\ UNCHANGED <<running, cadence, timer, event, born, rung, want, loop,
                   watches, forgotten>>

\* The bound: beyond MaxTimers a caller never gets the lock.
CallerLock(c) ==
    /\ want[c] > 0 => born < MaxTimers
    /\ Lock(c, "set")

NeverTooLate(c) == FALSE

TooLate(c) == running = "stopped"

\* stop() came first: no thread is started after shutdown.
Refrain(c) ==
    /\ TooLate(c)
    /\ Leave(c, "swap", "idle")
    /\ want' = [want EXCEPT ![c] = 0]
    /\ UNCHANGED <<running, cadence, timer, event, born, rung, loop, watches,
                   forgotten>>

\* announce(0): the timer is forgotten, and its event is not set.
Forget(c) ==
    /\ ~TooLate(c)
    /\ want[c] = 0
    /\ Leave(c, "swap", "idle")
    /\ timer' = 0
    /\ event' = 0
    /\ forgotten' = forgotten \cup ({event} \ {0})
    /\ UNCHANGED <<running, cadence, born, rung, want, loop, watches>>

Swap(c) ==
    /\ ~TooLate(c)
    /\ want[c] > 0
    /\ Advance(c, "swap", "ring")
    /\ UNCHANGED <<running, cadence, timer, event, born, rung, owner, want, loop,
                   watches, forgotten>>

-----------------------------------------------------------------------------
(* _stop_announce_timer(), for a swap and for stop()                       *)

RingsNone(e) == rung

Rings(e) == rung \cup ({e} \ {0})

Ring(t) ==
    /\ Advance(t, "ring", "join")
    /\ rung' = Rings(event)
    /\ UNCHANGED <<running, cadence, timer, event, born, owner, want, loop,
                   watches, forgotten>>

\* join(timeout=5) returns when the loop has ended, and when it has not.
Join(t) ==
    /\ timer' = 0
    /\ IF t \in Callers THEN Advance(t, "join", "start") /\ UNCHANGED owner
                        ELSE Leave(t, "join", "done")
    /\ UNCHANGED <<running, cadence, event, born, rung, want, loop, watches,
                   forgotten>>

FindsOld(old, new) == old

\* The event a new loop finds: the new one, for it is created first.
Finds(old, new) == new

Start(c) ==
    LET new == born + 1 IN
    /\ Leave(c, "start", "idle")
    /\ born' = new
    /\ timer' = new
    /\ event' = Finds(event, new)
    /\ loop' = [loop EXCEPT ![new] = "started"]
    /\ want' = [want EXCEPT ![c] = 0]
    /\ UNCHANGED <<running, cadence, rung, watches, forgotten>>

-----------------------------------------------------------------------------
(* _announce_loop()                                                        *)

Step(i, from, to) ==
    /\ loop[i] = from
    /\ loop' = [loop EXCEPT ![i] = to]

\* None has no wait(): a loop that finds it dies of an AttributeError.
ReadEvent(i) ==
    /\ Step(i, "started", IF event = 0 THEN "ended" ELSE "waits")
    /\ watches' = [watches EXCEPT ![i] = event]
    /\ UNCHANGED <<running, cadence, timer, event, born, rung, owner, doing,
                   want, forgotten>>

IntervalPasses(i) ==
    /\ watches[i] \notin rung
    /\ Step(i, "waits", "woken")
    /\ UNCHANGED <<running, cadence, timer, event, born, rung, owner, doing,
                   want, watches, forgotten>>

Obey(i) ==
    /\ watches[i] \in rung
    /\ Step(i, "waits", "ended")
    /\ UNCHANGED <<running, cadence, timer, event, born, rung, owner, doing,
                   want, watches, forgotten>>

NextMoveBlind(i) == "announces"

NextMove(i) == IF running = "stopped" THEN "ended" ELSE "announces"

LookAround(i) ==
    /\ Step(i, "woken", NextMove(i))
    /\ UNCHANGED <<running, cadence, timer, event, born, rung, owner, doing,
                   want, watches, forgotten>>

\* _do_announce(): a failure is logged and the loop goes on.
DoAnnounce(i) ==
    /\ Step(i, "announces", "waits")
    /\ UNCHANGED <<running, cadence, timer, event, born, rung, owner, doing,
                   want, watches, forgotten>>

-----------------------------------------------------------------------------
(* stop()                                                                  *)

Halt(s) ==
    /\ Advance(s, "idle", "set")
    /\ running' = "stopped"
    /\ UNCHANGED <<cadence, timer, event, born, rung, owner, want, loop, watches,
                   forgotten>>

StopTimer(s) ==
    /\ Advance(s, "swap", "ring")
    /\ UNCHANGED <<running, cadence, timer, event, born, rung, owner, want, loop,
                   watches, forgotten>>

CallerStep(c) ==
    \/ AskCadence(c) \/ AskAgain(c) \/ SetCadence(c)
    \/ CallerLock(c) \/ Refrain(c) \/ Forget(c) \/ Swap(c)
    \/ Ring(c) \/ Join(c) \/ Start(c)

StopperStep(s) ==
    Halt(s) \/ Lock(s, "set") \/ StopTimer(s) \/ Ring(s) \/ Join(s)

LoopStep(i) ==
    ReadEvent(i) \/ IntervalPasses(i) \/ Obey(i) \/ LookAround(i) \/ DoAnnounce(i)

AnnNext ==
    \/ \E c \in Callers : CallerStep(c)
    \/ \E s \in Stoppers : StopperStep(s)
    \/ \E i \in Timers : LoopStep(i)

AnnSpec == AnnInit /\ [][AnnNext]_annVars

-----------------------------------------------------------------------------
(* Properties                                                              *)

AnnTypeOK ==
    /\ running \in {"runs", "stopped"}
    /\ cadence \in Intervals
    /\ born \in 0..MaxTimers
    /\ timer \in 0..born
    /\ event \in 0..born
    /\ rung \subseteq 1..born
    /\ owner \in Threads \cup {Nobody}
    /\ doing \in [Threads -> Inside \cup {"idle", "asked", "set", "done"}]
    /\ want \in [Callers -> Intervals]
    /\ loop \in [Timers -> Looping \cup {"unborn", "started", "ended"}]
    /\ watches \in [Timers -> 0..born]
    /\ forgotten \subseteq 1..born

\* The event that will end loop i: the one it waits on, or the one it will find.
Follows(i) == IF loop[i] = "started" THEN event ELSE watches[i]

Alive(i) == loop[i] \in Looping \cup {"started"}

\* Whatever the order in which announces, late loops and joins that time out
\* come, every loop that goes on is within reach of the next swap or of stop():
\* its event is the current one or is set.  Only a loop that announce(0) has
\* forgotten is not.
LoopsReachable ==
    \A i \in Timers :
        Alive(i) => Follows(i) \in {event} \cup rung \cup forgotten

\* "If stop() already ran and cleared the timer, don't spawn a new daemon
\* thread after shutdown": once a stop() has returned, no loop is left that
\* was not told to end, and no call in flight will start one.
StopIsFinal ==
    (\E s \in Stoppers : doing[s] = "done") =>
        /\ \A i \in Timers :
               Alive(i) => Follows(i) \in {0} \cup rung \cup forgotten
        /\ \A c \in Callers : doing[c] \notin {"ring", "join", "start"}

\* The bridge stays discoverable: the timer it holds runs, unless it was told
\* to end.  No swap makes a new loop read the event of its predecessor, or none.
TimerRuns ==
    timer # 0 /\ running = "runs" => Alive(timer) \/ event \in rung

\* Once stop() has returned every loop ends, also one that was forgotten.
StoppedLoopsEnd ==
    (\E s \in Stoppers : doing[s] = "done")
        ~> \A i \in Timers : ~Alive(i)

AnnFairness ==
    \A i \in Timers : WF_annVars(LoopStep(i))

AnnFairSpec == AnnSpec /\ AnnFairness
=============================================================================
