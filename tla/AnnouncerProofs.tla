-------------------------- MODULE AnnouncerProofs --------------------------
(***************************************************************************)
(* Proofs about Announcer, for any number of callers, stoppers and timers: *)
(* the lock orders the swaps, so every loop stays within reach, a stop()   *)
(* that has returned is final, and the timer the bridge holds runs.        *)
(***************************************************************************)
EXTENDS Announcer, TLAPS

\* _announce_lock excludes.
Locked == \A t \in Threads : doing[t] \in Inside <=> owner = t

\* Whoever has passed the ringing has left no event that could be waited for,
\* and a caller that swaps has a timer left to start.
Swapping ==
    /\ \A t \in Threads : doing[t] \in {"join", "start"} => event \in rung \cup {0}
    /\ \A c \in Callers :
           /\ doing[c] \in {"ring", "join", "start"} => want[c] > 0
           /\ doing[c] \in Inside /\ want[c] > 0 => born < MaxTimers

\* A loop that has found its event can be reached by it.
Linked ==
    \A i \in Timers :
        loop[i] \in Looping => watches[i] \in ({event} \cup rung \cup forgotten) \ {0}

\* What a stop() has left behind at each of its steps.
Final ==
    \A s \in Stoppers :
        /\ doing[s] # "idle" => running = "stopped"
        /\ doing[s] = "done" =>
               /\ event \in rung \cup {0}
               /\ \A c \in Callers : doing[c] \notin {"ring", "join", "start"}

\* The timer the bridge holds and the event it holds belong together.
Current ==
    timer # 0 =>
        /\ timer = event
        /\ loop[timer] \in Looping => watches[timer] = timer
        /\ running = "runs" => Alive(timer) \/ event \in rung

AnnInv == AnnTypeOK /\ Locked /\ Swapping /\ Linked /\ Final /\ Current

-----------------------------------------------------------------------------

LEMMA Numbers ==
    /\ Callers \subseteq Threads /\ Stoppers \subseteq Threads
    /\ Callers \cap Stoppers = {}
    /\ Nobody \notin Threads
    /\ Intervals \subseteq Nat /\ 0 \in Intervals /\ EnvInterval \in Intervals
    /\ MaxTimers \in Nat
    BY AnnouncerAssumption DEF Threads, Intervals

LEMMA InitAnnInv == AnnInit => AnnInv
    <1> SUFFICES ASSUME AnnInit PROVE AnnInv
        OBVIOUS
    <1>1. AnnTypeOK
        BY Numbers DEF AnnInit, AnnTypeOK
    <1>2. Locked
        BY Numbers DEF AnnInit, Locked, Inside
    <1>3. Swapping /\ Final /\ Current
        BY Numbers DEF AnnInit, Swapping, Final, Current, Inside
    <1>4. Linked
        BY DEF AnnInit, Linked, Looping
    <1> QED
        BY <1>1, <1>2, <1>3, <1>4 DEF AnnInv

\* The holder of the lock is alone in the swap.
LEMMA AloneInSwap ==
    ASSUME AnnInv, NEW t \in Threads, doing[t] \in Inside
    PROVE  /\ owner = t /\ owner # Nobody
           /\ \A u \in Threads \ {t} : doing[u] \notin Inside
    BY Numbers DEF AnnInv, Locked

LEMMA AskCadenceKeeps ==
    ASSUME AnnInv, NEW c \in Callers, AskCadence(c) PROVE AnnInv'
    <1>1. AnnTypeOK'
        BY Numbers DEF AnnInv, AnnTypeOK, Inside, AskCadence, Advance
    <1>2. Locked'
        BY Numbers DEF AnnInv, AnnTypeOK, Locked, Inside, AskCadence, Advance
    <1>3. Swapping'
        BY Numbers, AloneInSwap DEF AnnInv, AnnTypeOK, Swapping, Inside, AskCadence,
           Advance
    <1>4. Linked'
        BY Numbers DEF AnnInv, AnnTypeOK, Linked, Looping, AskCadence, Advance
    <1>5. Final'
        BY Numbers, AloneInSwap DEF AnnInv, AnnTypeOK, Final, Inside, AskCadence,
           Advance
    <1>6. Current'
        BY Numbers DEF AnnInv, AnnTypeOK, Current, Alive, Looping, Timers,
           AskCadence, Advance
    <1> QED
        BY <1>1, <1>2, <1>3, <1>4, <1>5, <1>6 DEF AnnInv

LEMMA AskAgainKeeps ==
    ASSUME AnnInv, NEW c \in Callers, AskAgain(c) PROVE AnnInv'
    <1>1. AnnTypeOK'
        BY Numbers DEF AnnInv, AnnTypeOK, Inside, AskAgain, Advance
    <1>2. Locked'
        BY Numbers DEF AnnInv, AnnTypeOK, Locked, Inside, AskAgain, Advance
    <1>3. Swapping'
        BY Numbers, AloneInSwap DEF AnnInv, AnnTypeOK, Swapping, Inside, AskAgain,
           Advance
    <1>4. Linked'
        BY Numbers DEF AnnInv, AnnTypeOK, Linked, Looping, AskAgain, Advance
    <1>5. Final'
        BY Numbers, AloneInSwap DEF AnnInv, AnnTypeOK, Final, Inside, AskAgain,
           Advance
    <1>6. Current'
        BY Numbers DEF AnnInv, AnnTypeOK, Current, Alive, Looping, Timers,
           AskAgain, Advance
    <1> QED
        BY <1>1, <1>2, <1>3, <1>4, <1>5, <1>6 DEF AnnInv

LEMMA SetCadenceKeeps ==
    ASSUME AnnInv, NEW c \in Callers, SetCadence(c) PROVE AnnInv'
    <1>1. AnnTypeOK'
        BY Numbers DEF AnnInv, AnnTypeOK, Inside, SetCadence, Advance
    <1>2. Locked'
        BY Numbers DEF AnnInv, AnnTypeOK, Locked, Inside, SetCadence, Advance
    <1>3. Swapping'
        BY Numbers, AloneInSwap DEF AnnInv, AnnTypeOK, Swapping, Inside, SetCadence,
           Advance
    <1>4. Linked'
        BY Numbers DEF AnnInv, AnnTypeOK, Linked, Looping, SetCadence, Advance
    <1>5. Final'
        BY Numbers, AloneInSwap DEF AnnInv, AnnTypeOK, Final, Inside, SetCadence,
           Advance
    <1>6. Current'
        BY Numbers DEF AnnInv, AnnTypeOK, Current, Alive, Looping, Timers,
           SetCadence, Advance
    <1> QED
        BY <1>1, <1>2, <1>3, <1>4, <1>5, <1>6 DEF AnnInv

LEMMA CallerLockKeeps ==
    ASSUME AnnInv, NEW c \in Callers, CallerLock(c) PROVE AnnInv'
    <1>1. AnnTypeOK'
        BY Numbers DEF AnnInv, AnnTypeOK, Inside, CallerLock, Lock, Advance
    <1>2. Locked'
        BY Numbers DEF AnnInv, AnnTypeOK, Locked, Inside, CallerLock, Lock,
           Advance
    <1>3. Swapping'
        BY Numbers, AloneInSwap DEF AnnInv, AnnTypeOK, Swapping, Inside, CallerLock,
           Lock, Advance
    <1>4. Linked'
        BY Numbers DEF AnnInv, AnnTypeOK, Linked, Looping, CallerLock, Lock,
           Advance
    <1>5. Final'
        BY Numbers, AloneInSwap DEF AnnInv, AnnTypeOK, Final, Inside, CallerLock,
           Lock, Advance
    <1>6. Current'
        BY Numbers DEF AnnInv, AnnTypeOK, Current, Alive, Looping, Timers,
           CallerLock, Lock, Advance
    <1> QED
        BY <1>1, <1>2, <1>3, <1>4, <1>5, <1>6 DEF AnnInv

LEMMA RefrainKeeps ==
    ASSUME AnnInv, NEW c \in Callers, Refrain(c) PROVE AnnInv'
    <1>1. AnnTypeOK'
        BY Numbers DEF AnnInv, AnnTypeOK, Inside, Refrain, TooLate, Leave,
           Advance
    <1>2. Locked'
        BY Numbers DEF AnnInv, AnnTypeOK, Locked, Inside, Refrain, TooLate,
           Leave, Advance
    <1>3. Swapping'
        BY Numbers, AloneInSwap DEF AnnInv, AnnTypeOK, Swapping, Inside, Refrain,
           TooLate, Leave, Advance
    <1>4. Linked'
        BY Numbers DEF AnnInv, AnnTypeOK, Linked, Looping, Refrain, TooLate,
           Leave, Advance
    <1>5. Final'
        BY Numbers, AloneInSwap DEF AnnInv, AnnTypeOK, Final, Inside, Refrain,
           TooLate, Leave, Advance
    <1>6. Current'
        BY Numbers DEF AnnInv, AnnTypeOK, Current, Alive, Looping, Timers,
           Refrain, TooLate, Leave, Advance
    <1> QED
        BY <1>1, <1>2, <1>3, <1>4, <1>5, <1>6 DEF AnnInv

LEMMA ForgetKeeps ==
    ASSUME AnnInv, NEW c \in Callers, Forget(c) PROVE AnnInv'
    <1>1. AnnTypeOK'
        BY Numbers DEF AnnInv, AnnTypeOK, Inside, Forget, TooLate, Leave,
           Advance
    <1>2. Locked'
        BY Numbers DEF AnnInv, AnnTypeOK, Locked, Inside, Forget, TooLate,
           Leave, Advance
    <1>3. Swapping'
        BY Numbers, AloneInSwap DEF AnnInv, AnnTypeOK, Swapping, Inside, Forget,
           TooLate, Leave, Advance
    <1>4. Linked'
        BY Numbers DEF AnnInv, AnnTypeOK, Linked, Looping, Forget, TooLate,
           Leave, Advance
    <1>5. Final'
        BY Numbers, AloneInSwap DEF AnnInv, AnnTypeOK, Final, Inside, Forget,
           TooLate, Leave, Advance
    <1>6. Current'
        BY Numbers DEF AnnInv, AnnTypeOK, Current, Alive, Looping, Timers,
           Forget, TooLate, Leave, Advance
    <1> QED
        BY <1>1, <1>2, <1>3, <1>4, <1>5, <1>6 DEF AnnInv

LEMMA SwapKeeps ==
    ASSUME AnnInv, NEW c \in Callers, Swap(c) PROVE AnnInv'
    <1>1. AnnTypeOK'
        BY Numbers DEF AnnInv, AnnTypeOK, Inside, Swap, TooLate, Advance
    <1>2. Locked'
        BY Numbers DEF AnnInv, AnnTypeOK, Locked, Inside, Swap, TooLate,
           Advance
    <1>3. Swapping'
        BY Numbers, AloneInSwap DEF AnnInv, AnnTypeOK, Swapping, Inside, Swap,
           TooLate, Advance
    <1>4. Linked'
        BY Numbers DEF AnnInv, AnnTypeOK, Linked, Looping, Swap, TooLate,
           Advance
    <1>5. Final'
        BY Numbers, AloneInSwap DEF AnnInv, AnnTypeOK, Final, Inside, Swap, TooLate,
           Advance
    <1>6. Current'
        BY Numbers DEF AnnInv, AnnTypeOK, Current, Alive, Looping, Timers,
           Swap, TooLate, Advance
    <1> QED
        BY <1>1, <1>2, <1>3, <1>4, <1>5, <1>6 DEF AnnInv

LEMMA StartKeeps ==
    ASSUME AnnInv, NEW c \in Callers, Start(c) PROVE AnnInv'
    <1>1. AnnTypeOK'
        BY Numbers DEF AnnInv, AnnTypeOK, Inside, Looping, Timers, Swapping,
           Start, Finds, Leave, Advance
    <1>2. Locked'
        BY Numbers DEF AnnInv, AnnTypeOK, Locked, Inside, Start, Finds, Leave,
           Advance
    <1>3. Swapping'
        BY Numbers, AloneInSwap DEF AnnInv, AnnTypeOK, Swapping, Inside, Start,
           Finds, Leave, Advance
    <1>4. Linked'
        BY Numbers, AloneInSwap DEF AnnInv, AnnTypeOK, Linked, Looping, Swapping,
           Inside, Start, Finds, Leave, Advance
    <1>5. Final'
        BY Numbers, AloneInSwap DEF AnnInv, AnnTypeOK, Final, Inside, Start, Finds,
           Leave, Advance
    <1>6. Current'
        BY Numbers DEF AnnInv, AnnTypeOK, Current, Alive, Looping, Timers,
           Swapping, Inside, Start, Finds, Leave, Advance
    <1> QED
        BY <1>1, <1>2, <1>3, <1>4, <1>5, <1>6 DEF AnnInv

LEMMA HaltKeeps ==
    ASSUME AnnInv, NEW s \in Stoppers, Halt(s) PROVE AnnInv'
    <1>1. AnnTypeOK'
        BY Numbers DEF AnnInv, AnnTypeOK, Inside, Halt, Advance
    <1>2. Locked'
        BY Numbers DEF AnnInv, AnnTypeOK, Locked, Inside, Halt, Advance
    <1>3. Swapping'
        BY Numbers, AloneInSwap DEF AnnInv, AnnTypeOK, Swapping, Inside, Halt,
           Advance
    <1>4. Linked'
        BY Numbers DEF AnnInv, AnnTypeOK, Linked, Looping, Halt, Advance
    <1>5. Final'
        BY Numbers, AloneInSwap DEF AnnInv, AnnTypeOK, Final, Inside, Halt, Advance
    <1>6. Current'
        BY Numbers DEF AnnInv, AnnTypeOK, Current, Alive, Looping, Timers,
           Halt, Advance
    <1> QED
        BY <1>1, <1>2, <1>3, <1>4, <1>5, <1>6 DEF AnnInv

LEMMA StopperLockKeeps ==
    ASSUME AnnInv, NEW s \in Stoppers, Lock(s, "set") PROVE AnnInv'
    <1>1. AnnTypeOK'
        BY Numbers DEF AnnInv, AnnTypeOK, Inside, Lock, Advance
    <1>2. Locked'
        BY Numbers DEF AnnInv, AnnTypeOK, Locked, Inside, Lock, Advance
    <1>3. Swapping'
        BY Numbers, AloneInSwap DEF AnnInv, AnnTypeOK, Swapping, Inside, Lock,
           Advance
    <1>4. Linked'
        BY Numbers DEF AnnInv, AnnTypeOK, Linked, Looping, Lock, Advance
    <1>5. Final'
        BY Numbers, AloneInSwap DEF AnnInv, AnnTypeOK, Final, Inside, Lock, Advance
    <1>6. Current'
        BY Numbers DEF AnnInv, AnnTypeOK, Current, Alive, Looping, Timers,
           Lock, Advance
    <1> QED
        BY <1>1, <1>2, <1>3, <1>4, <1>5, <1>6 DEF AnnInv

LEMMA StopTimerKeeps ==
    ASSUME AnnInv, NEW s \in Stoppers, StopTimer(s) PROVE AnnInv'
    <1>1. AnnTypeOK'
        BY Numbers DEF AnnInv, AnnTypeOK, Inside, StopTimer, Advance
    <1>2. Locked'
        BY Numbers DEF AnnInv, AnnTypeOK, Locked, Inside, StopTimer, Advance
    <1>3. Swapping'
        BY Numbers, AloneInSwap DEF AnnInv, AnnTypeOK, Swapping, Inside, StopTimer,
           Advance
    <1>4. Linked'
        BY Numbers DEF AnnInv, AnnTypeOK, Linked, Looping, StopTimer, Advance
    <1>5. Final'
        BY Numbers, AloneInSwap DEF AnnInv, AnnTypeOK, Final, Inside, StopTimer,
           Advance
    <1>6. Current'
        BY Numbers DEF AnnInv, AnnTypeOK, Current, Alive, Looping, Timers,
           StopTimer, Advance
    <1> QED
        BY <1>1, <1>2, <1>3, <1>4, <1>5, <1>6 DEF AnnInv

LEMMA RingKeeps ==
    ASSUME AnnInv, NEW t \in Threads, Ring(t) PROVE AnnInv'
    <1>1. AnnTypeOK'
        BY Numbers DEF AnnInv, AnnTypeOK, Inside, Ring, Rings, Advance
    <1>2. Locked'
        BY Numbers DEF AnnInv, AnnTypeOK, Locked, Inside, Ring, Rings, Advance
    <1>3. Swapping'
        BY Numbers, AloneInSwap DEF AnnInv, AnnTypeOK, Swapping, Inside, Ring,
           Rings, Advance
    <1>4. Linked'
        BY Numbers DEF AnnInv, AnnTypeOK, Linked, Looping, Ring, Rings,
           Advance
    <1>5. Final'
        BY Numbers, AloneInSwap DEF AnnInv, AnnTypeOK, Final, Inside, Ring, Rings,
           Advance
    <1>6. Current'
        BY Numbers DEF AnnInv, AnnTypeOK, Current, Alive, Looping, Timers,
           Ring, Rings, Advance
    <1> QED
        BY <1>1, <1>2, <1>3, <1>4, <1>5, <1>6 DEF AnnInv

LEMMA JoinKeeps ==
    ASSUME AnnInv, NEW t \in Threads, Join(t) PROVE AnnInv'
    <1>1. AnnTypeOK'
        BY Numbers DEF AnnInv, AnnTypeOK, Inside, Join, Leave, Advance
    <1>2. Locked'
        BY Numbers DEF AnnInv, AnnTypeOK, Locked, Inside, Join, Leave, Advance
    <1>3. Swapping'
        BY Numbers, AloneInSwap DEF AnnInv, AnnTypeOK, Swapping, Inside, Join,
           Leave, Advance
    <1>4. Linked'
        BY Numbers, AloneInSwap DEF AnnInv, AnnTypeOK, Linked, Looping, Join, Leave,
           Advance
    <1>5. Final'
        BY Numbers, AloneInSwap DEF AnnInv, AnnTypeOK, Final, Inside, Swapping,
           Join, Leave, Advance
    <1>6. Current'
        BY Numbers DEF AnnInv, AnnTypeOK, Current, Alive, Looping, Timers,
           Join, Leave, Advance
    <1> QED
        BY <1>1, <1>2, <1>3, <1>4, <1>5, <1>6 DEF AnnInv

LEMMA ReadEventKeeps ==
    ASSUME AnnInv, NEW i \in Timers, ReadEvent(i) PROVE AnnInv'
    <1>1. AnnTypeOK'
        BY Numbers DEF AnnInv, AnnTypeOK, Inside, Looping, Timers, ReadEvent,
           Step
    <1>2. Locked'
        BY Numbers DEF AnnInv, AnnTypeOK, Locked, Inside, ReadEvent, Step
    <1>3. Swapping'
        BY Numbers DEF AnnInv, AnnTypeOK, Swapping, Inside, ReadEvent, Step
    <1>4. Linked'
        BY Numbers DEF AnnInv, AnnTypeOK, Linked, Looping, ReadEvent, Step
    <1>5. Final'
        BY Numbers DEF AnnInv, AnnTypeOK, Final, Inside, ReadEvent, Step
    <1>6. Current'
        BY Numbers DEF AnnInv, AnnTypeOK, Current, Alive, Looping, Timers,
           ReadEvent, Step
    <1> QED
        BY <1>1, <1>2, <1>3, <1>4, <1>5, <1>6 DEF AnnInv

LEMMA IntervalPassesKeeps ==
    ASSUME AnnInv, NEW i \in Timers, IntervalPasses(i) PROVE AnnInv'
    <1>1. AnnTypeOK'
        BY Numbers DEF AnnInv, AnnTypeOK, Inside, Looping, Timers,
           IntervalPasses, Step
    <1>2. Locked'
        BY Numbers DEF AnnInv, AnnTypeOK, Locked, Inside, IntervalPasses, Step
    <1>3. Swapping'
        BY Numbers DEF AnnInv, AnnTypeOK, Swapping, Inside, IntervalPasses,
           Step
    <1>4. Linked'
        BY Numbers DEF AnnInv, AnnTypeOK, Linked, Looping, IntervalPasses,
           Step
    <1>5. Final'
        BY Numbers DEF AnnInv, AnnTypeOK, Final, Inside, IntervalPasses, Step
    <1>6. Current'
        BY Numbers DEF AnnInv, AnnTypeOK, Current, Alive, Looping, Timers,
           IntervalPasses, Step
    <1> QED
        BY <1>1, <1>2, <1>3, <1>4, <1>5, <1>6 DEF AnnInv

LEMMA ObeyKeeps ==
    ASSUME AnnInv, NEW i \in Timers, Obey(i) PROVE AnnInv'
    <1>1. AnnTypeOK'
        BY Numbers DEF AnnInv, AnnTypeOK, Inside, Looping, Timers, Obey, Step
    <1>2. Locked'
        BY Numbers DEF AnnInv, AnnTypeOK, Locked, Inside, Obey, Step
    <1>3. Swapping'
        BY Numbers DEF AnnInv, AnnTypeOK, Swapping, Inside, Obey, Step
    <1>4. Linked'
        BY Numbers DEF AnnInv, AnnTypeOK, Linked, Looping, Obey, Step
    <1>5. Final'
        BY Numbers DEF AnnInv, AnnTypeOK, Final, Inside, Obey, Step
    <1>6. Current'
        BY Numbers DEF AnnInv, AnnTypeOK, Current, Alive, Looping, Timers,
           Obey, Step
    <1> QED
        BY <1>1, <1>2, <1>3, <1>4, <1>5, <1>6 DEF AnnInv

LEMMA LookAroundKeeps ==
    ASSUME AnnInv, NEW i \in Timers, LookAround(i) PROVE AnnInv'
    <1>1. AnnTypeOK'
        BY Numbers DEF AnnInv, AnnTypeOK, Inside, Looping, Timers, LookAround,
           Step, NextMove
    <1>2. Locked'
        BY Numbers DEF AnnInv, AnnTypeOK, Locked, Inside, LookAround, Step,
           NextMove
    <1>3. Swapping'
        BY Numbers DEF AnnInv, AnnTypeOK, Swapping, Inside, LookAround, Step,
           NextMove
    <1>4. Linked'
        BY Numbers DEF AnnInv, AnnTypeOK, Linked, Looping, LookAround, Step,
           NextMove
    <1>5. Final'
        BY Numbers DEF AnnInv, AnnTypeOK, Final, Inside, LookAround, Step,
           NextMove
    <1>6. Current'
        BY Numbers DEF AnnInv, AnnTypeOK, Current, Alive, Looping, Timers,
           LookAround, Step, NextMove
    <1> QED
        BY <1>1, <1>2, <1>3, <1>4, <1>5, <1>6 DEF AnnInv

LEMMA DoAnnounceKeeps ==
    ASSUME AnnInv, NEW i \in Timers, DoAnnounce(i) PROVE AnnInv'
    <1>1. AnnTypeOK'
        BY Numbers DEF AnnInv, AnnTypeOK, Inside, Looping, Timers, DoAnnounce,
           Step
    <1>2. Locked'
        BY Numbers DEF AnnInv, AnnTypeOK, Locked, Inside, DoAnnounce, Step
    <1>3. Swapping'
        BY Numbers DEF AnnInv, AnnTypeOK, Swapping, Inside, DoAnnounce, Step
    <1>4. Linked'
        BY Numbers DEF AnnInv, AnnTypeOK, Linked, Looping, DoAnnounce, Step
    <1>5. Final'
        BY Numbers DEF AnnInv, AnnTypeOK, Final, Inside, DoAnnounce, Step
    <1>6. Current'
        BY Numbers DEF AnnInv, AnnTypeOK, Current, Alive, Looping, Timers,
           DoAnnounce, Step
    <1> QED
        BY <1>1, <1>2, <1>3, <1>4, <1>5, <1>6 DEF AnnInv

-----------------------------------------------------------------------------

LEMMA NextAnnInv == AnnInv /\ [AnnNext]_annVars => AnnInv'
    <1> SUFFICES ASSUME AnnInv, [AnnNext]_annVars PROVE AnnInv'
        OBVIOUS
    <1>1. CASE UNCHANGED annVars
        BY <1>1 DEF annVars, AnnInv, AnnTypeOK, Locked, Swapping, Linked, Final,
           Current, Alive
    <1>2. ASSUME NEW c \in Callers, CallerStep(c) PROVE AnnInv'
        BY <1>2, Numbers, AskCadenceKeeps, AskAgainKeeps, SetCadenceKeeps,
           CallerLockKeeps, RefrainKeeps, ForgetKeeps, SwapKeeps, RingKeeps,
           JoinKeeps, StartKeeps DEF CallerStep
    <1>3. ASSUME NEW s \in Stoppers, StopperStep(s) PROVE AnnInv'
        BY <1>3, Numbers, HaltKeeps, StopperLockKeeps, StopTimerKeeps, RingKeeps,
           JoinKeeps DEF StopperStep
    <1>4. ASSUME NEW i \in Timers, LoopStep(i) PROVE AnnInv'
        BY <1>4, ReadEventKeeps, IntervalPassesKeeps, ObeyKeeps, LookAroundKeeps,
           DoAnnounceKeeps DEF LoopStep
    <1> QED
        BY <1>1, <1>2, <1>3, <1>4 DEF AnnNext

\* The inductive invariant holds in every state of the announcer.
THEOREM AnnInvariance == AnnSpec => []AnnInv
    <1>1. AnnInit => AnnInv
        BY InitAnnInv
    <1>2. AnnInv /\ [AnnNext]_annVars => AnnInv'
        BY NextAnnInv
    <1> QED
        BY <1>1, <1>2, PTL DEF AnnSpec

\* The announcer's variables keep their types.
THEOREM AnnTypesHold == AnnSpec => []AnnTypeOK
    BY AnnInvariance, PTL DEF AnnInv

\* A loop of announce() that goes on can be ended by the event the bridge holds,
\* has been told to end, or was forgotten by announce(0): no swap loses one.
THEOREM LoopsStayReachable == AnnSpec => []LoopsReachable
    <1>1. AnnInv => LoopsReachable
        BY DEF AnnInv, Linked, LoopsReachable, Alive, Follows
    <1> QED
        BY <1>1, AnnInvariance, PTL

\* Once a stop() has returned, no loop is left that was not told to end, and no
\* announce() in flight will start one.
THEOREM StopsAreFinal == AnnSpec => []StopIsFinal
    <1>1. AnnInv => StopIsFinal
        BY DEF AnnInv, Linked, Final, StopIsFinal, Alive, Follows
    <1> QED
        BY <1>1, AnnInvariance, PTL

\* The timer the bridge holds goes on, unless its event is set.
THEOREM TheTimerRuns == AnnSpec => []TimerRuns
    <1>1. AnnInv => TimerRuns
        BY DEF AnnInv, Current, TimerRuns
    <1> QED
        BY <1>1, AnnInvariance, PTL
=============================================================================
