----------------------------- MODULE TurnGuard -----------------------------
(***************************************************************************)
(* The turns of core/hermes_client.py: concurrent calls of chat() in the   *)
(* bridge's worker threads, the turn lock, the hermes child process of     *)
(* each attempt, the watchdog thread of each attempt, stop() (called by    *)
(* /stop and by the deny veto), and the shared fields through which they   *)
(* talk: _process, _stop_requested, _guard_killed, _deny_veto and          *)
(* _last_run_ms.  Every assignment to those fields is a step of its own,   *)
(* and so is the birth of the child, before _process names it; a test of   *)
(* several flags reads them at once.                                       *)
(*                                                                         *)
(* Left to other modules: the heartbeat marker and the arithmetic of the   *)
(* silence window (LivenessGuard), so here a watchdog may find its child   *)
(* silent at any time once a whole window has passed.                      *)
(***************************************************************************)
EXTENDS Naturals

CONSTANTS
    Chats,              \* calls of chat()
    Stoppers,           \* threads that run stop()
    NoChat,             \* the turn lock is free
    NoRun               \* _process is None

Runs == Chats \X {1, 2}     \* an attempt: (call, first try or retry)

ASSUME ChatsAssumption == NoChat \notin Chats /\ NoRun \notin Runs

VARIABLES
    pc,                 \* where each call of chat() is
    tries,              \* the attempt each call is on
    answer,             \* the reply each call has so far
    lock,               \* holder of _turn_lock
    process,            \* _process: the run whose child it points at
    stopRequested,      \* _stop_requested
    guardKilled,        \* _guard_killed
    denyVeto,           \* _deny_veto
    earlyRun,           \* _last_run_ms is shorter than a liveness window
    child,              \* the child process of each run
    clock,              \* limits (window, hard cap) the turn under way outlived
    capBelow,           \* configuration: turn_hard_cap < liveness_timeout
    dog,                \* the watchdog thread of each run
    stopper,            \* where each stop() is
    target              \* the child each stop() found alive

chatVars == <<pc, tries, answer, lock>>
flagVars == <<stopRequested, guardKilled, denyVeto, earlyRun>>
timeVars == <<clock, capBelow>>
stopVars == <<stopper, target>>
vars == <<chatVars, flagVars, timeVars, stopVars, process, child, dog>>

PCs == {"idle", "entered", "waiting", "starting", "spawned", "running",
        "failing", "aborted", "unlocking", "deciding", "retrying", "answered"}
Answers == {"none", "reply", "stopped", "window", "error", "failed", "ranPast"}
Children == {"none", "alive", "ok", "died", "stopped", "guarded"}
DogsMidKill == {"firing", "blaming", "pardoning", "killing"}
Dogs == {"off", "watching", "gone"} \cup DogsMidKill
StopPCs == {"idle", "seen", "clearing", "vetoing", "killing", "killed"}

\* The places of chat() inside "with self._turn_lock".
InLock == {"starting", "spawned", "running", "failing", "aborted", "unlocking"}

RunOf(c) == <<c, tries[c]>>

\* A run outlives first the smaller and then the larger of the two limits.
PastWindow == clock >= IF capBelow THEN 2 ELSE 1
PastCap    == clock >= IF capBelow THEN 1 ELSE 2

Goto(c, from, to) ==
    /\ pc[c] = from
    /\ pc' = [pc EXCEPT ![c] = to]

Init ==
    /\ pc = [c \in Chats |-> "idle"]
    /\ tries = [c \in Chats |-> 1]
    /\ answer = [c \in Chats |-> "none"]
    /\ lock = NoChat
    /\ process = NoRun
    /\ stopRequested = FALSE
    /\ guardKilled = FALSE
    /\ denyVeto = FALSE
    /\ earlyRun = TRUE                      \* getattr(..., 0.0)
    /\ child = [r \in Runs |-> "none"]
    /\ clock = 0
    /\ capBelow \in BOOLEAN
    /\ dog = [r \in Runs |-> "off"]
    /\ stopper = [s \in Stoppers |-> "idle"]
    /\ target = [s \in Stoppers |-> NoRun]

-----------------------------------------------------------------------------
(* chat()                                                                  *)

\* _stop_requested is reset on entry, before the lock is even asked for.
Enter(c) ==
    /\ Goto(c, "idle", "entered")
    /\ stopRequested' = FALSE
    /\ UNCHANGED <<tries, answer, lock, guardKilled, denyVeto, earlyRun>>
    /\ UNCHANGED <<timeVars, stopVars, process, child, dog>>

\* _deny_veto, just before it.
ClearVeto(c) ==
    /\ Goto(c, "entered", "waiting")
    /\ denyVeto' = FALSE
    /\ UNCHANGED <<tries, answer, lock, stopRequested, guardKilled, earlyRun>>
    /\ UNCHANGED <<timeVars, stopVars, process, child, dog>>

UnlockedTurn(c) ==
    /\ pc[c] \in {"waiting", "retrying"}
    /\ pc' = [pc EXCEPT ![c] = "starting"]
    /\ lock' = c
    /\ guardKilled' = FALSE
    /\ clock' = 0
    /\ UNCHANGED <<tries, answer, stopRequested, denyVeto, earlyRun, capBelow>>
    /\ UNCHANGED <<stopVars, process, child, dog>>

\* "with self._turn_lock", for the first attempt and for the retry, up to the
\* beginning of _run_with_liveness_guard(): the guard's verdict starts clean.
StartTurn(c) == lock = NoChat /\ UnlockedTurn(c)

\* Popen: the child is alive, and _process does not name it yet.
Spawn(c) ==
    /\ Goto(c, "starting", "spawned")
    /\ child' = [child EXCEPT ![RunOf(c)] = "alive"]
    /\ UNCHANGED <<tries, answer, lock, flagVars, timeVars, stopVars>>
    /\ UNCHANGED <<process, dog>>

PublishAs(c, to, watch) ==
    /\ Goto(c, "spawned", to)
    /\ process' = RunOf(c)
    /\ dog' = [dog EXCEPT ![RunOf(c)] = watch]
    /\ UNCHANGED <<tries, answer, lock, flagVars, timeVars, stopVars, child>>

\* _process = proc; then the readers and the watchdog start.
Publish(c) == PublishAs(c, "running", "watching")

\* A thread cannot be started after Popen: the child runs unwatched.
ThreadsFail(c) == PublishAs(c, "failing", "off")

\* finally: _process = None; done.set(), at which a watchdog that has not
\* seen a reason to fire leaves its loop.  A dead child has been reaped, and the
\* clock of the turn is of no use to anybody any more.
Conclude(c, from, reply) ==
    /\ Goto(c, from, "unlocking")
    /\ answer' = [answer EXCEPT ![c] = reply]
    /\ process' = NoRun
    /\ child' = [child EXCEPT ![RunOf(c)] =
                                IF @ = "alive" THEN @ ELSE "none"]
    /\ dog' = [dog EXCEPT ![RunOf(c)] = IF @ \in DogsMidKill THEN @ ELSE "gone"]
    /\ clock' = 0
    /\ UNCHANGED <<tries, lock, stopRequested, guardKilled, denyVeto>>
    /\ UNCHANGED <<capBelow, stopVars>>

\* Popen raises: there is no child.
SpawnFails(c) ==
    /\ Conclude(c, "starting", "failed")
    /\ UNCHANGED earlyRun

\* _kill_process(): whatever child _process points at now, if it is alive.
KillProcess(how) ==
    child' = IF process /= NoRun /\ child[process] = "alive"
             THEN [child EXCEPT ![process] = how]
             ELSE child

LeakyAbort(c) ==
    /\ Goto(c, "failing", "aborted")
    /\ UNCHANGED <<tries, answer, lock, flagVars, timeVars, stopVars>>
    /\ UNCHANGED <<process, child, dog>>

\* except Exception: kill the child ...
Abort(c) ==
    /\ Goto(c, "failing", "aborted")
    /\ KillProcess("died")
    /\ UNCHANGED <<tries, answer, lock, flagVars, timeVars, stopVars>>
    /\ UNCHANGED <<process, dog>>

\* ... and report the error; _last_run_ms keeps its old value.
Confess(c) ==
    /\ Conclude(c, "aborted", "failed")
    /\ UNCHANGED earlyRun

\* The reply, from the exit code and the flags as they are now.
Verdict(r) ==
    IF child[r] = "ok" THEN "reply"
    ELSE IF guardKilled THEN "window"
    ELSE IF stopRequested THEN "stopped" ELSE "error"

\* proc.wait() has returned and the streams are drained.  The watchdog is
\* joined for two seconds only, and does not leave before done is set.
Report(c) ==
    /\ child[RunOf(c)] /= "alive"
    /\ Conclude(c, "running", Verdict(RunOf(c)))
    /\ earlyRun' = ~PastWindow

\* The turn lock is released before anyone looks at the guard's flags again.
Unlock(c) ==
    /\ Goto(c, "unlocking", "deciding")
    /\ lock' = NoChat
    /\ UNCHANGED <<tries, answer, flagVars, timeVars, stopVars>>
    /\ UNCHANGED <<process, child, dog>>

GuardBlamedAgain(c) == guardKilled /\ ~denyVeto

\* Was the first attempt killed by the guard, and no veto explains it?
GuardBlamed(c) == tries[c] = 1 /\ guardKilled /\ ~denyVeto

Settle(c, reply) ==
    /\ Goto(c, "deciding", "answered")
    /\ answer' = [answer EXCEPT ![c] = reply]
    /\ UNCHANGED tries

\* Keep the reply, replace it, or resume once more.  The hold gate, which may
\* keep the answer back for up to half an hour, is not part of this module.
Decide(c) ==
    /\ \/ ~GuardBlamed(c) /\ Settle(c, answer[c])
       \/ GuardBlamed(c) /\ ~earlyRun /\ Settle(c, "ranPast")
       \/ /\ GuardBlamed(c) /\ earlyRun
          /\ Goto(c, "deciding", "retrying")
          /\ tries' = [tries EXCEPT ![c] = @ + 1]
          /\ UNCHANGED answer
    /\ UNCHANGED <<lock, flagVars, timeVars, stopVars>>
    /\ UNCHANGED <<process, child, dog>>

-----------------------------------------------------------------------------
(* The child, and time                                                     *)

ChildExits(r) ==
    /\ child[r] = "alive"
    /\ \E how \in {"ok", "died"} : child' = [child EXCEPT ![r] = how]
    /\ UNCHANGED <<chatVars, flagVars, timeVars, stopVars, process, dog>>

\* The turn under way outlives one more limit.
Age ==
    /\ \E c \in Chats : pc[c] = "running" /\ dog[RunOf(c)] = "watching"
    /\ clock < 2
    /\ clock' = clock + 1
    /\ UNCHANGED <<chatVars, flagVars, capBelow, stopVars, process, child, dog>>

-----------------------------------------------------------------------------
(* _watchdog()                                                             *)

\* Bound: no thread sleeps for a whole window between two statements, so one
\* watchdog at a time is between its decision and its kill.
NoDogMidKill == \A q \in Runs : dog[q] \notin DogsMidKill

DogSees(r) ==
    /\ dog[r] = "watching"
    /\ NoDogMidKill
    /\ dog' = [dog EXCEPT ![r] = "firing"]
    /\ UNCHANGED <<chatVars, flagVars, timeVars, stopVars, process, child>>

\* The child has been silent for a window.
SeeSilence(r) == PastWindow /\ DogSees(r)

NeverSeeCap(r) == PastCap /\ child[r] /= "alive" /\ DogSees(r)

\* The turn is older than the hard cap, whatever the child prints.
SeeCap(r) == PastCap /\ DogSees(r)

DogFlags(r, from, to) ==
    /\ dog[r] = from
    /\ dog' = [dog EXCEPT ![r] = to]
    /\ UNCHANGED <<chatVars, earlyRun, timeVars, stopVars, process, child>>

\* The three flags, one after the other ...
Fire(r) ==
    \/ /\ DogFlags(r, "firing", "blaming")
       /\ stopRequested' = TRUE
       /\ UNCHANGED <<guardKilled, denyVeto>>
    \/ /\ DogFlags(r, "blaming", "pardoning")
       /\ guardKilled' = TRUE
       /\ UNCHANGED <<stopRequested, denyVeto>>
    \/ /\ DogFlags(r, "pardoning", "killing")
       /\ denyVeto' = FALSE
       /\ UNCHANGED <<stopRequested, guardKilled>>

\* ... and then the kill, of whatever child _process names by now.
Bite(r) ==
    /\ dog[r] = "killing"
    /\ dog' = [dog EXCEPT ![r] = "gone"]
    /\ KillProcess("guarded")
    /\ UNCHANGED <<chatVars, flagVars, timeVars, stopVars, process>>

-----------------------------------------------------------------------------
(* stop()                                                                  *)

StopStep(s, from, to) ==
    /\ stopper[s] = from
    /\ stopper' = [stopper EXCEPT ![s] = to]
    /\ UNCHANGED <<chatVars, earlyRun, timeVars, process, dog>>

StopSees(s) ==
    /\ process /= NoRun
    /\ child[process] = "alive"
    /\ StopStep(s, "idle", "seen")
    /\ target' = [target EXCEPT ![s] = process]
    /\ UNCHANGED <<stopRequested, guardKilled, denyVeto, child>>

StopFlags(s) ==
    /\ \/ /\ StopStep(s, "seen", "clearing")
          /\ stopRequested' = TRUE
          /\ UNCHANGED <<guardKilled, denyVeto>>
       \/ /\ StopStep(s, "clearing", "vetoing")
          /\ guardKilled' = FALSE
          /\ UNCHANGED <<stopRequested, denyVeto>>
       \/ /\ StopStep(s, "vetoing", "killing")
          /\ denyVeto' = TRUE
          /\ UNCHANGED <<stopRequested, guardKilled>>
    /\ UNCHANGED <<target, child>>

StopKills(s) ==
    /\ StopStep(s, "killing", "killed")
    /\ KillProcess("stopped")
    /\ UNCHANGED <<stopRequested, guardKilled, denyVeto, target>>

StopReturns(s) ==
    /\ StopStep(s, "killed", "idle")
    /\ target' = [target EXCEPT ![s] = NoRun]
    /\ UNCHANGED <<stopRequested, guardKilled, denyVeto, child>>

-----------------------------------------------------------------------------

\* What the bridge's worker thread does by itself once chat() is called.
ChatStep(c) ==
    \/ ClearVeto(c) \/ StartTurn(c)
    \/ Spawn(c) \/ SpawnFails(c) \/ Publish(c) \/ ThreadsFail(c)
    \/ Abort(c) \/ Confess(c) \/ Report(c) \/ Unlock(c) \/ Decide(c)

DogStep(r) == SeeCap(r) \/ Fire(r) \/ Bite(r)

StopActs(s) == StopFlags(s) \/ StopKills(s) \/ StopReturns(s)

Next ==
    \/ \E c \in Chats : Enter(c) \/ ChatStep(c)
    \/ \E r \in Runs : ChildExits(r) \/ SeeSilence(r) \/ DogStep(r)
    \/ \E s \in Stoppers : StopSees(s) \/ StopActs(s)
    \/ Age

Spec == Init /\ [][Next]_vars

\* The threads run and time passes (the contenders for the turn lock are
\* finitely many, so no fairness of the lock is needed); nobody owes
\* the bridge a message, a /stop, output from the child or its exit.
Fairness ==
    /\ WF_vars(Age)
    /\ \A c \in Chats : WF_vars(ChatStep(c))
    /\ \A r \in Runs : WF_vars(DogStep(r))
    /\ \A s \in Stoppers : WF_vars(StopActs(s))

FairSpec == Spec /\ Fairness

-----------------------------------------------------------------------------
(* Properties                                                              *)

\* Each variable holds a value of its kind.
TypeOK ==
    /\ pc \in [Chats -> PCs]
    /\ tries \in [Chats -> {1, 2}]
    /\ answer \in [Chats -> Answers]
    /\ lock \in Chats \cup {NoChat}
    /\ process \in Runs \cup {NoRun}
    /\ stopRequested \in BOOLEAN /\ guardKilled \in BOOLEAN
    /\ denyVeto \in BOOLEAN /\ earlyRun \in BOOLEAN /\ capBelow \in BOOLEAN
    /\ child \in [Runs -> Children]
    /\ clock \in 0..2
    /\ dog \in [Runs -> Dogs]
    /\ stopper \in [Stoppers -> StopPCs]
    /\ target \in [Stoppers -> Runs \cup {NoRun}]

\* Two turns never race the same model: a live child belongs to the attempt
\* under way of the call that holds the turn lock, so a call that has left the
\* lock, on whatever path, leaves no child behind (hermes_client.py:166-169);
\* and _process names it, so that /stop and the watchdog reach it, from the
\* statement after Popen on.  Between the two statements _process is None.
OneTurnAtATime ==
    \A r \in Runs : child[r] = "alive" =>
        /\ lock = r[1]
        /\ tries[r[1]] = r[2]
        /\ process = IF pc[r[1]] = "spawned" THEN NoRun ELSE r

\* When stop() returns True the child it found alive is dead, whatever turn
\* ended or began between its check and its kill.
StopIsEffective ==
    \A s \in Stoppers : stopper[s] = "killed" => child[target[s]] /= "alive"

\* A /stop or a deny veto is reported as a stop and never as a crash of
\* hermes (hermes_client.py:1345-1348).
StopReportedHonestly ==
    [][\A c \in Chats :
        child[RunOf(c)] = "stopped" /\ Report(c) => answer'[c] /= "error"]_vars

\* The guard kills the child it watches and no other.  The code does not keep
\* it: a watchdog that has decided to kill reads _process again when it does.
GuardKillsItsOwn ==
    [][\A r \in Runs : Bite(r) => \A q \in Runs \ {r} : child'[q] = child[q]]_vars

\* Every message gets an answer, even when the child never exits and never
\* falls silent: the hard cap ends the turn, and the lock passes on.
EveryChatAnswered ==
    \A c \in Chats : (pc[c] = "entered") ~> (pc[c] = "answered")

\* The abstract phase of a call.
PhaseOf(c) ==
    IF pc[c] = "idle" THEN "new"
    ELSE IF pc[c] \in {"entered", "waiting", "retrying"} THEN "queued"
    ELSE IF pc[c] \in InLock THEN "turn"
    ELSE IF pc[c] = "deciding" THEN "settling" ELSE "answered"

Service == INSTANCE TurnService WITH phase <- [c \in Chats |-> PhaseOf(c)]

\* chat() keeps the promise TurnService states: one message at a time, at most
\* one retry, one final answer.
ImplementsService == Service!Spec
=============================================================================
