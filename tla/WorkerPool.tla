----------------------------- MODULE WorkerPool -----------------------------
(***************************************************************************)
(* The worker pool of core/bridge.py with what its workers may block on:   *)
(* the turn lock of HermesClient.chat() and the hold gate in front of its  *)
(* reply, which /hold closes and /go opens.                                *)
(*                                                                         *)
(* Chats and commands share the workers, so a /go may wait in the queue    *)
(* behind the very replies it would release.  The hold is one flag for all *)
(* turns, read and written without a lock: /hold tests that a turn runs    *)
(* and then sets it, and whoever leaves the gate clears it.  A held worker *)
(* looks at the flag once a second.                                        *)
(***************************************************************************)
EXTENDS Naturals, Sequences, FiniteSets

CONSTANTS
    Messages,           \* LXMF messages from the mesh
    Kind,               \* [Messages -> {"chat", "hold", "go"}]
    Workers,            \* _MAX_HANDLERS
    HoldLimit,          \* seconds a reply may be held, 1800
    StepModes,          \* may /go find step mode on?  A set of BOOLEANs
    MaxRestarts         \* bound: restarts of the process

Kinds == {"chat", "hold", "go"}

ASSUME PoolAssumption ==
    /\ Kind \in [Messages -> Kinds]
    /\ Workers \in Nat \ {0}
    /\ HoldLimit \in Nat
    /\ StepModes \subseteq BOOLEAN
    /\ MaxRestarts \in Nat

VARIABLES
    bridge,             \* "off", "registered", "up", "shut" or "gone"
    queue,              \* submitted messages that wait for a worker
    stage,              \* where each message is
    turn,               \* the message that holds the turn lock, or none
    hold,               \* HermesClient._hold_gate
    waited,             \* seconds each reply has been held
    looked,             \* held replies that have looked at the flag this second
    stepMode,           \* _step_mode, as /steps left it
    reboots

poolVars == <<bridge, queue, stage, turn, hold, waited, looked, stepMode, reboots>>

NoTurn == "none"
Over == {"answered", "lost"}
InHandler == {"begun", "queues", "spawns", "runs", "exited", "arrives", "held",
              "leaves", "arms", "clears"}

PoolInit ==
    /\ bridge = "off"
    /\ queue = <<>>
    /\ stage = [m \in Messages |-> "unsent"]
    /\ turn = NoTurn
    /\ hold = FALSE
    /\ waited = [m \in Messages |-> 0]
    /\ looked = {}
    /\ stepMode \in StepModes
    /\ reboots = 0

Becomes(m, from, to) ==
    /\ stage[m] = from
    /\ stage' = [stage EXCEPT ![m] = to]

-----------------------------------------------------------------------------
(* LXMFBridge: start(), _on_lxmf_message(), the pool, stop()               *)

\* The delivery callback is registered before the pool exists.
Register ==
    /\ bridge = "off"
    /\ bridge' = "registered"
    /\ UNCHANGED <<queue, stage, turn, hold, waited, looked, stepMode, reboots>>

OpenPool ==
    /\ bridge = "registered"
    /\ bridge' = "up"
    /\ UNCHANGED <<queue, stage, turn, hold, waited, looked, stepMode, reboots>>

Arrive(m) ==
    /\ bridge = "up"
    /\ Becomes(m, "unsent", "queued")
    /\ queue' = Append(queue, m)
    /\ UNCHANGED <<bridge, turn, hold, waited, looked, stepMode, reboots>>

\* "No handler or pool", or submit() raises after shutdown().
Drop(m) ==
    /\ bridge \in {"registered", "shut"}
    /\ Becomes(m, "unsent", "lost")
    /\ UNCHANGED <<bridge, queue, turn, hold, waited, looked, stepMode, reboots>>

Handled == {m \in Messages : stage[m] \in InHandler}

InService == bridge \in {"up", "shut"}

TakeNext ==
    /\ InService
    /\ queue # <<>>
    /\ Cardinality(Handled) < Workers
    /\ Becomes(Head(queue), "queued", "begun")
    /\ queue' = Tail(queue)
    /\ UNCHANGED <<bridge, turn, hold, waited, looked, stepMode, reboots>>

\* shutdown(wait=False): what is queued is still worked on...
Shut ==
    /\ bridge = "up"
    /\ bridge' = "shut"
    /\ UNCHANGED <<queue, stage, turn, hold, waited, looked, stepMode, reboots>>

\* ...until RNS.exit(), or a crash at any time, ends the process.
Exit ==
    /\ bridge \in {"registered", "up", "shut"}
    /\ bridge' = "gone"
    /\ stage' = [m \in Messages |->
                     IF stage[m] \in Over \cup {"unsent"} THEN stage[m] ELSE "lost"]
    /\ queue' = <<>>
    /\ turn' = NoTurn
    /\ looked' = {}
    /\ waited' = [m \in Messages |-> 0]
    /\ UNCHANGED <<hold, stepMode, reboots>>

\* A new process knows neither the hold nor the step mode of the old one.
Reboot ==
    /\ bridge = "gone"
    /\ reboots < MaxRestarts
    /\ bridge' = "off"
    /\ hold' = FALSE
    /\ stepMode' = FALSE
    /\ reboots' = reboots + 1
    /\ UNCHANGED <<queue, stage, turn, waited, looked>>

-----------------------------------------------------------------------------
(* HermesClient.chat(): the turn lock and the hold gate                    *)

Enter(m) ==
    /\ InService
    /\ Kind[m] = "chat"
    /\ Becomes(m, "begun", "queues")
    /\ UNCHANGED <<bridge, queue, turn, hold, waited, looked, stepMode, reboots>>

TakeTurn(m) ==
    /\ InService
    /\ turn = NoTurn
    /\ Becomes(m, "queues", "spawns")
    /\ turn' = m
    /\ UNCHANGED <<bridge, queue, hold, waited, looked, stepMode, reboots>>

\* The child lives for a part of the turn only, and may fail to start.
Spawn(m) ==
    /\ InService
    /\ \E to \in {"runs", "exited"} : Becomes(m, "spawns", to)
    /\ UNCHANGED <<bridge, queue, turn, hold, waited, looked, stepMode, reboots>>

\* TurnGuard shows that every child dies, and ends its turn.
ChildExits(m) ==
    /\ InService
    /\ Becomes(m, "runs", "exited")
    /\ UNCHANGED <<bridge, queue, turn, hold, waited, looked, stepMode, reboots>>

EndTurn(m) ==
    /\ InService
    /\ Becomes(m, "exited", "arrives")
    /\ turn' = NoTurn
    /\ UNCHANGED <<bridge, queue, hold, waited, looked, stepMode, reboots>>

PassGate(m) ==
    /\ InService
    /\ ~hold
    /\ Becomes(m, "arrives", "answered")
    /\ UNCHANGED <<bridge, queue, turn, hold, waited, looked, stepMode, reboots>>

MeetGate(m) ==
    /\ InService
    /\ hold
    /\ Becomes(m, "arrives", "held")
    /\ UNCHANGED <<bridge, queue, turn, hold, waited, looked, stepMode, reboots>>

StaysWhileHeld(m) == hold

StaysHeld(m) == hold /\ waited[m] < HoldLimit

\* while self._hold_gate and time.time() < deadline: time.sleep(1)
LookAgain(m) ==
    /\ InService
    /\ m \notin looked
    /\ StaysHeld(m)
    /\ stage[m] = "held"
    /\ looked' = looked \cup {m}
    /\ UNCHANGED <<bridge, queue, stage, turn, hold, waited, stepMode, reboots>>

SeeRelease(m) ==
    /\ InService
    /\ m \notin looked
    /\ ~StaysHeld(m)
    /\ Becomes(m, "held", "leaves")
    /\ UNCHANGED <<bridge, queue, turn, hold, waited, looked, stepMode, reboots>>

\* Whoever leaves clears the flag, for every other held reply too.
LeaveGate(m) ==
    /\ InService
    /\ Becomes(m, "leaves", "answered")
    /\ hold' = FALSE
    /\ waited' = [waited EXCEPT ![m] = 0]
    /\ UNCHANGED <<bridge, queue, turn, looked, stepMode, reboots>>

\* The bound: the seconds beyond HoldLimit are counted as one.
HeldOnes == {m \in Messages : stage[m] = "held"}

Second ==
    /\ InService
    /\ HeldOnes # {}
    /\ HeldOnes \subseteq looked
    /\ waited' = [m \in Messages |->
                      IF m \in HeldOnes /\ waited[m] <= HoldLimit
                      THEN waited[m] + 1 ELSE waited[m]]
    /\ looked' = {}
    /\ UNCHANGED <<bridge, queue, stage, turn, hold, stepMode, reboots>>

-----------------------------------------------------------------------------
(* /hold and /go                                                           *)

\* is_running(): the child is alive, whoever has the turn lock.
IsRunning == \E m \in Messages : stage[m] = "runs"

CheckRunning(m) ==
    /\ InService
    /\ Kind[m] = "hold"
    /\ Becomes(m, "begun", IF IsRunning THEN "arms" ELSE "answered")
    /\ UNCHANGED <<bridge, queue, turn, hold, waited, looked, stepMode, reboots>>

Arm(m) ==
    /\ InService
    /\ Becomes(m, "arms", "answered")
    /\ hold' = TRUE
    /\ UNCHANGED <<bridge, queue, turn, waited, looked, stepMode, reboots>>

CheckHeld(m) ==
    /\ InService
    /\ Kind[m] = "go"
    /\ Becomes(m, "begun", IF stepMode /\ ~hold THEN "answered" ELSE "clears")
    /\ UNCHANGED <<bridge, queue, turn, hold, waited, looked, stepMode, reboots>>

Clear(m) ==
    /\ InService
    /\ Becomes(m, "clears", "answered")
    /\ hold' = FALSE
    /\ UNCHANGED <<bridge, queue, turn, waited, looked, stepMode, reboots>>

HandlerStep(m) ==
    \/ Enter(m) \/ TakeTurn(m) \/ Spawn(m) \/ ChildExits(m) \/ EndTurn(m)
    \/ PassGate(m) \/ MeetGate(m)
    \/ LookAgain(m) \/ SeeRelease(m) \/ LeaveGate(m)
    \/ CheckRunning(m) \/ Arm(m) \/ CheckHeld(m) \/ Clear(m)

PoolNext ==
    \/ Register \/ OpenPool \/ TakeNext \/ Shut \/ Exit \/ Reboot \/ Second
    \/ \E m \in Messages : Arrive(m) \/ Drop(m) \/ HandlerStep(m)

PoolSpec == PoolInit /\ [][PoolNext]_poolVars

-----------------------------------------------------------------------------
(* Properties                                                              *)

PoolTypeOK ==
    /\ bridge \in {"off", "registered", "up", "shut", "gone"}
    /\ queue \in Seq(Messages)
    /\ stage \in [Messages -> InHandler \cup Over \cup {"unsent", "queued"}]
    /\ turn \in Messages \cup {NoTurn}
    /\ hold \in BOOLEAN
    /\ waited \in [Messages -> 0..HoldLimit + 1]
    /\ looked \subseteq Messages
    /\ stepMode \in BOOLEAN
    /\ reboots \in 0..MaxRestarts

\* "Auto-releases in ~30 min if you forget": a reply waits for HoldLimit seconds
\* at most, however often /hold is repeated, whoever else waits at the gate, and
\* though every worker may be held and the /go be stuck behind them.
HoldIsBounded == \A m \in Messages : waited[m] <= HoldLimit

\* Chats and commands share a few workers, and chats block them on the turn
\* lock and at the gate: even so every message that was submitted is answered
\* in the end, or lost with the process.  The workers never wait for each other
\* for good, and no operator owes a /go.
EveryMessageHandled ==
    \A m \in Messages : stage[m] = "queued" ~> stage[m] \in Over

\* A thread that can go on does, and time passes.
PoolFairness ==
    /\ WF_poolVars(TakeNext)
    /\ WF_poolVars(Second)
    /\ \A m \in Messages : WF_poolVars(HandlerStep(m))

PoolFairSpec == PoolSpec /\ PoolFairness
=============================================================================
