# A verification of the Hermes–Reticulum bridge

The bridge lets people on a Reticulum/LXMF mesh talk to a local Hermes agent: a
message from Sideband becomes one run of the `hermes` command line, its output
becomes the reply, and slash commands stop, steer and approve what the agent
does meanwhile. This directory holds TLA+ models of the program, the TLC
configurations that check them on small instances, and theorems with proofs
checked by TLAPS.

Paths below are relative to `src/hermes_reticulum/` unless they say otherwise.

## 1. The system

Every part runs in the threads of one Python process, except the plugin, which
runs inside the `hermes` child and speaks HTTP to the control server.

    mesh ──LXMF──> bridge ──4 workers──> commands ──> hermes_client
      ^              │                      │            │ Popen, watchdog, readers
      │              │                      v            v
      └── downlink <─┴── relay queue <── control <──── hermes child
          tracker          (256)         server  HTTP   └ mesh-tool-gate plugin

### Inventory

| Component | Code | State it keeps | Operations | What is hard | What makes it correct |
|---|---|---|---|---|---|
| Turns, watchdog, stop | `core/hermes_client.py` 935-1115, 1206-1460 | `_turn_lock`, `_process`, `_stop_requested`, `_guard_killed`, `_deny_veto`, `_last_run_ms`, one child and one watchdog thread per attempt | `chat`, `_run_with_liveness_guard`, `_watchdog`, `_kill_process`, `stop` | flags written by three kinds of thread without a lock and read after the turn lock is released; kill after decision; spawns that fail half way | one live child, within reach of `/stop`; `stop()` is true to its word; one retry; every message answered; a stop is told as a stop |
| Liveness clock and marker | `core/hermes_client.py` 140-290, 537-560, 1215-1275 | `last_activity`, the turn-alive file, `_turn_alive_gen`, window, cap | refresh, clear, poll | a file with several writers; two one-second polls in series; zero means off | who works survives, who stalls dies, the cap is absolute |
| Approval gate | `core/control_server.py` 60-330, 360-450; `mesh-tool-gate/__init__.py` 200-330 | `_pending`, `_decisions`, `_deny_reasons`, `_answered` per session; one event per request | `request_approval`, `answer_approval`, `/step`, `/gate/notify` | no lock; overlapping requests of a session share every entry; two clocks of 900 s; answers race timeouts | no tool runs on an approval that was not given for it in its time; an approval is used once; nothing waits for ever |
| Control server | `core/control_server.py` | relay queue (256), captured steps, steering text | `/step`, `/steer`, `/status`, relay loop | a full queue drops what arrives, prompts too | what is pushed arrives in order or is counted as lost |
| Tool gate decision and triage | `mesh-tool-gate/__init__.py`, `triage.py` | mode, floor, three time-outs | `on_pre_tool_call`, `_ask_jev`, `verdict`, `_gate_tool` | everything consulted may fail, each failure with its own direction; answers that are missing, malformed or NaN; three stacked clocks | a gated call runs by consent only; a refusal is meant; a graver answer is treated no milder; the clocks do not overtake each other |
| Session thread | `core/hermes_client.py` 690-935, 1560-1601 | `session_name`, pinned id, state.db | `_ensure_session`, `_resolve_session_id`, `_adopt_new_session`, `reset_session` | `/new` under a running turn; two first messages at once; others write the same database; restarts | a thread continues its conversation; `/new` is final; nobody else's session is adopted |
| Step watcher and recap | `core/hermes_client.py` 430-560, 600-690 | last row id, anchor | poll, push | not joined; starts before the turn owns the lock; two queries per poll | a turn recaps and pushes its own tool calls |
| Hold gate, step-through | `core/hermes_client.py` 560-600; `core/commands.py` 320-360 | one event for all turns | `/hold`, `/go`, wait | one flag shared by all turns; check, then act | a reply is held half an hour at most, whatever else |
| LXMF bridge | `core/bridge.py` | 4 workers, announce timer, stop event | receive, dispatch, reply, re-announce, stop | workers held by waiting turns; timer swapped under its own loop; `stop()` during a swap; crash | every submitted message is handled; every loop can be reached; a stop is final |
| Downlink tracker | `core/downlink.py`, `core/bridge.py` 500-600 | sequence numbers, outstanding, counters, last send per peer | `allocate`, `outcome`, `sweep`, `pace_wait` | callbacks race the sweep; eviction beyond 256; failed send | every number counted at most once, and once if never evicted |
| Bridge liveness proxy | `core/bridge_liveness.py`, `config/hermes-reticulum.service` | last probe, last ping | probe, ping; systemd kills and restarts | three periods in any phase; a process that freezes | a wedged bridge is killed in time, a healthy one never |
| Slash commands | `core/commands.py` | none of its own | about thirty commands | act on the components above | as those |
| Wiring | `cli.py` | `mesh_push` peer, gate time-outs | start, deny veto | the peer is the last one that wrote | prompts go to the session's peer |
| Model pin | `core/model_command.py` | three copies: handler, file, client; two locks | `/model <name>`, `/model reset`, load | three writes in a row, a file written in place, crash between any two | the copies agree; the pin of the last command survives a restart |
| Profiler, adapter, ACL | `core/profiler.py`, `adapter.py`, `acl.py` | TTL cache; rules | classify, split, allow | boundaries of the split and of the signal limits | parts reassemble; block beats allow |
| Emoji, preflight, platform plugin, path helpers | `core/tool_emoji.py`, `core/preflight.py`, `plugin/`, `utils/` | none | presentation, environment checks, glue | – | – |

`PROJECT.json` lists the same components with what is and what is not modelled,
and under `hazards` every place in the code where something can go wrong that a
test would hardly reach, with the properties that would show it.

## 2. Modules

| Module | What it is |
|---|---|
| `TurnService` | what `chat()` promises: one message at a time, at most one retry, one final answer |
| `TurnGuard` | `chat()`, the child, the watchdog thread and `stop()`, implements `TurnService` |
| `TurnGuardProofs` | its theorems |
| `Permits` | what the gate promises: an approval is spent by one tool of its session |
| `ApprovalGate` | requests and answers over the dictionaries of the control server, implements `Permits` |
| `ApprovalGateProofs` | its theorems |
| `LivenessGuard` | the clock of the watchdog and the marker file, second by second |
| `LivenessGuardProofs` | its theorems |
| `Downlink` | the relay queue, the pushes and the downlink tracker |
| `DownlinkProofs` | its theorems |
| `SessionThread` | the conversation behind the thread: pin, resume, adoption, `/new`, recap, step watcher, over a shared `state.db` |
| `SessionThreadProofs` | its theorems |
| `ToolHook` | one call of the plugin's hook: scope, detectors, triage, question, clocks |
| `ToolHookProofs` | its theorems |
| `WorkerPool` | the four workers, what they block on, `/hold` and `/go`, shutdown and restart |
| `Announcer` | the re-announce timers, their swap and `stop()` |
| `AnnouncerProofs` | its theorems |
| `ModelPin` | the three copies of the model pin |
| `BridgeLiveness` | the proxy between RNS and the watchdog of systemd |
| `MCTurnGuard`, `MCApprovalGate`, `MCDownlink`, `MCSessionThread`, `MCBridge` | instances for TLC: symmetry sets, constant functions; `MCBridge` runs the five parts around the turns one at a time |
| `BridgeProofs` | theorems of `WorkerPool`, `ModelPin` and `BridgeLiveness`, and of `MCBridge` as a whole |

### TurnGuard

Threads: each member of `Chats` is a call of `chat()` in a worker thread, each
pair in `Runs` an attempt (first try or retry) with its own child and its own
watchdog, each member of `Stoppers` a thread that calls `stop()` (a `/stop`, or
the deny veto of the wiring) as often as it likes. The shared fields of
`HermesClient` are the variables `lock`, `process`, `stopRequested`,
`guardKilled`, `denyVeto` and `earlyRun`.

`chat()` is cut where another thread can get in between: on entry, at the lock,
at the birth of the child (`Spawn`) and again at the assignment that makes
`_process` name it (`Publish`, or `ThreadsFail` when a thread cannot be started
then), at the exception path, at the wait, at the release of the lock, and where
the flags are read after it (`Enter`, `ClearVeto`, `StartTurn`, `Abort`,
`Confess`, `Report`, `Unlock`, `Decide`). Between `Spawn` and `Publish` a
`stop()` finds nothing to stop, and `OneTurnAtATime` says that this is the only
such gap. `stop()` and the watchdog are cut between check, each of the three
flags, and kill (`Fire`, `StopFlags`).

The child that a late `stop()` or a late watchdog kills may be the next turn's:
`GuardKillsItsOwn` states for the watchdog that it is not, and is not claimed of
the code.

Time is the number of limits (window, cap) that the turn under way has
outlived, with `capBelow` for which is the smaller. A silence can be seen at any
moment after the first window: whether it *is* seen rightly is the matter of
`LivenessGuard`.

Bound: `NoDogMidKill` lets one watchdog at a time be between its decision and
its kill. A second one would have to wait a whole window (minutes) for the first
to get from one statement to the next.

### ApprovalGate

Each member of `Gates` is a request with its HTTP thread and its
`threading.Event`, of the plugin or, in `StepGates`, of the older step hook. Each
member of `Answers` is a thread that runs `/approve` or `/deny`. Each access to
`_pending`, `_decisions`, `_deny_reasons` and `_answered` is a step. A client
may have gone before it is told (`Tell`, "gateError"): the plugin's own HTTP
time-out starts before the server's and is as long by default. `heard` is a
history variable of each gate: which answers found *it* in the slot
(`FindGate`), whether an approval of its session was "stored" after it had
cleared the older ones (`WriteDecision`), and whether another gate of the session
was open with it ("joined"). The first two differ, since an answer may find one
gate and be stored when another has taken its place: `ApprovedInItsTime` is about
what is stored, and holds; `UnansweredNeverRuns` is about what is found, and does
not (finding 2).

### LivenessGuard

One unit of time is a second. The watchdog and the step watcher poll once a
second in either order (`polled`, `watched`), and the child may print
(`PrintLine`) or store a tool row (`StoreRow`) at any point of it. The watcher of
a turn was given its session id before the turn had the lock, and there is none
on the first turn of a thread: `known` says whether there is, and without one
`WatchRows` finds nothing. Otherwise it fetches the rows and sends them to the
mesh, part by part and paced, which takes any time up to `PushLimit` (`pushing`,
`lag`); new rows wait meanwhile (`rows`), and only at the end it writes the marker
(`WriteMarker`). The code sets no limit to a push: `PushLimit` is the assumption
under which the two bounds below mean something, and the theorems hold for
each.

With `calm = FALSE` the marker is disturbed: `/new` renames the session, the
gateway's step hook writes the same file for other sessions, a write fails, and
the unjoined watcher of the turn before writes late. `idle` (seconds since the
child last did something) and `steady` (it never let a window pass, less the
seconds of a push and two polls) are history variables.

`WatchedWorkSurvives` is the promise for turns with a watcher that knows its
session, `StepModeSurvives` the promise of the code's comment, without that
condition, which TLC refutes.

### Downlink

A job is one call of `push_reply()` or `send_reply()`, with its parts, or a deny
veto. The `Relayed` ones are posted by HTTP threads into the relay queue
(`Post`; a full queue drops) and run one at a time by its worker (`TakeNext`);
the others run in threads of their own (`Start`): a step watcher's push, a
reply. A part goes through `NextSeq` (sweep, allocation and eviction under one
lock), `HandOver` or `SendFails`, `RecordSend`, `PaceWait` (the length of the
sleep is read under the lock) and `Wake`; `NoIdentity` ends it before a number
is issued. The delivery callback (`NoteOutcome`, `CountOutcome`) comes at any
time after the router has the message, also before `RecordSend`, or never; a
repeated one changes nothing. The four outcomes of a callback are one counter:
which of them it is is data. The unit of time is coarse, half a pacing interval
in the run, and a thread may oversleep without limit. `gap` and `forgotten` are
history variables. `stats()` and the tags of parts have no state that matters
here.

### SessionThread

`state.db` is two sequences, sessions and rows, numbered as they are inserted;
only what the bridge asks of them is kept (title, source, which session a row
is in, whether it is a tool call) and, as history, who caused them. Each member
of `Calls` is a call of `chat()`: `_ensure_session()` reads and pins in two
steps (`Enter`, `PinThread`), the command line is built before the lock is taken
(`Build`), the recap anchor after (`TakeLock`), then the child runs, and
adoption (title and pin, `Adopt` and `AdoptPin`) and recap follow under the lock.
`creates` says whether the installed hermes knows `--create-if-missing`: without
it a first message has no name, and its session must be adopted. The step
watcher of a stepped call polls with its two queries (`PollRows`,
`FetchAndPush`) and outlives the call. `/new` is two steps, the new name and the
dropped pin. `OthersOpen` is anybody else with the same database, `Restart` loses
all but the database.

`due`, `home`, `limit`, `cut` and `alone` are history variables. They say which
conversation a message is owed, and they are lifted only where the code makes no
promise: turns that met each other on entry, a message in the middle of a
`/new`, a session of the thread's name beside the one that could be adopted. How
a turn ends is left to `TurnGuard`.

`RecapIsOwn` is stated per row: a turn that met another may recap a session that
is not its anchor's. A call reads the name in `_ensure_session()` and pins what it
found a step later, so a call that was overtaken there pins an old answer between
the anchor and the recap of the turn in flight; `tool_recap()` then finds an
anchor of another session and, as its docstring says, filters nothing.

### ToolHook

One call of `on_pre_tool_call()`, from the scope check to the directive it
returns. The detectors of Hermes, Jev, the token, the connection and the control
server may fail where the code catches it, and so may both looks at the title in
`state.db` (`Look`, remembered in `blind`). Jev's answer is any record of a
choice, a stake, two confidences and a risk; these three are any number, on the
scale or beyond it, true, false (`Yes`, `No`), NaN or missing. It goes through
the code's normalisation (`ToConf`, `Noul`, `ClassifyStakes`) and its thresholds
(`Verdict`), in per cent. Time passes only while Jev or the operator is awaited,
up to the limits of the triage, the control server (`ApprovalTimeout`, which
starts when it has opened the gate, `Lag` later at most), the plugin
(`GateTimeout`) and Hermes (`HookTimeout`). Silence is told as a time-out, or as a
deny when it finds the mark of another answer (`Lapse`, `marked`; how a mark gets
there is `ApprovalGate`'s subject).

`benign`, `condemned`, `said`, `marked`, `blind` and `failed` are history
variables. The first two say what Jev meant independently of `Verdict`: "yes" if
the answer is so beyond doubt, "odd" if it is only taken for it, with values off
the scale, NaN, or missing, which the docstrings say are treated as doubt.
`RunsByConsent` and `RefusalIsMeant` describe what the code guarantees and name
its exceptions. `FailsClosed` and `RefusalIsSure` are the same without the
exceptions that no docstring owns up to; TLC refutes both, and
`ScaledHookFailsClosed` proves the first for a Jev that keeps to its scale
(`InScale`) and a `state.db` that can be read.

### WorkerPool

Messages are chats, `/hold` or `/go`; all take one of `Workers` threads. A chat
waits for the turn lock, spawns its child and waits for it (`Spawn`,
`ChildExits`), and after its turn waits at the hold gate, looking at the flag
once a second (`LookAgain`, `SeeRelease`, with `Second` as the clock). `/hold`
tests that a child is alive and then sets the flag (`CheckRunning`, `Arm`).
`Register`, `OpenPool`, `Shut`, `Exit` and `Reboot` are the life of the process:
the delivery callback exists before the pool and after its shutdown, and a
message that arrives then is dropped.

### Announcer

`announce()` is cut at the write of the cadence, the lock, the test of
`_running`, the setting of the event, the join with its time-out, and the start
of the new thread; each timer brings a thread and an event of the same number.
A loop reads the event from the bridge *after* it was started (`ReadEvent`), and
dies if it finds none. `announce(0)` drops timer and event without setting it
(`Forget`, `forgotten`). `stop()` may be called by several threads.

### ModelPin

A `/model` command changes the handler's copy, the file (emptied by the opening,
then written; either may fail) and the client's, under the handler's lock; then
it releases the lock (`Release`), and only then, with the configured models read,
it replies (`Confirm`). `Restart` may come between any two of these steps, and
loads what the file then holds. `settled` (the pin of the last command that had
its turn with the file) and `lost` (why the file may not hold it: a write
"failed", or a kill "cut" it) are history variables, and a restart does not
touch the first. `PinSurvives` excepts the moment at which the file is open and
empty; `PinSurvivesKill`, the promise of the module's docstring without that
exception, and `ReplyIsCurrent` are refuted by TLC and stand beside it.

### BridgeLiveness

The unit of time is the period of the RNS job loop. The proxy probes every
`Interval` and pings only if the job loop ran within `MaxAge` by the wall clock,
and not in the future of it; the wall clock may be set, forward or back
(`SetClock`; the bound is once between two runs of the job loop). systemd kills a
unit that is silent for `WatchdogSec`. The whole process may freeze and thaw at
any moment. `misses`, `froze` and `back` (by how much the clock was set back) are
history variables.

### MCBridge

The five last modules share no state, so that one run checks them all: the
variable `part`, chosen in the first state, says which of them moves. The state
space is the sum of theirs and not the product.

## 3. Runs

| Run | Instance | Shows |
|---|---|---|
| `turn_guard` | 2 chats, 1 stopper | `OneTurnAtATime`, `StopIsEffective`: no interleaving of two messages, `/stop` and late watchdogs gives two children, a child out of reach but between its birth and the assignment to `_process`, or a `stop()` that says True with the child it found alive |
| `turn_guard_live` | 2 chats, no stopper, fair | `EveryChatAnswered` though no child ever exits or falls silent; `ImplementsService` |
| `stop_reported` | 2 chats, 1 stopper | violation, see finding 1 |
| `approval_gate` | 2 gates of one session, one of each kind, 1 answering thread that comes back, fair | `NoPhantomGate`, `ApprovedInItsTime`, `ImplementsPermits`, and `EveryGateCloses` with no operator |
| `unanswered` | the same | violation, see finding 2 |
| `silence` | the same | violation, see finding 3 |
| `liveness_guard` | windows 0, 5, 6; caps 0, 7; pushes of up to 1 s; 17 s | `WatchedWorkSurvives`, `StalledIsKilled`, `CapHolds` |
| `slow_model` | window 5, no cap, 15 s | violation, see finding 4 |
| `downlink` | 2 relayed jobs, a watcher's push, 4 parts, queue of 1, room for 2 numbers, fair | `EveryNumberOnce`, `RoomForOutstanding`, `OwnPartsPaced`, and `AcceptedJobsEnd` though any send may fail and no callback come |
| `session` | 2 messages, the second in step mode; 2 names, 2 sessions, 4 rows, 1 restart | `ThreadContinues`, `NewIsFinal`, `PinnedIsOurs`, `RecapIsOwn`, `WatchedIsOwn` |
| `bridge` | see below, fair | `HoldIsBounded`, `EveryMessageHandled`; `LoopsReachable`, `StopIsFinal`, `TimerRuns`, `StoppedLoopsEnd`; `PinsAgree`, `PinSurvives`; `WedgeIsKilled`, `NoFalseKill`; `RunsByConsent`, `RefusalIsMeant`, `VerdictMonotone`, `ClocksAligned` |
| `equal_clocks` | all clocks equal but Hermes' | violation, see finding 5 |

Every passing run also checks the `TypeOK` of its module, except where the run
is about liveness alone. Each property has a mutant in `PROJECT.json`, a
plausible bug in one mapped definition under which the run fails. Such a bug is
a definition of its own next to the one it would replace ("a slip", or a name
like `NoDeadline` or `RecklessNoul`), and no specification uses it.

Why the instances are enough to be interesting:

- Two calls of `chat()` give every pair (turn in flight, turn queued), and each
  may retry, so four children follow one another. The stopper comes back as
  often as it likes. The theorems lift the safety part to any number.
- Two gates of one session overlap in every order, one of each client. One thread
  that answers comes back as often as it likes, and its answers are for either
  gate, in time, late or on the border; two that answer at once are left to the
  theorems. Gates of different sessions share no entry. The theorems lift the
  safety part to any number of gates, sessions and answers.
- A window of five seconds is the smallest in which a child can be busy and
  still leave the seconds of a push and of two polls with one to spare; six tells
  even from odd. The cap of seven lies between one window and two, so a cap that
  comes first, a cap that comes second and none are all met. `Horizon` is beyond
  two windows and two pushes and beyond the cap (`ClockAssumption`), so that no
  limit is reached only because counting stopped.
- Four numbers and room for two make every eviction order happen, and an
  acknowledgement limit of two units lets a sweep find none, one or two
  expired. A queue of one is full whenever the second relayed job comes early,
  so the veto is sometimes dropped, sometimes first, sometimes last. The two
  pushes go to one peer: different peers share only the numbers.
- Two calls and a `/new` at any point meet in every order, the turns one after
  the other or overlapping, with somebody else's session before, between or
  after. Two names are one `/new`; a second session is where adoption can go
  wrong, by a stranger's or by a session opened before; four rows are two
  messages with a tool call each, or three of one. One restart loses pin and
  name once.
- Two workers, two chats, two `/hold` and one `/go` fill the pool with blocked
  handlers while commands queue; a hold of one second tells "in time" from "too
  late"; one restart.
- Two callers, one stopper and two timers: each timer may replace the other or
  be forgotten, and the stop comes at any step. The theorems lift this to any
  number.
- Two commands, two models, a file that may be torn from the start, one restart.
- 3, 3 and 9 have the proportion of the defaults 30, 30 and 90; a freeze may last
  any time, and the clock is set back by less than `MaxAge` or forward by more.
- Confidences and risks on both sides of each threshold of `Verdict` (floor 60,
  and 90; 20 and 80) and beyond either end of the scale, true, false, missing and
  NaN, every mode and an invalid one; clocks of 2, 4 and 6 with a triage and a lag
  of 1 are the tightest that are aligned.

`CHECK_DEADLOCK FALSE` is set where the system may stop: after every message is
answered, every request closed, every call of `chat()` returned, or the process
gone. `LivenessGuard` never stops, and deadlock is
checked there.

### Fairness

`TurnGuard`: weak fairness of each thread of the bridge (a chat call, a
watchdog that sees the *cap*, a `stop()` under way) and of time. None of the
child: it owes no exit, no output and no silence, so `SeeSilence` and
`ChildExits` are left out. The turn lock gets no fairness of its own: the calls
are finitely many, each holds the lock at most twice, and weak fairness of
`ChatStep` suffices. The hard cap is what makes the theorem true: `proc.wait()`
has no time-out.

`ApprovalGate`: weak fairness of each request's HTTP thread, whose wait has a
time-out. None of the operator.

`Downlink`: weak fairness of the relay's one thread and of time; none of other
threads and none of the callbacks.

`WorkerPool`: weak fairness of the pool's taking of messages, of each handler
and of time. The turn lock gets none of its own, and no operator owes a `/go`.
That `EndTurn` is fair is what `TurnGuard` shows (`EveryChatAnswered`).

`Announcer`: weak fairness of each loop thread, for each waits with a time-out;
none of the callers.

## 4. Proofs

All are checked by TLAPS for every value of the constants, from the named
assumptions only.

**TurnGuardProofs** (assumes `ChatsAssumption`: the two null values are not a
call and not a run). `OneTurnAtATime` is not inductive: it says that a live child
belongs to the holder of the lock, and a step of the holder can only keep that
if `_process` names the holder's child and nobody else's. `Core` adds `Holder`
(the lock is held by exactly the call inside it), `Pointer` (`_process` names
the child of the call that has published one), `Live` (only the child that
`_process` names lives, and not past an abort, or the one it does not name yet)
and `Targets` (what a `stop()` aims at has been named, and so is never spawned
again). `StopIsEffective` follows since the child that a stop found is either
still the one `_process` names, and is killed, or is no longer alive and cannot
come back. Theorems: `TypeCorrect`, `TurnsExclude`, `StopsAreEffective`,
`TurnsImplementService` (every step of `TurnGuard` is a step of `TurnService` or a
stutter, under the refinement mapping `PhaseOf`).

**ApprovalGateProofs** (assumes `GatesAssumption`). `ApprovedInItsTime` rests on
`Fresh`: if the session's decision is "approve" and a gate is past its clearing
of it, the approval was stored after that clearing; and on `Heard`: no gate that
timed out has a verdict of "approve". `ImplementsPermits` needs `Judged`: a gate
has a verdict exactly when it has taken its decision. Theorems: `TypeCorrect`,
`NoGateLingers`, `NoOldApproval`, `GateImplementsPermits`.

**LivenessGuardProofs** (assumes `ClockAssumption`). The limits are kept because
no second goes by without a poll (`PolledInTime`), so nobody is past one by
more than the second of the poll (`InTime`). `StalledIsKilled` needs the
relation of four clocks: a row waits for the push of the rows before it, a second
more, and its own push (`FreshRows`), so that the marker is younger than the last
progress by two pushes and a second at most, and the clock was touched at most a
window after the marker was written (`Heard`).

`WatchedWorkSurvives` is the opposite bound, and has an invariant of its own
(`WInv`, on top of the first): while an undisturbed child works under a watcher
that knows its session, the clock has either heard of its last progress, or that
progress is on its way (`OnItsWay`: stored as a row, in a push, or written to the
marker) with the seconds left for each poll and push still ahead of it. Theorems:
`TypeCorrect`, `CapAlwaysHolds`, `StallsAreKilled`, `WorkersSurvive`.

**DownlinkProofs** (assumes `DownlinkAssumption`). The books of the tracker
(`Books`) are inductive by themselves: `NextSeqBooks` splits the table into what
the sweep takes, what is evicted and what stays, and counts each; that eviction
removes a member needs that a set of numbers has a least one (`LeastExists`, from
the well-foundedness of inclusion of finite sets). `OwnPartsPaced` rests on
`Patience`: the peer's pause is never longer than the job's own, so the sleep
read from the former covers the latter, whoever else sends. `Queued` and `InHand`
type the queue and the countdown of parts. Theorems: `TypeCorrect`,
`NumbersAddUp`, `TableKeepsItsRoom`, `PartsArePaced`.

**ToolHookProofs** (assumes `HookAssumption`). `RunsByConsent` and
`RefusalIsMeant` need to know what Jev's answer was when it is rated
(`FoundInv`: it is still the one that the histories `benign` and `condemned` were
taken from) and that a reply is the operator's word or the clock's
(`ServerInv`). `ScaledHookFailsClosed` adds that on the scale (`InScale`) no answer
is taken for benign that is not. `ClocksAligned` follows from bounds on each clock
relative to the one around it (`ClockInv`, `HeardInv`); it assumes margins that
are strict, which `cli.py` does not ask for. `VerdictMonotone` is two lemmas about
`Verdict` alone, `GraverIsNoMilder` and `LessSureEscalates`. Theorems:
`HookTypesHold`, `RunsOnlyByConsent`, `ScaledHookFailsClosed`,
`RefusesOnlyIfMeant`, `ClocksAreAligned`, `VerdictsAreMonotone`.

**AnnouncerProofs** (assumes `AnnouncerAssumption`). The lock orders the swaps
(`Locked`), so that whoever has rung leaves no event that could still be waited
for (`Swapping`), and every loop that has found its event is linked to the bridge
by it (`Linked`). `StopIsFinal` needs that `_running` is cleared before the lock
is taken and tested under it (`Final`), `TimerRuns` that timer and event belong
together (`Current`). Theorems: `AnnTypesHold`, `LoopsStayReachable`,
`StopsAreFinal`, `TheTimerRuns`.

**SessionThreadProofs** (assumes `SessionAssumption`). The six properties share
one inductive invariant, in three groups on top of the types.

- `Turns` is about one turn. The lock is held from spawn to recap (`OneHolds`), so
  in the sessions that are new since a call took it, every row is its own
  (`SinceStart`), what it adopts is one of these (`AdoptsNew`), and so is every
  row after its anchor in the anchor's session (`AnchorHolds`): that is
  `RecapIsOwn` for any interleaving. For a call that met no other (`Solo`) the
  pin, the lookup, the anchor, the command line and the watcher are all of one
  session, or of a name whose rows are all its own (`AloneOK`); that is the rest of
  `RecapIsOwn`, and `WatchedIsOwn`. `PinnedIsOurs` rests on `OursMarked`: only
  turns of the bridge title sessions with a name of the thread or mark them as of
  the mesh.
- `Cuts` is about `/new`. `Fresh(n)` says of the whole state that no path is left
  to the first `n` sessions: not by the pin, not by what some call has looked up or
  written on its command line, not by a name, and not by adoption. It holds of
  the sessions that were there at the last `/new` (`CutOff`), and of those each
  turn has behind it (`Begins`); `NewIsFinal` is what it means for the one that
  spawns.
- `Homes` is about continuing. `Settled(h)` says of the whole state that whoever
  asks for the thread gets session `h`. It holds of the home of the name between
  turns (`AtHome`) and of the session a turn owes (`Owes`). That a restart, which
  loses the pin and goes back to the configured name, finds the home again is
  `FirstHome`.

The facts about the operators are lemmas of their own: the maxima and minima
over row and session numbers exist (`MaxExists`, `MinExists`, from the
well-foundedness of inclusion, since the library's induction cannot be used), and
`TitledIs`, `MaxRowIs`, `FirstUserIs`, `CandidateIs` say what a lookup returns.
Theorems: `TypeCorrect`, `RecapsAreOwn`, `WatchersPushOwn`,
`ConversationContinues`, `NewStaysFinal`, `PinsStayOurs`.

**BridgeProofs** extends `MCBridge` and the proofs about two of its parts, and
adds those of the other three:

- the worker pool (assumes `PoolAssumption`): `HoldIsBounded` is not inductive,
  for `Second` counts for whoever is held. Every held reply has looked at the flag
  in this second, and in time (`LookedInTime`). Theorems: `PoolTypesHold`,
  `HoldsAreBounded`.
- the model pin (assumes `PinAssumption`): while a command holds the lock the
  copies disagree, and `Underway` says how far it has come; one that has left the
  lock and not yet replied changes nothing any more. Theorems: `PinTypesHold`,
  `CopiesAgree`, `PinIsKept`.
- the liveness proxy (assumes `LivenessAssumption`): the age of the job loop is at
  most `MaxAge` more than the silence and what the clock was set back
  (`PingsAreFresh`), and without a freeze the silence is at most an interval for
  each miss and the one under way (`ProbesAreCounted`). Theorems:
  `ProxyTypesHold`, `WedgesAreKilled`, `NoneIsKilledInError`.
- the parts together: a step of `MCBridge` is a step of one part and a stutter of
  the others, so that it implements the specification of each
  (`PartsAreImplemented`) and keeps its types (`BridgeTypesHold`); each theorem
  about a part thus holds of it.

### Model-checked only

- Liveness under fairness (`EveryChatAnswered`, `EveryGateCloses`,
  `AcceptedJobsEnd`, `EveryMessageHandled`, `StoppedLoopsEnd`): the prover has no
  ENABLED. Every other property of the passing runs is a theorem.
- Induction over data is out of the prover's reach (its library theorems take
  operator parameters), and so is anything with a RECURSIVE operator; no module
  here needs either.

## 5. Findings

1. **A stop told as a crash** (`stop_reported`; `core/hermes_client.py:962`).
   `chat()` resets `_stop_requested` on entry, before it waits for the turn lock.
   A message that arrives just after `/stop` resets the flag of the turn in
   flight, which then ends with "Error (code -9)" although
   `hermes_client.py:1345-1347` and 1449-1451 say such an end is told honestly.
2. **An approval for another gate** (`unanswered`; `core/control_server.py:295`).
   `answer_approval()` looks whether the session has a gate, and stores the
   decision and rings a step later. An `/approve` that finds one gate is stored
   for another, if that one has taken the slot and cleared the dictionary in
   between: a tool runs that nobody approved. The docstring of
   `request_approval()` (259-261) says that cannot be.
3. **Silence told as a refusal** (`silence`; `core/control_server.py:438`). The
   marks that tell a deny from a time-out are per session and are consumed by
   `/gate/notify` only. In the trace an answer finds a `/step` gate as its wait
   ends; the gate closes; a plugin gate opens, alone, and no answer finds it; and
   the mark of the late answer makes its silence a "deny". An answer to a `/step`
   gate that comes in time leaves the same mark. `control_server.py:88-90` says
   the mark tells the two apart.
4. **A slow model killed** (`slow_model`; `core/hermes_client.py:1025`). Tool rows
   refresh the marker only through the step watcher, which exists only in step
   mode. In the default mode a child that runs a tool every second and prints
   nothing is killed as silent, which lines 151-153 and 541-543 say cannot be.
5. **Silence told as a failure** (`equal_clocks`;
   `mesh-tool-gate/__init__.py:232`). With equal time-outs of plugin and control
   server, which are accepted and recommended, the plugin's clock starts first and
   runs out first: an operator who never answered is told to the model as a gate
   that could not be reached.

Without a run of their own, but read off the models (each is listed in
`PROJECT.json` with the lines it quotes):

- in step mode too the first turn of a thread has no marker to keep it alive: its
  watcher is given no session id (`hermes_client.py:1026`; `StepModeSurvives` of
  `LivenessGuard`), and pushes none of its tool calls;
- a kill between the opening and the writing of the state file loses the model
  pin (`model_command.py:241`; `PinSurvivesKill` of `ModelPin`);
- the step watcher pushes a row twice that is stored between its two queries
  (`hermes_client.py:486`; `PushedOnce` of `SessionThread` states the promise);
- a bare `/announce` that overlaps `/announce <min>` undoes it (`bridge.py:350`),
  and `announce(0)` does not stop the loop it disables (`bridge.py:385`, which
  `LoopsReachable` and `StopIsFinal` must except);
- `HERMES_YOLO_MODE` is consulted before the hardline floor
  (`mesh-tool-gate/__init__.py:695`); only "routine" stakes are ever allowed
  (`triage.py:132`); a NaN or negative risk counts as none (`triage.py:161`), true
  or a number beyond the scale as full confidence
  (`mesh-tool-gate/__init__.py:433`; `FailsClosed` of `ToolHook`); a missing risk
  or an unnamed stake can deny a call (`triage.py:103`; `RefusalIsSure`); a choice that is
  no string makes the hook raise (`triage.py:93`); Jev's denial is told as the
  user's (`mesh-tool-gate/__init__.py:766`);
- the repository's `README.md:363` says the liveness guard keeps the child alive
  while an approval is pending, but nothing touches the clock during a gate, which
  is longer than the window by default (`hermes_client.py:1247`).

Noticed too: the single retry of a turn killed for
silence (`hermes_client.py:947`, 1096) is reachable only when the hard cap is
below the window, since a silence kill comes after a full window. A `/stop`
between `Popen` and the assignment to `_process` (1301, 1308) finds nothing to
stop. A call whose session title cannot be read from `state.db` is not gated
(`mesh-tool-gate/__init__.py:684-691`). The replies to two `/model` commands may
come in the other order than they took effect (`model_command.py:207`). The
docstring of `pace_wait()` (`downlink.py:149-150`) promises the interval since the
last send to the recipient; two pushes to one peer that sleep at the same time
wake together and send without it. What a full relay queue drops may be a deny veto, which
`control_server.py:238-239` calls a cosmetic loss.

## 6. Not modelled, and why

- Text: the wording of replies, pills, prompts, status, recaps. Only which kind
  of answer is given.
- Steering, the captured steps and `/status`: one assignment or a read each.
- `StepThroughManager` of `bridge.py`: the running bridge does not use it.
- The channel profiler and the reply adapter: arithmetic and string work on the
  data of one message; the profiler's cache has one caller.
- The access control list: a test of an address against two sets that never
  change.
- Sockets, HTTP framing, RNS and LXMF themselves, process groups and signals:
  a kill is one step that makes the child dead (the code sends SIGKILL and then
  waits for the child with a time-out, `core/hermes_client.py:1433-1434`).
- The composition of the gate with the liveness clock: the clock knows nothing of
  a gate, so that a child waiting in its hook is a child without progress, which
  `LivenessGuard` has (`StalledIsKilled`). That of the pool with the gate: an
  approval holds its turn, and `TurnGuard` bounds the turn.
- Which of several replies a call of `chat()` gives when the next turn has
  changed the flags it reads after the release of the lock: the interleaving is
  in `TurnGuard`, but no text says which reply is owed.
- Tool emoji, preflight, path helpers, the gateway platform plugin: no state, I/O
  or glue.

## 7. Plan

1. *Done:* `TurnGuard`, `ApprovalGate` with their abstract specifications,
   `LivenessGuard`, `Downlink`, and the proofs about them.
2. *Done:* `SessionThread`; `WorkerPool`, `Announcer`, `ModelPin`,
   `BridgeLiveness`, `ToolHook`; proofs about the last four.
3. *Done:* proofs about `SessionThread`, about `WatchedWorkSurvives` and
   `HoldIsBounded`, and the composition of the parts in `BridgeProofs`.
4. *Done:* the birth of the child in two steps, the push between row and marker,
   the answer that finds one gate and serves another, replies after the lock,
   odd values of Jev's, the wall clock of the proxy; what the code promises and
   does not keep, as definitions beside what it keeps.
5. A run of its own for the pending gate under the liveness clock, for
   `PushedOnce` and for `StepModeSurvives`.
