--------------------------- MODULE SessionThread ---------------------------
(***************************************************************************)
(* The conversation behind the mesh thread, core/hermes_client.py: the     *)
(* thread's name and its pinned session, the calls of chat() that resume,  *)
(* create or adopt a session in the shared state.db, /new, a restart of    *)
(* the bridge, the recap of a turn's tools and the step watcher.  A session *)
(* is the number of its creation, a row the number of its insertion, and 0 *)
(* is None.  How a turn ends, and that one runs at a time, is TurnGuard's   *)
(* subject: here the lock is a variable and a child ends when it likes.     *)
(***************************************************************************)
EXTENDS Naturals, Sequences, FiniteSets, FiniteSetsExt

CONSTANTS
    Calls,              \* calls of chat()
    Stepped,            \* those made in step mode: they start a step watcher
    NoCall,
    MaxNames,           \* bounds: names the thread has had,
    MaxSessions,        \* sessions in state.db,
    MaxRows,            \* rows of its messages
    MaxRestarts         \* and restarts of the bridge

ASSUME SessionAssumption ==
    /\ Stepped \subseteq Calls /\ NoCall \notin Calls
    /\ MaxNames \in Nat \ {0} /\ MaxSessions \in Nat
    /\ MaxRows \in Nat /\ MaxRestarts \in Nat

VARIABLES
    creates,            \* this hermes knows --create-if-missing
    name,               \* session_name, 1 as configured; 0 is no title
    named,              \* the names there have been
    pin,                \* _resume_id
    renaming,           \* a /new has renamed the thread and not yet unpinned
    lock,               \* _turn_lock
    sessions, rows,     \* state.db
    pc, cmd,            \* per call: where it is, its command line
    found,              \* the session a query returned
    before, start,      \* sessions there were at the build, and at the spawn
    anchor,             \* the recap anchor
    ran, recap,         \* the session its child runs in, the rows recapped
    watch, wsid, last, seen,    \* its step watcher,
    pushed,             \* and how often that has pushed each row
    restarts,
    cut, limit,         \* history: see NewIsFinal
    home, due,          \* history: see ThreadContinues
    alone               \* history: it met no other call and no /new

thread == <<name, named, pin, renaming>>
db == <<sessions, rows>>
locals == <<cmd, found, before, start, anchor, ran, recap>>
watchers == <<watch, wsid, last, seen, pushed>>
histories == <<cut, limit, home, due, alone>>
vars == <<creates, thread, lock, db, pc, locals, watchers, restarts, histories>>

Names == 1..MaxNames
Ids == 0..MaxSessions
RowIds == 0..MaxRows
Sessions == [title : Names \cup {0}, source : {"cli", "mesh"},
             by : Calls \cup {NoCall}]
Rows == [session : Ids, by : Calls, tool : BOOLEAN]
Anchors == [sid : Ids, row : RowIds]
NoAnchor == [sid |-> 0, row |-> 0]
Phases == {"new", "pin", "build", "queued", "run", "adopt", "adopted", "recap",
           "return", "done"}
Commands ==
    [way : {"resume"}, to : Ids \ {0}] \cup [way : {"named"}, to : Names]
        \cup [way : {"fresh"}, to : {0}]

\* SELECT id FROM sessions WHERE title = ? ORDER BY started_at DESC LIMIT 1
Titled(n) == Max({0} \cup {s \in DOMAIN sessions : sessions[s].title = n})

RowsOf(s) == {i \in DOMAIN rows : rows[i].session = s}
NextRow(s) == 1 + Max({0} \cup RowsOf(s))   \* a slip: the row to come
MaxRow(s) == Max({0} \cup RowsOf(s))
FirstUser(s) ==
    LET users == {i \in RowsOf(s) : ~rows[i].tool}
    IN  IF users = {} THEN 0 ELSE Min(users)
ToolRowsAfter(s, i) == {j \in RowsOf(s) : rows[j].tool /\ j > i}

InFlight(c) == pc[c] \notin {"new", "done"} \/ watch[c] \in {"seed", "fetch"}

Init ==
    /\ creates \in BOOLEAN
    /\ name = 1 /\ named = 1 /\ pin = 0 /\ renaming = FALSE
    /\ lock = NoCall
    /\ sessions = <<>> /\ rows = <<>>
    /\ pc = [c \in Calls |-> "new"]
    /\ cmd = [c \in Calls |-> [way |-> "fresh", to |-> 0]]
    /\ found = [c \in Calls |-> 0]
    /\ before = [c \in Calls |-> 0] /\ start = [c \in Calls |-> 0]
    /\ anchor = [c \in Calls |-> NoAnchor]
    /\ ran = [c \in Calls |-> 0] /\ recap = [c \in Calls |-> {}]
    /\ watch = [c \in Calls |-> "off"] /\ wsid = [c \in Calls |-> 0]
    /\ last = [c \in Calls |-> 0] /\ seen = [c \in Calls |-> 0]
    /\ pushed = [c \in Calls |-> [i \in 1..MaxRows |-> 0]]
    /\ restarts = 0
    /\ cut = 0 /\ limit = [c \in Calls |-> 0] /\ due = [c \in Calls |-> 0]
    /\ home = [n \in Names |-> 0]
    /\ alone = [c \in Calls |-> FALSE]

-----------------------------------------------------------------------------
(* chat(): which conversation                                              *)

\* _ensure_session(False): a pin is kept, else the name is looked up ...
Enter(c) ==
    /\ pc[c] = "new"
    /\ IF pin /= 0
       THEN /\ pc' = [pc EXCEPT ![c] = "build"]
            /\ UNCHANGED found
       ELSE /\ pc' = [pc EXCEPT ![c] = "pin"]
            /\ found' = [found EXCEPT ![c] = Titled(name)]
    /\ LET others == {d \in Calls \ {c} : InFlight(d)} IN
       /\ due' = [due EXCEPT ![c] =
                       IF others = {} /\ ~renaming THEN home[name] ELSE 0]
       /\ alone' = [d \in Calls |-> IF d = c THEN others = {} /\ ~renaming
                                    ELSE alone[d] /\ d \notin others]
    /\ cut' = IF renaming THEN 0 ELSE cut
    /\ limit' = [limit EXCEPT ![c] = cut']
    /\ UNCHANGED <<creates, thread, lock, db, cmd, before, start, anchor, ran,
                   recap, watchers, restarts, home>>

\* ... and what was found is pinned.
PinThread(c) ==
    /\ pc[c] = "pin"
    /\ pin' = IF found[c] = 0 THEN pin ELSE found[c]
    /\ pc' = [pc EXCEPT ![c] = "build"]
    /\ UNCHANGED <<creates, name, named, renaming, lock, db, locals, watchers,
                   restarts, histories>>

\* The command line, and in step mode the watcher's thread, which is not joined.
Build(c) ==
    /\ pc[c] = "build"
    /\ cmd' = [cmd EXCEPT ![c] =
                  IF pin /= 0 THEN [way |-> "resume", to |-> pin]
                  ELSE IF creates \/ Titled(name) /= 0
                       THEN [way |-> "named", to |-> name]
                       ELSE [way |-> "fresh", to |-> 0]]
    /\ before' = [before EXCEPT ![c] = Len(sessions)]
    /\ IF c \in Stepped
       THEN /\ watch' = [watch EXCEPT ![c] = "seed"]
            /\ wsid' = [wsid EXCEPT ![c] = IF pin /= 0 THEN pin ELSE Titled(name)]
       ELSE UNCHANGED <<watch, wsid>>
    /\ pc' = [pc EXCEPT ![c] = "queued"]
    /\ UNCHANGED <<creates, thread, lock, db, found, start, anchor, ran, recap,
                   last, seen, pushed, restarts, histories>>

\* A slip: the anchor as of the moment the command line was built.
EarlyAnchor(c) ==
    IF pin = 0 THEN NoAnchor
    ELSE [sid |-> pin, row |-> Max({0} \cup {i \in RowsOf(pin) : i <= before[c]})]

\* _capture_turn_anchor(): the last row before the child spawns.
TurnAnchor(c) == IF pin = 0 THEN NoAnchor ELSE [sid |-> pin, row |-> MaxRow(pin)]

TakeLock(c) ==
    /\ pc[c] = "queued" /\ lock = NoCall
    /\ lock' = c
    /\ start' = [start EXCEPT ![c] = Len(sessions)]
    /\ anchor' = [anchor EXCEPT ![c] = TurnAnchor(c)]
    /\ pc' = [pc EXCEPT ![c] = "run"]
    /\ UNCHANGED <<creates, thread, db, cmd, found, before, ran, recap,
                   watchers, restarts, histories>>

-----------------------------------------------------------------------------
(* The hermes child                                                        *)

Row(s, c, tool) == [session |-> s, by |-> c, tool |-> tool]

\* The session its command line tells it to open, ...
Told(c) ==
    CASE cmd[c].way = "resume" -> cmd[c].to
      [] cmd[c].way = "named" -> Titled(cmd[c].to)
      [] cmd[c].way = "fresh" -> 0

\* ... the one it creates when there is none, ...
NewSession(c) ==
    IF cmd[c].way = "named"
    THEN [title |-> cmd[c].to, source |-> "cli", by |-> c]
    ELSE [title |-> 0, source |-> "mesh", by |-> c]

\* ... and the message it stores in it.
ChildOpens(c) ==
    /\ pc[c] = "run" /\ ran[c] = 0 /\ Len(rows) < MaxRows
    /\ LET s == IF Told(c) /= 0 THEN Told(c) ELSE Len(sessions) + 1 IN
       /\ s <= MaxSessions
       /\ ran' = [ran EXCEPT ![c] = s]
       /\ rows' = Append(rows, Row(s, c, FALSE))
    /\ sessions' = IF Told(c) /= 0 THEN sessions
                   ELSE Append(sessions, NewSession(c))
    /\ UNCHANGED <<creates, thread, lock, pc, cmd, found, before, start, anchor,
                   recap, watchers, restarts, histories>>

\* It stores a tool call.
ChildCalls(c) ==
    /\ pc[c] = "run" /\ ran[c] /= 0 /\ Len(rows) < MaxRows
    /\ rows' = Append(rows, Row(ran[c], c, TRUE))
    /\ UNCHANGED <<creates, thread, lock, sessions, pc, locals, watchers,
                   restarts, histories>>

\* It exits or is killed, at any moment.
ChildEnds(c) ==
    /\ pc[c] = "run"
    /\ pc' = [pc EXCEPT ![c] = IF cmd[c].way = "fresh" THEN "adopt" ELSE "recap"]
    /\ UNCHANGED <<creates, thread, lock, db, locals, watchers, restarts,
                   histories>>

-----------------------------------------------------------------------------
(* chat(): adoption and recap, under the lock                              *)

\* A slip: any session created meanwhile will do.
AnyCandidates(c) == {s \in DOMAIN sessions : s > start[c] /\ s > before[c]}

Candidates(c) ==
    {s \in DOMAIN sessions :
        s > start[c] /\ sessions[s].source = "mesh" /\ s > before[c]}

\* A slip: the session is pinned and not given the name.
AdoptUnnamed(c) ==
    /\ pc[c] = "adopt"
    /\ Cardinality(Candidates(c)) = 1
    /\ found' = [found EXCEPT ![c] = Max(Candidates(c))]
    /\ pc' = [pc EXCEPT ![c] = "adopted"]
    /\ UNCHANGED <<creates, thread, lock, db, cmd, before, start, anchor, ran,
                   recap, watchers, restarts, histories>>

\* _adopt_new_session(): exactly one candidate is given the thread's name ...
Adopt(c) ==
    /\ pc[c] = "adopt"
    /\ \/ /\ Cardinality(Candidates(c)) = 1
          /\ LET s == Max(Candidates(c)) IN
             /\ sessions' = [sessions EXCEPT ![s].title = name]
             /\ found' = [found EXCEPT ![c] = s]
          /\ pc' = [pc EXCEPT ![c] = "adopted"]
       \/ /\ pc' = [pc EXCEPT ![c] = "recap"]   \* another number, or no rename
          /\ UNCHANGED <<sessions, found>>
    /\ UNCHANGED <<creates, thread, lock, rows, cmd, before, start, anchor, ran,
                   recap, watchers, restarts, histories>>

\* ... and pinned; its first user row is the anchor.
AdoptPin(c) ==
    /\ pc[c] = "adopted"
    /\ pin' = found[c]
    /\ anchor' = [anchor EXCEPT ![c] =
                     [sid |-> found[c], row |-> FirstUser(found[c])]]
    /\ pc' = [pc EXCEPT ![c] = "recap"]
    /\ UNCHANGED <<creates, name, named, renaming, lock, db, cmd, found, before,
                   start, ran, recap, watchers, restarts, histories>>

\* The session this turn ran in can be found again, and is the only one of the
\* thread's name: of two fresh sessions of an old hermes both may be adopted.
Kept(c) ==
    /\ ran[c] /= 0
    /\ cmd[c].way = "fresh" => pin = ran[c]
    /\ \A s \in DOMAIN sessions : sessions[s].title = name => s = ran[c]

\* tool_recap() over the thread as it is by now, and the release of the lock.  In
\* step mode, unless /steps has switched it off meanwhile, there is no recap.
ToolRecap(c) ==
    /\ pc[c] = "recap"
    /\ LET sid == IF pin /= 0 THEN pin ELSE Titled(name)
           from == IF anchor[c].sid = sid THEN anchor[c].row ELSE 0
       IN  \/ recap' = [recap EXCEPT ![c] = ToolRowsAfter(sid, from)]
           \/ c \in Stepped /\ UNCHANGED recap
    /\ lock' = NoCall
    /\ pc' = [pc EXCEPT ![c] = "return"]
    /\ home' = CASE ~alone[c] -> [n \in Names |-> 0]
                 [] alone[c] /\ Kept(c) -> [home EXCEPT ![name] = ran[c]]
                 [] OTHER -> home
    /\ UNCHANGED <<creates, thread, db, cmd, found, before, start, anchor, ran,
                   watchers, restarts, cut, limit, due, alone>>

\* The watcher is told to stop.
Return(c) ==
    /\ pc[c] = "return"
    /\ pc' = [pc EXCEPT ![c] = "done"]
    /\ UNCHANGED <<creates, thread, lock, db, locals, watchers, restarts,
                   histories>>

-----------------------------------------------------------------------------
(* _run_step_watcher()                                                     *)

\* A slip: the watcher starts from the beginning of the session.
SeedAtZero(c) ==
    /\ watch[c] = "seed"
    /\ last' = [last EXCEPT ![c] = 0]
    /\ watch' = [watch EXCEPT ![c] = "poll"]
    /\ UNCHANGED <<creates, thread, lock, db, pc, locals, wsid, seen, pushed,
                   restarts, histories>>

Seed(c) ==
    /\ watch[c] = "seed"
    /\ last' = [last EXCEPT ![c] = MaxRow(wsid[c])]
    /\ watch' = [watch EXCEPT ![c] = "poll"]
    /\ UNCHANGED <<creates, thread, lock, db, pc, locals, wsid, seen, pushed,
                   restarts, histories>>

\* Once a second: the first query asks whether there are new rows ...
PollRows(c) ==
    /\ watch[c] = "poll" /\ pc[c] /= "done"
    /\ MaxRow(wsid[c]) > last[c]
    /\ seen' = [seen EXCEPT ![c] = MaxRow(wsid[c])]
    /\ watch' = [watch EXCEPT ![c] = "fetch"]
    /\ UNCHANGED <<creates, thread, lock, db, pc, locals, wsid, last, pushed,
                   restarts, histories>>

\* ... the second fetches what is there by now, and the tool calls are pushed.
FetchAndPush(c) ==
    /\ watch[c] = "fetch"
    /\ pushed' = [pushed EXCEPT ![c] =
                     [i \in 1..MaxRows |->
                         IF i \in ToolRowsAfter(wsid[c], last[c]) THEN @[i] + 1
                         ELSE @[i]]]
    /\ last' = [last EXCEPT ![c] = seen[c]]
    /\ watch' = [watch EXCEPT ![c] = "poll"]
    /\ UNCHANGED <<creates, thread, lock, db, pc, locals, wsid, seen, restarts,
                   histories>>

WatcherEnds(c) ==
    /\ watch[c] = "poll" /\ pc[c] = "done"
    /\ watch' = [watch EXCEPT ![c] = "off"]
    /\ UNCHANGED <<creates, thread, lock, db, pc, locals, wsid, last, seen,
                   pushed, restarts, histories>>

-----------------------------------------------------------------------------
(* /new, other users of state.db, a restart                                *)

\* reset_session(): a name never used before ...
NewName ==
    /\ named < MaxNames /\ ~renaming
    /\ named' = named + 1 /\ name' = named + 1
    /\ renaming' = TRUE
    /\ due' = [c \in Calls |-> IF InFlight(c) THEN 0 ELSE due[c]]
    /\ alone' = [c \in Calls |-> alone[c] /\ ~InFlight(c)]
    /\ cut' = IF \E c \in Calls : InFlight(c) THEN 0 ELSE Len(sessions)
    /\ UNCHANGED <<creates, pin, lock, db, pc, locals, watchers, restarts,
                   limit, home>>

\* A slip: the thread has its new name and keeps its conversation.
KeepPin ==
    /\ renaming
    /\ renaming' = FALSE
    /\ UNCHANGED <<creates, name, named, pin, lock, db, pc, locals, watchers,
                   restarts, histories>>

\* ... and no pin.
DropPin ==
    /\ renaming
    /\ renaming' = FALSE
    /\ pin' = 0
    /\ UNCHANGED <<creates, name, named, lock, db, pc, locals, watchers,
                   restarts, histories>>

\* The gateway, or somebody at the terminal, begins a conversation.
OthersOpen ==
    /\ Len(sessions) < MaxSessions
    /\ sessions' = Append(sessions, [title |-> 0, source |-> "cli", by |-> NoCall])
    /\ UNCHANGED <<creates, thread, lock, rows, pc, locals, watchers, restarts,
                   histories>>

\* The bridge is killed and started again: only state.db remains, and the name
\* is the configured one.
Restart ==
    /\ restarts < MaxRestarts
    /\ restarts' = restarts + 1
    /\ name' = 1 /\ pin' = 0 /\ renaming' = FALSE
    /\ lock' = NoCall
    /\ pc' = [c \in Calls |-> IF pc[c] = "new" THEN "new" ELSE "done"]
    /\ watch' = [c \in Calls |-> "off"]
    /\ cut' = 0
    /\ UNCHANGED <<creates, named, db, locals, wsid, last, seen, pushed, limit,
                   home, due, alone>>

ChatStep(c) ==
    \/ Enter(c) \/ PinThread(c) \/ Build(c) \/ TakeLock(c)
    \/ Adopt(c) \/ AdoptPin(c) \/ ToolRecap(c) \/ Return(c)

ChildStep(c) == ChildOpens(c) \/ ChildCalls(c) \/ ChildEnds(c)

WatcherStep(c) == Seed(c) \/ PollRows(c) \/ FetchAndPush(c) \/ WatcherEnds(c)

Next ==
    \/ \E c \in Calls : ChatStep(c) \/ ChildStep(c) \/ WatcherStep(c)
    \/ NewName \/ DropPin \/ OthersOpen \/ Restart

Spec == Init /\ [][Next]_vars

-----------------------------------------------------------------------------
(* Properties                                                              *)

TypeOK ==
    /\ creates \in BOOLEAN /\ renaming \in BOOLEAN
    /\ name \in Names /\ named \in Names /\ pin \in Ids
    /\ lock \in Calls \cup {NoCall}
    /\ sessions \in Seq(Sessions) /\ Len(sessions) <= MaxSessions
    /\ rows \in Seq(Rows) /\ Len(rows) <= MaxRows
    /\ pc \in [Calls -> Phases]
    /\ cmd \in [Calls -> Commands] /\ found \in [Calls -> Ids]
    /\ before \in [Calls -> Ids] /\ start \in [Calls -> Ids]
    /\ anchor \in [Calls -> Anchors] /\ ran \in [Calls -> Ids]
    /\ recap \in [Calls -> SUBSET RowIds]
    /\ watch \in [Calls -> {"off", "seed", "poll", "fetch"}]
    /\ wsid \in [Calls -> Ids] /\ last \in [Calls -> RowIds]
    /\ seen \in [Calls -> RowIds]
    /\ pushed \in [Calls -> [1..MaxRows -> Nat]]
    /\ restarts \in 0..MaxRestarts
    /\ home \in [Names -> Ids]
    /\ cut \in Ids /\ limit \in [Calls -> Ids] /\ due \in [Calls -> Ids]
    /\ alone \in [Calls -> BOOLEAN]

\* A turn recaps tool calls of its own only, however many turns queue for the
\* lock and whatever /new does, in the session its anchor is of, and in any other
\* if it met no turn and no /new (_capture_turn_anchor(), tool_recap()).  The pin
\* may leave the session of the anchor: a call that looked the name up long ago
\* pins what it found then, and such a recap is not filtered.
RecapIsOwn ==
    \A c \in Calls : \A i \in recap[c] :
        rows[i].session = anchor[c].sid \/ alone[c] => rows[i].by = c

\* The watcher of a turn that met no other turn and no /new pushes the tool
\* calls of that turn only: never the history of the session (_run_step_watcher()).
WatchedIsOwn ==
    \A c \in Calls : \A i \in 1..MaxRows :
        alone[c] /\ pushed[c][i] > 0 => rows[i].by = c

\* A message that arrives while no turn is in flight goes to the conversation of
\* the last turn of its thread, be that pinned, resolved by name or resolved again
\* after a restart (_ensure_session(), _resolve_session_id()).  What lifts the
\* obligation: turns that met each other, a /new that overtakes the message, and
\* an old hermes whose session could not be adopted, or not as the only one.
ThreadContinues ==
    \A c \in Calls : due[c] /= 0 /\ ran[c] /= 0 => ran[c] = due[c]

\* A message that arrives after a /new that met no turn in flight goes to a
\* conversation begun after that /new, until the bridge restarts or a message
\* comes in the middle of the next /new (reset_session()).
NewIsFinal == \A c \in Calls : ran[c] /= 0 => ran[c] > limit[c]

\* The thread is never pinned to a conversation of somebody else
\* (_adopt_new_session()).
PinnedIsOurs == pin /= 0 => sessions[pin].by \in Calls

\* What the docstring of _run_step_watcher() says: a tool call is pushed exactly
\* once.  It is false: a row stored between the two queries of one poll is
\* fetched by this poll and again by the next.
PushedOnce ==
    \A c \in Calls : \A i \in 1..MaxRows : alone[c] => pushed[c][i] <= 1
=============================================================================
