------------------------------ MODULE ModelPin ------------------------------
(***************************************************************************)
(* The model pin of core/model_command.py: /model commands in worker       *)
(* threads, the state file, and the HermesClient that uses the model, in a *)
(* process that may be killed at any point and is started again.           *)
(*                                                                         *)
(* A command changes three copies of the pin one after the other, under    *)
(* the lock of the handler: its own, the file's and the client's.  The     *)
(* file is written in place: opening it empties it, and either step may    *)
(* fail, which is logged and not told.  The reply names the pin of its own *)
(* command, and is sent when the lock is free again and the configured     *)
(* models have been read.                                                  *)
(***************************************************************************)
EXTENDS Naturals

CONSTANTS
    Commands,           \* threads that run /model
    Models,             \* names a user may pin
    Default,            \* no pin: hermes runs its default model
    EnvModel,           \* HERMES_MODEL, a model or Default
    Torn,               \* a file that json.loads() rejects
    Unlocked,           \* nobody holds the lock of the handler
    MaxBoots            \* bound: restarts of the process

ASSUME PinAssumption ==
    /\ Default \notin Models
    /\ EnvModel \in Models \cup {Default}
    /\ Torn \notin Models \cup {Default}
    /\ Unlocked \notin Commands
    /\ MaxBoots \in Nat

VARIABLES
    active,             \* ModelCommandHandler._active
    file,               \* what model.json holds
    client,             \* HermesClient.model
    holder,             \* who holds the lock of the handler
    at,                 \* where each command is
    choice,             \* the model it sets, Default for /model reset
    settled,            \* history: the pin of the last command that had its turn
                        \* with the file
    lost,               \* history: why the file may not hold it, if so
    boots

pinVars == <<active, file, client, holder, at, choice, settled, lost, boots>>

Pins == Models \cup {Default}
Busy == {"locked", "marked", "emptied", "persisted", "applied"}

LoadedBlindly == file

\* _load(): a file that is absent or cannot be parsed is no pin.
Loaded == IF file \in Models THEN file ELSE Default

\* The handler sets the client's model only when it has loaded a pin.
Booted == IF Loaded = Default THEN EnvModel ELSE Loaded

PinInit ==
    /\ file \in Pins \cup {Torn}
    /\ active = Loaded
    /\ client = Booted
    /\ holder = Unlocked
    /\ at = [c \in Commands |-> "idle"]
    /\ choice = [c \in Commands |-> Default]
    /\ settled = Loaded
    /\ lost = "no"
    /\ boots = 0

Proceed(c, from, to) ==
    /\ at[c] = from
    /\ at' = [at EXCEPT ![c] = to]

\* "/model <name>" or "/model reset".
AskModel(c) ==
    /\ Proceed(c, "idle", "asked")
    /\ \E p \in Pins : choice' = [choice EXCEPT ![c] = p]
    /\ UNCHANGED <<active, file, client, holder, settled, lost, boots>>

AlwaysFree == TRUE

Free == holder = Unlocked

TakeLock(c) ==
    /\ Free
    /\ Proceed(c, "asked", "locked")
    /\ holder' = c
    /\ UNCHANGED <<active, file, client, choice, settled, lost, boots>>

Mark(c) ==
    /\ Proceed(c, "locked", "marked")
    /\ active' = choice[c]
    /\ UNCHANGED <<file, client, holder, choice, settled, lost, boots>>

\* write_text() opens the file, which empties it...
Empty(c) ==
    /\ Proceed(c, "marked", "emptied")
    /\ file' = Torn
    /\ UNCHANGED <<active, client, holder, choice, settled, lost, boots>>

WrittenBefore(c) == settled

\* ...and writes.
Written(c) == active

Persist(c) ==
    /\ Proceed(c, "emptied", "persisted")
    /\ file' = Written(c)
    /\ settled' = choice[c] /\ lost' = "no"
    /\ UNCHANGED <<active, client, holder, choice, boots>>

\* An OSError of the directory, the opening or the writing is logged only.
PersistFails(c) ==
    /\ \/ Proceed(c, "marked", "persisted")
       \/ Proceed(c, "emptied", "persisted")
    /\ settled' = choice[c] /\ lost' = "failed"
    /\ UNCHANGED <<active, file, client, holder, choice, boots>>

\* HermesClient.set_model(), under the lock of the client.
Apply(c) ==
    /\ Proceed(c, "persisted", "applied")
    /\ client' = choice[c]
    /\ UNCHANGED <<active, file, holder, choice, settled, lost, boots>>

Release(c) ==
    /\ Proceed(c, "applied", "released")
    /\ holder' = Unlocked
    /\ UNCHANGED <<active, file, client, choice, settled, lost, boots>>

\* discover_models(), and the reply.
Confirm(c) ==
    /\ Proceed(c, "released", "idle")
    /\ choice' = [choice EXCEPT ![c] = Default]
    /\ UNCHANGED <<active, file, client, holder, settled, lost, boots>>

Emptied == \E c \in Commands : at[c] = "emptied"

\* The process is killed, at any point, and systemd starts it again.
Restart ==
    /\ boots < MaxBoots
    /\ boots' = boots + 1
    /\ active' = Loaded
    /\ client' = Booted
    /\ holder' = Unlocked
    /\ at' = [c \in Commands |-> "idle"]
    /\ choice' = [c \in Commands |-> Default]
    /\ lost' = IF Emptied THEN "cut" ELSE lost
    /\ UNCHANGED <<file, settled>>

PinStep(c) ==
    \/ AskModel(c) \/ TakeLock(c) \/ Mark(c) \/ Empty(c) \/ Persist(c)
    \/ PersistFails(c) \/ Apply(c) \/ Release(c) \/ Confirm(c)

PinNext == Restart \/ \E c \in Commands : PinStep(c)

PinSpec == PinInit /\ [][PinNext]_pinVars

-----------------------------------------------------------------------------
(* Properties                                                              *)

PinTypeOK ==
    /\ active \in Pins
    /\ file \in Pins \cup {Torn}
    /\ client \in Pins
    /\ holder \in Commands \cup {Unlocked}
    /\ at \in [Commands -> Busy \cup {"idle", "asked", "released"}]
    /\ choice \in [Commands -> Pins]
    /\ settled \in Pins
    /\ lost \in {"no", "failed", "cut"}
    /\ boots \in 0..MaxBoots

\* "All other /model handling should route through this object so state stays
\* consistent": however commands and restarts interleave, while no command is
\* at work the pin of the last one is the handler's, the file's and the
\* client's.  Without a pin the next message runs with hermes' default or with
\* the model of the environment.  Where a write failed, or a kill cut one short,
\* the handler and the client still agree.
PinsAgree ==
    holder = Unlocked =>
        /\ client \in {active} \cup (IF active = Default THEN {EnvModel} ELSE {})
        /\ lost = "no" => active = settled /\ Loaded = settled

\* "The pin survives a bridge restart": wherever the process is killed, the file
\* brings back the pin of the last command that wrote it.  Excepted, and a
\* finding, are the moments at which the file is open and empty.
PinSurvives == lost = "no" /\ ~Emptied => Loaded = settled

\* What the docstring says without that exception (model_command.py:5-7).  TLC
\* refutes it: a command killed between the opening and the write takes with it
\* the pin that an earlier one had confirmed.
PinSurvivesKill == lost /= "failed" /\ ~Emptied => Loaded = settled

\* A reply names the pin that is active when it is sent.  TLC refutes it: the
\* lock is free by then, and another command may have had it (_set(), 202-211).
ReplyIsCurrent == \A c \in Commands : at[c] = "released" => choice[c] = active
=============================================================================
