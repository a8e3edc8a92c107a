------------------------------ MODULE Downlink ------------------------------
(***************************************************************************)
(* The way from the bridge to the mesh: the relay queue of                 *)
(* core/control_server.py and its worker, push_reply() and send_reply() of *)
(* core/bridge.py, run by that worker and by threads of their own, and the *)
(* DownlinkTracker of core/downlink.py with its sequence numbers, its      *)
(* outcome counters, its lazy sweep and its pacing.  A job is one call of  *)
(* push_reply() or send_reply(), or a deny veto.                           *)
(*                                                                         *)
(* The unit of time is the pacing interval's: Interval units of pause      *)
(* between two parts, AckTimeout units until a number is given up.         *)
(***************************************************************************)
EXTENDS Integers, Sequences, FiniteSets

CONSTANTS
    Jobs,
    Relayed,            \* jobs that come through the relay queue
    Vetoes,             \* relayed jobs that stop the turn and send nothing
    Paced,              \* jobs of push_reply(), which paces its parts
    PartsOf,            \* [Jobs -> Nat \ {0}]: into how many parts each splits
    Peers, PeerOf,      \* [Jobs -> Peers]
    QueueSize,          \* 256
    MaxOutstanding,     \* MAX_OUTSTANDING, 256
    Interval,           \* MIN_CHUNK_INTERVAL_MS
    AckTimeout          \* ACK_TIMEOUT_S

ASSUME DownlinkAssumption ==
    /\ Vetoes \subseteq Relayed /\ Relayed \subseteq Jobs /\ Paced \subseteq Jobs
    /\ PartsOf \in [Jobs -> Nat \ {0}]
    /\ PeerOf \in [Jobs -> Peers]
    /\ QueueSize \in Nat \ {0} /\ MaxOutstanding \in Nat \ {0}
    /\ Interval \in Nat /\ AckTimeout \in Nat

VARIABLES
    pc,                 \* where each job is
    left,               \* the parts it has still to send
    seq,                \* the number of the part in hand
    nap,                \* what is left of its sleep
    gap,                \* history: time since its own last recorded send
    queue,              \* _relay_q
    nextSeq,            \* _next_seq
    outbound,           \* _outbound: the age of each outstanding number
    acked,              \* _counters of the four outcomes of a callback
    timedOut,           \* _counters["timeout"]
    noting,             \* numbers the callback has popped and has yet to count
    rest,               \* time since _last_send of each peer
    onAir,              \* numbers the LXMF router has accepted
    forgotten           \* history: numbers evicted

jobVars == <<pc, left, seq, nap, gap>>
trackVars == <<nextSeq, outbound, acked, timedOut, noting, forgotten>>
vars == <<jobVars, queue, trackVars, rest, onAir>>

Sending == {"ready", "numbered", "sent", "pacing", "napping"}
Ages == 0..(AckTimeout + 1)

\* Numbers are issued in order: the least of a set is the oldest.
Least(S) == CHOOSE m \in S : \A n \in S : m <= n

Init ==
    /\ pc = [j \in Jobs |-> "new"]
    /\ left = PartsOf
    /\ seq = [j \in Jobs |-> 0]
    /\ nap = [j \in Jobs |-> 0]
    /\ gap = [j \in Paced |-> Interval]
    /\ queue = <<>>
    /\ nextSeq = 0
    /\ outbound = [q \in {} |-> 0]
    /\ acked = 0 /\ timedOut = 0
    /\ noting = 0
    /\ rest = [p \in Peers |-> Interval]        \* no send yet
    /\ onAir = {}
    /\ forgotten = 0

Goto(j, from, to) ==
    /\ pc[j] = from
    /\ pc' = [pc EXCEPT ![j] = to]

-----------------------------------------------------------------------------
(* The relay                                                               *)

\* relay(): a full queue drops the job, whatever it is.
Post(j) ==
    /\ j \in Relayed
    /\ IF Len(queue) < QueueSize
       THEN Goto(j, "new", "queued") /\ queue' = Append(queue, j)
       ELSE Goto(j, "new", "dropped") /\ UNCHANGED queue
    /\ UNCHANGED <<left, seq, nap, gap, trackVars, rest, onAir>>

\* A veto is stop(), and there is nothing to send when the session has no peer.
Begin(j) ==
    \E to \in IF j \in Vetoes THEN {"done"} ELSE {"ready", "done"} :
        pc' = [pc EXCEPT ![j] = to]

\* _relay_loop() takes the oldest job when it is done with the one before.
TakeNext ==
    /\ queue /= <<>>
    /\ \A j \in Relayed : pc[j] \notin Sending
    /\ Begin(Head(queue))
    /\ queue' = Tail(queue)
    /\ UNCHANGED <<left, seq, nap, gap, trackVars, rest, onAir>>

\* A step watcher or a worker of the bridge sends by itself.
Start(j) ==
    /\ j \notin Relayed
    /\ pc[j] = "new"
    /\ Begin(j)
    /\ UNCHANGED <<left, seq, nap, gap, queue, trackVars, rest, onAir>>

-----------------------------------------------------------------------------
(* push_reply() and send_reply()                                           *)

\* Sent or not, the part is done with.
NextPart(j, from) ==
    /\ Goto(j, from, IF left[j] = 1 THEN "done"
                     ELSE IF j \in Paced THEN "pacing" ELSE "ready")
    /\ left' = [left EXCEPT ![j] = @ - 1]
    /\ seq' = [seq EXCEPT ![j] = 0]
    /\ UNCHANGED <<nap, queue, trackVars>>

\* The peer's identity is not known and does not come in time.
NoIdentity(j) == NextPart(j, "ready") /\ UNCHANGED <<gap, rest, onAir>>

LateOverfull(S) == Cardinality(S) > MaxOutstanding + 1

Overfull(S) == Cardinality(S) > MaxOutstanding

\* next_seq(): count what has waited too long, issue a number, and make room
\* for it at the expense of the oldest, which nobody counts.
NextSeq(j) ==
    LET live == {q \in DOMAIN outbound : outbound[q] <= AckTimeout}
        all  == live \cup {nextSeq + 1}
        kept == IF Overfull(all) THEN all \ {Least(all)} ELSE all
    IN
    /\ Goto(j, "ready", "numbered")
    /\ nextSeq' = nextSeq + 1
    /\ seq' = [seq EXCEPT ![j] = nextSeq + 1]
    /\ outbound' = [q \in kept |-> IF q \in live THEN outbound[q] ELSE 0]
    /\ timedOut' = timedOut + Cardinality(DOMAIN outbound \ live)
    /\ forgotten' = forgotten + Cardinality(all \ kept)
    /\ UNCHANGED <<left, nap, gap, queue, acked, noting, rest, onAir>>

\* The router accepts the message; the delivery callback may come from now on.
HandOver(j) ==
    /\ Goto(j, "numbered", "sent")
    /\ onAir' = onAir \cup {seq[j]}
    /\ UNCHANGED <<left, seq, nap, gap, queue, trackVars, rest>>

StuckSend(j) ==
    /\ Goto(j, "numbered", "stuck")
    /\ UNCHANGED <<left, seq, nap, gap, queue, trackVars, rest, onAir>>

\* An exception: the number stays outstanding, to be counted as a timeout.
SendFails(j) == NextPart(j, "numbered") /\ UNCHANGED <<gap, rest, onAir>>

ForgetSend(j) ==
    /\ NextPart(j, "sent")
    /\ gap' = [i \in Paced |-> IF i = j THEN 0 ELSE gap[i]]
    /\ UNCHANGED <<rest, onAir>>

\* record_send(); what register_dispatch() adds is only for the log.
RecordSend(j) ==
    /\ NextPart(j, "sent")
    /\ rest' = [rest EXCEPT ![PeerOf[j]] = 0]
    /\ gap' = [i \in Paced |-> IF i = j THEN 0 ELSE gap[i]]
    /\ UNCHANGED onAir

BackwardWait(j) ==
    /\ Goto(j, "pacing", "napping")
    /\ nap' = [nap EXCEPT ![j] = rest[PeerOf[j]] - Interval]
    /\ UNCHANGED <<left, seq, gap, queue, trackVars, rest, onAir>>

\* pace_wait(): how long to sleep is read under the lock ...
PaceWait(j) ==
    /\ Goto(j, "pacing", "napping")
    /\ nap' = [nap EXCEPT ![j] = Interval - rest[PeerOf[j]]]
    /\ UNCHANGED <<left, seq, gap, queue, trackVars, rest, onAir>>

\* ... and slept without it, and not looked at again.
Wake(j) ==
    /\ nap[j] = 0
    /\ Goto(j, "napping", "ready")
    /\ UNCHANGED <<left, seq, nap, gap, queue, trackVars, rest, onAir>>

-----------------------------------------------------------------------------
(* The delivery callback, in the event loop of RNS: for any number on the  *)
(* air, as often as LXMF likes, with any state                             *)

PeekNote(q) ==
    /\ noting = 0 /\ noting' = 1
    /\ UNCHANGED <<jobVars, queue, nextSeq, outbound, acked, timedOut, forgotten,
                   rest, onAir>>

Note(q) ==
    /\ noting = 0 /\ noting' = 1
    /\ outbound' = [r \in DOMAIN outbound \ {q} |-> outbound[r]]
    /\ UNCHANGED <<jobVars, queue, nextSeq, acked, timedOut, forgotten, rest,
                   onAir>>

\* note_outcome(): a number that is not outstanding changes nothing.
NoteOutcome == \E q \in onAir \cap DOMAIN outbound : Note(q)

\* The counter is incremented after the lock has been released.
CountOutcome ==
    /\ noting = 1 /\ noting' = 0
    /\ acked' = acked + 1
    /\ UNCHANGED <<jobVars, queue, nextSeq, outbound, timedOut, forgotten, rest,
                   onAir>>

-----------------------------------------------------------------------------

Upto(t, limit) == IF t < limit THEN t + 1 ELSE t

Tick ==
    /\ nap' = [j \in Jobs |-> IF nap[j] > 0 THEN nap[j] - 1 ELSE 0]
    /\ gap' = [j \in Paced |-> Upto(gap[j], Interval)]
    /\ rest' = [p \in Peers |-> Upto(rest[p], Interval)]
    /\ outbound' = [q \in DOMAIN outbound |-> Upto(outbound[q], AckTimeout + 1)]
    /\ UNCHANGED <<pc, left, seq, queue, nextSeq, acked, timedOut, noting,
                   onAir, forgotten>>

JobStep(j) ==
    \/ NoIdentity(j) \/ NextSeq(j) \/ HandOver(j) \/ SendFails(j)
    \/ RecordSend(j) \/ PaceWait(j) \/ Wake(j)

Next ==
    \/ \E j \in Jobs : Post(j) \/ Start(j) \/ JobStep(j)
    \/ TakeNext
    \/ NoteOutcome \/ CountOutcome
    \/ Tick

Spec == Init /\ [][Next]_vars

\* The relay's thread, for which no other job matters.
RelayStep == TakeNext \/ \E j \in Relayed : JobStep(j)

\* The relay's thread runs and time passes; no other thread and no callback
\* ever needs to.
Fairness == WF_vars(RelayStep) /\ WF_vars(Tick)

FairSpec == Spec /\ Fairness

-----------------------------------------------------------------------------
(* Properties                                                              *)

\* Each variable holds a value of its kind.
TypeOK ==
    /\ pc \in [Jobs -> Sending \cup {"new", "queued", "dropped", "done"}]
    /\ left \in [Jobs -> Nat]
    /\ seq \in [Jobs -> Nat]
    /\ nap \in [Jobs -> 0..Interval]
    /\ gap \in [Paced -> 0..Interval]
    /\ queue \in Seq(Relayed)
    /\ nextSeq \in Nat /\ forgotten \in Nat
    /\ acked \in Nat /\ timedOut \in Nat /\ noting \in {0, 1}
    /\ DOMAIN outbound \subseteq 1..nextSeq
    /\ outbound \in [DOMAIN outbound -> Ages]
    /\ rest \in [Peers -> 0..Interval]
    /\ onAir \subseteq 1..nextSeq

\* Every number issued is outstanding, or has been counted once, as
\* acknowledged or as timed out, or is the one being counted, or was evicted: repeated and late
\* callbacks, sweeps and evictions never count a number twice or lose one
\* (note_outcome is idempotent, downlink.py:187-189).
EveryNumberOnce ==
    nextSeq = Cardinality(DOMAIN outbound) + acked + timedOut + forgotten
                + noting

\* The table of outstanding numbers never outgrows its limit, whether or not
\* any callback ever comes.
RoomForOutstanding == Cardinality(DOMAIN outbound) <= MaxOutstanding

\* push_reply() never hands a part over sooner than the interval after it
\* recorded the part before, whoever else sends to the same peer meanwhile.
OwnPartsPaced ==
    [][\A j \in Paced : HandOver(j) => gap[j] = Interval]_vars

\* A failed send, a missing peer or a full queue never wedges the relay: every
\* job it has accepted is done in the end (control_server.py:238-239).
AcceptedJobsEnd == \A j \in Relayed : (pc[j] = "queued") ~> (pc[j] = "done")
=============================================================================
