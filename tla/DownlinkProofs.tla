--------------------------- MODULE DownlinkProofs ---------------------------
(***************************************************************************)
(* Proofs about Downlink, for any jobs, parts, peers and limits: its       *)
(* types, that every number issued is accounted for once, that the table   *)
(* of outstanding numbers keeps its limit, and that push_reply() paces its *)
(* own parts.                                                              *)
(***************************************************************************)
EXTENDS Downlink, FiniteSetTheorems, WellFoundedInduction, TLAPS

\* The two halves of TypeOK: the jobs and the tracker.
JobsOK ==
    /\ pc \in [Jobs -> Sending \cup {"new", "queued", "dropped", "done"}]
    /\ left \in [Jobs -> Nat]
    /\ seq \in [Jobs -> Nat]
    /\ nap \in [Jobs -> 0..Interval]
    /\ gap \in [Paced -> 0..Interval]
    /\ queue \in Seq(Relayed)
    /\ rest \in [Peers -> 0..Interval]

TrackerOK ==
    /\ nextSeq \in Nat /\ forgotten \in Nat
    /\ acked \in Nat /\ timedOut \in Nat /\ noting \in {0, 1}
    /\ DOMAIN outbound \subseteq 1..nextSeq
    /\ outbound \in [DOMAIN outbound -> Ages]

\* What waits in the queue waits there once, and is told apart by its pc.
Queued ==
    /\ \A i \in 1..Len(queue) : pc[queue[i]] = "queued"
    /\ \A i, k \in 1..Len(queue) : queue[i] = queue[k] => i = k

\* A job that is not done has a part to send, and the part in hand a number.
InHand ==
    \A j \in Jobs :
        /\ pc[j] /= "done" => left[j] >= 1
        /\ pc[j] \in {"numbered", "sent"} => seq[j] \in 1..nextSeq

\* The peer has been sent to since the job last did, and a job that sleeps
\* sleeps long enough.
Patience ==
    \A j \in Paced :
        /\ rest[PeerOf[j]] <= gap[j]
        /\ pc[j] = "napping" => nap[j] + gap[j] >= Interval
        /\ pc[j] \in {"new", "queued", "ready", "numbered"} => gap[j] = Interval

Books == TrackerOK /\ EveryNumberOnce /\ RoomForOutstanding

Work == JobsOK /\ onAir \subseteq 1..nextSeq /\ Queued /\ InHand /\ Patience

IInv == Books /\ Work

-----------------------------------------------------------------------------
(* Facts about the operators                                               *)

\* A set of numbers up to n that is not empty has a least member: among the
\* intervals from 1 to its members one is minimal.
LEMMA LeastExists ==
    ASSUME NEW n \in Nat, NEW T \in SUBSET (1..n), T /= {}
    PROVE  Least(T) \in T
    <1> DEFINE Upto1(m) == 1..m
               F == {Upto1(m) : m \in T}
               R == StrictSubsetOrdering(1..n)
    <1>1. IsWellFoundedOn(R, FiniteSubsetsOf(1..n))
        BY FS_StrictSubsetOrderingWellFounded
    <1>2. F \subseteq FiniteSubsetsOf(1..n)
        <2>1. IsFiniteSet(1..n)
            BY FS_Interval
        <2>2. FiniteSubsetsOf(1..n) = SUBSET (1..n)
            BY <2>1, FS_FiniteSubsetsOfFinite
        <2> QED
            BY <2>2
    <1>3. PICK X \in F : \A Y \in F : ~(<<Y, X>> \in R)
        <2>1. F /= {}
            OBVIOUS
        <2> HIDE DEF F, R
        <2> QED
            BY <1>1, <1>2, <2>1, WFMin
    <1>4. PICK m \in T : X = 1..m
        OBVIOUS
    <1>5. \A k \in T : m <= k
        <2> SUFFICES ASSUME NEW k \in T, k < m PROVE FALSE
            OBVIOUS
        <2>1. 1..k \in F
            OBVIOUS
        <2>2. 1..k \subseteq 1..n /\ 1..m \subseteq 1..n
            OBVIOUS
        <2>3. 1..k \subseteq 1..m /\ m \in 1..m /\ m \notin 1..k
            OBVIOUS
        <2>4. <<1..k, 1..m>> \in R
            BY <2>2, <2>3 DEF StrictSubsetOrdering
        <2> QED
            BY <1>3, <1>4, <2>1, <2>4
    <1> QED
        BY <1>5 DEF Least

LEMMA OutboundFinite ==
    ASSUME TrackerOK
    PROVE  /\ IsFiniteSet(DOMAIN outbound)
           /\ Cardinality(DOMAIN outbound) \in Nat
    <1>1. IsFiniteSet(1..nextSeq)
        <2>1. nextSeq \in Int
            BY DEF TrackerOK
        <2> QED
            BY <2>1, FS_Interval
    <1> QED
        BY <1>1, FS_Subset, FS_CardinalityType DEF TrackerOK

LEMMA UptoStays ==
    ASSUME NEW limit \in Nat, NEW t \in 0..limit
    PROVE  /\ Upto(t, limit) \in 0..limit
           /\ t <= Upto(t, limit)
           /\ Upto(t, limit) = limit \/ Upto(t, limit) = t + 1
    BY DEF Upto

-----------------------------------------------------------------------------
(* The books of the tracker                                                *)

LEMMA InitBooks == Init => Books
    <1> SUFFICES ASSUME Init PROVE Books
        OBVIOUS
    <1>1. DOMAIN outbound = {}
        BY DEF Init
    <1>2. Cardinality(DOMAIN outbound) = 0
        BY <1>1, FS_EmptySet
    <1>3. TrackerOK
        BY <1>1 DEF Init, TrackerOK
    <1>4. EveryNumberOnce /\ RoomForOutstanding
        BY <1>2, DownlinkAssumption DEF Init, EveryNumberOnce, RoomForOutstanding
    <1> QED
        BY <1>3, <1>4 DEF Books

\* What is expired is counted, what is evicted is forgotten, and the rest is
\* one more than before: nothing is left over.
LEMMA NextSeqBooks ==
    ASSUME Books, NEW j \in Jobs, NextSeq(j)
    PROVE  Books'
    <1> DEFINE D == DOMAIN outbound
               live == {q \in D : outbound[q] <= AckTimeout}
               all == live \cup {nextSeq + 1}
               kept == IF Overfull(all) THEN all \ {Least(all)} ELSE all
    <1>1. TrackerOK /\ nextSeq \in Nat /\ D \subseteq 1..nextSeq
        BY DEF Books, TrackerOK
    <1>2. IsFiniteSet(D) /\ IsFiniteSet(live) /\ IsFiniteSet(D \ live)
        BY <1>1, OutboundFinite, FS_Subset
    <1>3. Cardinality(D) = Cardinality(live) + Cardinality(D \ live)
        <2>1. live \cup (D \ live) = D /\ live \cap (D \ live) = {}
            OBVIOUS
        <2>2. Cardinality(live) \in Nat /\ Cardinality(D \ live) \in Nat
            BY <1>2, FS_CardinalityType
        <2> HIDE DEF D, live
        <2>3. Cardinality(live \cup (D \ live)) =
                Cardinality(live) + Cardinality(D \ live)
                    - Cardinality(live \cap (D \ live))
            BY <1>2, FS_Union
        <2>4. Cardinality(live \cap (D \ live)) = 0
            BY <2>1, FS_EmptySet
        <2>5. Cardinality(live \cup (D \ live)) = Cardinality(D)
            BY <2>1
        <2> QED
            BY <2>2, <2>3, <2>4, <2>5
    <1>4. IsFiniteSet(all) /\ Cardinality(all) = Cardinality(live) + 1
        <2>1. nextSeq + 1 \notin live
            BY <1>1
        <2> HIDE DEF live
        <2> QED
            BY <1>2, <2>1, FS_AddElement
    <1>5. all \subseteq 1..(nextSeq + 1) /\ all /= {}
        BY <1>1
    <1>6. /\ kept \subseteq all
          /\ Cardinality(kept) + Cardinality(all \ kept) = Cardinality(all)
          /\ Cardinality(kept) <= IF Overfull(all) THEN Cardinality(live)
                                                   ELSE MaxOutstanding
          /\ Cardinality(all \ kept) \in Nat /\ Cardinality(kept) \in Nat
        <2> HIDE DEF all, live
        <2>1. Cardinality(all) \in Nat /\ Cardinality(live) \in Nat
            BY <1>2, <1>4, FS_CardinalityType
        <2>2. CASE Overfull(all)
            <3>1. Least(all) \in all
                <4>1. nextSeq + 1 \in Nat
                    BY <1>1
                <4> QED
                    BY <1>5, <4>1, LeastExists
            <3>2. kept = all \ {Least(all)} /\ all \ kept = {Least(all)}
                BY <2>2, <3>1
            <3>3. Cardinality(kept) = Cardinality(all) - 1
                BY <1>4, <3>1, <3>2, FS_RemoveElement
            <3>4. Cardinality(all \ kept) = 1
                BY <3>2, FS_Singleton
            <3> HIDE DEF kept
            <3> QED
                BY <1>4, <2>1, <2>2, <3>2, <3>3, <3>4
        <2>3. CASE ~Overfull(all)
            <3>1. kept = all /\ all \ kept = {}
                BY <2>3
            <3>2. Cardinality(all \ kept) = 0
                BY <3>1, FS_EmptySet
            <3> HIDE DEF kept
            <3> QED
                BY <2>1, <2>3, <3>1, <3>2, DownlinkAssumption DEF Overfull
        <2> QED
            BY <2>2, <2>3
    <1>7. /\ nextSeq' = nextSeq + 1
          /\ outbound' = [q \in kept |-> IF q \in live THEN outbound[q] ELSE 0]
          /\ timedOut' = timedOut + Cardinality(D \ live)
          /\ forgotten' = forgotten + Cardinality(all \ kept)
          /\ acked' = acked /\ noting' = noting
        BY DEF NextSeq
    <1>8. DOMAIN outbound' = kept
        BY <1>7
    <1>9. TrackerOK'
        <2>1. timedOut' \in Nat /\ forgotten' \in Nat /\ nextSeq' \in Nat
            BY <1>1, <1>2, <1>6, <1>7, FS_CardinalityType DEF TrackerOK
        <2>2. kept \subseteq 1..nextSeq'
            BY <1>5, <1>6, <1>7
        <2>3. \A q \in kept : (IF q \in live THEN outbound[q] ELSE 0) \in Ages
            BY <1>1, DownlinkAssumption DEF TrackerOK, Ages
        <2>4. outbound' \in [kept -> Ages]
            BY <1>7, <2>3
        <2> HIDE DEF kept, live, D
        <2> QED
            BY <1>1, <1>7, <1>8, <2>1, <2>2, <2>4 DEF TrackerOK
    <1>10. EveryNumberOnce'
        <2>1. /\ acked \in Nat /\ timedOut \in Nat /\ forgotten \in Nat
              /\ noting \in {0, 1}
            BY <1>1 DEF TrackerOK
        <2>2. nextSeq = Cardinality(D) + acked + timedOut + forgotten + noting
            BY DEF Books, EveryNumberOnce
        <2>3. Cardinality(D \ live) \in Nat /\ Cardinality(live) \in Nat
            BY <1>2, FS_CardinalityType
        <2> HIDE DEF kept, all, live, D
        <2> QED
            BY <1>3, <1>4, <1>6, <1>7, <1>8, <2>1, <2>2, <2>3
               DEF EveryNumberOnce
    <1>11. RoomForOutstanding'
        <2>1. Cardinality(live) <= Cardinality(D)
            BY <1>2, FS_Subset
        <2>2. Cardinality(D) <= MaxOutstanding
            BY DEF Books, RoomForOutstanding
        <2>3. Cardinality(live) \in Nat /\ Cardinality(D) \in Nat
            BY <1>2, FS_CardinalityType
        <2> HIDE DEF kept, all, live, D
        <2> QED
            BY <1>6, <1>8, <2>1, <2>2, <2>3, DownlinkAssumption
               DEF RoomForOutstanding
    <1> QED
        BY <1>9, <1>10, <1>11 DEF Books

LEMMA NoteBooks ==
    ASSUME Books, NoteOutcome
    PROVE  Books'
    <1>1. PICK q \in DOMAIN outbound : Note(q)
        BY DEF NoteOutcome
    <1>2. /\ noting = 0 /\ noting' = 1
          /\ outbound' = [r \in DOMAIN outbound \ {q} |-> outbound[r]]
          /\ UNCHANGED <<nextSeq, acked, timedOut, forgotten>>
        BY <1>1 DEF Note
    <1>3. DOMAIN outbound' = DOMAIN outbound \ {q}
        BY <1>2
    <1>4. /\ Cardinality(DOMAIN outbound') = Cardinality(DOMAIN outbound) - 1
          /\ Cardinality(DOMAIN outbound) \in Nat
        BY <1>3, OutboundFinite, FS_RemoveElement DEF Books
    <1>5. TrackerOK'
        BY <1>2, <1>3 DEF Books, TrackerOK
    <1>6. EveryNumberOnce' /\ RoomForOutstanding'
        BY <1>2, <1>4, DownlinkAssumption
           DEF Books, TrackerOK, EveryNumberOnce, RoomForOutstanding
    <1> QED
        BY <1>5, <1>6 DEF Books

LEMMA CountBooks ==
    ASSUME Books, CountOutcome
    PROVE  Books'
    <1>1. /\ noting = 1 /\ noting' = 0 /\ acked' = acked + 1
          /\ UNCHANGED <<nextSeq, outbound, timedOut, forgotten>>
        BY DEF CountOutcome
    <1>2. Cardinality(DOMAIN outbound) \in Nat
        BY OutboundFinite DEF Books
    <1>3. TrackerOK'
        BY <1>1 DEF Books, TrackerOK
    <1>4. EveryNumberOnce' /\ RoomForOutstanding'
        BY <1>1, <1>2 DEF Books, TrackerOK, EveryNumberOnce, RoomForOutstanding
    <1> QED
        BY <1>3, <1>4 DEF Books

LEMMA TickBooks ==
    ASSUME Books, Tick
    PROVE  Books'
    <1>1. /\ outbound' = [q \in DOMAIN outbound |->
                                Upto(outbound[q], AckTimeout + 1)]
          /\ UNCHANGED <<nextSeq, acked, timedOut, noting, forgotten>>
        BY DEF Tick
    <1>2. DOMAIN outbound' = DOMAIN outbound
        BY <1>1
    <1>3. \A q \in DOMAIN outbound : Upto(outbound[q], AckTimeout + 1) \in Ages
        BY UptoStays, DownlinkAssumption DEF Books, TrackerOK, Ages
    <1>4. TrackerOK'
        BY <1>1, <1>2, <1>3 DEF Books, TrackerOK
    <1>5. EveryNumberOnce' /\ RoomForOutstanding'
        BY <1>1, <1>2 DEF Books, EveryNumberOnce, RoomForOutstanding
    <1> QED
        BY <1>4, <1>5 DEF Books

LEMMA QuietBooks ==
    ASSUME Books, UNCHANGED trackVars
    PROVE  Books'
    BY DEF Books, trackVars, TrackerOK, EveryNumberOnce, RoomForOutstanding

-----------------------------------------------------------------------------
(* The work of the jobs                                                    *)

LEMMA InitWork == Init => Work
    <1> SUFFICES ASSUME Init PROVE Work
        OBVIOUS
    <1>1. JobsOK
        BY DownlinkAssumption DEF Init, JobsOK
    <1>2. onAir \subseteq 1..nextSeq /\ Queued
        BY DEF Init, Queued
    <1>3. InHand /\ Patience
        BY DownlinkAssumption DEF Init, InHand, Patience
    <1> QED
        BY <1>1, <1>2, <1>3 DEF Work

LEMMA PostWork ==
    ASSUME Work, NEW j \in Jobs, Post(j)
    PROVE  Work'
    <1>1. /\ JobsOK /\ Queued /\ InHand /\ Patience /\ j \in Relayed
          /\ pc[j] = "new" /\ pc \in [Jobs -> Sending \cup {"new", "queued", "dropped", "done"}]
          /\ queue \in Seq(Relayed) /\ Relayed \subseteq Jobs
        BY DownlinkAssumption DEF Work, Post, Goto, JobsOK
    <1>2. UNCHANGED <<left, seq, nap, gap, trackVars, rest, onAir>>
        BY DEF Post
    <1>3. \/ pc' = [pc EXCEPT ![j] = "queued"] /\ queue' = Append(queue, j)
          \/ pc' = [pc EXCEPT ![j] = "dropped"] /\ queue' = queue
        BY DEF Post, Goto
    <1>4. \A i \in 1..Len(queue) : queue[i] \in Jobs /\ queue[i] /= j
        BY <1>1 DEF Queued
    <1>5. JobsOK'
        <2>1. queue' \in Seq(Relayed)
            BY <1>1, <1>3
        <2>2. pc' \in [Jobs -> Sending \cup {"new", "queued", "dropped", "done"}]
            BY <1>1, <1>3
        <2> QED
            BY <1>1, <1>2, <2>1, <2>2 DEF JobsOK
    <1>6. Queued'
        <2>1. CASE pc' = [pc EXCEPT ![j] = "dropped"] /\ queue' = queue
            BY <1>1, <1>4, <2>1 DEF Queued
        <2>2. CASE pc' = [pc EXCEPT ![j] = "queued"] /\ queue' = Append(queue, j)
            <3>1. /\ Len(queue') = Len(queue) + 1 /\ Len(queue) \in Nat
                  /\ queue'[Len(queue) + 1] = j
                  /\ \A i \in 1..Len(queue) : queue'[i] = queue[i]
                BY <1>1, <2>2
            <3>2. \A i \in 1..Len(queue') :
                    i = Len(queue) + 1 \/ i \in 1..Len(queue)
                BY <3>1
            <3>3. pc'[j] = "queued" /\ \A i \in Jobs : pc[i] = "queued" =>
                                                        pc'[i] = "queued"
                BY <1>1, <2>2
            <3> QED
                BY <1>1, <1>4, <3>1, <3>2, <3>3 DEF Queued
        <2> QED
            BY <1>3, <2>1, <2>2
    <1>7. InHand'
        BY <1>1, <1>2, <1>3 DEF InHand, trackVars
    <1>8. Patience'
        <2>1. \A i \in Paced : i \in Jobs
            BY DownlinkAssumption
        <2> QED
            BY <1>1, <1>2, <1>3, <2>1 DEF Patience
    <1> QED
        BY <1>2, <1>5, <1>6, <1>7, <1>8 DEF Work, trackVars

LEMMA TakeWork ==
    ASSUME Work, TakeNext
    PROVE  Work'
    <1> DEFINE h == Head(queue)
    <1>1. /\ JobsOK /\ Queued /\ InHand /\ Patience
          /\ queue \in Seq(Relayed) /\ queue /= <<>> /\ Relayed \subseteq Jobs
        BY DownlinkAssumption DEF Work, TakeNext, JobsOK
    <1>2. h \in Jobs /\ h = queue[1] /\ 1 \in 1..Len(queue) /\ pc[h] = "queued"
        BY <1>1 DEF Queued
    <1>3. /\ queue' = Tail(queue)
          /\ UNCHANGED <<left, seq, nap, gap, trackVars, rest, onAir>>
        BY DEF TakeNext
    <1>4. PICK to \in {"done", "ready"} : pc' = [pc EXCEPT ![h] = to]
        BY DEF TakeNext, Begin
    <1>5. /\ queue' \in Seq(Relayed) /\ Len(queue') = Len(queue) - 1
          /\ \A i \in 1..Len(queue') : queue'[i] = queue[i + 1]
        BY <1>1, <1>3
    <1> HIDE DEF h
    <1>6. JobsOK'
        BY <1>1, <1>2, <1>3, <1>4, <1>5 DEF JobsOK, Sending
    <1>7. Queued'
        <2>1. \A i \in 1..Len(queue') :
                 /\ i + 1 \in 1..Len(queue) /\ queue[i + 1] \in Jobs
                 /\ queue[i + 1] /= h /\ pc[queue[i + 1]] = "queued"
            BY <1>1, <1>2, <1>5 DEF Queued
        <2>2. \A i \in 1..Len(queue') : pc'[queue'[i]] = "queued"
            BY <1>1, <1>4, <1>5, <2>1 DEF JobsOK
        <2>3. \A i, k \in 1..Len(queue') : queue'[i] = queue'[k] => i = k
            BY <1>1, <1>5, <2>1 DEF Queued
        <2> QED
            BY <2>2, <2>3 DEF Queued
    <1>8. InHand'
        BY <1>1, <1>2, <1>3, <1>4 DEF InHand, JobsOK, trackVars
    <1>9. Patience'
        BY <1>1, <1>2, <1>3, <1>4, DownlinkAssumption DEF Patience, JobsOK
    <1> QED
        BY <1>3, <1>6, <1>7, <1>8, <1>9 DEF Work, trackVars

\* A job that moves on leaves the queue and the others as they are.
LEMMA MoveQueued ==
    ASSUME Work, NEW j \in Jobs, NEW to, pc[j] /= "queued",
           pc' = [pc EXCEPT ![j] = to], queue' = queue
    PROVE  Queued'
    <1>1. \A i \in 1..Len(queue) : queue[i] \in Jobs /\ queue[i] /= j
        <2>1. queue \in Seq(Relayed) /\ Relayed \subseteq Jobs
            BY DownlinkAssumption DEF Work, JobsOK
        <2>2. \A i \in 1..Len(queue) : queue[i] \in Jobs
            BY <2>1
        <2> QED
            BY <2>2 DEF Work, Queued
    <1> QED
        BY <1>1 DEF Work, JobsOK, Queued

LEMMA StartWork ==
    ASSUME Work, NEW j \in Jobs, Start(j)
    PROVE  Work'
    <1>0. PICK to \in {"ready", "done"} : pc' = [pc EXCEPT ![j] = to]
        BY DEF Start, Begin
    <1>1. /\ JobsOK /\ InHand /\ Patience /\ pc[j] = "new"
          /\ UNCHANGED <<left, seq, nap, gap, queue, trackVars, rest, onAir>>
        BY DEF Work, Start
    <1>2. JobsOK'
        BY <1>0, <1>1 DEF JobsOK, Sending
    <1>3. Queued'
        BY <1>0, <1>1, MoveQueued
    <1>4. InHand' /\ Patience'
        BY <1>0, <1>1 DEF InHand, Patience, JobsOK, trackVars
    <1> QED
        BY <1>1, <1>2, <1>3, <1>4 DEF Work, trackVars

LEMMA PartWork ==
    ASSUME Work, NEW j \in Jobs, NoIdentity(j) \/ SendFails(j) \/ RecordSend(j)
    PROVE  Work'
    <1>1. PICK from \in {"ready", "numbered", "sent"} : NextPart(j, from)
        BY DEF NoIdentity, SendFails, RecordSend
    <1>2. PICK to \in {"done", "pacing", "ready"} :
             /\ pc' = [pc EXCEPT ![j] = to]
             /\ to = "ready" => j \notin Paced
             /\ to /= "done" => left[j] /= 1
        BY <1>1 DEF NextPart, Goto
    <1>3. /\ JobsOK /\ InHand /\ Patience
          /\ pc[j] \in {"ready", "numbered", "sent"}
          /\ left' = [left EXCEPT ![j] = @ - 1]
          /\ seq' = [seq EXCEPT ![j] = 0]
          /\ UNCHANGED <<nap, queue, trackVars, onAir>>
        BY <1>1 DEF Work, NextPart, Goto, NoIdentity, SendFails, RecordSend
    <1>4. /\ \A p \in Peers : rest'[p] = rest[p] \/ rest'[p] = 0
          /\ \A i \in Paced :
                \/ gap'[i] = gap[i]
                \/ i = j /\ gap'[i] = 0 /\ rest'[PeerOf[i]] = 0
          /\ rest' \in [Peers -> 0..Interval] /\ gap' \in [Paced -> 0..Interval]
        <2>1. CASE RecordSend(j)
            <3>1. /\ rest' = [rest EXCEPT ![PeerOf[j]] = 0]
                  /\ gap' = [i \in Paced |-> IF i = j THEN 0 ELSE gap[i]]
                  /\ PeerOf[j] \in Peers /\ 0 \in 0..Interval
                BY <2>1, DownlinkAssumption DEF RecordSend
            <3>2. rest' \in [Peers -> 0..Interval] /\ gap' \in [Paced -> 0..Interval]
                BY <1>3, <3>1 DEF JobsOK
            <3>3. \A p \in Peers : rest'[p] = rest[p] \/ rest'[p] = 0
                BY <1>3, <3>1 DEF JobsOK
            <3>4. rest'[PeerOf[j]] = 0
                BY <1>3, <3>1 DEF JobsOK
            <3>5. \A i \in Paced : (i = j /\ gap'[i] = 0) \/ gap'[i] = gap[i]
                BY <3>1
            <3> QED
                BY <3>2, <3>3, <3>4, <3>5
        <2>2. CASE NoIdentity(j) \/ SendFails(j)
            <3>1. rest' = rest /\ gap' = gap
                BY <2>2 DEF NoIdentity, SendFails
            <3>2. rest \in [Peers -> 0..Interval] /\ gap \in [Paced -> 0..Interval]
                BY <1>3 DEF JobsOK
            <3> QED
                BY <3>1, <3>2
        <2> QED
            BY <2>1, <2>2
    <1>5. left[j] \in Nat /\ left[j] >= 1
        BY <1>3 DEF InHand, JobsOK
    <1>6. JobsOK'
        BY <1>2, <1>3, <1>4, <1>5 DEF JobsOK, Sending
    <1>7. Queued'
        BY <1>2, <1>3, MoveQueued
    <1>8. InHand'
        BY <1>2, <1>3, <1>5 DEF InHand, JobsOK, trackVars
    <1>9. Patience'
        <2> SUFFICES ASSUME NEW i \in Paced
                     PROVE  /\ rest'[PeerOf[i]] <= gap'[i]
                            /\ pc'[i] = "napping" => nap'[i] + gap'[i] >= Interval
                            /\ pc'[i] \in {"new", "queued", "ready", "numbered"}
                                  => gap'[i] = Interval
            BY DEF Patience
        <2>1. i \in Jobs /\ PeerOf[i] \in Peers
            BY DownlinkAssumption
        <2>2. /\ rest[PeerOf[i]] \in 0..Interval /\ gap[i] \in 0..Interval
              /\ rest'[PeerOf[i]] \in 0..Interval /\ gap'[i] \in 0..Interval
              /\ rest[PeerOf[i]] <= gap[i]
            BY <1>3, <1>4, <2>1 DEF JobsOK, Patience
        <2>3. rest'[PeerOf[i]] <= gap'[i]
            BY <1>4, <2>1, <2>2, DownlinkAssumption
        <2>4. CASE i = j
            BY <1>2, <1>3, <2>1, <2>3, <2>4 DEF JobsOK
        <2>5. CASE i /= j
            BY <1>2, <1>3, <1>4, <2>1, <2>3, <2>5 DEF JobsOK, Patience
        <2> QED
            BY <2>4, <2>5
    <1> QED
        BY <1>3, <1>6, <1>7, <1>8, <1>9 DEF Work, trackVars

LEMMA NextSeqWork ==
    ASSUME Books, Work, NEW j \in Jobs, NextSeq(j)
    PROVE  Work'
    <1>1. /\ JobsOK /\ InHand /\ Patience /\ onAir \subseteq 1..nextSeq
          /\ pc[j] = "ready" /\ pc' = [pc EXCEPT ![j] = "numbered"]
          /\ nextSeq' = nextSeq + 1 /\ seq' = [seq EXCEPT ![j] = nextSeq + 1]
          /\ UNCHANGED <<left, nap, gap, queue, rest, onAir>>
        BY DEF Work, NextSeq, Goto
    <1>2. nextSeq \in Nat
        BY DEF Books, TrackerOK
    <1>3. JobsOK'
        BY <1>1, <1>2 DEF JobsOK, Sending
    <1>4. Queued'
        BY <1>1, MoveQueued
    <1>5. InHand' /\ onAir' \subseteq 1..nextSeq'
        BY <1>1, <1>2 DEF InHand, JobsOK
    <1>6. Patience'
        BY <1>1, DownlinkAssumption DEF Patience, JobsOK
    <1> QED
        BY <1>3, <1>4, <1>5, <1>6 DEF Work

LEMMA HandOverWork ==
    ASSUME Work, NEW j \in Jobs, HandOver(j)
    PROVE  Work'
    <1>1. /\ JobsOK /\ InHand /\ Patience /\ onAir \subseteq 1..nextSeq
          /\ pc[j] = "numbered" /\ pc' = [pc EXCEPT ![j] = "sent"]
          /\ onAir' = onAir \cup {seq[j]}
          /\ UNCHANGED <<left, seq, nap, gap, queue, trackVars, rest>>
        BY DEF Work, HandOver, Goto
    <1>2. JobsOK'
        BY <1>1 DEF JobsOK, Sending
    <1>3. Queued'
        BY <1>1, MoveQueued
    <1>4. InHand' /\ onAir' \subseteq 1..nextSeq'
        BY <1>1 DEF InHand, JobsOK, trackVars
    <1>5. Patience'
        BY <1>1, DownlinkAssumption DEF Patience, JobsOK
    <1> QED
        BY <1>2, <1>3, <1>4, <1>5 DEF Work

\* The sleep is what the peer's pause lacks, and that is no less than what the
\* job's own pause lacks.
LEMMA PaceWork ==
    ASSUME Work, NEW j \in Jobs, PaceWait(j)
    PROVE  Work'
    <1>1. /\ JobsOK /\ InHand /\ Patience /\ onAir \subseteq 1..nextSeq
          /\ pc[j] = "pacing" /\ pc' = [pc EXCEPT ![j] = "napping"]
          /\ nap' = [nap EXCEPT ![j] = Interval - rest[PeerOf[j]]]
          /\ UNCHANGED <<left, seq, gap, queue, trackVars, rest, onAir>>
        BY DEF Work, PaceWait, Goto
    <1>2. /\ Interval \in Nat /\ PeerOf[j] \in Peers
          /\ rest[PeerOf[j]] \in 0..Interval
          /\ Interval - rest[PeerOf[j]] \in 0..Interval
        <2>1. Interval \in Nat /\ PeerOf[j] \in Peers
            BY DownlinkAssumption
        <2>2. rest[PeerOf[j]] \in 0..Interval
            BY <1>1, <2>1 DEF JobsOK
        <2> QED
            BY <2>1, <2>2
    <1>3. JobsOK'
        BY <1>1, <1>2 DEF JobsOK, Sending
    <1>4. Queued'
        BY <1>1, MoveQueued
    <1>5. InHand' /\ onAir' \subseteq 1..nextSeq'
        BY <1>1 DEF InHand, JobsOK, trackVars
    <1>6. Patience'
        <2> SUFFICES ASSUME NEW i \in Paced
                     PROVE  /\ rest'[PeerOf[i]] <= gap'[i]
                            /\ pc'[i] = "napping" => nap'[i] + gap'[i] >= Interval
                            /\ pc'[i] \in {"new", "queued", "ready", "numbered"}
                                  => gap'[i] = Interval
            BY DEF Patience
        <2>1. i \in Jobs /\ gap[i] \in 0..Interval /\ rest[PeerOf[i]] <= gap[i]
            BY <1>1, DownlinkAssumption DEF JobsOK, Patience
        <2>2. CASE i = j
            <3>1. nap'[i] = Interval - rest[PeerOf[i]] /\ pc'[i] = "napping"
                BY <1>1, <2>1, <2>2 DEF JobsOK
            <3>2. gap'[i] = gap[i] /\ rest'[PeerOf[i]] = rest[PeerOf[i]]
                BY <1>1
            <3> QED
                BY <1>2, <2>1, <2>2, <3>1, <3>2
        <2>3. CASE i /= j
            BY <1>1, <2>1, <2>3 DEF JobsOK, Patience
        <2> QED
            BY <2>2, <2>3
    <1> QED
        BY <1>3, <1>4, <1>5, <1>6 DEF Work

LEMMA WakeWork ==
    ASSUME Work, NEW j \in Jobs, Wake(j)
    PROVE  Work'
    <1>1. /\ JobsOK /\ InHand /\ Patience /\ onAir \subseteq 1..nextSeq
          /\ pc[j] = "napping" /\ pc' = [pc EXCEPT ![j] = "ready"] /\ nap[j] = 0
          /\ UNCHANGED <<left, seq, nap, gap, queue, trackVars, rest, onAir>>
        BY DEF Work, Wake, Goto
    <1>2. JobsOK'
        BY <1>1 DEF JobsOK, Sending
    <1>3. Queued'
        BY <1>1, MoveQueued
    <1>4. InHand' /\ onAir' \subseteq 1..nextSeq'
        BY <1>1 DEF InHand, JobsOK, trackVars
    <1>5. \A i \in Paced : gap[i] \in 0..Interval /\ i \in Jobs
        BY <1>1, DownlinkAssumption DEF JobsOK
    <1>6. j \in Paced => gap[j] = Interval
        BY <1>1, <1>5, DownlinkAssumption DEF Patience
    <1>7. Patience'
        BY <1>1, <1>5, <1>6 DEF Patience, JobsOK
    <1> QED
        BY <1>2, <1>3, <1>4, <1>7 DEF Work

LEMMA CallbackWork ==
    ASSUME Work, NoteOutcome \/ CountOutcome
    PROVE  Work'
    <1>1. UNCHANGED <<jobVars, queue, nextSeq, rest, onAir>>
        BY DEF NoteOutcome, Note, CountOutcome
    <1> QED
        BY <1>1 DEF Work, jobVars, JobsOK, Queued, InHand, Patience

LEMMA TickWork ==
    ASSUME Work, Tick
    PROVE  Work'
    <1>1. /\ JobsOK /\ Queued /\ InHand /\ Patience
          /\ nap' = [j \in Jobs |-> IF nap[j] > 0 THEN nap[j] - 1 ELSE 0]
          /\ gap' = [j \in Paced |-> Upto(gap[j], Interval)]
          /\ rest' = [p \in Peers |-> Upto(rest[p], Interval)]
          /\ UNCHANGED <<pc, left, seq, queue, nextSeq, onAir>>
        BY DEF Work, Tick
    <1>2. Interval \in Nat
        BY DownlinkAssumption
    <1>3. \A j \in Paced : Upto(gap[j], Interval) \in 0..Interval
        BY <1>1, <1>2, UptoStays DEF JobsOK
    <1>4. \A p \in Peers : Upto(rest[p], Interval) \in 0..Interval
        BY <1>1, <1>2, UptoStays DEF JobsOK
    <1>5. JobsOK'
        BY <1>1, <1>2, <1>3, <1>4 DEF JobsOK
    <1>6. Queued' /\ InHand'
        BY <1>1 DEF Queued, InHand
    <1>7. Patience'
        <2> SUFFICES ASSUME NEW i \in Paced
                     PROVE  /\ rest'[PeerOf[i]] <= gap'[i]
                            /\ pc'[i] = "napping" => nap'[i] + gap'[i] >= Interval
                            /\ pc'[i] \in {"new", "queued", "ready", "numbered"}
                                  => gap'[i] = Interval
            BY DEF Patience
        <2>1. /\ i \in Jobs /\ PeerOf[i] \in Peers
              /\ gap[i] \in 0..Interval /\ rest[PeerOf[i]] \in 0..Interval
              /\ nap[i] \in 0..Interval /\ rest[PeerOf[i]] <= gap[i]
            BY <1>1, DownlinkAssumption DEF JobsOK, Patience
        <2>2. /\ gap'[i] = IF gap[i] < Interval THEN gap[i] + 1 ELSE gap[i]
              /\ nap'[i] = IF nap[i] > 0 THEN nap[i] - 1 ELSE 0
              /\ rest'[PeerOf[i]] = IF rest[PeerOf[i]] < Interval
                                    THEN rest[PeerOf[i]] + 1 ELSE rest[PeerOf[i]]
              /\ pc'[i] = pc[i]
            BY <1>1, <2>1 DEF Upto
        <2>3. /\ pc[i] = "napping" => nap[i] + gap[i] >= Interval
              /\ pc[i] \in {"new", "queued", "ready", "numbered"}
                    => gap[i] = Interval
            BY <1>1 DEF Patience
        <2> QED
            BY <1>2, <2>1, <2>2, <2>3
    <1> QED
        BY <1>1, <1>5, <1>6, <1>7 DEF Work

-----------------------------------------------------------------------------

LEMMA NextKeeps == IInv /\ [Next]_vars => IInv'
    <1> SUFFICES ASSUME IInv, [Next]_vars PROVE IInv'
        OBVIOUS
    <1>1. Books /\ Work
        BY DEF IInv
    <1>2. CASE \E j \in Jobs : NextSeq(j)
        BY <1>1, <1>2, NextSeqBooks, NextSeqWork DEF IInv
    <1>3. CASE NoteOutcome
        BY <1>1, <1>3, NoteBooks, CallbackWork DEF IInv
    <1>4. CASE CountOutcome
        BY <1>1, <1>4, CountBooks, CallbackWork DEF IInv
    <1>5. CASE Tick
        BY <1>1, <1>5, TickBooks, TickWork DEF IInv
    <1>6. CASE TakeNext
        <2>1. UNCHANGED trackVars
            BY <1>6 DEF TakeNext
        <2> QED
            BY <1>1, <1>6, <2>1, QuietBooks, TakeWork DEF IInv
    <1>7. ASSUME NEW j \in Jobs,
                 \/ Post(j) \/ Start(j) \/ NoIdentity(j) \/ HandOver(j)
                 \/ SendFails(j) \/ RecordSend(j) \/ PaceWait(j) \/ Wake(j)
          PROVE  IInv'
        <2>1. UNCHANGED trackVars
            BY <1>7 DEF Post, Start, NoIdentity, HandOver, SendFails,
                        RecordSend, PaceWait, Wake, NextPart
        <2>2. Work'
            BY <1>1, <1>7, PostWork, StartWork, PartWork, HandOverWork,
               PaceWork, WakeWork
        <2> QED
            BY <1>1, <2>1, <2>2, QuietBooks DEF IInv
    <1>8. CASE UNCHANGED vars
        BY <1>1, <1>8 DEF IInv, vars, jobVars, trackVars, Books, TrackerOK,
           EveryNumberOnce, RoomForOutstanding, Work, JobsOK, Queued, InHand,
           Patience
    <1> QED
        BY <1>2, <1>3, <1>4, <1>5, <1>6, <1>7, <1>8 DEF Next, JobStep

LEMMA Invariance == Spec => []IInv
    <1>1. Init => IInv
        BY InitBooks, InitWork DEF IInv
    <1> QED
        BY <1>1, NextKeeps, PTL DEF Spec

\* Every variable holds a value of its kind, whatever the jobs and limits.
THEOREM TypeCorrect == Spec => []TypeOK
    <1>1. IInv => TypeOK
        BY DEF IInv, Books, TrackerOK, Work, JobsOK, TypeOK
    <1> QED
        BY <1>1, Invariance, PTL

\* The counters of DownlinkTracker lose no number and count none twice, for any
\* limits, however late and however often the callbacks come.
THEOREM NumbersAddUp == Spec => []EveryNumberOnce
    <1>1. IInv => EveryNumberOnce
        BY DEF IInv, Books
    <1> QED
        BY <1>1, Invariance, PTL

\* MAX_OUTSTANDING is a limit.
THEOREM TableKeepsItsRoom == Spec => []RoomForOutstanding
    <1>1. IInv => RoomForOutstanding
        BY DEF IInv, Books
    <1> QED
        BY <1>1, Invariance, PTL

\* push_reply() keeps the interval between its own parts for every interval and
\* any number of threads that send to the same peer.
THEOREM PartsArePaced == Spec => OwnPartsPaced
    <1>1. IInv /\ [Next]_vars =>
             [\A j \in Paced : HandOver(j) => gap[j] = Interval]_vars
        BY DEF IInv, Work, Patience, HandOver, Goto
    <1> QED
        BY <1>1, Invariance, PTL DEF Spec, OwnPartsPaced
=============================================================================
