------------------------ MODULE SessionThreadProofs ------------------------
(***************************************************************************)
(* Proofs about SessionThread, for any calls, sessions, rows, names and    *)
(* restarts: its types, that recaps and step watchers show a turn its own  *)
(* tool calls, that a /new is final, that the pin is the bridge's own, and *)
(* that the conversation continues.                                        *)
(***************************************************************************)
EXTENDS SessionThread, SequenceTheorems, FiniteSetTheorems,
        WellFoundedInduction, TLAPS

-----------------------------------------------------------------------------
(* Facts about the operators                                               *)

\* Of a family of intervals that is not empty, drawn from the numbers up to n,
\* one is minimal: it contains no other.
LEMMA MinimalInterval ==
    ASSUME NEW n \in Nat, NEW F, F /= {}, \A X \in F : X \subseteq 0..n
    PROVE  \E X \in F : \A Y \in F : Y \subseteq X => Y = X
    <1> DEFINE R == StrictSubsetOrdering(0..n)
    <1>1. IsWellFoundedOn(R, FiniteSubsetsOf(0..n))
        BY FS_StrictSubsetOrderingWellFounded
    <1>2. F \subseteq FiniteSubsetsOf(0..n)
        <2>1. IsFiniteSet(0..n)
            BY FS_Interval
        <2>2. FiniteSubsetsOf(0..n) = SUBSET (0..n)
            BY <2>1, FS_FiniteSubsetsOfFinite
        <2> QED
            BY <2>2
    <1>3. PICK X \in F : \A Y \in F : ~(<<Y, X>> \in R)
        <2> HIDE DEF R
        <2> QED
            BY <1>1, <1>2, WFMin
    <1>4. ASSUME NEW Y \in F, Y \subseteq X PROVE Y = X
        BY <1>3, <1>4 DEF StrictSubsetOrdering
    <1> QED
        BY <1>4

LEMMA MaxExists ==
    ASSUME NEW n \in Nat, NEW S \in SUBSET (0..n), S /= {}
    PROVE  Max(S) \in S /\ \A y \in S : y <= Max(S)
    <1> DEFINE F == {m..n : m \in S}
    <1>1. F /= {} /\ \A X \in F : X \subseteq 0..n
        <2>1. F /= {}
            OBVIOUS
        <2>2. ASSUME NEW m \in S PROVE m..n \subseteq 0..n
            OBVIOUS
        <2> QED
            BY <2>1, <2>2
    <1>2. PICK X \in F : \A Y \in F : Y \subseteq X => Y = X
        <2> HIDE DEF F
        <2> QED
            BY <1>1, MinimalInterval
    <1>3. PICK m \in S : X = m..n
        OBVIOUS
    <1>4. \A k \in S : m >= k
        <2> SUFFICES ASSUME NEW k \in S, m < k PROVE FALSE
            OBVIOUS
        <2>1. k..n \in F /\ k..n \subseteq m..n /\ m \in m..n /\ m \notin k..n
            OBVIOUS
        <2> QED
            BY <1>2, <1>3, <2>1
    <1>5. Max(S) \in S /\ \A y \in S : Max(S) >= y
        BY <1>4 DEF Max
    <1> QED
        BY <1>5

LEMMA MinExists ==
    ASSUME NEW n \in Nat, NEW S \in SUBSET (0..n), S /= {}
    PROVE  Min(S) \in S
    <1> DEFINE F == {0..m : m \in S}
    <1>1. F /= {} /\ \A X \in F : X \subseteq 0..n
        <2>1. F /= {}
            OBVIOUS
        <2>2. ASSUME NEW m \in S PROVE 0..m \subseteq 0..n
            OBVIOUS
        <2> QED
            BY <2>1, <2>2
    <1>2. PICK X \in F : \A Y \in F : Y \subseteq X => Y = X
        <2> HIDE DEF F
        <2> QED
            BY <1>1, MinimalInterval
    <1>3. PICK m \in S : X = 0..m
        OBVIOUS
    <1>4. \A k \in S : m =< k
        <2> SUFFICES ASSUME NEW k \in S, k < m PROVE FALSE
            OBVIOUS
        <2>1. 0..k \in F /\ 0..k \subseteq 0..m /\ m \in 0..m /\ m \notin 0..k
            OBVIOUS
        <2> QED
            BY <1>2, <1>3, <2>1
    <1> QED
        BY <1>4 DEF Min

StoreTyped ==
    /\ sessions \in Seq(Sessions) /\ Len(sessions) <= MaxSessions
    /\ rows \in Seq(Rows) /\ Len(rows) <= MaxRows

\* What a name stands for, in any store.
TitledIn(store, n) == Max({0} \cup {s \in DOMAIN store : store[s].title = n})

LEMMA TitledInIs ==
    ASSUME NEW store \in Seq(Sessions), Len(store) <= MaxSessions, NEW n
    PROVE  /\ TitledIn(store, n) \in 0..Len(store)
           /\ TitledIn(store, n) \in Ids
           /\ TitledIn(store, n) /= 0 =>
                 /\ TitledIn(store, n) \in DOMAIN store
                 /\ store[TitledIn(store, n)].title = n
           /\ \A s \in DOMAIN store :
                 store[s].title = n =>
                    TitledIn(store, n) /= 0 /\ s <= TitledIn(store, n)
    <1> DEFINE S == {0} \cup {s \in DOMAIN store : store[s].title = n}
    <1>1. Len(store) \in Nat /\ DOMAIN store = 1..Len(store)
        OBVIOUS
    <1>2. S \in SUBSET (0..Len(store)) /\ S /= {}
        BY <1>1
    <1>3. Max(S) \in S /\ \A y \in S : y <= Max(S)
        <2> HIDE DEF S
        <2> QED
            BY <1>1, <1>2, MaxExists
    <1>4. TitledIn(store, n) = Max(S)
        BY DEF TitledIn
    <1>5. MaxSessions \in Nat
        BY SessionAssumption
    <1> QED
        BY <1>1, <1>3, <1>4, <1>5 DEF Ids

LEMMA TitledIs ==
    ASSUME StoreTyped, NEW n
    PROVE  /\ Titled(n) \in 0..Len(sessions) /\ Titled(n) \in Ids
           /\ Titled(n) /= 0 => /\ Titled(n) \in DOMAIN sessions
                                /\ sessions[Titled(n)].title = n
           /\ \A s \in DOMAIN sessions :
                 sessions[s].title = n => Titled(n) /= 0 /\ s <= Titled(n)
    <1>1. Titled(n) = TitledIn(sessions, n)
        BY DEF Titled, TitledIn
    <1> QED
        BY <1>1, TitledInIs DEF StoreTyped

LEMMA MaxRowIs ==
    ASSUME StoreTyped, NEW s
    PROVE  /\ MaxRow(s) \in 0..Len(rows) /\ MaxRow(s) \in RowIds
           /\ \A i \in DOMAIN rows : rows[i].session = s => i <= MaxRow(s)
    <1> DEFINE S == {0} \cup RowsOf(s)
    <1>1. Len(rows) \in Nat /\ DOMAIN rows = 1..Len(rows)
        BY DEF StoreTyped
    <1>2. S \in SUBSET (0..Len(rows)) /\ S /= {}
        BY <1>1 DEF RowsOf
    <1>3. Max(S) \in S /\ \A y \in S : y <= Max(S)
        <2> HIDE DEF S
        <2> QED
            BY <1>1, <1>2, MaxExists
    <1>4. MaxRow(s) = Max(S)
        BY DEF MaxRow
    <1>5. MaxRows \in Nat
        BY SessionAssumption
    <1>6. MaxRow(s) \in 0..Len(rows)
        BY <1>2, <1>3, <1>4
    <1> QED
        BY <1>1, <1>3, <1>4, <1>5, <1>6 DEF StoreTyped, RowIds, RowsOf

LEMMA FirstUserIs ==
    ASSUME StoreTyped, NEW s
    PROVE  FirstUser(s) \in RowIds
    <1> DEFINE U == {i \in RowsOf(s) : ~rows[i].tool}
    <1>1. Len(rows) \in Nat /\ DOMAIN rows = 1..Len(rows)
        BY DEF StoreTyped
    <1>2. U \in SUBSET (0..Len(rows))
        BY <1>1 DEF RowsOf
    <1>3. MaxRows \in Nat
        BY SessionAssumption
    <1>4. 0..Len(rows) \subseteq RowIds /\ 0 \in RowIds
        BY <1>1, <1>3 DEF StoreTyped, RowIds
    <1>5. CASE U = {}
        BY <1>4, <1>5 DEF FirstUser
    <1>6. CASE U /= {}
        <2>1. Min(U) \in U
            <3> HIDE DEF U
            <3> QED
                BY <1>1, <1>2, <1>6, MinExists
        <2>2. FirstUser(s) = Min(U)
            BY <1>6 DEF FirstUser
        <2> QED
            BY <1>2, <1>4, <2>1, <2>2
    <1> QED
        BY <1>5, <1>6

LEMMA CandidateIs ==
    ASSUME StoreTyped, NEW c \in Calls, Cardinality(Candidates(c)) = 1
    PROVE  Max(Candidates(c)) \in Candidates(c)
    <1>1. Len(sessions) \in Nat /\ DOMAIN sessions = 1..Len(sessions)
        BY DEF StoreTyped
    <1>2. Candidates(c) \in SUBSET (0..Len(sessions))
        BY <1>1 DEF Candidates
    <1>3. Candidates(c) /= {}
        BY FS_EmptySet
    <1> QED
        BY <1>1, <1>2, <1>3, MaxExists

\* A sequence with one more member.
LEMMA Appended ==
    ASSUME NEW S, NEW q \in Seq(S), NEW e \in S, NEW m \in Nat, Len(q) < m
    PROVE  /\ Append(q, e) \in Seq(S)
           /\ Len(Append(q, e)) = Len(q) + 1 /\ Len(Append(q, e)) <= m
           /\ DOMAIN Append(q, e) = 1..(Len(q) + 1)
           /\ \A i \in 1..Len(q) : Append(q, e)[i] = q[i]
           /\ Append(q, e)[Len(q) + 1] = e
    BY AppendProperties

LEMMA Bounds ==
    /\ NoCall \notin Calls
    /\ MaxNames \in Nat /\ MaxNames > 0 /\ MaxSessions \in Nat
    /\ MaxRows \in Nat /\ MaxRestarts \in Nat
    /\ 0 \in Ids /\ 0 \in RowIds /\ 1 \in Names /\ NoAnchor \in Anchors
    BY SessionAssumption DEF Ids, RowIds, Names, NoAnchor, Anchors


LEMMA ToldIs ==
    ASSUME TypeOK, NEW c \in Calls
    PROVE  /\ Told(c) \in Ids /\ NewSession(c) \in Sessions
           /\ cmd[c].way \in {"resume", "named", "fresh"}
           /\ cmd[c].way = "resume" => Told(c) = cmd[c].to /\ cmd[c].to \in Ids \ {0}
           /\ cmd[c].way = "named" => Told(c) = Titled(cmd[c].to) /\ cmd[c].to \in Names
           /\ cmd[c].way = "fresh" => Told(c) = 0
    <1>1. cmd[c] \in Commands /\ StoreTyped
        BY DEF TypeOK, StoreTyped
    <1>2. CASE cmd[c] \in [way : {"resume"}, to : Ids \ {0}]
        BY <1>2 DEF Told, NewSession, Sessions
    <1>3. CASE cmd[c] \in [way : {"named"}, to : Names]
        BY <1>1, <1>3, TitledIs DEF Told, NewSession, Sessions
    <1>4. CASE cmd[c] \in [way : {"fresh"}, to : {0}]
        BY <1>4, Bounds DEF Told, NewSession, Sessions
    <1> QED
        BY <1>1, <1>2, <1>3, <1>4 DEF Commands

\* What a child that opens a session does to the store.
LEMMA OpensIs ==
    ASSUME TypeOK, NEW c \in Calls, ChildOpens(c)
    PROVE  /\ ran'[c] \in Ids \ {0} /\ ran' = [ran EXCEPT ![c] = ran'[c]]
           /\ rows' = Append(rows, Row(ran'[c], c, FALSE))
           /\ \/ /\ Told(c) /= 0 /\ ran'[c] = Told(c)
                 /\ sessions' = sessions
              \/ /\ Told(c) = 0 /\ ran'[c] = Len(sessions) + 1
                 /\ sessions' = Append(sessions, NewSession(c))
                 /\ Len(sessions) < MaxSessions
    <1> DEFINE s == IF Told(c) /= 0 THEN Told(c) ELSE Len(sessions) + 1
    <1>1. /\ s <= MaxSessions
          /\ ran' = [ran EXCEPT ![c] = s]
          /\ rows' = Append(rows, Row(s, c, FALSE))
          /\ sessions' = IF Told(c) /= 0 THEN sessions
                         ELSE Append(sessions, NewSession(c))
        BY DEF ChildOpens
    <1>2. Len(sessions) \in Nat /\ Told(c) \in Ids
        BY ToldIs DEF TypeOK
    <1>3. s \in Ids \ {0}
        BY <1>1, <1>2, Bounds DEF Ids
    <1>4. ran'[c] = s
        BY <1>1 DEF TypeOK
    <1>5. Told(c) = 0 => Len(sessions) < MaxSessions
        BY <1>1, <1>2, Bounds
    <1> QED
        BY <1>1, <1>3, <1>4, <1>5

LEMMA EnterTypes == ASSUME TypeOK, NEW c \in Calls, Enter(c) PROVE TypeOK'
    <1>1. StoreTyped
        BY DEF TypeOK, StoreTyped
    <1>2. pc' \in [Calls -> Phases] /\ found' \in [Calls -> Ids]
        <2>1. Titled(name) \in Ids
            BY <1>1, TitledIs
        <2>2. pc' \in [Calls -> Phases]
            BY DEF TypeOK, Enter, Phases
        <2>3. found' \in [Calls -> Ids]
            <3>1. /\ found \in [Calls -> Ids]
                  /\ \/ found' = found
                     \/ found' = [found EXCEPT ![c] = Titled(name)]
                BY DEF TypeOK, Enter
            <3> QED
                BY <2>1, <3>1
        <2> QED
            BY <2>2, <2>3
    <1>3. home[name] \in Ids
        BY DEF TypeOK
    <1>4. due' \in [Calls -> Ids] /\ alone' \in [Calls -> BOOLEAN]
        <2>1. ASSUME NEW d \in Calls
              PROVE  (IF d = c THEN {x \in Calls \ {c} : InFlight(x)} = {} /\ ~renaming
                      ELSE alone[d] /\ d \notin {x \in Calls \ {c} : InFlight(x)})
                     \in BOOLEAN
            BY DEF TypeOK
        <2>2. alone' \in [Calls -> BOOLEAN]
            BY <2>1 DEF Enter
        <2>3. due' \in [Calls -> Ids]
            BY <1>3, Bounds DEF TypeOK, Enter
        <2> QED
            BY <2>2, <2>3
    <1>5. cut' \in Ids /\ limit' \in [Calls -> Ids]
        BY Bounds DEF TypeOK, Enter
    <1> QED
        BY <1>2, <1>4, <1>5
           DEF TypeOK, Enter, thread, db, locals, watchers, histories

LEMMA PinThreadTypes ==
    ASSUME TypeOK, NEW c \in Calls, PinThread(c)
    PROVE  TypeOK'
    BY DEF TypeOK, PinThread, Phases, thread, db, locals, watchers, histories

LEMMA BuildTypes == ASSUME TypeOK, NEW c \in Calls, Build(c) PROVE TypeOK'
    <1>1. StoreTyped
        BY DEF TypeOK, StoreTyped
    <1>2. Len(sessions) \in Ids /\ Titled(name) \in Ids
        BY <1>1, TitledIs, Bounds DEF StoreTyped, Ids
    <1>3. /\ pin /= 0 => [way |-> "resume", to |-> pin] \in Commands
          /\ [way |-> "named", to |-> name] \in Commands
          /\ [way |-> "fresh", to |-> 0] \in Commands
        <2>1. name \in Names /\ pin \in Ids
            BY DEF TypeOK
        <2> QED
            BY <2>1 DEF Commands
    <1>4. cmd' \in [Calls -> Commands]
        BY <1>3 DEF TypeOK, Build
    <1>5. before' \in [Calls -> Ids] /\ wsid' \in [Calls -> Ids]
        <2>1. before' \in [Calls -> Ids]
            BY <1>2 DEF TypeOK, Build
        <2>2. (IF pin /= 0 THEN pin ELSE Titled(name)) \in Ids
            BY <1>2 DEF TypeOK
        <2>3. wsid' \in [Calls -> Ids]
            BY <2>2 DEF TypeOK, Build
        <2> QED
            BY <2>1, <2>3
    <1>6. /\ pc' \in [Calls -> Phases]
          /\ watch' \in [Calls -> {"off", "seed", "poll", "fetch"}]
        BY DEF TypeOK, Build, Phases
    <1> QED
        BY <1>4, <1>5, <1>6
           DEF TypeOK, Build, thread, db, locals, watchers, histories

LEMMA TakeLockTypes ==
    ASSUME TypeOK, NEW c \in Calls, TakeLock(c)
    PROVE  TypeOK'
    <1>1. StoreTyped
        BY DEF TypeOK, StoreTyped
    <1>2. Len(sessions) \in Ids
        BY <1>1, Bounds DEF StoreTyped, Ids
    <1>3. TurnAnchor(c) \in Anchors
        BY <1>1, MaxRowIs, Bounds DEF TypeOK, TurnAnchor, Anchors
    <1>4. /\ start' \in [Calls -> Ids] /\ anchor' \in [Calls -> Anchors]
          /\ pc' \in [Calls -> Phases]
        BY <1>2, <1>3 DEF TypeOK, TakeLock, Phases
    <1> QED
        BY <1>4 DEF TypeOK, TakeLock, thread, db, locals, watchers, histories

LEMMA ChildOpensTypes ==
    ASSUME TypeOK, NEW c \in Calls, ChildOpens(c)
    PROVE  TypeOK'
    <1>1. StoreTyped
        BY DEF TypeOK, StoreTyped
    <1>2. /\ ran'[c] \in Ids /\ ran' = [ran EXCEPT ![c] = ran'[c]]
          /\ rows' = Append(rows, Row(ran'[c], c, FALSE))
          /\ \/ sessions' = sessions
             \/ /\ sessions' = Append(sessions, NewSession(c))
                /\ Len(sessions) < MaxSessions
        BY OpensIs
    <1>3. Row(ran'[c], c, FALSE) \in Rows /\ NewSession(c) \in Sessions
        BY <1>2, ToldIs DEF Row, Rows
    <1>4. ran' \in [Calls -> Ids]
        BY <1>2, <1>3 DEF TypeOK
    <1>5. rows' \in Seq(Rows) /\ Len(rows') <= MaxRows
        <2> DEFINE row == Row(ran'[c], c, FALSE)
        <2>1. Len(rows) < MaxRows
            BY DEF ChildOpens
        <2>2. row \in Rows /\ rows' = Append(rows, row)
            BY <1>2, <1>3
        <2> HIDE DEF row
        <2> QED
            BY <1>1, <2>1, <2>2, Bounds, Appended DEF StoreTyped
    <1>6. sessions' \in Seq(Sessions) /\ Len(sessions') <= MaxSessions
        <2> DEFINE new == NewSession(c)
        <2>1. /\ new \in Sessions
              /\ \/ sessions' = sessions
                 \/ sessions' = Append(sessions, new) /\ Len(sessions) < MaxSessions
            BY <1>2, <1>3
        <2> HIDE DEF new
        <2> QED
            BY <1>1, <2>1, Bounds, Appended DEF StoreTyped
    <1> QED
        BY <1>4, <1>5, <1>6
           DEF TypeOK, ChildOpens, thread, db, locals, watchers, histories

LEMMA ChildCallsTypes ==
    ASSUME TypeOK, NEW c \in Calls, ChildCalls(c)
    PROVE  TypeOK'
    <1>1. StoreTyped
        BY DEF TypeOK, StoreTyped
    <1>2. Row(ran[c], c, TRUE) \in Rows
        BY DEF TypeOK, Row, Rows
    <1>3. rows' \in Seq(Rows) /\ Len(rows') <= MaxRows
        <2>1. Len(rows) \in Nat /\ Len(rows) < MaxRows
            BY DEF TypeOK, ChildCalls
        <2> QED
            BY <1>1, <1>2, <2>1, Bounds, Appended DEF StoreTyped, ChildCalls
    <1> QED
        BY <1>3 DEF TypeOK, ChildCalls, thread, db, locals, watchers, histories

LEMMA ChildEndsTypes ==
    ASSUME TypeOK, NEW c \in Calls, ChildEnds(c)
    PROVE  TypeOK'
    BY DEF TypeOK, ChildEnds, Phases, thread, db, locals, watchers, histories

LEMMA AdoptTypes == ASSUME TypeOK, NEW c \in Calls, Adopt(c) PROVE TypeOK'
    <1>1. StoreTyped
        BY DEF TypeOK, StoreTyped
    <1>2. ASSUME Cardinality(Candidates(c)) = 1
          PROVE  /\ Max(Candidates(c)) \in DOMAIN sessions
                 /\ Max(Candidates(c)) \in Ids
        <2>1. Max(Candidates(c)) \in DOMAIN sessions
            BY <1>1, <1>2, CandidateIs DEF Candidates
        <2>2. DOMAIN sessions = 1..Len(sessions) /\ Len(sessions) \in Nat
            BY <1>1 DEF StoreTyped
        <2> QED
            BY <1>1, <2>1, <2>2, Bounds DEF StoreTyped, Ids
    <1>3. ASSUME NEW s \in DOMAIN sessions
          PROVE  /\ [sessions EXCEPT ![s].title = name] \in Seq(Sessions)
                 /\ Len([sessions EXCEPT ![s].title = name]) = Len(sessions)
        <2>1. [sessions[s] EXCEPT !.title = name] \in Sessions
            <3>1. sessions[s] \in Sessions /\ name \in Names
                BY <1>1 DEF StoreTyped, TypeOK
            <3> QED
                BY <3>1 DEF Sessions
        <2>2. [sessions EXCEPT ![s].title = name]
                  = [sessions EXCEPT ![s] = [sessions[s] EXCEPT !.title = name]]
            OBVIOUS
        <2> QED
            BY <1>1, <2>1, <2>2, ExceptSeq DEF StoreTyped
    <1>4. pc' \in [Calls -> Phases] /\ found' \in [Calls -> Ids]
        <2>1. pc' \in [Calls -> Phases]
            BY DEF TypeOK, Adopt, Phases
        <2>2. found' \in [Calls -> Ids]
            BY <1>2 DEF TypeOK, Adopt
        <2> QED
            BY <2>1, <2>2
    <1>5. sessions' \in Seq(Sessions) /\ Len(sessions') <= MaxSessions
        <2>1. \/ sessions' = sessions
              \/ \E s \in DOMAIN sessions :
                    sessions' = [sessions EXCEPT ![s].title = name]
            BY <1>2 DEF Adopt
        <2> QED
            BY <1>1, <1>3, <2>1 DEF StoreTyped
    <1> QED
        BY <1>4, <1>5
           DEF TypeOK, Adopt, thread, db, locals, watchers, histories

LEMMA AdoptPinTypes ==
    ASSUME TypeOK, NEW c \in Calls, AdoptPin(c)
    PROVE  TypeOK'
    <1>1. StoreTyped
        BY DEF TypeOK, StoreTyped
    <1>2. FirstUser(found[c]) \in RowIds /\ found[c] \in Ids
        BY <1>1, FirstUserIs DEF TypeOK
    <1>3. [sid |-> found[c], row |-> FirstUser(found[c])] \in Anchors
        BY <1>2 DEF Anchors
    <1>4. anchor' \in [Calls -> Anchors] /\ pc' \in [Calls -> Phases]
        BY <1>3 DEF TypeOK, AdoptPin, Phases
    <1> QED
        BY <1>2, <1>4
           DEF TypeOK, AdoptPin, thread, db, locals, watchers, histories

LEMMA ToolRecapTypes ==
    ASSUME TypeOK, NEW c \in Calls, ToolRecap(c)
    PROVE  TypeOK'
    <1>1. StoreTyped
        BY DEF TypeOK, StoreTyped
    <1>2. \A sid, from : ToolRowsAfter(sid, from) \subseteq RowIds
        <2>1. DOMAIN rows = 1..Len(rows) /\ Len(rows) \in Nat /\ Len(rows) <= MaxRows
            BY <1>1 DEF StoreTyped
        <2>2. DOMAIN rows \subseteq RowIds
            BY <2>1, Bounds DEF RowIds
        <2> QED
            BY <2>2 DEF ToolRowsAfter, RowsOf
    <1>3. recap' \in [Calls -> SUBSET RowIds]
        BY <1>2 DEF TypeOK, ToolRecap
    <1>4. pc' \in [Calls -> Phases]
        BY DEF TypeOK, ToolRecap, Phases
    <1>5. home' \in [Names -> Ids]
        <2>1. [n \in Names |-> 0] \in [Names -> Ids]
            BY Bounds
        <2>2. [home EXCEPT ![name] = ran[c]] \in [Names -> Ids]
            BY DEF TypeOK
        <2> QED
            BY <2>1, <2>2 DEF TypeOK, ToolRecap
    <1> QED
        BY <1>3, <1>4, <1>5
           DEF TypeOK, ToolRecap, thread, db, locals, watchers, histories

LEMMA ReturnTypes == ASSUME TypeOK, NEW c \in Calls, Return(c) PROVE TypeOK'
    BY DEF TypeOK, Return, Phases, thread, db, locals, watchers, histories

LEMMA SeedTypes == ASSUME TypeOK, NEW c \in Calls, Seed(c) PROVE TypeOK'
    <1>1. StoreTyped
        BY DEF TypeOK, StoreTyped
    <1> QED
        BY <1>1, MaxRowIs
           DEF TypeOK, Seed, thread, db, locals, watchers, histories

LEMMA PollRowsTypes ==
    ASSUME TypeOK, NEW c \in Calls, PollRows(c)
    PROVE  TypeOK'
    <1>1. StoreTyped
        BY DEF TypeOK, StoreTyped
    <1> QED
        BY <1>1, MaxRowIs
           DEF TypeOK, PollRows, thread, db, locals, watchers, histories

LEMMA FetchAndPushTypes ==
    ASSUME TypeOK, NEW c \in Calls, FetchAndPush(c)
    PROVE  TypeOK'
    <1>1. StoreTyped
        BY DEF TypeOK, StoreTyped
    <1>2. \A n \in [1..MaxRows -> Nat] : \A R :
              [i \in 1..MaxRows |-> IF i \in R THEN n[i] + 1 ELSE n[i]]
                  \in [1..MaxRows -> Nat]
        OBVIOUS
    <1>3. pushed' \in [Calls -> [1..MaxRows -> Nat]]
        <2>1. pushed \in [Calls -> [1..MaxRows -> Nat]]
            BY DEF TypeOK
        <2>2. PICK R : pushed' = [pushed EXCEPT ![c] =
                  [i \in 1..MaxRows |-> IF i \in R THEN pushed[c][i] + 1
                                       ELSE pushed[c][i]]]
            BY DEF FetchAndPush
        <2> QED
            BY <1>2, <2>1, <2>2
    <1>4. /\ last' \in [Calls -> RowIds]
          /\ watch' \in [Calls -> {"off", "seed", "poll", "fetch"}]
        BY DEF TypeOK, FetchAndPush
    <1> QED
        BY <1>3, <1>4
           DEF TypeOK, FetchAndPush, thread, db, locals, watchers, histories

LEMMA WatcherEndsTypes ==
    ASSUME TypeOK, NEW c \in Calls, WatcherEnds(c)
    PROVE  TypeOK'
    BY DEF TypeOK, WatcherEnds, Phases, thread, db, locals, watchers, histories

LEMMA NewNameTypes == ASSUME TypeOK, NewName PROVE TypeOK'
    <1>1. StoreTyped
        BY DEF TypeOK, StoreTyped
    <1>2. name' \in Names /\ named' \in Names
        BY Bounds DEF TypeOK, NewName, Names
    <1>3. Len(sessions) \in Ids
        BY <1>1, Bounds DEF StoreTyped, Ids
    <1>4. cut' \in Ids /\ due' \in [Calls -> Ids]
        BY <1>3, Bounds DEF TypeOK, NewName
    <1>5. alone' \in [Calls -> BOOLEAN]
        BY DEF TypeOK, NewName
    <1> QED
        BY <1>2, <1>4, <1>5
           DEF TypeOK, NewName, thread, db, locals, watchers, histories

LEMMA DropPinTypes == ASSUME TypeOK, DropPin PROVE TypeOK'
    <1>1. StoreTyped
        BY DEF TypeOK, StoreTyped
    <1> QED
        BY Bounds DEF TypeOK, DropPin, thread, db, locals, watchers, histories

LEMMA OthersOpenTypes == ASSUME TypeOK, OthersOpen PROVE TypeOK'
    <1>1. StoreTyped
        BY DEF TypeOK, StoreTyped
    <1>2. [title |-> 0, source |-> "cli", by |-> NoCall] \in Sessions
        BY DEF Sessions
    <1>3. sessions' \in Seq(Sessions) /\ Len(sessions') <= MaxSessions
        <2>1. Len(sessions) \in Nat /\ Len(sessions) < MaxSessions
            BY DEF TypeOK, OthersOpen
        <2> QED
            BY <1>2, <2>1, Bounds, AppendProperties DEF TypeOK, OthersOpen
    <1> QED
        BY <1>3 DEF TypeOK, OthersOpen, thread, db, locals, watchers, histories

LEMMA RestartTypes == ASSUME TypeOK, Restart PROVE TypeOK'
    <1>1. StoreTyped
        BY DEF TypeOK, StoreTyped
    <1>2. /\ pc' \in [Calls -> Phases]
          /\ watch' \in [Calls -> {"off", "seed", "poll", "fetch"}]
        BY DEF TypeOK, Restart, Phases
    <1>3. restarts' \in 0..MaxRestarts
        BY Bounds DEF TypeOK, Restart
    <1> QED
        BY <1>2, <1>3, Bounds
           DEF TypeOK, Restart, thread, db, locals, watchers, histories

LEMMA NextTypes == ASSUME TypeOK, [Next]_vars PROVE TypeOK'
    <1>1. CASE Next
        BY <1>1, EnterTypes, PinThreadTypes, BuildTypes, TakeLockTypes,
           ChildOpensTypes, ChildCallsTypes, ChildEndsTypes, AdoptTypes,
           AdoptPinTypes, ToolRecapTypes, ReturnTypes, SeedTypes,
           PollRowsTypes, FetchAndPushTypes, WatcherEndsTypes, NewNameTypes,
           DropPinTypes, OthersOpenTypes, RestartTypes
           DEF Next, ChatStep, ChildStep, WatcherStep
    <1>2. CASE UNCHANGED vars
        BY <1>2 DEF vars, TypeOK, thread, db, locals, watchers, histories
    <1> QED
        BY <1>1, <1>2

-----------------------------------------------------------------------------
(* What a step does to the store                                           *)

LEMMA Typed == TypeOK => StoreTyped
    BY DEF TypeOK, StoreTyped

\* A child's row is the only new one, and bears its number.
LEMMA NewRow ==
    ASSUME TypeOK, NEW c \in Calls, ChildOpens(c) \/ ChildCalls(c)
    PROVE  /\ Len(rows) \in Nat /\ DOMAIN rows = 1..Len(rows)
           /\ DOMAIN rows' = 1..(Len(rows) + 1)
           /\ \A i \in DOMAIN rows : i \in DOMAIN rows' /\ rows'[i] = rows[i]
           /\ \A i \in DOMAIN rows' :
                 i \notin DOMAIN rows =>
                    /\ i = Len(rows) + 1
                    /\ rows'[i].session = ran'[c] /\ rows'[i].by = c
    <1>1. PICK row \in Rows :
              row.session = ran'[c] /\ row.by = c /\ rows' = Append(rows, row)
        <2>1. CASE ChildOpens(c)
            <3>1. ran'[c] \in Ids
                BY <2>1, OpensIs
            <3>2. Row(ran'[c], c, FALSE) \in Rows
                BY <3>1 DEF Row, Rows
            <3> QED
                BY <2>1, <3>2, OpensIs DEF Row
        <2>2. CASE ChildCalls(c)
            <3>1. Row(ran[c], c, TRUE) \in Rows
                BY DEF TypeOK, Row, Rows
            <3>2. ran' = ran /\ rows' = Append(rows, Row(ran[c], c, TRUE))
                BY <2>2 DEF ChildCalls, locals
            <3> QED
                BY <3>1, <3>2 DEF Row
        <2> QED
            BY <2>1, <2>2
    <1>2. Len(rows) < MaxRows
        BY DEF ChildOpens, ChildCalls
    <1>3. /\ DOMAIN rows' = 1..(Len(rows) + 1) /\ rows'[Len(rows) + 1] = row
          /\ \A i \in 1..Len(rows) : rows'[i] = rows[i]
        BY <1>1, <1>2, Typed, Bounds, Appended DEF StoreTyped
    <1>4. Len(rows) \in Nat /\ DOMAIN rows = 1..Len(rows)
        BY Typed DEF StoreTyped
    <1> QED
        BY <1>1, <1>3, <1>4

\* The new session, if there is one, is the child's.
LEMMA OpenedStore ==
    ASSUME TypeOK, NEW c \in Calls, ChildOpens(c)
    PROVE  /\ Len(sessions) \in Nat /\ DOMAIN sessions = 1..Len(sessions)
           /\ Len(sessions') \in Nat /\ Len(sessions) <= Len(sessions')
           /\ \A s \in DOMAIN sessions :
                 s \in DOMAIN sessions' /\ sessions'[s] = sessions[s]
           /\ \A s \in DOMAIN sessions' :
                 s \notin DOMAIN sessions =>
                    /\ Told(c) = 0 /\ s = Len(sessions) + 1 /\ s = ran'[c]
                    /\ sessions'[s] = NewSession(c)
           /\ ran'[c] \in DOMAIN sessions' \/ ran'[c] = Told(c)
    <1> DEFINE new == NewSession(c)
    <1>1. new \in Sessions
        BY ToldIs
    <1>2. \/ Told(c) /= 0 /\ ran'[c] = Told(c) /\ sessions' = sessions
          \/ /\ Told(c) = 0 /\ ran'[c] = Len(sessions) + 1
             /\ sessions' = Append(sessions, new) /\ Len(sessions) < MaxSessions
        BY OpensIs
    <1>3. Len(sessions) \in Nat /\ DOMAIN sessions = 1..Len(sessions)
        BY Typed DEF StoreTyped
    <1>4. sessions' = Append(sessions, new) /\ Len(sessions) < MaxSessions =>
              /\ DOMAIN sessions' = 1..(Len(sessions) + 1)
              /\ Len(sessions') = Len(sessions) + 1
              /\ sessions'[Len(sessions) + 1] = new
              /\ \A s \in 1..Len(sessions) : sessions'[s] = sessions[s]
        <2> HIDE DEF new
        <2> QED
            BY <1>1, Typed, Bounds, Appended DEF StoreTyped
    <1> HIDE DEF new
    <1>5. CASE Told(c) /= 0 /\ ran'[c] = Told(c) /\ sessions' = sessions
        BY <1>3, <1>5
    <1>6. CASE /\ Told(c) = 0 /\ ran'[c] = Len(sessions) + 1
               /\ sessions' = Append(sessions, new)
               /\ Len(sessions) < MaxSessions
        BY <1>3, <1>4, <1>6 DEF new
    <1> QED
        BY <1>2, <1>5, <1>6

LEMMA OthersStore ==
    ASSUME TypeOK, OthersOpen
    PROVE  /\ Len(sessions) \in Nat /\ DOMAIN sessions = 1..Len(sessions)
           /\ Len(sessions') = Len(sessions) + 1
           /\ \A s \in DOMAIN sessions :
                 s \in DOMAIN sessions' /\ sessions'[s] = sessions[s]
           /\ \A s \in DOMAIN sessions' :
                 s \notin DOMAIN sessions =>
                    /\ s = Len(sessions) + 1
                    /\ sessions'[s] = [title |-> 0, source |-> "cli",
                                       by |-> NoCall]
    <1> DEFINE new == [title |-> 0, source |-> "cli", by |-> NoCall]
    <1>1. new \in Sessions
        BY DEF Sessions
    <1>2. sessions' = Append(sessions, new) /\ Len(sessions) < MaxSessions
        BY DEF OthersOpen
    <1>3. Len(sessions) \in Nat /\ DOMAIN sessions = 1..Len(sessions)
        BY Typed DEF StoreTyped
    <1> HIDE DEF new
    <1>4. /\ DOMAIN sessions' = 1..(Len(sessions) + 1)
          /\ Len(sessions') = Len(sessions) + 1
          /\ sessions'[Len(sessions) + 1] = new
          /\ \A s \in 1..Len(sessions) : sessions'[s] = sessions[s]
        BY <1>1, <1>2, Typed, Bounds, Appended DEF StoreTyped
    <1> QED
        BY <1>3, <1>4 DEF new

\* An adoption gives one session another title.
LEMMA AdoptedStore ==
    ASSUME TypeOK, NEW c \in Calls, Adopt(c)
    PROVE  /\ Len(sessions) \in Nat /\ DOMAIN sessions = 1..Len(sessions)
           /\ \/ /\ sessions' = sessions /\ found' = found
                 /\ pc' = [pc EXCEPT ![c] = "recap"]
              \/ /\ found'[c] \in Candidates(c)
                 /\ found' = [found EXCEPT ![c] = found'[c]]
                 /\ sessions' = [sessions EXCEPT ![found'[c]].title = name]
                 /\ pc' = [pc EXCEPT ![c] = "adopted"]
    <1>1. Len(sessions) \in Nat /\ DOMAIN sessions = 1..Len(sessions)
        BY Typed DEF StoreTyped
    <1>2. CASE Cardinality(Candidates(c)) = 1
               /\ sessions' = [sessions EXCEPT ![Max(Candidates(c))].title = name]
               /\ found' = [found EXCEPT ![c] = Max(Candidates(c))]
               /\ pc' = [pc EXCEPT ![c] = "adopted"]
        <2>1. Max(Candidates(c)) \in Candidates(c)
            BY <1>2, Typed, CandidateIs
        <2>2. found'[c] = Max(Candidates(c))
            BY <1>2 DEF TypeOK
        <2> QED
            BY <1>1, <1>2, <2>1, <2>2
    <1>3. CASE /\ sessions' = sessions /\ found' = found
               /\ pc' = [pc EXCEPT ![c] = "recap"]
        BY <1>1, <1>3
    <1> QED
        BY <1>2, <1>3 DEF Adopt

\* Nothing is ever deleted: who wrote a row or began a session, and how, stays.
StoreGrowth ==
    /\ Len(sessions) \in Nat /\ DOMAIN sessions = 1..Len(sessions)
    /\ Len(sessions') \in Nat /\ Len(sessions) <= Len(sessions')
    /\ \A s \in DOMAIN sessions :
          /\ s \in DOMAIN sessions'
          /\ sessions'[s].by = sessions[s].by
          /\ sessions'[s].source = sessions[s].source
    /\ \A i \in DOMAIN rows : i \in DOMAIN rows' /\ rows'[i] = rows[i]

LEMMA StoreGrows ==
    ASSUME TypeOK, [Next]_vars
    PROVE  StoreGrowth
    <1>1. /\ Len(sessions) \in Nat /\ DOMAIN sessions = 1..Len(sessions)
          /\ \A s \in DOMAIN sessions : sessions[s] \in Sessions
        BY Typed DEF StoreTyped
    <1>2. CASE UNCHANGED db
        BY <1>1, <1>2 DEF db, StoreGrowth
    <1>3. ASSUME NEW c \in Calls, ChildOpens(c) PROVE StoreGrowth
        BY <1>3, OpenedStore, NewRow DEF StoreGrowth
    <1>4. ASSUME NEW c \in Calls, ChildCalls(c) PROVE StoreGrowth
        <2>1. sessions' = sessions
            BY <1>4 DEF ChildCalls
        <2> QED
            BY <1>1, <1>4, <2>1, NewRow DEF StoreGrowth
    <1>5. ASSUME NEW c \in Calls, Adopt(c) PROVE StoreGrowth
        <2>1. rows' = rows
            BY <1>5 DEF Adopt
        <2>2. CASE sessions' = sessions
            BY <1>1, <2>1, <2>2 DEF StoreGrowth
        <2>3. CASE /\ found'[c] \in Candidates(c)
                   /\ sessions' = [sessions EXCEPT ![found'[c]].title = name]
            <3>1. /\ found'[c] \in DOMAIN sessions
                  /\ sessions[found'[c]] \in Sessions
                BY <1>1, <2>3 DEF Candidates
            <3>2. DOMAIN sessions' = DOMAIN sessions
                BY <2>3
            <3>3. Len(sessions') = Len(sessions)
                <4>1. TypeOK'
                    BY <1>5, AdoptTypes
                <4>2. /\ Len(sessions') \in Nat
                      /\ DOMAIN sessions' = 1..Len(sessions')
                    BY <4>1 DEF TypeOK
                <4>3. \A m, n \in Nat : 1..m = 1..n => m = n
                    OBVIOUS
                <4> QED
                    BY <1>1, <3>2, <4>2, <4>3
            <3>4. ASSUME NEW s \in DOMAIN sessions
                  PROVE  /\ sessions'[s].by = sessions[s].by
                         /\ sessions'[s].source = sessions[s].source
                BY <1>1, <2>3, <3>1 DEF Sessions
            <3> QED
                BY <1>1, <2>1, <3>2, <3>3, <3>4 DEF StoreGrowth
        <2> QED
            BY <1>5, <2>2, <2>3, AdoptedStore
    <1>6. ASSUME OthersOpen PROVE StoreGrowth
        BY <1>6, OthersStore DEF StoreGrowth, OthersOpen
    <1> QED
        BY <1>2, <1>3, <1>4, <1>5, <1>6
           DEF Next, ChatStep, ChildStep, WatcherStep, vars, db, Enter,
               PinThread, Build, TakeLock, ChildEnds, AdoptPin, ToolRecap,
               Return, Seed, PollRows, FetchAndPush, WatcherEnds, NewName,
               DropPin, Restart

-----------------------------------------------------------------------------
(* The invariant, part by part: each part with the lemma that a step keeps   *)
(* it.  A call is early until its command line is built, then committed; it  *)
(* holds the lock from the spawn to the recap.                               *)

Early == {"new", "pin", "build"}
Holding == {"run", "adopt", "adopted", "recap"}
Committed == {"queued"} \cup Holding
InTurn(c) == pc[c] \notin {"new", "done"}

Known(s) == s \in DOMAIN sessions
Ours(s) == Known(s) /\ sessions[s].by \in Calls

\* The lock is held by the call that is between its spawn and its recap.
OneHolds == \A c \in Calls : pc[c] \in Holding <=> lock = c

LEMMA KeepsOneHolds ==
    ASSUME TypeOK, OneHolds, [Next]_vars
    PROVE  OneHolds'
    <1>1. CASE UNCHANGED <<pc, lock>>
        BY <1>1 DEF OneHolds, Holding
    <1>2. ASSUME NEW c \in Calls, Enter(c) PROVE OneHolds'
        BY <1>2, Bounds
           DEF OneHolds, Holding, TypeOK, Enter, thread, db, locals, watchers,
               histories
    <1>3. ASSUME NEW c \in Calls, PinThread(c) PROVE OneHolds'
        BY <1>3, Bounds
           DEF OneHolds, Holding, TypeOK, PinThread, thread, db, locals,
               watchers, histories
    <1>4. ASSUME NEW c \in Calls, Build(c) PROVE OneHolds'
        BY <1>4, Bounds
           DEF OneHolds, Holding, TypeOK, Build, thread, db, locals, watchers,
               histories
    <1>5. ASSUME NEW c \in Calls, TakeLock(c) PROVE OneHolds'
        BY <1>5, Bounds
           DEF OneHolds, Holding, TypeOK, TakeLock, thread, db, locals,
               watchers, histories
    <1>6. ASSUME NEW c \in Calls, ChildEnds(c) PROVE OneHolds'
        BY <1>6, Bounds
           DEF OneHolds, Holding, TypeOK, ChildEnds, thread, db, locals,
               watchers, histories
    <1>7. ASSUME NEW c \in Calls, Adopt(c) PROVE OneHolds'
        BY <1>7, Bounds
           DEF OneHolds, Holding, TypeOK, Adopt, thread, db, locals, watchers,
               histories
    <1>8. ASSUME NEW c \in Calls, AdoptPin(c) PROVE OneHolds'
        BY <1>8, Bounds
           DEF OneHolds, Holding, TypeOK, AdoptPin, thread, db, locals,
               watchers, histories
    <1>9. ASSUME NEW c \in Calls, ToolRecap(c) PROVE OneHolds'
        BY <1>9, Bounds
           DEF OneHolds, Holding, TypeOK, ToolRecap, thread, db, locals,
               watchers, histories
    <1>10. ASSUME NEW c \in Calls, Return(c) PROVE OneHolds'
        BY <1>10, Bounds
           DEF OneHolds, Holding, TypeOK, Return, thread, db, locals, watchers,
               histories
    <1>11. ASSUME Restart PROVE OneHolds'
        BY <1>11, Bounds
           DEF OneHolds, Holding, TypeOK, Restart, thread, db, locals,
               watchers, histories
    <1> QED
        BY <1>1, <1>2, <1>3, <1>4, <1>5, <1>6, <1>7, <1>8, <1>9, <1>10, <1>11
           DEF Next, ChatStep, ChildStep, WatcherStep, vars, thread, db,
               locals, watchers, histories, ChildOpens, ChildCalls, Seed,
               PollRows, FetchAndPush, WatcherEnds, NewName, DropPin,
               OthersOpen

\* A call that has not spawned its child has no rows, no recap and, until its
\* command line is built, no watcher.
Untouched ==
    \A c \in Calls :
        /\ pc[c] \in Early => watch[c] = "off" /\ \A i \in 1..MaxRows : pushed[c][i] = 0
        /\ pc[c] \in Early \cup {"queued"} => ran[c] = 0
        /\ pc[c] \in Early \cup Committed => recap[c] = {}
        /\ pc[c] \in {"adopt", "adopted"} => cmd[c].way = "fresh"

LEMMA KeepsUntouched ==
    ASSUME TypeOK, Untouched, [Next]_vars
    PROVE  Untouched'
    <1>1. CASE UNCHANGED <<pc, watch, pushed, ran, recap, cmd>>
        BY <1>1 DEF Untouched, Early, Committed, Holding
    <1>2. ASSUME NEW c \in Calls, Enter(c) PROVE Untouched'
        BY <1>2
           DEF Untouched, Early, Committed, Holding, TypeOK, Enter, thread, db,
               locals, watchers, histories
    <1>3. ASSUME NEW c \in Calls, PinThread(c) PROVE Untouched'
        BY <1>3
           DEF Untouched, Early, Committed, Holding, TypeOK, PinThread, thread,
               db, locals, watchers, histories
    <1>4. ASSUME NEW c \in Calls, Build(c) PROVE Untouched'
        BY <1>4
           DEF Untouched, Early, Committed, Holding, TypeOK, Build, thread, db,
               locals, watchers, histories
    <1>5. ASSUME NEW c \in Calls, TakeLock(c) PROVE Untouched'
        BY <1>5
           DEF Untouched, Early, Committed, Holding, TypeOK, TakeLock, thread,
               db, locals, watchers, histories
    <1>6. ASSUME NEW c \in Calls, ChildOpens(c) PROVE Untouched'
        BY <1>6
           DEF Untouched, Early, Committed, Holding, TypeOK, ChildOpens,
               thread, db, locals, watchers, histories
    <1>7. ASSUME NEW c \in Calls, ChildEnds(c) PROVE Untouched'
        BY <1>7
           DEF Untouched, Early, Committed, Holding, TypeOK, ChildEnds, thread,
               db, locals, watchers, histories
    <1>8. ASSUME NEW c \in Calls, Adopt(c) PROVE Untouched'
        BY <1>8
           DEF Untouched, Early, Committed, Holding, TypeOK, Adopt, thread, db,
               locals, watchers, histories
    <1>9. ASSUME NEW c \in Calls, AdoptPin(c) PROVE Untouched'
        BY <1>9
           DEF Untouched, Early, Committed, Holding, TypeOK, AdoptPin, thread,
               db, locals, watchers, histories
    <1>10. ASSUME NEW c \in Calls, ToolRecap(c) PROVE Untouched'
        BY <1>10
           DEF Untouched, Early, Committed, Holding, TypeOK, ToolRecap, thread,
               db, locals, watchers, histories
    <1>11. ASSUME NEW c \in Calls, Return(c) PROVE Untouched'
        BY <1>11
           DEF Untouched, Early, Committed, Holding, TypeOK, Return, thread,
               db, locals, watchers, histories
    <1>12. ASSUME NEW c \in Calls, Seed(c) PROVE Untouched'
        BY <1>12
           DEF Untouched, Early, Committed, Holding, TypeOK, Seed, thread, db,
               locals, watchers, histories
    <1>13. ASSUME NEW c \in Calls, PollRows(c) PROVE Untouched'
        BY <1>13
           DEF Untouched, Early, Committed, Holding, TypeOK, PollRows, thread,
               db, locals, watchers, histories
    <1>14. ASSUME NEW c \in Calls, FetchAndPush(c) PROVE Untouched'
        BY <1>14
           DEF Untouched, Early, Committed, Holding, TypeOK, FetchAndPush,
               thread, db, locals, watchers, histories
    <1>15. ASSUME NEW c \in Calls, WatcherEnds(c) PROVE Untouched'
        BY <1>15
           DEF Untouched, Early, Committed, Holding, TypeOK, WatcherEnds,
               thread, db, locals, watchers, histories
    <1>16. ASSUME Restart PROVE Untouched'
        BY <1>16
           DEF Untouched, Early, Committed, Holding, TypeOK, Restart, thread,
               db, locals, watchers, histories
    <1> QED
        BY <1>1, <1>2, <1>3, <1>4, <1>5, <1>6, <1>7, <1>8, <1>9, <1>10, <1>11,
           <1>12, <1>13, <1>14, <1>15, <1>16
           DEF Next, ChatStep, ChildStep, WatcherStep, vars, thread, db,
               locals, watchers, histories, ChildCalls, NewName, DropPin,
               OthersOpen

\* What is pinned, or about to be, is a session of the bridge.
PinsOurs ==
    /\ pin /= 0 => Ours(pin)
    /\ \A c \in Calls : pc[c] \in {"pin", "adopted"} /\ found[c] /= 0 => Ours(found[c])

\* So is every session that has a title or is marked as one of the mesh.
OursMarked ==
    \A s \in DOMAIN sessions :
        sessions[s].title /= 0 \/ sessions[s].source = "mesh" => sessions[s].by \in Calls

\* The sessions that commands, turns and rows refer to are there.
RefersKnown ==
    /\ \A c \in Calls :
          /\ pc[c] \in Committed /\ cmd[c].way = "resume" => Known(cmd[c].to)
          /\ ran[c] /= 0 => Known(ran[c])
    /\ \A i \in DOMAIN rows : Known(rows[i].session)

\* So are the rows that recaps and watchers refer to.
RowsKnown ==
    \A c \in Calls :
        /\ recap[c] \subseteq DOMAIN rows
        /\ \A i \in 1..MaxRows : pushed[c][i] > 0 => i \in DOMAIN rows
        /\ watch[c] = "fetch" => seen[c] > last[c]

LEMMA KeepsOursMarked ==
    ASSUME TypeOK, OursMarked, [Next]_vars
    PROVE  OursMarked'
    <1>1. CASE UNCHANGED <<sessions>>
        BY <1>1 DEF OursMarked
    <1>2. ASSUME NEW c \in Calls, ChildOpens(c) PROVE OursMarked'
        BY <1>2, OpenedStore, ToldIs DEF OursMarked, NewSession
    <1>3. ASSUME NEW c \in Calls, Adopt(c) PROVE OursMarked'
        <2>1. CASE sessions' = sessions
            BY <2>1 DEF OursMarked
        <2>2. CASE /\ found'[c] \in Candidates(c)
                   /\ sessions' = [sessions EXCEPT ![found'[c]].title = name]
            <3>1. \A s \in DOMAIN sessions : sessions[s] \in Sessions
                BY Typed DEF StoreTyped
            <3> QED
                BY <2>2, <3>1 DEF OursMarked, Candidates, Sessions
        <2> QED
            BY <1>3, <2>1, <2>2, AdoptedStore
    <1>4. ASSUME OthersOpen PROVE OursMarked'
        BY <1>4, OthersStore DEF OursMarked
    <1> QED
        BY <1>1, <1>2, <1>3, <1>4
           DEF Next, ChatStep, ChildStep, WatcherStep, vars, thread, db,
               locals, watchers, histories, Enter, PinThread, Build, TakeLock,
               ChildCalls, ChildEnds, AdoptPin, ToolRecap, Return, Seed,
               PollRows, FetchAndPush, WatcherEnds, NewName, DropPin, Restart

LEMMA KeepsPinsOurs ==
    ASSUME TypeOK, OursMarked, PinsOurs, [Next]_vars
    PROVE  PinsOurs'
    <1>1. CASE UNCHANGED <<pin, pc, found, sessions>>
        BY <1>1 DEF PinsOurs, Ours, Known
    <1>2. ASSUME NEW c \in Calls, Enter(c) PROVE PinsOurs'
        <2>1. Titled(name) /= 0 => Ours(Titled(name))
            <3>1. StoreTyped
                BY Typed
            <3>2. Titled(name) /= 0 =>
                      /\ Titled(name) \in DOMAIN sessions
                      /\ sessions[Titled(name)].title = name
                BY <3>1, TitledIs
            <3>3. name /= 0
                BY DEF TypeOK, Names
            <3> QED
                BY <3>2, <3>3 DEF OursMarked, Ours, Known
        <2> QED
            BY <1>2, <2>1
               DEF PinsOurs, Ours, Known, TypeOK, Enter, thread, db, locals,
                   watchers, histories
    <1>3. ASSUME NEW c \in Calls, PinThread(c) PROVE PinsOurs'
        BY <1>3
           DEF PinsOurs, Ours, Known, TypeOK, PinThread, thread, db, locals,
               watchers, histories
    <1>4. ASSUME NEW c \in Calls, Build(c) PROVE PinsOurs'
        BY <1>4
           DEF PinsOurs, Ours, Known, TypeOK, Build, thread, db, locals,
               watchers, histories
    <1>5. ASSUME NEW c \in Calls, TakeLock(c) PROVE PinsOurs'
        BY <1>5
           DEF PinsOurs, Ours, Known, TypeOK, TakeLock, thread, db, locals,
               watchers, histories
    <1>6. ASSUME NEW c \in Calls, ChildOpens(c) PROVE PinsOurs'
        <2>1. UNCHANGED <<pin, pc, found>>
            BY <1>6 DEF ChildOpens, thread, db, locals, watchers, histories
        <2>2. StoreGrowth
            BY StoreGrows
        <2> QED
            BY <2>1, <2>2 DEF PinsOurs, Ours, Known, StoreGrowth
    <1>7. ASSUME NEW c \in Calls, ChildEnds(c) PROVE PinsOurs'
        BY <1>7
           DEF PinsOurs, Ours, Known, TypeOK, ChildEnds, thread, db, locals,
               watchers, histories
    <1>8. ASSUME NEW c \in Calls, Adopt(c) PROVE PinsOurs'
        <2>1. pin' = pin
            BY <1>8 DEF Adopt, thread, db, locals, watchers, histories
        <2>2. StoreGrowth
            BY StoreGrows
        <2>3. CASE found' = found /\ pc' = [pc EXCEPT ![c] = "recap"]
            BY <2>1, <2>2, <2>3 DEF PinsOurs, Ours, Known, StoreGrowth, TypeOK
        <2>4. CASE /\ found'[c] \in Candidates(c)
                   /\ found' = [found EXCEPT ![c] = found'[c]]
                   /\ pc' = [pc EXCEPT ![c] = "adopted"]
            <3>1. Ours(found'[c])
                BY <2>4 DEF Candidates, OursMarked, Ours, Known
            <3>2. \A s : Ours(s) => Ours(s)'
                BY <2>2 DEF Ours, Known, StoreGrowth
            <3>3. \A s :
                      Ours(s) => s \in DOMAIN sessions' /\ sessions'[s].by \in Calls
                BY <3>2 DEF Ours, Known
            <3>4. pin' /= 0 => /\ pin' \in DOMAIN sessions'
                               /\ sessions'[pin'].by \in Calls
                BY <2>1, <3>3 DEF PinsOurs
            <3>5. ASSUME NEW d \in Calls, pc'[d] \in {"pin", "adopted"}, found'[d] /= 0
                  PROVE  /\ found'[d] \in DOMAIN sessions'
                         /\ sessions'[found'[d]].by \in Calls
                <4>1. CASE d = c
                    BY <3>1, <3>3, <4>1
                <4>2. CASE d /= c
                    <5>1. found'[d] = found[d] /\ pc'[d] = pc[d]
                        BY <2>4, <4>2 DEF TypeOK
                    <5> QED
                        BY <3>3, <3>5, <5>1 DEF PinsOurs
                <4> QED
                    BY <4>1, <4>2
            <3> QED
                BY <3>4, <3>5 DEF PinsOurs, Ours, Known
        <2> QED
            BY <1>8, <2>3, <2>4, AdoptedStore
    <1>9. ASSUME NEW c \in Calls, AdoptPin(c) PROVE PinsOurs'
        BY <1>9
           DEF PinsOurs, Ours, Known, TypeOK, AdoptPin, thread, db, locals,
               watchers, histories
    <1>10. ASSUME NEW c \in Calls, ToolRecap(c) PROVE PinsOurs'
        BY <1>10
           DEF PinsOurs, Ours, Known, TypeOK, ToolRecap, thread, db, locals,
               watchers, histories
    <1>11. ASSUME NEW c \in Calls, Return(c) PROVE PinsOurs'
        BY <1>11
           DEF PinsOurs, Ours, Known, TypeOK, Return, thread, db, locals,
               watchers, histories
    <1>12. ASSUME DropPin PROVE PinsOurs'
        BY <1>12
           DEF PinsOurs, Ours, Known, TypeOK, DropPin, thread, db, locals,
               watchers, histories
    <1>13. ASSUME OthersOpen PROVE PinsOurs'
        <2>1. UNCHANGED <<pin, pc, found>>
            BY <1>13 DEF OthersOpen, thread, db, locals, watchers, histories
        <2>2. StoreGrowth
            BY StoreGrows
        <2> QED
            BY <2>1, <2>2 DEF PinsOurs, Ours, Known, StoreGrowth
    <1>14. ASSUME Restart PROVE PinsOurs'
        BY <1>14
           DEF PinsOurs, Ours, Known, TypeOK, Restart, thread, db, locals,
               watchers, histories
    <1> QED
        BY <1>1, <1>2, <1>3, <1>4, <1>5, <1>6, <1>7, <1>8, <1>9, <1>10, <1>11,
           <1>12, <1>13, <1>14
           DEF Next, ChatStep, ChildStep, WatcherStep, vars, thread, db,
               locals, watchers, histories, ChildCalls, Seed, PollRows,
               FetchAndPush, WatcherEnds, NewName

LEMMA KeepsRefersKnown ==
    ASSUME TypeOK, PinsOurs, RefersKnown, [Next]_vars
    PROVE  RefersKnown'
    <1>1. CASE UNCHANGED <<pc, cmd, ran, rows, sessions>>
        BY <1>1 DEF RefersKnown, Known, Committed, Holding
    <1>2. ASSUME NEW c \in Calls, Enter(c) PROVE RefersKnown'
        BY <1>2
           DEF RefersKnown, Known, Committed, Holding, TypeOK, Enter, thread,
               db, locals, watchers, histories
    <1>3. ASSUME NEW c \in Calls, PinThread(c) PROVE RefersKnown'
        BY <1>3
           DEF RefersKnown, Known, Committed, Holding, TypeOK, PinThread,
               thread, db, locals, watchers, histories
    <1>4. ASSUME NEW c \in Calls, Build(c) PROVE RefersKnown'
        BY <1>4
           DEF RefersKnown, Known, PinsOurs, Ours, Committed, Holding, TypeOK,
               Build, thread, db, locals, watchers, histories
    <1>5. ASSUME NEW c \in Calls, TakeLock(c) PROVE RefersKnown'
        BY <1>5
           DEF RefersKnown, Known, Committed, Holding, TypeOK, TakeLock,
               thread, db, locals, watchers, histories
    <1>6. ASSUME NEW c \in Calls, ChildOpens(c) PROVE RefersKnown'
        <2>1. UNCHANGED <<pc, cmd>>
            BY <1>6 DEF ChildOpens, thread, db, locals, watchers, histories
        <2>2. StoreGrowth
            BY StoreGrows
        <2>3. ran'[c] /= 0 => ran'[c] \in DOMAIN sessions'
            <3>1. Told(c) /= 0 => Known(Told(c))
                <4>1. StoreTyped /\ pc[c] \in Committed
                    BY <1>6, Typed DEF ChildOpens, Committed, Holding
                <4> QED
                    BY <4>1, ToldIs, TitledIs DEF RefersKnown, Known
            <3> QED
                BY <1>6, <2>2, <3>1, OpenedStore DEF Known, StoreGrowth
        <2>4. \A d \in Calls : d /= c => ran'[d] = ran[d]
            BY <1>6, OpensIs DEF TypeOK
        <2>5. \A d \in Calls : ran'[d] /= 0 => ran'[d] \in DOMAIN sessions'
            BY <2>2, <2>3, <2>4 DEF RefersKnown, Known, StoreGrowth
        <2>6. \A i \in DOMAIN rows' : rows'[i].session \in DOMAIN sessions'
            <3>1. ran'[c] /= 0
                BY <1>6, OpensIs
            <3> QED
                BY <1>6, <2>2, <2>3, <3>1, NewRow
                   DEF RefersKnown, Known, StoreGrowth
        <2>7. \A d \in Calls :
                  pc'[d] \in Committed /\ cmd'[d].way = "resume" =>
                      cmd'[d].to \in DOMAIN sessions'
            BY <2>1, <2>2 DEF RefersKnown, Known, StoreGrowth
        <2> QED
            BY <2>5, <2>6, <2>7 DEF RefersKnown, Known
    <1>7. ASSUME NEW c \in Calls, ChildCalls(c) PROVE RefersKnown'
        <2>1. UNCHANGED <<pc, cmd, ran, sessions>>
            BY <1>7 DEF ChildCalls, thread, db, locals, watchers, histories
        <2>2. ran'[c] /= 0 => Known(ran'[c])
            BY <2>1 DEF RefersKnown
        <2>3. ran'[c] /= 0
            BY <1>7 DEF ChildCalls, thread, db, locals, watchers, histories
        <2> QED
            BY <1>7, <2>1, <2>2, <2>3, NewRow DEF RefersKnown, Known
    <1>8. ASSUME NEW c \in Calls, ChildEnds(c) PROVE RefersKnown'
        BY <1>8
           DEF RefersKnown, Known, Committed, Holding, TypeOK, ChildEnds,
               thread, db, locals, watchers, histories
    <1>9. ASSUME NEW c \in Calls, Adopt(c) PROVE RefersKnown'
        <2>1. UNCHANGED <<cmd, ran, rows>>
            BY <1>9 DEF Adopt, thread, db, locals, watchers, histories
        <2>2. StoreGrowth
            BY StoreGrows
        <2>3. \A d \in Calls : pc'[d] \in Committed => pc[d] \in Committed
            BY <1>9
               DEF Adopt, Committed, Holding, TypeOK, thread, db, locals,
                   watchers, histories
        <2> QED
            BY <2>1, <2>2, <2>3 DEF RefersKnown, Known, StoreGrowth
    <1>10. ASSUME NEW c \in Calls, AdoptPin(c) PROVE RefersKnown'
        BY <1>10
           DEF RefersKnown, Known, Committed, Holding, TypeOK, AdoptPin,
               thread, db, locals, watchers, histories
    <1>11. ASSUME NEW c \in Calls, ToolRecap(c) PROVE RefersKnown'
        BY <1>11
           DEF RefersKnown, Known, Committed, Holding, TypeOK, ToolRecap,
               thread, db, locals, watchers, histories
    <1>12. ASSUME NEW c \in Calls, Return(c) PROVE RefersKnown'
        BY <1>12
           DEF RefersKnown, Known, Committed, Holding, TypeOK, Return, thread,
               db, locals, watchers, histories
    <1>13. ASSUME OthersOpen PROVE RefersKnown'
        <2>1. UNCHANGED <<cmd, ran, rows>>
            BY <1>13 DEF OthersOpen, thread, db, locals, watchers, histories
        <2>2. StoreGrowth
            BY StoreGrows
        <2>3. \A d \in Calls : pc'[d] \in Committed => pc[d] \in Committed
            BY <1>13
               DEF OthersOpen, Committed, Holding, TypeOK, thread, db, locals,
                   watchers, histories
        <2> QED
            BY <2>1, <2>2, <2>3 DEF RefersKnown, Known, StoreGrowth
    <1>14. ASSUME Restart PROVE RefersKnown'
        BY <1>14
           DEF RefersKnown, Known, Committed, Holding, TypeOK, Restart, thread,
               db, locals, watchers, histories
    <1> QED
        BY <1>1, <1>2, <1>3, <1>4, <1>5, <1>6, <1>7, <1>8, <1>9, <1>10, <1>11,
           <1>12, <1>13, <1>14
           DEF Next, ChatStep, ChildStep, WatcherStep, vars, thread, db,
               locals, watchers, histories, Seed, PollRows, FetchAndPush,
               WatcherEnds, NewName, DropPin

LEMMA KeepsRowsKnown ==
    ASSUME TypeOK, RowsKnown, [Next]_vars
    PROVE  RowsKnown'
    <1>1. CASE UNCHANGED <<recap, pushed, rows, watch, seen, last>>
        BY <1>1 DEF RowsKnown
    <1>2. ASSUME NEW c \in Calls, Build(c) PROVE RowsKnown'
        BY <1>2
           DEF RowsKnown, TypeOK, Build, thread, db, locals, watchers,
               histories
    <1>3. ASSUME NEW c \in Calls, ChildOpens(c) PROVE RowsKnown'
        <2>1. UNCHANGED <<recap, pushed, watch, seen, last>>
            BY <1>3 DEF ChildOpens, thread, db, locals, watchers, histories
        <2>2. DOMAIN rows \subseteq DOMAIN rows'
            BY StoreGrows DEF StoreGrowth
        <2> QED
            BY <2>1, <2>2 DEF RowsKnown
    <1>4. ASSUME NEW c \in Calls, ChildCalls(c) PROVE RowsKnown'
        <2>1. UNCHANGED <<recap, pushed, watch, seen, last>>
            BY <1>4 DEF ChildCalls, thread, db, locals, watchers, histories
        <2>2. DOMAIN rows \subseteq DOMAIN rows'
            BY StoreGrows DEF StoreGrowth
        <2> QED
            BY <2>1, <2>2 DEF RowsKnown
    <1>5. ASSUME NEW c \in Calls, ToolRecap(c) PROVE RowsKnown'
        <2>1. UNCHANGED <<rows, pushed, watch, seen, last>>
            BY <1>5 DEF ToolRecap, thread, db, locals, watchers, histories
        <2>2. PICK R : R \subseteq DOMAIN rows /\ (recap' = recap \/ recap' = [recap EXCEPT ![c] = R])
            <3>1. \A sid, from : ToolRowsAfter(sid, from) \subseteq DOMAIN rows
                BY DEF ToolRowsAfter, RowsOf
            <3> QED
                BY <1>5, <3>1 DEF ToolRecap
        <2> QED
            BY <2>1, <2>2 DEF RowsKnown, TypeOK
    <1>6. ASSUME NEW c \in Calls, Seed(c) PROVE RowsKnown'
        BY <1>6
           DEF RowsKnown, TypeOK, Seed, thread, db, locals, watchers, histories
    <1>7. ASSUME NEW c \in Calls, PollRows(c) PROVE RowsKnown'
        <2>1. seen'[c] > last'[c]
            BY <1>7 DEF PollRows, TypeOK
        <2> QED
            BY <1>7, <2>1
               DEF RowsKnown, TypeOK, PollRows, thread, db, locals, watchers,
                   histories
    <1>8. ASSUME NEW c \in Calls, FetchAndPush(c) PROVE RowsKnown'
        <2>1. /\ UNCHANGED <<recap, rows, seen>>
              /\ watch' = [watch EXCEPT ![c] = "poll"]
            BY <1>8 DEF FetchAndPush, thread, db, locals, watchers, histories
        <2>2. last' = [last EXCEPT ![c] = seen[c]]
            BY <1>8 DEF FetchAndPush
        <2>3. \A d \in Calls :
                  d /= c => pushed'[d] = pushed[d] /\ last'[d] = last[d]
            BY <1>8, <2>2 DEF FetchAndPush, TypeOK
        <2>4. ASSUME NEW i \in 1..MaxRows, pushed'[c][i] > 0
              PROVE  i \in DOMAIN rows
            <3>1. ToolRowsAfter(wsid[c], last[c]) \subseteq DOMAIN rows
                BY DEF ToolRowsAfter, RowsOf
            <3>2. i \in ToolRowsAfter(wsid[c], last[c]) \/ pushed'[c][i] = pushed[c][i]
                BY <1>8 DEF FetchAndPush, TypeOK
            <3> QED
                BY <2>4, <3>1, <3>2 DEF RowsKnown
        <2> QED
            BY <2>1, <2>3, <2>4 DEF RowsKnown, TypeOK
    <1>9. ASSUME NEW c \in Calls, WatcherEnds(c) PROVE RowsKnown'
        BY <1>9
           DEF RowsKnown, TypeOK, WatcherEnds, thread, db, locals, watchers,
               histories
    <1>10. ASSUME Restart PROVE RowsKnown'
        BY <1>10
           DEF RowsKnown, TypeOK, Restart, thread, db, locals, watchers,
               histories
    <1> QED
        BY <1>1, <1>2, <1>3, <1>4, <1>5, <1>6, <1>7, <1>8, <1>9, <1>10
           DEF Next, ChatStep, ChildStep, WatcherStep, vars, thread, db,
               locals, watchers, histories, Enter, PinThread, TakeLock,
               ChildEnds, Adopt, AdoptPin, Return, NewName, DropPin, OthersOpen

-----------------------------------------------------------------------------
(* The turn that holds the lock                                            *)

LEMMA SoleHolder ==
    ASSUME OneHolds, NEW c \in Calls, NEW d \in Calls,
           pc[c] \in Holding, pc[d] \in Holding
    PROVE  c = d
    BY DEF OneHolds

\* Since it took the lock, only its own child has written: all rows of the
\* sessions that are new since are its own.
SinceStart ==
    \A c \in Calls : pc[c] \in Holding =>
        /\ start[c] <= Len(sessions)
        /\ \A i \in DOMAIN rows :
              rows[i].session > start[c] => rows[i].by = c

LEMMA KeepsSinceStart ==
    ASSUME TypeOK, OneHolds, RefersKnown, SinceStart, [Next]_vars
    PROVE  SinceStart'
    <1>1. CASE UNCHANGED <<pc, start, rows, sessions>>
        BY <1>1 DEF SinceStart, Holding
    <1>2. ASSUME NEW c \in Calls, Enter(c) PROVE SinceStart'
        BY <1>2
           DEF SinceStart, Holding, TypeOK, Enter, thread, db, locals,
               watchers, histories
    <1>3. ASSUME NEW c \in Calls, PinThread(c) PROVE SinceStart'
        BY <1>3
           DEF SinceStart, Holding, TypeOK, PinThread, thread, db, locals,
               watchers, histories
    <1>4. ASSUME NEW c \in Calls, Build(c) PROVE SinceStart'
        BY <1>4
           DEF SinceStart, Holding, TypeOK, Build, thread, db, locals,
               watchers, histories
    <1>5. ASSUME NEW c \in Calls, TakeLock(c) PROVE SinceStart'
        <2>1. UNCHANGED <<rows, sessions>>
            BY <1>5 DEF TakeLock, thread, db, locals, watchers, histories
        <2>2. start'[c] = Len(sessions)
            BY <1>5 DEF TakeLock, TypeOK
        <2>3. Len(sessions) \in Nat /\ DOMAIN sessions = 1..Len(sessions)
            BY Typed DEF StoreTyped
        <2>4. \A i \in DOMAIN rows : ~(rows[i].session > Len(sessions))
            BY <2>3 DEF RefersKnown, Known
        <2>5. \A d \in Calls \ {c} : pc'[d] = pc[d] /\ start'[d] = start[d]
            BY <1>5 DEF TakeLock, TypeOK
        <2> QED
            BY <2>1, <2>2, <2>3, <2>4, <2>5 DEF SinceStart
    <1>6. ASSUME NEW c \in Calls, ChildOpens(c) PROVE SinceStart'
        <2>1. UNCHANGED <<start, pc>> /\ StoreGrowth /\ pc[c] \in Holding
            BY <1>6, StoreGrows
               DEF ChildOpens, thread, db, locals, watchers, histories, Holding
        <2>2. \A i \in DOMAIN rows' :
                  (i \in DOMAIN rows /\ rows'[i] = rows[i]) \/ rows'[i].by = c
            BY <1>6, NewRow
        <2>3. \A d \in Calls : start[d] \in Nat
            BY DEF TypeOK, Ids
        <2> SUFFICES ASSUME NEW d \in Calls, pc'[d] \in Holding
                     PROVE  /\ start'[d] <= Len(sessions')
                            /\ \A i \in DOMAIN rows' :
                                  rows'[i].session > start'[d] => rows'[i].by = d
            BY DEF SinceStart
        <2>4. d = c
            BY <2>1, SoleHolder
        <2> QED
            BY <2>1, <2>2, <2>3, <2>4 DEF SinceStart, StoreGrowth
    <1>7. ASSUME NEW c \in Calls, ChildCalls(c) PROVE SinceStart'
        <2>1. UNCHANGED <<start, pc>> /\ StoreGrowth /\ pc[c] \in Holding
            BY <1>7, StoreGrows
               DEF ChildCalls, thread, db, locals, watchers, histories, Holding
        <2>2. \A i \in DOMAIN rows' :
                  (i \in DOMAIN rows /\ rows'[i] = rows[i]) \/ rows'[i].by = c
            BY <1>7, NewRow
        <2>3. \A d \in Calls : start[d] \in Nat
            BY DEF TypeOK, Ids
        <2> SUFFICES ASSUME NEW d \in Calls, pc'[d] \in Holding
                     PROVE  /\ start'[d] <= Len(sessions')
                            /\ \A i \in DOMAIN rows' :
                                  rows'[i].session > start'[d] => rows'[i].by = d
            BY DEF SinceStart
        <2>4. d = c
            BY <2>1, SoleHolder
        <2> QED
            BY <2>1, <2>2, <2>3, <2>4 DEF SinceStart, StoreGrowth
    <1>8. ASSUME NEW c \in Calls, ChildEnds(c) PROVE SinceStart'
        BY <1>8
           DEF SinceStart, Holding, TypeOK, ChildEnds, thread, db, locals,
               watchers, histories
    <1>9. ASSUME NEW c \in Calls, Adopt(c) PROVE SinceStart'
        <2>1. UNCHANGED <<rows, start>> /\ StoreGrowth
            BY <1>9, StoreGrows
               DEF Adopt, thread, db, locals, watchers, histories
        <2>2. \A d \in Calls : pc'[d] \in Holding => pc[d] \in Holding
            BY <1>9
               DEF Adopt, Holding, TypeOK, thread, db, locals, watchers,
                   histories
        <2>3. \A d \in Calls : start[d] \in Nat
            BY DEF TypeOK, Ids
        <2> QED
            BY <2>1, <2>2, <2>3 DEF SinceStart, StoreGrowth
    <1>10. ASSUME NEW c \in Calls, AdoptPin(c) PROVE SinceStart'
        BY <1>10
           DEF SinceStart, Holding, TypeOK, AdoptPin, thread, db, locals,
               watchers, histories
    <1>11. ASSUME NEW c \in Calls, ToolRecap(c) PROVE SinceStart'
        BY <1>11
           DEF SinceStart, Holding, TypeOK, ToolRecap, thread, db, locals,
               watchers, histories
    <1>12. ASSUME NEW c \in Calls, Return(c) PROVE SinceStart'
        BY <1>12
           DEF SinceStart, Holding, TypeOK, Return, thread, db, locals,
               watchers, histories
    <1>13. ASSUME OthersOpen PROVE SinceStart'
        <2>1. UNCHANGED <<rows, start>> /\ StoreGrowth
            BY <1>13, StoreGrows
               DEF OthersOpen, thread, db, locals, watchers, histories
        <2>2. \A d \in Calls : pc'[d] \in Holding => pc[d] \in Holding
            BY <1>13
               DEF OthersOpen, Holding, TypeOK, thread, db, locals, watchers,
                   histories
        <2>3. \A d \in Calls : start[d] \in Nat
            BY DEF TypeOK, Ids
        <2> QED
            BY <2>1, <2>2, <2>3 DEF SinceStart, StoreGrowth
    <1>14. ASSUME Restart PROVE SinceStart'
        BY <1>14
           DEF SinceStart, Holding, TypeOK, Restart, thread, db, locals,
               watchers, histories
    <1> QED
        BY <1>1, <1>2, <1>3, <1>4, <1>5, <1>6, <1>7, <1>8, <1>9, <1>10, <1>11,
           <1>12, <1>13, <1>14
           DEF Next, ChatStep, ChildStep, WatcherStep, vars, thread, db,
               locals, watchers, histories, Seed, PollRows, FetchAndPush,
               WatcherEnds, NewName, DropPin

\* What _adopt_new_session() has found is new since then ...
AdoptsNew == \A c \in Calls : pc[c] = "adopted" => found[c] > start[c]

LEMMA KeepsAdoptsNew ==
    ASSUME TypeOK, AdoptsNew, [Next]_vars
    PROVE  AdoptsNew'
    <1>1. CASE UNCHANGED <<pc, found, start>>
        BY <1>1 DEF AdoptsNew
    <1>2. ASSUME NEW c \in Calls, Enter(c) PROVE AdoptsNew'
        BY <1>2
           DEF AdoptsNew, TypeOK, Enter, thread, db, locals, watchers,
               histories
    <1>3. ASSUME NEW c \in Calls, PinThread(c) PROVE AdoptsNew'
        BY <1>3
           DEF AdoptsNew, TypeOK, PinThread, thread, db, locals, watchers,
               histories
    <1>4. ASSUME NEW c \in Calls, Build(c) PROVE AdoptsNew'
        BY <1>4
           DEF AdoptsNew, TypeOK, Build, thread, db, locals, watchers,
               histories
    <1>5. ASSUME NEW c \in Calls, TakeLock(c) PROVE AdoptsNew'
        BY <1>5
           DEF AdoptsNew, TypeOK, TakeLock, thread, db, locals, watchers,
               histories
    <1>6. ASSUME NEW c \in Calls, ChildEnds(c) PROVE AdoptsNew'
        BY <1>6
           DEF AdoptsNew, TypeOK, ChildEnds, thread, db, locals, watchers,
               histories
    <1>7. ASSUME NEW c \in Calls, Adopt(c) PROVE AdoptsNew'
        <2>1. start' = start
            BY <1>7 DEF Adopt, thread, db, locals, watchers, histories
        <2>2. CASE found' = found /\ pc' = [pc EXCEPT ![c] = "recap"]
            BY <2>1, <2>2 DEF AdoptsNew, TypeOK
        <2>3. CASE /\ found'[c] \in Candidates(c)
                   /\ found' = [found EXCEPT ![c] = found'[c]]
                   /\ pc' = [pc EXCEPT ![c] = "adopted"]
            <3>1. found'[c] > start'[c]
                BY <2>1, <2>3 DEF Candidates
            <3>2. \A d \in Calls \ {c} : found'[d] = found[d] /\ pc'[d] = pc[d]
                BY <2>3 DEF TypeOK
            <3> QED
                BY <2>1, <3>1, <3>2 DEF AdoptsNew
        <2> QED
            BY <1>7, <2>2, <2>3, AdoptedStore
    <1>8. ASSUME NEW c \in Calls, AdoptPin(c) PROVE AdoptsNew'
        BY <1>8
           DEF AdoptsNew, TypeOK, AdoptPin, thread, db, locals, watchers,
               histories
    <1>9. ASSUME NEW c \in Calls, ToolRecap(c) PROVE AdoptsNew'
        BY <1>9
           DEF AdoptsNew, TypeOK, ToolRecap, thread, db, locals, watchers,
               histories
    <1>10. ASSUME NEW c \in Calls, Return(c) PROVE AdoptsNew'
        BY <1>10
           DEF AdoptsNew, TypeOK, Return, thread, db, locals, watchers,
               histories
    <1>11. ASSUME Restart PROVE AdoptsNew'
        BY <1>11
           DEF AdoptsNew, TypeOK, Restart, thread, db, locals, watchers,
               histories
    <1> QED
        BY <1>1, <1>2, <1>3, <1>4, <1>5, <1>6, <1>7, <1>8, <1>9, <1>10, <1>11
           DEF Next, ChatStep, ChildStep, WatcherStep, vars, thread, db,
               locals, watchers, histories, ChildOpens, ChildCalls, Seed,
               PollRows, FetchAndPush, WatcherEnds, NewName, DropPin,
               OthersOpen

\* ... so that all rows after the anchor, in its session, are the turn's own.
AnchorHolds ==
    \A c \in Calls : pc[c] \in Holding =>
        \A i \in DOMAIN rows :
            rows[i].session = anchor[c].sid /\ i > anchor[c].row => rows[i].by = c

LEMMA KeepsAnchorHolds ==
    ASSUME TypeOK, OneHolds, RefersKnown, SinceStart, AdoptsNew, AnchorHolds,
           [Next]_vars
    PROVE  AnchorHolds'
    <1>1. CASE UNCHANGED <<pc, anchor, rows>>
        BY <1>1 DEF AnchorHolds, Holding
    <1>2. ASSUME NEW c \in Calls, Enter(c) PROVE AnchorHolds'
        BY <1>2
           DEF AnchorHolds, Holding, TypeOK, Enter, thread, db, locals,
               watchers, histories
    <1>3. ASSUME NEW c \in Calls, PinThread(c) PROVE AnchorHolds'
        BY <1>3
           DEF AnchorHolds, Holding, TypeOK, PinThread, thread, db, locals,
               watchers, histories
    <1>4. ASSUME NEW c \in Calls, Build(c) PROVE AnchorHolds'
        BY <1>4
           DEF AnchorHolds, Holding, TypeOK, Build, thread, db, locals,
               watchers, histories
    <1>5. ASSUME NEW c \in Calls, TakeLock(c) PROVE AnchorHolds'
        <2>1. UNCHANGED <<rows, sessions>>
            BY <1>5 DEF TakeLock, thread, db, locals, watchers, histories
        <2>2. anchor'[c] = TurnAnchor(c)
            BY <1>5 DEF TakeLock, TypeOK
        <2>3. ASSUME NEW i \in DOMAIN rows, rows[i].session = TurnAnchor(c).sid
              PROVE  ~(i > TurnAnchor(c).row)
            <3>1. CASE pin = 0
                <4>1. rows[i].session \in DOMAIN sessions
                    BY DEF RefersKnown, Known
                <4>2. 0 \notin DOMAIN sessions
                    BY Typed DEF StoreTyped
                <4> QED
                    BY <2>3, <3>1, <4>1, <4>2 DEF TurnAnchor, NoAnchor
            <3>2. CASE pin /= 0
                <4>1. i <= MaxRow(pin) /\ MaxRow(pin) \in Nat
                    BY <2>3, <3>2, Typed, MaxRowIs, Bounds
                       DEF TurnAnchor, RowIds
                <4>2. i \in Nat
                    BY Typed DEF StoreTyped
                <4> QED
                    BY <3>2, <4>1, <4>2 DEF TurnAnchor
            <3> QED
                BY <3>1, <3>2
        <2>4. \A d \in Calls \ {c} : pc'[d] = pc[d] /\ anchor'[d] = anchor[d]
            BY <1>5 DEF TakeLock, TypeOK
        <2> SUFFICES ASSUME NEW d \in Calls, pc'[d] \in Holding,
                            NEW i \in DOMAIN rows',
                            rows'[i].session = anchor'[d].sid, i > anchor'[d].row
                     PROVE  rows'[i].by = d
            BY DEF AnchorHolds
        <2>5. CASE d = c
            BY <2>1, <2>2, <2>3, <2>5
        <2>6. CASE d /= c
            BY <2>1, <2>4, <2>6 DEF AnchorHolds
        <2> QED
            BY <2>5, <2>6
    <1>6. ASSUME NEW c \in Calls, ChildOpens(c) PROVE AnchorHolds'
        <2>1. UNCHANGED <<anchor, pc>> /\ pc[c] \in Holding
            BY <1>6
               DEF ChildOpens, thread, db, locals, watchers, histories, Holding
        <2>2. \A i \in DOMAIN rows' :
                  (i \in DOMAIN rows /\ rows'[i] = rows[i]) \/ rows'[i].by = c
            BY <1>6, NewRow
        <2> SUFFICES ASSUME NEW d \in Calls, pc'[d] \in Holding,
                            NEW i \in DOMAIN rows',
                            rows'[i].session = anchor'[d].sid, i > anchor'[d].row
                     PROVE  rows'[i].by = d
            BY DEF AnchorHolds
        <2>3. d = c
            BY <2>1, SoleHolder
        <2> QED
            BY <2>1, <2>2, <2>3 DEF AnchorHolds
    <1>7. ASSUME NEW c \in Calls, ChildCalls(c) PROVE AnchorHolds'
        <2>1. UNCHANGED <<anchor, pc>> /\ pc[c] \in Holding
            BY <1>7
               DEF ChildCalls, thread, db, locals, watchers, histories, Holding
        <2>2. \A i \in DOMAIN rows' :
                  (i \in DOMAIN rows /\ rows'[i] = rows[i]) \/ rows'[i].by = c
            BY <1>7, NewRow
        <2> SUFFICES ASSUME NEW d \in Calls, pc'[d] \in Holding,
                            NEW i \in DOMAIN rows',
                            rows'[i].session = anchor'[d].sid, i > anchor'[d].row
                     PROVE  rows'[i].by = d
            BY DEF AnchorHolds
        <2>3. d = c
            BY <2>1, SoleHolder
        <2> QED
            BY <2>1, <2>2, <2>3 DEF AnchorHolds
    <1>8. ASSUME NEW c \in Calls, ChildEnds(c) PROVE AnchorHolds'
        BY <1>8
           DEF AnchorHolds, Holding, TypeOK, ChildEnds, thread, db, locals,
               watchers, histories
    <1>9. ASSUME NEW c \in Calls, Adopt(c) PROVE AnchorHolds'
        BY <1>9
           DEF AnchorHolds, Holding, TypeOK, Adopt, thread, db, locals,
               watchers, histories
    <1>10. ASSUME NEW c \in Calls, AdoptPin(c) PROVE AnchorHolds'
        <2>1. rows' = rows /\ pc[c] \in Holding /\ pc'[c] \in Holding
            BY <1>10
               DEF AdoptPin, Holding, TypeOK, thread, db, locals, watchers,
                   histories
        <2>2. anchor'[c].sid = found[c]
            BY <1>10 DEF AdoptPin, TypeOK
        <2>3. \A i \in DOMAIN rows :
                  rows[i].session = found[c] => rows[i].by = c
            <3>1. found[c] > start[c]
                BY <1>10 DEF AdoptPin, AdoptsNew
            <3> QED
                BY <2>1, <3>1 DEF SinceStart
        <2>4. \A d \in Calls \ {c} : pc'[d] = pc[d] /\ anchor'[d] = anchor[d]
            BY <1>10 DEF AdoptPin, TypeOK
        <2> QED
            BY <2>1, <2>2, <2>3, <2>4 DEF AnchorHolds
    <1>11. ASSUME NEW c \in Calls, ToolRecap(c) PROVE AnchorHolds'
        BY <1>11
           DEF AnchorHolds, Holding, TypeOK, ToolRecap, thread, db, locals,
               watchers, histories
    <1>12. ASSUME NEW c \in Calls, Return(c) PROVE AnchorHolds'
        BY <1>12
           DEF AnchorHolds, Holding, TypeOK, Return, thread, db, locals,
               watchers, histories
    <1>13. ASSUME Restart PROVE AnchorHolds'
        BY <1>13
           DEF AnchorHolds, Holding, TypeOK, Restart, thread, db, locals,
               watchers, histories
    <1> QED
        BY <1>1, <1>2, <1>3, <1>4, <1>5, <1>6, <1>7, <1>8, <1>9, <1>10, <1>11,
           <1>12, <1>13
           DEF Next, ChatStep, ChildStep, WatcherStep, vars, thread, db,
               locals, watchers, histories, Seed, PollRows, FetchAndPush,
               WatcherEnds, NewName, DropPin, OthersOpen

-----------------------------------------------------------------------------
(* The turn that met no other and no /new                                  *)

\* Only Enter brings a call into flight.
LEMMA FlightBegins ==
    ASSUME TypeOK, Untouched, [Next]_vars, NEW d \in Calls, InFlight(d)'
    PROVE  InFlight(d) \/ Enter(d)
    <1>1. CASE UNCHANGED <<pc, watch>>
        BY <1>1 DEF InFlight
    <1>2. ASSUME NEW c \in Calls, ChatStep(c) PROVE InFlight(d) \/ Enter(d)
        BY <1>2 DEF ChatStep, Enter, PinThread, Build, TakeLock, Adopt,
                    AdoptPin, ToolRecap, Return, InFlight, TypeOK, watchers
    <1>3. ASSUME NEW c \in Calls, ChildStep(c) PROVE InFlight(d)
        BY <1>3 DEF ChildStep, ChildOpens, ChildCalls, ChildEnds, InFlight,
                    TypeOK, watchers
    <1>4. ASSUME NEW c \in Calls, WatcherStep(c) PROVE InFlight(d)
        BY <1>4 DEF WatcherStep, Seed, PollRows, FetchAndPush, WatcherEnds,
                    InFlight, TypeOK, Untouched, Early
    <1>5. ASSUME Restart PROVE ~InFlight(d)'
        BY <1>5 DEF Restart, InFlight, TypeOK
    <1> QED
        BY <1>1, <1>2, <1>3, <1>4, <1>5
           DEF Next, vars, watchers, NewName, DropPin, OthersOpen

\* While it is in flight no other call is, and the thread keeps its name.
Solo ==
    \A c \in Calls : alone[c] /\ InFlight(c) =>
        ~renaming /\ \A d \in Calls \ {c} : ~InFlight(d)

LEMMA KeepsSolo ==
    ASSUME TypeOK, Untouched, Solo, [Next]_vars
    PROVE  Solo'
    <1>1. ASSUME NEW c \in Calls, Enter(c) PROVE Solo'
        <2>1. UNCHANGED <<renaming, watch>> /\ pc[c] = "new"
            BY <1>1 DEF Enter, thread, watchers
        <2>2. \A d \in Calls \ {c} : InFlight(d)' <=> InFlight(d)
            BY <1>1, <2>1 DEF Enter, InFlight, TypeOK
        <2>3. \A d \in Calls \ {c} : alone'[d] <=> alone[d] /\ ~InFlight(d)
            BY <1>1 DEF Enter
        <2>4. alone'[c] => ~renaming /\ \A d \in Calls \ {c} : ~InFlight(d)
            BY <1>1 DEF Enter
        <2> QED
            BY <2>1, <2>2, <2>3, <2>4 DEF Solo
    <1>2. ASSUME NewName PROVE Solo'
        BY <1>2 DEF NewName, Solo, InFlight, watchers, TypeOK
    <1>3. CASE ~NewName /\ \A c \in Calls : ~Enter(c)
        <2>1. \A d \in Calls : InFlight(d)' => InFlight(d)
            BY <1>3, FlightBegins
        <2>2. alone' = alone /\ (renaming' => renaming)
            <3>1. ASSUME NEW c \in Calls, ChatStep(c)
                  PROVE  UNCHANGED <<alone, renaming>>
                BY <1>3, <3>1 DEF ChatStep, PinThread, Build, TakeLock, Adopt,
                                  AdoptPin, ToolRecap, Return, thread, histories
            <3>2. ASSUME NEW c \in Calls, ChildStep(c)
                  PROVE  UNCHANGED <<alone, renaming>>
                BY <3>2 DEF ChildStep, ChildOpens, ChildCalls, ChildEnds,
                            thread, histories
            <3>3. ASSUME NEW c \in Calls, WatcherStep(c)
                  PROVE  UNCHANGED <<alone, renaming>>
                BY <3>3 DEF WatcherStep, Seed, PollRows, FetchAndPush,
                            WatcherEnds, thread, histories
            <3>4. ASSUME DropPin \/ OthersOpen \/ Restart
                  PROVE  alone' = alone /\ (renaming' => renaming)
                BY <3>4 DEF DropPin, OthersOpen, Restart, thread, histories
            <3>5. CASE UNCHANGED vars
                BY <3>5 DEF vars, thread, histories
            <3> QED
                BY <1>3, <3>1, <3>2, <3>3, <3>4, <3>5 DEF Next
        <2> QED
            BY <2>1, <2>2 DEF Solo
    <1> QED
        BY <1>1, <1>2, <1>3

\* While such a call is in flight the steps are its own, but for sessions that
\* others open and watchers that end.
LEMMA AloneSteps ==
    ASSUME TypeOK, Untouched, Solo, [Next]_vars,
           NEW c \in Calls, alone'[c], InFlight(c)'
    PROVE  \/ Enter(c)
           \/ /\ alone[c] /\ InFlight(c) /\ ~renaming
              /\ \/ ChatStep(c) /\ ~Enter(c)
                 \/ ChildStep(c) \/ WatcherStep(c)
                 \/ OthersOpen \/ UNCHANGED vars
                 \/ \E d \in Calls : WatcherEnds(d)
    <1> SUFFICES ASSUME ~Enter(c) PROVE
              /\ alone[c] /\ InFlight(c) /\ ~renaming
              /\ \/ ChatStep(c) /\ ~Enter(c)
                 \/ ChildStep(c) \/ WatcherStep(c)
                 \/ OthersOpen \/ UNCHANGED vars
                 \/ \E d \in Calls : WatcherEnds(d)
        OBVIOUS
    <1>1. InFlight(c)
        BY FlightBegins
    <1>2. ASSUME NEW d \in Calls, Enter(d) PROVE FALSE
        BY <1>1, <1>2 DEF Enter
    <1>3. ~NewName
        BY <1>1 DEF NewName
    <1>4. ~Restart
        BY DEF Restart, InFlight, TypeOK
    <1>5. alone[c] = alone'[c]
        <2>1. ASSUME NEW d \in Calls, ChatStep(d) PROVE alone' = alone
            BY <1>2, <2>1 DEF ChatStep, PinThread, Build, TakeLock, Adopt,
                              AdoptPin, ToolRecap, Return, histories
        <2>2. ASSUME NEW d \in Calls, ChildStep(d) \/ WatcherStep(d)
              PROVE  alone' = alone
            BY <2>2 DEF ChildStep, ChildOpens, ChildCalls, ChildEnds,
                        WatcherStep, Seed, PollRows, FetchAndPush, WatcherEnds,
                        histories
        <2>3. ASSUME DropPin \/ OthersOpen PROVE alone' = alone
            BY <2>3 DEF DropPin, OthersOpen, histories
        <2>4. CASE UNCHANGED vars
            BY <2>4 DEF vars, histories
        <2> QED
            BY <1>3, <1>4, <2>1, <2>2, <2>3, <2>4 DEF Next
    <1>6. ~renaming /\ \A d \in Calls \ {c} : ~InFlight(d)
        BY <1>1, <1>5 DEF Solo
    <1>7. ~DropPin
        BY <1>6 DEF DropPin
    <1>8. ASSUME NEW d \in Calls \ {c}, ChatStep(d) \/ ChildStep(d) PROVE FALSE
        <2>1. pc[d] \notin {"new", "done"}
            BY <1>2, <1>8 DEF ChatStep, PinThread, Build, TakeLock, Adopt,
                              AdoptPin, ToolRecap, Return, ChildStep,
                              ChildOpens, ChildCalls, ChildEnds
        <2> QED
            BY <1>6, <2>1 DEF InFlight
    <1>9. ASSUME NEW d \in Calls \ {c}, WatcherStep(d) PROVE WatcherEnds(d)
        <2>1. ASSUME PollRows(d) PROVE FALSE
            BY <1>6, <2>1 DEF PollRows, InFlight, Untouched, Early
        <2>2. ASSUME Seed(d) \/ FetchAndPush(d) PROVE FALSE
            BY <1>6, <2>2 DEF Seed, FetchAndPush, InFlight
        <2> QED
            BY <1>9, <2>1, <2>2 DEF WatcherStep
    <1> QED
        BY <1>1, <1>3, <1>4, <1>5, <1>6, <1>7, <1>8, <1>9 DEF Next

\* What it has looked up is what the name stands for.
LooksUp(c) == pc[c] = "pin" => pin = 0 /\ found[c] = Titled(name)

\* Unless there is a pin, the sessions of the thread's name are its own.
NameIsOwn(c) ==
    InTurn(c) /\ pc[c] /= "pin" /\ pin = 0 =>
        \A i \in DOMAIN rows :
            sessions[rows[i].session].title = name => rows[i].by = c

\* Its anchor is of the session that is pinned.
AnchorsPin(c) == pc[c] \in Holding => anchor[c].sid = pin

\* Its command line names the session that the thread stands for.
CommandsPin(c) ==
    pc[c] \in Committed =>
        /\ cmd[c].way = "resume" => cmd[c].to = pin
        /\ cmd[c].way = "named" =>
              /\ pin = 0 /\ cmd[c].to = name
              /\ ran[c] /= 0 => Titled(name) = ran[c]

\* The rows its watcher has not seen are its own.
WatchesOwn(c) ==
    watch[c] \in {"poll", "fetch"} =>
        \A i \in DOMAIN rows :
            rows[i].session = wsid[c] /\ i > last[c] => rows[i].by = c

AloneOK ==
    \A c \in Calls : alone[c] /\ InFlight(c) =>
        /\ LooksUp(c) /\ NameIsOwn(c) /\ AnchorsPin(c)
        /\ CommandsPin(c) /\ WatchesOwn(c)

\* What a name stands for depends on the sessions of that name only.
LEMMA SameTitled ==
    ASSUME NEW n,
           \A s : s \in DOMAIN sessions' /\ sessions'[s].title = n
                  <=> s \in DOMAIN sessions /\ sessions[s].title = n
    PROVE  Titled(n)' = Titled(n)
    <1>1. {s \in DOMAIN sessions' : sessions'[s].title = n}
              = {s \in DOMAIN sessions : sessions[s].title = n}
        OBVIOUS
    <1> QED
        BY <1>1 DEF Titled

LEMMA KeepsLooksUp ==
    ASSUME TypeOK, Untouched, Solo, AloneOK, [Next]_vars, NEW c \in Calls,
           alone'[c], InFlight(c)'
    PROVE  LooksUp(c)'
    <1>1. CASE UNCHANGED <<pc, pin, found, name, sessions>> /\ LooksUp(c)
        BY <1>1 DEF LooksUp, Titled
    <1>2. CASE Enter(c)
        BY <1>2 DEF LooksUp, Titled, Enter, TypeOK, thread, db
    <1>3. CASE alone[c] /\ InFlight(c)
        <2>1. LooksUp(c)
            BY <1>3 DEF AloneOK
        <2>2. CASE PinThread(c)
            BY <2>1, <2>2
               DEF LooksUp, Titled, TypeOK, PinThread, thread, db, locals,
                   watchers, histories
        <2>3. CASE Build(c)
            BY <2>1, <2>3
               DEF LooksUp, Titled, TypeOK, Build, thread, db, locals,
                   watchers, histories
        <2>4. CASE TakeLock(c)
            BY <2>1, <2>4
               DEF LooksUp, Titled, TypeOK, TakeLock, thread, db, locals,
                   watchers, histories
        <2>5. CASE ChildOpens(c)
            BY <2>1, <2>5
               DEF LooksUp, Titled, TypeOK, ChildOpens, thread, db, locals,
                   watchers, histories
        <2>6. CASE ChildEnds(c)
            BY <2>1, <2>6
               DEF LooksUp, Titled, TypeOK, ChildEnds, thread, db, locals,
                   watchers, histories
        <2>7. CASE Adopt(c)
            BY <2>1, <2>7
               DEF LooksUp, Titled, TypeOK, Adopt, thread, db, locals,
                   watchers, histories
        <2>8. CASE AdoptPin(c)
            BY <2>1, <2>8
               DEF LooksUp, Titled, TypeOK, AdoptPin, thread, db, locals,
                   watchers, histories
        <2>9. CASE ToolRecap(c)
            BY <2>1, <2>9
               DEF LooksUp, Titled, TypeOK, ToolRecap, thread, db, locals,
                   watchers, histories
        <2>10. CASE Return(c)
            BY <2>1, <2>10
               DEF LooksUp, Titled, TypeOK, Return, thread, db, locals,
                   watchers, histories
        <2>11. CASE OthersOpen
            <3>1. UNCHANGED <<pc, pin, found, name>>
                BY <2>11
                   DEF OthersOpen, thread, db, locals, watchers, histories
            <3>2. Titled(name)' = Titled(name)
                <4>1. name /= 0
                    BY DEF TypeOK, Names
                <4>2. \A s :
                          s \in DOMAIN sessions' /\ sessions'[s].title = name
                             <=> s \in DOMAIN sessions /\ sessions[s].title = name
                    BY <2>11, <4>1, OthersStore
                <4> QED
                    BY <3>1, <4>2, SameTitled
            <3> QED
                BY <2>1, <3>1, <3>2 DEF LooksUp
        <2>12. CASE UNCHANGED <<pc, pin, found, name, sessions>>
            BY <1>1, <2>1, <2>12
        <2>13. CASE ChatStep(c) /\ ~Enter(c)
            BY <2>13, <2>2, <2>3, <2>4, <2>7, <2>8, <2>9, <2>10
               DEF ChatStep
        <2>14. CASE ChildStep(c)
            BY <2>14, <2>5, <2>6, <2>12
               DEF ChildStep, ChildCalls, thread, db, locals, watchers,
                   histories
        <2>15. CASE WatcherStep(c)
            BY <2>15, <2>12
               DEF WatcherStep, Seed, PollRows, FetchAndPush, WatcherEnds,
                   thread, db, locals, watchers, histories
        <2>16. CASE UNCHANGED vars \/ \E d \in Calls : WatcherEnds(d)
            BY <2>12, <2>16
               DEF vars, WatcherEnds, thread, db, locals, watchers, histories
        <2> QED
            BY <1>2, <1>3, <2>13, <2>14, <2>15, <2>16, <2>11, AloneSteps
    <1> QED
        BY <1>2, <1>3, AloneSteps

LEMMA KeepsNameIsOwn ==
    ASSUME TypeOK, Untouched, OneHolds, RefersKnown, SinceStart, AdoptsNew, Solo, AloneOK,
           [Next]_vars, NEW c \in Calls, alone'[c], InFlight(c)'
    PROVE  NameIsOwn(c)'
    <1>1. CASE UNCHANGED <<pc, pin, rows, sessions, name>> /\ NameIsOwn(c)
        BY <1>1 DEF NameIsOwn, InTurn
    <1>2. CASE Enter(c)
        BY <1>2 DEF NameIsOwn, Enter, TypeOK, InTurn, thread, db
    <1>3. CASE alone[c] /\ InFlight(c)
        <2>1. NameIsOwn(c)
            BY <1>3 DEF AloneOK
        <2>2. CASE PinThread(c)
            <3>1. UNCHANGED <<rows, sessions, name>>
                BY <2>2 DEF PinThread, thread, db
            <3>2. pin' = 0 => Titled(name) = 0
                BY <2>2, <1>3 DEF PinThread, AloneOK, LooksUp
            <3>3. Titled(name) = 0 => \A s \in DOMAIN sessions : sessions[s].title /= name
                BY Typed, TitledIs
            <3> QED
                BY <3>1, <3>2, <3>3 DEF NameIsOwn, RefersKnown, Known
        <2>3. CASE Build(c)
            BY <2>1, <2>3
               DEF NameIsOwn, InTurn, TypeOK, Build, thread, db, locals,
                   watchers, histories
        <2>4. CASE TakeLock(c)
            BY <2>1, <2>4
               DEF NameIsOwn, InTurn, TypeOK, TakeLock, thread, db, locals,
                   watchers, histories
        <2>5. CASE ChildOpens(c)
            <3>1. UNCHANGED <<pc, pin, name>>
                BY <2>5 DEF ChildOpens, thread, db, locals, watchers, histories
            <3>2. pc[c] = "run"
                BY <2>5 DEF ChildOpens
            <3>3. \A i \in DOMAIN rows' :
                      (i \in DOMAIN rows /\ rows'[i] = rows[i]) \/ rows'[i].by = c
                BY <2>5, NewRow
            <3>4. \A i \in DOMAIN rows :
                      sessions'[rows[i].session] = sessions[rows[i].session]
                BY <2>5, OpenedStore DEF RefersKnown, Known
            <3> QED
                BY <2>1, <3>1, <3>2, <3>3, <3>4 DEF NameIsOwn, InTurn
        <2>6. CASE ChildCalls(c)
            <3>1. UNCHANGED <<pc, pin, name, sessions>>
                BY <2>6 DEF ChildCalls, thread, db, locals, watchers, histories
            <3>2. \A i \in DOMAIN rows' :
                      (i \in DOMAIN rows /\ rows'[i] = rows[i]) \/ rows'[i].by = c
                BY <2>6, NewRow
            <3> QED
                BY <2>1, <3>1, <3>2 DEF NameIsOwn, InTurn
        <2>7. CASE ChildEnds(c)
            BY <2>1, <2>7
               DEF NameIsOwn, InTurn, TypeOK, ChildEnds, thread, db, locals,
                   watchers, histories
        <2>8. CASE Adopt(c)
            <3>1. UNCHANGED <<pin, name, rows>> /\ pc[c] = "adopt"
                BY <2>8 DEF Adopt, thread, db, locals, watchers, histories
            <3>2. CASE sessions' = sessions
                BY <2>1, <3>1, <3>2 DEF NameIsOwn, InTurn
            <3>3. CASE /\ found'[c] \in Candidates(c)
                       /\ sessions' = [sessions EXCEPT ![found'[c]].title = name]
                <4>1. \A i \in DOMAIN rows :
                          rows[i].session = found'[c] => rows[i].by = c
                    BY <3>1, <3>3 DEF SinceStart, Candidates, Holding
                <4>2. \A s \in DOMAIN sessions :
                          s /= found'[c] => sessions'[s] = sessions[s]
                    BY <3>3
                <4> QED
                    BY <2>1, <3>1, <4>1, <4>2
                       DEF NameIsOwn, InTurn, RefersKnown, Known
            <3> QED
                BY <2>8, <3>2, <3>3, AdoptedStore
        <2>9. CASE AdoptPin(c)
            <3>1. pin' /= 0
                <4>1. pin' = found[c] /\ pc[c] = "adopted"
                    BY <2>9 DEF AdoptPin
                <4>2. found[c] > start[c]
                    BY <4>1 DEF AdoptsNew
                <4> QED
                    BY <4>1, <4>2 DEF TypeOK, Ids
            <3> QED
                BY <3>1 DEF NameIsOwn
        <2>10. CASE ToolRecap(c)
            BY <2>1, <2>10
               DEF NameIsOwn, InTurn, TypeOK, ToolRecap, thread, db, locals,
                   watchers, histories
        <2>11. CASE Return(c)
            BY <2>1, <2>11
               DEF NameIsOwn, InTurn, TypeOK, Return, thread, db, locals,
                   watchers, histories
        <2>12. CASE OthersOpen
            <3>1. UNCHANGED <<pc, pin, name, rows>>
                BY <2>12
                   DEF OthersOpen, thread, db, locals, watchers, histories
            <3>2. \A i \in DOMAIN rows :
                      sessions'[rows[i].session] = sessions[rows[i].session]
                BY <2>12, OthersStore DEF RefersKnown, Known
            <3> QED
                BY <2>1, <3>1, <3>2 DEF NameIsOwn, InTurn
        <2>13. CASE UNCHANGED <<pc, pin, rows, sessions, name>>
            BY <1>1, <2>1, <2>13
        <2>14. CASE ChatStep(c) /\ ~Enter(c)
            BY <2>14, <2>2, <2>3, <2>4, <2>8, <2>9, <2>10, <2>11
               DEF ChatStep
        <2>15. CASE ChildStep(c)
            BY <2>15, <2>5, <2>6, <2>7
               DEF ChildStep
        <2>16. CASE WatcherStep(c)
            BY <2>16, <2>13
               DEF WatcherStep, Seed, PollRows, FetchAndPush, WatcherEnds,
                   thread, db, locals, watchers, histories
        <2>17. CASE UNCHANGED vars \/ \E d \in Calls : WatcherEnds(d)
            BY <2>13, <2>17
               DEF vars, WatcherEnds, thread, db, locals, watchers, histories
        <2> QED
            BY <1>2, <1>3, <2>14, <2>15, <2>16, <2>17, <2>12, AloneSteps
    <1> QED
        BY <1>2, <1>3, AloneSteps

LEMMA KeepsAnchorsPin ==
    ASSUME TypeOK, Untouched, OneHolds, Solo, AloneOK, [Next]_vars,
           NEW c \in Calls, alone'[c], InFlight(c)'
    PROVE  AnchorsPin(c)'
    <1>1. CASE UNCHANGED <<pc, anchor, pin>> /\ AnchorsPin(c)
        BY <1>1 DEF AnchorsPin
    <1>2. CASE Enter(c)
        BY <1>2 DEF AnchorsPin, Enter, TypeOK, Holding
    <1>3. CASE alone[c] /\ InFlight(c)
        <2>1. AnchorsPin(c)
            BY <1>3 DEF AloneOK
        <2>2. CASE PinThread(c)
            BY <2>2 DEF AnchorsPin, PinThread, TypeOK, Holding
        <2>3. CASE Build(c)
            BY <2>3 DEF AnchorsPin, Build, TypeOK, Holding
        <2>4. CASE TakeLock(c)
            BY <2>4
               DEF AnchorsPin, TakeLock, TurnAnchor, NoAnchor, TypeOK, thread
        <2>5. CASE ChildEnds(c)
            BY <2>1, <2>5
               DEF AnchorsPin, ChildEnds, TypeOK, Holding, thread, locals
        <2>6. CASE Adopt(c)
            BY <2>1, <2>6
               DEF AnchorsPin, Adopt, TypeOK, Holding, thread, locals
        <2>7. CASE AdoptPin(c)
            BY <2>1, <2>7
               DEF AnchorsPin, TypeOK, AdoptPin, thread, db, locals, watchers,
                   histories
        <2>8. CASE ToolRecap(c)
            BY <2>8 DEF AnchorsPin, ToolRecap, TypeOK, Holding
        <2>9. CASE Return(c)
            BY <2>9 DEF AnchorsPin, Return, TypeOK, Holding
        <2>10. CASE UNCHANGED <<pc, anchor, pin>>
            BY <1>1, <2>1, <2>10
        <2>11. CASE ChatStep(c) /\ ~Enter(c)
            BY <2>11, <2>2, <2>3, <2>4, <2>6, <2>7, <2>8, <2>9
               DEF ChatStep
        <2>12. CASE ChildStep(c)
            BY <2>12, <2>5, <2>10
               DEF ChildStep, ChildOpens, ChildCalls, thread, db, locals,
                   watchers, histories
        <2>13. CASE WatcherStep(c)
            BY <2>13, <2>10
               DEF WatcherStep, Seed, PollRows, FetchAndPush, WatcherEnds,
                   thread, db, locals, watchers, histories
        <2>14. CASE OthersOpen \/ UNCHANGED vars \/ \E d \in Calls : WatcherEnds(d)
            BY <2>10, <2>14
               DEF vars, WatcherEnds, OthersOpen, thread, db, locals, watchers,
                   histories
        <2> QED
            BY <1>2, <1>3, <2>11, <2>12, <2>13, <2>14, AloneSteps
    <1> QED
        BY <1>2, <1>3, AloneSteps

LEMMA KeepsCommandsPin ==
    ASSUME TypeOK, Untouched, RefersKnown, Solo, AloneOK, [Next]_vars,
           NEW c \in Calls, alone'[c], InFlight(c)'
    PROVE  CommandsPin(c)'
    <1>1. CASE UNCHANGED <<pc, cmd, pin, name, ran, sessions>> /\ CommandsPin(c)
        BY <1>1 DEF CommandsPin, Titled
    <1>2. CASE Enter(c)
        BY <1>2 DEF CommandsPin, Enter, TypeOK, Committed, Holding
    <1>3. CASE alone[c] /\ InFlight(c)
        <2>1. CommandsPin(c)
            BY <1>3 DEF AloneOK
        <2>2. CASE PinThread(c)
            BY <2>2 DEF CommandsPin, PinThread, TypeOK, Committed, Holding
        <2>3. CASE Build(c)
            <3>1. UNCHANGED <<pin, name, ran>> /\ ran[c] = 0
                BY <2>3
                   DEF Build, thread, db, locals, watchers, histories,
                       Untouched, Early
            <3>2. /\ cmd'[c].way = "resume" => pin /= 0 /\ cmd'[c].to = pin
                  /\ cmd'[c].way = "named" => pin = 0 /\ cmd'[c].to = name
                BY <2>3 DEF Build, TypeOK
            <3> QED
                BY <3>1, <3>2 DEF CommandsPin
        <2>4. CASE TakeLock(c)
            BY <2>1, <2>4
               DEF CommandsPin, Titled, TakeLock, Committed, TypeOK, thread,
                   db, locals, watchers, histories
        <2>5. CASE ChildOpens(c)
            <3>1. /\ UNCHANGED <<pc, cmd, pin, name>>
                  /\ ran[c] = 0 /\ pc[c] = "run"
                BY <2>5 DEF ChildOpens, thread, db, locals, watchers, histories
            <3>2. ASSUME cmd[c].way = "named" PROVE Titled(name)' = ran'[c]
                <4>1. cmd[c].to = name /\ Told(c) = Titled(name)
                    BY <2>1, <3>1, <3>2, ToldIs
                       DEF CommandsPin, Committed, Holding
                <4>2. CASE Told(c) /= 0
                    BY <2>5, <3>1, <4>1, <4>2, OpensIs DEF Titled
                <4>3. CASE Told(c) = 0
                    <5>1. \A s \in DOMAIN sessions : sessions[s].title /= name
                        BY <4>1, <4>3, Typed, TitledIs
                    <5>2. /\ ran'[c] \in DOMAIN sessions'
                          /\ sessions'[ran'[c]].title = name
                        <6>1. ran'[c] = Len(sessions) + 1 /\ ran'[c] \in DOMAIN sessions'
                            <7>1. Len(sessions) + 1 /= 0
                                BY Typed DEF StoreTyped
                            <7> QED
                                BY <2>5, <4>3, <7>1, OpensIs, OpenedStore
                        <6>2. ran'[c] \notin DOMAIN sessions
                            BY <6>1, Typed DEF StoreTyped
                        <6>3. sessions'[ran'[c]] = NewSession(c)
                            BY <2>5, <6>1, <6>2, OpenedStore
                        <6> QED
                            BY <3>2, <4>1, <6>1, <6>3 DEF NewSession
                    <5>3. \A s \in DOMAIN sessions' :
                              sessions'[s].title = name => s = ran'[c]
                        BY <2>5, <5>1, OpenedStore
                    <5>4. sessions' \in Seq(Sessions) /\ Len(sessions') <= MaxSessions
                        BY <2>5, ChildOpensTypes DEF TypeOK
                    <5>5. Titled(name)' = TitledIn(sessions', name)
                        BY <3>1 DEF Titled, TitledIn
                    <5>6. /\ Titled(name)' \in DOMAIN sessions'
                          /\ sessions'[Titled(name)'].title = name
                        BY <5>2, <5>4, <5>5, TitledInIs
                    <5> QED
                        BY <5>3, <5>6
                <4> QED
                    BY <4>2, <4>3
            <3> QED
                BY <2>1, <3>1, <3>2 DEF CommandsPin, Committed, Holding
        <2>6. CASE ChildEnds(c)
            BY <2>1, <2>6
               DEF CommandsPin, Titled, ChildEnds, Committed, Holding, TypeOK,
                   thread, db, locals, watchers, histories
        <2>7. CASE Adopt(c)
            <3>1. cmd[c].way = "fresh" /\ cmd' = cmd
                BY <2>7 DEF Adopt, Untouched, locals
            <3> QED
                BY <3>1 DEF CommandsPin
        <2>8. CASE AdoptPin(c)
            <3>1. cmd[c].way = "fresh" /\ cmd' = cmd
                BY <2>8 DEF AdoptPin, Untouched, locals
            <3> QED
                BY <3>1 DEF CommandsPin
        <2>9. CASE ToolRecap(c)
            BY <2>9 DEF CommandsPin, ToolRecap, TypeOK, Committed, Holding
        <2>10. CASE Return(c)
            BY <2>10 DEF CommandsPin, Return, TypeOK, Committed, Holding
        <2>11. CASE OthersOpen
            <3>1. UNCHANGED <<pc, pin, cmd, ran, name>>
                BY <2>11
                   DEF OthersOpen, thread, db, locals, watchers, histories
            <3>2. Titled(name)' = Titled(name)
                <4>1. name /= 0
                    BY DEF TypeOK, Names
                <4>2. \A s :
                          s \in DOMAIN sessions' /\ sessions'[s].title = name
                             <=> s \in DOMAIN sessions /\ sessions[s].title = name
                    BY <2>11, <4>1, OthersStore
                <4> QED
                    BY <3>1, <4>2, SameTitled
            <3> QED
                BY <2>1, <3>1, <3>2 DEF CommandsPin
        <2>12. CASE UNCHANGED <<pc, cmd, pin, name, ran, sessions>>
            BY <1>1, <2>1, <2>12
        <2>13. CASE ChatStep(c) /\ ~Enter(c)
            BY <2>13, <2>2, <2>3, <2>4, <2>7, <2>8, <2>9, <2>10
               DEF ChatStep
        <2>14. CASE ChildStep(c)
            BY <2>14, <2>5, <2>6, <2>12
               DEF ChildStep, ChildCalls, thread, db, locals, watchers,
                   histories
        <2>15. CASE WatcherStep(c)
            BY <2>15, <2>12
               DEF WatcherStep, Seed, PollRows, FetchAndPush, WatcherEnds,
                   thread, db, locals, watchers, histories
        <2>16. CASE UNCHANGED vars \/ \E d \in Calls : WatcherEnds(d)
            BY <2>12, <2>16
               DEF vars, WatcherEnds, thread, db, locals, watchers, histories
        <2> QED
            BY <1>2, <1>3, <2>13, <2>14, <2>15, <2>16, <2>11, AloneSteps
    <1> QED
        BY <1>2, <1>3, AloneSteps

LEMMA KeepsWatchesOwn ==
    ASSUME TypeOK, Untouched, RowsKnown, Solo, AloneOK, [Next]_vars,
           NEW c \in Calls, alone'[c], InFlight(c)'
    PROVE  WatchesOwn(c)'
    <1>1. CASE UNCHANGED <<watch, rows, wsid, last>> /\ WatchesOwn(c)
        BY <1>1 DEF WatchesOwn
    <1>2. CASE Enter(c)
        BY <1>2 DEF WatchesOwn, Enter, Untouched, Early, watchers
    <1>3. CASE alone[c] /\ InFlight(c)
        <2>1. WatchesOwn(c)
            BY <1>3 DEF AloneOK
        <2>2. CASE Build(c)
            BY <2>2 DEF WatchesOwn, Build, Untouched, Early, TypeOK
        <2>3. CASE ChildOpens(c)
            <3>1. UNCHANGED <<watch, wsid, last>>
                BY <2>3 DEF ChildOpens, watchers
            <3>2. \A i \in DOMAIN rows' :
                      (i \in DOMAIN rows /\ rows'[i] = rows[i]) \/ rows'[i].by = c
                BY <2>3, NewRow
            <3> QED
                BY <2>1, <3>1, <3>2 DEF WatchesOwn
        <2>4. CASE ChildCalls(c)
            <3>1. UNCHANGED <<watch, wsid, last>>
                BY <2>4 DEF ChildCalls, watchers
            <3>2. \A i \in DOMAIN rows' :
                      (i \in DOMAIN rows /\ rows'[i] = rows[i]) \/ rows'[i].by = c
                BY <2>4, NewRow
            <3> QED
                BY <2>1, <3>1, <3>2 DEF WatchesOwn
        <2>5. CASE Seed(c)
            <3>1. UNCHANGED <<rows, wsid>> /\ last'[c] = MaxRow(wsid[c])
                BY <2>5 DEF Seed, TypeOK, db
            <3>2. ASSUME NEW i \in DOMAIN rows, rows[i].session = wsid[c]
                  PROVE  ~(i > MaxRow(wsid[c]))
                <4>1. i <= MaxRow(wsid[c]) /\ MaxRow(wsid[c]) \in 0..Len(rows)
                    BY <3>2, Typed, MaxRowIs
                <4>2. i \in Nat
                    BY Typed DEF StoreTyped
                <4> QED
                    BY <4>1, <4>2
            <3> QED
                BY <3>1, <3>2 DEF WatchesOwn
        <2>6. CASE PollRows(c)
            BY <2>1, <2>6 DEF WatchesOwn, PollRows, TypeOK, db
        <2>7. CASE FetchAndPush(c)
            <3>1. UNCHANGED <<rows, wsid>> /\ last'[c] = seen[c]
                BY <2>7 DEF FetchAndPush, TypeOK, db
            <3>2. seen[c] > last[c] /\ seen[c] \in Nat /\ last[c] \in Nat
                BY <2>7 DEF FetchAndPush, RowsKnown, TypeOK, RowIds
            <3>3. \A i \in DOMAIN rows : i > seen[c] => i > last[c]
                <4>1. \A i \in DOMAIN rows : i \in Nat
                    BY Typed DEF StoreTyped
                <4> QED
                    BY <3>2, <4>1
            <3> QED
                BY <2>1, <2>7, <3>1, <3>3 DEF WatchesOwn, FetchAndPush
        <2>8. CASE WatcherEnds(c)
            BY <2>8 DEF WatchesOwn, WatcherEnds, TypeOK
        <2>9. CASE UNCHANGED <<watch, rows, wsid, last>>
            BY <1>1, <2>1, <2>9
        <2>10. CASE ChatStep(c) /\ ~Enter(c)
            BY <2>10, <2>2, <2>9
               DEF ChatStep, PinThread, TakeLock, Adopt, AdoptPin, ToolRecap,
                   Return, thread, db, locals, watchers, histories
        <2>11. CASE ChildStep(c)
            BY <2>11, <2>3, <2>4, <2>9
               DEF ChildStep, ChildEnds, thread, db, locals, watchers,
                   histories
        <2>12. CASE WatcherStep(c)
            BY <2>12, <2>5, <2>6, <2>7, <2>8
               DEF WatcherStep
        <2>13. CASE OthersOpen \/ UNCHANGED vars \/ \E d \in Calls : WatcherEnds(d)
            BY <2>1, <2>13
               DEF WatchesOwn, TypeOK, vars, WatcherEnds, OthersOpen,
                       thread, db, locals, watchers, histories
        <2> QED
            BY <1>2, <1>3, <2>10, <2>11, <2>12, <2>13, AloneSteps
    <1> QED
        BY <1>2, <1>3, AloneSteps

LEMMA KeepsAloneOK ==
    ASSUME TypeOK, OneHolds, Untouched, RefersKnown, RowsKnown, SinceStart,
           AdoptsNew, Solo, AloneOK, [Next]_vars
    PROVE  AloneOK'
    <1>1. ASSUME NEW c \in Calls, alone'[c], InFlight(c)'
          PROVE  /\ LooksUp(c)' /\ NameIsOwn(c)' /\ AnchorsPin(c)'
                 /\ CommandsPin(c)' /\ WatchesOwn(c)'
        BY <1>1, KeepsLooksUp, KeepsNameIsOwn, KeepsAnchorsPin,
           KeepsCommandsPin, KeepsWatchesOwn
    <1> QED
        BY <1>1 DEF AloneOK

-----------------------------------------------------------------------------
(* What recaps and watchers show                                           *)

LEMMA KeepsRecapIsOwn ==
    ASSUME TypeOK, Untouched, OursMarked, RefersKnown, RowsKnown, AnchorHolds,
           AloneOK, RecapIsOwn, [Next]_vars
    PROVE  RecapIsOwn'
    <1>1. CASE UNCHANGED <<recap, rows, anchor, alone>>
        BY <1>1 DEF RecapIsOwn
    <1>2. ASSUME NEW c \in Calls, Enter(c) PROVE RecapIsOwn'
        <2>1. UNCHANGED <<recap, rows, anchor>> /\ recap[c] = {}
            BY <1>2
               DEF Enter, Untouched, Early, thread, db, locals, watchers,
                   histories
        <2>2. \A d \in Calls \ {c} : alone'[d] => alone[d]
            BY <1>2 DEF Enter
        <2> QED
            BY <2>1, <2>2 DEF RecapIsOwn
    <1>3. ASSUME NEW c \in Calls, TakeLock(c) PROVE RecapIsOwn'
        <2>1. UNCHANGED <<recap, rows, alone>> /\ recap[c] = {}
            BY <1>3
               DEF TakeLock, Untouched, Committed, Holding, thread, db, locals,
                   watchers, histories
        <2>2. \A d \in Calls \ {c} : anchor'[d] = anchor[d]
            BY <1>3 DEF TakeLock, TypeOK
        <2> QED
            BY <2>1, <2>2 DEF RecapIsOwn
    <1>4. ASSUME NEW c \in Calls, ChildOpens(c) PROVE RecapIsOwn'
        <2>1. UNCHANGED <<recap, anchor, alone>>
            BY <1>4 DEF ChildOpens, thread, db, locals, watchers, histories
        <2>2. StoreGrowth
            BY StoreGrows
        <2> QED
            BY <2>1, <2>2 DEF RecapIsOwn, RowsKnown, StoreGrowth
    <1>5. ASSUME NEW c \in Calls, ChildCalls(c) PROVE RecapIsOwn'
        <2>1. UNCHANGED <<recap, anchor, alone>>
            BY <1>5 DEF ChildCalls, thread, db, locals, watchers, histories
        <2>2. StoreGrowth
            BY StoreGrows
        <2> QED
            BY <2>1, <2>2 DEF RecapIsOwn, RowsKnown, StoreGrowth
    <1>6. ASSUME NEW c \in Calls, AdoptPin(c) PROVE RecapIsOwn'
        <2>1. UNCHANGED <<recap, rows, alone>> /\ recap[c] = {}
            BY <1>6
               DEF AdoptPin, Untouched, Committed, Holding, thread, db, locals,
                   watchers, histories
        <2>2. \A d \in Calls \ {c} : anchor'[d] = anchor[d]
            BY <1>6 DEF AdoptPin, TypeOK
        <2> QED
            BY <2>1, <2>2 DEF RecapIsOwn
    <1>7. ASSUME NEW c \in Calls, ToolRecap(c) PROVE RecapIsOwn'
        <2> DEFINE sid == IF pin /= 0 THEN pin ELSE Titled(name)
                   from == IF anchor[c].sid = sid THEN anchor[c].row ELSE 0
        <2>1. UNCHANGED <<rows, anchor, alone>> /\ pc[c] \in Holding
            BY <1>7
               DEF ToolRecap, Holding, thread, db, locals, watchers, histories
        <2>2. \/ recap' = [recap EXCEPT ![c] = ToolRowsAfter(sid, from)]
              \/ recap' = recap
            BY <1>7 DEF ToolRecap
        <2>3. ASSUME NEW i \in ToolRowsAfter(sid, from),
                     rows[i].session = anchor[c].sid
              PROVE  rows[i].by = c
            <3>1. i \in DOMAIN rows /\ rows[i].session = sid /\ i > from
                BY DEF ToolRowsAfter, RowsOf
            <3>2. i > anchor[c].row
                BY <2>3, <3>1
            <3> QED
                BY <2>1, <2>3, <3>1, <3>2 DEF AnchorHolds
        <2>4. ASSUME NEW i \in ToolRowsAfter(sid, from), alone[c]
              PROVE  rows[i].by = c
            <3>1. i \in DOMAIN rows /\ rows[i].session = sid
                BY DEF ToolRowsAfter, RowsOf
            <3>2. AnchorsPin(c) /\ NameIsOwn(c) /\ InTurn(c) /\ pc[c] /= "pin"
                BY <1>7, <2>4 DEF AloneOK, InFlight, InTurn, ToolRecap
            <3>3. CASE pin /= 0
                <4>1. rows[i].session = anchor[c].sid
                    BY <2>1, <3>1, <3>2, <3>3 DEF AnchorsPin
                <4> QED
                    BY <2>3, <4>1
            <3>4. CASE pin = 0
                <4>1. sid = Titled(name) /\ sid /= 0
                    <5>1. rows[i].session \in DOMAIN sessions
                        BY <3>1 DEF RefersKnown, Known
                    <5>2. 0 \notin DOMAIN sessions
                        BY Typed DEF StoreTyped
                    <5> QED
                        BY <3>1, <3>4, <5>1, <5>2
                <4>2. sessions[Titled(name)].title = name
                    BY <4>1, Typed, TitledIs
                <4> QED
                    BY <3>1, <3>2, <3>4, <4>1, <4>2 DEF NameIsOwn
            <3> QED
                BY <3>3, <3>4
        <2> HIDE DEF sid, from
        <2>5. ASSUME NEW d \in Calls, NEW i \in recap'[d],
                     rows[i].session = anchor[d].sid \/ alone[d]
              PROVE  rows[i].by = d
            <3>1. \/ i \in recap[d]
                  \/ d = c /\ i \in ToolRowsAfter(sid, from)
                BY <2>2, <2>5 DEF TypeOK
            <3> QED
                BY <2>3, <2>4, <2>5, <3>1 DEF RecapIsOwn
        <2> QED
            BY <2>1, <2>5 DEF RecapIsOwn
    <1>8. ASSUME NewName PROVE RecapIsOwn'
        BY <1>8
           DEF RecapIsOwn, NewName, thread, db, locals, watchers, histories
    <1> QED
        BY <1>1, <1>2, <1>3, <1>4, <1>5, <1>6, <1>7, <1>8
           DEF Next, ChatStep, ChildStep, WatcherStep, vars, thread, db,
               locals, watchers, histories, PinThread, Build, ChildEnds, Adopt,
               Return, Seed, PollRows, FetchAndPush, WatcherEnds, DropPin,
               OthersOpen, Restart

LEMMA KeepsWatchedIsOwn ==
    ASSUME TypeOK, Untouched, RowsKnown, AloneOK, WatchedIsOwn, [Next]_vars
    PROVE  WatchedIsOwn'
    <1>1. CASE UNCHANGED <<rows, pushed, alone>>
        BY <1>1 DEF WatchedIsOwn
    <1>2. ASSUME NEW c \in Calls, Enter(c) PROVE WatchedIsOwn'
        <2>1. /\ UNCHANGED <<rows, pushed>>
              /\ \A i \in 1..MaxRows : pushed[c][i] = 0
            BY <1>2
               DEF Enter, Untouched, Early, thread, db, locals, watchers,
                   histories
        <2>2. \A d \in Calls \ {c} : alone'[d] => alone[d]
            BY <1>2 DEF Enter
        <2> QED
            BY <2>1, <2>2 DEF WatchedIsOwn
    <1>3. ASSUME NEW c \in Calls, ChildOpens(c) PROVE WatchedIsOwn'
        <2>1. UNCHANGED <<pushed, alone>>
            BY <1>3 DEF ChildOpens, thread, db, locals, watchers, histories
        <2>2. StoreGrowth
            BY StoreGrows
        <2> QED
            BY <2>1, <2>2 DEF WatchedIsOwn, RowsKnown, StoreGrowth
    <1>4. ASSUME NEW c \in Calls, ChildCalls(c) PROVE WatchedIsOwn'
        <2>1. UNCHANGED <<pushed, alone>>
            BY <1>4 DEF ChildCalls, thread, db, locals, watchers, histories
        <2>2. StoreGrowth
            BY StoreGrows
        <2> QED
            BY <2>1, <2>2 DEF WatchedIsOwn, RowsKnown, StoreGrowth
    <1>5. ASSUME NEW c \in Calls, FetchAndPush(c) PROVE WatchedIsOwn'
        <2>1. UNCHANGED <<rows, alone>> /\ watch[c] = "fetch"
            BY <1>5 DEF FetchAndPush, thread, db, locals, watchers, histories
        <2>2. \A d \in Calls : d /= c => pushed'[d] = pushed[d]
            BY <1>5 DEF FetchAndPush, TypeOK
        <2>3. ASSUME NEW i \in 1..MaxRows, pushed'[c][i] > 0, alone[c]
              PROVE  rows[i].by = c
            <3>1. i \in ToolRowsAfter(wsid[c], last[c]) \/ pushed'[c][i] = pushed[c][i]
                BY <1>5 DEF FetchAndPush, TypeOK
            <3>2. ASSUME i \in ToolRowsAfter(wsid[c], last[c])
                  PROVE  rows[i].by = c
                <4>1. /\ i \in DOMAIN rows /\ rows[i].session = wsid[c] /\ i > last[c]
                    BY <3>2 DEF ToolRowsAfter, RowsOf
                <4>2. WatchesOwn(c)
                    BY <2>1, <2>3 DEF AloneOK, InFlight
                <4> QED
                    BY <2>1, <4>1, <4>2 DEF WatchesOwn
            <3> QED
                BY <2>3, <3>1, <3>2 DEF WatchedIsOwn
        <2> QED
            BY <2>1, <2>2, <2>3 DEF WatchedIsOwn
    <1>6. ASSUME NewName PROVE WatchedIsOwn'
        BY <1>6
           DEF WatchedIsOwn, NewName, thread, db, locals, watchers, histories
    <1> QED
        BY <1>1, <1>2, <1>3, <1>4, <1>5, <1>6
           DEF Next, ChatStep, ChildStep, WatcherStep, vars, thread, db,
               locals, watchers, histories, PinThread, Build, TakeLock,
               ChildEnds, Adopt, AdoptPin, ToolRecap, Return, Seed, PollRows,
               WatcherEnds, DropPin, OthersOpen, Restart

LEMMA CommandIs ==
    ASSUME NEW x \in Commands
    PROVE  /\ x.way \in {"resume", "named", "fresh"} /\ x.to \in Nat
           /\ x.way = "resume" => x.to \in Nat \ {0}
    <1>1. CASE x \in [way : {"resume"}, to : Ids \ {0}]
        BY <1>1 DEF Ids
    <1>2. CASE x \in [way : {"named"}, to : Names]
        BY <1>2 DEF Names
    <1>3. CASE x \in [way : {"fresh"}, to : {0}]
        BY <1>3
    <1> QED
        BY <1>1, <1>2, <1>3 DEF Commands

-----------------------------------------------------------------------------
(* What /new leaves behind                                                 *)

\* No title is of a name the thread has not had yet.
NamesKnown ==
    /\ name <= named
    /\ \A s \in DOMAIN sessions : sessions[s].title <= named
    /\ \A c \in Calls : pc[c] \in Committed /\ cmd[c].way = "named" =>
          cmd[c].to <= named

LEMMA KeepsNamesKnown ==
    ASSUME TypeOK, NamesKnown, [Next]_vars
    PROVE  NamesKnown'
    <1>1. CASE UNCHANGED <<name, named, sessions, pc, cmd>>
        BY <1>1 DEF NamesKnown, Committed, Holding
    <1>2. ASSUME NEW c \in Calls, Enter(c) PROVE NamesKnown'
        BY <1>2
           DEF NamesKnown, Committed, Holding, TypeOK, Enter, thread, db,
               locals, watchers, histories
    <1>3. ASSUME NEW c \in Calls, PinThread(c) PROVE NamesKnown'
        BY <1>3
           DEF NamesKnown, Committed, Holding, TypeOK, PinThread, thread, db,
               locals, watchers, histories
    <1>4. ASSUME NEW c \in Calls, Build(c) PROVE NamesKnown'
        BY <1>4
           DEF NamesKnown, Committed, Holding, TypeOK, Build, thread, db,
               locals, watchers, histories
    <1>5. ASSUME NEW c \in Calls, TakeLock(c) PROVE NamesKnown'
        BY <1>5
           DEF NamesKnown, Committed, Holding, TypeOK, TakeLock, thread, db,
               locals, watchers, histories
    <1>6. ASSUME NEW c \in Calls, ChildOpens(c) PROVE NamesKnown'
        <2>1. UNCHANGED <<name, named, cmd>>
            BY <1>6 DEF ChildOpens, thread, db, locals, watchers, histories
        <2>2. \A d \in Calls : pc'[d] \in Committed => pc[d] \in Committed
            BY <1>6
               DEF ChildOpens, Committed, Holding, TypeOK, thread, db, locals,
                   watchers, histories
        <2>3. name \in Nat /\ named \in Nat
            BY DEF TypeOK, Names
        <2>4. \A s \in DOMAIN sessions' : sessions'[s].title <= named
            <3>1. ASSUME Told(c) = 0 PROVE NewSession(c).title <= named
                <4>1. CASE cmd[c].way = "named"
                    <5>1. pc[c] \in Committed
                        BY <1>6 DEF ChildOpens, Committed, Holding
                    <5> QED
                        BY <4>1, <5>1 DEF NamesKnown, NewSession
                <4>2. CASE cmd[c].way /= "named"
                    BY <2>3, <4>2 DEF NewSession
                <4> QED
                    BY <4>1, <4>2
            <3> QED
                BY <1>6, <3>1, OpenedStore DEF NamesKnown
        <2> QED
            BY <2>1, <2>2, <2>4 DEF NamesKnown
    <1>7. ASSUME NEW c \in Calls, ChildEnds(c) PROVE NamesKnown'
        BY <1>7
           DEF NamesKnown, Committed, Holding, TypeOK, ChildEnds, thread, db,
               locals, watchers, histories
    <1>8. ASSUME NEW c \in Calls, Adopt(c) PROVE NamesKnown'
        <2>1. UNCHANGED <<name, named, cmd>>
            BY <1>8 DEF Adopt, thread, db, locals, watchers, histories
        <2>2. \A d \in Calls : pc'[d] \in Committed => pc[d] \in Committed
            BY <1>8
               DEF Adopt, Committed, Holding, TypeOK, thread, db, locals,
                   watchers, histories
        <2>3. name \in Nat /\ named \in Nat
            BY DEF TypeOK, Names
        <2>4. \A s \in DOMAIN sessions' : sessions'[s].title <= named
            <3>1. CASE sessions' = sessions
                BY <3>1 DEF NamesKnown
            <3>2. CASE /\ found'[c] \in Candidates(c)
                       /\ sessions' = [sessions EXCEPT ![found'[c]].title = name]
                <4>1. \A s \in DOMAIN sessions : sessions[s] \in Sessions
                    BY Typed DEF StoreTyped
                <4> QED
                    BY <3>2, <4>1 DEF NamesKnown, Candidates, Sessions
            <3> QED
                BY <1>8, <3>1, <3>2, AdoptedStore
        <2> QED
            BY <2>1, <2>2, <2>4 DEF NamesKnown
    <1>9. ASSUME NEW c \in Calls, AdoptPin(c) PROVE NamesKnown'
        BY <1>9
           DEF NamesKnown, Committed, Holding, TypeOK, AdoptPin, thread, db,
               locals, watchers, histories
    <1>10. ASSUME NEW c \in Calls, ToolRecap(c) PROVE NamesKnown'
        BY <1>10
           DEF NamesKnown, Committed, Holding, TypeOK, ToolRecap, thread, db,
               locals, watchers, histories
    <1>11. ASSUME NEW c \in Calls, Return(c) PROVE NamesKnown'
        BY <1>11
           DEF NamesKnown, Committed, Holding, TypeOK, Return, thread, db,
               locals, watchers, histories
    <1>12. ASSUME NewName PROVE NamesKnown'
        <2>1. name' = named + 1 /\ named' = named + 1 /\ UNCHANGED <<sessions, pc, cmd>>
            BY <1>12 DEF NewName, thread, db, locals, watchers, histories
        <2>2. /\ named \in Nat
              /\ \A s \in DOMAIN sessions : sessions[s].title \in Nat
            <3>1. \A s \in DOMAIN sessions : sessions[s] \in Sessions
                BY Typed DEF StoreTyped
            <3> QED
                BY <3>1 DEF TypeOK, Sessions, Names
        <2>3. \A d \in Calls : cmd[d].to \in Nat
            BY CommandIs DEF TypeOK
        <2> QED
            BY <2>1, <2>2, <2>3 DEF NamesKnown
    <1>13. ASSUME OthersOpen PROVE NamesKnown'
        <2>1. UNCHANGED <<name, named, cmd>>
            BY <1>13 DEF OthersOpen, thread, db, locals, watchers, histories
        <2>2. \A d \in Calls : pc'[d] \in Committed => pc[d] \in Committed
            BY <1>13
               DEF OthersOpen, Committed, Holding, TypeOK, thread, db, locals,
                   watchers, histories
        <2>3. name \in Nat /\ named \in Nat
            BY DEF TypeOK, Names
        <2>4. \A s \in DOMAIN sessions' : sessions'[s].title <= named
            BY <1>13, <2>3, OthersStore DEF NamesKnown
        <2> QED
            BY <2>1, <2>2, <2>4 DEF NamesKnown
    <1>14. ASSUME Restart PROVE NamesKnown'
        <2>1. name' = 1 /\ UNCHANGED <<named, sessions, cmd>>
            BY <1>14 DEF Restart, thread, db, locals, watchers, histories
        <2>2. named \in Nat \ {0}
            BY DEF TypeOK, Names
        <2>3. \A d \in Calls : pc'[d] \notin Committed
            BY <1>14 DEF Restart, Committed, Holding
        <2> QED
            BY <2>1, <2>2, <2>3 DEF NamesKnown
    <1> QED
        BY <1>1, <1>2, <1>3, <1>4, <1>5, <1>6, <1>7, <1>8, <1>9, <1>10, <1>11,
           <1>12, <1>13, <1>14
           DEF Next, ChatStep, ChildStep, WatcherStep, vars, thread, db,
               locals, watchers, histories, ChildCalls, Seed, PollRows,
               FetchAndPush, WatcherEnds, DropPin

\* Nothing the bridge will resume is one of the first n sessions.
TitledAfter(n, m) == \A s \in DOMAIN sessions : sessions[s].title = m => s > n

Fresh(n) ==
    /\ n <= Len(sessions)
    /\ pin /= 0 => pin > n
    /\ TitledAfter(n, name)
    /\ \A c \in Calls :
          /\ pc[c] \in {"pin", "adopted"} /\ found[c] /= 0 => found[c] > n
          /\ pc[c] \in {"queued", "run"} =>
                /\ cmd[c].way = "resume" => cmd[c].to > n
                /\ cmd[c].way = "named" => TitledAfter(n, cmd[c].to)
          /\ pc[c] \in Holding => start[c] >= n

\* That is trivial of none.
LEMMA FreshFromNone == ASSUME TypeOK PROVE Fresh(0)
    <1>1. Len(sessions) \in Nat /\ DOMAIN sessions = 1..Len(sessions)
        BY Typed DEF StoreTyped
    <1>2. \A m : TitledAfter(0, m)
        BY <1>1 DEF TitledAfter
    <1>3. pin \in Nat /\ \A c \in Calls : found[c] \in Nat /\ start[c] \in Nat
        BY DEF TypeOK, Ids
    <1>4. \A c \in Calls : cmd[c].way = "resume" => cmd[c].to \in Nat \ {0}
        BY CommandIs DEF TypeOK
    <1> QED
        BY <1>1, <1>2, <1>3, <1>4 DEF Fresh

\* It stays so but for a restart, with the name it brings back.
LEMMA TitlesGrow ==
    ASSUME TypeOK, [Next]_vars, NEW n \in Ids, Fresh(n)
    PROVE  /\ \A s \in DOMAIN sessions' :
                 \/ s > n
                 \/ s \in DOMAIN sessions /\ sessions'[s].title = sessions[s].title
           /\ n <= Len(sessions')
           /\ \A m : TitledAfter(n, m) => TitledAfter(n, m)'
    <1>1. /\ Len(sessions) \in Nat /\ DOMAIN sessions = 1..Len(sessions)
          /\ n \in Nat /\ n <= Len(sessions)
        BY Typed DEF StoreTyped, Fresh, Ids
    <1>2. n <= Len(sessions')
        BY <1>1, StoreGrows DEF StoreGrowth
    <1>3. ASSUME NEW s \in DOMAIN sessions'
          PROVE  \/ s > n
                 \/ s \in DOMAIN sessions /\ sessions'[s].title = sessions[s].title
        <2>1. CASE sessions' = sessions
            BY <1>3, <2>1
        <2>2. ASSUME NEW c \in Calls, ChildOpens(c)
              PROVE  s > n \/ (s \in DOMAIN sessions /\ sessions'[s] = sessions[s])
            <3>1. s \in DOMAIN sessions => sessions'[s] = sessions[s]
                BY <2>2, OpenedStore
            <3>2. s \notin DOMAIN sessions => s = Len(sessions) + 1
                BY <1>3, <2>2, OpenedStore
            <3>3. s = Len(sessions) + 1 => s > n
                BY <1>1
            <3> QED
                BY <3>1, <3>2, <3>3
        <2>3. ASSUME OthersOpen
              PROVE  s > n \/ (s \in DOMAIN sessions /\ sessions'[s] = sessions[s])
            <3>1. s \in DOMAIN sessions => sessions'[s] = sessions[s]
                BY <2>3, OthersStore
            <3>2. s \notin DOMAIN sessions => s = Len(sessions) + 1
                BY <1>3, <2>3, OthersStore
            <3>3. s = Len(sessions) + 1 => s > n
                BY <1>1
            <3> QED
                BY <3>1, <3>2, <3>3
        <2>4. ASSUME NEW c \in Calls, Adopt(c), sessions' /= sessions
              PROVE  \/ s > n
                     \/ s \in DOMAIN sessions /\ sessions'[s] = sessions[s]
            <3>1. /\ found'[c] \in Candidates(c)
                  /\ sessions' = [sessions EXCEPT ![found'[c]].title = name]
                BY <2>4, AdoptedStore
            <3>2. found'[c] > n
                <4>1. found'[c] > start[c] /\ found'[c] \in Nat
                    BY <1>1, <3>1 DEF Candidates
                <4>2. start[c] >= n /\ start[c] \in Nat
                    BY <2>4 DEF Adopt, Fresh, Holding, TypeOK, Ids
                <4> QED
                    BY <1>1, <4>1, <4>2
            <3> QED
                BY <1>3, <3>1, <3>2
        <2> QED
            BY <2>1, <2>2, <2>3, <2>4
               DEF Next, ChatStep, ChildStep, WatcherStep, vars, db, Enter,
                   PinThread, Build, TakeLock, ChildCalls, ChildEnds, AdoptPin,
                   ToolRecap, Return, Seed, PollRows, FetchAndPush, WatcherEnds,
                   NewName, DropPin, Restart
    <1>4. ASSUME NEW m, TitledAfter(n, m)
          PROVE  \A s \in DOMAIN sessions' : sessions'[s].title = m => s > n
        BY <1>3, <1>4 DEF TitledAfter
    <1> QED
        BY <1>2, <1>3, <1>4 DEF TitledAfter

LEMMA KeepsFresh ==
    ASSUME TypeOK, NamesKnown, NEW n \in Ids, ~Restart, Fresh(n), [Next]_vars
    PROVE  Fresh(n)'
    <1>1. CASE UNCHANGED <<pin, name, pc, found, cmd, start, sessions>>
        BY <1>1 DEF Fresh, TitledAfter
    <1>2. ASSUME NEW c \in Calls, Enter(c) PROVE Fresh(n)'
        <2>1. /\ n <= Len(sessions')
              /\ \A m : TitledAfter(n, m) => TitledAfter(n, m)'
            BY TitlesGrow

        <2>2. Titled(name) /= 0 => Titled(name) > n
            BY Typed, TitledIs DEF Fresh, TitledAfter
        <2>3. UNCHANGED <<pin, name, cmd, start>>
            BY <1>2 DEF Enter, thread, db, locals, watchers, histories
        <2>4. \A d \in Calls \ {c} : pc'[d] = pc[d] /\ found'[d] = found[d]
            BY <1>2 DEF Enter, TypeOK
        <2>5. /\ pc'[c] \in {"pin", "build"}
              /\ pc'[c] = "pin" => found'[c] = Titled(name)
            BY <1>2 DEF Enter, TypeOK
        <2> QED
            BY <2>1, <2>2, <2>3, <2>4, <2>5 DEF Fresh, Holding
    <1>3. ASSUME NEW c \in Calls, PinThread(c) PROVE Fresh(n)'
        <2>1. /\ n <= Len(sessions')
              /\ \A m : TitledAfter(n, m) => TitledAfter(n, m)'
            BY TitlesGrow

        <2>2. UNCHANGED <<name, cmd, start, found>>
            BY <1>3 DEF PinThread, thread, db, locals, watchers, histories
        <2>3. pin' = pin \/ (pin' = found[c] /\ found[c] > n)
            <3>1. found[c] /= 0 => found[c] > n
                BY <1>3 DEF PinThread, Fresh
            <3>2. pin' = IF found[c] = 0 THEN pin ELSE found[c]
                BY <1>3 DEF PinThread
            <3>3. CASE found[c] = 0
                BY <3>2, <3>3
            <3>4. CASE found[c] /= 0
                BY <3>1, <3>2, <3>4
            <3> QED
                BY <3>3, <3>4
        <2>4. pc' = [pc EXCEPT ![c] = "build"]
            BY <1>3 DEF PinThread
        <2> QED
            BY <2>1, <2>2, <2>3, <2>4 DEF Fresh, Holding, TypeOK
    <1>4. ASSUME NEW c \in Calls, Build(c) PROVE Fresh(n)'
        <2>1. /\ n <= Len(sessions')
              /\ \A m : TitledAfter(n, m) => TitledAfter(n, m)'
            BY TitlesGrow

        <2>2. /\ UNCHANGED <<pin, name, start, found>>
              /\ pc' = [pc EXCEPT ![c] = "queued"]
            BY <1>4 DEF Build, thread, db, locals, watchers, histories
        <2>3. \A d \in Calls \ {c} : pc'[d] = pc[d] /\ cmd'[d] = cmd[d]
            BY <1>4, <2>2 DEF Build, TypeOK
        <2>4. /\ pc'[c] = "queued"
              /\ cmd'[c].way = "resume" => pin /= 0 /\ cmd'[c].to = pin
              /\ cmd'[c].way = "named" => cmd'[c].to = name
            BY <1>4 DEF Build, TypeOK
        <2> QED
            BY <2>1, <2>2, <2>3, <2>4 DEF Fresh, Holding
    <1>5. ASSUME NEW c \in Calls, TakeLock(c) PROVE Fresh(n)'
        <2>1. /\ n <= Len(sessions')
              /\ \A m : TitledAfter(n, m) => TitledAfter(n, m)'
            BY TitlesGrow

        <2>2. UNCHANGED <<pin, name, cmd, found, sessions>>
            BY <1>5 DEF TakeLock, thread, db, locals, watchers, histories
        <2>3. \A d \in Calls \ {c} : pc'[d] = pc[d] /\ start'[d] = start[d]
            BY <1>5 DEF TakeLock, TypeOK
        <2>4. pc[c] = "queued" /\ pc'[c] = "run" /\ start'[c] = Len(sessions)
            BY <1>5 DEF TakeLock, TypeOK
        <2>5. Len(sessions) >= n
            BY <2>1, <2>2, Typed DEF StoreTyped, Ids
        <2> QED
            BY <2>1, <2>2, <2>3, <2>4, <2>5 DEF Fresh, Holding
    <1>6. ASSUME NEW c \in Calls, ChildOpens(c) PROVE Fresh(n)'
        <2>1. /\ n <= Len(sessions')
              /\ \A m : TitledAfter(n, m) => TitledAfter(n, m)'
            BY TitlesGrow

        <2>2. UNCHANGED <<pin, name, cmd, found, pc, start>>
            BY <1>6 DEF ChildOpens, thread, db, locals, watchers, histories
        <2> QED
            BY <2>1, <2>2 DEF Fresh
    <1>7. ASSUME NEW c \in Calls, ChildEnds(c) PROVE Fresh(n)'
        <2>1. /\ n <= Len(sessions')
              /\ \A m : TitledAfter(n, m) => TitledAfter(n, m)'
            BY TitlesGrow

        <2>2. UNCHANGED <<pin, name, cmd, found, start>>
            BY <1>7 DEF ChildEnds, thread, db, locals, watchers, histories
        <2>3. \A d \in Calls \ {c} : pc'[d] = pc[d]
            BY <1>7 DEF ChildEnds, TypeOK
        <2>4. /\ pc'[c] \notin {"pin", "adopted", "queued", "run"}
              /\ pc'[c] \in Holding => pc[c] \in Holding
            BY <1>7 DEF ChildEnds, TypeOK, Holding
        <2> QED
            BY <2>1, <2>2, <2>3, <2>4 DEF Fresh
    <1>8. ASSUME NEW c \in Calls, Adopt(c) PROVE Fresh(n)'
        <2>1. /\ n <= Len(sessions')
              /\ \A m : TitledAfter(n, m) => TitledAfter(n, m)'
            BY TitlesGrow

        <2>2. UNCHANGED <<pin, name, cmd, start>> /\ pc[c] \in Holding
            BY <1>8 DEF Adopt, Holding, thread, db, locals, watchers, histories
        <2>3. CASE found' = found /\ pc' = [pc EXCEPT ![c] = "recap"]
            <3>1. \A d \in Calls \ {c} : pc'[d] = pc[d]
                BY <2>3 DEF TypeOK
            <3>2. pc'[c] = "recap"
                BY <2>3 DEF TypeOK
            <3> QED
                BY <2>1, <2>2, <2>3, <3>1, <3>2 DEF Fresh
        <2>4. CASE /\ found'[c] \in Candidates(c)
                   /\ found' = [found EXCEPT ![c] = found'[c]]
                   /\ pc' = [pc EXCEPT ![c] = "adopted"]
            <3>1. found'[c] > n
                <4>1. found'[c] > start[c] /\ found'[c] \in Nat
                    BY <2>4, Typed DEF Candidates, StoreTyped
                <4>2. start[c] >= n /\ start[c] \in Nat /\ n \in Nat
                    BY <2>2 DEF Fresh, TypeOK, Ids
                <4> QED
                    BY <4>1, <4>2
            <3>2. \A d \in Calls \ {c} : pc'[d] = pc[d] /\ found'[d] = found[d]
                BY <2>4 DEF TypeOK
            <3>3. pc'[c] = "adopted"
                BY <2>4 DEF TypeOK
            <3> QED
                BY <2>1, <2>2, <3>1, <3>2, <3>3 DEF Fresh
        <2> QED
            BY <1>8, <2>3, <2>4, AdoptedStore
    <1>9. ASSUME NEW c \in Calls, AdoptPin(c) PROVE Fresh(n)'
        <2>1. /\ n <= Len(sessions')
              /\ \A m : TitledAfter(n, m) => TitledAfter(n, m)'
            BY TitlesGrow

        <2>2. UNCHANGED <<name, cmd, found, start>> /\ pc[c] = "adopted"
            BY <1>9 DEF AdoptPin, thread, db, locals, watchers, histories
        <2>3. pin' /= 0 => pin' > n
            BY <1>9, <2>2 DEF AdoptPin, Fresh
        <2>4. \A d \in Calls \ {c} : pc'[d] = pc[d]
            BY <1>9 DEF AdoptPin, TypeOK
        <2>5. pc'[c] = "recap" /\ pc[c] \in Holding
            BY <1>9 DEF AdoptPin, TypeOK, Holding
        <2> QED
            BY <2>1, <2>2, <2>3, <2>4, <2>5 DEF Fresh
    <1>10. ASSUME NEW c \in Calls, ToolRecap(c) PROVE Fresh(n)'
        <2>1. /\ n <= Len(sessions')
              /\ \A m : TitledAfter(n, m) => TitledAfter(n, m)'
            BY TitlesGrow

        <2>2. UNCHANGED <<pin, name, cmd, found, start>>
            BY <1>10 DEF ToolRecap, thread, db, locals, watchers, histories
        <2>3. \A d \in Calls \ {c} : pc'[d] = pc[d]
            BY <1>10 DEF ToolRecap, TypeOK
        <2>4. /\ pc'[c] \notin {"pin", "adopted", "queued", "run"}
              /\ pc'[c] \in Holding => pc[c] \in Holding
            BY <1>10 DEF ToolRecap, TypeOK, Holding
        <2> QED
            BY <2>1, <2>2, <2>3, <2>4 DEF Fresh
    <1>11. ASSUME NEW c \in Calls, Return(c) PROVE Fresh(n)'
        <2>1. /\ n <= Len(sessions')
              /\ \A m : TitledAfter(n, m) => TitledAfter(n, m)'
            BY TitlesGrow

        <2>2. UNCHANGED <<pin, name, cmd, found, start>>
            BY <1>11 DEF Return, thread, db, locals, watchers, histories
        <2>3. \A d \in Calls \ {c} : pc'[d] = pc[d]
            BY <1>11 DEF Return, TypeOK
        <2>4. /\ pc'[c] \notin {"pin", "adopted", "queued", "run"}
              /\ pc'[c] \in Holding => pc[c] \in Holding
            BY <1>11 DEF Return, TypeOK, Holding
        <2> QED
            BY <2>1, <2>2, <2>3, <2>4 DEF Fresh
    <1>12. ASSUME NewName PROVE Fresh(n)'
        <2>1. /\ n <= Len(sessions')
              /\ \A m : TitledAfter(n, m) => TitledAfter(n, m)'
            BY TitlesGrow

        <2>2. /\ UNCHANGED <<pin, cmd, found, start, pc, sessions>>
              /\ name' = named + 1
            BY <1>12 DEF NewName, thread, db, locals, watchers, histories
        <2>3. \A s \in DOMAIN sessions : sessions[s].title /= named + 1
            <3>1. \A s \in DOMAIN sessions : sessions[s] \in Sessions
                BY Typed DEF StoreTyped
            <3>2. /\ named \in Nat
                  /\ \A s \in DOMAIN sessions : sessions[s].title \in Nat
                BY <3>1 DEF TypeOK, Sessions, Names
            <3> QED
                BY <3>2 DEF NamesKnown
        <2>4. TitledAfter(n, name)'
            BY <2>2, <2>3 DEF TitledAfter
        <2> QED
            BY <2>1, <2>2, <2>4 DEF Fresh
    <1>13. ASSUME DropPin PROVE Fresh(n)'
        <2>1. /\ n <= Len(sessions')
              /\ \A m : TitledAfter(n, m) => TitledAfter(n, m)'
            BY TitlesGrow

        <2>2. UNCHANGED <<name, cmd, found, start, pc>> /\ pin' = 0
            BY <1>13 DEF DropPin, thread, db, locals, watchers, histories
        <2> QED
            BY <2>1, <2>2 DEF Fresh
    <1>14. ASSUME OthersOpen PROVE Fresh(n)'
        <2>1. /\ n <= Len(sessions')
              /\ \A m : TitledAfter(n, m) => TitledAfter(n, m)'
            BY TitlesGrow

        <2>2. UNCHANGED <<pin, name, cmd, found, pc, start>>
            BY <1>14 DEF OthersOpen, thread, db, locals, watchers, histories
        <2> QED
            BY <2>1, <2>2 DEF Fresh
    <1>15. ASSUME Restart PROVE Fresh(n)'
        BY <1>15
    <1> QED
        BY <1>1, <1>2, <1>3, <1>4, <1>5, <1>6, <1>7, <1>8, <1>9, <1>10, <1>11,
           <1>12, <1>13, <1>14, <1>15
           DEF Next, ChatStep, ChildStep, WatcherStep, vars, thread, db,
               locals, watchers, histories, ChildCalls, Seed, PollRows,
               FetchAndPush, WatcherEnds

\* The numbers n of which that is so.
FreshAt == {n \in Ids : Fresh(n)}

LEMMA ZeroIsFresh == TypeOK => 0 \in FreshAt
    BY FreshFromNone, Bounds DEF FreshAt

LEMMA FreshStays ==
    ASSUME TypeOK, NamesKnown, ~Restart, [Next]_vars
    PROVE  FreshAt \subseteq FreshAt'
    <1>1. ASSUME NEW n \in Ids, Fresh(n) PROVE Fresh(n)'
        BY <1>1, KeepsFresh
    <1> QED
        BY <1>1 DEF FreshAt

\* Only Enter begins a turn.
LEMMA TurnBegins ==
    ASSUME TypeOK, [Next]_vars, NEW c \in Calls, InTurn(c)'
    PROVE  InTurn(c) \/ Enter(c)
    <1>1. CASE pc' = pc
        BY <1>1 DEF InTurn
    <1>2. ASSUME NEW d \in Calls, ChatStep(d) PROVE InTurn(c) \/ Enter(c)
        BY <1>2 DEF ChatStep, Enter, PinThread, Build, TakeLock, Adopt,
                    AdoptPin, ToolRecap, Return, InTurn, TypeOK
    <1>3. ASSUME NEW d \in Calls, ChildStep(d) PROVE InTurn(c)
        BY <1>3 DEF ChildStep, ChildOpens, ChildCalls, ChildEnds, InTurn,
                    TypeOK, locals
    <1>4. ASSUME Restart PROVE ~InTurn(c)'
        BY <1>4 DEF Restart, InTurn, TypeOK
    <1> QED
        BY <1>1, <1>2, <1>3, <1>4
           DEF Next, vars, WatcherStep, Seed, PollRows, FetchAndPush,
               WatcherEnds, NewName, DropPin, OthersOpen

\* Every turn began after the sessions that the last /new left behind ...
Begins == \A c \in Calls : InTurn(c) => limit[c] \in FreshAt

\* ... and so will the next.  While a /new is under way that met no turn,
\* nothing bears the new name.
CutOff ==
    /\ ~renaming => cut \in FreshAt
    /\ renaming => cut <= Len(sessions)
    /\ renaming /\ cut /= 0 =>
          /\ \A c \in Calls : ~InTurn(c)
          /\ \A s \in DOMAIN sessions : sessions[s].title /= name

LEMMA KeepsBegins ==
    ASSUME TypeOK, NamesKnown, Begins, CutOff, [Next]_vars
    PROVE  Begins'
    <1> SUFFICES ASSUME NEW c \in Calls, InTurn(c)'
                 PROVE  limit'[c] \in FreshAt'
        BY DEF Begins
    <1>1. ~Restart
        BY DEF Restart, InTurn, TypeOK
    <1>2. FreshAt \subseteq FreshAt' /\ 0 \in FreshAt
        BY <1>1, FreshStays, ZeroIsFresh
    <1>3. CASE Enter(c)
        <2>1. limit'[c] = IF renaming THEN 0 ELSE cut
            BY <1>3 DEF Enter, TypeOK
        <2> QED
            BY <1>2, <2>1 DEF CutOff
    <1>4. CASE ~Enter(c)
        <2>1. ASSUME NEW d \in Calls, Enter(d) PROVE limit'[c] = limit[c]
            BY <1>4, <2>1 DEF Enter, TypeOK
        <2>2. ASSUME \A d \in Calls : ~Enter(d) PROVE limit' = limit
            <3>1. ASSUME NEW d \in Calls, ChatStep(d) PROVE limit' = limit
                BY <2>2, <3>1 DEF ChatStep, PinThread, Build, TakeLock, Adopt,
                                  AdoptPin, ToolRecap, Return, histories
            <3>2. ASSUME NEW d \in Calls, ChildStep(d) \/ WatcherStep(d)
                  PROVE  limit' = limit
                BY <3>2 DEF ChildStep, ChildOpens, ChildCalls, ChildEnds,
                            WatcherStep, Seed, PollRows, FetchAndPush,
                            WatcherEnds, histories
            <3>3. ASSUME NewName \/ DropPin \/ OthersOpen PROVE limit' = limit
                BY <3>3 DEF NewName, DropPin, OthersOpen, histories
            <3> QED
                BY <1>1, <3>1, <3>2, <3>3 DEF Next, vars, histories
        <2>3. limit'[c] = limit[c] /\ InTurn(c)
            BY <1>4, <2>1, <2>2, TurnBegins
        <2> QED
            BY <1>2, <2>3 DEF Begins
    <1> QED
        BY <1>3, <1>4

LEMMA KeepsCutOff ==
    ASSUME TypeOK, NamesKnown, Begins, CutOff, [Next]_vars
    PROVE  CutOff'
    <1>1. /\ Len(sessions) \in Nat /\ DOMAIN sessions = 1..Len(sessions)
          /\ Len(sessions') \in Nat /\ Len(sessions) <= Len(sessions')
          /\ cut \in Nat
        BY StoreGrows DEF StoreGrowth, TypeOK, Ids
    <1>3. ~Restart => FreshAt \subseteq FreshAt'
        BY FreshStays
    <1>2. ~Restart => 0 \in FreshAt'
        BY <1>3, ZeroIsFresh
    <1>4. ASSUME NEW c \in Calls, Enter(c) PROVE CutOff'
        <2>1. UNCHANGED <<renaming, sessions>>
              /\ cut' = IF renaming THEN 0 ELSE cut
            BY <1>4 DEF Enter, thread, db
        <2>2. FreshAt \subseteq FreshAt'
            <3>1. ~Restart
                BY <1>4 DEF Restart, Enter, TypeOK
            <3> QED
                BY <1>3, <3>1
        <2> QED
            BY <1>1, <2>1, <2>2 DEF CutOff
    <1>5. ASSUME NewName PROVE CutOff'
        <2>1. /\ renaming' /\ UNCHANGED <<sessions, pc>> /\ name' = named + 1
              /\ cut' = IF \E c \in Calls : InFlight(c) THEN 0 ELSE Len(sessions)
            BY <1>5 DEF NewName, db
        <2>2. cut' /= 0 => \A c \in Calls : ~InTurn(c)
            BY <2>1 DEF InFlight, InTurn
        <2>3. \A s \in DOMAIN sessions : sessions[s].title /= named + 1
            <3>1. \A s \in DOMAIN sessions : sessions[s] \in Sessions
                BY Typed DEF StoreTyped
            <3>2. /\ named \in Nat
                  /\ \A s \in DOMAIN sessions : sessions[s].title \in Nat
                BY <3>1 DEF TypeOK, Sessions, Names
            <3> QED
                BY <3>2 DEF NamesKnown
        <2>4. cut' <= Len(sessions)
            BY <1>1, <2>1
        <2> QED
            BY <2>1, <2>2, <2>3, <2>4 DEF CutOff, InTurn
    <1>6. ASSUME DropPin PROVE CutOff'
        <2>1. /\ renaming /\ ~renaming' /\ pin' = 0
              /\ UNCHANGED <<name, cut, sessions, pc, cmd, found, start>>
            BY <1>6 DEF DropPin, db, locals, histories
        <2>2. CASE cut = 0
            <3>1. ~Restart
                BY <1>6 DEF Restart, DropPin, TypeOK
            <3> QED
                BY <1>2, <2>1, <2>2, <3>1 DEF CutOff
        <2>3. CASE cut /= 0
            <3>1. TitledAfter(cut, name)'
                BY <2>1, <2>3 DEF CutOff, TitledAfter
            <3>2. \A c \in Calls : ~InTurn(c) /\ cut <= Len(sessions)
                BY <2>1, <2>3 DEF CutOff
            <3>3. ASSUME NEW c \in Calls
                  PROVE  pc[c] \notin {"pin", "adopted", "queued"} \cup Holding
                BY <3>2 DEF InTurn, TypeOK, Phases, Holding
            <3>4. Fresh(cut)'
                BY <2>1, <3>1, <3>2, <3>3, <2>3 DEF Fresh, Holding, CutOff
            <3>5. cut' \in Ids
                BY <2>1 DEF TypeOK
            <3> QED
                BY <2>1, <3>4, <3>5 DEF CutOff, FreshAt
        <2> QED
            BY <2>2, <2>3
    <1>7. ASSUME Restart PROVE CutOff'
        <2>1. cut' = 0 /\ ~renaming'
            BY <1>7 DEF Restart
        <2>2. pin' = 0 /\ sessions' = sessions
              /\ \A c \in Calls : pc'[c] \in {"new", "done"}
            BY <1>7 DEF Restart, db
        <2>3. TitledAfter(0, name)'
            BY <1>1, <2>2 DEF TitledAfter
        <2>4. Fresh(0)'
            BY <1>1, <2>2, <2>3 DEF Fresh, Holding
        <2> QED
            BY <2>1, <2>4, Bounds DEF CutOff, FreshAt
    <1>8. CASE /\ ~NewName /\ ~DropPin /\ ~Restart
               /\ \A c \in Calls : ~Enter(c)
        <2>1. UNCHANGED <<cut, renaming, name>>
            <3>1. ASSUME NEW c \in Calls, ChatStep(c)
                  PROVE  UNCHANGED <<cut, renaming, name>>
                BY <1>8, <3>1
                   DEF ChatStep, PinThread, Build, TakeLock, Adopt, AdoptPin,
                       ToolRecap, Return, thread, histories
            <3>2. ASSUME NEW c \in Calls, ChildStep(c)
                  PROVE  UNCHANGED <<cut, renaming, name>>
                BY <3>2 DEF ChildStep, ChildOpens, ChildCalls, ChildEnds,
                            thread, histories
            <3>3. ASSUME NEW c \in Calls, WatcherStep(c)
                  PROVE  UNCHANGED <<cut, renaming, name>>
                BY <3>3 DEF WatcherStep, Seed, PollRows, FetchAndPush,
                            WatcherEnds, thread, histories
            <3>4. ASSUME OthersOpen PROVE UNCHANGED <<cut, renaming, name>>
                BY <3>4 DEF OthersOpen, thread, histories
            <3> QED
                BY <1>8, <3>1, <3>2, <3>3, <3>4
                   DEF Next, vars, thread, histories
        <2>2. CASE ~renaming
            BY <1>3, <1>8, <2>1, <2>2 DEF CutOff
        <2>3. CASE renaming /\ cut = 0
            BY <1>1, <2>1, <2>3 DEF CutOff
        <2>4. CASE renaming /\ cut /= 0
            <3>1. \A c \in Calls : ~InTurn(c)
                BY <2>4 DEF CutOff
            <3>2. \A c \in Calls : ~InTurn(c)'
                BY <1>8, <3>1, TurnBegins
            <3>3. \/ sessions' = sessions
                  \/ OthersOpen
                <4>1. ASSUME NEW c \in Calls, ChatStep(c) \/ ChildStep(c)
                      PROVE  FALSE
                    BY <1>8, <3>1, <4>1
                       DEF ChatStep, PinThread, Build, TakeLock, Adopt,
                           AdoptPin, ToolRecap, Return, ChildStep, ChildOpens,
                           ChildCalls, ChildEnds, InTurn
                <4> QED
                    BY <1>8, <4>1
                       DEF Next, vars, db, WatcherStep, Seed, PollRows,
                           FetchAndPush, WatcherEnds
            <3>4. \A s \in DOMAIN sessions' : sessions'[s].title /= name
                <4>1. name /= 0
                    BY DEF TypeOK, Names
                <4>2. CASE sessions' = sessions
                    BY <2>4, <4>2 DEF CutOff
                <4>3. CASE OthersOpen
                    BY <2>4, <4>1, <4>3, OthersStore DEF CutOff
                <4> QED
                    BY <3>3, <4>2, <4>3
            <3>5. cut <= Len(sessions')
                BY <1>1, <2>4 DEF CutOff
            <3> QED
                BY <2>1, <2>4, <3>2, <3>4, <3>5 DEF CutOff
        <2> QED
            BY <2>2, <2>3, <2>4
    <1> QED
        BY <1>4, <1>5, <1>6, <1>7, <1>8


LEMMA KeepsNewIsFinal ==
    ASSUME TypeOK, Untouched, Begins, NewIsFinal, [Next]_vars
    PROVE  NewIsFinal'
    <1>1. CASE UNCHANGED <<ran, limit>>
        BY <1>1 DEF NewIsFinal
    <1>2. ASSUME NEW c \in Calls, Enter(c) PROVE NewIsFinal'
        <2>1. UNCHANGED ran /\ ran[c] = 0
            BY <1>2 DEF Enter, Untouched, Early
        <2>2. \A d \in Calls \ {c} : limit'[d] = limit[d]
            BY <1>2 DEF Enter, TypeOK
        <2> QED
            BY <2>1, <2>2 DEF NewIsFinal
    <1>3. ASSUME NEW c \in Calls, ChildOpens(c) PROVE NewIsFinal'
        <2>1. limit' = limit /\ pc[c] = "run"
            BY <1>3 DEF ChildOpens, histories
        <2>2. \A d \in Calls \ {c} : ran'[d] = ran[d]
            BY <1>3, OpensIs DEF TypeOK
        <2>3. ran'[c] > limit[c]
            <3>1. Fresh(limit[c]) /\ limit[c] \in Nat
                BY <2>1 DEF Begins, InTurn, FreshAt, Ids
            <3>2. CASE Told(c) = 0
                <4>1. ran'[c] = Len(sessions) + 1
                    BY <1>3, <3>2, OpensIs
                <4>2. Len(sessions) \in Nat /\ limit[c] <= Len(sessions)
                    BY <3>1, Typed DEF Fresh, StoreTyped
                <4> QED
                    BY <3>1, <4>1, <4>2
            <3>3. CASE Told(c) /= 0
                <4>1. ran'[c] = Told(c)
                    BY <1>3, <3>3, OpensIs
                <4>2. CASE cmd[c].way = "resume"
                    <5>1. Told(c) = cmd[c].to
                        BY <4>2, ToldIs
                    <5> QED
                        BY <2>1, <3>1, <4>1, <4>2, <5>1 DEF Fresh
                <4>3. CASE cmd[c].way = "named"
                    <5>1. Told(c) = Titled(cmd[c].to)
                        BY <4>3, ToldIs
                    <5>2. Told(c) \in DOMAIN sessions /\ sessions[Told(c)].title = cmd[c].to
                        BY <3>3, <5>1, Typed, TitledIs
                    <5> QED
                        BY <2>1, <3>1, <4>1, <4>3, <5>2 DEF Fresh, TitledAfter
                <4>4. CASE cmd[c].way = "fresh"
                    BY <3>3, <4>4 DEF Told
                <4> QED
                    BY <4>2, <4>3, <4>4, CommandIs DEF TypeOK
            <3> QED
                BY <3>2, <3>3
        <2> QED
            BY <2>1, <2>2, <2>3 DEF NewIsFinal
    <1> QED
        BY <1>1, <1>2, <1>3
           DEF Next, ChatStep, ChildStep, WatcherStep, vars, thread, db,
               locals, watchers, histories, PinThread, Build, TakeLock,
               ChildCalls, ChildEnds, Adopt, AdoptPin, ToolRecap, Return, Seed,
               PollRows, FetchAndPush, WatcherEnds, NewName, DropPin,
               OthersOpen, Restart

-----------------------------------------------------------------------------
(* Where the thread's conversation continues                               *)

LEMMA SameTitledIn ==
    ASSUME NEW a, NEW b, NEW n,
           \A s : s \in DOMAIN b /\ b[s].title = n
                  <=> s \in DOMAIN a /\ a[s].title = n
    PROVE  TitledIn(b, n) = TitledIn(a, n)
    <1>1. {s \in DOMAIN b : b[s].title = n} = {s \in DOMAIN a : a[s].title = n}
        OBVIOUS
    <1> QED
        BY <1>1 DEF TitledIn

LEMMA TitledIsIn == \A n : Titled(n) = TitledIn(sessions, n)
    BY DEF Titled, TitledIn

\* Others' sessions bear no name.
LEMMA OthersUntitled ==
    ASSUME TypeOK, OthersOpen, NEW n \in Names
    PROVE  TitledIn(sessions', n) = TitledIn(sessions, n)
    <1>1. n /= 0
        BY DEF Names
    <1>2. \A s : s \in DOMAIN sessions' /\ sessions'[s].title = n
                 <=> s \in DOMAIN sessions /\ sessions[s].title = n
        BY <1>1, OthersStore
    <1> QED
        BY <1>2, SameTitledIn

\* What a call resumed is what it was told to.
Resumes ==
    \A c \in Calls : ran[c] /= 0 /\ cmd[c].way = "resume" => ran[c] = cmd[c].to

LEMMA KeepsResumes ==
    ASSUME TypeOK, Untouched, Resumes, [Next]_vars
    PROVE  Resumes'
    <1>1. CASE UNCHANGED <<ran, cmd>>
        BY <1>1 DEF Resumes
    <1>2. ASSUME NEW c \in Calls, Build(c) PROVE Resumes'
        <2>1. ran' = ran /\ ran[c] = 0
            BY <1>2 DEF Build, Untouched, Early, locals
        <2>2. \A d \in Calls \ {c} : cmd'[d] = cmd[d]
            BY <1>2 DEF Build, TypeOK
        <2> QED
            BY <2>1, <2>2 DEF Resumes
    <1>3. ASSUME NEW c \in Calls, ChildOpens(c) PROVE Resumes'
        <2>1. cmd' = cmd /\ \A d \in Calls \ {c} : ran'[d] = ran[d]
            BY <1>3, OpensIs DEF ChildOpens, TypeOK
        <2>2. cmd[c].way = "resume" => ran'[c] = cmd[c].to
            <3>1. cmd[c].way = "resume" => Told(c) = cmd[c].to /\ Told(c) /= 0
                BY ToldIs
            <3> QED
                BY <1>3, <3>1, OpensIs
        <2> QED
            BY <2>1, <2>2 DEF Resumes
    <1> QED
        BY <1>1, <1>2, <1>3
           DEF Next, ChatStep, ChildStep, WatcherStep, vars, thread, db,
               locals, watchers, histories, Enter, PinThread, TakeLock,
               ChildCalls, ChildEnds, Adopt, AdoptPin, ToolRecap, Return, Seed,
               PollRows, FetchAndPush, WatcherEnds, NewName, DropPin,
               OthersOpen, Restart

\* A home is of a name the thread has had, and a name just given has none yet.
HomeNames ==
    /\ name <= named
    /\ \A n \in Names : home[n] /= 0 => n <= named
    /\ renaming => home[name] = 0
    /\ name = 1 => ~renaming

LEMMA KeepsHomeNames ==
    ASSUME TypeOK, Solo, HomeNames, [Next]_vars
    PROVE  HomeNames'
    <1>1. CASE UNCHANGED <<name, named, home, renaming>>
        BY <1>1 DEF HomeNames
    <1>2. ASSUME NEW c \in Calls, ToolRecap(c) PROVE HomeNames'
        <2>1. UNCHANGED <<name, named, renaming>>
            BY <1>2 DEF ToolRecap, thread
        <2>2. \/ home' = home
              \/ home' = [n \in Names |-> 0]
              \/ alone[c] /\ home' = [home EXCEPT ![name] = ran[c]]
            BY <1>2 DEF ToolRecap
        <2>3. alone[c] => ~renaming
            BY <1>2 DEF ToolRecap, Solo, InFlight
        <2>4. name \in Names
            BY DEF TypeOK
        <2>5. \A n \in Names : home'[n] /= 0 => home[n] /= 0 \/ n = name
            BY <2>2, <2>4 DEF TypeOK
        <2>6. renaming => home'[name] = 0
            BY <2>2, <2>3, <2>4 DEF HomeNames
        <2> QED
            BY <2>1, <2>5, <2>6 DEF HomeNames
    <1>3. ASSUME NewName PROVE HomeNames'
        <2>1. home' = home /\ name' = named + 1 /\ named' = named + 1 /\ named < MaxNames
            BY <1>3 DEF NewName
        <2>2. named \in Nat \ {0} /\ MaxNames \in Nat
            BY SessionAssumption DEF TypeOK, Names
        <2>3. \A n \in Names : n \in Nat
            BY DEF Names
        <2>4. named + 1 \in Names /\ named + 1 > named /\ named + 1 /= 1
            BY <2>1, <2>2 DEF Names
        <2>5. home[named + 1] = 0
            BY <2>2, <2>4 DEF HomeNames
        <2>6. \A n \in Names : home[n] /= 0 => n <= named + 1
            BY <2>2, <2>3 DEF HomeNames
        <2> QED
            BY <2>1, <2>2, <2>4, <2>5, <2>6 DEF HomeNames
    <1>4. ASSUME DropPin PROVE HomeNames'
        BY <1>4
           DEF HomeNames, TypeOK, DropPin, thread, db, locals, watchers,
               histories
    <1>5. ASSUME Restart PROVE HomeNames'
        <2>1. home' = home /\ name' = 1 /\ named' = named /\ ~renaming'
            BY <1>5 DEF Restart
        <2>2. named \in Nat \ {0}
            BY DEF TypeOK, Names
        <2> QED
            BY <2>1, <2>2 DEF HomeNames
    <1> QED
        BY <1>1, <1>2, <1>3, <1>4, <1>5
           DEF Next, ChatStep, ChildStep, WatcherStep, vars, thread, db,
               locals, watchers, histories, Enter, PinThread, Build, TakeLock,
               ChildOpens, ChildCalls, ChildEnds, Adopt, AdoptPin, Return,
               Seed, PollRows, FetchAndPush, WatcherEnds, OthersOpen

\* A session that a turn may adopt has no title.
Untitled ==
    \A c \in Calls : pc[c] \in {"run", "adopt"} =>
        \A s \in DOMAIN sessions :
            s > start[c] /\ sessions[s].source = "mesh" => sessions[s].title = 0

LEMMA KeepsUntitled ==
    ASSUME TypeOK, OneHolds, Untitled, [Next]_vars
    PROVE  Untitled'
    <1>1. CASE UNCHANGED <<pc, start, sessions>>
        BY <1>1 DEF Untitled
    <1>2. ASSUME NEW c \in Calls, Enter(c) PROVE Untitled'
        BY <1>2
           DEF Untitled, TypeOK, Enter, thread, db, locals, watchers, histories
    <1>3. ASSUME NEW c \in Calls, PinThread(c) PROVE Untitled'
        BY <1>3
           DEF Untitled, TypeOK, PinThread, thread, db, locals, watchers,
               histories
    <1>4. ASSUME NEW c \in Calls, Build(c) PROVE Untitled'
        BY <1>4
           DEF Untitled, TypeOK, Build, thread, db, locals, watchers, histories
    <1>5. ASSUME NEW c \in Calls, TakeLock(c) PROVE Untitled'
        <2>1. sessions' = sessions /\ start'[c] = Len(sessions)
            BY <1>5 DEF TakeLock, db, TypeOK
        <2>2. \A d \in Calls \ {c} : pc'[d] = pc[d] /\ start'[d] = start[d]
            BY <1>5 DEF TakeLock, TypeOK
        <2>3. \A s \in DOMAIN sessions : ~(s > Len(sessions))
            BY Typed DEF StoreTyped
        <2> QED
            BY <2>1, <2>2, <2>3 DEF Untitled
    <1>6. ASSUME NEW c \in Calls, ChildOpens(c) PROVE Untitled'
        <2>1. UNCHANGED <<pc, start>>
            BY <1>6 DEF ChildOpens, locals
        <2>2. \A s \in DOMAIN sessions' :
                  \/ s \in DOMAIN sessions /\ sessions'[s] = sessions[s]
                  \/ sessions'[s].source = "mesh" => sessions'[s].title = 0
            BY <1>6, OpenedStore DEF NewSession
        <2> QED
            BY <2>1, <2>2 DEF Untitled
    <1>7. ASSUME NEW c \in Calls, ChildEnds(c) PROVE Untitled'
        BY <1>7
           DEF Untitled, TypeOK, ChildEnds, thread, db, locals, watchers,
               histories
    <1>8. ASSUME NEW c \in Calls, Adopt(c) PROVE Untitled'
        <2>1. pc[c] = "adopt" /\ pc'[c] \in {"recap", "adopted"}
            BY <1>8 DEF Adopt, TypeOK
        <2>2. \A d \in Calls \ {c} : pc'[d] \notin {"run", "adopt"}
            <3>1. \A d \in Calls \ {c} : pc'[d] = pc[d]
                BY <1>8 DEF Adopt, TypeOK
            <3>2. \A d \in Calls \ {c} : pc[d] \notin Holding
                BY <2>1, SoleHolder DEF Holding
            <3> QED
                BY <3>1, <3>2 DEF Holding
        <2> QED
            BY <2>1, <2>2 DEF Untitled
    <1>9. ASSUME NEW c \in Calls, AdoptPin(c) PROVE Untitled'
        BY <1>9
           DEF Untitled, TypeOK, AdoptPin, thread, db, locals, watchers,
               histories
    <1>10. ASSUME NEW c \in Calls, ToolRecap(c) PROVE Untitled'
        BY <1>10
           DEF Untitled, TypeOK, ToolRecap, thread, db, locals, watchers,
               histories
    <1>11. ASSUME NEW c \in Calls, Return(c) PROVE Untitled'
        BY <1>11
           DEF Untitled, TypeOK, Return, thread, db, locals, watchers,
               histories
    <1>12. ASSUME OthersOpen PROVE Untitled'
        <2>1. UNCHANGED <<pc, start>>
            BY <1>12 DEF OthersOpen, locals
        <2>2. \A s \in DOMAIN sessions' :
                  \/ s \in DOMAIN sessions /\ sessions'[s] = sessions[s]
                  \/ sessions'[s].title = 0
            BY <1>12, OthersStore
        <2> QED
            BY <2>1, <2>2 DEF Untitled
    <1>13. ASSUME Restart PROVE Untitled'
        BY <1>13
           DEF Untitled, TypeOK, Restart, thread, db, locals, watchers,
               histories
    <1> QED
        BY <1>1, <1>2, <1>3, <1>4, <1>5, <1>6, <1>7, <1>8, <1>9, <1>10, <1>11,
           <1>12, <1>13
           DEF Next, ChatStep, ChildStep, WatcherStep, vars, thread, db,
               locals, watchers, histories, ChildCalls, Seed, PollRows,
               FetchAndPush, WatcherEnds, NewName, DropPin

\* Under its configured name, all that the thread refers to bears that name: so
\* that it is found again after a restart.
Named(s) == s \in DOMAIN sessions /\ sessions[s].title = 1

First ==
    name = 1 =>
        /\ pin /= 0 => Named(pin)
        /\ \A c \in Calls :
              /\ pc[c] \in {"pin", "adopted"} /\ found[c] /= 0 => Named(found[c])
              /\ pc[c] \in Committed =>
                    /\ cmd[c].way = "resume" => Named(cmd[c].to)
                    /\ cmd[c].way = "named" => cmd[c].to = 1
                    /\ cmd[c].way = "named" /\ ran[c] /= 0 => Named(ran[c])

\* As long as it keeps that name, so do its sessions.
LEMMA NamedStays ==
    ASSUME TypeOK, [Next]_vars, name = 1
    PROVE  \A s : Named(s) => Named(s)'
    <1>1. CASE sessions' = sessions
        BY <1>1 DEF Named
    <1>2. ASSUME NEW c \in Calls, ChildOpens(c)
          PROVE  \A s : Named(s) => Named(s)'
        BY <1>2, OpenedStore DEF Named
    <1>3. ASSUME OthersOpen PROVE \A s : Named(s) => Named(s)'
        BY <1>3, OthersStore DEF Named
    <1>4. ASSUME NEW c \in Calls, Adopt(c), sessions' /= sessions
          PROVE  \A s : Named(s) => Named(s)'
        <2>1. /\ found'[c] \in DOMAIN sessions
              /\ sessions' = [sessions EXCEPT ![found'[c]].title = name]
            BY <1>4, AdoptedStore DEF Candidates
        <2>2. \A s \in DOMAIN sessions : sessions[s] \in Sessions
            BY Typed DEF StoreTyped
        <2> QED
            BY <2>1, <2>2 DEF Named, Sessions
    <1> QED
        BY <1>1, <1>2, <1>3, <1>4
           DEF Next, ChatStep, ChildStep, WatcherStep, vars, db, Enter,
               PinThread, Build, TakeLock, ChildCalls, ChildEnds, AdoptPin,
               ToolRecap, Return, Seed, PollRows, FetchAndPush, WatcherEnds,
               NewName, DropPin, Restart

LEMMA KeepsFirst ==
    ASSUME TypeOK, Untouched, First, [Next]_vars
    PROVE  First'
    <1>1. CASE UNCHANGED <<name, pin, pc, found, cmd, ran, sessions>>
        BY <1>1 DEF First, Named
    <1>2. ASSUME NEW c \in Calls, Enter(c) PROVE First'
        <2>1. name' = name
            BY <1>2 DEF Enter, thread
        <2> SUFFICES ASSUME name = 1 PROVE First'
            BY <2>1 DEF First
        <2>2. \A s : Named(s) => Named(s)'
            BY NamedStays

        <2>3. UNCHANGED <<pin, cmd, ran, sessions>>
            BY <1>2 DEF Enter, thread, db
        <2>4. Titled(name) /= 0 => Named(Titled(name))
            BY Typed, TitledIs DEF Named
        <2>5. \A d \in Calls \ {c} : pc'[d] = pc[d] /\ found'[d] = found[d]
            BY <1>2 DEF Enter, TypeOK
        <2>6. /\ pc'[c] \in {"pin", "build"}
              /\ pc'[c] = "pin" => found'[c] = Titled(name)
            BY <1>2 DEF Enter, TypeOK
        <2> QED
            BY <2>3, <2>4, <2>5, <2>6 DEF First, Named, Committed, Holding
    <1>3. ASSUME NEW c \in Calls, PinThread(c) PROVE First'
        <2>1. name' = name
            BY <1>3 DEF PinThread, thread
        <2> SUFFICES ASSUME name = 1 PROVE First'
            BY <2>1 DEF First
        <2>2. \A s : Named(s) => Named(s)'
            BY NamedStays

        <2>3. UNCHANGED <<cmd, ran, sessions, found>> /\ pc[c] = "pin"
            BY <1>3 DEF PinThread, locals, db
        <2>4. pin' /= 0 => Named(pin')
            BY <1>3, <2>3 DEF PinThread, First
        <2>5. pc' = [pc EXCEPT ![c] = "build"]
            BY <1>3 DEF PinThread
        <2> QED
            BY <2>3, <2>4, <2>5 DEF First, Named, Committed, Holding, TypeOK
    <1>4. ASSUME NEW c \in Calls, Build(c) PROVE First'
        <2>1. name' = name
            BY <1>4 DEF Build, thread
        <2> SUFFICES ASSUME name = 1 PROVE First'
            BY <2>1 DEF First
        <2>2. \A s : Named(s) => Named(s)'
            BY NamedStays

        <2>3. UNCHANGED <<pin, ran, sessions, found>> /\ ran[c] = 0
            BY <1>4 DEF Build, thread, db, Untouched, Early
        <2>4. \A d \in Calls \ {c} : pc'[d] = pc[d] /\ cmd'[d] = cmd[d]
            BY <1>4 DEF Build, TypeOK
        <2>5. /\ pc'[c] = "queued"
              /\ cmd'[c].way = "resume" => pin /= 0 /\ cmd'[c].to = pin
              /\ cmd'[c].way = "named" => cmd'[c].to = name
            BY <1>4 DEF Build, TypeOK
        <2> QED
            BY <2>3, <2>4, <2>5 DEF First, Named
    <1>5. ASSUME NEW c \in Calls, TakeLock(c) PROVE First'
        <2>1. name' = name
            BY <1>5 DEF TakeLock, thread
        <2> SUFFICES ASSUME name = 1 PROVE First'
            BY <2>1 DEF First
        <2>2. \A s : Named(s) => Named(s)'
            BY NamedStays

        <2>3. UNCHANGED <<pin, cmd, ran, sessions, found>>
            BY <1>5 DEF TakeLock, thread, db
        <2>4. \A d \in Calls \ {c} : pc'[d] = pc[d]
            BY <1>5 DEF TakeLock, TypeOK
        <2>5. pc[c] = "queued" /\ pc'[c] = "run"
            BY <1>5 DEF TakeLock, TypeOK
        <2> QED
            BY <2>3, <2>4, <2>5 DEF First, Named, Committed, Holding
    <1>6. ASSUME NEW c \in Calls, ChildOpens(c) PROVE First'
        <2>1. name' = name
            BY <1>6 DEF ChildOpens, thread
        <2> SUFFICES ASSUME name = 1 PROVE First'
            BY <2>1 DEF First
        <2>2. \A s : Named(s) => Named(s)'
            BY NamedStays

        <2>3. UNCHANGED <<pin, cmd, found, pc>> /\ pc[c] = "run"
            BY <1>6 DEF ChildOpens, thread
        <2>4. \A d \in Calls \ {c} : ran'[d] = ran[d]
            BY <1>6, OpensIs DEF TypeOK
        <2>5. cmd[c].way = "named" => ran'[c] \in DOMAIN sessions' /\ sessions'[ran'[c]].title = 1
            <3> SUFFICES ASSUME cmd[c].way = "named"
                         PROVE  ran'[c] \in DOMAIN sessions' /\ sessions'[ran'[c]].title = 1
                OBVIOUS
            <3>1. cmd[c].to = 1 /\ Told(c) = Titled(1)
                BY <2>3, ToldIs DEF First, Committed, Holding
            <3>2. CASE Told(c) /= 0
                <4>1. ran'[c] = Told(c) /\ sessions' = sessions
                    BY <1>6, <3>2, OpensIs
                <4> QED
                    BY <3>1, <3>2, <4>1, Typed, TitledIs
            <3>3. CASE Told(c) = 0
                <4>1. ran'[c] = Len(sessions) + 1
                    BY <1>6, <3>3, OpensIs
                <4>0. Len(sessions) \in Nat /\ DOMAIN sessions = 1..Len(sessions)
                    BY Typed DEF StoreTyped
                <4>2. ran'[c] \in DOMAIN sessions'
                    BY <1>6, <3>3, <4>1, <4>0, OpenedStore
                <4>3. ran'[c] \notin DOMAIN sessions
                    BY <4>0, <4>1
                <4>4. sessions'[ran'[c]] = NewSession(c)
                    BY <1>6, <4>2, <4>3, OpenedStore
                <4> QED
                    BY <3>1, <4>2, <4>4 DEF NewSession
            <3> QED
                BY <3>2, <3>3
        <2>6. \A d \in Calls : pc[d] \in Committed =>
                  /\ cmd[d].way = "resume" => Named(cmd[d].to)'
                  /\ cmd[d].way = "named" => cmd[d].to = 1
                  /\ cmd[d].way = "named" /\ ran'[d] /= 0 =>
                        ran'[d] \in DOMAIN sessions' /\ sessions'[ran'[d]].title = 1
            BY <2>2, <2>3, <2>4, <2>5 DEF First, Named
        <2> QED
            BY <2>2, <2>3, <2>6 DEF First, Named
    <1>7. ASSUME NEW c \in Calls, ChildEnds(c) PROVE First'
        <2>1. name' = name
            BY <1>7 DEF ChildEnds, thread
        <2> SUFFICES ASSUME name = 1 PROVE First'
            BY <2>1 DEF First
        <2>2. \A s : Named(s) => Named(s)'
            BY NamedStays

        <2>3. UNCHANGED <<pin, cmd, ran, sessions, found>>
            BY <1>7 DEF ChildEnds, thread, db, locals
        <2>4. \A d \in Calls \ {c} : pc'[d] = pc[d]
            BY <1>7 DEF ChildEnds, TypeOK
        <2>5. pc[c] = "run" /\ pc'[c] \in {"adopt", "recap"}
            BY <1>7 DEF ChildEnds, TypeOK
        <2> QED
            BY <2>3, <2>4, <2>5 DEF First, Named, Committed, Holding
    <1>8. ASSUME NEW c \in Calls, Adopt(c) PROVE First'
        <2>1. name' = name
            BY <1>8 DEF Adopt, thread
        <2> SUFFICES ASSUME name = 1 PROVE First'
            BY <2>1 DEF First
        <2>2. \A s : Named(s) => Named(s)'
            BY NamedStays

        <2>3. UNCHANGED <<pin, cmd, ran>> /\ pc[c] = "adopt"
            BY <1>8 DEF Adopt, thread
        <2>4. \A d \in Calls \ {c} : pc'[d] = pc[d]
            BY <1>8 DEF Adopt, TypeOK
        <2>5. CASE found' = found /\ pc' = [pc EXCEPT ![c] = "recap"]
            <3>1. pc'[c] = "recap"
                BY <2>5 DEF TypeOK
            <3> QED
                BY <2>2, <2>3, <2>4, <2>5, <3>1
                   DEF First, Named, Committed, Holding
        <2>6. CASE /\ found'[c] \in Candidates(c)
                   /\ found' = [found EXCEPT ![c] = found'[c]]
                   /\ sessions' = [sessions EXCEPT ![found'[c]].title = name]
                   /\ pc' = [pc EXCEPT ![c] = "adopted"]
            <3>1. /\ pc'[c] = "adopted"
                  /\ \A d \in Calls \ {c} : found'[d] = found[d]
                BY <2>6 DEF TypeOK
            <3>2. /\ found'[c] \in DOMAIN sessions'
                  /\ sessions'[found'[c]].title = 1
                <4>1. found'[c] \in DOMAIN sessions
                    BY <2>6 DEF Candidates
                <4>2. sessions[found'[c]] \in Sessions
                    BY <4>1, Typed DEF StoreTyped
                <4> QED
                    BY <2>6, <4>1, <4>2 DEF Sessions
            <3> QED
                BY <2>2, <2>3, <2>4, <3>1, <3>2
                   DEF First, Named, Committed, Holding
        <2> QED
            BY <1>8, <2>5, <2>6, AdoptedStore
    <1>9. ASSUME NEW c \in Calls, AdoptPin(c) PROVE First'
        <2>1. name' = name
            BY <1>9 DEF AdoptPin, thread
        <2> SUFFICES ASSUME name = 1 PROVE First'
            BY <2>1 DEF First
        <2>2. \A s : Named(s) => Named(s)'
            BY NamedStays

        <2>3. UNCHANGED <<cmd, ran, sessions, found>> /\ pc[c] = "adopted"
            BY <1>9 DEF AdoptPin, db, locals
        <2>4. pin' /= 0 => Named(pin')
            BY <1>9, <2>3 DEF AdoptPin, First
        <2>5. pc'[c] = "recap" /\ \A d \in Calls \ {c} : pc'[d] = pc[d]
            BY <1>9 DEF AdoptPin, TypeOK
        <2> QED
            BY <2>3, <2>4, <2>5 DEF First, Named, Committed, Holding
    <1>10. ASSUME NEW c \in Calls, ToolRecap(c) PROVE First'
        <2>1. name' = name
            BY <1>10 DEF ToolRecap, thread
        <2> SUFFICES ASSUME name = 1 PROVE First'
            BY <2>1 DEF First
        <2>2. \A s : Named(s) => Named(s)'
            BY NamedStays

        <2>3. UNCHANGED <<pin, cmd, ran, sessions, found>>
            BY <1>10 DEF ToolRecap, thread, db, locals
        <2>4. \A d \in Calls \ {c} : pc'[d] = pc[d]
            BY <1>10 DEF ToolRecap, TypeOK
        <2>5. pc'[c] \in {"return", "done"}
            BY <1>10 DEF ToolRecap, TypeOK
        <2> QED
            BY <2>3, <2>4, <2>5 DEF First, Named, Committed, Holding
    <1>11. ASSUME NEW c \in Calls, Return(c) PROVE First'
        <2>1. name' = name
            BY <1>11 DEF Return, thread
        <2> SUFFICES ASSUME name = 1 PROVE First'
            BY <2>1 DEF First
        <2>2. \A s : Named(s) => Named(s)'
            BY NamedStays

        <2>3. UNCHANGED <<pin, cmd, ran, sessions, found>>
            BY <1>11 DEF Return, thread, db, locals
        <2>4. \A d \in Calls \ {c} : pc'[d] = pc[d]
            BY <1>11 DEF Return, TypeOK
        <2>5. pc'[c] \in {"return", "done"}
            BY <1>11 DEF Return, TypeOK
        <2> QED
            BY <2>3, <2>4, <2>5 DEF First, Named, Committed, Holding
    <1>12. ASSUME NewName PROVE First'
        <2>1. name' = named + 1 /\ named \in Nat \ {0}
            BY <1>12 DEF NewName, TypeOK, Names
        <2> QED
            BY <2>1 DEF First
    <1>13. ASSUME DropPin PROVE First'
        <2>1. name' = name
            BY <1>13 DEF DropPin, thread
        <2> SUFFICES ASSUME name = 1 PROVE First'
            BY <2>1 DEF First
        <2>2. \A s : Named(s) => Named(s)'
            BY NamedStays

        <2>3. UNCHANGED <<pc, cmd, ran, sessions, found>> /\ pin' = 0
            BY <1>13 DEF DropPin, db, locals
        <2> QED
            BY <2>3 DEF First, Named
    <1>14. ASSUME OthersOpen PROVE First'
        <2>1. name' = name
            BY <1>14 DEF OthersOpen, thread
        <2> SUFFICES ASSUME name = 1 PROVE First'
            BY <2>1 DEF First
        <2>2. \A s : Named(s) => Named(s)'
            BY NamedStays

        <2>3. UNCHANGED <<pc, pin, cmd, ran, found>>
            BY <1>14 DEF OthersOpen, thread, locals
        <2> QED
            BY <2>2, <2>3 DEF First, Named
    <1>15. ASSUME Restart PROVE First'
        <2>1. pin' = 0 /\ \A d \in Calls : pc'[d] \in {"new", "done"}
            BY <1>15 DEF Restart
        <2> QED
            BY <2>1 DEF First, Committed, Holding
    <1> QED
        BY <1>1, <1>2, <1>3, <1>4, <1>5, <1>6, <1>7, <1>8, <1>9, <1>10, <1>11,
           <1>12, <1>13, <1>14, <1>15
           DEF Next, ChatStep, ChildStep, WatcherStep, vars, thread, db,
               locals, watchers, histories, ChildCalls, Seed, PollRows,
               FetchAndPush, WatcherEnds

\* The thread stands for session h, whoever asks, and however it is resolved.
Settled(h) ==
    /\ ~renaming
    /\ \/ pin = h
       \/ pin = 0 /\ TitledIn(sessions, name) = h
    /\ \A c \in Calls :
          /\ pc[c] \notin {"adopt", "adopted"}
          /\ pc[c] = "pin" => found[c] = h
          /\ pc[c] \in {"queued", "run"} =>
                \/ cmd[c].way = "resume" /\ cmd[c].to = h
                \/ cmd[c].way = "named" /\ TitledIn(sessions, cmd[c].to) = h

\* Then a child opens that session.
LEMMA OpensSettled ==
    ASSUME TypeOK, NEW h \in Ids \ {0}, Settled(h),
           NEW c \in Calls, ChildOpens(c)
    PROVE  ran'[c] = h /\ sessions' = sessions
    <1>1. pc[c] = "run"
        BY DEF ChildOpens
    <1>2. Told(c) = h
        BY <1>1, ToldIs, TitledIsIn DEF Settled
    <1> QED
        BY <1>2, OpensIs

\* Until a /new or a restart, it stays that session.
LEMMA TitlesStay ==
    ASSUME TypeOK, NEW h \in Ids \ {0}, Settled(h), [Next]_vars,
           NEW n \in Names
    PROVE  TitledIn(sessions', n) = TitledIn(sessions, n)
    <1>1. CASE sessions' = sessions
        BY <1>1
    <1>2. ASSUME NEW c \in Calls, ChildOpens(c) PROVE sessions' = sessions
        BY <1>2, OpensSettled
    <1>3. ASSUME NEW c \in Calls, Adopt(c) PROVE FALSE
        BY <1>3 DEF Adopt, Settled
    <1>4. CASE OthersOpen
        BY <1>4, OthersUntitled
    <1> QED
        BY <1>1, <1>2, <1>3, <1>4
           DEF Next, ChatStep, ChildStep, WatcherStep, vars, db, Enter,
               PinThread, Build, TakeLock, ChildCalls, ChildEnds, AdoptPin,
               ToolRecap, Return, Seed, PollRows, FetchAndPush, WatcherEnds,
               NewName, DropPin, Restart

LEMMA KeepsSettled ==
    ASSUME TypeOK, NEW h \in Ids \ {0}, ~NewName, ~Restart, Settled(h),
           [Next]_vars
    PROVE  Settled(h)'
    <1>1. CASE UNCHANGED <<renaming, pin, name, sessions, pc, found, cmd>>
        BY <1>1 DEF Settled
    <1>2. ASSUME NEW c \in Calls, Enter(c) PROVE Settled(h)'
        <2>1. /\ name \in Names
              /\ \A n \in Names : TitledIn(sessions', n) = TitledIn(sessions, n)
            BY TitlesStay DEF TypeOK
        <2>2. \A d \in Calls : cmd[d].way = "named" => cmd[d].to \in Names
            BY ToldIs

        <2>3. UNCHANGED <<renaming, pin, name, cmd>>
            BY <1>2 DEF Enter, thread, db, locals, watchers, histories
        <2>4. \A d \in Calls \ {c} : pc'[d] = pc[d] /\ found'[d] = found[d]
            BY <1>2 DEF Enter, TypeOK
        <2>5. /\ pc'[c] \in {"pin", "build"}
              /\ pc'[c] = "pin" => pin = 0 /\ found'[c] = TitledIn(sessions, name)
            BY <1>2, TitledIsIn DEF Enter, TypeOK
        <2> QED
            BY <2>1, <2>2, <2>3, <2>4, <2>5 DEF Settled
    <1>3. ASSUME NEW c \in Calls, PinThread(c) PROVE Settled(h)'
        <2>1. /\ name \in Names
              /\ \A n \in Names : TitledIn(sessions', n) = TitledIn(sessions, n)
            BY TitlesStay DEF TypeOK
        <2>2. \A d \in Calls : cmd[d].way = "named" => cmd[d].to \in Names
            BY ToldIs

        <2>3. UNCHANGED <<renaming, name, found, cmd>> /\ pin' = h
            BY <1>3
               DEF PinThread, Settled, thread, db, locals, watchers, histories
        <2>4. \A d \in Calls \ {c} : pc'[d] = pc[d]
            BY <1>3 DEF PinThread, TypeOK
        <2>5. pc'[c] = "build"
            BY <1>3 DEF PinThread, TypeOK
        <2> QED
            BY <2>1, <2>2, <2>3, <2>4, <2>5 DEF Settled
    <1>4. ASSUME NEW c \in Calls, Build(c) PROVE Settled(h)'
        <2>1. /\ name \in Names
              /\ \A n \in Names : TitledIn(sessions', n) = TitledIn(sessions, n)
            BY TitlesStay DEF TypeOK
        <2>2. \A d \in Calls : cmd[d].way = "named" => cmd[d].to \in Names
            BY ToldIs

        <2>3. UNCHANGED <<renaming, pin, name, found>>
            BY <1>4 DEF Build, thread, db, locals, watchers, histories
        <2>4. \A d \in Calls \ {c} : pc'[d] = pc[d] /\ cmd'[d] = cmd[d]
            BY <1>4 DEF Build, TypeOK
        <2>5. /\ pc'[c] = "queued"
              /\ \/ pin /= 0 /\ cmd'[c].way = "resume" /\ cmd'[c].to = pin
                 \/ /\ pin = 0 /\ cmd'[c].way = "named" /\ cmd'[c].to = name
                 \/ pin = 0 /\ TitledIn(sessions, name) = 0
            BY <1>4, TitledIsIn DEF Build, TypeOK
        <2> QED
            BY <2>1, <2>2, <2>3, <2>4, <2>5 DEF Settled
    <1>5. ASSUME NEW c \in Calls, TakeLock(c) PROVE Settled(h)'
        <2>1. /\ name \in Names
              /\ \A n \in Names : TitledIn(sessions', n) = TitledIn(sessions, n)
            BY TitlesStay DEF TypeOK
        <2>2. \A d \in Calls : cmd[d].way = "named" => cmd[d].to \in Names
            BY ToldIs

        <2>3. UNCHANGED <<renaming, pin, name, found, cmd>>
            BY <1>5 DEF TakeLock, thread, db, locals, watchers, histories
        <2>4. \A d \in Calls \ {c} : pc'[d] = pc[d]
            BY <1>5 DEF TakeLock, TypeOK
        <2>5. pc[c] = "queued" /\ pc'[c] = "run"
            BY <1>5 DEF TakeLock, TypeOK
        <2> QED
            BY <2>1, <2>2, <2>3, <2>4, <2>5 DEF Settled
    <1>6. ASSUME NEW c \in Calls, ChildOpens(c) PROVE Settled(h)'
        <2>1. /\ name \in Names
              /\ \A n \in Names : TitledIn(sessions', n) = TitledIn(sessions, n)
            BY TitlesStay DEF TypeOK
        <2>2. \A d \in Calls : cmd[d].way = "named" => cmd[d].to \in Names
            BY ToldIs

        <2>3. UNCHANGED <<renaming, pin, name, found, cmd, pc>>
            BY <1>6 DEF ChildOpens, thread, db, locals, watchers, histories
        <2> QED
            BY <2>1, <2>2, <2>3 DEF Settled
    <1>7. ASSUME NEW c \in Calls, ChildEnds(c) PROVE Settled(h)'
        <2>1. /\ name \in Names
              /\ \A n \in Names : TitledIn(sessions', n) = TitledIn(sessions, n)
            BY TitlesStay DEF TypeOK
        <2>2. \A d \in Calls : cmd[d].way = "named" => cmd[d].to \in Names
            BY ToldIs

        <2>3. UNCHANGED <<renaming, pin, name, found, cmd>>
            BY <1>7 DEF ChildEnds, thread, db, locals, watchers, histories
        <2>4. \A d \in Calls \ {c} : pc'[d] = pc[d]
            BY <1>7 DEF ChildEnds, TypeOK
        <2>5. pc'[c] = "recap"
            BY <1>7 DEF ChildEnds, TypeOK, Settled
        <2> QED
            BY <2>1, <2>2, <2>3, <2>4, <2>5 DEF Settled
    <1>8. ASSUME NEW c \in Calls, Adopt(c) PROVE Settled(h)'
        BY <1>8 DEF Adopt, Settled
    <1>9. ASSUME NEW c \in Calls, AdoptPin(c) PROVE Settled(h)'
        BY <1>9 DEF AdoptPin, Settled
    <1>10. ASSUME NEW c \in Calls, ToolRecap(c) PROVE Settled(h)'
        <2>1. /\ name \in Names
              /\ \A n \in Names : TitledIn(sessions', n) = TitledIn(sessions, n)
            BY TitlesStay DEF TypeOK
        <2>2. \A d \in Calls : cmd[d].way = "named" => cmd[d].to \in Names
            BY ToldIs

        <2>3. UNCHANGED <<renaming, pin, name, found, cmd>>
            BY <1>10 DEF ToolRecap, thread, db, locals, watchers, histories
        <2>4. \A d \in Calls \ {c} : pc'[d] = pc[d]
            BY <1>10 DEF ToolRecap, TypeOK
        <2>5. pc[c] = "recap" /\ pc'[c] = "return"
            BY <1>10 DEF ToolRecap, TypeOK
        <2> QED
            BY <2>1, <2>2, <2>3, <2>4, <2>5 DEF Settled
    <1>11. ASSUME NEW c \in Calls, Return(c) PROVE Settled(h)'
        <2>1. /\ name \in Names
              /\ \A n \in Names : TitledIn(sessions', n) = TitledIn(sessions, n)
            BY TitlesStay DEF TypeOK
        <2>2. \A d \in Calls : cmd[d].way = "named" => cmd[d].to \in Names
            BY ToldIs

        <2>3. UNCHANGED <<renaming, pin, name, found, cmd>>
            BY <1>11 DEF Return, thread, db, locals, watchers, histories
        <2>4. \A d \in Calls \ {c} : pc'[d] = pc[d]
            BY <1>11 DEF Return, TypeOK
        <2>5. pc[c] = "return" /\ pc'[c] = "done"
            BY <1>11 DEF Return, TypeOK
        <2> QED
            BY <2>1, <2>2, <2>3, <2>4, <2>5 DEF Settled
    <1>12. ASSUME NewName PROVE Settled(h)'
        BY <1>12
    <1>13. ASSUME DropPin PROVE Settled(h)'
        BY <1>13 DEF DropPin, Settled
    <1>14. ASSUME OthersOpen PROVE Settled(h)'
        <2>1. /\ name \in Names
              /\ \A n \in Names : TitledIn(sessions', n) = TitledIn(sessions, n)
            BY TitlesStay DEF TypeOK
        <2>2. \A d \in Calls : cmd[d].way = "named" => cmd[d].to \in Names
            BY ToldIs

        <2>3. UNCHANGED <<renaming, pin, name, found, cmd, pc>>
            BY <1>14 DEF OthersOpen, thread, db, locals, watchers, histories
        <2> QED
            BY <2>1, <2>2, <2>3 DEF Settled
    <1>15. ASSUME Restart PROVE Settled(h)'
        BY <1>15
    <1> QED
        BY <1>1, <1>2, <1>3, <1>4, <1>5, <1>6, <1>7, <1>8, <1>9, <1>10, <1>11,
           <1>12, <1>13, <1>14, <1>15
           DEF Next, ChatStep, ChildStep, WatcherStep, vars, thread, db,
               locals, watchers, histories, ChildCalls, Seed, PollRows,
               FetchAndPush, WatcherEnds

\* The sessions of which that is so.
SettledAt == {h \in Ids \ {0} : Settled(h)}

LEMMA SettledStays ==
    ASSUME TypeOK, ~NewName, ~Restart, [Next]_vars
    PROVE  SettledAt \subseteq SettledAt'
    <1>1. ASSUME NEW h \in Ids \ {0}, Settled(h) PROVE Settled(h)'
        BY <1>1, KeepsSettled
    <1> QED
        BY <1>1 DEF SettledAt

\* A call that owes the thread its conversation finds it; so will the next one;
\* and after a restart the configured name still stands for its home.
Owes == \A c \in Calls : due[c] /= 0 /\ InTurn(c) => due[c] \in SettledAt

AtHome == ~renaming /\ home[name] /= 0 => home[name] \in SettledAt

FirstHome == home[1] /= 0 => TitledIn(sessions, 1) = home[1]

LEMMA KeepsOwes ==
    ASSUME TypeOK, Owes, AtHome, [Next]_vars
    PROVE  Owes'
    <1> SUFFICES ASSUME NEW c \in Calls, due'[c] /= 0, InTurn(c)'
                 PROVE  due'[c] \in SettledAt'
        BY DEF Owes
    <1>1. ~Restart
        BY DEF Restart, InTurn, TypeOK
    <1>2. ~NewName
        BY DEF NewName, InTurn, InFlight, TypeOK
    <1>3. SettledAt \subseteq SettledAt'
        BY <1>1, <1>2, SettledStays
    <1>4. CASE Enter(c)
        <2>1. due'[c] = home[name] /\ ~renaming
            BY <1>4 DEF Enter, TypeOK
        <2> QED
            BY <1>3, <2>1 DEF AtHome
    <1>5. CASE ~Enter(c)
        <2>1. ASSUME NEW d \in Calls, Enter(d) PROVE due'[c] = due[c]
            BY <1>5, <2>1 DEF Enter, TypeOK
        <2>2. ASSUME \A d \in Calls : ~Enter(d) PROVE due' = due
            <3>1. ASSUME NEW d \in Calls, ChatStep(d) PROVE due' = due
                BY <2>2, <3>1 DEF ChatStep, PinThread, Build, TakeLock, Adopt,
                                  AdoptPin, ToolRecap, Return, histories
            <3>2. ASSUME NEW d \in Calls, ChildStep(d) \/ WatcherStep(d)
                  PROVE  due' = due
                BY <3>2 DEF ChildStep, ChildOpens, ChildCalls, ChildEnds,
                            WatcherStep, Seed, PollRows, FetchAndPush,
                            WatcherEnds, histories
            <3>3. ASSUME DropPin \/ OthersOpen PROVE due' = due
                BY <3>3 DEF DropPin, OthersOpen, histories
            <3> QED
                BY <1>1, <1>2, <3>1, <3>2, <3>3 DEF Next, vars, histories
        <2>3. due'[c] = due[c] /\ InTurn(c)
            BY <1>5, <2>1, <2>2, TurnBegins
        <2> QED
            BY <1>3, <2>3 DEF Owes
    <1> QED
        BY <1>4, <1>5

\* Where a turn that met no other, and whose session is kept, leaves the thread.
LEMMA KeptIsHome ==
    ASSUME TypeOK, OneHolds, RefersKnown, Resumes, Solo, AloneOK,
           NEW c \in Calls, ToolRecap(c), alone[c], Kept(c)
    PROVE  /\ Settled(ran[c])' /\ ran[c] \in Ids \ {0}
           /\ pin = ran[c] \/ (pin = 0 /\ TitledIn(sessions, name) = ran[c])
    <1>1. pc[c] = "recap" /\ InFlight(c) /\ pc[c] \in Committed
        BY DEF ToolRecap, InFlight, Committed, Holding
    <1>2. ~renaming /\ \A d \in Calls \ {c} : ~InFlight(d)
        BY <1>1 DEF Solo
    <1>3. ran[c] \in Ids \ {0}
        BY DEF Kept, TypeOK
    <1>4. pin = ran[c] \/ (pin = 0 /\ TitledIn(sessions, name) = ran[c])
        <2>1. CommandsPin(c)
            BY <1>1 DEF AloneOK
        <2>2. CASE cmd[c].way = "resume"
            BY <1>1, <1>3, <2>1, <2>2 DEF CommandsPin, Resumes
        <2>3. CASE cmd[c].way = "named"
            BY <1>1, <1>3, <2>1, <2>3, TitledIsIn DEF CommandsPin
        <2>4. CASE cmd[c].way = "fresh"
            BY <2>4 DEF Kept
        <2> QED
            BY <2>2, <2>3, <2>4, ToldIs
    <1>5. UNCHANGED <<renaming, pin, name, sessions, found, cmd>>
        BY DEF ToolRecap, thread, db
    <1>6. \A d \in Calls : pc'[d] \in {"new", "return", "done"}
        <2>1. pc' = [pc EXCEPT ![c] = "return"]
            BY DEF ToolRecap
        <2> QED
            BY <1>2, <2>1 DEF InFlight, TypeOK
    <1>7. Settled(ran[c])'
        <2>1. ran' = ran
            BY DEF ToolRecap
        <2> QED
            BY <1>2, <1>4, <1>5, <1>6, <2>1 DEF Settled
    <1> QED
        BY <1>3, <1>4, <1>7

LEMMA KeepsAtHome ==
    ASSUME TypeOK, OneHolds, RefersKnown, Resumes, Solo, AloneOK, HomeNames,
           AtHome, FirstHome, [Next]_vars
    PROVE  AtHome'
    <1>1. ASSUME NewName PROVE AtHome'
        BY <1>1 DEF NewName, AtHome
    <1>2. ASSUME Restart PROVE AtHome'
        <2>1. /\ UNCHANGED <<home, sessions>> /\ name' = 1 /\ pin' = 0
              /\ ~renaming' /\ \A c \in Calls : pc'[c] \in {"new", "done"}
            BY <1>2 DEF Restart, db
        <2>2. home[1] \in Ids
            <3>1. 1 \in Names
                BY SessionAssumption DEF Names
            <3> QED
                BY <3>1 DEF TypeOK
        <2>3. ASSUME home[1] /= 0 PROVE Settled(home[1])'
            BY <2>1, <2>3 DEF FirstHome, Settled
        <2> QED
            BY <2>1, <2>2, <2>3 DEF AtHome, SettledAt, Settled, FirstHome
    <1>3. CASE ~NewName /\ ~Restart
        <2>1. SettledAt \subseteq SettledAt'
            BY <1>3, SettledStays
        <2>2. name' = name
            BY <1>3
               DEF Next, vars, thread, ChatStep, ChildStep, WatcherStep, Enter,
                   PinThread, Build, TakeLock, ChildOpens, ChildCalls,
                   ChildEnds, Adopt, AdoptPin, ToolRecap, Return, Seed,
                   PollRows, FetchAndPush, WatcherEnds, DropPin, OthersOpen
        <2>3. ASSUME NEW c \in Calls, ToolRecap(c) PROVE AtHome'
            <3>1. renaming' = renaming /\ name \in Names
                BY <2>3 DEF ToolRecap, thread, TypeOK
            <3>2. CASE home' = home
                BY <2>1, <2>2, <3>1, <3>2 DEF AtHome
            <3>3. CASE home' = [n \in Names |-> 0]
                BY <2>2, <3>1, <3>3 DEF AtHome
            <3>4. CASE alone[c] /\ Kept(c) /\ home' = [home EXCEPT ![name] = ran[c]]
                <4>1. Settled(ran[c])' /\ ran[c] \in Ids \ {0}
                    BY <2>3, <3>4, KeptIsHome
                <4>2. home'[name] = ran[c] /\ ran' = ran
                    BY <2>3, <3>1, <3>4 DEF TypeOK, ToolRecap
                <4>3. ran[c] \in SettledAt'
                    BY <4>1, <4>2 DEF SettledAt, Settled
                <4> QED
                    BY <2>2, <4>2, <4>3 DEF AtHome
            <3> QED
                BY <2>3, <3>2, <3>3, <3>4 DEF ToolRecap
        <2>4. CASE /\ \A c \in Calls : ~ToolRecap(c)
                   /\ ~DropPin
            <3>1. home' = home /\ renaming' = renaming
                <4>1. ASSUME NEW c \in Calls, ChatStep(c)
                      PROVE  UNCHANGED <<home, renaming>>
                    BY <2>4, <4>1
                       DEF ChatStep, Enter, PinThread, Build, TakeLock, Adopt,
                           AdoptPin, Return, thread, histories
                <4>2. ASSUME NEW c \in Calls, ChildStep(c) \/ WatcherStep(c)
                      PROVE  UNCHANGED <<home, renaming>>
                    BY <4>2
                       DEF ChildStep, ChildOpens, ChildCalls, ChildEnds,
                           WatcherStep, Seed, PollRows, FetchAndPush,
                           WatcherEnds, thread, histories
                <4>3. ASSUME OthersOpen PROVE UNCHANGED <<home, renaming>>
                    BY <4>3 DEF OthersOpen, thread, histories
                <4> QED
                    BY <1>3, <2>4, <4>1, <4>2, <4>3
                       DEF Next, vars, thread, histories
            <3> QED
                BY <2>1, <2>2, <3>1 DEF AtHome
        <2>5. ASSUME DropPin PROVE AtHome'
            <3>1. home[name] = 0 /\ home' = home
                BY <2>5 DEF DropPin, HomeNames, histories
            <3> QED
                BY <2>2, <3>1 DEF AtHome
        <2> QED
            BY <2>3, <2>4, <2>5
    <1> QED
        BY <1>1, <1>2, <1>3

LEMMA KeepsFirstHome ==
    ASSUME TypeOK, OneHolds, RefersKnown, Resumes, Solo, AloneOK, PinsOurs,
           First, Untitled, AtHome, HomeNames, FirstHome, [Next]_vars
    PROVE  FirstHome'
    <1>1. CASE UNCHANGED <<home, sessions>>
        BY <1>1 DEF FirstHome
    <1>2. ASSUME NEW c \in Calls, ChildOpens(c) PROVE FirstHome'
        <2>1. home' = home
            BY <1>2 DEF ChildOpens, histories
        <2> SUFFICES ASSUME home[1] /= 0
                     PROVE  TitledIn(sessions', 1) = TitledIn(sessions, 1)
            BY <2>1 DEF FirstHome

        <2>2. CASE Told(c) /= 0
            <3>1. sessions' = sessions
                BY <1>2, <2>2, OpensIs
            <3> QED
                BY <3>1
        <2>3. CASE Told(c) = 0
            <3>1. /\ \A s \in DOMAIN sessions :
                        s \in DOMAIN sessions' /\ sessions'[s] = sessions[s]
                  /\ \A s \in DOMAIN sessions' :
                        s \notin DOMAIN sessions => sessions'[s] = NewSession(c)
                BY <1>2, OpenedStore
            <3>2. NewSession(c).title /= 1
                <4>1. ASSUME cmd[c].way = "named" PROVE cmd[c].to /= 1
                    <5>1. TitledIn(sessions, cmd[c].to) = 0
                        BY <2>3, <4>1, ToldIs, TitledIsIn
                    <5> QED
                        BY <5>1 DEF FirstHome
                <4> QED
                    BY <4>1 DEF NewSession
            <3>3. \A s : s \in DOMAIN sessions' /\ sessions'[s].title = 1
                         <=> s \in DOMAIN sessions /\ sessions[s].title = 1
                BY <3>1, <3>2
            <3> QED
                BY <3>3, SameTitledIn
        <2> QED
            BY <2>2, <2>3
    <1>3. ASSUME NEW c \in Calls, Adopt(c) PROVE FirstHome'
        <2>1. home' = home
            BY <1>3 DEF Adopt, histories
        <2> SUFFICES ASSUME home[1] /= 0
                     PROVE  TitledIn(sessions', 1) = TitledIn(sessions, 1)
            BY <2>1 DEF FirstHome

        <2>2. CASE sessions' = sessions
            BY <2>2
        <2>3. CASE /\ found'[c] \in Candidates(c)
                   /\ sessions' = [sessions EXCEPT ![found'[c]].title = name]
            <3>1. name /= 1
                <4> SUFFICES ASSUME name = 1 PROVE FALSE
                    OBVIOUS
                <4>1. home[1] \in SettledAt
                    BY DEF AtHome, HomeNames
                <4> QED
                    BY <1>3, <4>1 DEF SettledAt, Settled, Adopt
            <3>2. /\ found'[c] \in DOMAIN sessions
                  /\ sessions[found'[c]].title = 0
                BY <1>3, <2>3 DEF Candidates, Untitled, Adopt
            <3>3. \A s \in DOMAIN sessions : sessions[s] \in Sessions
                BY Typed DEF StoreTyped
            <3>4. \A s : s \in DOMAIN sessions' /\ sessions'[s].title = 1
                         <=> s \in DOMAIN sessions /\ sessions[s].title = 1
                BY <2>3, <3>1, <3>2, <3>3 DEF Sessions
            <3> QED
                BY <3>4, SameTitledIn
        <2> QED
            BY <1>3, <2>2, <2>3, AdoptedStore
    <1>4. ASSUME NEW c \in Calls, ToolRecap(c) PROVE FirstHome'
        <2>1. sessions' = sessions /\ name \in Names /\ 1 \in Names
            BY <1>4, SessionAssumption DEF ToolRecap, db, TypeOK, Names
        <2>2. CASE home' = home
            BY <2>1, <2>2 DEF FirstHome
        <2>3. CASE home' = [n \in Names |-> 0]
            BY <2>1, <2>3 DEF FirstHome
        <2>4. CASE alone[c] /\ Kept(c) /\ home' = [home EXCEPT ![name] = ran[c]]
            <3>1. CASE name /= 1
                <4>1. home'[1] = home[1]
                    BY <2>1, <2>4, <3>1 DEF TypeOK
                <4> QED
                    BY <2>1, <4>1 DEF FirstHome
            <3>2. CASE name = 1
                <4>1. home'[1] = ran[c]
                    BY <2>1, <2>4, <3>2 DEF TypeOK
                <4>2. /\ ran[c] \in Ids \ {0}
                      /\ pin = ran[c] \/ (pin = 0 /\ TitledIn(sessions, name) = ran[c])
                    BY <1>4, <2>4, KeptIsHome
                <4>3. ASSUME pin = ran[c] PROVE TitledIn(sessions, 1) = ran[c]
                    <5>1. Named(ran[c])
                        BY <3>2, <4>2, <4>3 DEF First
                    <5>2. Titled(1) \in DOMAIN sessions /\ sessions[Titled(1)].title = 1
                        BY <5>1, Typed, TitledIs DEF Named
                    <5>3. Titled(1) = ran[c]
                        BY <2>4, <3>2, <5>2 DEF Kept
                    <5> QED
                        BY <5>3, TitledIsIn
                <4> QED
                    BY <2>1, <3>2, <4>1, <4>2, <4>3 DEF FirstHome
            <3> QED
                BY <3>1, <3>2
        <2> QED
            BY <1>4, <2>2, <2>3, <2>4 DEF ToolRecap
    <1>5. ASSUME OthersOpen PROVE FirstHome'
        <2>1. home' = home
            BY <1>5 DEF OthersOpen, histories
        <2> SUFFICES ASSUME home[1] /= 0
                     PROVE  TitledIn(sessions', 1) = TitledIn(sessions, 1)
            BY <2>1 DEF FirstHome

        <2>2. 1 \in Names
            BY SessionAssumption DEF Names
        <2> QED
            BY <1>5, <2>2, OthersUntitled
    <1> QED
        BY <1>1, <1>2, <1>3, <1>4, <1>5
           DEF Next, ChatStep, ChildStep, WatcherStep, vars, thread, db,
               locals, watchers, histories, Enter, PinThread, Build, TakeLock,
               ChildCalls, ChildEnds, AdoptPin, Return, Seed, PollRows,
               FetchAndPush, WatcherEnds, NewName, DropPin, Restart

LEMMA KeepsThreadContinues ==
    ASSUME TypeOK, Untouched, Owes, ThreadContinues, [Next]_vars
    PROVE  ThreadContinues'
    <1>1. CASE UNCHANGED <<due, ran>>
        BY <1>1 DEF ThreadContinues
    <1>2. ASSUME NEW c \in Calls, Enter(c) PROVE ThreadContinues'
        <2>1. UNCHANGED ran /\ ran[c] = 0
            BY <1>2 DEF Enter, Untouched, Early
        <2>2. \A d \in Calls \ {c} : due'[d] = due[d]
            BY <1>2 DEF Enter, TypeOK
        <2> QED
            BY <2>1, <2>2 DEF ThreadContinues
    <1>3. ASSUME NEW c \in Calls, ChildOpens(c) PROVE ThreadContinues'
        <2>1. due' = due /\ pc[c] = "run"
            BY <1>3 DEF ChildOpens, histories
        <2>2. \A d \in Calls \ {c} : ran'[d] = ran[d]
            BY <1>3, OpensIs DEF TypeOK
        <2>3. due[c] /= 0 => ran'[c] = due[c]
            <3> SUFFICES ASSUME due[c] /= 0 PROVE ran'[c] = due[c]
                OBVIOUS
            <3>1. due[c] \in Ids \ {0} /\ Settled(due[c])
                BY <2>1 DEF Owes, InTurn, SettledAt
            <3> QED
                BY <1>3, <3>1, OpensSettled
        <2> QED
            BY <2>1, <2>2, <2>3 DEF ThreadContinues
    <1>4. ASSUME NewName PROVE ThreadContinues'
        <2>1. ran' = ran /\ \A d \in Calls : due'[d] /= 0 => due'[d] = due[d]
            BY <1>4 DEF NewName, locals
        <2> QED
            BY <2>1 DEF ThreadContinues
    <1> QED
        BY <1>1, <1>2, <1>3, <1>4
           DEF Next, ChatStep, ChildStep, WatcherStep, vars, thread, db,
               locals, watchers, histories, PinThread, Build, TakeLock,
               ChildCalls, ChildEnds, Adopt, AdoptPin, ToolRecap, Return, Seed,
               PollRows, FetchAndPush, WatcherEnds, DropPin, OthersOpen,
               Restart

-----------------------------------------------------------------------------
(* The theorems                                                            *)

\* What a turn does and shows ...
Turns ==
    /\ OneHolds /\ Untouched /\ OursMarked /\ PinsOurs /\ RefersKnown
    /\ RowsKnown /\ SinceStart /\ AdoptsNew /\ AnchorHolds /\ Solo /\ AloneOK
    /\ RecapIsOwn /\ WatchedIsOwn

\* ... what /new cuts off ...
Cuts == NamesKnown /\ Begins /\ CutOff /\ NewIsFinal

\* ... and what continues.
Homes ==
    /\ Resumes /\ HomeNames /\ Untitled /\ First /\ Owes /\ AtHome /\ FirstHome
    /\ ThreadContinues

IInv == TypeOK /\ Turns /\ Cuts /\ Homes

LEMMA InitTypes == Init => TypeOK
    <1> SUFFICES ASSUME Init PROVE TypeOK
        OBVIOUS
    <1>1. /\ 0 \in Ids /\ 0 \in RowIds /\ 1 \in Names /\ 0 \in 0..MaxRestarts
        BY SessionAssumption, Bounds DEF Names
    <1>2. /\ sessions \in Seq(Sessions) /\ Len(sessions) <= MaxSessions
          /\ rows \in Seq(Rows) /\ Len(rows) <= MaxRows
        BY SessionAssumption DEF Init
    <1>3. [way |-> "fresh", to |-> 0] \in Commands
        BY DEF Commands
    <1>4. NoAnchor \in Anchors
        BY <1>1 DEF NoAnchor, Anchors
    <1>5. [i \in 1..MaxRows |-> 0] \in [1..MaxRows -> Nat]
        OBVIOUS
    <1> QED
        BY <1>1, <1>2, <1>3, <1>4, <1>5 DEF Init, TypeOK, Phases

LEMMA InitInvariant == Init => IInv
    <1> SUFFICES ASSUME Init PROVE IInv
        OBVIOUS
    <1>1. TypeOK
        BY InitTypes
    <1>2. /\ DOMAIN sessions = {} /\ DOMAIN rows = {} /\ Len(sessions) = 0
          /\ name = 1 /\ named = 1 /\ pin = 0 /\ ~renaming /\ lock = NoCall
          /\ cut = 0
        BY DEF Init
    <1>3. \A c \in Calls :
              /\ pc[c] = "new" /\ ran[c] = 0 /\ recap[c] = {}
              /\ watch[c] = "off" /\ due[c] = 0 /\ alone[c] = FALSE
              /\ \A i \in 1..MaxRows : pushed[c][i] = 0
        BY DEF Init
    <1>4. \A n \in Names : home[n] = 0
        BY DEF Init
    <1>5. NoCall \notin Calls /\ 1 \in Names
        BY SessionAssumption DEF Names
    <1>6. OneHolds /\ Untouched /\ AdoptsNew /\ SinceStart /\ AnchorHolds
        BY <1>2, <1>3, <1>5
           DEF OneHolds, Untouched, AdoptsNew, SinceStart, AnchorHolds, Holding,
               Early, Committed
    <1>7. OursMarked /\ PinsOurs /\ RefersKnown /\ RowsKnown
        BY <1>2, <1>3
           DEF OursMarked, PinsOurs, RefersKnown, RowsKnown, Committed, Holding
    <1>8. Solo /\ AloneOK /\ RecapIsOwn /\ WatchedIsOwn
        BY <1>3 DEF Solo, AloneOK, RecapIsOwn, WatchedIsOwn
    <1>9. NamesKnown /\ Begins /\ CutOff /\ NewIsFinal
        <2>1. 0 \in FreshAt
            BY <1>1, ZeroIsFresh
        <2> QED
            BY <1>2, <1>3, <2>1
               DEF NamesKnown, Begins, CutOff, NewIsFinal, Committed, Holding,
                   InTurn
    <1>10. Resumes /\ HomeNames /\ Untitled /\ First /\ ThreadContinues
        BY <1>2, <1>3, <1>4, <1>5
           DEF Resumes, HomeNames, Untitled, First, ThreadContinues, Committed,
               Holding
    <1>11. Owes /\ AtHome /\ FirstHome
        BY <1>2, <1>3, <1>4, <1>5 DEF Owes, AtHome, FirstHome
    <1> QED
        BY <1>1, <1>6, <1>7, <1>8, <1>9, <1>10, <1>11
           DEF IInv, Turns, Cuts, Homes

LEMMA NextKeeps == IInv /\ [Next]_vars => IInv'
    <1> SUFFICES ASSUME IInv, [Next]_vars PROVE IInv'
        OBVIOUS
    <1>1. TypeOK /\ Turns /\ Cuts /\ Homes
        BY DEF IInv
    <1>2. TypeOK'
        BY <1>1, NextTypes
    <1>3. OneHolds' /\ Untouched' /\ OursMarked' /\ PinsOurs'
        BY <1>1, KeepsOneHolds, KeepsUntouched, KeepsOursMarked, KeepsPinsOurs
           DEF Turns
    <1>4. RefersKnown' /\ RowsKnown' /\ SinceStart' /\ AdoptsNew'
        BY <1>1, KeepsRefersKnown, KeepsRowsKnown, KeepsSinceStart,
           KeepsAdoptsNew DEF Turns
    <1>5. AnchorHolds' /\ Solo' /\ AloneOK'
        BY <1>1, KeepsAnchorHolds, KeepsSolo, KeepsAloneOK DEF Turns
    <1>6. RecapIsOwn' /\ WatchedIsOwn'
        BY <1>1, KeepsRecapIsOwn, KeepsWatchedIsOwn DEF Turns
    <1>7. NamesKnown' /\ Begins' /\ CutOff' /\ NewIsFinal'
        BY <1>1, KeepsNamesKnown, KeepsBegins, KeepsCutOff, KeepsNewIsFinal
           DEF Turns, Cuts
    <1>8. Resumes' /\ HomeNames' /\ Untitled' /\ First'
        BY <1>1, KeepsResumes, KeepsHomeNames, KeepsUntitled, KeepsFirst
           DEF Turns, Homes
    <1>9. Owes' /\ AtHome' /\ FirstHome' /\ ThreadContinues'
        BY <1>1, KeepsOwes, KeepsAtHome, KeepsFirstHome, KeepsThreadContinues
           DEF Turns, Homes
    <1> QED
        BY <1>2, <1>3, <1>4, <1>5, <1>6, <1>7, <1>8, <1>9
           DEF IInv, Turns, Cuts, Homes

LEMMA Invariance == Spec => []IInv
    BY InitInvariant, NextKeeps, PTL DEF Spec

\* Every variable holds a value of its kind, whatever the bounds.
THEOREM TypeCorrect == Spec => []TypeOK
    <1>1. IInv => TypeOK
        BY DEF IInv
    <1> QED
        BY <1>1, Invariance, PTL

\* However many turns queue for the lock, whatever they resume, create or adopt
\* and whatever /new and a restart do meanwhile, a turn recaps tool calls of its
\* own: in the session of its anchor, and anywhere if it met nobody.
THEOREM RecapsAreOwn == Spec => []RecapIsOwn
    <1>1. IInv => RecapIsOwn
        BY DEF IInv, Turns
    <1> QED
        BY <1>1, Invariance, PTL

\* The watcher of a turn that met nobody pushes that turn's tool calls only.
THEOREM WatchersPushOwn == Spec => []WatchedIsOwn
    <1>1. IInv => WatchedIsOwn
        BY DEF IInv, Turns
    <1> QED
        BY <1>1, Invariance, PTL

\* A message that meets no turn goes where the thread's last turn went, through
\* any number of calls, sessions, /new and restarts.
THEOREM ConversationContinues == Spec => []ThreadContinues
    <1>1. IInv => ThreadContinues
        BY DEF IInv, Homes
    <1> QED
        BY <1>1, Invariance, PTL

\* A /new that met no turn is final: no later message reaches a conversation
\* that was there before it, until a restart or a message inside a /new.
THEOREM NewStaysFinal == Spec => []NewIsFinal
    <1>1. IInv => NewIsFinal
        BY DEF IInv, Cuts
    <1> QED
        BY <1>1, Invariance, PTL

\* The thread is never pinned to a conversation of somebody else.
THEOREM PinsStayOurs == Spec => []PinnedIsOurs
    <1>1. IInv => PinnedIsOurs
        BY DEF IInv, Turns, PinsOurs, Ours, PinnedIsOurs
    <1> QED
        BY <1>1, Invariance, PTL
=============================================================================
