-------------------------- MODULE TurnGuardProofs --------------------------
(***************************************************************************)
(* Proofs about TurnGuard, for any number of calls of chat() and of        *)
(* operators who stop turns: the type invariant, OneTurnAtATime,           *)
(* StopIsEffective, and that the turns implement TurnService.              *)
(*                                                                         *)
(* OneTurnAtATime is not inductive: that a live child belongs to the call  *)
(* in the lock rests on _process pointing at the child of the call that    *)
(* runs (Pointer), which rests on who holds the lock (Holder); the one     *)
(* child that _process does not name yet is that of a call at "spawned".   *)
(***************************************************************************)
EXTENDS TurnGuard, TLAPS

\* The two halves of TypeOK: what SMT types, and the Boolean flags.
DataOK ==
    /\ pc \in [Chats -> PCs]
    /\ tries \in [Chats -> {1, 2}]
    /\ answer \in [Chats -> Answers]
    /\ lock \in Chats \cup {NoChat}
    /\ process \in Runs \cup {NoRun}
    /\ child \in [Runs -> Children]
    /\ clock \in 0..2
    /\ dog \in [Runs -> Dogs]
    /\ stopper \in [Stoppers -> StopPCs]
    /\ target \in [Stoppers -> Runs \cup {NoRun}]

FlagOK ==
    /\ stopRequested \in BOOLEAN /\ guardKilled \in BOOLEAN
    /\ denyVeto \in BOOLEAN /\ earlyRun \in BOOLEAN /\ capBelow \in BOOLEAN

\* The turn lock is held by the one call that is inside it.
Holder == \A c \in Chats : pc[c] \in InLock <=> lock = c

HasChild == {"running", "failing", "aborted"}

\* _process points at the child of the call that has one, and at no other.
Pointer ==
    /\ \A c \in Chats : pc[c] \in HasChild => process = RunOf(c)
    /\ process /= NoRun =>
         \E c \in Chats : pc[c] \in HasChild /\ process = RunOf(c)

\* Only a child that _process points at, and not after an abort, is alive, or
\* one that it does not point at yet.
Live ==
    \A r \in Runs : child[r] = "alive" =>
        \/ process = r /\ pc[r[1]] \in {"running", "failing"}
        \/ tries[r[1]] = r[2] /\ pc[r[1]] = "spawned"

\* A run that _process has named is never spawned again.
Published(r) ==
    \/ tries[r[1]] > r[2]
    \/ /\ tries[r[1]] = r[2]
       /\ pc[r[1]] \in HasChild \cup {"unlocking", "deciding", "answered"}

Targets ==
    \A s \in Stoppers : stopper[s] /= "idle" =>
        target[s] \in Runs /\ Published(target[s])

Core == Holder /\ Pointer /\ Live /\ Targets /\ StopIsEffective

IInv == TypeOK /\ Core

-----------------------------------------------------------------------------

LEMMA TypeHalves == TypeOK <=> DataOK /\ FlagOK
BY DEF TypeOK, DataOK, FlagOK

\* No thread but the one in the lock has a child that is alive.
LEMMA InvImpliesOneTurn == IInv => OneTurnAtATime
<1> SUFFICES ASSUME IInv, NEW r \in Runs, child[r] = "alive"
             PROVE  /\ lock = r[1] /\ tries[r[1]] = r[2]
                    /\ process = IF pc[r[1]] = "spawned" THEN NoRun ELSE r
    BY DEF OneTurnAtATime
<1>1. r[1] \in Chats /\ r = <<r[1], r[2]>>
    BY DEF Runs
<1>2. CASE process = r /\ pc[r[1]] \in {"running", "failing"}
  <2>1. process = <<r[1], tries[r[1]]>>
    BY <1>1, <1>2 DEF IInv, Core, Pointer, HasChild, RunOf
  <2>2. lock = r[1]
    BY <1>1, <1>2 DEF IInv, Core, Holder, InLock
  <2> QED
    BY <1>1, <1>2, <2>1, <2>2
<1>3. CASE tries[r[1]] = r[2] /\ pc[r[1]] = "spawned"
  <2>1. lock = r[1]
    BY <1>1, <1>3 DEF IInv, Core, Holder, InLock
  <2>2. \A c \in Chats : pc[c] \notin HasChild
    BY <1>3, <2>1 DEF IInv, Core, Holder, InLock, HasChild
  <2>3. process = NoRun
    BY <2>2 DEF IInv, Core, Pointer
  <2> QED
    BY <1>3, <2>1, <2>3
<1> QED
    BY <1>2, <1>3 DEF IInv, Core, Live

LEMMA InitInv == Init => IInv
<1> SUFFICES ASSUME Init PROVE IInv
    OBVIOUS
<1>1. TypeOK
  <2>1. DataOK
    BY DEF Init, DataOK, PCs, Answers, Children, Dogs, DogsMidKill,
           StopPCs
  <2>2. FlagOK
    BY Zenon DEF Init, FlagOK
  <2> QED
    BY <2>1, <2>2, TypeHalves
<1>2. Holder /\ Pointer
    BY ChatsAssumption DEF Init, Holder, Pointer, InLock, HasChild
<1>3. Live /\ Targets /\ StopIsEffective
    BY DEF Init, Live, Targets, StopIsEffective
<1> QED
    BY <1>1, <1>2, <1>3 DEF IInv, Core

-----------------------------------------------------------------------------

LEMMA DataStep == DataOK /\ [Next]_vars => DataOK'
<1> SUFFICES ASSUME DataOK, [Next]_vars PROVE DataOK'
    OBVIOUS
<1> USE DEF DataOK, chatVars, timeVars, stopVars, PCs, Answers, Children,
            Dogs, DogsMidKill, StopPCs, Runs, RunOf
<1>1. ASSUME NEW c \in Chats, Enter(c) PROVE DataOK'
    BY <1>1 DEF Enter, Goto
<1>2. ASSUME NEW c \in Chats, ClearVeto(c) PROVE DataOK'
    BY <1>2 DEF ClearVeto, Goto
<1>3. ASSUME NEW c \in Chats, StartTurn(c) PROVE DataOK'
    BY <1>3 DEF StartTurn, UnlockedTurn
<1>4. ASSUME NEW c \in Chats, Spawn(c) PROVE DataOK'
    BY <1>4 DEF Spawn, Goto
<1>5. ASSUME NEW c \in Chats, SpawnFails(c) PROVE DataOK'
    BY <1>5 DEF SpawnFails, Conclude, Goto
<1>6. ASSUME NEW c \in Chats, Publish(c) \/ ThreadsFail(c) PROVE DataOK'
    BY <1>6 DEF Publish, ThreadsFail, PublishAs, Goto
<1>7. ASSUME NEW c \in Chats, Abort(c) PROVE DataOK'
    BY <1>7 DEF Abort, KillProcess, Goto
<1>8. ASSUME NEW c \in Chats, Confess(c) PROVE DataOK'
    BY <1>8 DEF Confess, Conclude, Goto
<1>9. ASSUME NEW c \in Chats, Report(c) PROVE DataOK'
    BY <1>9 DEF Report, Conclude, Verdict, Goto, PastWindow
<1>10. ASSUME NEW c \in Chats, Unlock(c) PROVE DataOK'
    BY <1>10 DEF Unlock, Goto
<1>11. ASSUME NEW c \in Chats, Decide(c) PROVE DataOK'
    BY <1>11 DEF Decide, GuardBlamed, Settle, Goto
<1>12. ASSUME NEW r \in Runs, ChildExits(r) PROVE DataOK'
    BY <1>12 DEF ChildExits
<1>13. ASSUME NEW r \in Runs, SeeSilence(r) PROVE DataOK'
    BY <1>13 DEF SeeSilence, DogSees
<1>14. ASSUME NEW r \in Runs, SeeCap(r) PROVE DataOK'
    BY <1>14 DEF SeeCap, DogSees
<1>15. ASSUME NEW r \in Runs, Fire(r) PROVE DataOK'
    BY <1>15 DEF Fire, DogFlags
<1>16. ASSUME NEW r \in Runs, Bite(r) PROVE DataOK'
    BY <1>16 DEF Bite, KillProcess
<1>17. ASSUME NEW s \in Stoppers, StopSees(s) PROVE DataOK'
    BY <1>17 DEF StopSees, StopStep
<1>18. ASSUME NEW s \in Stoppers, StopFlags(s) PROVE DataOK'
    BY <1>18 DEF StopFlags, StopStep
<1>19. ASSUME NEW s \in Stoppers, StopKills(s) PROVE DataOK'
    BY <1>19 DEF StopKills, StopStep, KillProcess
<1>20. ASSUME NEW s \in Stoppers, StopReturns(s) PROVE DataOK'
    BY <1>20 DEF StopReturns, StopStep
<1>21. CASE Age
    BY <1>21 DEF Age
<1>22. CASE UNCHANGED vars
    BY <1>22 DEF vars
<1> QED
    BY <1>1, <1>2, <1>3, <1>4, <1>5, <1>6, <1>7, <1>8,
       <1>9, <1>10, <1>11, <1>12, <1>13, <1>14, <1>15, <1>16,
       <1>17, <1>18, <1>19, <1>20, <1>21, <1>22
    DEF Next, ChatStep, DogStep, StopActs

LEMMA FlagStep == FlagOK /\ [Next]_vars => FlagOK'
<1> SUFFICES ASSUME FlagOK, [Next]_vars PROVE FlagOK'
    OBVIOUS
<1> USE DEF FlagOK, flagVars, timeVars
<1>1. ASSUME NEW c \in Chats, Enter(c) PROVE FlagOK'
    BY Zenon, <1>1 DEF Enter
<1>2. ASSUME NEW c \in Chats, ClearVeto(c) PROVE FlagOK'
    BY Zenon, <1>2 DEF ClearVeto
<1>3. ASSUME NEW c \in Chats, StartTurn(c) PROVE FlagOK'
    BY Zenon, <1>3 DEF StartTurn, UnlockedTurn
<1>4. ASSUME NEW c \in Chats, Spawn(c) PROVE FlagOK'
    BY Zenon, <1>4 DEF Spawn
<1>5. ASSUME NEW c \in Chats, SpawnFails(c) PROVE FlagOK'
    BY Zenon, <1>5 DEF SpawnFails, Conclude
<1>6. ASSUME NEW c \in Chats, Publish(c) \/ ThreadsFail(c) PROVE FlagOK'
    BY Zenon, <1>6 DEF Publish, ThreadsFail, PublishAs
<1>7. ASSUME NEW c \in Chats, Abort(c) PROVE FlagOK'
    BY Zenon, <1>7 DEF Abort
<1>8. ASSUME NEW c \in Chats, Confess(c) PROVE FlagOK'
    BY Zenon, <1>8 DEF Confess, Conclude
<1>9. ASSUME NEW c \in Chats, Report(c) PROVE FlagOK'
    BY Zenon, <1>9 DEF Report, Conclude
<1>10. ASSUME NEW c \in Chats, Unlock(c) PROVE FlagOK'
    BY Zenon, <1>10 DEF Unlock
<1>11. ASSUME NEW c \in Chats, Decide(c) PROVE FlagOK'
    BY Zenon, <1>11 DEF Decide, Settle
<1>12. ASSUME NEW r \in Runs, ChildExits(r) PROVE FlagOK'
    BY Zenon, <1>12 DEF ChildExits
<1>13. ASSUME NEW r \in Runs, SeeSilence(r) PROVE FlagOK'
    BY Zenon, <1>13 DEF SeeSilence, DogSees
<1>14. ASSUME NEW r \in Runs, SeeCap(r) PROVE FlagOK'
    BY Zenon, <1>14 DEF SeeCap, DogSees
<1>15. ASSUME NEW r \in Runs, Fire(r) PROVE FlagOK'
    BY Zenon, <1>15 DEF Fire, DogFlags
<1>16. ASSUME NEW r \in Runs, Bite(r) PROVE FlagOK'
    BY Zenon, <1>16 DEF Bite
<1>17. ASSUME NEW s \in Stoppers, StopSees(s) PROVE FlagOK'
    BY Zenon, <1>17 DEF StopSees, StopStep
<1>18. ASSUME NEW s \in Stoppers, StopFlags(s) PROVE FlagOK'
    BY Zenon, <1>18 DEF StopFlags, StopStep
<1>19. ASSUME NEW s \in Stoppers, StopKills(s) PROVE FlagOK'
    BY Zenon, <1>19 DEF StopKills, StopStep
<1>20. ASSUME NEW s \in Stoppers, StopReturns(s) PROVE FlagOK'
    BY Zenon, <1>20 DEF StopReturns, StopStep
<1>21. CASE Age
    BY Zenon, <1>21 DEF Age
<1>22. CASE UNCHANGED vars
    BY Zenon, <1>22 DEF vars
<1> QED
    BY <1>1, <1>2, <1>3, <1>4, <1>5, <1>6, <1>7, <1>8,
       <1>9, <1>10, <1>11, <1>12, <1>13, <1>14, <1>15, <1>16,
       <1>17, <1>18, <1>19, <1>20, <1>21, <1>22
    DEF Next, ChatStep, DogStep, StopActs

-----------------------------------------------------------------------------
(* A step outside chat() spawns nothing and moves neither the lock nor     *)
(* _process.                                                               *)

LEMMA QuietStep ==
    ASSUME DataOK, Core, UNCHANGED <<pc, tries, lock, process>>,
           \A r \in Runs : child'[r] = "alive" => child[r] = "alive"
    PROVE  Holder' /\ Pointer' /\ Live'
BY DEF Core, Holder, Pointer, Live, RunOf

\* Nor, unless it is a step of stop(), what a stop() has found.
LEMMA BystanderStep ==
    ASSUME DataOK, Core, UNCHANGED <<pc, tries, lock, process, stopper, target>>,
           \A r \in Runs : child'[r] = "alive" => child[r] = "alive"
    PROVE  Core'
<1>1. Holder' /\ Pointer' /\ Live'
    BY QuietStep
<1>2. Targets'
    BY DEF Core, Targets, Published
<1>3. StopIsEffective'
    BY DEF Core, Targets, StopIsEffective
<1> QED
    BY <1>1, <1>2, <1>3 DEF Core

\* A kill leaves no child alive that _process has ever named.
LEMMA KillKills ==
    ASSUME DataOK, Live, NEW how \in Children \ {"alive"}, KillProcess(how)
    PROVE  /\ \A r \in Runs : child'[r] = "alive" => child[r] = "alive"
           /\ \A r \in Runs : Published(r) => child'[r] /= "alive"
<1>1. \A r \in Runs : child'[r] = "alive" => child[r] = "alive" /\ r /= process
    BY ChatsAssumption DEF DataOK, KillProcess
<1>2. \A r \in Runs : child'[r] = "alive" =>
                        tries[r[1]] = r[2] /\ pc[r[1]] = "spawned"
    BY <1>1 DEF Live
<1>3. \A r \in Runs : r[1] \in Chats /\ r[2] \in {1, 2}
    BY DEF Runs
<1> QED
    BY <1>1, <1>2, <1>3 DEF Published, HasChild

\* A spawn finds no live child: the call in the lock has none yet.
LEMMA SpawnKeepsCore ==
    ASSUME DataOK, Core, NEW c \in Chats, Spawn(c)
    PROVE  Core'
<1> USE ChatsAssumption DEF DataOK, chatVars, stopVars, Core, Holder, Pointer,
        Live, HasChild, InLock, Runs, RunOf, Spawn, Goto
<1>1. Holder' /\ Pointer'
    OBVIOUS
<1>2. \A r \in Runs : child[r] /= "alive"
    OBVIOUS
<1>3. \A r \in Runs : child'[r] = "alive" => r = RunOf(c)
    BY <1>2
<1>4. Live'
    BY <1>3
<1>5. Targets' /\ StopIsEffective'
    BY DEF Targets, Published, StopIsEffective
<1> QED
    BY <1>1, <1>4, <1>5

\* Once the child of the call in the lock has a name, it is the live one.
LEMMA PublishKeepsCore ==
    ASSUME DataOK, Core, NEW c \in Chats, NEW to \in {"running", "failing"},
           NEW watch \in Dogs, PublishAs(c, to, watch)
    PROVE  Core'
<1> USE ChatsAssumption DEF DataOK, chatVars, stopVars, Core, Holder, Pointer,
        Live, HasChild, InLock, Runs, RunOf, PublishAs, Goto
<1>1. Holder' /\ Pointer'
    OBVIOUS
<1>2. \A r \in Runs : child[r] = "alive" => r = RunOf(c)
    OBVIOUS
<1>3. Live'
    BY <1>2
<1>4. Targets' /\ StopIsEffective'
    BY DEF Targets, Published, StopIsEffective
<1> QED
    BY <1>1, <1>3, <1>4

LEMMA ChatKeepsCore == DataOK /\ Core /\ (\E c \in Chats : Enter(c) \/ ChatStep(c)) => Core'
<1> SUFFICES ASSUME DataOK, Core, NEW c \in Chats, Enter(c) \/ ChatStep(c)
             PROVE  Core'
    OBVIOUS
<1> USE ChatsAssumption DEF DataOK, chatVars, timeVars, stopVars, Core, Holder,
        Pointer, Live, Targets, Published, StopIsEffective, InLock, HasChild,
        Runs, RunOf
<1>1. CASE Enter(c)
  <2>1. Holder'
    BY <1>1 DEF Enter, Goto
  <2>2. Pointer'
    BY <1>1 DEF Enter, Goto
  <2>3. Live'
    BY <1>1 DEF Enter, Goto
  <2>4. Targets' /\ StopIsEffective'
    BY <1>1 DEF Enter, Goto
  <2> QED
    BY <2>1, <2>2, <2>3, <2>4
<1>2. CASE ClearVeto(c)
  <2>1. Holder'
    BY <1>2 DEF ClearVeto, Goto
  <2>2. Pointer'
    BY <1>2 DEF ClearVeto, Goto
  <2>3. Live'
    BY <1>2 DEF ClearVeto, Goto
  <2>4. Targets' /\ StopIsEffective'
    BY <1>2 DEF ClearVeto, Goto
  <2> QED
    BY <2>1, <2>2, <2>3, <2>4
<1>3. CASE StartTurn(c)
  <2>1. Holder'
    BY <1>3 DEF StartTurn, UnlockedTurn
  <2>2. Pointer'
    BY <1>3 DEF StartTurn, UnlockedTurn
  <2>3. Live'
    BY <1>3 DEF StartTurn, UnlockedTurn
  <2>4. Targets' /\ StopIsEffective'
    BY <1>3 DEF StartTurn, UnlockedTurn
  <2> QED
    BY <2>1, <2>2, <2>3, <2>4
<1>4. CASE Spawn(c)
    BY <1>4, SpawnKeepsCore
<1>5. CASE SpawnFails(c)
  <2>1. Holder'
    BY <1>5 DEF SpawnFails, Conclude, Goto
  <2>2. Pointer'
    BY <1>5 DEF SpawnFails, Conclude, Goto
  <2>3. Live'
    BY <1>5 DEF SpawnFails, Conclude, Goto
  <2>4. Targets' /\ StopIsEffective'
    BY <1>5 DEF SpawnFails, Conclude, Goto
  <2> QED
    BY <2>1, <2>2, <2>3, <2>4
<1>6. CASE Publish(c) \/ ThreadsFail(c)
    BY <1>6, PublishKeepsCore DEF Publish, ThreadsFail, Dogs
<1>7. CASE Abort(c)
  <2>1. Holder'
    BY <1>7 DEF Abort, KillProcess, Goto
  <2>2. Pointer'
    BY <1>7 DEF Abort, KillProcess, Goto
  <2>3. Live'
    BY <1>7 DEF Abort, KillProcess, Goto
  <2>4. Targets' /\ StopIsEffective'
    BY <1>7 DEF Abort, KillProcess, Goto
  <2> QED
    BY <2>1, <2>2, <2>3, <2>4
<1>8. CASE Confess(c)
  <2>1. Holder'
    BY <1>8 DEF Confess, Conclude, Goto
  <2>2. Pointer'
    BY <1>8 DEF Confess, Conclude, Goto
  <2>3. Live'
    BY <1>8 DEF Confess, Conclude, Goto
  <2>4. Targets' /\ StopIsEffective'
    BY <1>8 DEF Confess, Conclude, Goto
  <2> QED
    BY <2>1, <2>2, <2>3, <2>4
<1>9. CASE Report(c)
  <2>1. Holder'
    BY <1>9 DEF Report, Conclude, Goto
  <2>2. Pointer'
    BY <1>9 DEF Report, Conclude, Goto
  <2>3. Live'
    BY <1>9 DEF Report, Conclude, Goto
  <2>4. Targets' /\ StopIsEffective'
    BY <1>9 DEF Report, Conclude, Goto
  <2> QED
    BY <2>1, <2>2, <2>3, <2>4
<1>10. CASE Unlock(c)
  <2>1. Holder'
    BY <1>10 DEF Unlock, Goto
  <2>2. Pointer'
    BY <1>10 DEF Unlock, Goto
  <2>3. Live'
    BY <1>10 DEF Unlock, Goto
  <2>4. Targets' /\ StopIsEffective'
    BY <1>10 DEF Unlock, Goto
  <2> QED
    BY <2>1, <2>2, <2>3, <2>4
<1>11. CASE Decide(c)
  <2>1. Holder'
    BY <1>11 DEF Decide, Settle, Goto
  <2>2. Pointer'
    BY <1>11 DEF Decide, Settle, Goto
  <2>3. Live'
    BY <1>11 DEF Decide, Settle, Goto
  <2>4. Targets' /\ StopIsEffective'
    BY <1>11 DEF Decide, Settle, Goto
  <2> QED
    BY <2>1, <2>2, <2>3, <2>4
<1> QED
    BY <1>1, <1>2, <1>3, <1>4, <1>5, <1>6, <1>7, <1>8, <1>9, <1>10, <1>11
    DEF ChatStep

LEMMA OthersKeepCore ==
    DataOK /\ Core /\ [\/ \E r \in Runs : ChildExits(r) \/ SeeSilence(r) \/ DogStep(r)
                       \/ \E s \in Stoppers : StopSees(s) \/ StopActs(s)
                       \/ Age]_vars => Core'
<1> SUFFICES ASSUME DataOK, Core,
                    \/ \E r \in Runs : ChildExits(r) \/ SeeSilence(r) \/ DogStep(r)
                    \/ \E s \in Stoppers : StopSees(s) \/ StopActs(s)
                    \/ Age
                    \/ UNCHANGED vars
             PROVE  Core'
    OBVIOUS
<1> USE DEF chatVars, timeVars, stopVars
<1>1. ASSUME NEW r \in Runs, ChildExits(r) PROVE Core'
  <2>1. \A q \in Runs : child'[q] = "alive" => child[q] = "alive"
    BY <1>1 DEF DataOK, ChildExits
  <2> QED
    BY <1>1, <2>1, BystanderStep DEF ChildExits
<1>2. ASSUME NEW r \in Runs, SeeSilence(r) \/ SeeCap(r) PROVE Core'
    BY <1>2, BystanderStep DEF SeeSilence, SeeCap, DogSees
<1>3. ASSUME NEW r \in Runs, Fire(r) PROVE Core'
    BY <1>3, BystanderStep DEF Fire, DogFlags
<1>4. ASSUME NEW r \in Runs, Bite(r) PROVE Core'
  <2>1. \A q \in Runs : child'[q] = "alive" => child[q] = "alive"
    BY <1>4, KillKills DEF Bite, Core, Children
  <2> QED
    BY <1>4, <2>1, BystanderStep DEF Bite
<1>5. ASSUME NEW s \in Stoppers, StopSees(s) PROVE Core'
  <2>1. Holder' /\ Pointer' /\ Live'
    BY <1>5, QuietStep DEF StopSees, StopStep
  <2>2. process \in Runs /\ Published(process)
    BY <1>5 DEF StopSees, DataOK, Core, Pointer, Published, Runs, RunOf
  <2>3. Targets' /\ StopIsEffective'
    BY <1>5, <2>2 DEF StopSees, StopStep, DataOK, Core, Targets, Published,
                      StopIsEffective
  <2> QED
    BY <2>1, <2>3 DEF Core
<1>6. ASSUME NEW s \in Stoppers, StopFlags(s) \/ StopReturns(s) PROVE Core'
  <2>1. Holder' /\ Pointer' /\ Live'
    BY <1>6, QuietStep DEF StopFlags, StopReturns, StopStep
  <2>2. Targets' /\ StopIsEffective'
    BY <1>6 DEF StopFlags, StopReturns, StopStep, DataOK, Core, Targets,
                Published, StopIsEffective
  <2> QED
    BY <2>1, <2>2 DEF Core
<1>7. ASSUME NEW s \in Stoppers, StopKills(s) PROVE Core'
  <2>1. /\ \A q \in Runs : child'[q] = "alive" => child[q] = "alive"
        /\ \A q \in Runs : Published(q) => child'[q] /= "alive"
    BY <1>7, KillKills DEF StopKills, Core, Children
  <2>2. Holder' /\ Pointer' /\ Live'
    BY <1>7, <2>1, QuietStep DEF StopKills, StopStep
  <2>3. Targets' /\ StopIsEffective'
    BY <1>7, <2>1 DEF StopKills, StopStep, DataOK, Core, Targets, Published,
                      StopIsEffective
  <2> QED
    BY <2>2, <2>3 DEF Core
<1>8. CASE Age
    BY <1>8, BystanderStep DEF Age
<1>9. CASE UNCHANGED vars
    BY <1>9, BystanderStep DEF vars
<1> QED
    BY <1>1, <1>2, <1>3, <1>4, <1>5, <1>6, <1>7, <1>8, <1>9 DEF DogStep, StopActs

LEMMA InductiveStep == IInv /\ [Next]_vars => IInv'
<1> SUFFICES ASSUME IInv, [Next]_vars PROVE IInv'
    OBVIOUS
<1>1. DataOK /\ FlagOK
    BY TypeHalves DEF IInv
<1>2. TypeOK'
  <2>1. DataOK' /\ FlagOK'
    BY <1>1, DataStep, FlagStep
  <2> QED
    BY <2>1 DEF TypeOK, DataOK, FlagOK
<1>3. Core'
    BY <1>1, ChatKeepsCore, OthersKeepCore DEF IInv, Next
<1> QED
    BY <1>2, <1>3 DEF IInv

LEMMA Invariance == Spec => []IInv
BY InitInv, InductiveStep, PTL DEF Spec

-----------------------------------------------------------------------------

\* Every variable keeps a value of its kind, whatever the threads interleave.
THEOREM TypeCorrect == Spec => []TypeOK
<1>1. IInv => TypeOK
    BY DEF IInv
<1> QED
    BY <1>1, Invariance, PTL

\* Two turns never race the same model, and no turn leaves a live child behind:
\* OneTurnAtATime for any number of messages and of /stop's.
THEOREM TurnsExclude == Spec => []OneTurnAtATime
BY InvImpliesOneTurn, Invariance, PTL

\* The child a stop() found alive is dead when stop() returns, for any number
\* of concurrent turns and stops.
THEOREM StopsAreEffective == Spec => []StopIsEffective
<1>1. IInv => StopIsEffective
    BY DEF IInv, Core
<1> QED
    BY <1>1, Invariance, PTL

-----------------------------------------------------------------------------
(* TurnGuard implements TurnService.                                       *)

\* A step that moves no call across the phases and keeps tries is a stutter.
LEMMA PhaseKept ==
    ASSUME UNCHANGED tries, \A c \in Chats : PhaseOf(c)' = PhaseOf(c)
    PROVE  UNCHANGED Service!vars
BY DEF Service!vars

LEMMA PhaseMoves ==
    ASSUME DataOK, NEW c \in Chats, NEW p \in PCs, pc' = [pc EXCEPT ![c] = p]
    PROVE  /\ \A d \in Chats \ {c} : PhaseOf(d)' = PhaseOf(d)
           /\ pc'[c] = p
BY DEF DataOK, PhaseOf

LEMMA ServiceMove ==
    ASSUME NEW c \in Chats, NEW from, NEW to,
           \A d \in Chats \ {c} : PhaseOf(d)' = PhaseOf(d),
           PhaseOf(c) = from, PhaseOf(c)' = to
    PROVE  Service!Move(c, from, to)
BY DEF Service!Move

LEMMA ServiceStep == IInv /\ [Next]_vars => [Service!Next]_(Service!vars)
<1> SUFFICES ASSUME IInv, [Next]_vars
             PROVE  Service!Next \/ UNCHANGED Service!vars
    OBVIOUS
<1> USE DEF chatVars, PCs, InLock
<1>0. DataOK /\ Core
    BY TypeHalves DEF IInv
<1>1. ASSUME NEW c \in Chats, Enter(c) PROVE Service!Next
  <2>1. Service!Move(c, "new", "queued")
    BY <1>0, <1>1, PhaseMoves, ServiceMove DEF Enter, Goto, PhaseOf
  <2> QED
    BY <1>1, <2>1 DEF Enter, Service!Next, Service!Submit
<1>2. ASSUME NEW c \in Chats, StartTurn(c) PROVE Service!Next
  <2>1. Service!Move(c, "queued", "turn")
    BY <1>0, <1>2, PhaseMoves, ServiceMove DEF StartTurn, UnlockedTurn, PhaseOf
  <2>2. \A d \in Chats : PhaseOf(d) /= "turn"
    BY <1>0, <1>2, ChatsAssumption DEF StartTurn, Core, Holder, PhaseOf
  <2> QED
    BY <1>2, <2>1, <2>2
    DEF StartTurn, UnlockedTurn, Service!Next, Service!Serve
<1>3. ASSUME NEW c \in Chats, Unlock(c) PROVE Service!Next
  <2>1. Service!Move(c, "turn", "settling")
    BY <1>0, <1>3, PhaseMoves, ServiceMove DEF Unlock, Goto, PhaseOf
  <2> QED
    BY <1>3, <2>1 DEF Unlock, Service!Next, Service!Release
<1>4. ASSUME NEW c \in Chats, Decide(c) PROVE Service!Next
  <2>1. CASE pc' = [pc EXCEPT ![c] = "answered"] /\ UNCHANGED tries
    <3>1. Service!Move(c, "settling", "answered")
      BY <1>0, <1>4, <2>1, PhaseMoves, ServiceMove
      DEF Decide, Settle, Goto, PhaseOf
    <3> QED
      BY <2>1, <3>1 DEF Service!Next, Service!Answer
  <2>2. CASE GuardBlamed(c) /\ Goto(c, "deciding", "retrying")
             /\ tries' = [tries EXCEPT ![c] = @ + 1]
    <3>1. Service!Move(c, "settling", "queued")
      BY <1>0, <2>2, PhaseMoves, ServiceMove DEF Goto, PhaseOf
    <3>2. tries[c] = 1 /\ tries' = [tries EXCEPT ![c] = 2]
      BY <1>0, <2>2 DEF GuardBlamed, DataOK
    <3> QED
      BY <3>1, <3>2 DEF Service!Next, Service!Requeue
  <2> QED
    BY <1>4, <2>1, <2>2 DEF Decide, Settle, Goto
\* The other steps of chat() stay within a phase.
<1>5. ASSUME NEW c \in Chats,
             \/ ClearVeto(c) \/ Spawn(c) \/ SpawnFails(c)
             \/ Publish(c) \/ ThreadsFail(c) \/ Abort(c) \/ Confess(c) \/ Report(c)
      PROVE  UNCHANGED Service!vars
  <2>1. PICK p \in PCs : pc' = [pc EXCEPT ![c] = p] /\ UNCHANGED tries
                         /\ \/ pc[c] = "entered" /\ p = "waiting"
                            \/ pc[c] \in InLock /\ p \in InLock
    BY <1>5 DEF ClearVeto, Spawn, SpawnFails, Publish, ThreadsFail,
                PublishAs, Abort,
                Confess, Report, Conclude, Goto
  <2>2. PhaseOf(c)' = PhaseOf(c)
    BY <1>0, <2>1, PhaseMoves DEF PhaseOf
  <2> QED
    BY <1>0, <2>1, <2>2, PhaseMoves, PhaseKept
\* And nobody else moves a call.
<1>6. CASE UNCHANGED <<pc, tries>>
    BY <1>6, PhaseKept DEF PhaseOf
<1>7. ASSUME NEW r \in Runs, ChildExits(r) \/ SeeSilence(r) \/ DogStep(r)
      PROVE  UNCHANGED <<pc, tries>>
    BY <1>7 DEF ChildExits, SeeSilence, DogStep, SeeCap, DogSees, Fire,
                DogFlags, Bite
<1>8. ASSUME NEW s \in Stoppers, StopSees(s) \/ StopActs(s)
      PROVE  UNCHANGED <<pc, tries>>
    BY <1>8 DEF StopActs, StopSees, StopFlags, StopKills, StopReturns, StopStep
<1>9. Age \/ UNCHANGED vars => UNCHANGED <<pc, tries>>
    BY DEF Age, vars
<1> QED
    BY <1>1, <1>2, <1>3, <1>4, <1>5, <1>6, <1>7, <1>8, <1>9 DEF Next, ChatStep

\* The turns keep chat()'s promise for any number of messages: one at a time,
\* one retry at most, one final answer.
THEOREM TurnsImplementService == Spec => ImplementsService
<1>1. Init => Service!Init
    BY DEF Init, Service!Init, PhaseOf
<1> QED
    BY <1>1, ServiceStep, Invariance, PTL DEF Spec, ImplementsService, Service!Spec

=============================================================================
