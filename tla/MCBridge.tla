------------------------------ MODULE MCBridge ------------------------------
(***************************************************************************)
(* The parts of the system beside the turns: the worker pool with the hold *)
(* gate, the re-announce timers, the model pin and the liveness proxy of   *)
(* the bridge, and the hook of the plugin.  They share no state but their  *)
(* process, whose end is an action of each that outlives it: so every      *)
(* behaviour of this instance runs one of them and leaves the others as    *)
(* they start.                                                             *)
(***************************************************************************)
EXTENDS WorkerPool, Announcer, ModelPin, BridgeLiveness, ToolHook, TLC

CONSTANTS chat1, chat2, hold1, hold2, go1

TheKind == chat1 :> "chat" @@ chat2 :> "chat" @@ hold1 :> "hold"
           @@ hold2 :> "hold" @@ go1 :> "go"

TheRisks == {-1, 19, 20, 81, Absent, NotANumber, Yes, No}

TheJumps == {-2, 4}

VARIABLE part           \* the part that runs

vars == <<poolVars, annVars, pinVars, proxyVars, hookVars, part>>

Parts == {"pool", "announcer", "pin", "proxy", "hook"}

Init ==
    /\ part \in Parts
    /\ PoolInit
    /\ AnnInit
    /\ PinInit
    /\ ProxyInit
    /\ HookInit
    /\ part # "pin" => file = Default
    /\ part # "hook" => mode = "off" /\ yolo = 0

Next ==
    /\ UNCHANGED part
    /\ \/ /\ part = "pool" /\ PoolNext
          /\ UNCHANGED <<annVars, pinVars, proxyVars, hookVars>>
       \/ /\ part = "announcer" /\ AnnNext
          /\ UNCHANGED <<poolVars, pinVars, proxyVars, hookVars>>
       \/ /\ part = "pin" /\ PinNext
          /\ UNCHANGED <<poolVars, annVars, proxyVars, hookVars>>
       \/ /\ part = "proxy" /\ ProxyNext
          /\ UNCHANGED <<poolVars, annVars, pinVars, hookVars>>
       \/ /\ part = "hook" /\ HookNext
          /\ UNCHANGED <<poolVars, annVars, pinVars, proxyVars>>

\* PoolFairness and AnnFairness.  Whoever can step is in a handler, or alive: to
\* say so spares TLC the search; and no part begins to step while another runs.
Fairness ==
    /\ WF_poolVars(TakeNext)
    /\ WF_poolVars(Second)
    /\ \A m \in Messages : WF_poolVars(m \in Handled /\ HandlerStep(m))
    /\ \A i \in Timers : WF_annVars(Alive(i) /\ LoopStep(i))

FairSpec == Init /\ [][Next]_vars /\ Fairness

TypeOK ==
    /\ part \in Parts
    /\ PoolTypeOK
    /\ AnnTypeOK
    /\ PinTypeOK
    /\ ProxyTypeOK
    /\ HookTypeOK
=============================================================================
