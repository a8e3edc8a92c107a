--------------------------- MODULE BridgeLiveness ---------------------------
(***************************************************************************)
(* The liveness proxy of core/bridge_liveness.py: a thread that probes the *)
(* job loop of RNS and pings systemd while it is fresh, and systemd, which *)
(* kills a unit that has not pinged for WatchdogSec and starts it again    *)
(* (config/hermes-reticulum.service).                                      *)
(*                                                                         *)
(* Time passes in the period of the RNS job loop.  A process may freeze as *)
(* a whole, when a stuck call holds the interpreter's lock; the thread of  *)
(* the proxy and systemd are on time otherwise.  The age of the job loop   *)
(* is taken from the wall clock, which may be set.                         *)
(***************************************************************************)
EXTENDS Integers

CONSTANTS
    Interval,           \* HERMES_BRIDGE_LIVENESS_INTERVAL, 30 s
    MaxAge,             \* HERMES_BRIDGE_RNS_PROBE_MAX_AGE, 30 s
    WatchdogSec,        \* of the unit, 90 s
    Jumps               \* bound: by how much the wall clock may be set

ASSUME LivenessAssumption ==
    /\ Interval \in Nat \ {0}
    /\ MaxAge \in Nat
    /\ WatchdogSec \in Nat \ {0}
    /\ Jumps \subseteq Int

VARIABLES
    unit,               \* of systemd: "up", "dead" or "stopped"
    ran,                \* has the job loop run since RNS was constructed?
    jobAge,             \* time since it last ran, or since the start
    skew,               \* how far the wall clock was set on since then
    back,               \* history: how far it was set back since then, in all
    slept,              \* time since the proxy's last probe
    silent,             \* time since the last WATCHDOG=1
    reported,           \* _last_rns_healthy, for /status
    frozen,             \* does the whole process stand still?
    misses,             \* history: probes in a row that found RNS stale
    froze               \* history: the process has frozen since the last ping

proxyVars == <<unit, ran, jobAge, skew, back, slept, silent, reported, frozen,
               misses, froze>>

\* start(): READY=1 and a first ping, whatever RNS does.
Started ==
    /\ unit' = "up"
    /\ ran' = 0
    /\ jobAge' = 0
    /\ skew' = 0 /\ back' = 0
    /\ slept' = 0
    /\ silent' = 0
    /\ reported' = 1
    /\ frozen' = 0
    /\ misses' = 0
    /\ froze' = 0

ProxyInit ==
    /\ unit = "up"
    /\ ran = 0
    /\ jobAge = 0
    /\ skew = 0 /\ back = 0
    /\ slept = 0
    /\ silent = 0
    /\ reported = 1
    /\ frozen = 0
    /\ misses = 0
    /\ froze = 0

\* RNS.Transport.interface_last_jobs is touched.
JobsRun ==
    /\ unit = "up"
    /\ frozen = 0
    /\ ran' = 1
    /\ jobAge' = 0
    /\ skew' = 0 /\ back' = 0
    /\ UNCHANGED <<unit, slept, silent, reported, frozen, misses, froze>>

AlwaysHealthy == TRUE

\* default_rns_probe()
Healthy == ran = 1 /\ jobAge + skew \in 0..MaxAge

LateProbe == frozen = 0 /\ slept >= 2 * Interval

\* The thread sleeps in small steps, and probes when the interval is over.
ProbeDue == frozen = 0 /\ slept >= Interval

\* _tick(): the heartbeat file and the ping go together.
Probe ==
    /\ unit = "up"
    /\ ProbeDue
    /\ slept' = 0
    /\ reported' = IF Healthy THEN 1 ELSE 0
    /\ silent' = IF Healthy THEN 0 ELSE silent
    /\ misses' = IF Healthy THEN 0 ELSE misses + 1
    /\ froze' = IF Healthy THEN 0 ELSE froze
    /\ UNCHANGED <<unit, ran, jobAge, skew, back, frozen>>

\* NTP or an operator sets the clock; the bound: once between two runs of the
\* job loop.
SetClock ==
    /\ unit = "up"
    /\ skew = 0
    /\ \E d \in Jumps :
          /\ skew' = skew + d
          /\ back' = IF d < 0 THEN back - d ELSE back
    /\ UNCHANGED <<unit, ran, jobAge, slept, silent, reported, frozen, misses, froze>>

Freeze ==
    /\ unit = "up"
    /\ frozen' = 1 - frozen
    /\ froze' = 1
    /\ UNCHANGED <<unit, ran, jobAge, skew, back, slept, silent, reported, misses>>

KillDue == silent >= WatchdogSec

Kill ==
    /\ unit = "up"
    /\ KillDue
    /\ unit' = "dead"
    /\ UNCHANGED <<ran, jobAge, skew, back, slept, silent, reported, frozen, misses,
                   froze>>

\* Restart=on-failure, after RestartSec
Restarted == unit = "dead" /\ Started

\* stop(): the thread ends, and the process with it.
Stopped ==
    /\ unit = "up"
    /\ frozen = 0
    /\ unit' = "stopped"
    /\ UNCHANGED <<ran, jobAge, skew, back, slept, silent, reported, frozen, misses,
                   froze>>

\* Neither the proxy nor systemd lets a moment pass at which it is due.
Pass ==
    /\ unit = "up"
    /\ ~ProbeDue
    /\ ~KillDue
    /\ jobAge' = jobAge + 1
    /\ slept' = slept + 1
    /\ silent' = silent + 1
    /\ UNCHANGED <<unit, ran, skew, back, reported, frozen, misses, froze>>

ProxyNext ==
    \/ JobsRun \/ Probe \/ SetClock \/ Freeze \/ Kill \/ Restarted \/ Stopped \/ Pass

ProxySpec == ProxyInit /\ [][ProxyNext]_proxyVars

-----------------------------------------------------------------------------
(* Properties                                                              *)

ProxyTypeOK ==
    /\ unit \in {"up", "dead", "stopped"}
    /\ ran \in {0, 1}
    /\ jobAge \in Nat
    /\ skew \in Int /\ back \in Nat
    /\ slept \in Nat
    /\ silent \in 0..WatchdogSec
    /\ reported \in {0, 1}
    /\ frozen \in {0, 1}
    /\ misses \in Nat
    /\ froze \in {0, 1}

\* "So a momentary GIL contention can't false-positive": systemd kills a bridge
\* that did not freeze only when every probe since the last ping, at least the
\* (WatchdogSec - 1) \div Interval that fit in between, found RNS stale.
NoFalseKill ==
    unit = "dead" /\ froze = 0 => misses * Interval + Interval >= WatchdogSec

\* "Stops pinging when RNS wedges, so the watchdog fires": no bridge is left up
\* longer than MaxAge and WatchdogSec after the job loop last ran, nor one whose
\* job loop has never run, whatever the phase of the probes and however often
\* the process froze; the wall clock delays it by no more than it was set back.
WedgeIsKilled ==
    unit = "up" => jobAge <= MaxAge + WatchdogSec + back
=============================================================================
