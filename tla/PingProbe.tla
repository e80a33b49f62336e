------------------------------ MODULE PingProbe ------------------------------
(***************************************************************************)
(* The reachability probe of one worker (internal/manager/worker.go): the  *)
(* loop of run(), its probe ticker, and the doPing goroutines it spawns.   *)
(* A probe dials without the lock, then takes pingMu, updates the failure  *)
(* counter, decides whether the verdict flipped, and runs the notification *)
(* callback inline with pingMu released.  Probes overlap: the ticker keeps *)
(* one pending tick while the loop collects, and a callback may be slow.   *)
(*                                                                         *)
(* results, events, evt and delivered are history: they name what the code *)
(* does but does not store.  MaxProbes bounds the probes of one worker.    *)
(*                                                                         *)
(* An operator written just before the one it varies (NextConsecNoReset    *)
(* before NextConsec) is a deliberate slip: it is not part of Spec, and    *)
(* PROJECT.json names the property that catches it.                        *)
(***************************************************************************)
EXTENDS Naturals, Sequences, FiniteSets

CONSTANTS PingThreshold,    \* pingThreshold (2 in the code)
          MaxProbes         \* bound: doPing goroutines one worker spawns

ASSUME PingThresholdAssumption == PingThreshold \in Nat \ {0}
ASSUME MaxProbesAssumption == MaxProbes \in Nat \ {0}

Probes == 1 .. MaxProbes
Free == 0                   \* pingMu is not held

VARIABLES
    loop,         \* where run() is: "boot", "select", "collect" or "exited"
    stop,         \* the stop channel is closed
    tick,         \* pingTicker.C holds a tick
    started,      \* probes spawned so far; probe p is the p-th of them
    pc,           \* [Probes -> where the doPing goroutine is]
    answered,     \* [Probes -> the dial succeeded] (local err of doPing)
    pingMu,       \* the probe that holds pingMu, or Free
    pingConsec, pingReady, pingDown, pingWasDown,
    results,      \* history: results in the order they were taken in
    events,       \* history: transitions decided, TRUE for "online"
    evt,          \* history: [Probes -> index in events it must deliver]
    delivered     \* history: indices of events whose callback returned

loopVars == <<loop, stop, tick, started>>
pingVars == <<pingConsec, pingReady, pingDown, pingWasDown>>
histVars == <<results, events, evt, delivered>>
vars == <<loopVars, pc, answered, pingMu, pingVars, histVars>>

ProbeStates == {"idle", "dial", "lock", "record", "decide", "callback",
                "relock", "unlock", "done"}

TypeOK ==
    /\ loop \in {"boot", "select", "collect", "exited"}
    /\ stop \in BOOLEAN
    /\ tick \in BOOLEAN
    /\ started \in 0 .. MaxProbes
    /\ pc \in [Probes -> ProbeStates]
    /\ answered \in [Probes -> BOOLEAN]
    /\ pingMu \in Probes \union {Free}
    /\ pingConsec \in Nat
    /\ pingReady \in BOOLEAN
    /\ pingDown \in BOOLEAN
    /\ pingWasDown \in BOOLEAN
    /\ results \in Seq(BOOLEAN)
    /\ events \in Seq(BOOLEAN)
    /\ evt \in [Probes -> Nat]
    /\ delivered \subseteq Nat

Init ==
    /\ loop = "boot"
    /\ stop = FALSE
    /\ tick = FALSE
    /\ started = 0
    /\ pc = [p \in Probes |-> "idle"]
    /\ answered = [p \in Probes |-> FALSE]
    /\ pingMu = Free
    /\ pingConsec = 0
    /\ pingReady = FALSE
    /\ pingDown = FALSE
    /\ pingWasDown = FALSE
    /\ results = << >>
    /\ events = << >>
    /\ evt = [p \in Probes |-> 0]
    /\ delivered = {}

-----------------------------------------------------------------------------
(* The loop of run().                                                      *)

Spawn == /\ started < MaxProbes
         /\ started' = started + 1
         /\ pc' = [pc EXCEPT ![started + 1] = "dial"]

(* Login and the first collection are over: the tickers start, and the     *)
(* first probe is spawned at once.  stop may already be closed.            *)
Begin == /\ loop = "boot"
         /\ loop' = "select"
         /\ Spawn
         /\ UNCHANGED <<stop, tick, answered, pingMu, pingVars, histVars>>

(* The runtime puts a tick in the channel; a tick that finds one there is  *)
(* dropped.  It does so whether or not the loop is at its select.          *)
Tick == /\ loop \in {"select", "collect"}
        /\ ~tick
        /\ tick' = TRUE
        /\ UNCHANGED <<loop, stop, started, pc, answered, pingMu, pingVars,
                       histVars>>

TakeTick == /\ loop = "select"
            /\ tick
            /\ tick' = FALSE
            /\ Spawn
            /\ UNCHANGED <<loop, stop, answered, pingMu, pingVars, histVars>>

(* The config or the stats ticker: the loop is away from its select.       *)
StartCollect == /\ loop = "select"
                /\ loop' = "collect"
                /\ UNCHANGED <<stop, tick, started, pc, answered, pingMu,
                               pingVars, histVars>>

EndCollect == /\ loop = "collect"
              /\ loop' = "select"
              /\ UNCHANGED <<stop, tick, started, pc, answered, pingMu,
                             pingVars, histVars>>

(* stopAndWait closes the channel; select may still prefer a ready ticker. *)
CloseStop == /\ ~stop
             /\ stop' = TRUE
             /\ UNCHANGED <<loop, tick, started, pc, answered, pingMu,
                            pingVars, histVars>>

Exit == /\ loop = "select"
        /\ stop
        /\ loop' = "exited"
        /\ UNCHANGED <<stop, tick, started, pc, answered, pingMu, pingVars,
                       histVars>>

-----------------------------------------------------------------------------
(* doPing.  Its context is never cancelled: a probe outlives the loop.     *)

Dial(p) ==
    /\ pc[p] = "dial"
    /\ \E ok \in BOOLEAN : answered' = [answered EXCEPT ![p] = ok]
    /\ pc' = [pc EXCEPT ![p] = "lock"]
    /\ UNCHANGED <<loopVars, pingMu, pingVars, histVars>>

Lock(p) ==
    /\ pc[p] = "lock"
    /\ pingMu = Free
    /\ pingMu' = p
    /\ pc' = [pc EXCEPT ![p] = "record"]
    /\ UNCHANGED <<loopVars, answered, pingVars, histVars>>

NextConsecNoReset(ok) == IF ok THEN pingConsec ELSE pingConsec + 1
NextConsecStepsBack(ok) == IF ok THEN pingConsec - 1 ELSE pingConsec + 1
NextConsec(ok) == IF ok THEN 0 ELSE pingConsec + 1

NextDownLate(ok) == ~ok /\ (pingDown \/ pingConsec + 1 > PingThreshold)
NextDown(ok) == ~ok /\ (pingDown \/ pingConsec + 1 >= PingThreshold)

Record(p) ==
    /\ pc[p] = "record"
    /\ pingReady' = TRUE
    /\ pingConsec' = NextConsec(answered[p])
    /\ pingDown' = NextDown(answered[p])
    /\ pc' = [pc EXCEPT ![p] = "decide"]
    /\ UNCHANGED <<loopVars, answered, pingMu, pingWasDown, histVars>>

ForgetVerdict == UNCHANGED pingWasDown
RememberVerdict == pingWasDown' = pingDown

KeepLockForCallback == UNCHANGED pingMu
UnlockForCallback == pingMu' = Free

SkipWhenStopped == IF stop THEN "done" ELSE "callback"
AfterFlip == "callback"

(* The verdict flipped: remember it, unlock, and go on to the callback.    *)
DecideFlip(p) ==
    /\ pc[p] = "decide"
    /\ pingDown # pingWasDown
    /\ RememberVerdict
    /\ UnlockForCallback
    /\ pc' = [pc EXCEPT ![p] = AfterFlip]
    /\ results' = Append(results, answered[p])
    /\ events' = Append(events, ~pingDown)
    /\ evt' = [evt EXCEPT ![p] = Len(events) + 1]
    /\ UNCHANGED <<loopVars, answered, pingConsec, pingReady, pingDown,
                   delivered>>

DecideSame(p) ==
    /\ pc[p] = "decide"
    /\ pingDown = pingWasDown
    /\ pingMu' = Free
    /\ pc' = [pc EXCEPT ![p] = "done"]
    /\ results' = Append(results, answered[p])
    /\ UNCHANGED <<loopVars, answered, pingVars, events, evt, delivered>>

(* fn(id, online) returns: NotifyPingChange has tried every channel.       *)
Callback(p) ==
    /\ pc[p] = "callback"
    /\ delivered' = delivered \union {evt[p]}
    /\ pc' = [pc EXCEPT ![p] = "relock"]
    /\ UNCHANGED <<loopVars, answered, pingMu, pingVars, results, events, evt>>

Relock(p) ==
    /\ pc[p] = "relock"
    /\ pingMu = Free
    /\ pingMu' = p
    /\ pc' = [pc EXCEPT ![p] = "unlock"]
    /\ UNCHANGED <<loopVars, answered, pingVars, histVars>>

Unlock(p) ==
    /\ pc[p] = "unlock"
    /\ pingMu' = Free
    /\ pc' = [pc EXCEPT ![p] = "done"]
    /\ UNCHANGED <<loopVars, answered, pingVars, histVars>>

Probe(p) == \/ Dial(p) \/ Lock(p) \/ Record(p) \/ DecideFlip(p)
            \/ DecideSame(p) \/ Callback(p) \/ Relock(p) \/ Unlock(p)

Loop == \/ Begin \/ Tick \/ TakeTick \/ StartCollect \/ EndCollect
        \/ CloseStop \/ Exit

Next == Loop \/ \E p \in Probes : Probe(p)

Spec == Init /\ [][Next]_vars

(* Every goroutine that can run eventually does, and the dial has a        *)
(* timeout.  Fairness of Callback assumes that NotifyPingChange returns:   *)
(* it does unless a shoutrrr channel never answers (Notifications,         *)
(* AlertsEnd).  The loop leaves a select whose stop is closed: select      *)
(* picks at random among the ready cases, so a case that is ready again    *)
(* and again is taken, which is strong fairness of Exit.                   *)
Fairness == /\ \A p \in Probes : WF_vars(Probe(p))
            /\ WF_vars(Begin)
            /\ WF_vars(EndCollect)
            /\ SF_vars(Exit)

FairSpec == Spec /\ Fairness

-----------------------------------------------------------------------------
(* pingIsDown(), which takes pingMu: what Manager.Status sees.             *)
PingIsDown == pingReady /\ pingDown

Abstract == INSTANCE Reachability WITH history <- results, alerts <- events

(* Whenever the lock is free, so whenever Status can look, the worker      *)
(* reports offline exactly when the last PingThreshold results, in the     *)
(* order they were taken in, all failed: overlapping probes lose no count  *)
(* and a late answer clears the verdict (README.md:121).                   *)
OfflineMeansFailures == pingMu = Free => (PingIsDown <=> Abstract!Offline(results))

(* Transitions alternate and start with "offline": no two alerts of the    *)
(* same kind in a row, whatever the probes' interleaving, and the last one *)
(* decided agrees with the verdict (doPing's pingWasDown, worker.go:110).  *)
EventsAlternate ==
    /\ \A i \in 1 .. Len(events) : events[i] = (i % 2 = 0)
    /\ pingMu = Free => (pingDown <=> Len(events) % 2 = 1)

(* A decided transition is never lost or notified twice: it was delivered  *)
(* or exactly one probe is about to deliver it, with pingMu released.      *)
EachEventHasOneCarrier ==
    \A i \in 1 .. Len(events) :
        LET carriers == {p \in Probes : pc[p] = "callback" /\ evt[p] = i}
        IN  IF i \in delivered THEN carriers = {} ELSE Cardinality(carriers) = 1

(* The lock is held only inside doPing's critical sections, never across a *)
(* callback or a dial, so Status never waits for the network.              *)
LockHeldBriefly ==
    \A p \in Probes : pingMu = p <=> pc[p] \in {"record", "decide", "unlock"}

(* Results change the verdict and the alerts as Reachability says.         *)
ImplementsReachability == Abstract!Spec

(* Every decided transition is eventually notified, also when the worker   *)
(* is stopped in the meantime, as long as no channel hangs for ever.       *)
EventuallyDelivered ==
    \A i \in 1 .. MaxProbes : (i <= Len(events)) ~> (i \in delivered)

(* A stopped worker leaves its loop and its probes all finish: stopAndWait *)
(* returns, and no probe or alert of the old worker goes on for ever (but  *)
(* one whose channel never answers).                                       *)
StopQuiesces ==
    stop ~> [](loop = "exited" /\ \A p \in Probes : pc[p] \in {"idle", "done"})
=============================================================================
