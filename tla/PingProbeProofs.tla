--------------------------- MODULE PingProbeProofs ---------------------------
(***************************************************************************)
(* Proofs about the reachability probe, for every threshold and every      *)
(* number of probes: the safety invariants of PingProbe, the fact that it  *)
(* implements Reachability, and what is so when no probe is at work.       *)
(***************************************************************************)
EXTENDS PingProbe, FiniteSetTheorems, TLAPS

(* The results including the one the lock holder has counted but not yet   *)
(* turned into a decision.                                                 *)
Counted == IF pingMu # Free /\ pc[pingMu] = "decide"
           THEN Append(results, answered[pingMu]) ELSE results

(* The counter is the length of the run of failures that ends h.           *)
TrailingFailures(h, n) ==
    /\ n \in 0 .. Len(h)
    /\ \A i \in 1 .. Len(h) : i > Len(h) - n => h[i] = FALSE
    /\ n < Len(h) => h[Len(h) - n] = TRUE

NotSpawned == \A p \in Probes : p > started => pc[p] = "idle"

CounterInv ==
    /\ TrailingFailures(Counted, pingConsec)
    /\ pingDown <=> pingConsec >= PingThreshold
    /\ pingReady <=> Len(Counted) > 0

VerdictInv ==
    /\ pingWasDown <=> Abstract!Offline(results)
    /\ \A i \in 1 .. Len(events) : events[i] = (i % 2 = 0)
    /\ pingWasDown <=> Len(events) % 2 = 1

CarrierInv ==
    /\ delivered \subseteq 1 .. Len(events)
    /\ \A p \in Probes : pc[p] = "callback" =>
           evt[p] \in 1 .. Len(events) /\ evt[p] \notin delivered
    /\ \A p, q \in Probes :
           pc[p] = "callback" /\ pc[q] = "callback" /\ evt[p] = evt[q] => p = q
    /\ \A i \in 1 .. Len(events) :
           i \notin delivered => \E p \in Probes : pc[p] = "callback" /\ evt[p] = i

ProbeInv == /\ TypeOK
            /\ NotSpawned
            /\ LockHeldBriefly
            /\ CounterInv
            /\ VerdictInv
            /\ CarrierInv

-----------------------------------------------------------------------------
LEMMA OfflineCount ==
    ASSUME NEW h \in Seq(BOOLEAN), NEW n \in Nat, TrailingFailures(h, n)
    PROVE  Abstract!Offline(h) <=> n >= PingThreshold
<1>1. Len(h) \in Nat /\ PingThreshold \in Nat \ {0}
  BY PingThresholdAssumption
<1>2. ASSUME n >= PingThreshold PROVE Abstract!Offline(h)
  BY <1>1, <1>2 DEF Abstract!Offline, TrailingFailures
<1>3. ASSUME Abstract!Offline(h), ~ (n >= PingThreshold) PROVE FALSE
  <2>1. Len(h) - n \in (Len(h) - PingThreshold + 1) .. Len(h) /\ n < Len(h)
    BY <1>1, <1>3 DEF Abstract!Offline, TrailingFailures
  <2>2. h[Len(h) - n] = TRUE /\ h[Len(h) - n] = FALSE
    BY <2>1, <1>3 DEF Abstract!Offline, TrailingFailures
  <2> QED BY <2>2
<1> QED BY <1>2, <1>3

LEMMA CountFailure ==
    ASSUME NEW h \in Seq(BOOLEAN), NEW n \in Nat, TrailingFailures(h, n)
    PROVE  TrailingFailures(Append(h, FALSE), n + 1)
<1>1. /\ Len(Append(h, FALSE)) = Len(h) + 1
      /\ Len(h) \in Nat
      /\ \A i \in 1 .. Len(h) : Append(h, FALSE)[i] = h[i]
      /\ Append(h, FALSE)[Len(h) + 1] = FALSE
  OBVIOUS
<1> QED BY <1>1 DEF TrailingFailures

LEMMA CountAnswer ==
    ASSUME NEW h \in Seq(BOOLEAN)
    PROVE  TrailingFailures(Append(h, TRUE), 0)
<1>1. /\ Len(Append(h, TRUE)) = Len(h) + 1
      /\ Len(h) \in Nat
      /\ Append(h, TRUE)[Len(h) + 1] = TRUE
  OBVIOUS
<1> QED BY <1>1 DEF TrailingFailures

-----------------------------------------------------------------------------
LEMMA InitInv == Init => ProbeInv
<1> SUFFICES ASSUME Init PROVE ProbeInv
  OBVIOUS
<1>1. TypeOK
  <2>1. << >> \in Seq(BOOLEAN) /\ 0 \in 0 .. MaxProbes
    BY MaxProbesAssumption
  <2> QED BY <2>1 DEF Init, TypeOK, ProbeStates
<1>2. NotSpawned /\ LockHeldBriefly
  BY MaxProbesAssumption DEF Init, NotSpawned, LockHeldBriefly, Probes, Free
<1>3. Counted = << >>
  BY DEF Init, Counted
<1>4. CounterInv
  BY <1>3, PingThresholdAssumption DEF Init, CounterInv, TrailingFailures
<1>5. VerdictInv
  BY PingThresholdAssumption DEF Init, VerdictInv, Abstract!Offline
<1>6. CarrierInv
  BY DEF Init, CarrierInv
<1> QED BY <1>1, <1>2, <1>4, <1>5, <1>6 DEF ProbeInv

(* A step that leaves the counters, the history and every probe that is    *)
(* past its dial alone keeps the counting and carrying invariants.         *)
LEMMA SpawnStep ==
    ASSUME ProbeInv, Spawn,
           loop' \in {"boot", "select", "collect", "exited"},
           stop' \in BOOLEAN, tick' \in BOOLEAN,
           UNCHANGED <<answered, pingMu, pingVars, histVars>>
    PROVE  ProbeInv'
<1> USE DEF ProbeInv
<1>1. started + 1 \in Probes /\ pc[started + 1] = "idle"
  BY MaxProbesAssumption DEF Spawn, TypeOK, Probes, NotSpawned
<1>2. TypeOK'
  BY <1>1 DEF Spawn, TypeOK, Probes, ProbeStates, pingVars, histVars
<1>3. NotSpawned'
  BY <1>1 DEF Spawn, TypeOK, NotSpawned, Probes
<1>4. LockHeldBriefly'
  BY <1>1 DEF Spawn, TypeOK, LockHeldBriefly
<1>5. Counted' = Counted
  BY <1>1 DEF Spawn, TypeOK, LockHeldBriefly, Counted, histVars
<1>6. CounterInv' /\ VerdictInv'
  BY <1>5 DEF CounterInv, VerdictInv, TrailingFailures, Abstract!Offline,
              pingVars, histVars
<1>7. CarrierInv'
  BY <1>1 DEF Spawn, TypeOK, CarrierInv, histVars
<1> QED BY <1>2, <1>3, <1>4, <1>6, <1>7

LEMMA LoopStep ==
    ASSUME ProbeInv, Loop
    PROVE  ProbeInv'
<1>1. CASE Begin
  BY <1>1, SpawnStep DEF Begin, ProbeInv, TypeOK
<1>2. CASE TakeTick
  BY <1>2, SpawnStep DEF TakeTick, ProbeInv, TypeOK
<1>3. CASE Tick \/ StartCollect \/ EndCollect \/ CloseStop \/ Exit
  <2>1. /\ UNCHANGED <<started, pc, answered, pingMu, pingVars, histVars>>
        /\ loop' \in {"boot", "select", "collect", "exited"}
        /\ stop' \in BOOLEAN
        /\ tick' \in BOOLEAN
    BY <1>3 DEF Tick, StartCollect, EndCollect, CloseStop, Exit, ProbeInv, TypeOK
  <2>2. Counted' = Counted
    BY <2>1 DEF Counted, histVars
  <2>3. TypeOK' /\ NotSpawned' /\ LockHeldBriefly'
    BY <2>1 DEF ProbeInv, TypeOK, NotSpawned, LockHeldBriefly, pingVars, histVars
  <2>4. CounterInv' /\ VerdictInv' /\ CarrierInv'
    BY <2>1, <2>2 DEF ProbeInv, CounterInv, VerdictInv, CarrierInv,
                      TrailingFailures, Abstract!Offline, pingVars, histVars
  <2> QED BY <2>3, <2>4 DEF ProbeInv
<1> QED BY <1>1, <1>2, <1>3 DEF Loop

(* Dialling, taking and releasing pingMu count nothing.                    *)
LEMMA QuietStep ==
    ASSUME ProbeInv, NEW p \in Probes,
           Dial(p) \/ Lock(p) \/ Relock(p) \/ Unlock(p)
    PROVE  ProbeInv'
<1> USE DEF ProbeInv
<1>0. UNCHANGED <<loopVars, pingVars, histVars>>
  BY DEF Dial, Lock, Relock, Unlock
<1>1. TypeOK'
  BY <1>0 DEF Dial, Lock, Relock, Unlock, TypeOK, Probes, ProbeStates, loopVars,
         pingVars, histVars
<1>2. NotSpawned'
  BY <1>0 DEF Dial, Lock, Relock, Unlock, TypeOK, NotSpawned, loopVars
<1>3. LockHeldBriefly'
  BY MaxProbesAssumption
     DEF Dial, Lock, Relock, Unlock, TypeOK, LockHeldBriefly, Probes, Free
<1>4. Counted' = Counted
  BY <1>0, MaxProbesAssumption
     DEF Dial, Lock, Relock, Unlock, TypeOK, LockHeldBriefly, Counted, Free,
         Probes, histVars
<1>5. CounterInv' /\ VerdictInv'
  BY <1>0, <1>4 DEF CounterInv, VerdictInv, TrailingFailures, Abstract!Offline,
              pingVars, histVars
<1>6. CarrierInv'
  <2>1. \A q \in Probes : pc'[q] = "callback" <=> pc[q] = "callback"
    BY DEF Dial, Lock, Relock, Unlock, TypeOK
  <2> QED BY <1>0, <2>1 DEF CarrierInv, histVars
<1> QED BY <1>1, <1>2, <1>3, <1>5, <1>6

LEMMA RecordStep ==
    ASSUME ProbeInv, NEW p \in Probes, Record(p)
    PROVE  ProbeInv'
<1> USE DEF ProbeInv
<1>0. UNCHANGED <<loopVars, answered, pingMu, pingWasDown, histVars>>
  BY DEF Record
<1>1. TypeOK'
  BY <1>0, PingThresholdAssumption
     DEF Record, TypeOK, NextConsec, NextDown, ProbeStates, loopVars, histVars
<1>2. NotSpawned' /\ LockHeldBriefly'
  BY <1>0 DEF Record, TypeOK, NotSpawned, LockHeldBriefly, loopVars
<1>3. /\ Counted = results
      /\ Counted' = Append(results, answered[p])
  BY <1>0 DEF Record, TypeOK, LockHeldBriefly, Counted, Probes, Free, histVars
<1>4. Len(Append(results, answered[p])) = Len(results) + 1
  BY DEF TypeOK
<1>5. CounterInv'
  <2>1. TrailingFailures(Counted', pingConsec')
    <3>1. CASE answered[p] = TRUE
      BY <1>3, <3>1, CountAnswer DEF Record, NextConsec, TypeOK
    <3>2. CASE answered[p] = FALSE
      BY <1>3, <3>2, CountFailure DEF Record, NextConsec, TypeOK, CounterInv
    <3> QED BY <3>1, <3>2 DEF TypeOK
  <2>2. pingDown' <=> pingConsec' >= PingThreshold
    <3>1. pingDown <=> pingConsec >= PingThreshold
      BY DEF CounterInv
    <3>2. CASE answered[p] = TRUE
      <4>1. pingConsec' = 0 /\ pingDown' = FALSE
        BY <3>2 DEF Record, NextConsec, NextDown
      <4> QED BY <4>1, PingThresholdAssumption
    <3>3. CASE answered[p] = FALSE
      <4>1. /\ pingConsec' = pingConsec + 1
            /\ pingDown' <=> (pingDown \/ pingConsec + 1 >= PingThreshold)
        BY <3>3 DEF Record, NextConsec, NextDown
      <4>2. pingConsec \in Nat
        BY DEF TypeOK
      <4>3. pingConsec >= PingThreshold => pingConsec + 1 >= PingThreshold
        BY <4>2, PingThresholdAssumption
      <4> QED BY <3>1, <4>1, <4>3
    <3> QED BY <3>2, <3>3 DEF TypeOK
  <2>3. pingReady' <=> Len(Counted') > 0
    <3>1. Len(results) \in Nat
      BY DEF TypeOK
    <3>2. Len(Counted') > 0
      BY <1>3, <1>4, <3>1
    <3> QED BY <3>2 DEF Record
  <2> QED BY <2>1, <2>2, <2>3 DEF CounterInv
<1>6. VerdictInv'
  BY <1>0 DEF VerdictInv, Abstract!Offline, histVars
<1>7. CarrierInv'
  <2>1. \A q \in Probes : pc'[q] = "callback" <=> pc[q] = "callback"
    BY DEF Record, TypeOK
  <2> QED BY <1>0, <2>1 DEF CarrierInv, histVars
<1> QED BY <1>1, <1>2, <1>5, <1>6, <1>7

(* What the probe knows when it decides: the fields and the counted        *)
(* results agree, and the remembered verdict is the one before this probe. *)
LEMMA AtDecide ==
    ASSUME ProbeInv, NEW p \in Probes, pc[p] = "decide"
    PROVE  /\ pingMu = p
           /\ Counted = Append(results, answered[p])
           /\ Append(results, answered[p]) \in Seq(BOOLEAN)
           /\ pingDown <=> Abstract!Offline(Append(results, answered[p]))
           /\ pingWasDown <=> Abstract!Offline(results)
<1> USE DEF ProbeInv
<1>1. pingMu = p /\ p # Free
  BY DEF LockHeldBriefly, Probes, Free
<1>2. Counted = Append(results, answered[p])
  BY <1>1 DEF Counted
<1>3. Counted \in Seq(BOOLEAN)
  BY <1>2 DEF TypeOK
<1>4. pingDown <=> Abstract!Offline(Counted)
  BY <1>3, OfflineCount DEF CounterInv, TypeOK
<1> QED BY <1>1, <1>2, <1>3, <1>4 DEF VerdictInv

LEMMA DecideSameStep ==
    ASSUME ProbeInv, NEW p \in Probes, DecideSame(p)
    PROVE  ProbeInv'
<1> USE DEF ProbeInv
<1>0. /\ pc[p] = "decide"
      /\ UNCHANGED <<loopVars, answered, pingVars, events, evt, delivered>>
      /\ results' = Append(results, answered[p])
      /\ pingMu' = Free
  BY DEF DecideSame
<1>1. /\ pingMu = p
      /\ Counted = results'
      /\ results' \in Seq(BOOLEAN)
      /\ pingDown <=> Abstract!Offline(results')
  BY <1>0, AtDecide
<1>2. TypeOK'
  BY <1>0, <1>1 DEF DecideSame, TypeOK, ProbeStates, loopVars, pingVars
<1>3. NotSpawned' /\ LockHeldBriefly'
  BY <1>0, <1>1 DEF DecideSame, TypeOK, NotSpawned, LockHeldBriefly, Probes,
                    Free, loopVars
<1>4. Counted' = Counted
  BY <1>0, <1>1 DEF Counted
<1>5. CounterInv'
  BY <1>0, <1>4 DEF CounterInv, TrailingFailures, pingVars
<1>6. VerdictInv'
  <2>1. pingWasDown' <=> Abstract!Offline(results')
    BY <1>0, <1>1 DEF DecideSame, TypeOK, pingVars
  <2>2. (Abstract!Offline(results))' <=> Abstract!Offline(results')
    BY DEF Abstract!Offline
  <2> QED BY <2>1, <2>2, <1>0 DEF VerdictInv, pingVars
<1>7. CarrierInv'
  <2>1. \A q \in Probes : pc'[q] = "callback" <=> pc[q] = "callback"
    BY DEF DecideSame, TypeOK
  <2> QED BY <1>0, <2>1 DEF CarrierInv
<1> QED BY <1>2, <1>3, <1>5, <1>6, <1>7

(* The step that matters: the flip is remembered, announced and handed to  *)
(* this probe before another probe can look.                               *)
LEMMA DecideFlipStep ==
    ASSUME ProbeInv, NEW p \in Probes, DecideFlip(p)
    PROVE  ProbeInv'
<1> USE DEF ProbeInv
<1>0. /\ pc[p] = "decide"
      /\ pingDown # pingWasDown
      /\ pingWasDown' = pingDown
      /\ pingMu' = Free
      /\ pc' = [pc EXCEPT ![p] = "callback"]
      /\ results' = Append(results, answered[p])
      /\ events' = Append(events, ~pingDown)
      /\ evt' = [evt EXCEPT ![p] = Len(events) + 1]
      /\ UNCHANGED <<loopVars, answered, pingConsec, pingReady, pingDown,
                     delivered>>
  BY DEF DecideFlip, RememberVerdict, UnlockForCallback, AfterFlip
<1>1. /\ pingMu = p
      /\ Counted = results'
      /\ results' \in Seq(BOOLEAN)
      /\ pingDown <=> Abstract!Offline(results')
  BY <1>0, AtDecide
<1>2. TypeOK'
  <2>1. events' \in Seq(BOOLEAN) /\ Len(events) + 1 \in Nat
    BY <1>0 DEF TypeOK
  <2> QED BY <1>0, <1>1, <2>1 DEF TypeOK, ProbeStates, loopVars
<1>3. NotSpawned' /\ LockHeldBriefly'
  BY <1>0, <1>1 DEF TypeOK, NotSpawned, LockHeldBriefly, Probes, Free, loopVars
<1>4. Counted' = Counted
  BY <1>0, <1>1 DEF Counted
<1>5. CounterInv'
  BY <1>0, <1>4 DEF CounterInv, TrailingFailures
<1>6. /\ Len(events) \in Nat
      /\ Len(events') = Len(events) + 1
      /\ \A i \in 1 .. Len(events) : events'[i] = events[i]
      /\ events'[Len(events) + 1] = ~pingDown
  BY <1>0 DEF TypeOK
<1>7. VerdictInv'
  <2>1. (Abstract!Offline(results))' <=> Abstract!Offline(results')
    BY DEF Abstract!Offline
  <2>2. pingWasDown' <=> Len(events') % 2 = 1
    <3>1. pingWasDown <=> Len(events) % 2 = 1
      BY DEF VerdictInv
    <3>2. (Len(events) + 1) % 2 = 1 <=> ~(Len(events) % 2 = 1)
      BY <1>6
    <3>3. pingWasDown' <=> ~pingWasDown
      BY <1>0 DEF TypeOK
    <3> QED BY <3>1, <3>2, <3>3, <1>6
  <2>3. events'[Len(events')] = (Len(events') % 2 = 0)
    <3>1. Len(events') % 2 = 0 <=> ~(Len(events') % 2 = 1)
      BY <1>6
    <3>2. pingWasDown' <=> pingDown
      BY <1>0
    <3>3. events'[Len(events')] = ~pingDown
      BY <1>6
    <3>4. ~pingDown <=> Len(events') % 2 = 0
      BY <3>1, <3>2, <2>2
    <3> QED BY <3>3, <3>4, Zenon
  <2>4. ASSUME NEW i \in 1 .. Len(events') PROVE events'[i] = (i % 2 = 0)
    <3>1. i \in 1 .. Len(events) \/ i = Len(events')
      BY <1>6
    <3>2. ASSUME i \in 1 .. Len(events) PROVE events'[i] = (i % 2 = 0)
      BY <1>6, <3>2 DEF VerdictInv
    <3> QED BY <3>1, <3>2, <2>3
  <2> QED BY <2>1, <2>2, <2>4, <1>0, <1>1 DEF VerdictInv
<1>8. CarrierInv'
  <2>1. \A q \in Probes : pc'[q] = "callback" <=> q = p \/ pc[q] = "callback"
    BY <1>0 DEF TypeOK
  <2>2. \A q \in Probes :
            evt'[q] = IF q = p THEN Len(events) + 1 ELSE evt[q]
    BY <1>0 DEF TypeOK
  <2>3. delivered' = delivered /\ pc[p] # "callback"
    BY <1>0
  <2>4. delivered' \subseteq 1 .. Len(events')
    BY <1>6, <2>3 DEF CarrierInv
  <2>5. \A q \in Probes : pc'[q] = "callback" =>
            evt'[q] \in 1 .. Len(events') /\ evt'[q] \notin delivered'
    BY <1>6, <2>1, <2>2, <2>3 DEF CarrierInv
  <2>6. \A q, r \in Probes :
            pc'[q] = "callback" /\ pc'[r] = "callback" /\ evt'[q] = evt'[r]
                => q = r
    BY <1>6, <2>1, <2>2, <2>3 DEF CarrierInv
  <2>7. \A i \in 1 .. Len(events') : i \notin delivered' =>
            \E q \in Probes : pc'[q] = "callback" /\ evt'[q] = i
    <3> SUFFICES ASSUME NEW i \in 1 .. Len(events'), i \notin delivered'
                 PROVE  \E q \in Probes : pc'[q] = "callback" /\ evt'[q] = i
      OBVIOUS
    <3>1. CASE i = Len(events) + 1
      BY <3>1, <2>1, <2>2
    <3>2. CASE i \in 1 .. Len(events)
      <4>1. PICK q \in Probes : pc[q] = "callback" /\ evt[q] = i
        BY <3>2, <2>3 DEF CarrierInv
      <4> QED BY <4>1, <2>1, <2>2, <2>3
    <3> QED BY <1>6, <3>1, <3>2
  <2> QED BY <2>4, <2>5, <2>6, <2>7 DEF CarrierInv
<1> QED BY <1>2, <1>3, <1>5, <1>7, <1>8

LEMMA CallbackStep ==
    ASSUME ProbeInv, NEW p \in Probes, Callback(p)
    PROVE  ProbeInv'
<1> USE DEF ProbeInv
<1>0. /\ pc[p] = "callback"
      /\ pc' = [pc EXCEPT ![p] = "relock"]
      /\ delivered' = delivered \union {evt[p]}
      /\ UNCHANGED <<loopVars, answered, pingMu, pingVars, results, events, evt>>
  BY DEF Callback
<1>1. TypeOK' /\ NotSpawned' /\ LockHeldBriefly'
  BY <1>0 DEF TypeOK, NotSpawned, LockHeldBriefly, ProbeStates, loopVars, pingVars
<1>2. Counted' = Counted
  BY <1>0 DEF Counted, TypeOK, LockHeldBriefly, Probes, Free
<1>3. CounterInv' /\ VerdictInv'
  BY <1>0, <1>2 DEF CounterInv, VerdictInv, TrailingFailures, Abstract!Offline,
                    pingVars
<1>4. CarrierInv'
  <2>1. \A q \in Probes : pc'[q] = "callback" <=> q # p /\ pc[q] = "callback"
    BY <1>0 DEF TypeOK
  <2>2. events' = events /\ evt' = evt
    BY <1>0
  <2>3. delivered' \subseteq 1 .. Len(events')
    BY <1>0, <2>2 DEF CarrierInv
  <2>4. \A q \in Probes : pc'[q] = "callback" =>
            evt'[q] \in 1 .. Len(events') /\ evt'[q] \notin delivered'
    BY <1>0, <2>1, <2>2 DEF CarrierInv
  <2>5. \A i \in 1 .. Len(events') : i \notin delivered' =>
            \E q \in Probes : pc'[q] = "callback" /\ evt'[q] = i
    BY <1>0, <2>1, <2>2 DEF CarrierInv
  <2> QED BY <2>1, <2>2, <2>3, <2>4, <2>5 DEF CarrierInv
<1> QED BY <1>1, <1>3, <1>4

LEMMA InvStep ==
    ASSUME ProbeInv, [Next]_vars
    PROVE  ProbeInv'
<1>1. CASE Loop
  BY <1>1, LoopStep
<1>2. ASSUME NEW p \in Probes, Probe(p) PROVE ProbeInv'
  BY <1>2, QuietStep, RecordStep, DecideFlipStep, DecideSameStep, CallbackStep
     DEF Probe
<1>3. CASE UNCHANGED vars
  <2>1. UNCHANGED <<loopVars, pc, answered, pingMu, pingVars, histVars>>
    BY <1>3 DEF vars
  <2>2. Counted' = Counted
    BY <2>1 DEF Counted, histVars
  <2> QED
    BY <2>1, <2>2
       DEF ProbeInv, TypeOK, NotSpawned, LockHeldBriefly, CounterInv, VerdictInv,
           CarrierInv, TrailingFailures, Abstract!Offline, loopVars, pingVars,
           histVars
<1> QED BY <1>1, <1>2, <1>3 DEF Next

LEMMA ProbeInvariant == Spec => []ProbeInv
<1> QED BY InitInv, InvStep, PTL DEF Spec

-----------------------------------------------------------------------------
(* The variables keep their types.                                         *)
THEOREM TypeCorrect == Spec => []TypeOK
<1>1. ProbeInv => TypeOK
  BY DEF ProbeInv
<1> QED BY <1>1, ProbeInvariant, PTL

(* pingMu is held only in doPing's two short critical sections, never      *)
(* across a dial or a callback, whatever the number of probes.             *)
THEOREM LockIsHeldBriefly == Spec => []LockHeldBriefly
<1>1. ProbeInv => LockHeldBriefly
  BY DEF ProbeInv
<1> QED BY <1>1, ProbeInvariant, PTL

(* Whatever the threshold and the overlap of probes, the worker reports    *)
(* offline exactly when its last PingThreshold results failed.             *)
THEOREM OfflineIsJustified == Spec => []OfflineMeansFailures
<1>1. ProbeInv => OfflineMeansFailures
  <2> SUFFICES ASSUME ProbeInv, pingMu = Free
               PROVE  PingIsDown <=> Abstract!Offline(results)
    BY DEF OfflineMeansFailures
  <2> USE DEF ProbeInv
  <2>1. Counted = results /\ results \in Seq(BOOLEAN)
    BY DEF Counted, TypeOK
  <2>2. pingDown <=> Abstract!Offline(results)
    BY <2>1, OfflineCount DEF CounterInv, TypeOK
  <2>3. Abstract!Offline(results) => pingReady
    BY <2>1, PingThresholdAssumption DEF CounterInv, Abstract!Offline
  <2> QED BY <2>2, <2>3 DEF PingIsDown
<1> QED BY <1>1, ProbeInvariant, PTL

(* Decided transitions alternate, starting with offline, and the last one  *)
(* agrees with the verdict.                                                *)
THEOREM TransitionsAlternate == Spec => []EventsAlternate
<1>1. ProbeInv => EventsAlternate
  <2> SUFFICES ASSUME ProbeInv PROVE EventsAlternate
    OBVIOUS
  <2> USE DEF ProbeInv
  <2>1. ASSUME pingMu = Free PROVE pingDown <=> Len(events) % 2 = 1
    <3>1. Counted = results /\ results \in Seq(BOOLEAN)
      BY <2>1 DEF Counted, TypeOK
    <3>2. pingDown <=> Abstract!Offline(results)
      BY <3>1, OfflineCount DEF CounterInv, TypeOK
    <3> QED BY <3>2 DEF VerdictInv
  <2> QED BY <2>1 DEF EventsAlternate, VerdictInv
<1> QED BY <1>1, ProbeInvariant, PTL

(* No decided transition is lost or notified twice.                        *)
THEOREM OneCarrierPerEvent == Spec => []EachEventHasOneCarrier
<1>1. ProbeInv => EachEventHasOneCarrier
  <2> SUFFICES ASSUME ProbeInv, NEW i \in 1 .. Len(events)
               PROVE  LET carriers == {p \in Probes : pc[p] = "callback" /\ evt[p] = i}
                      IN  IF i \in delivered THEN carriers = {}
                          ELSE Cardinality(carriers) = 1
    BY DEF EachEventHasOneCarrier
  <2> USE DEF ProbeInv
  <2> DEFINE carriers == {p \in Probes : pc[p] = "callback" /\ evt[p] = i}
  <2>1. CASE i \in delivered
    BY <2>1 DEF CarrierInv
  <2>2. CASE i \notin delivered
    <3>1. PICK p \in Probes : pc[p] = "callback" /\ evt[p] = i
      BY <2>2 DEF CarrierInv
    <3>2. carriers = {p}
      BY <3>1 DEF CarrierInv
    <3> QED BY <3>2, <2>2, FS_Singleton
  <2> QED BY <2>1, <2>2
<1> QED BY <1>1, ProbeInvariant, PTL

-----------------------------------------------------------------------------
(* Initial states map to initial states, and a step to Report or a stutter.*)
LEMMA StepRefines ==
    ASSUME ProbeInv, [Next]_vars
    PROVE  [Abstract!Next]_(Abstract!rvars)
<1>1. ASSUME UNCHANGED <<results, events>>
      PROVE  [Abstract!Next]_(Abstract!rvars)
  BY <1>1 DEF Abstract!rvars
<1>2. CASE Loop
  <2>1. UNCHANGED <<results, events>>
    BY <1>2 DEF Loop, Begin, Tick, TakeTick, StartCollect, EndCollect, CloseStop,
                Exit, histVars
  <2> QED BY <2>1, <1>1
<1>3. ASSUME NEW p \in Probes, Dial(p) \/ Lock(p) \/ Record(p) \/ Callback(p)
                                \/ Relock(p) \/ Unlock(p)
      PROVE  [Abstract!Next]_(Abstract!rvars)
  <2>1. UNCHANGED <<results, events>>
    BY <1>3 DEF Dial, Lock, Record, Callback, Relock, Unlock, histVars
  <2> QED BY <2>1, <1>1
<1>4. ASSUME NEW p \in Probes, DecideFlip(p) \/ DecideSame(p)
      PROVE  Abstract!Report(answered[p])
  <2>1. pc[p] = "decide" /\ results' = Append(results, answered[p])
    BY <1>4 DEF DecideFlip, DecideSame
  <2>2. /\ pingDown <=> Abstract!Offline(Append(results, answered[p]))
        /\ pingWasDown <=> Abstract!Offline(results)
    BY <2>1, AtDecide
  <2>3. CASE DecideFlip(p)
    <3>1. /\ ~(Abstract!Offline(Append(results, answered[p]))
                  <=> Abstract!Offline(results))
          /\ events' = Append(events, ~pingDown)
      BY <2>2, <2>3 DEF DecideFlip, ProbeInv, TypeOK
    <3>2. Abstract!Offline(Append(results, answered[p]))
              # Abstract!Offline(results)
      BY <3>1
    <3>3. CASE pingDown
      <4>1. (~pingDown) = FALSE
        BY <3>3
      <4>2. (~Abstract!Offline(Append(results, answered[p]))) = FALSE
        BY <3>3, <2>2
      <4> QED BY <2>1, <3>1, <3>2, <4>1, <4>2, Zenon DEF Abstract!Report
    <3>4. CASE ~pingDown
      <4>1. (~pingDown) = TRUE
        BY <3>4
      <4>2. (~Abstract!Offline(Append(results, answered[p]))) = TRUE
        BY <3>4, <2>2
      <4> QED BY <2>1, <3>1, <3>2, <4>1, <4>2, Zenon DEF Abstract!Report
    <3> QED BY <3>3, <3>4
  <2>4. CASE DecideSame(p)
    <3>1. /\ Abstract!Offline(Append(results, answered[p]))
                  <=> Abstract!Offline(results)
          /\ events' = events
      BY <2>2, <2>4 DEF DecideSame
    <3>2. Abstract!Offline(Append(results, answered[p]))
              = Abstract!Offline(results)
      BY <3>1 DEF Abstract!Offline
    <3> QED BY <2>1, <3>1, <3>2 DEF Abstract!Report
  <2> QED BY <1>4, <2>3, <2>4
<1>5. ASSUME NEW p \in Probes, Probe(p) PROVE [Abstract!Next]_(Abstract!rvars)
  <2>1. answered[p] \in BOOLEAN
    BY DEF ProbeInv, TypeOK
  <2> QED BY <1>5, <1>3, <1>4, <2>1 DEF Probe, Abstract!Next
<1>6. CASE UNCHANGED vars
  BY <1>6, <1>1 DEF vars, histVars
<1> QED BY <1>2, <1>5, <1>6 DEF Next

(* The goroutines, the lock and the counter implement the abstract probe.  *)
THEOREM ProbeImplementsReachability == Spec => ImplementsReachability
<1>1. Init => Abstract!Init
  BY DEF Init, Abstract!Init
<1> QED BY <1>1, StepRefines, ProbeInvariant, PTL
        DEF Spec, ImplementsReachability, Abstract!Spec

-----------------------------------------------------------------------------
(* When no probe is at work, every transition decided so far has been      *)
(* notified and nothing else has, and the worker reports offline exactly   *)
(* if the last one said so.                                                *)
AtRest == \A p \in Probes : pc[p] \in {"idle", "done"}
ToldAtRest ==
    AtRest => /\ delivered = 1 .. Len(events)
              /\ PingIsDown <=> (events # << >> /\ ~events[Len(events)])

(* The safety half of EventuallyDelivered (doPing): no probe ends with an  *)
(* alert undelivered, also when the loop is gone.                          *)
THEOREM NobodyIsLeftUntold == Spec => []ToldAtRest
<1>1. ProbeInv => ToldAtRest
  <2> SUFFICES ASSUME ProbeInv, AtRest
               PROVE  /\ delivered = 1 .. Len(events)
                      /\ PingIsDown <=> (events # << >> /\ ~events[Len(events)])
    BY DEF ToldAtRest
  <2> USE DEF ProbeInv
  <2>1. pingMu = Free
    <3>1. ASSUME NEW p \in Probes PROVE pingMu # p
      <4>1. pc[p] = "idle" \/ pc[p] = "done"
        BY DEF AtRest
      <4> QED BY <4>1 DEF LockHeldBriefly
    <3> QED BY <3>1 DEF TypeOK
  <2>2. delivered = 1 .. Len(events)
    BY DEF CarrierInv, AtRest
  <2>3. Counted = results /\ results \in Seq(BOOLEAN)
    BY <2>1 DEF Counted, TypeOK
  <2>4. pingDown <=> Abstract!Offline(results)
    BY <2>3, OfflineCount DEF CounterInv, TypeOK
  <2>5. PingIsDown <=> pingDown
    <3>1. Abstract!Offline(results) => pingReady
      BY <2>3, PingThresholdAssumption DEF CounterInv, Abstract!Offline
    <3> QED BY <2>4, <3>1 DEF PingIsDown
  <2>6. pingDown <=> Len(events) % 2 = 1
    BY <2>4 DEF VerdictInv
  <2>7. events \in Seq(BOOLEAN) /\ Len(events) \in Nat
    BY DEF TypeOK
  <2>8. CASE events = << >>
    <3>1. Len(events) = 0 /\ ~(0 % 2 = 1)
      BY <2>8
    <3>2. ~pingDown
      BY <2>6, <3>1
    <3> QED BY <2>2, <2>5, <2>8, <3>2
  <2>9. CASE events # << >>
    <3>1. Len(events) \in 1 .. Len(events)
      BY <2>7, <2>9
    <3>2. events[Len(events)] = (Len(events) % 2 = 0)
      BY <3>1 DEF VerdictInv
    <3>3. (Len(events) % 2 = 1) <=> ~(Len(events) % 2 = 0)
      BY <2>7
    <3>4. ASSUME Len(events) % 2 = 0 PROVE events[Len(events)] = TRUE /\ ~pingDown
      BY <2>6, <3>2, <3>3, <3>4, Zenon
    <3>5. ASSUME ~(Len(events) % 2 = 0) PROVE events[Len(events)] = FALSE /\ pingDown
      BY <2>6, <3>2, <3>3, <3>5, Zenon
    <3> QED BY <2>2, <2>5, <2>9, <3>4, <3>5, Zenon
  <2> QED BY <2>8, <2>9
<1> QED BY <1>1, ProbeInvariant, PTL
=============================================================================
