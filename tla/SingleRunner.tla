---------------------------- MODULE SingleRunner ----------------------------
(***************************************************************************)
(* What the pool of workers promises, without locks, channels or requests: *)
(* a switch has at most one collection loop; another one starts only after *)
(* the first has ended; a crash ends them all.  WorkerPool implements it.  *)
(***************************************************************************)
EXTENDS FiniteSets

CONSTANTS Switches, Workers

VARIABLE runners        \* [Switches -> the loops that run for the switch]

Init == runners = [s \in Switches |-> {}]

Start(s, w) == /\ runners[s] = {}
               /\ \A t \in Switches : w \notin runners[t]
               /\ runners' = [runners EXCEPT ![s] = {w}]

End(s) == /\ runners[s] # {}
          /\ runners' = [runners EXCEPT ![s] = {}]

Crash == runners' = [s \in Switches |-> {}]

Next == \/ \E s \in Switches : End(s) \/ \E w \in Workers : Start(s, w)
        \/ Crash

Spec == Init /\ [][Next]_runners
=============================================================================
