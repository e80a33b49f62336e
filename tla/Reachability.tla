---------------------------- MODULE Reachability ----------------------------
(***************************************************************************)
(* What the reachability probe of one switch promises, without goroutines, *)
(* locks or counters: probe results are taken one at a time, the switch is *)
(* offline exactly while its last PingThreshold results are failures, and  *)
(* one alert goes out for every change of that verdict (README, "How it    *)
(* works").  PingProbe is shown to implement this specification.           *)
(***************************************************************************)
EXTENDS Naturals, Sequences

CONSTANT PingThreshold      \* failures in a row that make a switch offline

VARIABLES history,          \* the results so far, TRUE for an answer
          alerts            \* the alerts decided so far, TRUE for "online"

rvars == <<history, alerts>>

(* The verdict on a sequence of results.                                   *)
Offline(h) == /\ Len(h) >= PingThreshold
              /\ \A i \in (Len(h) - PingThreshold + 1) .. Len(h) : h[i] = FALSE

Init == /\ history = << >>
        /\ alerts = << >>

(* One result arrives; an alert is decided when the verdict changes.       *)
Report(ok) ==
    LET h == Append(history, ok) IN
    /\ history' = h
    /\ alerts' = IF Offline(h) # Offline(history)
                 THEN Append(alerts, ~Offline(h)) ELSE alerts

Next == \E ok \in BOOLEAN : Report(ok)

Spec == Init /\ [][Next]_rvars
=============================================================================
