--------------------------- MODULE AlertDelivery ---------------------------
(***************************************************************************)
(* What NotifyPingChange promises of an alert, without queues, clocks,     *)
(* edits or senders: its recipients are fixed once, when it lists the      *)
(* channels; nobody else hears of it, nobody is tried twice, and it does   *)
(* not end before every recipient has been tried - unless it could not     *)
(* list the channels, and then nobody is.  Notifications is shown to       *)
(* implement this specification.                                           *)
(***************************************************************************)
CONSTANTS Alerts, Channels

VARIABLES stage,       \* [Alerts -> "waiting", "open" or "ended"]
          recipients,  \* [Alerts -> the channels it is for]
          tried,       \* [Alerts -> the channels it has sent to, well or not]
          told,        \* [Channels -> the last alert that has reached it]
          wire         \* [Alerts -> channels whose message may yet arrive]

dvars == <<stage, recipients, tried, told, wire>>

Init == /\ stage = [a \in Alerts |-> "waiting"]
        /\ recipients = [a \in Alerts |-> {}]
        /\ tried = [a \in Alerts |-> {}]
        /\ told \in [Channels -> {0}]
        /\ wire = [a \in Alerts |-> {}]

Open(a) ==
    /\ stage[a] = "waiting"
    /\ stage' = [stage EXCEPT ![a] = "open"]
    /\ \E cs \in SUBSET Channels : recipients' = [recipients EXCEPT ![a] = cs]
    /\ UNCHANGED <<tried, told, wire>>

(* A send arrives; or it fails, and then it may still be under way.        *)
Try(a, c) ==
    /\ stage[a] = "open"
    /\ c \in recipients[a] \ tried[a]
    /\ tried' = [tried EXCEPT ![a] = @ \union {c}]
    /\ \/ told' = [told EXCEPT ![c] = a] /\ UNCHANGED wire
       \/ wire' = [wire EXCEPT ![a] = @ \union {c}] /\ UNCHANGED told
       \/ UNCHANGED <<told, wire>>
    /\ UNCHANGED <<stage, recipients>>

Arrive(a, c) ==
    /\ c \in wire[a]
    /\ told' = [told EXCEPT ![c] = a]
    /\ wire' = [wire EXCEPT ![a] = @ \ {c}]
    /\ UNCHANGED <<stage, recipients, tried>>

End(a) ==
    /\ \/ stage[a] = "waiting"
       \/ stage[a] = "open" /\ recipients[a] \subseteq tried[a]
    /\ stage' = [stage EXCEPT ![a] = "ended"]
    /\ UNCHANGED <<recipients, tried, told, wire>>

Next == \E a \in Alerts : \/ Open(a) \/ End(a)
                          \/ \E c \in Channels : Try(a, c) \/ Arrive(a, c)

Spec == Init /\ [][Next]_dvars
=============================================================================
