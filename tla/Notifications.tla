--------------------------- MODULE Notifications ---------------------------
(***************************************************************************)
(* What NotifyPingChange does with the alerts of one switch: each runs in  *)
(* the probe that decided it, reads the channels that are enabled for its  *)
(* kind and tells them one after the other, all under one deadline.        *)
(* Alerts may overlap - pingMu is not held meanwhile - and the channels    *)
(* are edited by the API in between.  PingProbe says how alerts come       *)
(* about; its Callback is one of them here.                                *)
(*                                                                         *)
(* A test message (POST .../test) touches nothing of this.                 *)
(***************************************************************************)
EXTENDS Naturals

CONSTANTS Channels,      \* channel ids, in the order of their creation
          FirstChannels, \* what is configured when the history begins
          Edited,        \* bound: rows that edits ask for
          MaxAlerts,     \* bound: alerts; the odd ones say "offline"
          Deadline,      \* the context's ten seconds
          MaxEdits,      \* bound: edits of channels
          None           \* no such channel

Providers == {"shoutrrr", "greenapi", "whatsapp_web"}
(* parses: NewSender accepts the config; readable: it can be decrypted.    *)
Rows == [provider : Providers, enabled : BOOLEAN, notify_offline : BOOLEAN,
         notify_online : BOOLEAN, parses : BOOLEAN, readable : BOOLEAN]
Alerts == 1 .. MaxAlerts
Offline(a) == a % 2 = 1

ASSUME ChannelsAssumption == Channels \subseteq Nat
ASSUME FirstAssumption == FirstChannels \subseteq [Channels -> Rows \union {None}]
ASSUME EditedAssumption == Edited \subseteq Rows
ASSUME BoundsAssumption == MaxAlerts \in Nat /\ Deadline \in Nat /\ MaxEdits \in Nat
ASSUME NoneAssumption == None \notin Rows

VARIABLES
    channels, \* durable: [Channels -> row or None]
    edits,    \* edits so far (bound)
    alerts,   \* alerts decided so far
    at,       \* [Alerts -> "none", "list", "send", "done"]
    clock,    \* [Alerts -> time since it began, up to Deadline]
    queue,    \* [Alerts -> channels it has listed and not tried yet]
    copy,     \* [Alerts -> the channels as it has listed them]
    told,     \* [Channels -> the last alert that has reached it, 0 for none]
    wire,     \* [Alerts -> channels whose message, given up, may yet arrive]
    due,      \* history: [Alerts -> channels enabled for it when it listed]
    tried,    \* history: [Alerts -> channels it has sent to, well or not]
    blind,    \* history: alerts whose list failed
    over      \* history: alerts that ran next to another one

editVars == <<channels, edits>>
sentVars == <<told, wire>>
vars == <<editVars, alerts, at, clock, queue, copy, sentVars, due, tried, blind, over>>

NoChannels == [c \in Channels |-> None]

TypeOK ==
    /\ channels \in [Channels -> Rows \union {None}]
    /\ edits \in 0 .. MaxEdits
    /\ alerts \in 0 .. MaxAlerts
    /\ at \in [Alerts -> {"none", "list", "send", "done"}]
    /\ clock \in [Alerts -> 0 .. Deadline]
    /\ queue \in [Alerts -> SUBSET Channels]
    /\ copy \in [Alerts -> [Channels -> Rows \union {None}]]
    /\ told \in [Channels -> 0 .. MaxAlerts]
    /\ wire \in [Alerts -> SUBSET Channels]
    /\ due \in [Alerts -> SUBSET Channels]
    /\ tried \in [Alerts -> SUBSET Channels]
    /\ blind \subseteq Alerts
    /\ over \subseteq Alerts

Init ==
    /\ channels \in FirstChannels
    /\ edits = 0 /\ alerts = 0
    /\ at = [a \in Alerts |-> "none"]
    /\ clock = [a \in Alerts |-> 0]
    /\ queue = [a \in Alerts |-> {}]
    /\ copy = [a \in Alerts |-> NoChannels]
    /\ told = [c \in Channels |-> 0]
    /\ wire = [a \in Alerts |-> {}]
    /\ due = [a \in Alerts |-> {}]
    /\ tried = [a \in Alerts |-> {}]
    /\ blind = {} /\ over = {}

-----------------------------------------------------------------------------
(* The API's edits, each one statement.                                    *)

Edit(c, row) == /\ edits < MaxEdits
                /\ edits' = edits + 1
                /\ channels' = [channels EXCEPT ![c] = row]
                /\ UNCHANGED <<alerts, at, clock, queue, copy, sentVars, due, tried, blind, over>>

(* A new id (a UUID in the code): no alert has listed it before.           *)
CreateNotification ==
    \E c \in Channels, row \in Edited :
        /\ \A d \in Channels : d >= c => /\ channels[d] = None
                                        /\ \A a \in Alerts : d \notin due[a]
        /\ row.readable
        /\ Edit(c, row)

(* An empty config keeps the stored one; a new one is stored under this    *)
(* server's key.                                                           *)
UpdateNotification ==
    \E c \in Channels, row \in Edited :
        /\ channels[c] # None
        /\ \/ row.readable
           \/ row.readable = channels[c].readable /\ row.parses = channels[c].parses
        /\ Edit(c, row)

DeleteNotification == \E c \in Channels : channels[c] # None /\ Edit(c, None)

-----------------------------------------------------------------------------
(* NotifyPingChange.                                                       *)

Running == {a \in Alerts : at[a] \in {"list", "send"}}

Begin(a) ==
    /\ a = alerts + 1
    /\ alerts' = a
    /\ at' = [at EXCEPT ![a] = "list"]
    /\ over' = over \union (IF Running = {} THEN {} ELSE Running \union {a})
    /\ UNCHANGED <<editVars, clock, queue, copy, sentVars, due, tried, blind>>

Tick == /\ \E a \in Running : clock[a] < Deadline
        /\ clock' = [a \in Alerts |-> IF a \in Running /\ clock[a] < Deadline
                                      THEN clock[a] + 1 ELSE clock[a]]
        /\ UNCHANGED <<editVars, alerts, at, queue, copy, sentVars, due, tried, blind, over>>

(* ListEnabled's WHERE clause.                                             *)
EnabledFor(a) ==
    {c \in Channels : /\ channels[c] # None
                      /\ channels[c].enabled
                      /\ IF Offline(a) THEN channels[c].notify_offline
                         ELSE channels[c].notify_online}

ListEnabled(a) ==
    /\ at[a] = "list"
    /\ \A c \in EnabledFor(a) : channels[c].readable
    /\ at' = [at EXCEPT ![a] = "send"]
    /\ queue' = [queue EXCEPT ![a] = EnabledFor(a)]
    /\ due' = [due EXCEPT ![a] = EnabledFor(a)]
    /\ copy' = [copy EXCEPT ![a] = [c \in Channels |-> IF c \in EnabledFor(a)
                                                     THEN channels[c] ELSE None]]
    /\ UNCHANGED <<editVars, alerts, clock, sentVars, tried, blind, over>>

(* One config that cannot be decrypted fails the list.                     *)
ListFails(a) ==
    /\ at[a] = "list"
    /\ at' = [at EXCEPT ![a] = "done"]
    /\ blind' = blind \union {a}
    /\ UNCHANGED <<editVars, alerts, clock, queue, copy, sentVars, due, tried, over>>

(* Whose turn it is, as it was listed.                                     *)
Turn(a, c) == c \in queue[a] /\ \A d \in queue[a] : c <= d
Obeys(a, c) == copy[a][c].provider # "shoutrrr"    \* the sender uses the context

SkipChannelSlip(a, c) ==
    /\ Turn(a, c)
    /\ ~copy[a][c].parses
    /\ queue' = [queue EXCEPT ![a] = {}]
    /\ UNCHANGED <<editVars, alerts, at, clock, copy, sentVars, due, tried, blind, over>>
(* NewSender fails: logged, and on to the next.                            *)
SkipChannel(a, c) ==
    /\ Turn(a, c)
    /\ ~copy[a][c].parses
    /\ queue' = [queue EXCEPT ![a] = @ \ {c}]
    /\ UNCHANGED <<editVars, alerts, at, clock, copy, sentVars, due, tried, blind, over>>

Sent(a, c) == /\ queue' = [queue EXCEPT ![a] = @ \ {c}]
              /\ tried' = [tried EXCEPT ![a] = @ \union {c}]
              /\ UNCHANGED <<editVars, alerts, at, clock, copy, due, blind, over>>

(* A send may take any time, up to the deadline if it obeys it.            *)
SendOk(a, c) ==
    /\ Turn(a, c)
    /\ copy[a][c].parses
    /\ Obeys(a, c) => clock[a] < Deadline
    /\ told' = [told EXCEPT ![c] = a]
    /\ UNCHANGED wire
    /\ Sent(a, c)

(* The sender has an error in its hands; whether the message had left, and *)
(* will arrive all the same, nobody knows.                                 *)
NoAnswer(a, c) ==
    /\ wire' = wire \/ wire' = [wire EXCEPT ![a] = @ \union {c}]
    /\ UNCHANGED told

(* Logged, and on to the next.                                             *)
SendFails(a, c) ==
    /\ Turn(a, c)
    /\ copy[a][c].parses
    /\ NoAnswer(a, c)
    /\ Sent(a, c)

CutOffSlip(a, c) ==
    /\ Turn(a, c)
    /\ copy[a][c].parses
    /\ clock[a] > Deadline
    /\ NoAnswer(a, c)
    /\ Sent(a, c)
(* The context has ended: the request is given up, or not even begun.      *)
CutOff(a, c) ==
    /\ Turn(a, c)
    /\ copy[a][c].parses
    /\ Obeys(a, c)
    /\ clock[a] = Deadline
    /\ NoAnswer(a, c)
    /\ Sent(a, c)

(* A message that was given up arrives after all, at any later time.       *)
Arrives(a, c) ==
    /\ c \in wire[a]
    /\ told' = [told EXCEPT ![c] = a]
    /\ wire' = [wire EXCEPT ![a] = @ \ {c}]
    /\ UNCHANGED <<editVars, alerts, at, clock, queue, copy, due, tried, blind, over>>

ReturnSlip(a) ==
    /\ at[a] = "send"
    /\ queue[a] = {} \/ clock[a] = Deadline
    /\ at' = [at EXCEPT ![a] = "done"]
    /\ UNCHANGED <<editVars, alerts, clock, queue, copy, sentVars, due, tried, blind, over>>
Return(a) ==
    /\ at[a] = "send"
    /\ queue[a] = {}
    /\ at' = [at EXCEPT ![a] = "done"]
    /\ UNCHANGED <<editVars, alerts, clock, queue, copy, sentVars, due, tried, blind, over>>

Next ==
    \/ CreateNotification \/ UpdateNotification \/ DeleteNotification
    \/ Tick
    \/ \E a \in Alerts :
           \/ Begin(a) \/ ListEnabled(a) \/ ListFails(a) \/ Return(a)
           \/ \E c \in Channels :
                  \/ SkipChannel(a, c) \/ SendOk(a, c) \/ SendFails(a, c)
                  \/ CutOff(a, c) \/ Arrives(a, c)

Spec == Init /\ [][Next]_vars

(* Time passes and the goroutine runs.  A request that obeys the context   *)
(* ends with it.  Nothing is assumed of the answer of any channel; the     *)
(* call into shoutrrr, which is handed no context, may not return at all.  *)
Fairness ==
    /\ WF_vars(Tick)
    /\ \A a \in Alerts :
           /\ WF_vars(ListEnabled(a) \/ ListFails(a))
           /\ WF_vars(Return(a))
           /\ \A c \in Channels : WF_vars(SkipChannel(a, c) \/ CutOff(a, c))
FairSpec == Spec /\ Fairness

-----------------------------------------------------------------------------
(* Properties.                                                             *)

(* The recipients are those of the channels listed whose config parses.    *)
Delivery == INSTANCE AlertDelivery WITH
    stage <- [a \in Alerts |-> CASE at[a] \in {"none", "list"} -> "waiting"
                                 [] at[a] = "send" -> "open"
                                 [] at[a] = "done" -> "ended"],
    recipients <- [a \in Alerts |-> {c \in due[a] : copy[a][c].parses}]

(* However channels are edited meanwhile, sends fail or time runs out: an  *)
(* alert reaches only channels that asked for its kind when it listed      *)
(* them, tries none of them twice, and before it ends all of them whose    *)
(* config parses, whatever became of the others (NotifyPingChange).  It    *)
(* tries nobody if it cannot list them: SQLite fails, or one of them       *)
(* cannot be decrypted.                                                    *)
ImplementsDelivery == Delivery!Spec

(* A channel is not told of an older verdict after a newer one, unless the *)
(* two alerts ran at the same time, or the send of the older one had been  *)
(* given up and its message arrived late (doPing, NotifyPingChange).       *)
LatestVerdictLast ==
    [][\A c \in Channels :
          told'[c] # told[c] => \/ told'[c] > told[c]
                               \/ told'[c] \in over
                               \/ c \in wire[told'[c]]]_told

(* The send to a shoutrrr channel, which no context ends (sender.go:61).   *)
Hangs(a, c) == Turn(a, c) /\ copy[a][c].parses /\ ~Obeys(a, c)

(* Every alert ends, also if channels do not answer, unless it hangs at a  *)
(* shoutrrr channel for good: whatever the other providers do or leave, no *)
(* alert waits for them beyond the deadline (NotifyPingChange).            *)
AlertsEnd ==
    \A a \in Alerts :
        at[a] = "list" ~> (at[a] = "done" \/ [](\E c \in Channels : Hangs(a, c)))
=============================================================================
