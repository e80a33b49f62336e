------------------------ MODULE NotificationsProofs ------------------------
(***************************************************************************)
(* Proofs about Notifications, for any number of channels, alerts, edits   *)
(* and any deadline: an alert that could list its channels tries them all; *)
(* alerts arrive in order, up to overlaps and to messages given up on the  *)
(* way; Notifications implements AlertDelivery.                            *)
(***************************************************************************)
EXTENDS Notifications, TLAPS

-----------------------------------------------------------------------------
(* Types.                                                                  *)

LEMMA TypeInit == Init => TypeOK
BY FirstAssumption, BoundsAssumption DEF Init, TypeOK, NoChannels

Edits == CreateNotification \/ UpdateNotification \/ DeleteNotification
Step(a) == \/ Begin(a) \/ ListEnabled(a) \/ ListFails(a) \/ Return(a)
           \/ \E c \in Channels :
                  \/ SkipChannel(a, c) \/ SendOk(a, c) \/ SendFails(a, c)
                  \/ CutOff(a, c) \/ Arrives(a, c)

(* What an edit leaves alone.                                              *)
notEdited == <<alerts, at, clock, queue, copy, told, wire, due, tried, blind, over>>

LEMMA EditType ==
    ASSUME TypeOK, Edits PROVE TypeOK' /\ UNCHANGED notEdited
<1>1. PICK c \in Channels, row \in Rows \union {None} : Edit(c, row)
  BY EditedAssumption DEF Edits, CreateNotification, UpdateNotification, DeleteNotification
<1>2. edits' \in 0 .. MaxEdits
  BY <1>1, BoundsAssumption DEF Edit, TypeOK
<1>3. channels' \in [Channels -> Rows \union {None}]
  BY <1>1 DEF Edit, TypeOK
<1> QED BY <1>1, <1>2, <1>3 DEF Edit, TypeOK, notEdited, sentVars

LEMMA TickType ==
    ASSUME TypeOK, Tick PROVE TypeOK'
<1>1. clock' \in [Alerts -> 0 .. Deadline]
  BY BoundsAssumption DEF Tick, TypeOK
<1> QED BY <1>1 DEF Tick, TypeOK, editVars, sentVars

LEMMA StepType ==
    ASSUME TypeOK, NEW a \in Alerts, Step(a) PROVE TypeOK'
<1> USE DEF editVars, sentVars
<1>1. CASE Begin(a)
  <2>1. alerts' \in 0 .. MaxAlerts
    BY <1>1, BoundsAssumption DEF Begin, Alerts
  <2>2. over' \subseteq Alerts
    BY <1>1 DEF Begin, TypeOK, Running
  <2> QED BY <1>1, <2>1, <2>2 DEF Begin, TypeOK
<1>2. CASE ListEnabled(a)
  <2>1. EnabledFor(a) \subseteq Channels
    BY DEF EnabledFor
  <2>2. [c \in Channels |-> IF c \in EnabledFor(a) THEN channels[c] ELSE None]
            \in [Channels -> Rows \union {None}]
    BY DEF TypeOK
  <2> QED BY <1>2, <2>1, <2>2 DEF ListEnabled, TypeOK
<1>3. CASE ListFails(a) \/ Return(a)
  BY <1>3 DEF ListFails, Return, TypeOK
<1>4. ASSUME NEW c \in Channels, SkipChannel(a, c) PROVE TypeOK'
  BY <1>4 DEF SkipChannel, TypeOK
<1>5. ASSUME NEW c \in Channels,
             SendOk(a, c) \/ SendFails(a, c) \/ CutOff(a, c) \/ Arrives(a, c)
      PROVE  TypeOK'
  <2>1. a \in 0 .. MaxAlerts
    BY BoundsAssumption DEF Alerts
  <2>2. /\ told' \in [Channels -> 0 .. MaxAlerts]
        /\ wire' \in [Alerts -> SUBSET Channels]
    BY <1>5, <2>1 DEF SendOk, SendFails, CutOff, NoAnswer, Arrives, TypeOK
  <2>3. Sent(a, c) \/ Arrives(a, c)
    BY <1>5 DEF SendOk, SendFails, CutOff
  <2>4. CASE Sent(a, c)
    BY <2>2, <2>4 DEF Sent, TypeOK
  <2>5. CASE Arrives(a, c)
    BY <2>2, <2>5 DEF Arrives, TypeOK
  <2> QED BY <2>3, <2>4, <2>5
<1> QED BY <1>1, <1>2, <1>3, <1>4, <1>5 DEF Step

LEMMA TypeNext == ASSUME TypeOK, [Next]_vars PROVE TypeOK'
<1>1. CASE UNCHANGED vars
  BY <1>1 DEF vars, editVars, sentVars, TypeOK
<1> QED BY <1>1, EditType, TickType, StepType DEF Next, Edits, Step

(* Every variable keeps its type.                                          *)
LEMMA TypeCorrect == Spec => []TypeOK
BY TypeInit, TypeNext, PTL DEF Spec

-----------------------------------------------------------------------------
(* Who is told, and when.                                                  *)

(* Only an alert that is sending has channels left; the alerts to come     *)
(* have not begun, and nothing of them is under way.                       *)
QueueInv == /\ \A a \in Alerts : queue[a] # {} => at[a] = "send"
            /\ \A a \in Alerts : a > alerts => at[a] = "none" /\ wire[a] = {}

(* A channel that is due is still to come, was tried, or cannot be.        *)
DueInv == \A a \in Alerts : at[a] \in {"send", "done"} /\ a \notin blind =>
              \A c \in due[a] : c \in queue[a] \/ ~copy[a][c].parses \/ c \in tried[a]

(* An alert that runs alone is the last one, and nobody has been told of   *)
(* an alert that has not begun.                                            *)
OrderInv == /\ \A a \in Running : a = alerts \/ a \in over
            /\ \A c \in Channels : told[c] <= alerts

AlertInv == QueueInv /\ DueInv /\ OrderInv

LEMMA InvInit == Init => AlertInv
BY DEF Init, AlertInv, QueueInv, DueInv, OrderInv, Running, Alerts

LEMMA InvBegin ==
    ASSUME TypeOK, AlertInv, NEW a \in Alerts, Begin(a) PROVE AlertInv'
<1> USE DEF AlertInv
<1>1. alerts' = alerts + 1 /\ a = alerts + 1 /\ alerts \in Nat /\ Alerts \subseteq Nat
  BY BoundsAssumption DEF Begin, TypeOK, Alerts
<1>2. at[a] = "none" /\ queue[a] = {}
  BY <1>1 DEF QueueInv
<1>3. /\ at' = [at EXCEPT ![a] = "list"]
      /\ UNCHANGED <<queue, copy, told, wire, due, tried, blind>>
      /\ over' = over \union (IF Running = {} THEN {} ELSE Running \union {a})
  BY DEF Begin, sentVars
<1>4. QueueInv'
  BY <1>1, <1>2, <1>3 DEF QueueInv, TypeOK
<1>5. DueInv'
  BY <1>3 DEF DueInv, TypeOK
<1>6. Running' = Running \union {a}
  BY <1>3 DEF Running, TypeOK
<1>7. \A b \in Running' : b = alerts' \/ b \in over'
  BY <1>1, <1>3, <1>6
<1>8. \A c \in Channels : told'[c] <= alerts'
  BY <1>1, <1>3, BoundsAssumption DEF OrderInv, TypeOK
<1> QED BY <1>4, <1>5, <1>7, <1>8 DEF OrderInv

LEMMA InvList ==
    ASSUME TypeOK, AlertInv, NEW a \in Alerts, ListEnabled(a) \/ ListFails(a)
    PROVE  AlertInv'
<1> USE DEF AlertInv
<1>1. a \in Running /\ queue[a] = {} /\ ~(a > alerts)
  BY DEF ListEnabled, ListFails, Running, QueueInv
<1>2. UNCHANGED <<alerts, told, wire, over>> /\ Running' \subseteq Running
  BY DEF ListEnabled, ListFails, Running, TypeOK, sentVars
<1>3. OrderInv'
  BY <1>2 DEF OrderInv
<1>4. QueueInv'
  BY <1>1, <1>2 DEF ListEnabled, ListFails, QueueInv, TypeOK
<1>5. CASE ListEnabled(a)
  BY <1>3, <1>4, <1>5 DEF ListEnabled, DueInv, TypeOK
<1>6. CASE ListFails(a)
  BY <1>3, <1>4, <1>6 DEF ListFails, DueInv, TypeOK
<1> QED BY <1>5, <1>6

LEMMA InvReturn ==
    ASSUME TypeOK, AlertInv, NEW a \in Alerts, Return(a) PROVE AlertInv'
<1> USE DEF AlertInv, sentVars
<1>1. QueueInv'
  BY DEF Return, QueueInv, TypeOK
<1>2. DueInv'
  BY DEF Return, DueInv, TypeOK
<1>3. OrderInv'
  BY DEF Return, OrderInv, Running, TypeOK
<1> QED BY <1>1, <1>2, <1>3

LEMMA InvSend ==
    ASSUME TypeOK, AlertInv, NEW a \in Alerts, NEW c \in Channels,
           SkipChannel(a, c) \/ SendOk(a, c) \/ SendFails(a, c) \/ CutOff(a, c)
    PROVE  AlertInv'
<1> USE DEF AlertInv
<1>0. /\ told' = told \/ told' = [told EXCEPT ![c] = a]
      /\ wire' = wire \/ wire' = [wire EXCEPT ![a] = @ \union {c}]
  BY DEF SkipChannel, SendOk, SendFails, CutOff, NoAnswer, sentVars
<1>1. /\ queue' = [queue EXCEPT ![a] = @ \ {c}]
      /\ UNCHANGED <<alerts, at, copy, due, blind, over>>
      /\ tried' = tried \/ tried' = [tried EXCEPT ![a] = @ \union {c}]
      /\ ~copy[a][c].parses \/ tried' = [tried EXCEPT ![a] = @ \union {c}]
      /\ c \in queue[a]
  BY DEF SkipChannel, SendOk, SendFails, CutOff, Sent, Turn
<1>2. QueueInv'
  <2>1. at[a] = "send" /\ ~(a > alerts)
    BY <1>1 DEF QueueInv
  <2> QED BY <1>0, <1>1, <2>1 DEF QueueInv, TypeOK
<1>3. DueInv'
  <2>1. SUFFICES ASSUME NEW b \in Alerts, at[b] \in {"send", "done"}, b \notin blind,
                        NEW d \in due[b]
                 PROVE  d \in queue'[b] \/ ~copy[b][d].parses \/ d \in tried'[b]
    BY <1>1 DEF DueInv
  <2>2. d \in queue[b] \/ ~copy[b][d].parses \/ d \in tried[b]
    BY <2>1 DEF DueInv
  <2>3. tried[b] \subseteq tried'[b] /\ queue[b] \ {c} \subseteq queue'[b]
    BY <1>1 DEF TypeOK
  <2>4. b # a => queue'[b] = queue[b]
    BY <1>1 DEF TypeOK
  <2>5. b = a /\ d = c => ~copy[b][d].parses \/ d \in tried'[b]
    BY <1>1 DEF TypeOK
  <2> QED BY <2>2, <2>3, <2>4, <2>5
<1>4. a <= alerts
  <2>1. at[a] = "send"
    BY <1>1 DEF QueueInv
  <2>2. a \in Nat /\ alerts \in Nat
    BY BoundsAssumption DEF TypeOK, Alerts
  <2> QED BY <2>1, <2>2 DEF QueueInv
<1>5. OrderInv'
  BY <1>0, <1>1, <1>4 DEF OrderInv, Running, TypeOK
<1> QED BY <1>2, <1>3, <1>5

LEMMA InvArrives ==
    ASSUME TypeOK, AlertInv, NEW a \in Alerts, NEW c \in Channels, Arrives(a, c)
    PROVE  AlertInv'
<1> USE DEF AlertInv
<1>1. /\ UNCHANGED <<alerts, at, queue, copy, due, tried, blind, over>>
      /\ told' = [told EXCEPT ![c] = a]
      /\ wire' = [wire EXCEPT ![a] = @ \ {c}]
  BY DEF Arrives
<1>2. a <= alerts
  <2>1. a \in Nat /\ alerts \in Nat
    BY BoundsAssumption DEF TypeOK, Alerts
  <2> QED BY <2>1 DEF Arrives, QueueInv
<1>3. QueueInv'
  BY <1>1 DEF QueueInv, TypeOK
<1>4. DueInv' /\ OrderInv'
  BY <1>1, <1>2 DEF DueInv, OrderInv, Running, TypeOK
<1> QED BY <1>3, <1>4

LEMMA InvNext == ASSUME TypeOK, AlertInv, [Next]_vars PROVE AlertInv'
<1>1. CASE UNCHANGED notEdited
  BY <1>1 DEF notEdited, AlertInv, QueueInv, DueInv, OrderInv, Running
<1>2. CASE Tick
  BY <1>2 DEF Tick, sentVars, AlertInv, QueueInv, DueInv, OrderInv, Running
<1>3. UNCHANGED vars => UNCHANGED notEdited
  BY DEF vars, sentVars, notEdited
<1> QED
  BY <1>1, <1>2, <1>3, EditType, InvBegin, InvList, InvReturn, InvSend,
     InvArrives DEF Next, Edits

LEMMA Invariant == Spec => [](TypeOK /\ AlertInv)
<1>1. Init => TypeOK /\ AlertInv
  BY TypeInit, InvInit
<1>2. TypeOK /\ AlertInv /\ [Next]_vars => (TypeOK /\ AlertInv)'
  BY TypeNext, InvNext
<1> QED BY <1>1, <1>2, PTL DEF Spec

(* An alert that could list its channels has sent to every one of them     *)
(* when it ends, those whose config does not parse apart.                  *)
EveryoneTried ==
    \A a \in Alerts :
        at[a] = "done" /\ a \notin blind =>
            \A c \in due[a] : copy[a][c].parses => c \in tried[a]

(* No channel is left out because of another (NotifyPingChange goes on     *)
(* after an error), for any number of channels, edits and alerts.          *)
THEOREM EveryChannelIsTried == Spec => []EveryoneTried
<1>1. AlertInv => EveryoneTried
  BY DEF AlertInv, QueueInv, DueInv, EveryoneTried
<1> QED BY <1>1, Invariant, PTL

(* A channel hears of an older verdict after a newer one only if the two   *)
(* alerts ran at the same time, or the send of the older one was given up  *)
(* while its message was under way.                                        *)
THEOREM VerdictsArriveInOrder == Spec => LatestVerdictLast
<1>1. ASSUME TypeOK, AlertInv, [Next]_vars, told' # told,
             NEW c \in Channels, told'[c] # told[c]
      PROVE  told'[c] > told[c] \/ told'[c] \in over \/ c \in wire[told'[c]]
  <2>1. PICK a \in Alerts, d \in Channels :
            /\ SendOk(a, d) \/ Arrives(a, d)
            /\ told' = [told EXCEPT ![d] = a]
    <3>1. ~UNCHANGED notEdited /\ ~Tick
      BY <1>1 DEF notEdited, Tick, sentVars
    <3>2. ~UNCHANGED vars
      BY <1>1 DEF vars, sentVars
    <3>3. PICK a \in Alerts : Step(a)
      BY <1>1, <3>1, <3>2, EditType DEF Next, Edits, Step
    <3>4. ~Begin(a) /\ ~ListEnabled(a) /\ ~ListFails(a) /\ ~Return(a)
      BY <1>1 DEF Begin, ListEnabled, ListFails, Return, sentVars
    <3>5. PICK d \in Channels :
              \/ SkipChannel(a, d) \/ SendOk(a, d) \/ SendFails(a, d)
              \/ CutOff(a, d) \/ Arrives(a, d)
      BY <3>3, <3>4 DEF Step
    <3>6. SendOk(a, d) \/ Arrives(a, d)
      BY <1>1, <3>5 DEF SkipChannel, SendFails, CutOff, NoAnswer, sentVars
    <3>7. told' = [told EXCEPT ![d] = a]
      BY <3>6 DEF SendOk, Arrives
    <3> QED BY <3>6, <3>7
  <2>2. told'[c] = a /\ d = c
    BY <1>1, <2>1 DEF TypeOK
  <2>3. CASE SendOk(a, d)
    <3>1. a \in Running
      BY <1>1, <2>3 DEF SendOk, Turn, AlertInv, QueueInv, Running
    <3>2. a = alerts \/ a \in over
      BY <1>1, <3>1 DEF AlertInv, OrderInv
    <3>3. told[c] <= alerts /\ told[c] \in Nat /\ alerts \in Nat
      BY <1>1, BoundsAssumption DEF AlertInv, OrderInv, TypeOK
    <3> QED BY <1>1, <2>2, <3>2, <3>3
  <2>4. CASE Arrives(a, d)
    BY <2>2, <2>4 DEF Arrives
  <2> QED BY <2>1, <2>3, <2>4
<1>2. TypeOK /\ AlertInv /\ [Next]_vars
      => [\A c \in Channels :
             told'[c] # told[c] => \/ told'[c] > told[c]
                                  \/ told'[c] \in over
                                  \/ c \in wire[told'[c]]]_told
  BY <1>1
<1> QED BY <1>2, Invariant, PTL DEF Spec, LatestVerdictLast

-----------------------------------------------------------------------------
(* The abstract specification of a delivery.                               *)

(* An alert is heard of by the channels it has listed only, by each of     *)
(* them once, and by nobody before its list; it is not blind before it     *)
(* ends.                                                                   *)
FanOutInv == \A a \in Alerts :
    /\ queue[a] \subseteq due[a]
    /\ tried[a] \subseteq due[a]
    /\ queue[a] \cap tried[a] = {}
    /\ at[a] \in {"none", "list"} => due[a] = {}
    /\ at[a] # "done" => a \notin blind

LEMMA FanOutNext ==
    ASSUME TypeOK, AlertInv, FanOutInv, [Next]_vars PROVE FanOutInv'
<1>1. CASE UNCHANGED notEdited \/ Tick \/ UNCHANGED vars
  BY <1>1 DEF notEdited, vars, Tick, FanOutInv
<1>2. ASSUME NEW a \in Alerts, Begin(a) \/ ListFails(a) \/ Return(a)
      PROVE  FanOutInv'
  <2>1. UNCHANGED <<queue, due, tried>>
    BY <1>2 DEF Begin, ListFails, Return
  <2>2. a \in Alerts => a > alerts \/ at[a] \in {"list", "send"}
    BY <1>2, BoundsAssumption DEF Begin, ListFails, Return, TypeOK, Alerts
  <2>3. /\ at' \in [Alerts -> {"none", "list", "send", "done"}]
        /\ \A b \in Alerts : b # a => at'[b] = at[b]
        /\ blind' = IF ListFails(a) THEN blind \union {a} ELSE blind
        /\ at'[a] = IF Begin(a) THEN "list" ELSE "done"
    BY <1>2 DEF Begin, ListFails, Return, TypeOK
  <2>4. at[a] \in {"none", "list", "send"}
    BY <1>2, <2>2 DEF AlertInv, QueueInv
  <2>5. Begin(a) => at[a] = "none" /\ ~ListFails(a)
    <3>1. Begin(a) => a > alerts
      BY BoundsAssumption DEF Begin, TypeOK, Alerts
    <3> QED BY <3>1 DEF AlertInv, QueueInv, ListFails
  <2> QED BY <2>1, <2>3, <2>4, <2>5 DEF FanOutInv
<1>3. ASSUME NEW a \in Alerts, ListEnabled(a) PROVE FanOutInv'
  BY <1>3 DEF ListEnabled, FanOutInv, TypeOK
<1>4. ASSUME NEW a \in Alerts, NEW c \in Channels,
             SkipChannel(a, c) \/ SendOk(a, c) \/ SendFails(a, c) \/ CutOff(a, c)
      PROVE  FanOutInv'
  <2>1. /\ queue' = [queue EXCEPT ![a] = @ \ {c}]
        /\ UNCHANGED <<at, due, blind>>
        /\ tried' = tried \/ tried' = [tried EXCEPT ![a] = @ \union {c}]
        /\ c \in queue[a]
    BY <1>4 DEF SkipChannel, SendOk, SendFails, CutOff, Sent, Turn
  <2>2. \A b \in Alerts : /\ queue'[b] \subseteq queue[b]
                          /\ tried'[b] \subseteq tried[b] \union queue[b]
                          /\ queue'[b] \cap tried'[b] = queue'[b] \cap tried[b]
    BY <2>1 DEF TypeOK
  <2> QED BY <2>1, <2>2 DEF FanOutInv
<1>5. ASSUME NEW a \in Alerts, NEW c \in Channels, Arrives(a, c) PROVE FanOutInv'
  BY <1>5 DEF Arrives, FanOutInv
<1> QED BY <1>1, <1>2, <1>3, <1>4, <1>5, EditType DEF Next, Edits

LEMMA FanOutInvariant == Spec => [](TypeOK /\ AlertInv /\ FanOutInv)
<1>1. Init => FanOutInv
  BY DEF Init, FanOutInv
<1>2. TypeOK /\ AlertInv /\ FanOutInv /\ [Next]_vars => FanOutInv'
  BY FanOutNext
<1> QED BY <1>1, <1>2, Invariant, PTL DEF Spec

(* The abstract state of an alert.                                         *)
StageOf(a) == CASE at[a] \in {"none", "list"} -> "waiting"
                [] at[a] = "send" -> "open"
                [] at[a] = "done" -> "ended"
RecipientsOf(a) == {c \in due[a] : copy[a][c].parses}
stages == [a \in Alerts |-> StageOf(a)]
addressees == [a \in Alerts |-> RecipientsOf(a)]

LEMMA DeliveryFrame ==
    ASSUME UNCHANGED <<at, due, copy, tried, told, wire>>
    PROVE  UNCHANGED Delivery!dvars
BY DEF Delivery!dvars

LEMMA DeliveryOpens ==
    ASSUME TypeOK, FanOutInv, NEW a \in Alerts, ListEnabled(a)
    PROVE  Delivery!Open(a)
<1>1. /\ at[a] = "list" /\ at' = [at EXCEPT ![a] = "send"]
      /\ UNCHANGED <<tried, told, wire>>
      /\ due' = [due EXCEPT ![a] = EnabledFor(a)]
      /\ \A b \in Alerts : b # a => copy'[b] = copy[b]
  BY DEF ListEnabled, TypeOK, sentVars
<1>2. stages[a] = "waiting" /\ stages' = [stages EXCEPT ![a] = "open"]
  BY <1>1 DEF stages, StageOf, TypeOK
<1>3. addressees' = [addressees EXCEPT ![a] = RecipientsOf(a)']
  BY <1>1 DEF addressees, RecipientsOf, TypeOK
<1>4. RecipientsOf(a)' \in SUBSET Channels
  BY <1>1 DEF RecipientsOf, EnabledFor, TypeOK
<1> QED BY <1>1, <1>2, <1>3, <1>4 DEF Delivery!Open, stages, StageOf, addressees, RecipientsOf

LEMMA DeliveryEnds ==
    ASSUME TypeOK, AlertInv, FanOutInv, NEW a \in Alerts, ListFails(a) \/ Return(a)
    PROVE  Delivery!End(a)
<1>1. /\ at' = [at EXCEPT ![a] = "done"]
      /\ UNCHANGED <<due, copy, tried, told, wire>>
      /\ \/ at[a] = "list"
         \/ at[a] = "send" /\ queue[a] = {}
  BY DEF ListFails, Return, sentVars
<1>2. stages' = [stages EXCEPT ![a] = "ended"]
  BY <1>1 DEF stages, StageOf, TypeOK
<1>3. addressees' = addressees
  BY <1>1 DEF addressees, RecipientsOf
<1>4. \/ stages[a] = "waiting"
      \/ stages[a] = "open" /\ addressees[a] \subseteq tried[a]
  BY <1>1 DEF stages, StageOf, addressees, RecipientsOf, FanOutInv, AlertInv, DueInv
<1> QED BY <1>1, <1>2, <1>3, <1>4 DEF Delivery!End, stages, StageOf, addressees, RecipientsOf

LEMMA DeliveryTries ==
    ASSUME TypeOK, AlertInv, FanOutInv, NEW a \in Alerts, NEW c \in Channels,
           SendOk(a, c) \/ SendFails(a, c) \/ CutOff(a, c)
    PROVE  Delivery!Try(a, c)
<1>1. /\ UNCHANGED <<at, due, copy>>
      /\ tried' = [tried EXCEPT ![a] = @ \union {c}]
      /\ \/ told' = [told EXCEPT ![c] = a] /\ UNCHANGED wire
         \/ wire' = [wire EXCEPT ![a] = @ \union {c}] /\ UNCHANGED told
         \/ UNCHANGED <<told, wire>>
      /\ c \in queue[a] /\ copy[a][c].parses
  BY DEF SendOk, SendFails, CutOff, NoAnswer, Sent, Turn
<1>2. at[a] = "send" /\ c \in due[a] /\ c \notin tried[a]
  BY <1>1 DEF AlertInv, QueueInv, FanOutInv
<1>3. stages[a] = "open" /\ stages' = stages
  BY <1>1, <1>2 DEF stages, StageOf
<1>4. c \in addressees[a] \ tried[a] /\ addressees' = addressees
  BY <1>1, <1>2 DEF addressees, RecipientsOf
<1> QED BY <1>1, <1>3, <1>4 DEF Delivery!Try, stages, StageOf, addressees, RecipientsOf

LEMMA DeliveryArrives ==
    ASSUME NEW a \in Alerts, NEW c \in Channels, Arrives(a, c)
    PROVE  Delivery!Arrive(a, c)
BY DEF Arrives, Delivery!Arrive

LEMMA DeliveryStep ==
    ASSUME TypeOK, AlertInv, FanOutInv, [Next]_vars
    PROVE  [Delivery!Next]_Delivery!dvars
<1>1. CASE UNCHANGED notEdited \/ Tick \/ UNCHANGED vars
  BY <1>1, DeliveryFrame DEF notEdited, vars, Tick, sentVars
<1>2. ASSUME NEW a \in Alerts, Begin(a) PROVE UNCHANGED Delivery!dvars
  <2>1. a > alerts
    BY <1>2, BoundsAssumption DEF Begin, TypeOK, Alerts
  <2>2. at[a] = "none" /\ at' = [at EXCEPT ![a] = "list"]
    BY <1>2, <2>1 DEF Begin, AlertInv, QueueInv
  <2>3. stages' = stages
    BY <2>2 DEF stages, StageOf, TypeOK
  <2> QED BY <1>2, <2>3 DEF Begin, sentVars, Delivery!dvars, stages, StageOf
<1>3. ASSUME NEW a \in Alerts, NEW c \in Channels, SkipChannel(a, c)
      PROVE  UNCHANGED Delivery!dvars
  BY <1>3, DeliveryFrame DEF SkipChannel, sentVars
<1>4. ASSUME NEW a \in Alerts, NEW c \in Channels,
             SendOk(a, c) \/ SendFails(a, c) \/ CutOff(a, c)
      PROVE  Delivery!Next
  BY <1>4, DeliveryTries DEF Delivery!Next
<1>5. ASSUME NEW a \in Alerts, ListEnabled(a) \/ ListFails(a) \/ Return(a)
      PROVE  Delivery!Next
  BY <1>5, DeliveryOpens, DeliveryEnds DEF Delivery!Next
<1>6. ASSUME NEW a \in Alerts, NEW c \in Channels, Arrives(a, c)
      PROVE  Delivery!Next
  BY <1>6, DeliveryArrives DEF Delivery!Next
<1> QED BY <1>1, <1>2, <1>3, <1>4, <1>5, <1>6, EditType DEF Next, Edits

(* Whatever becomes of the single sends, NotifyPingChange delivers: each   *)
(* alert sends once to every channel that asked for it when it listed      *)
(* them, and to nobody else, before it ends.                               *)
THEOREM NotificationsImplementDelivery == Spec => ImplementsDelivery
<1>1. Init => Delivery!Init
  BY DEF Init, Delivery!Init
<1>2. TypeOK /\ AlertInv /\ FanOutInv /\ [Next]_vars => [Delivery!Next]_Delivery!dvars
  BY DeliveryStep
<1> QED
  BY <1>1, <1>2, FanOutInvariant, PTL DEF Spec, ImplementsDelivery, Delivery!Spec
=============================================================================
