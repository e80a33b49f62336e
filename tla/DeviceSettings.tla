--------------------------- MODULE DeviceSettings ---------------------------
(***************************************************************************)
(* The settings of one switch that are written as a whole: VLANs, trunk    *)
(* groups, mirroring, QoS, storm control, IGMP snooping, loop prevention.  *)
(* A collection reads them page by page (GetSnapshot and the parsers); the *)
(* result is kept in memory, where /metrics reads it, and stored, where    *)
(* the API's clients read it.  A client edits one entry of what it has     *)
(* read and sends the whole list back; the PATCH handler converts it and   *)
(* posts it to the switch (actions.go).  Nothing is read back.             *)
(*                                                                         *)
(* Masks and strings of digits are sets and functions of ports.  Ports     *)
(* themselves are the subject of PortWrites.                               *)
(***************************************************************************)
EXTENDS Naturals, FiniteSets

CONSTANTS Ports,         \* port numbers (1..8 in the code)
          Vids,          \* VLAN ids
          Rates,         \* kbit/s; 0 is "off"
          Priorities,    \* QoS priorities (1..4)
          LagIds,        \* ids a client gives to trunk groups
          FirstDevices,  \* how the switch may be set, here or on its own page
          Rows,          \* port memberships a client may give to a VLAN
          Trunks,        \* sets of ports a client may make a trunk
          EditedCats,    \* bound: the lists that clients edit
          Unreliable,    \* bound: the pages that may fail to load
          Clients,       \* bound: clients that edit at the same time
          Collectors,    \* bound: collections at the same time
          None,          \* no entry, no row, nothing under way
          Unread,        \* a nil pointer in a snapshot
          MaxChanges     \* bound: changes of the switch's settings

Cats == {"vlans", "lags", "mirror", "qos", "storm", "igmp", "loop"}
Memberships == {"tagged", "untagged", "excluded"}
MirrorModes == {"both", "ingress", "egress"}
QosModes == {"port", "802.1p", "dscp"}

Snoopings == [on : BOOLEAN, suppress : BOOLEAN]
Devices ==
    [dot1q : [Vids -> [tag : SUBSET Ports, untag : SUBSET Ports] \union {None}],
     pvlans : [Vids -> SUBSET Ports \union {None}],
     lags : [{1, 2} -> SUBSET Ports],
     mirror : [on : BOOLEAN, dest : Ports \union {0}, code : {0, 1, 2},
               ingress : SUBSET Ports, egress : SUBSET Ports],
     qos : [code : {1, 2, 3}, pri : [Ports -> Priorities]],
     bandwidth : [Ports -> Rates],
     storm : [Ports -> Rates],
     igmp : Snoopings,
     loop : BOOLEAN]

(* A list of the snapshot has an entry per VLAN or port, or is empty.      *)
VlanLists == [Vids -> [Ports -> Memberships] \union {None}]
RateLists == [Ports -> Rates \union {None}]
Groups == [id : LagIds, ports : SUBSET Ports]
Mirrors == [on : BOOLEAN, dest : Ports \union {0}, mode : MirrorModes \union {""},
            sources : SUBSET Ports]
QosLists == [mode : QosModes \union {""}, pri : [Ports -> Priorities \union {None}]]
Snapshots == [vlans : VlanLists, lags : SUBSET Groups, mirror : Mirrors \union {Unread},
              qos : QosLists \union {Unread}, bandwidth : RateLists,
              storm : RateLists, igmp : Snoopings \union {Unread},
              loop : BOOLEAN]

ASSUME PortsAssumption == Ports \subseteq Nat \ {0}
ASSUME RatesAssumption == Rates \subseteq Nat /\ 0 \in Rates
ASSUME PrioritiesAssumption == Priorities \subseteq Nat /\ 1 \in Priorities
ASSUME LagIdsAssumption == {1, 2} \subseteq LagIds
ASSUME FirstDevicesAssumption == FirstDevices # {} /\ FirstDevices \subseteq Devices
ASSUME RowsAssumption == Rows \subseteq [Ports -> Memberships]
ASSUME TrunksAssumption == Trunks \subseteq SUBSET Ports
ASSUME EditedCatsAssumption == EditedCats \subseteq Cats
ASSUME MaxChangesAssumption == MaxChanges \in Nat
ASSUME NoneAssumption ==
    None \notin [Ports -> Memberships] \union Snapshots \union Cats \union Nat
ASSUME UnreadAssumption == Unread \notin Mirrors \union QosLists \union Snoopings

NoVlans == [v \in Vids |-> None]
NoRates == [p \in Ports |-> None]
(* A snapshot before its first page.                                       *)
Blank == [vlans |-> NoVlans, lags |-> {}, mirror |-> Unread, qos |-> Unread,
          bandwidth |-> NoRates, storm |-> NoRates, igmp |-> Unread, loop |-> FALSE]

-----------------------------------------------------------------------------
(* The parsers: what a page says of the switch.                            *)

Mode8021Q(row, p) == IF p \in row.tag THEN "tagged"
                     ELSE IF p \in row.untag THEN "untagged"
                     ELSE "excluded"

ParseVLAN8021Q(d) ==
    [v \in Vids |-> IF d.dot1q[v] = None THEN None
                    ELSE [p \in Ports |-> Mode8021Q(d.dot1q[v], p)]]

ParseVLANPortBased(d) ==
    [v \in Vids |-> IF d.pvlans[v] = None THEN None
                    ELSE [p \in Ports |-> IF p \in d.pvlans[v] THEN "untagged"
                                          ELSE "excluded"]]

ParseLAGSlip(d) == {[id |-> i, ports |-> d.lags[i]] : i \in {1, 2}}
(* Only groups that have members.                                          *)
ParseLAG(d) == {[id |-> i, ports |-> d.lags[i]] : i \in {j \in {1, 2} : d.lags[j] # {}}}

ParsePortMirror(d) == [on |-> d.mirror.on, dest |-> d.mirror.dest,
                       mode |-> IF d.mirror.code = 1 THEN "ingress"
                                ELSE IF d.mirror.code = 2 THEN "egress" ELSE "both",
                       sources |-> d.mirror.ingress \union d.mirror.egress]

ParseQoSBasic(d) == [mode |-> IF d.qos.code = 1 THEN "port"
                              ELSE IF d.qos.code = 2 THEN "802.1p" ELSE "dscp",
                     pri |-> d.qos.pri]

(* GetSnapshot's apply functions: one page into the snapshot.              *)
PageOrder == <<"lags", "vlan-802.1q", "vlan-port", "igmp", "qos", "bandwidth",
               "storm", "mirror", "loop">>

ApplyVLAN8021Q(s, d) == IF ParseVLAN8021Q(d) = NoVlans THEN s
                        ELSE [s EXCEPT !.vlans = ParseVLAN8021Q(d)]
ApplyVLANPortBasedSlip(s, d) == IF ParseVLANPortBased(d) = NoVlans THEN s
                                ELSE [s EXCEPT !.vlans = ParseVLANPortBased(d)]
(* Port-based VLANs are shown only if there is no 802.1Q VLAN.             *)
ApplyVLANPortBased(s, d) ==
    IF s.vlans # NoVlans \/ ParseVLANPortBased(d) = NoVlans THEN s
    ELSE [s EXCEPT !.vlans = ParseVLANPortBased(d)]

ApplyPage(s, page, d) ==
    IF page = "vlan-802.1q" THEN ApplyVLAN8021Q(s, d)
    ELSE IF page = "vlan-port" THEN ApplyVLANPortBased(s, d)
    ELSE IF page = "lags" THEN [s EXCEPT !.lags = ParseLAG(d)]
    ELSE IF page = "mirror" THEN [s EXCEPT !.mirror = ParsePortMirror(d)]
    ELSE IF page = "qos" THEN [s EXCEPT !.qos = ParseQoSBasic(d)]
    ELSE IF page = "bandwidth" THEN [s EXCEPT !.bandwidth = d.bandwidth]
    ELSE IF page = "storm" THEN [s EXCEPT !.storm = d.storm]
    ELSE IF page = "igmp" THEN [s EXCEPT !.igmp = d.igmp]
    ELSE [s EXCEPT !.loop = d.loop]

-----------------------------------------------------------------------------
(* The write actions: what the switch is told to be set to.                *)

PortsWith(members, mode) == {p \in Ports : members[p] = mode}

(* A port a client leaves out of port_members is in neither mask, as one   *)
(* that is excluded.                                                       *)
SetVLANs(d, list) ==
    [d EXCEPT !.dot1q =
        [v \in Vids |-> IF list[v] = None THEN None
                        ELSE [tag |-> PortsWith(list[v], "tagged"),
                              untag |-> PortsWith(list[v], "untagged")]]]

(* Group 2 is trunk 2, any other id is trunk 1.                            *)
SetLAG(d, list) ==
    [d EXCEPT !.lags =
        [i \in {1, 2} |-> UNION {g.ports : g \in {h \in list : (h.id = 2) <=> (i = 2)}}]]

SetPortMirror(d, m) ==
    [d EXCEPT !.mirror =
        [on |-> m.on, dest |-> m.dest,
         code |-> IF m.mode = "ingress" THEN 1 ELSE IF m.mode = "egress" THEN 2 ELSE 0,
         ingress |-> IF m.mode \in {"ingress", "both"} THEN m.sources ELSE {},
         egress |-> IF m.mode \in {"egress", "both"} THEN m.sources ELSE {}]]

Or(x, default) == IF x = None THEN default ELSE x

SetQoSSlip(d, q) == [d EXCEPT !.qos = [code |-> IF q.mode = "port" THEN 1 ELSE 2,
                                       pri |-> [p \in Ports |-> Or(q.pri[p], 1)]]]
SetQoS(d, q) ==
    [d EXCEPT !.qos = [code |-> IF q.mode = "port" THEN 1
                                ELSE IF q.mode = "dscp" THEN 3 ELSE 2,
                       pri |-> [p \in Ports |-> Or(q.pri[p], 1)]]]

SetStormControlSlip(d, list) == [d EXCEPT !.storm = list]
SetStormControl(d, list) == [d EXCEPT !.storm = [p \in Ports |-> Or(list[p], 0)]]

(* Report suppression goes off.                                            *)
SetIGMP(d, on) == [d EXCEPT !.igmp = [on |-> on, suppress |-> FALSE]]

SetLoopPrevention(d, on) == [d EXCEPT !.loop = on]

-----------------------------------------------------------------------------
(* A client's edit of one entry of a list it has read.                     *)

EditedVlans(list) == {[list EXCEPT ![v] = m] : v \in Vids, m \in Rows \union {None}}
EditedLags(list) == {{g \in list : g.id # i} \union ({[id |-> i, ports |-> t]}) :
                         i \in LagIds, t \in Trunks}
(* From scratch if the page could not be read.                             *)
EditedMirror(m) ==
    LET base == IF m = Unread THEN [on |-> FALSE, dest |-> 0, mode |-> "", sources |-> {}]
                ELSE m
    IN {[base EXCEPT !.on = b] : b \in BOOLEAN}
       \union {[base EXCEPT !.dest = p] : p \in Ports}
       \union {[on |-> base.on, dest |-> base.dest, mode |-> x, sources |-> t] :
                   x \in MirrorModes, t \in Trunks}
EditedQos(q) ==
    LET base == IF q = Unread THEN [mode |-> "", pri |-> NoRates] ELSE q
    IN {[base EXCEPT !.mode = x] : x \in QosModes}
       \union {[base EXCEPT !.pri[p] = n] : p \in Ports, n \in Priorities}
EditedStorm(list) == {[list EXCEPT ![p] = n] : p \in Ports, n \in Rates}

(* What a PATCH of list cat may ask the switch d to be, by a client that   *)
(* has read s.                                                             *)
Asked(cat, s, d) ==
    IF cat = "vlans" THEN {SetVLANs(d, l) : l \in EditedVlans(s.vlans)}
    ELSE IF cat = "lags" THEN {SetLAG(d, l) : l \in EditedLags(s.lags)}
    ELSE IF cat = "mirror" THEN {SetPortMirror(d, m) : m \in EditedMirror(s.mirror)}
    ELSE IF cat = "qos" THEN {SetQoS(d, q) : q \in EditedQos(s.qos)}
    ELSE IF cat = "storm" THEN {SetStormControl(d, l) : l \in EditedStorm(s.storm)}
    ELSE IF cat = "igmp" THEN {SetIGMP(d, b) : b \in BOOLEAN}
    ELSE {SetLoopPrevention(d, b) : b \in BOOLEAN}

-----------------------------------------------------------------------------
VARIABLES
    dev,      \* durable: how the switch is set
    changes,  \* how often that has changed (bound)
    session,  \* the worker's session is valid on the switch
    memory,   \* w.last, or None
    stored,   \* durable: the row of the snapshots table, or None
    cat,      \* [Clients -> the list it edits, or None]
    view,     \* [Clients -> that list as it has read it, the rest Blank]
    page,     \* [Collectors -> pages it has tried, None when it does not collect]
    own,      \* the collections with a login of their own: CollectNow's
    draft,    \* [Collectors -> the snapshot it fills, or saves]
    right,    \* history: "memory", "stored": read in full since the last change
    calm      \* history: collectors that will make one right

collVars == <<page, own, draft>>
clientVars == <<cat, view>>
vars == <<dev, changes, session, memory, stored, clientVars, collVars, right, calm>>

Last == 9                      \* the number of pages
Saving == 10                   \* published, about to be saved

TypeOK ==
    /\ dev \in Devices
    /\ changes \in 0 .. MaxChanges
    /\ session \in BOOLEAN
    /\ memory \in Snapshots \union {None}
    /\ stored \in Snapshots \union {None}
    /\ cat \in [Clients -> Cats \union {None}]
    /\ view \in [Clients -> Snapshots]
    /\ page \in [Collectors -> (0 .. Saving) \union {None}]
    /\ own \subseteq Collectors
    /\ draft \in [Collectors -> Snapshots]
    /\ right \subseteq {"memory", "stored"}
    /\ calm \subseteq Collectors

Init ==
    /\ dev \in FirstDevices
    /\ changes = 0
    /\ session \in BOOLEAN
    /\ memory = None
    /\ stored = None
    /\ cat = [c \in Clients |-> None]
    /\ view = [c \in Clients |-> Blank]
    /\ page = [c \in Collectors |-> None]
    /\ own = {}
    /\ draft = [c \in Collectors |-> Blank]
    /\ right = {}
    /\ calm = {}

-----------------------------------------------------------------------------
(* Clients of the API.                                                     *)

(* GET .../vlans, .../lag or .../snapshot; no row is a 404.                *)
GetSnapshot(c) ==
    \E l \in EditedCats :
        /\ cat[c] = None
        /\ stored # None
        /\ changes < MaxChanges       \* a client that could still write
        /\ cat' = [cat EXCEPT ![c] = l]
        /\ view' = [view EXCEPT ![c] = [Blank EXCEPT ![l] = stored[l]]]
        /\ UNCHANGED <<dev, changes, session, memory, stored, collVars, right, calm>>

(* The switch is set to d.                                                 *)
BecomesSet(d) ==
    /\ changes < MaxChanges
    /\ d # dev
    /\ dev' = d
    /\ changes' = changes + 1
    /\ right' = {}
    /\ calm' = {}

Answered(c) == /\ cat' = [cat EXCEPT ![c] = None]
               /\ view' = [view EXCEPT ![c] = Blank]
               /\ UNCHANGED <<session, memory, stored, collVars>>

(* PATCH with the edited list: the switch takes it.  Whether the answer is *)
(* "ok" or 502 is another matter: it may reset the connection, answer, or  *)
(* time out after it has taken a POST.                                     *)
PatchTaken(c) ==
    /\ cat[c] # None
    /\ session
    /\ \E d \in Asked(cat[c], view[c], dev) : BecomesSet(d)
    /\ Answered(c)

(* The switch does not: it is gone, resets the connection at once, answers *)
(* with its login form, or is set that way already.                        *)
PatchNotTaken(c) ==
    /\ cat[c] # None
    /\ Answered(c)
    /\ UNCHANGED <<dev, changes, right, calm>>

(* POST .../reboot, and other ends of the worker's session.                *)
Reboot == /\ session
          /\ session' = FALSE
          /\ UNCHANGED <<dev, changes, memory, stored, clientVars, collVars, right, calm>>

(* One list is changed on the switch's own page.                           *)
OwnPage == /\ \E d \in FirstDevices, f \in DOMAIN dev : BecomesSet([dev EXCEPT ![f] = d[f]])
           /\ UNCHANGED <<session, memory, stored, clientVars, collVars>>

-----------------------------------------------------------------------------
(* Collections: collectFull, CollectNow, collectStats.                     *)

Begin(c) ==
    /\ page[c] = None
    /\ page' = [page EXCEPT ![c] = 0]
    /\ calm' = calm \union {c}
    /\ UNCHANGED <<dev, changes, session, memory, stored, clientVars, draft, right>>

CollectNow(c) == Begin(c) /\ own' = own \union {c}

LoopIdle == \A c \in Collectors : page[c] # None => c \in own
CollectFull(c) == LoopIdle /\ Begin(c) /\ UNCHANGED own

Loads(c) == c \in own \/ session

(* fetchPage and the page's apply function.                                *)
ReadPage(c) ==
    /\ page[c] \in 0 .. Last - 1
    /\ Loads(c)
    /\ draft' = [draft EXCEPT ![c] = ApplyPage(@, PageOrder[page[c] + 1], dev)]
    /\ page' = [page EXCEPT ![c] = @ + 1]
    /\ UNCHANGED <<dev, changes, session, memory, stored, clientVars, own, right, calm>>

(* A page that cannot be read is logged and left as it is.                 *)
SkipPage(c) ==
    /\ page[c] \in 0 .. Last - 1
    /\ ~Loads(c) \/ PageOrder[page[c] + 1] \in Unreliable
    /\ page' = [page EXCEPT ![c] = @ + 1]
    /\ calm' = calm \ {c}
    /\ UNCHANGED <<dev, changes, session, memory, stored, clientVars, own, draft, right>>

EndCollect(c) == /\ page' = [page EXCEPT ![c] = None]
                 /\ own' = own \ {c}
                 /\ draft' = [draft EXCEPT ![c] = Blank]
                 /\ calm' = calm \ {c}

(* The context of an immediate collection ends between two pages.          *)
TimesOut(c) ==
    /\ c \in own
    /\ page[c] \in 1 .. Last - 1
    /\ EndCollect(c)
    /\ UNCHANGED <<dev, changes, session, memory, stored, clientVars, right>>

(* A snapshot is right if every page was read since the last change.       *)
Judged(place, c) == IF c \in calm THEN right \union {place} ELSE right \ {place}

Publish(c) ==
    /\ page[c] = Last
    /\ memory' = draft[c]
    /\ page' = [page EXCEPT ![c] = Saving]
    /\ right' = Judged("memory", c)
    /\ UNCHANGED <<dev, changes, session, stored, clientVars, own, draft, calm>>

(* Of the lists here collectStats changes none: it saves what is in memory.*)
CollectStats(c) ==
    /\ page[c] = None
    /\ LoopIdle
    /\ session
    /\ memory # None
    /\ draft' = [draft EXCEPT ![c] = memory]
    /\ page' = [page EXCEPT ![c] = Saving]
    /\ calm' = IF "memory" \in right THEN calm \union {c} ELSE calm
    /\ UNCHANGED <<dev, changes, session, memory, stored, clientVars, own, right>>

UpsertSnapshot(c) ==
    /\ page[c] = Saving
    /\ stored' = draft[c]
    /\ right' = Judged("stored", c)
    /\ EndCollect(c)
    /\ UNCHANGED <<dev, changes, session, memory, clientVars>>

UpsertFails(c) ==
    /\ page[c] = Saving
    /\ EndCollect(c)
    /\ UNCHANGED <<dev, changes, session, memory, stored, clientVars, right>>

(* The process starts again; the clients still have what they have read.   *)
Restart ==
    /\ session' \in BOOLEAN
    /\ memory' = None
    /\ page' = [c \in Collectors |-> None]
    /\ own' = {}
    /\ draft' = [c \in Collectors |-> Blank]
    /\ calm' = {}
    /\ right' = right \ {"memory"}
    /\ UNCHANGED <<dev, changes, stored, clientVars>>

Next ==
    \/ \E c \in Clients : GetSnapshot(c) \/ PatchTaken(c) \/ PatchNotTaken(c)
    \/ \E c \in Collectors :
           \/ CollectNow(c) \/ CollectFull(c) \/ CollectStats(c)
           \/ ReadPage(c) \/ SkipPage(c) \/ TimesOut(c)
           \/ Publish(c) \/ UpsertSnapshot(c) \/ UpsertFails(c)
    \/ Reboot \/ OwnPage \/ Restart

Spec == Init /\ [][Next]_vars

-----------------------------------------------------------------------------
(* What /metrics says of the switch (metrics.Collect, emitSwitch).         *)

SizeOf(list) == Cardinality({v \in Vids : list[v] # None})

EmitSwitch(s) ==
    IF s = None THEN [up |-> 0]
    ELSE [up |-> 1, vlanCount |-> SizeOf(s.vlans), lagCount |-> Cardinality(s.lags),
          loopPrevention |-> s.loop,
          igmpEnabled |-> IF s.igmp = Unread THEN Unread ELSE s.igmp.on,
          qosPriority |-> IF s.qos = Unread THEN NoRates ELSE s.qos.pri,
          bandwidth |-> s.bandwidth, storm |-> s.storm]

-----------------------------------------------------------------------------
(* Properties.                                                             *)

(* What the pages of d say, in no order.                                   *)
ShownOf(d) ==
    [vlans |-> IF ParseVLAN8021Q(d) # NoVlans THEN ParseVLAN8021Q(d)
               ELSE ParseVLANPortBased(d),
     lags |-> ParseLAG(d), mirror |-> ParsePortMirror(d), qos |-> ParseQoSBasic(d),
     bandwidth |-> d.bandwidth, storm |-> d.storm, igmp |-> d.igmp, loop |-> d.loop]

(* A snapshot whose pages were all read since the last change of the       *)
(* switch shows it as it is set, wherever it has come to by now: collected *)
(* page by page in the code's order, published, saved by a collection or   *)
(* saved again with new counters (GetSnapshot, collectFull, collectStats). *)
RightIsCurrent ==
    /\ "memory" \in right => memory = ShownOf(dev)
    /\ "stored" \in right => stored = ShownOf(dev)

Trunked(d) == {i \in {1, 2} : d.lags[i] # {}}
Vlans(d) == {v \in Vids : d.dot1q[v] # None}

(* What /metrics then says of the switch is so: the numbers of VLANs and   *)
(* of trunks in use, IGMP snooping, loop prevention, QoS and storm values  *)
(* (emitSwitch on what the parsers made of the pages).                     *)
MetricsAreCurrent ==
    "memory" \in right =>
        LET m == EmitSwitch(memory)
        IN /\ m.up = 1
           /\ m.lagCount = Cardinality(Trunked(dev))
           /\ Vlans(dev) # {} => m.vlanCount = Cardinality(Vlans(dev))
           /\ m.loopPrevention = dev.loop
           /\ m.igmpEnabled = dev.igmp.on
           /\ m.qosPriority = dev.qos.pri
           /\ m.storm = dev.storm /\ m.bandwidth = dev.bandwidth

(* What a page cannot show: a port in both masks of a VLAN, sources of a   *)
(* mirror in one direction that its mode does not name.                    *)
PlainVlans(d) == \A v \in Vids : d.dot1q[v] # None => d.dot1q[v].tag \intersect d.dot1q[v].untag = {}
PlainMirror(d) == LET m == d.mirror
                  IN /\ m.code = 0 => m.ingress = m.egress
                     /\ m.code = 1 => m.egress = {}
                     /\ m.code = 2 => m.ingress = {}

(* c has read its list as the switch has it at this moment.                *)
HasRightView(c) ==
    \/ cat[c] = "vlans" /\ view[c].vlans = ParseVLAN8021Q(dev) /\ PlainVlans(dev)
    \/ cat[c] = "lags" /\ view[c].lags = ParseLAG(dev)
    \/ cat[c] = "mirror" /\ view[c].mirror = ParsePortMirror(dev) /\ PlainMirror(dev)
    \/ cat[c] = "qos" /\ view[c].qos = ParseQoSBasic(dev)
    \/ cat[c] = "storm" /\ view[c].storm = dev.storm
    \/ cat[c] \in {"igmp", "loop"}

(* The entries in which d and e differ.                                    *)
Differences(d, e) ==
    {<<"vlan", v>> : v \in {w \in Vids : d.dot1q[w] # e.dot1q[w]}}
    \union {<<"port vlan", v>> : v \in {w \in Vids : d.pvlans[w] # e.pvlans[w]}}
    \union {<<"lag", i>> : i \in {j \in {1, 2} : d.lags[j] # e.lags[j]}}
    \union {<<"priority", p>> : p \in {q \in Ports : d.qos.pri[q] # e.qos.pri[q]}}
    \union {<<"storm", p>> : p \in {q \in Ports : d.storm[q] # e.storm[q]}}
    \union {<<"bandwidth", p>> : p \in {q \in Ports : d.bandwidth[q] # e.bandwidth[q]}}
    \union (IF d.qos.code # e.qos.code THEN {<<"qos mode", 0>>} ELSE {})
    \union (IF d.mirror.on # e.mirror.on THEN {<<"mirror on", 0>>} ELSE {})
    \union (IF d.mirror.dest # e.mirror.dest THEN {<<"mirror port", 0>>} ELSE {})
    \union (IF <<d.mirror.code, d.mirror.ingress, d.mirror.egress>>
               # <<e.mirror.code, e.mirror.ingress, e.mirror.egress>>
            THEN {<<"mirror sources", 0>>} ELSE {})
    \union (IF d.igmp # e.igmp THEN {<<"igmp", 0>>} ELSE {})
    \union (IF d.loop # e.loop THEN {<<"loop", 0>>} ELSE {})

(* A client that changes one entry of a list and sends all of it back      *)
(* changes one entry of the switch, if the list was still right when the   *)
(* switch took it: reading a list and writing it loses nothing (parsers    *)
(* and write actions fit together), and a stale list of another kind does  *)
(* no harm.                                                                *)
OneEntryChanges ==
    [][\A c \in Clients :
          HasRightView(c) /\ cat'[c] = None =>
              \A x, y \in Differences(dev, dev') : x = y]_vars
=============================================================================
