------------------------ MODULE DeviceSettingsProofs ------------------------
(***************************************************************************)
(* Proofs about DeviceSettings, for any ports, VLANs, clients, collectors  *)
(* and lists: types; snapshots that were read undisturbed show the switch  *)
(* as it is set.                                                           *)
(***************************************************************************)
EXTENDS DeviceSettings, FiniteSetTheorems, FunctionTheorems, TLAPS

-----------------------------------------------------------------------------
(* What the parsers return.                                                *)

LEMMA BlankType == Blank \in Snapshots
<1>1. NoVlans \in VlanLists /\ NoRates \in RateLists
  BY DEF NoVlans, NoRates, VlanLists, RateLists
<1> QED BY <1>1, Zenon DEF Blank, Snapshots

LEMMA VlansType ==
    ASSUME NEW d \in Devices
    PROVE  ParseVLAN8021Q(d) \in VlanLists /\ ParseVLANPortBased(d) \in VlanLists
<1>1. \A v \in Vids : [p \in Ports |-> Mode8021Q(d.dot1q[v], p)] \in [Ports -> Memberships]
  BY DEF Mode8021Q, Memberships
<1>2. \A v \in Vids : [p \in Ports |-> IF p \in d.pvlans[v] THEN "untagged" ELSE "excluded"]
                         \in [Ports -> Memberships]
  BY DEF Memberships
<1>3. ParseVLAN8021Q(d) \in VlanLists
  BY <1>1 DEF ParseVLAN8021Q, VlanLists
<1>4. ParseVLANPortBased(d) \in VlanLists
  BY <1>2 DEF ParseVLANPortBased, VlanLists
<1> QED BY <1>3, <1>4

LEMMA PagesType ==
    ASSUME NEW d \in Devices
    PROVE  /\ ParseLAG(d) \in SUBSET Groups
           /\ ParsePortMirror(d) \in Mirrors
           /\ ParseQoSBasic(d) \in QosLists
           /\ d.bandwidth \in RateLists /\ d.storm \in RateLists
           /\ d.igmp \in Snoopings /\ d.loop \in BOOLEAN
<1>1. ParseLAG(d) \in SUBSET Groups
  <2>1. \A i \in {1, 2} : d.lags[i] \in SUBSET Ports
    BY DEF Devices
  <2>2. \A i \in {1, 2} : [id |-> i, ports |-> d.lags[i]] \in Groups
    BY <2>1, LagIdsAssumption DEF Groups
  <2> QED BY <2>2 DEF ParseLAG
<1>2. ParsePortMirror(d) \in Mirrors
  BY DEF ParsePortMirror, Mirrors, Devices, MirrorModes
<1>3. ParseQoSBasic(d) \in QosLists
  BY DEF ParseQoSBasic, QosLists, Devices, QosModes
<1>4. /\ d.bandwidth \in RateLists /\ d.storm \in RateLists
      /\ d.igmp \in Snoopings /\ d.loop \in BOOLEAN
  <2>1. d.bandwidth \in [Ports -> Rates] /\ d.storm \in [Ports -> Rates]
    BY DEF Devices
  <2>2. d.bandwidth \in RateLists /\ d.storm \in RateLists
    BY <2>1 DEF RateLists
  <2> QED BY <2>2 DEF Devices
<1> QED BY <1>1, <1>2, <1>3, <1>4

LEMMA ApplyType ==
    ASSUME NEW s \in Snapshots, NEW d \in Devices, NEW p
    PROVE  ApplyPage(s, p, d) \in Snapshots
<1>1. ApplyVLAN8021Q(s, d) \in Snapshots /\ ApplyVLANPortBased(s, d) \in Snapshots
  BY VlansType DEF ApplyVLAN8021Q, ApplyVLANPortBased, Snapshots
<1>2. /\ [s EXCEPT !.lags = ParseLAG(d)] \in Snapshots
      /\ [s EXCEPT !.mirror = ParsePortMirror(d)] \in Snapshots
      /\ [s EXCEPT !.qos = ParseQoSBasic(d)] \in Snapshots
      /\ [s EXCEPT !.bandwidth = d.bandwidth] \in Snapshots
      /\ [s EXCEPT !.storm = d.storm] \in Snapshots
      /\ [s EXCEPT !.igmp = d.igmp] \in Snapshots
      /\ [s EXCEPT !.loop = d.loop] \in Snapshots
  BY PagesType DEF Snapshots
<1> QED BY <1>1, <1>2 DEF ApplyPage

(* s holds what the first n pages of d say.                                *)
HasRead(s, n, d) ==
    /\ s.vlans = IF n >= 3 THEN ShownOf(d).vlans
                 ELSE IF n = 2 THEN ParseVLAN8021Q(d) ELSE NoVlans
    /\ n >= 1 => s.lags = ParseLAG(d)
    /\ n >= 4 => s.igmp = d.igmp
    /\ n >= 5 => s.qos = ParseQoSBasic(d)
    /\ n >= 6 => s.bandwidth = d.bandwidth
    /\ n >= 7 => s.storm = d.storm
    /\ n >= 8 => s.mirror = ParsePortMirror(d)
    /\ n >= 9 => s.loop = d.loop

LEMMA ReadNothing == ASSUME NEW d PROVE HasRead(Blank, 0, d)
BY DEF HasRead, Blank

LEMMA ReadAll ==
    ASSUME NEW s \in Snapshots, NEW d, HasRead(s, 9, d)
    PROVE  s = ShownOf(d)
BY DEF HasRead, ShownOf, Snapshots

LEMMA Pages ==
    /\ PageOrder[1] = "lags" /\ PageOrder[2] = "vlan-802.1q" /\ PageOrder[3] = "vlan-port"
    /\ PageOrder[4] = "igmp" /\ PageOrder[5] = "qos" /\ PageOrder[6] = "bandwidth"
    /\ PageOrder[7] = "storm" /\ PageOrder[8] = "mirror" /\ PageOrder[9] = "loop"
BY DEF PageOrder

LEMMA ReadOneMore ==
    ASSUME NEW s \in Snapshots, NEW d, NEW n \in 0 .. 8, HasRead(s, n, d)
    PROVE  HasRead(ApplyPage(s, PageOrder[n + 1], d), n + 1, d)
<1>1. ASSUME HasRead(s, 0, d) PROVE HasRead(ApplyPage(s, "lags", d), 1, d)
  BY <1>1 DEF ApplyPage, HasRead, Snapshots
<1>2. ASSUME HasRead(s, 1, d) PROVE HasRead(ApplyPage(s, "vlan-802.1q", d), 2, d)
  BY <1>2 DEF ApplyPage, HasRead, Snapshots, ApplyVLAN8021Q
<1>3. ASSUME HasRead(s, 2, d) PROVE HasRead(ApplyPage(s, "vlan-port", d), 3, d)
  BY <1>3 DEF ApplyPage, HasRead, Snapshots, ApplyVLANPortBased, ShownOf
<1>4. ASSUME HasRead(s, 3, d) PROVE HasRead(ApplyPage(s, "igmp", d), 4, d)
  BY <1>4 DEF ApplyPage, HasRead, Snapshots
<1>5. ASSUME HasRead(s, 4, d) PROVE HasRead(ApplyPage(s, "qos", d), 5, d)
  BY <1>5 DEF ApplyPage, HasRead, Snapshots
<1>6. ASSUME HasRead(s, 5, d) PROVE HasRead(ApplyPage(s, "bandwidth", d), 6, d)
  BY <1>6 DEF ApplyPage, HasRead, Snapshots
<1>7. ASSUME HasRead(s, 6, d) PROVE HasRead(ApplyPage(s, "storm", d), 7, d)
  BY <1>7 DEF ApplyPage, HasRead, Snapshots
<1>8. ASSUME HasRead(s, 7, d) PROVE HasRead(ApplyPage(s, "mirror", d), 8, d)
  BY <1>8 DEF ApplyPage, HasRead, Snapshots
<1>9. ASSUME HasRead(s, 8, d) PROVE HasRead(ApplyPage(s, "loop", d), 9, d)
  BY <1>9 DEF ApplyPage, HasRead, Snapshots
<1>10. n = 0 \/ n = 1 \/ n = 2 \/ n = 3 \/ n = 4 \/ n = 5 \/ n = 6 \/ n = 7 \/ n = 8
  OBVIOUS
<1> QED BY <1>1, <1>2, <1>3, <1>4, <1>5, <1>6, <1>7, <1>8, <1>9, <1>10, Pages

-----------------------------------------------------------------------------
(* What the write actions send.                                            *)

LEMMA EditedType ==
    ASSUME NEW s \in Snapshots
    PROVE  /\ EditedVlans(s.vlans) \subseteq VlanLists
           /\ EditedLags(s.lags) \subseteq SUBSET Groups
           /\ EditedMirror(s.mirror) \subseteq Mirrors
           /\ EditedQos(s.qos) \subseteq QosLists
           /\ EditedStorm(s.storm) \subseteq RateLists
<1>1. EditedVlans(s.vlans) \subseteq VlanLists
  <2>1. s.vlans \in VlanLists
    BY DEF Snapshots
  <2> QED BY <2>1, RowsAssumption DEF EditedVlans, VlanLists
<1>2. EditedLags(s.lags) \subseteq SUBSET Groups
  <2>1. s.lags \subseteq Groups
    BY DEF Snapshots
  <2>2. \A i \in LagIds, t \in Trunks : [id |-> i, ports |-> t] \in Groups
    BY TrunksAssumption DEF Groups
  <2> QED BY <2>1, <2>2 DEF EditedLags
<1>3. EditedMirror(s.mirror) \subseteq Mirrors
  <2>1. s.mirror \in Mirrors \union {Unread}
    BY DEF Snapshots
  <2> DEFINE base == IF s.mirror = Unread
                     THEN [on |-> FALSE, dest |-> 0, mode |-> "", sources |-> {}]
                     ELSE s.mirror
  <2>2. base \in Mirrors
    BY <2>1 DEF Mirrors
  <2>3. EditedMirror(s.mirror) =
            {[base EXCEPT !.on = b] : b \in BOOLEAN}
            \union {[base EXCEPT !.dest = p] : p \in Ports}
            \union {[on |-> base.on, dest |-> base.dest, mode |-> x, sources |-> t] :
                        x \in MirrorModes, t \in Trunks}
    BY DEF EditedMirror
  <2> HIDE DEF base
  <2>4. \A b \in BOOLEAN : [base EXCEPT !.on = b] \in Mirrors
    BY <2>2 DEF Mirrors
  <2>5. \A p \in Ports : [base EXCEPT !.dest = p] \in Mirrors
    BY <2>2 DEF Mirrors
  <2>6. \A x \in MirrorModes, t \in Trunks :
            [on |-> base.on, dest |-> base.dest, mode |-> x, sources |-> t] \in Mirrors
    BY <2>2, TrunksAssumption DEF Mirrors
  <2> QED BY <2>3, <2>4, <2>5, <2>6
<1>4. EditedQos(s.qos) \subseteq QosLists
  <2>1. s.qos \in QosLists \union {Unread}
    BY DEF Snapshots
  <2> DEFINE base == IF s.qos = Unread THEN [mode |-> "", pri |-> NoRates] ELSE s.qos
  <2>2. base \in QosLists
    BY <2>1 DEF QosLists, NoRates
  <2>3. EditedQos(s.qos) = {[base EXCEPT !.mode = x] : x \in QosModes}
                          \union {[base EXCEPT !.pri[p] = n] : p \in Ports, n \in Priorities}
    BY DEF EditedQos
  <2> HIDE DEF base
  <2>4. \A x \in QosModes : [base EXCEPT !.mode = x] \in QosLists
    BY <2>2 DEF QosLists
  <2>5. \A p \in Ports, n \in Priorities : [base EXCEPT !.pri[p] = n] \in QosLists
    BY <2>2 DEF QosLists
  <2> QED BY <2>3, <2>4, <2>5
<1>5. EditedStorm(s.storm) \subseteq RateLists
  <2>1. s.storm \in RateLists
    BY DEF Snapshots
  <2> QED BY <2>1 DEF EditedStorm, RateLists
<1> QED BY <1>1, <1>2, <1>3, <1>4, <1>5

LEMMA SetType ==
    ASSUME NEW d \in Devices
    PROVE  /\ \A l \in VlanLists : SetVLANs(d, l) \in Devices
           /\ \A l \in SUBSET Groups : SetLAG(d, l) \in Devices
           /\ \A m \in Mirrors : SetPortMirror(d, m) \in Devices
           /\ \A q \in QosLists : SetQoS(d, q) \in Devices
           /\ \A l \in RateLists : SetStormControl(d, l) \in Devices
           /\ \A b \in BOOLEAN : SetIGMP(d, b) \in Devices
           /\ \A b \in BOOLEAN : SetLoopPrevention(d, b) \in Devices
<1>1. ASSUME NEW l \in VlanLists PROVE SetVLANs(d, l) \in Devices
  <2>1. [v \in Vids |-> IF l[v] = None THEN None
                        ELSE [tag |-> PortsWith(l[v], "tagged"),
                              untag |-> PortsWith(l[v], "untagged")]]
            \in [Vids -> [tag : SUBSET Ports, untag : SUBSET Ports] \union {None}]
    BY DEF PortsWith
  <2> QED BY <2>1 DEF SetVLANs, Devices
<1>2. ASSUME NEW l \in SUBSET Groups PROVE SetLAG(d, l) \in Devices
  <2>1. \A g \in l : g.ports \in SUBSET Ports
    BY DEF Groups
  <2>2. \A i \in {1, 2} :
            UNION {g.ports : g \in {h \in l : (h.id = 2) <=> (i = 2)}} \in SUBSET Ports
    BY <2>1
  <2>3. [i \in {1, 2} |-> UNION {g.ports : g \in {h \in l : (h.id = 2) <=> (i = 2)}}]
            \in [{1, 2} -> SUBSET Ports]
    BY <2>2
  <2> QED BY <2>3 DEF SetLAG, Devices
<1>3. ASSUME NEW m \in Mirrors PROVE SetPortMirror(d, m) \in Devices
  BY DEF SetPortMirror, Mirrors, Devices
<1>4. \A x \in Priorities \union {None} : Or(x, 1) \in Priorities
  BY PrioritiesAssumption DEF Or
<1>5. ASSUME NEW q \in QosLists PROVE SetQoS(d, q) \in Devices
  <2>1. [p \in Ports |-> Or(q.pri[p], 1)] \in [Ports -> Priorities]
    BY <1>4 DEF QosLists
  <2> QED BY <2>1 DEF SetQoS, Devices
<1>6. ASSUME NEW l \in RateLists PROVE SetStormControl(d, l) \in Devices
  <2>1. \A p \in Ports : l[p] \in Rates \union {None}
    BY DEF RateLists
  <2>2. [p \in Ports |-> Or(l[p], 0)] \in [Ports -> Rates]
    BY <2>1, RatesAssumption DEF Or
  <2> QED BY <2>2 DEF SetStormControl, Devices
<1>7. ASSUME NEW b \in BOOLEAN
      PROVE  SetIGMP(d, b) \in Devices /\ SetLoopPrevention(d, b) \in Devices
  BY DEF SetIGMP, SetLoopPrevention, Devices, Snoopings
<1> QED BY <1>1, <1>2, <1>3, <1>5, <1>6, <1>7

LEMMA AskedType ==
    ASSUME NEW c \in Cats, NEW s \in Snapshots, NEW d \in Devices
    PROVE  Asked(c, s, d) \subseteq Devices
<1>1. {SetVLANs(d, l) : l \in EditedVlans(s.vlans)} \subseteq Devices
  BY EditedType, SetType
<1>2. {SetLAG(d, l) : l \in EditedLags(s.lags)} \subseteq Devices
  BY EditedType, SetType
<1>3. {SetPortMirror(d, m) : m \in EditedMirror(s.mirror)} \subseteq Devices
  BY EditedType, SetType
<1>4. {SetQoS(d, q) : q \in EditedQos(s.qos)} \subseteq Devices
  BY EditedType, SetType
<1>5. {SetStormControl(d, l) : l \in EditedStorm(s.storm)} \subseteq Devices
  BY EditedType, SetType
<1>6. /\ {SetIGMP(d, b) : b \in BOOLEAN} \subseteq Devices
      /\ {SetLoopPrevention(d, b) : b \in BOOLEAN} \subseteq Devices
  BY SetType
<1> QED BY <1>1, <1>2, <1>3, <1>4, <1>5, <1>6 DEF Asked

-----------------------------------------------------------------------------
(* Types.                                                                  *)

LEMMA ViewType ==
    ASSUME NEW s \in Snapshots, NEW l \in Cats
    PROVE  [Blank EXCEPT ![l] = s[l]] \in Snapshots
<1>1. CASE l = "vlans"
  BY <1>1, BlankType DEF Snapshots
<1>2. CASE l = "lags"
  BY <1>2, BlankType DEF Snapshots
<1>3. CASE l = "mirror"
  BY <1>3, BlankType DEF Snapshots
<1>4. CASE l = "qos"
  BY <1>4, BlankType DEF Snapshots
<1>5. CASE l = "storm"
  BY <1>5, BlankType DEF Snapshots
<1>6. CASE l = "igmp"
  BY <1>6, BlankType DEF Snapshots
<1>7. CASE l = "loop"
  BY <1>7, BlankType DEF Snapshots
<1> QED BY <1>1, <1>2, <1>3, <1>4, <1>5, <1>6, <1>7 DEF Cats

ClientOK == cat \in [Clients -> Cats \union {None}] /\ view \in [Clients -> Snapshots]
CollOK == /\ page \in [Collectors -> (0 .. Saving) \union {None}]
          /\ own \subseteq Collectors
          /\ draft \in [Collectors -> Snapshots]
          /\ calm \subseteq Collectors
SwitchOK == /\ dev \in Devices /\ changes \in 0 .. MaxChanges /\ session \in BOOLEAN
            /\ right \subseteq {"memory", "stored"}
KeptOK == memory \in Snapshots \union {None} /\ stored \in Snapshots \union {None}

LEMMA TypeParts == TypeOK <=> ClientOK /\ CollOK /\ SwitchOK /\ KeptOK
BY DEF TypeOK, ClientOK, CollOK, SwitchOK, KeptOK

LEMMA TypeInit == Init => TypeOK
<1> SUFFICES ASSUME Init PROVE TypeOK
  OBVIOUS
<1>1. ClientOK
  BY BlankType DEF Init, ClientOK
<1>2. CollOK
  BY BlankType DEF Init, CollOK
<1>3. SwitchOK /\ KeptOK
  BY FirstDevicesAssumption, MaxChangesAssumption DEF Init, SwitchOK, KeptOK
<1> QED BY <1>1, <1>2, <1>3, TypeParts

LEMMA TypeNext == TypeOK /\ [Next]_vars => TypeOK'
<1> SUFFICES ASSUME TypeOK, [Next]_vars PROVE TypeOK'
  OBVIOUS
<1> USE DEF collVars, clientVars
<1>0. ClientOK /\ CollOK /\ SwitchOK /\ KeptOK
  BY TypeParts
<1>1. ASSUME NEW d \in Devices, BecomesSet(d) PROVE SwitchOK' \/ session' # session
  BY <1>0, <1>1, MaxChangesAssumption DEF BecomesSet, SwitchOK
<1>2. ASSUME NEW c \in Clients, GetSnapshot(c) PROVE TypeOK'
  <2>1. PICK l \in EditedCats :
            /\ cat' = [cat EXCEPT ![c] = l]
            /\ view' = [view EXCEPT ![c] = [Blank EXCEPT ![l] = stored[l]]]
    BY <1>2 DEF GetSnapshot
  <2>2. /\ stored \in Snapshots
        /\ UNCHANGED <<dev, changes, session, memory, stored, collVars, right, calm>>
    BY <1>0, <1>2 DEF GetSnapshot, KeptOK
  <2>3. l \in Cats
    BY EditedCatsAssumption
  <2>4. [Blank EXCEPT ![l] = stored[l]] \in Snapshots
    BY <2>2, <2>3, ViewType
  <2>5. ClientOK'
    BY <1>0, <2>1, <2>3, <2>4 DEF ClientOK
  <2>6. CollOK' /\ SwitchOK' /\ KeptOK'
    BY <1>0, <2>2 DEF CollOK, SwitchOK, KeptOK
  <2> QED BY <2>5, <2>6, TypeParts DEF TypeOK, ClientOK, CollOK, SwitchOK, KeptOK
<1>3. ASSUME NEW c \in Clients, Answered(c)
      PROVE  ClientOK' /\ KeptOK' /\ UNCHANGED <<session, page, own, draft>>
  BY <1>0, <1>3, BlankType DEF Answered, ClientOK, KeptOK
<1>4. ASSUME NEW c \in Clients, PatchTaken(c) PROVE TypeOK'
  <2>1. PICK d \in Asked(cat[c], view[c], dev) : BecomesSet(d)
    BY <1>4 DEF PatchTaken
  <2>2. cat[c] \in Cats /\ view[c] \in Snapshots /\ dev \in Devices
    BY <1>0, <1>4 DEF PatchTaken, ClientOK, SwitchOK
  <2>3. d \in Devices
    BY <2>2, AskedType
  <2>4. Answered(c)
    BY <1>4 DEF PatchTaken
  <2>5. SwitchOK'
    BY <1>1, <1>3, <2>1, <2>3, <2>4
  <2>6. CollOK'
    BY <1>0, <1>3, <2>1, <2>4 DEF CollOK, BecomesSet
  <2> QED BY <1>3, <2>4, <2>5, <2>6 DEF TypeOK, ClientOK, CollOK, SwitchOK, KeptOK
<1>5. ASSUME NEW c \in Clients, PatchNotTaken(c) PROVE TypeOK'
  BY <1>0, <1>3, <1>5 DEF PatchNotTaken, TypeOK, ClientOK, CollOK, SwitchOK, KeptOK
<1>6. CASE OwnPage
  <2>1. PICK d \in FirstDevices, f \in DOMAIN dev : BecomesSet([dev EXCEPT ![f] = d[f]])
    BY <1>6 DEF OwnPage
  <2>2. d \in Devices /\ dev \in Devices
    BY <1>0, FirstDevicesAssumption DEF SwitchOK
  <2>3. f \in {"dot1q", "pvlans", "lags", "mirror", "qos", "bandwidth", "storm", "igmp", "loop"}
    BY <2>2 DEF Devices
  <2>4. [dev EXCEPT ![f] = d[f]] \in Devices
    <3>1. CASE f = "dot1q"
      BY <2>2, <3>1 DEF Devices
    <3>2. CASE f = "pvlans"
      BY <2>2, <3>2 DEF Devices
    <3>3. CASE f = "lags"
      BY <2>2, <3>3 DEF Devices
    <3>4. CASE f = "mirror"
      BY <2>2, <3>4 DEF Devices
    <3>5. CASE f = "qos"
      BY <2>2, <3>5 DEF Devices
    <3>6. CASE f = "bandwidth"
      BY <2>2, <3>6 DEF Devices
    <3>7. CASE f = "storm"
      BY <2>2, <3>7 DEF Devices
    <3>8. CASE f = "igmp"
      BY <2>2, <3>8 DEF Devices
    <3>9. CASE f = "loop"
      BY <2>2, <3>9 DEF Devices
    <3> QED BY <2>3, <3>1, <3>2, <3>3, <3>4, <3>5, <3>6, <3>7, <3>8, <3>9
  <2>5. UNCHANGED <<session, memory, stored, clientVars, collVars>> /\ calm' = {}
    BY <1>6, <2>1 DEF OwnPage, BecomesSet
  <2>6. SwitchOK'
    BY <1>1, <2>1, <2>4, <2>5
  <2> QED BY <1>0, <2>5, <2>6 DEF TypeOK, ClientOK, CollOK, SwitchOK, KeptOK
<1>7. ASSUME NEW c \in Collectors, CollectNow(c) \/ CollectFull(c) PROVE TypeOK'
  <2>1. Begin(c) /\ own' \in {own, own \union {c}}
    BY <1>7 DEF CollectNow, CollectFull
  <2>2. page' \in [Collectors -> (0 .. Saving) \union {None}]
    BY <1>0, <2>1 DEF Begin, CollOK, Saving
  <2>3. CollOK'
    BY <1>0, <2>1, <2>2 DEF Begin, CollOK
  <2> QED BY <1>0, <2>1, <2>3 DEF Begin, TypeOK, ClientOK, CollOK, SwitchOK, KeptOK
<1>8. ASSUME NEW c \in Collectors, ReadPage(c) PROVE TypeOK'
  <2>1. ApplyPage(draft[c], PageOrder[page[c] + 1], dev) \in Snapshots
    BY <1>0, ApplyType DEF CollOK, SwitchOK
  <2>2. page[c] + 1 \in 0 .. Saving
    BY <1>8 DEF ReadPage, Last, Saving
  <2>3. CollOK'
    BY <1>0, <1>8, <2>1, <2>2 DEF ReadPage, CollOK
  <2> QED BY <1>0, <1>8, <2>3 DEF ReadPage, TypeOK, ClientOK, CollOK, SwitchOK, KeptOK
<1>9. ASSUME NEW c \in Collectors, SkipPage(c) PROVE TypeOK'
  <2>1. page[c] + 1 \in 0 .. Saving
    BY <1>9 DEF SkipPage, Last, Saving
  <2>2. CollOK'
    BY <1>0, <1>9, <2>1 DEF SkipPage, CollOK
  <2> QED BY <1>0, <1>9, <2>2 DEF SkipPage, TypeOK, ClientOK, CollOK, SwitchOK, KeptOK
<1>10. ASSUME NEW c \in Collectors, EndCollect(c) PROVE CollOK'
  BY <1>0, <1>10, BlankType DEF EndCollect, CollOK
<1>11. ASSUME NEW c \in Collectors, TimesOut(c) \/ UpsertFails(c) PROVE TypeOK'
  BY <1>0, <1>10, <1>11 DEF TimesOut, UpsertFails, TypeOK, ClientOK, CollOK, SwitchOK, KeptOK
<1>12. \A c : /\ Judged("memory", c) \subseteq {"memory", "stored"}
              /\ Judged("stored", c) \subseteq {"memory", "stored"}
  BY <1>0 DEF Judged, SwitchOK
<1>13. ASSUME NEW c \in Collectors, Publish(c) PROVE TypeOK'
  <2>1. SwitchOK' /\ ClientOK'
    BY <1>0, <1>12, <1>13 DEF Publish, SwitchOK, ClientOK
  <2>2. CollOK' /\ KeptOK'
    BY <1>0, <1>13 DEF Publish, CollOK, KeptOK, Saving
  <2> QED BY <2>1, <2>2 DEF TypeOK, ClientOK, CollOK, SwitchOK, KeptOK
<1>14. ASSUME NEW c \in Collectors, CollectStats(c) PROVE TypeOK'
  <2>1. memory \in Snapshots
    BY <1>0, <1>14 DEF CollectStats, KeptOK
  <2>2. CollOK'
    BY <1>0, <1>14, <2>1 DEF CollectStats, CollOK, Saving
  <2> QED BY <1>0, <1>14, <2>2 DEF CollectStats, TypeOK, ClientOK, CollOK, SwitchOK, KeptOK
<1>15. ASSUME NEW c \in Collectors, UpsertSnapshot(c) PROVE TypeOK'
  <2>1. CollOK'
    BY <1>10, <1>15 DEF UpsertSnapshot
  <2>2. SwitchOK' /\ ClientOK' /\ KeptOK'
    BY <1>0, <1>12, <1>15 DEF UpsertSnapshot, SwitchOK, ClientOK, KeptOK, CollOK
  <2> QED BY <2>1, <2>2 DEF TypeOK, ClientOK, CollOK, SwitchOK, KeptOK
<1>16. CASE Reboot
  BY <1>0, <1>16 DEF Reboot, TypeOK, ClientOK, CollOK, SwitchOK, KeptOK
<1>17. CASE Restart
  <2>1. CollOK'
    BY <1>17, BlankType DEF Restart, CollOK
  <2> QED BY <1>0, <1>17, <2>1 DEF Restart, TypeOK, ClientOK, CollOK, SwitchOK, KeptOK
<1>18. CASE UNCHANGED vars
  BY <1>0, <1>18 DEF vars, TypeOK, ClientOK, CollOK, SwitchOK, KeptOK
<1> QED BY <1>2, <1>4, <1>5, <1>6, <1>7, <1>8, <1>9, <1>11, <1>13, <1>14, <1>15, <1>16,
           <1>17, <1>18 DEF Next

(* Every variable keeps its type: what parsers make of a page is a         *)
(* snapshot, and whatever a client makes of one and the handlers send, the *)
(* switch can be set to (parsers, PatchVLANs ... PatchLAG, actions.go).    *)
THEOREM TypeCorrect == Spec => []TypeOK
BY TypeInit, TypeNext, PTL DEF Spec

-----------------------------------------------------------------------------
(* Snapshots and the switch.                                               *)

(* An idle collector has nothing; one that reads undisturbed has what its  *)
(* pages say; one that saves undisturbed has all of it.                    *)
ReadingInv ==
    \A c \in Collectors :
        /\ page[c] = None => draft[c] = Blank /\ c \notin calm
        /\ c \in calm /\ page[c] \in 0 .. Last => HasRead(draft[c], page[c], dev)
        /\ c \in calm /\ page[c] = Saving => draft[c] = ShownOf(dev)
CurrentInv == ReadingInv /\ RightIsCurrent

LEMMA CurrentInit == Init => CurrentInv
BY DEF Init, CurrentInv, ReadingInv, RightIsCurrent

(* After a change of the switch nothing is said to be right.               *)
LEMMA ChangeKeeps ==
    ASSUME CurrentInv, NEW d, BecomesSet(d), UNCHANGED <<page, draft>>
    PROVE  CurrentInv'
BY DEF BecomesSet, CurrentInv, ReadingInv, RightIsCurrent

LEMMA PageFacts ==
    ASSUME TypeOK, NEW c \in Collectors
    PROVE  /\ page[c] \in 0 .. Last \/ page[c] = Saving \/ page[c] = None
           /\ page[c] = Saving => page[c] \notin 0 .. Last /\ page[c] # None
           /\ page[c] \in 0 .. Last => page[c] # None
<1>1. None \notin Nat
  BY NoneAssumption
<1>2. page[c] \in (0 .. Saving) \union {None}
  BY DEF TypeOK
<1> QED BY <1>1, <1>2 DEF Last, Saving

LEMMA CurrentNext == TypeOK /\ CurrentInv /\ [Next]_vars => CurrentInv'
<1> SUFFICES ASSUME TypeOK, CurrentInv, [Next]_vars PROVE CurrentInv'
  OBVIOUS
<1> USE DEF collVars, clientVars
<1>0. ReadingInv /\ RightIsCurrent
  BY DEF CurrentInv
<1>1. /\ page \in [Collectors -> (0 .. Saving) \union {None}]
      /\ draft \in [Collectors -> Snapshots] /\ calm \subseteq Collectors
      /\ None \notin Nat
  BY NoneAssumption DEF TypeOK
<1>2. ASSUME UNCHANGED <<page, draft, calm, dev>> PROVE ReadingInv'
  BY <1>0, <1>2 DEF ReadingInv, HasRead
<1>3. ASSUME UNCHANGED <<dev, memory, stored, right>> PROVE RightIsCurrent'
  BY <1>0, <1>3 DEF RightIsCurrent
(* One collector goes on.                                                  *)
<1>4. ASSUME NEW c \in Collectors, UNCHANGED dev,
             \A k \in Collectors \ {c} :
                 page'[k] = page[k] /\ draft'[k] = draft[k] /\ (k \in calm' <=> k \in calm),
             page'[c] = None => draft'[c] = Blank /\ c \notin calm',
             c \in calm' /\ page'[c] \in 0 .. Last => HasRead(draft'[c], page'[c], dev),
             c \in calm' /\ page'[c] = Saving => draft'[c] = ShownOf(dev)
      PROVE  ReadingInv'
  BY <1>0, <1>4 DEF ReadingInv, HasRead
<1>5. ASSUME NEW c \in Collectors, EndCollect(c), UNCHANGED dev PROVE ReadingInv'
  <2>1. page'[c] = None /\ draft'[c] = Blank /\ c \notin calm'
    BY <1>1, <1>5 DEF EndCollect
  <2>2. None \notin 0 .. Last /\ None # Saving
    BY <1>1 DEF Last, Saving
  <2>3. \A k \in Collectors \ {c} :
            page'[k] = page[k] /\ draft'[k] = draft[k] /\ (k \in calm' <=> k \in calm)
    BY <1>1, <1>5 DEF EndCollect
  <2> QED BY <1>4, <1>5, <2>1, <2>2, <2>3
<1>6. ASSUME NEW c \in Clients, GetSnapshot(c) \/ PatchNotTaken(c) PROVE CurrentInv'
  BY <1>2, <1>3, <1>6 DEF GetSnapshot, PatchNotTaken, Answered, CurrentInv
<1>7. ASSUME NEW c \in Clients, PatchTaken(c) PROVE CurrentInv'
  <2>1. PICK d \in Asked(cat[c], view[c], dev) : BecomesSet(d)
    BY <1>7 DEF PatchTaken
  <2> QED BY <1>7, <2>1, ChangeKeeps DEF PatchTaken, Answered
<1>8. CASE OwnPage
  <2>1. PICK d \in FirstDevices, f \in DOMAIN dev : BecomesSet([dev EXCEPT ![f] = d[f]])
    BY <1>8 DEF OwnPage
  <2> QED BY <1>8, <2>1, ChangeKeeps DEF OwnPage
<1>9. ASSUME NEW c \in Collectors, CollectNow(c) \/ CollectFull(c) PROVE CurrentInv'
  <2>1. Begin(c)
    BY <1>9 DEF CollectNow, CollectFull
  <2>2. page'[c] = 0 /\ draft'[c] = Blank /\ 0 # Saving /\ 0 # None
    BY <1>0, <1>1, <2>1 DEF Begin, ReadingInv, Saving
  <2>3. \A k \in Collectors \ {c} :
            page'[k] = page[k] /\ draft'[k] = draft[k] /\ (k \in calm' <=> k \in calm)
    BY <1>1, <2>1 DEF Begin
  <2>4. ReadingInv'
    BY <1>4, <2>1, <2>2, <2>3, ReadNothing DEF Begin
  <2> QED BY <1>3, <2>1, <2>4 DEF Begin, CurrentInv
<1>10. ASSUME NEW c \in Collectors, ReadPage(c) PROVE CurrentInv'
  <2>1. /\ page[c] \in 0 .. 8 /\ page'[c] = page[c] + 1
        /\ draft'[c] = ApplyPage(draft[c], PageOrder[page[c] + 1], dev)
        /\ UNCHANGED <<dev, memory, stored, right, calm>>
    BY <1>1, <1>10 DEF ReadPage, Last
  <2>2. page[c] \in 0 .. Last /\ page'[c] # None /\ page'[c] # Saving
    BY <1>1, <2>1 DEF Last, Saving
  <2>3. c \in calm => HasRead(draft[c], page[c], dev)
    BY <1>0, <2>2 DEF ReadingInv
  <2>4. c \in calm => HasRead(draft'[c], page'[c], dev)
    BY <1>1, <2>1, <2>3, ReadOneMore
  <2>5. \A k \in Collectors \ {c} : page'[k] = page[k] /\ draft'[k] = draft[k]
    BY <1>1, <1>10 DEF ReadPage
  <2>6. ReadingInv'
    BY <1>4, <2>1, <2>2, <2>4, <2>5
  <2> QED BY <1>3, <2>1, <2>6 DEF CurrentInv
<1>11. ASSUME NEW c \in Collectors, SkipPage(c) PROVE CurrentInv'
  <2>1. /\ page[c] \in 0 .. 8 /\ page'[c] = page[c] + 1 /\ c \notin calm'
        /\ UNCHANGED <<dev, memory, stored, right, draft>>
    BY <1>1, <1>11 DEF SkipPage, Last
  <2>2. page'[c] # None
    BY <1>1, <2>1
  <2>3. \A k \in Collectors \ {c} : page'[k] = page[k] /\ (k \in calm' <=> k \in calm)
    BY <1>1, <1>11 DEF SkipPage
  <2>4. ReadingInv'
    BY <1>4, <2>1, <2>2, <2>3
  <2> QED BY <1>3, <2>1, <2>4 DEF CurrentInv
<1>12. ASSUME NEW c \in Collectors, TimesOut(c) \/ UpsertFails(c) PROVE CurrentInv'
  BY <1>3, <1>5, <1>12 DEF TimesOut, UpsertFails, CurrentInv
<1>13. ASSUME NEW c \in Collectors, Publish(c) PROVE CurrentInv'
  <2>1. /\ page[c] = 9 /\ page[c] \in 0 .. Last /\ page'[c] = Saving
        /\ memory' = draft[c] /\ right' = Judged("memory", c)
        /\ UNCHANGED <<dev, stored, draft, calm>>
    BY <1>1, <1>13 DEF Publish, Last
  <2>2. Saving # None /\ Saving \notin 0 .. Last
    BY <1>1 DEF Saving, Last
  <2>3. c \in calm => draft[c] = ShownOf(dev)
    BY <1>0, <1>1, <2>1, ReadAll DEF ReadingInv
  <2>4. \A k \in Collectors \ {c} : page'[k] = page[k]
    BY <1>1, <1>13 DEF Publish
  <2>5. ReadingInv'
    BY <1>4, <2>1, <2>2, <2>3, <2>4
  <2>6. RightIsCurrent'
    BY <1>0, <2>1, <2>3 DEF RightIsCurrent, Judged
  <2> QED BY <2>5, <2>6 DEF CurrentInv
<1>14. ASSUME NEW c \in Collectors, CollectStats(c) PROVE CurrentInv'
  <2>1. /\ page'[c] = Saving /\ draft'[c] = memory /\ c \notin calm
        /\ calm' = (IF "memory" \in right THEN calm \union {c} ELSE calm)
        /\ UNCHANGED <<dev, memory, stored, right>>
    BY <1>0, <1>1, <1>14 DEF CollectStats, ReadingInv
  <2>2. Saving # None /\ Saving \notin 0 .. Last
    BY <1>1 DEF Saving, Last
  <2>3. c \in calm' => draft'[c] = ShownOf(dev)
    BY <1>0, <2>1 DEF RightIsCurrent
  <2>4. \A k \in Collectors \ {c} :
            page'[k] = page[k] /\ draft'[k] = draft[k] /\ (k \in calm' <=> k \in calm)
    BY <1>1, <1>14 DEF CollectStats
  <2>5. ReadingInv'
    BY <1>4, <2>1, <2>2, <2>3, <2>4
  <2> QED BY <1>3, <2>1, <2>5 DEF CurrentInv
<1>15. ASSUME NEW c \in Collectors, UpsertSnapshot(c) PROVE CurrentInv'
  <2>1. /\ page[c] = Saving /\ stored' = draft[c] /\ right' = Judged("stored", c)
        /\ UNCHANGED <<dev, memory>>
    BY <1>15 DEF UpsertSnapshot
  <2>2. c \in calm => draft[c] = ShownOf(dev)
    BY <1>0, <2>1 DEF ReadingInv
  <2>3. RightIsCurrent'
    BY <1>0, <2>1, <2>2 DEF RightIsCurrent, Judged
  <2> QED BY <1>5, <1>15, <2>3 DEF UpsertSnapshot, CurrentInv
<1>16. CASE Reboot
  BY <1>2, <1>3, <1>16 DEF Reboot, CurrentInv
<1>17. CASE Restart
  <2>1. ReadingInv'
    BY <1>17 DEF Restart, ReadingInv
  <2>2. RightIsCurrent'
    BY <1>0, <1>17 DEF Restart, RightIsCurrent
  <2> QED BY <2>1, <2>2 DEF CurrentInv
<1>18. CASE UNCHANGED vars
  BY <1>2, <1>3, <1>18 DEF vars, CurrentInv
<1> QED BY <1>6, <1>7, <1>8, <1>9, <1>10, <1>11, <1>12, <1>13, <1>14, <1>15, <1>16,
           <1>17, <1>18 DEF Next

(* A snapshot collected without a missing page or a change of the switch   *)
(* meanwhile shows the switch as it is set, in memory and in SQLite, until *)
(* the next change (GetSnapshot, collectFull, collectStats,                *)
(* UpsertSnapshot).                                                        *)
THEOREM SnapshotsAreCurrent == Spec => []RightIsCurrent
<1>1. CurrentInv => RightIsCurrent
  BY DEF CurrentInv
<1> QED BY <1>1, TypeInit, TypeNext, CurrentInit, CurrentNext, PTL DEF Spec

-----------------------------------------------------------------------------
(* Metrics.                                                                *)

LEMMA ShownType == ASSUME NEW d \in Devices PROVE ShownOf(d) \in Snapshots
BY VlansType, PagesType DEF ShownOf, Snapshots

(* As many groups as trunks in use.                                        *)
LEMMA GroupsPerTrunk ==
    ASSUME NEW d
    PROVE  Cardinality(ParseLAG(d)) = Cardinality(Trunked(d))
<1> DEFINE T == Trunked(d)
           f == [i \in T |-> [id |-> i, ports |-> d.lags[i]]]
<1>1. IsFiniteSet(T)
  <2>1. IsFiniteSet({1})
    BY FS_Singleton
  <2>2. IsFiniteSet({1} \union {2})
    BY <2>1, FS_AddElement
  <2>3. {1, 2} = {1} \union {2}
    OBVIOUS
  <2> QED BY <2>2, <2>3, FS_Subset DEF Trunked
<1>2. ParseLAG(d) = {[id |-> i, ports |-> d.lags[i]] : i \in T}
  BY DEF ParseLAG, Trunked
<1>3. f \in Bijection(T, ParseLAG(d))
  <2>1. \A i, j \in T : f[i] = f[j] => i = j
    OBVIOUS
  <2>2. \A i \in T : f[i] \in ParseLAG(d)
    BY <1>2
  <2>3. \A g \in ParseLAG(d) : \E i \in T : f[i] = g
    BY <1>2
  <2> HIDE DEF f, T
  <2>4. f \in [T -> ParseLAG(d)]
    BY <2>2 DEF f
  <2> QED BY <2>1, <2>3, <2>4, Fun_IsBij
<1>4. ExistsBijection(T, ParseLAG(d))
  BY <1>3 DEF ExistsBijection
<1> QED BY <1>1, <1>4, FS_Bijection

(* What a scrape says of the snapshot in memory is so on the switch if     *)
(* that was read in full since the last change (emitSwitch, Collect).      *)
THEOREM ScrapesAreCurrent == Spec => []MetricsAreCurrent
<1>1. TypeOK /\ CurrentInv => MetricsAreCurrent
  <2> SUFFICES ASSUME TypeOK, CurrentInv, "memory" \in right PROVE MetricsAreCurrent
    BY DEF MetricsAreCurrent
  <2>1. memory = ShownOf(dev) /\ dev \in Devices
    BY DEF CurrentInv, RightIsCurrent, TypeOK
  <2>2. memory # None
    BY <2>1, ShownType, NoneAssumption
  <2>3. dev.igmp # Unread
    BY <2>1, PagesType, UnreadAssumption
  <2>4. \A v \in Vids : ParseVLAN8021Q(dev)[v] # None <=> v \in Vlans(dev)
    <3>1. \A v \in Vids : [p \in Ports |-> Mode8021Q(dev.dot1q[v], p)] # None
      <4>1. \A v \in Vids : [p \in Ports |-> Mode8021Q(dev.dot1q[v], p)]
                                 \in [Ports -> Memberships]
        BY DEF Mode8021Q, Memberships
      <4> QED BY <4>1, NoneAssumption
    <3> QED BY <3>1 DEF ParseVLAN8021Q, Vlans
  <2>5. ASSUME Vlans(dev) # {} PROVE SizeOf(memory.vlans) = Cardinality(Vlans(dev))
    <3>1. ParseVLAN8021Q(dev) # NoVlans
      BY <2>4, <2>5 DEF NoVlans, Vlans
    <3>2. memory.vlans = ParseVLAN8021Q(dev)
      BY <2>1, <3>1 DEF ShownOf
    <3>3. {v \in Vids : memory.vlans[v] # None} = Vlans(dev)
      BY <2>4, <3>2 DEF Vlans
    <3> QED BY <3>3 DEF SizeOf
  <2>6. Cardinality(memory.lags) = Cardinality(Trunked(dev))
    BY <2>1, GroupsPerTrunk DEF ShownOf
  <2>7. memory.igmp = dev.igmp /\ memory.qos # Unread
    BY <2>1, PagesType, UnreadAssumption DEF ShownOf
  <2>8. /\ EmitSwitch(memory).up = 1
        /\ EmitSwitch(memory).vlanCount = SizeOf(memory.vlans)
        /\ EmitSwitch(memory).lagCount = Cardinality(memory.lags)
        /\ EmitSwitch(memory).loopPrevention = memory.loop
        /\ EmitSwitch(memory).igmpEnabled = dev.igmp.on
        /\ EmitSwitch(memory).qosPriority = memory.qos.pri
        /\ EmitSwitch(memory).storm = memory.storm
        /\ EmitSwitch(memory).bandwidth = memory.bandwidth
    BY <2>2, <2>3, <2>7 DEF EmitSwitch
  <2>9. /\ memory.loop = dev.loop /\ memory.qos.pri = dev.qos.pri
        /\ memory.storm = dev.storm /\ memory.bandwidth = dev.bandwidth
    BY <2>1 DEF ShownOf, ParseQoSBasic
  <2> QED BY <2>5, <2>6, <2>8, <2>9 DEF MetricsAreCurrent
<1> QED BY <1>1, TypeInit, TypeNext, CurrentInit, CurrentNext, PTL DEF Spec

-----------------------------------------------------------------------------
(* Reading a list and writing it.                                          *)

(* Two settings that are equal but for some lists.                         *)
LEMMA SameLists ==
    ASSUME NEW d \in Devices, NEW e, NEW x \in Differences(d, e)
    PROVE  \/ \E v \in Vids : x = <<"vlan", v>> /\ d.dot1q[v] # e.dot1q[v]
           \/ d.pvlans # e.pvlans \/ d.bandwidth # e.bandwidth
           \/ \E i \in {1, 2} : x = <<"lag", i>> /\ d.lags[i] # e.lags[i]
           \/ \E p \in Ports : x = <<"priority", p>> /\ d.qos.pri[p] # e.qos.pri[p]
           \/ \E p \in Ports : x = <<"storm", p>> /\ d.storm[p] # e.storm[p]
           \/ x = <<"qos mode", 0>> /\ d.qos.code # e.qos.code
           \/ x = <<"mirror on", 0>> /\ d.mirror.on # e.mirror.on
           \/ x = <<"mirror port", 0>> /\ d.mirror.dest # e.mirror.dest
           \/ /\ x = <<"mirror sources", 0>>
              /\ \/ d.mirror.code # e.mirror.code
                 \/ d.mirror.ingress # e.mirror.ingress
                 \/ d.mirror.egress # e.mirror.egress
           \/ x = <<"igmp", 0>> /\ d.igmp # e.igmp
           \/ x = <<"loop", 0>> /\ d.loop # e.loop
BY DEF Differences

LEMMA NoValue == None \notin Priorities /\ None \notin Rates
BY NoneAssumption, PrioritiesAssumption, RatesAssumption

(* One VLAN changes.                                                       *)
LEMMA VlansRoundTrip ==
    ASSUME NEW d \in Devices, PlainVlans(d), NEW l \in EditedVlans(ParseVLAN8021Q(d)),
           NEW x \in Differences(d, SetVLANs(d, l)), NEW y \in Differences(d, SetVLANs(d, l))
    PROVE  x = y
<1> DEFINE e == SetVLANs(d, l)
<1>1. PICK u \in Vids, m \in Rows \union {None} : l = [ParseVLAN8021Q(d) EXCEPT ![u] = m]
  BY DEF EditedVlans
<1>2. ASSUME NEW v \in Vids, v # u PROVE e.dot1q[v] = d.dot1q[v]
  <2>1. l[v] = IF d.dot1q[v] = None THEN None
               ELSE [p \in Ports |-> Mode8021Q(d.dot1q[v], p)]
    BY <1>1, <1>2 DEF ParseVLAN8021Q
  <2>2. e.dot1q[v] = IF l[v] = None THEN None
                     ELSE [tag |-> PortsWith(l[v], "tagged"),
                           untag |-> PortsWith(l[v], "untagged")]
    BY DEF SetVLANs, Devices
  <2>3. CASE d.dot1q[v] = None
    BY <2>1, <2>2, <2>3
  <2>4. CASE d.dot1q[v] # None
    <3> DEFINE r == d.dot1q[v]
    <3>1. r \in [tag : SUBSET Ports, untag : SUBSET Ports]
      BY <2>4 DEF Devices
    <3>2. r.tag \intersect r.untag = {}
      BY <2>4 DEF PlainVlans
    <3>3. l[v] = [p \in Ports |-> Mode8021Q(r, p)]
      BY <2>1, <2>4
    <3> HIDE DEF r
    <3>4. l[v] \in [Ports -> Memberships]
      BY <3>3 DEF Mode8021Q, Memberships
    <3>5. l[v] # None
      BY <3>4, NoneAssumption
    <3>6. PortsWith(l[v], "tagged") = r.tag
      BY <3>1, <3>3 DEF PortsWith, Mode8021Q
    <3>7. PortsWith(l[v], "untagged") = r.untag
      BY <3>1, <3>2, <3>3 DEF PortsWith, Mode8021Q
    <3>8. e.dot1q[v] = [tag |-> r.tag, untag |-> r.untag]
      BY <2>2, <3>5, <3>6, <3>7
    <3>9. e.dot1q[v] = r
      BY <3>1, <3>8
    <3> QED BY <3>9 DEF r
  <2> QED BY <2>3, <2>4
<1>3. /\ e.pvlans = d.pvlans /\ e.bandwidth = d.bandwidth /\ e.lags = d.lags
      /\ e.qos = d.qos /\ e.storm = d.storm /\ e.mirror = d.mirror
      /\ e.igmp = d.igmp /\ e.loop = d.loop
  BY DEF SetVLANs, Devices
<1>4. x \in Differences(d, e) /\ y \in Differences(d, e)
  OBVIOUS
<1> HIDE DEF e
<1>5. ASSUME NEW z \in Differences(d, e) PROVE z = <<"vlan", u>>
  BY <1>2, <1>3, SameLists
<1> QED BY <1>4, <1>5

(* One trunk changes: 2 if the entry is 2's, 1 otherwise.                  *)
LEMMA LagsRoundTrip ==
    ASSUME NEW d \in Devices, NEW l \in EditedLags(ParseLAG(d)),
           NEW x \in Differences(d, SetLAG(d, l)), NEW y \in Differences(d, SetLAG(d, l))
    PROVE  x = y
<1> DEFINE e == SetLAG(d, l)
<1>1. PICK i \in LagIds, t \in Trunks :
          l = {g \in ParseLAG(d) : g.id # i} \union {[id |-> i, ports |-> t]}
  BY DEF EditedLags
<1>2. \A j \in {1, 2} : e.lags[j] = UNION {g.ports : g \in {h \in l : (h.id = 2) <=> (j = 2)}}
  BY DEF SetLAG, Devices
<1>3. \A g : g \in ParseLAG(d) <=> \E j \in {1, 2} : /\ d.lags[j] # {}
                                                  /\ g = [id |-> j, ports |-> d.lags[j]]
  BY DEF ParseLAG
<1>4. d.lags[1] \in SUBSET Ports /\ d.lags[2] \in SUBSET Ports
  BY DEF Devices
<1>5. \A j \in {1, 2} : e.lags[j] \in SUBSET Ports
  <2>1. l \in SUBSET Groups
    BY <1>1, <1>4, LagIdsAssumption, TrunksAssumption, <1>3 DEF Groups
  <2>2. e \in Devices
    BY <2>1, SetType
  <2> QED BY <2>2 DEF Devices
<1>6. ASSUME i = 2 PROVE e.lags[1] = d.lags[1]
  <2>1. \A h \in l : h.id # 2 => h.ports = d.lags[1]
    BY <1>1, <1>3, <1>6
  <2>2. ASSUME d.lags[1] # {} PROVE \E h \in l : h.id # 2 /\ h.ports = d.lags[1]
    <3> DEFINE g == [id |-> 1, ports |-> d.lags[1]]
    <3>1. g \in ParseLAG(d) /\ g.id = 1 /\ g.ports = d.lags[1]
      BY <1>3, <2>2
    <3> QED BY <1>1, <1>6, <3>1
  <2>3. \A p : p \in e.lags[1] <=> \E h \in l : h.id # 2 /\ p \in h.ports
    BY <1>2
  <2> HIDE DEF e
  <2>4. \A p : p \in e.lags[1] <=> p \in d.lags[1]
    BY <2>1, <2>2, <2>3
  <2>5. e.lags[1] \in SUBSET Ports
    BY <1>5
  <2> QED BY <1>4, <2>4, <2>5
<1>7. ASSUME i # 2 PROVE e.lags[2] = d.lags[2]
  <2>1. \A h \in l : h.id = 2 => h.ports = d.lags[2]
    BY <1>1, <1>3, <1>7
  <2>2. ASSUME d.lags[2] # {} PROVE \E h \in l : h.id = 2 /\ h.ports = d.lags[2]
    <3> DEFINE g == [id |-> 2, ports |-> d.lags[2]]
    <3>1. g \in ParseLAG(d) /\ g.id = 2 /\ g.ports = d.lags[2]
      BY <1>3, <2>2
    <3> QED BY <1>1, <1>7, <3>1
  <2>3. \A p : p \in e.lags[2] <=> \E h \in l : h.id = 2 /\ p \in h.ports
    BY <1>2
  <2> HIDE DEF e
  <2>4. \A p : p \in e.lags[2] <=> p \in d.lags[2]
    BY <2>1, <2>2, <2>3
  <2>5. e.lags[2] \in SUBSET Ports
    BY <1>5
  <2> QED BY <1>4, <2>4, <2>5
<1>8. /\ e.pvlans = d.pvlans /\ e.bandwidth = d.bandwidth /\ e.dot1q = d.dot1q
      /\ e.qos = d.qos /\ e.storm = d.storm /\ e.mirror = d.mirror
      /\ e.igmp = d.igmp /\ e.loop = d.loop
  BY DEF SetLAG, Devices
<1>9. x \in Differences(d, e) /\ y \in Differences(d, e)
  OBVIOUS
<1> HIDE DEF e
<1>10. ASSUME NEW z \in Differences(d, e) PROVE z = <<"lag", IF i = 2 THEN 2 ELSE 1>>
  BY <1>6, <1>7, <1>8, SameLists
<1> QED BY <1>9, <1>10

(* One field of the mirror changes, or its sources with the mode.          *)
LEMMA MirrorRoundTrip ==
    ASSUME NEW d \in Devices, PlainMirror(d), NEW m \in EditedMirror(ParsePortMirror(d)),
           NEW x \in Differences(d, SetPortMirror(d, m)),
           NEW y \in Differences(d, SetPortMirror(d, m))
    PROVE  x = y
<1> DEFINE e == SetPortMirror(d, m)
           base == ParsePortMirror(d)
           old == d.mirror
<1>1. base \in Mirrors /\ base # Unread
  BY PagesType, UnreadAssumption
<1>2. EditedMirror(base) =
          {[base EXCEPT !.on = b] : b \in BOOLEAN}
          \union {[base EXCEPT !.dest = p] : p \in Ports}
          \union {[on |-> base.on, dest |-> base.dest, mode |-> k, sources |-> t] :
                      k \in MirrorModes, t \in Trunks}
  BY <1>1 DEF EditedMirror
<1>3. /\ base.on = old.on /\ base.dest = old.dest
      /\ base.mode = (IF old.code = 1 THEN "ingress" ELSE IF old.code = 2 THEN "egress" ELSE "both")
      /\ base.sources = old.ingress \union old.egress
  BY DEF ParsePortMirror
<1>4. old \in [on : BOOLEAN, dest : Ports \union {0}, code : {0, 1, 2},
              ingress : SUBSET Ports, egress : SUBSET Ports]
  BY DEF Devices
<1>5. e.mirror = [on |-> m.on, dest |-> m.dest,
         code |-> IF m.mode = "ingress" THEN 1 ELSE IF m.mode = "egress" THEN 2 ELSE 0,
         ingress |-> IF m.mode \in {"ingress", "both"} THEN m.sources ELSE {},
         egress |-> IF m.mode \in {"egress", "both"} THEN m.sources ELSE {}]
  BY DEF SetPortMirror, Devices
<1>6. /\ e.pvlans = d.pvlans /\ e.bandwidth = d.bandwidth /\ e.dot1q = d.dot1q
      /\ e.qos = d.qos /\ e.storm = d.storm /\ e.lags = d.lags
      /\ e.igmp = d.igmp /\ e.loop = d.loop
  BY DEF SetPortMirror, Devices
<1>7. /\ old.code = 0 => old.ingress = old.egress
      /\ old.code = 1 => old.egress = {}
      /\ old.code = 2 => old.ingress = {}
  BY DEF PlainMirror
<1>8. m \in EditedMirror(base) /\ x \in Differences(d, e) /\ y \in Differences(d, e)
  OBVIOUS
<1> HIDE DEF e, base, old
<1>9. ASSUME m.mode = base.mode, m.sources = base.sources
      PROVE  /\ e.mirror.code = old.code
             /\ e.mirror.ingress = old.ingress /\ e.mirror.egress = old.egress
  BY <1>3, <1>4, <1>5, <1>7, <1>9
<1>10. CASE \E b \in BOOLEAN : m = [base EXCEPT !.on = b]
  <2>1. m.mode = base.mode /\ m.sources = base.sources /\ m.dest = base.dest
    BY <1>1, <1>10 DEF Mirrors
  <2>2. e.mirror.dest = old.dest
    BY <1>3, <1>5, <2>1
  <2>3. ASSUME NEW z \in Differences(d, e) PROVE z = <<"mirror on", 0>>
    BY <1>6, <1>9, <2>1, <2>2, SameLists DEF old
  <2> QED BY <1>8, <2>3
<1>11. CASE \E p \in Ports : m = [base EXCEPT !.dest = p]
  <2>1. m.mode = base.mode /\ m.sources = base.sources /\ m.on = base.on
    BY <1>1, <1>11 DEF Mirrors
  <2>2. e.mirror.on = old.on
    BY <1>3, <1>5, <2>1
  <2>3. ASSUME NEW z \in Differences(d, e) PROVE z = <<"mirror port", 0>>
    BY <1>6, <1>9, <2>1, <2>2, SameLists DEF old
  <2> QED BY <1>8, <2>3
<1>12. CASE \E k \in MirrorModes, t \in Trunks :
               m = [on |-> base.on, dest |-> base.dest, mode |-> k, sources |-> t]
  <2>1. m.on = base.on /\ m.dest = base.dest
    BY <1>12
  <2>2. e.mirror.on = old.on /\ e.mirror.dest = old.dest
    BY <1>3, <1>5, <2>1
  <2>3. ASSUME NEW z \in Differences(d, e) PROVE z = <<"mirror sources", 0>>
    BY <1>6, <2>2, SameLists DEF old
  <2> QED BY <1>8, <2>3
<1> QED BY <1>2, <1>8, <1>10, <1>11, <1>12

(* The mode or one priority changes.                                       *)
LEMMA QosRoundTrip ==
    ASSUME NEW d \in Devices, NEW q \in EditedQos(ParseQoSBasic(d)),
           NEW x \in Differences(d, SetQoS(d, q)), NEW y \in Differences(d, SetQoS(d, q))
    PROVE  x = y
<1> DEFINE e == SetQoS(d, q)
           base == ParseQoSBasic(d)
<1>1. base \in QosLists /\ base # Unread
  BY PagesType, UnreadAssumption
<1>2. EditedQos(base) = {[base EXCEPT !.mode = k] : k \in QosModes}
                        \union {[base EXCEPT !.pri[p] = n] : p \in Ports, n \in Priorities}
  BY <1>1 DEF EditedQos
<1>3. /\ base.mode = (IF d.qos.code = 1 THEN "port" ELSE IF d.qos.code = 2 THEN "802.1p" ELSE "dscp")
      /\ base.pri = d.qos.pri
  BY DEF ParseQoSBasic
<1>4. d.qos.code \in {1, 2, 3} /\ d.qos.pri \in [Ports -> Priorities]
  BY DEF Devices
<1>5. /\ e.qos.code = (IF q.mode = "port" THEN 1 ELSE IF q.mode = "dscp" THEN 3 ELSE 2)
      /\ e.qos.pri = [p \in Ports |-> Or(q.pri[p], 1)]
  BY DEF SetQoS, Devices
<1>6. /\ e.pvlans = d.pvlans /\ e.bandwidth = d.bandwidth /\ e.dot1q = d.dot1q
      /\ e.mirror = d.mirror /\ e.storm = d.storm /\ e.lags = d.lags
      /\ e.igmp = d.igmp /\ e.loop = d.loop
  BY DEF SetQoS, Devices
<1>7. q \in EditedQos(base) /\ x \in Differences(d, e) /\ y \in Differences(d, e)
  OBVIOUS
<1> HIDE DEF e, base
<1>8. CASE \E k \in QosModes : q = [base EXCEPT !.mode = k]
  <2>1. q.pri = base.pri
    BY <1>1, <1>8 DEF QosLists
  <2>2. \A p \in Ports : e.qos.pri[p] = d.qos.pri[p]
    BY <1>3, <1>4, <1>5, <2>1, NoValue DEF Or
  <2>3. ASSUME NEW z \in Differences(d, e) PROVE z = <<"qos mode", 0>>
    BY <1>6, <2>2, SameLists
  <2> QED BY <1>7, <2>3
<1>9. CASE \E p \in Ports, n \in Priorities : q = [base EXCEPT !.pri[p] = n]
  <2>1. PICK p \in Ports, n \in Priorities : q = [base EXCEPT !.pri[p] = n]
    BY <1>9
  <2>2. q.mode = base.mode /\ \A r \in Ports \ {p} : q.pri[r] = base.pri[r]
    BY <1>1, <2>1 DEF QosLists
  <2>3. e.qos.code = d.qos.code
    BY <1>3, <1>4, <1>5, <2>2
  <2>4. \A r \in Ports \ {p} : e.qos.pri[r] = d.qos.pri[r]
    BY <1>3, <1>4, <1>5, <2>2, NoValue DEF Or
  <2>5. ASSUME NEW z \in Differences(d, e) PROVE z = <<"priority", p>>
    BY <1>6, <2>3, <2>4, SameLists
  <2> QED BY <1>7, <2>5
<1> QED BY <1>2, <1>7, <1>8, <1>9

(* The rate of one port changes.                                           *)
LEMMA StormRoundTrip ==
    ASSUME NEW d \in Devices, NEW l \in EditedStorm(d.storm),
           NEW x \in Differences(d, SetStormControl(d, l)),
           NEW y \in Differences(d, SetStormControl(d, l))
    PROVE  x = y
<1> DEFINE e == SetStormControl(d, l)
<1>1. PICK p \in Ports, n \in Rates : l = [d.storm EXCEPT ![p] = n]
  BY DEF EditedStorm
<1>2. d.storm \in [Ports -> Rates]
  BY DEF Devices
<1>3. \A r \in Ports \ {p} : e.storm[r] = d.storm[r]
  BY <1>1, <1>2, NoValue DEF SetStormControl, Or, Devices
<1>4. /\ e.pvlans = d.pvlans /\ e.bandwidth = d.bandwidth /\ e.dot1q = d.dot1q
      /\ e.mirror = d.mirror /\ e.qos = d.qos /\ e.lags = d.lags
      /\ e.igmp = d.igmp /\ e.loop = d.loop
  BY DEF SetStormControl, Devices
<1>5. x \in Differences(d, e) /\ y \in Differences(d, e)
  OBVIOUS
<1> HIDE DEF e
<1>6. ASSUME NEW z \in Differences(d, e) PROVE z = <<"storm", p>>
  BY <1>3, <1>4, SameLists
<1> QED BY <1>5, <1>6

LEMMA SwitchesRoundTrip ==
    ASSUME NEW d \in Devices, NEW b \in BOOLEAN
    PROVE  /\ \A x, y \in Differences(d, SetIGMP(d, b)) : x = y
           /\ \A x, y \in Differences(d, SetLoopPrevention(d, b)) : x = y
<1>1. ASSUME NEW z \in Differences(d, SetIGMP(d, b)) PROVE z = <<"igmp", 0>>
  <2> DEFINE e == SetIGMP(d, b)
  <2>1. /\ e.pvlans = d.pvlans /\ e.bandwidth = d.bandwidth /\ e.dot1q = d.dot1q
        /\ e.mirror = d.mirror /\ e.qos = d.qos /\ e.lags = d.lags
        /\ e.storm = d.storm /\ e.loop = d.loop
    BY DEF SetIGMP, Devices
  <2> HIDE DEF e
  <2>2. z \in Differences(d, e)
    BY <1>1 DEF e
  <2> QED BY <2>1, <2>2, SameLists
<1>2. ASSUME NEW z \in Differences(d, SetLoopPrevention(d, b)) PROVE z = <<"loop", 0>>
  <2> DEFINE e == SetLoopPrevention(d, b)
  <2>1. /\ e.pvlans = d.pvlans /\ e.bandwidth = d.bandwidth /\ e.dot1q = d.dot1q
        /\ e.mirror = d.mirror /\ e.qos = d.qos /\ e.lags = d.lags
        /\ e.storm = d.storm /\ e.igmp = d.igmp
    BY DEF SetLoopPrevention, Devices
  <2> HIDE DEF e
  <2>2. z \in Differences(d, e)
    BY <1>2 DEF e
  <2> QED BY <2>1, <2>2, Zenon DEF Differences
<1> QED BY <1>1, <1>2

LEMMA NoDifference == ASSUME NEW d \in Devices PROVE Differences(d, d) = {}
BY SameLists

(* Whatever a client asks for from a right view changes one entry.         *)
LEMMA RightViewRoundTrip ==
    ASSUME TypeOK, NEW c \in Clients, HasRightView(c),
           NEW e \in Asked(cat[c], view[c], dev),
           NEW x \in Differences(dev, e), NEW y \in Differences(dev, e)
    PROVE  x = y
<1>1. dev \in Devices
  BY DEF TypeOK
<1>2. CASE cat[c] = "vlans"
  <2>1. view[c].vlans = ParseVLAN8021Q(dev) /\ PlainVlans(dev)
    BY <1>2 DEF HasRightView
  <2>2. PICK l \in EditedVlans(view[c].vlans) : e = SetVLANs(dev, l)
    BY <1>2 DEF Asked
  <2> QED BY <1>1, <2>1, <2>2, VlansRoundTrip
<1>3. CASE cat[c] = "lags"
  <2>1. view[c].lags = ParseLAG(dev)
    BY <1>3 DEF HasRightView
  <2>2. PICK l \in EditedLags(view[c].lags) : e = SetLAG(dev, l)
    BY <1>3 DEF Asked
  <2> QED BY <1>1, <2>1, <2>2, LagsRoundTrip
<1>4. CASE cat[c] = "mirror"
  <2>1. view[c].mirror = ParsePortMirror(dev) /\ PlainMirror(dev)
    BY <1>4 DEF HasRightView
  <2>2. PICK m \in EditedMirror(view[c].mirror) : e = SetPortMirror(dev, m)
    BY <1>4 DEF Asked
  <2> QED BY <1>1, <2>1, <2>2, MirrorRoundTrip
<1>5. CASE cat[c] = "qos"
  <2>1. view[c].qos = ParseQoSBasic(dev)
    BY <1>5 DEF HasRightView
  <2>2. PICK q \in EditedQos(view[c].qos) : e = SetQoS(dev, q)
    BY <1>5 DEF Asked
  <2> QED BY <1>1, <2>1, <2>2, QosRoundTrip
<1>6. CASE cat[c] = "storm"
  <2>1. view[c].storm = dev.storm
    BY <1>6 DEF HasRightView
  <2>2. PICK l \in EditedStorm(view[c].storm) : e = SetStormControl(dev, l)
    BY <1>6 DEF Asked
  <2> QED BY <1>1, <2>1, <2>2, StormRoundTrip
<1>7. CASE cat[c] = "igmp"
  <2>1. PICK b \in BOOLEAN : e = SetIGMP(dev, b)
    BY <1>7 DEF Asked
  <2> QED BY <1>1, <2>1, SwitchesRoundTrip
<1>8. CASE cat[c] = "loop"
  <2>1. PICK b \in BOOLEAN : e = SetLoopPrevention(dev, b)
    BY <1>8 DEF Asked
  <2> QED BY <1>1, <2>1, SwitchesRoundTrip
<1> QED BY <1>2, <1>3, <1>4, <1>5, <1>6, <1>7, <1>8 DEF HasRightView

(* For any number of ports and VLANs, every list and every edit of one     *)
(* entry: reading a list, changing the entry and writing all of it changes *)
(* nothing else of the switch, if the list was right when it was taken     *)
(* (parsers, PatchVLANs ... PatchLAG, actions.go).                         *)
THEOREM EditsChangeOneEntry == Spec => OneEntryChanges
<1> DEFINE OneEntry == \A c \in Clients :
                          HasRightView(c) /\ cat'[c] = None =>
                              \A x, y \in Differences(dev, dev') : x = y
<1>1. TypeOK /\ [Next]_vars => [OneEntry]_vars
  <2> SUFFICES ASSUME TypeOK, Next, NEW c \in Clients, HasRightView(c), cat'[c] = None,
                      NEW x \in Differences(dev, dev'), NEW y \in Differences(dev, dev')
               PROVE  x = y
    OBVIOUS
  <2>1. cat \in [Clients -> Cats \union {None}] /\ cat[c] # None /\ dev \in Devices
    BY NoneAssumption DEF HasRightView, TypeOK, Cats
  <2>2. CASE UNCHANGED dev
    BY <2>1, <2>2, NoDifference
  <2>3. CASE UNCHANGED cat
    BY <2>1, <2>3
  <2>4. CASE \E k \in Clients : PatchTaken(k)
    <3>1. PICK k \in Clients : PatchTaken(k)
      BY <2>4
    <3>2. k = c
      BY <2>1, <3>1 DEF PatchTaken, Answered
    <3>3. dev' \in Asked(cat[c], view[c], dev)
      BY <3>1, <3>2 DEF PatchTaken, BecomesSet
    <3> QED BY <3>3, RightViewRoundTrip
  <2>5. \/ UNCHANGED dev \/ UNCHANGED cat
        \/ \E k \in Clients : PatchTaken(k)
    BY DEF Next, GetSnapshot, PatchNotTaken, CollectNow, CollectFull, Begin, CollectStats,
       ReadPage, SkipPage, TimesOut, Publish, UpsertSnapshot, UpsertFails, Reboot, OwnPage,
       Restart, clientVars
  <2> QED BY <2>2, <2>3, <2>4, <2>5
<1> QED BY <1>1, TypeInit, TypeNext, PTL DEF Spec, OneEntryChanges
=============================================================================
