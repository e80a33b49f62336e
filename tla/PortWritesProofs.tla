-------------------------- MODULE PortWritesProofs --------------------------
(***************************************************************************)
(* Proofs about PortWrites, for any number of ports, PATCHes, collectors   *)
(* and codes: types; a PATCH that starts from a right view keeps the       *)
(* fields it does not name; writing the ports back loses nothing else; UI  *)
(* and /metrics agree with the device after an undisturbed writer.         *)
(***************************************************************************)
EXTENDS PortWrites, TLAPS

-----------------------------------------------------------------------------
(* The port settings page there and back.                                  *)

(* A full duplex setting, Auto included, survives being read and written.  *)
LEMMA RoundTrip ==
    ASSUME NEW code \in FullDuplex
    PROVE  CfgSpeedCode(ConfiguredSpeed(code)) = code
BY DEF FullDuplex, CfgSpeedCode, ConfiguredSpeed

LEMMA CodeOfSpeed ==
    ASSUME NEW s \in Speeds PROVE CfgSpeedCode(s) \in Codes
BY CodesAssumption

LEMMA AutoIsASpeed == "" \in Speeds
<1>1. CfgSpeedCode("") = 1
  BY DEF CfgSpeedCode
<1>2. 1 \in Codes
  BY <1>1, CodesAssumption
<1>3. ConfiguredSpeed(1) = ""
  BY DEF ConfiguredSpeed
<1> QED BY <1>2, <1>3 DEF Speeds

LEMMA DefaultType == DefaultConfig \in PortConfigs
BY AutoIsASpeed DEF DefaultConfig, PortConfigs

LEMMA ShownType ==
    ASSUME NEW d \in DevicePorts PROVE Shown(d) \in PortConfigs
BY DEF Shown, DevicePorts, PortConfigs, Speeds

LEMMA AppliedType ==
    ASSUME NEW c \in PortConfigs PROVE Applied(c) \in DevicePorts
BY CodeOfSpeed DEF Applied, DevicePorts, PortConfigs

LEMMA MergedType ==
    ASSUME NEW base \in PortConfigs, NEW b \in Bodies
    PROVE  Merged(base, b) \in PortConfigs
<1>1. b \in PortBodies
  BY BodiesAssumption
<1> QED BY <1>1 DEF Merged, Pick, PortConfigs, PortBodies

(* Sending the page's own values back, with b on top, keeps the rest.      *)
LEMMA UnaskedSurvive ==
    ASSUME NEW d \in DevicePorts, d.code \in FullDuplex, NEW r \in Requests
    PROVE  KeepsUnasked(r, d, Applied(Merged(Shown(d), body[r])))
BY RoundTrip DEF KeepsUnasked, Applied, Merged, Shown, Pick

-----------------------------------------------------------------------------
(* Types.                                                                  *)

DataOK == /\ dev \in [Ports -> DevicePorts]
          /\ rest \in 0 .. MaxRest
          /\ session \in BOOLEAN
          /\ stored \in Maybe
CollOK == /\ last \in Collectors \union {NoObject}
          /\ obj \in [Collectors -> Maybe]
          /\ draft \in [Collectors -> Maybe]
          /\ cpc \in [Collectors -> {"idle", "publish", "save"}]
          /\ saves \in [Collectors -> Collectors \union {NoObject}]
SendOK == /\ port \in [Requests -> Ports]
          /\ body \in [Requests -> Bodies]
          /\ cfg \in [Requests -> PortConfigs]
ReadOK == /\ at \in [Requests -> PatchSteps]
          /\ ports \in [Requests -> Views]
          /\ snap \in [Requests -> Maybe]
HistOK == /\ fresh \subseteq Requests
          /\ overtaken \subseteq Requests
          /\ clean \in BOOLEAN

LEMMA TypeParts == TypeOK <=> DataOK /\ CollOK /\ SendOK /\ ReadOK /\ HistOK
BY DEF TypeOK, DataOK, CollOK, SendOK, ReadOK, HistOK

(* There is a snapshot wherever one is written to or saved.                *)
Present == /\ last # NoObject => obj[last] # NoSnap
           /\ \A c \in Collectors : cpc[c] = "publish" => draft[c] # NoSnap
           /\ \A c \in Collectors : cpc[c] = "save" => saves[c] # NoObject
           /\ \A r \in Requests : at[r] = "save" => snap[r] # NoSnap

TypeInv == TypeOK /\ Present

LEMMA ViewType == ASSUME DataOK PROVE View \in Views
BY ShownType DEF View, Views, DataOK

LEMMA BlankTypes == /\ NoView \in Views
                    /\ SomePort \in Ports
                    /\ SomeBody \in Bodies
                    /\ DefaultConfig \in PortConfigs
                    /\ "idle" \in PatchSteps
BY DefaultType, PortsAssumption, BodiesAssumption
   DEF NoView, Views, SomePort, SomeBody, PatchSteps

LEMMA SnapshotType ==
    ASSUME NEW v \in Views \union {Missing}, NEW x \in (0 .. MaxRest) \union {Missing}
    PROVE  /\ [ports |-> v, rest |-> x] \in Snapshots
           /\ [ports |-> v, rest |-> x] # NoSnap
BY NoSnapAssumption DEF Snapshots

LEMMA NewPortsType ==
    ASSUME NEW s \in Snapshots, NEW v \in Views
    PROVE  /\ [s EXCEPT !.ports = v] \in Snapshots
           /\ [s EXCEPT !.ports = v] # NoSnap
           /\ [s EXCEPT !.ports = v].ports = v
           /\ [s EXCEPT !.ports = v].rest = s.rest
BY NoSnapAssumption DEF Snapshots

LEMMA KeptType ==
    ASSUME NEW o \in [Collectors -> Maybe], NEW l, NEW s
    PROVE  /\ Kept(o, l, s) \in [Collectors -> Maybe]
           /\ l \in Collectors => Kept(o, l, s)[l] = o[l]
BY DEF Kept, Maybe

LEMMA BaseType ==
    ASSUME NEW p \in Ports, NEW s \in Maybe
    PROVE  Base(p, s) \in PortConfigs
BY DefaultType DEF Base, Maybe, Snapshots, Views

LEMMA InitType == Init => TypeInv
<1> SUFFICES ASSUME Init PROVE TypeInv
  OBVIOUS
<1>1. 0 \in 0 .. MaxRest
  BY MaxRestAssumption
<1>2. dev \in [Ports -> DevicePorts]
  BY FirstPortsAssumption DEF Init
<1> QED BY <1>1, <1>2, BlankTypes
     DEF Init, NoRequests, NoCollections, TypeInv, TypeOK, Present, Maybe, PatchSteps

LEMMA PatchType ==
    ASSUME TypeInv, NEW r \in Requests, Patch(r)
    PROVE  TypeInv'
<1> USE BlankTypes DEF TypeInv, Present, PatchSteps
<1>0. DataOK /\ CollOK /\ SendOK /\ ReadOK /\ HistOK
  BY TypeParts
<1> SUFFICES DataOK' /\ CollOK' /\ SendOK' /\ ReadOK' /\ HistOK' /\ Present'
  BY TypeParts DEF TypeOK, DataOK, CollOK, SendOK, ReadOK, HistOK
<1> USE DEF DataOK, CollOK, SendOK, ReadOK, HistOK
<1>1. CASE PatchPort(r)
  <2>1. PICK p \in Ports, b \in Bodies, s \in Maybe : Merge(r, p, b, s)
    BY <1>0, <1>1 DEF PatchPort, Maybe
  <2>2. Merged(Base(p, s), b) \in PortConfigs
    BY BaseType, MergedType
  <2>3. clean' \in BOOLEAN
    BY <2>1 DEF Merge, AloneAsRequest
  <2> QED BY <1>0, <2>1, <2>2, <2>3 DEF Merge, devVars, collVars
<1>2. ASSUME Set(r) PROVE dev' \in [Ports -> DevicePorts] /\ fresh' \subseteq Requests
  <2>1. Applied(cfg[r]) \in DevicePorts
    BY <1>0, AppliedType
  <2> QED BY <1>0, <1>2, <2>1 DEF Set
<1>3. ASSUME NotSet(r) PROVE dev' \in [Ports -> DevicePorts] /\ fresh' \subseteq Requests
  BY <1>0, <1>3 DEF NotSet
<1>4. CASE SendAnswered(r)
  <2>1. dev' \in [Ports -> DevicePorts] /\ fresh' \subseteq Requests
    BY <1>2, <1>3, <1>4 DEF SendAnswered
  <2> QED BY <1>0, <1>4, <2>1 DEF SendAnswered, Sent, collVars
<1>5. CASE SendFails(r)
  <2>1. dev' \in [Ports -> DevicePorts] /\ fresh' \subseteq Requests
    BY <1>2, <1>3, <1>5 DEF SendFails
  <2> QED BY <1>0, <1>5, <2>1 DEF SendFails, Sent, EndPatch, collVars, Maybe
<1>6. CASE RefreshOk(r)
  BY <1>0, <1>6, ViewType DEF RefreshOk, devVars, collVars, sendVars, histVars
<1>7. CASE RefreshFails(r)
  BY <1>0, <1>7 DEF RefreshFails, EndPatch, devVars, collVars, sendVars, Maybe
<1>8. CASE RefreshPublishes(r)
  <2>1. CASE last = NoObject
    BY <1>0, <1>8, <2>1 DEF RefreshPublishes, WriteMemory, devVars, sendVars, histVars
  <2>2. CASE last # NoObject
    <3>1. obj[last] \in Snapshots /\ ports[r] \in Views
      BY <1>0, <2>2 DEF Maybe
    <3>2. /\ [obj[last] EXCEPT !.ports = ports[r]] \in Maybe
          /\ [obj[last] EXCEPT !.ports = ports[r]] # NoSnap
      BY <3>1, NewPortsType DEF Maybe
    <3>3. obj' = [obj EXCEPT ![last] = [obj[last] EXCEPT !.ports = ports[r]]]
      BY <1>8, <2>2 DEF RefreshPublishes, WriteMemory
    <3> QED BY <1>0, <1>8, <2>2, <3>2, <3>3
         DEF RefreshPublishes, devVars, sendVars, histVars
  <2> QED BY <2>1, <2>2
<1>9. CASE ReloadStored(r)
  BY <1>0, <1>9 DEF ReloadStored, ReadStored, devVars, collVars, sendVars, histVars
<1>10. CASE ReloadMisses(r)
  BY <1>0, <1>10 DEF ReloadMisses, EndPatch, devVars, collVars, sendVars, Maybe
<1>11. CASE SavePatched(r)
  <2>1. snap[r] \in Snapshots /\ ports[r] \in Views
    BY <1>0, <1>11 DEF SavePatched, Maybe
  <2>2. stored' \in Maybe
    BY <1>11, <2>1, NewPortsType DEF SavePatched, Maybe
  <2> QED BY <1>0, <1>11, <2>2
       DEF SavePatched, Overtaken, EndPatch, devVars, collVars, sendVars, Maybe
<1>12. CASE SavePatchedFails(r)
  BY <1>0, <1>12 DEF SavePatchedFails, EndPatch, devVars, collVars, sendVars, Maybe
<1> QED BY <1>1, <1>4, <1>5, <1>6, <1>7, <1>8, <1>9, <1>10, <1>11, <1>12 DEF Patch

LEMMA CollectionType ==
    ASSUME TypeInv, NEW c \in Collectors, Collection(c)
    PROVE  TypeInv'
<1> USE DEF TypeInv, Present
<1>0. DataOK /\ CollOK /\ SendOK /\ ReadOK /\ HistOK
  BY TypeParts
<1> SUFFICES DataOK' /\ CollOK' /\ SendOK' /\ ReadOK' /\ HistOK' /\ Present'
  BY TypeParts DEF TypeOK, DataOK, CollOK, SendOK, ReadOK, HistOK
<1> USE CollectorsAssumption DEF DataOK, CollOK, SendOK, ReadOK, HistOK
<1>1. CASE Collect(c)
  <2>1. PICK v \in Readable(c, View), x \in Readable(c, rest) :
           /\ draft' = [draft EXCEPT ![c] = [ports |-> v, rest |-> x]]
           /\ clean' = (AloneAsCollector(c) /\ v # Missing)
    BY <1>1 DEF Collect
  <2>2. v \in Views \union {Missing} /\ x \in (0 .. MaxRest) \union {Missing}
    BY <1>0, ViewType DEF Readable
  <2>3. [ports |-> v, rest |-> x] \in Maybe /\ [ports |-> v, rest |-> x] # NoSnap
    BY <2>2, SnapshotType DEF Maybe
  <2>4. clean' \in BOOLEAN
    BY <2>1 DEF AloneAsCollector
  <2> HIDE DEF Present
  <2>5. Present'
    BY <1>0, <1>1, <2>1, <2>3 DEF Present, Collect, reqVars
  <2> QED BY <1>0, <1>1, <2>1, <2>3, <2>4, <2>5 DEF Collect, devVars, reqVars, sendVars
<1>2. CASE Publish(c)
  <2>1. draft[c] \in Maybe /\ draft[c] # NoSnap
    BY <1>0, <1>2 DEF Publish
  <2> DEFINE o == [obj EXCEPT ![c] = draft[c]]
  <2>2. o \in [Collectors -> Maybe] /\ o[c] = draft[c]
    BY <1>0, <2>1
  <2>3. obj' = Kept(o, c, saves')
    BY <1>2 DEF Publish
  <2> HIDE DEF o
  <2>4. /\ obj' \in [Collectors -> Maybe]
        /\ obj'[c] = draft[c]
    BY <2>2, <2>3, KeptType
  <2>5. NoSnap \in Maybe
    BY DEF Maybe
  <2> QED BY <1>0, <1>2, <2>1, <2>4, <2>5
       DEF Publish, devVars, reqVars, sendVars, histVars
<1>3. ASSUME EndCollect(c)
      PROVE  /\ CollOK'
             /\ last' # NoObject => obj'[last'] # NoSnap
             /\ \A d \in Collectors : cpc'[d] = "publish" => draft'[d] # NoSnap
             /\ \A d \in Collectors : cpc'[d] = "save" => saves'[d] # NoObject
  <2>1. /\ obj' \in [Collectors -> Maybe]
        /\ last \in Collectors => obj'[last] = obj[last]
    BY <1>0, <1>3, KeptType DEF EndCollect
  <2> QED BY <1>0, <1>3, <2>1 DEF EndCollect
<1>4. CASE Save(c)
  <2>1. stored' \in Maybe
    BY <1>0, <1>4 DEF Save
  <2> QED BY <1>0, <1>3, <1>4, <2>1
       DEF Save, EndCollect, Overtaken, devVars, reqVars, sendVars
<1>5. CASE SaveFails(c)
  BY <1>0, <1>3, <1>5 DEF SaveFails, EndCollect, devVars, reqVars, sendVars
<1> QED BY <1>1, <1>2, <1>4, <1>5 DEF Collection

LEMMA OtherType ==
    ASSUME TypeInv, CollectStats \/ SessionEnds \/ RestChanges \/ Restart
    PROVE  TypeInv'
<1> USE DEF TypeInv, Present, TypeOK
<1>1. CASE CollectStats
  <2>1. clean' \in BOOLEAN
    BY <1>1 DEF CollectStats, AloneAsCollector
  <2> QED BY <1>1, <2>1, CollectorsAssumption
       DEF CollectStats, devVars, reqVars, sendVars
<1>2. CASE SessionEnds
  BY <1>2 DEF SessionEnds, collVars, reqVars, sendVars, histVars
<1>3. CASE RestChanges
  BY <1>3, MaxRestAssumption DEF RestChanges, collVars, reqVars, sendVars, histVars
<1>4. CASE Restart
  BY <1>4, BlankTypes DEF Restart, Maybe
<1> QED BY <1>1, <1>2, <1>3, <1>4

LEMMA StepType == TypeInv /\ [Next]_vars => TypeInv'
<1>1. ASSUME TypeInv, UNCHANGED vars PROVE TypeInv'
  BY <1>1 DEF TypeInv, TypeOK, Present, vars, devVars, collVars, reqVars,
              sendVars, histVars
<1> QED BY <1>1, PatchType, CollectionType, OtherType DEF Next

LEMMA TypeInvariant == Spec => []TypeInv
BY InitType, StepType, PTL DEF Spec

(* Every variable keeps its type; in particular nothing a handler sends    *)
(* or stores falls outside what the device and the store can hold.         *)
THEOREM TypeCorrect == Spec => []TypeOK
<1>1. TypeInv => TypeOK
  BY DEF TypeInv
<1> QED BY <1>1, TypeInvariant, PTL

-----------------------------------------------------------------------------
(* A PATCH keeps the fields it does not name.                              *)

(* What a request with a right view sends is its port with the body on     *)
(* top: any PATCH of that port in between ends the view.                   *)
FreshInv == \A r \in fresh :
                at[r] = "send" => /\ cfg[r] = Merged(Shown(dev[port[r]]), body[r])
                                  /\ dev[port[r]].code \in FullDuplex

LEMMA MergeKeepsFresh ==
    ASSUME TypeInv, FreshInv, NEW r \in Requests, PatchPort(r)
    PROVE  FreshInv'
<1> USE DEF TypeInv, TypeOK, FreshInv
<1>1. PICK p \in Ports, b \in Bodies, s \in Maybe : Merge(r, p, b, s)
  BY DEF PatchPort, Maybe
<1>2. ASSUME NEW q \in fresh', q # r
      PROVE  /\ q \in fresh
             /\ at'[q] = at[q] /\ port'[q] = port[q] /\ body'[q] = body[q]
             /\ cfg'[q] = cfg[q] /\ dev' = dev
  BY <1>1, <1>2 DEF Merge, devVars
<1>3. ASSUME r \in fresh'
      PROVE  /\ cfg'[r] = Merged(Shown(dev'[port'[r]]), body'[r])
             /\ dev'[port'[r]].code \in FullDuplex
  <2>1. Base(p, s) = Shown(dev[p]) /\ dev[p].code \in FullDuplex
    BY <1>1, <1>3 DEF Merge
  <2>2. cfg'[r] = Merged(Base(p, s), b) /\ port'[r] = p /\ body'[r] = b /\ dev' = dev
    BY <1>1 DEF Merge, devVars
  <2> QED BY <2>1, <2>2
<1> QED BY <1>2, <1>3

LEMMA SendKeepsFresh ==
    ASSUME TypeInv, FreshInv, NEW r \in Requests, SendAnswered(r) \/ SendFails(r)
    PROVE  FreshInv'
<1> USE DEF TypeInv, TypeOK
<1>1. ASSUME NEW q \in fresh'
      PROVE  /\ q \in fresh /\ q # r
             /\ at'[q] = at[q] /\ port'[q] = port[q] /\ body'[q] = body[q]
             /\ cfg'[q] = cfg[q]
  BY <1>1 DEF SendAnswered, SendFails, Set, NotSet, Sent, EndPatch
<1>2. ASSUME NEW q \in fresh' PROVE dev'[port[q]] = dev[port[q]]
  <2>1. CASE Set(r)
    <3>1. port[q] # port[r]
      BY <1>1, <1>2, <2>1 DEF Set
    <3> QED BY <1>1, <2>1, <3>1 DEF Set
  <2>2. CASE NotSet(r)
    BY <2>2 DEF NotSet
  <2> QED BY <2>1, <2>2 DEF SendAnswered, SendFails
<1> QED BY <1>1, <1>2 DEF FreshInv

LEMMA StepFresh == TypeInv /\ FreshInv /\ [Next]_vars => FreshInv'
<1> SUFFICES ASSUME TypeInv, FreshInv, [Next]_vars PROVE FreshInv'
  OBVIOUS
<1> USE DEF FreshInv
<1>1. ASSUME NEW r \in Requests, Patch(r) PROVE FreshInv'
  <2>1. CASE PatchPort(r)
    BY <2>1, MergeKeepsFresh
  <2>2. CASE SendAnswered(r) \/ SendFails(r)
    BY <2>2, SendKeepsFresh
  <2>3. CASE \/ RefreshOk(r) \/ RefreshFails(r) \/ RefreshPublishes(r)
             \/ ReloadStored(r) \/ ReloadMisses(r) \/ SavePatched(r)
             \/ SavePatchedFails(r)
    <3>1. fresh' = fresh /\ dev' = dev /\ UNCHANGED sendVars
      BY <2>3 DEF RefreshOk, RefreshFails, RefreshPublishes, ReloadStored,
                  ReloadMisses, SavePatched, SavePatchedFails, devVars, histVars
    <3>2. ASSUME NEW q \in fresh, at'[q] = "send" PROVE at[q] = "send"
      BY <2>3, <3>2 DEF RefreshOk, RefreshFails, RefreshPublishes, ReloadStored,
           ReloadMisses, SavePatched, SavePatchedFails, EndPatch, TypeInv, TypeOK
    <3> QED BY <3>1, <3>2 DEF sendVars
  <2> QED BY <1>1, <2>1, <2>2, <2>3 DEF Patch
<1>2. ASSUME NEW c \in Collectors, Collection(c) PROVE FreshInv'
  BY <1>2 DEF Collection, Collect, Publish, Save, SaveFails, EndCollect,
              devVars, reqVars, sendVars, histVars
<1>3. CASE CollectStats \/ SessionEnds \/ RestChanges
  BY <1>3 DEF CollectStats, SessionEnds, RestChanges, devVars, reqVars,
              sendVars, histVars
<1>4. CASE Restart
  BY <1>4 DEF Restart
<1>5. CASE UNCHANGED vars
  BY <1>5 DEF vars, devVars, reqVars, sendVars, histVars
<1> QED BY <1>1, <1>2, <1>3, <1>4, <1>5 DEF Next

(* The steps that end "send" set the port to what r sends, or do not.      *)
LEMMA SendSetsOrNot ==
    ASSUME TypeInv, [Next]_vars, NEW r \in Requests,
           at[r] = "send", at'[r] # "send"
    PROVE  \/ dev' = dev
           \/ dev' = [dev EXCEPT ![port[r]] = Applied(cfg[r])]
<1> USE DEF TypeInv, TypeOK
<1>1. ASSUME NEW q \in Requests, Patch(q), q # r PROVE at'[r] = at[r]
  BY <1>1 DEF Patch, PatchPort, Merge, SendAnswered, SendFails, RefreshOk,
              RefreshFails, RefreshPublishes, ReloadStored, ReloadMisses,
              SavePatched, SavePatchedFails, EndPatch
<1>2. CASE Patch(r)
  BY <1>2 DEF Patch, PatchPort, Merge, SendAnswered, SendFails, Set, NotSet,
              RefreshOk, RefreshFails, RefreshPublishes, ReloadStored,
              ReloadMisses, SavePatched, SavePatchedFails
<1>3. ASSUME NEW c \in Collectors, Collection(c) PROVE dev' = dev
  BY <1>3 DEF Collection, Collect, Publish, Save, SaveFails, EndCollect, devVars
<1>4. CASE CollectStats \/ SessionEnds \/ RestChanges \/ Restart \/ UNCHANGED vars
  BY <1>4 DEF CollectStats, SessionEnds, RestChanges, Restart, vars, devVars
<1> QED BY <1>1, <1>2, <1>3, <1>4 DEF Next

(* A PATCH that starts from a right view of a full duplex port leaves the  *)
(* fields its body does not name as they are, whatever else goes on        *)
(* (PatchPort, data.go:87-114).                                            *)
THEOREM UnaskedFieldsAreKept == Spec => UnaskedFieldsKept
<1> DEFINE Step == \A r \in fresh :
                      at[r] = "send" /\ at'[r] # "send"
                          => KeepsUnasked(r, dev[port[r]], dev'[port[r]])
<1>1. Init => FreshInv
  BY DEF Init, NoRequests, FreshInv
<1>2. TypeInv /\ FreshInv /\ [Next]_vars => Step
  <2> SUFFICES ASSUME TypeInv, FreshInv, [Next]_vars, NEW r \in fresh,
                      at[r] = "send", at'[r] # "send"
               PROVE  KeepsUnasked(r, dev[port[r]], dev'[port[r]])
    OBVIOUS
  <2>1. r \in Requests /\ port[r] \in Ports /\ dev[port[r]] \in DevicePorts
    BY DEF TypeInv, TypeOK
  <2>2. \/ dev' = dev
        \/ dev' = [dev EXCEPT ![port[r]] = Applied(cfg[r])]
    BY <2>1, SendSetsOrNot
  <2>3. CASE dev' = dev
    BY <2>3 DEF KeepsUnasked
  <2>4. CASE dev' = [dev EXCEPT ![port[r]] = Applied(cfg[r])]
    <3>1. dev'[port[r]] = Applied(Merged(Shown(dev[port[r]]), body[r]))
      BY <2>1, <2>4 DEF FreshInv, TypeInv, TypeOK
    <3> QED BY <2>1, <3>1, UnaskedSurvive DEF FreshInv
  <2> QED BY <2>2, <2>3, <2>4
<1>3. UnaskedFieldsKept <=> [][Step]_vars
  BY DEF UnaskedFieldsKept
<1> QED BY <1>1, <1>2, <1>3, StepFresh, TypeInvariant, PTL DEF Spec

-----------------------------------------------------------------------------
(* The stored snapshot keeps everything but its ports.                     *)

(* What is about to be written back is the row, until another writer saves.*)
ReloadedInv == \A r \in Requests \ overtaken : at[r] = "save" => snap[r] = stored

LEMMA PatchReloaded ==
    ASSUME TypeInv, ReloadedInv, NEW r \in Requests, Patch(r)
    PROVE  ReloadedInv'
<1> USE DEF TypeInv, TypeOK, ReloadedInv
<1>1. CASE PatchPort(r)
  BY <1>1 DEF PatchPort, Merge
<1>2. CASE SendAnswered(r) \/ SendFails(r)
  BY <1>2 DEF SendAnswered, SendFails, Sent, EndPatch
<1>3. CASE RefreshOk(r) \/ RefreshFails(r) \/ RefreshPublishes(r)
  BY <1>3 DEF RefreshOk, RefreshFails, RefreshPublishes, EndPatch, histVars
<1>4. CASE ReloadStored(r)
  BY <1>4 DEF ReloadStored, ReadStored, histVars
<1>5. CASE ReloadMisses(r) \/ SavePatchedFails(r)
  BY <1>5 DEF ReloadMisses, SavePatchedFails, EndPatch
<1>6. CASE SavePatched(r)
  BY <1>6 DEF SavePatched, Overtaken, EndPatch
<1> QED BY <1>1, <1>2, <1>3, <1>4, <1>5, <1>6 DEF Patch

LEMMA StepReloaded == TypeInv /\ ReloadedInv /\ [Next]_vars => ReloadedInv'
<1> SUFFICES ASSUME TypeInv, ReloadedInv, [Next]_vars PROVE ReloadedInv'
  OBVIOUS
<1> USE DEF ReloadedInv
<1>1. ASSUME NEW c \in Collectors, Collection(c) PROVE ReloadedInv'
  BY <1>1 DEF Collection, Collect, Publish, Save, SaveFails, EndCollect,
              Overtaken, reqVars, histVars
<1>2. CASE CollectStats \/ SessionEnds \/ RestChanges
  BY <1>2 DEF CollectStats, SessionEnds, RestChanges, reqVars, histVars
<1>3. CASE Restart
  BY <1>3 DEF Restart
<1>4. CASE UNCHANGED vars
  BY <1>4 DEF vars, reqVars, histVars
<1> QED BY <1>1, <1>2, <1>3, <1>4, PatchReloaded DEF Next

LEMMA OnlySavesStore ==
    ASSUME TypeInv, [Next]_vars, NEW r \in Requests,
           at[r] = "save", stored' # stored, at'[r] = "idle"
    PROVE  SavePatched(r)
<1> USE DEF TypeInv, TypeOK
<1>1. ASSUME NEW q \in Requests, Patch(q) PROVE q = r
  BY <1>1 DEF Patch, PatchPort, Merge, SendAnswered, SendFails, RefreshOk,
              RefreshFails, RefreshPublishes, ReloadStored, ReloadMisses,
              SavePatched, SavePatchedFails, EndPatch
<1>2. CASE Patch(r)
  BY <1>2 DEF Patch, PatchPort, Merge, SendAnswered, SendFails, RefreshOk,
              RefreshFails, RefreshPublishes, ReloadStored, ReloadMisses,
              SavePatchedFails
<1>3. ASSUME NEW c \in Collectors, Collection(c) PROVE FALSE
  BY <1>3 DEF Collection, Collect, Publish, Save, SaveFails, EndCollect, reqVars
<1>4. CASE CollectStats \/ SessionEnds \/ RestChanges \/ Restart \/ UNCHANGED vars
  BY <1>4 DEF CollectStats, SessionEnds, RestChanges, Restart, vars
<1> QED BY <1>1, <1>2, <1>3, <1>4 DEF Next

(* Writing the confirmed ports into the stored snapshot loses nothing of   *)
(* it, unless another writer saved since the reload (data.go:126-129).     *)
THEOREM OnlyPortsAreRewritten == Spec => OnlyPortsRewritten
<1> DEFINE Step == \A r \in Requests \ overtaken :
                      at[r] = "save" /\ stored' # stored /\ at'[r] = "idle"
                          => stored'.rest = stored.rest
<1>1. Init => ReloadedInv
  BY DEF Init, NoRequests, ReloadedInv
<1>2. TypeInv /\ ReloadedInv /\ [Next]_vars => Step
  <2> SUFFICES ASSUME TypeInv, ReloadedInv, [Next]_vars,
                      NEW r \in Requests \ overtaken,
                      at[r] = "save", stored' # stored, at'[r] = "idle"
               PROVE  stored'.rest = stored.rest
    OBVIOUS
  <2>1. stored' = [snap[r] EXCEPT !.ports = ports[r]]
    BY OnlySavesStore DEF SavePatched
  <2>2. snap[r] = stored /\ snap[r] \in Snapshots /\ ports[r] \in Views
    BY DEF ReloadedInv, TypeInv, TypeOK, Present, Maybe
  <2> QED BY <2>1, <2>2, NewPortsType
<1>3. OnlyPortsRewritten <=> [][Step]_vars
  BY DEF OnlyPortsRewritten
<1> QED BY <1>1, <1>2, <1>3, StepReloaded, TypeInvariant, PTL DEF Spec

-----------------------------------------------------------------------------
(* The UI and /metrics agree with the device after an undisturbed writer.  *)

MemoryIsView == last # NoObject => obj[last].ports = View

OneWriter == /\ \A r, q \in Requests : Active(r) /\ Active(q) => r = q
             /\ \A c, d \in Collectors : Collecting(c) /\ Collecting(d) => c = d
             /\ \A r \in Requests, c \in Collectors : ~(Active(r) /\ Collecting(c))

(* How far an undisturbed PATCH and an undisturbed collection have come.   *)
PatchOnCourse ==
    \A r \in Requests :
        /\ at[r] \in {"publish", "reload", "save"} => ports[r] = View
        /\ at[r] \in {"reload", "save"} => MemoryIsView
CollectOnCourse ==
    \A c \in Collectors :
        /\ cpc[c] = "publish" => draft[c].ports = View
        /\ cpc[c] = "save" => saves[c] = last /\ MemoryIsView

CleanInv == clean => OneWriter /\ PatchOnCourse /\ CollectOnCourse /\ PortsAgree

LEMMA ViewOfDevice == dev' = dev => View' = View
BY DEF View

LEMMA PatchClean ==
    ASSUME TypeInv, CleanInv, NEW r \in Requests, Patch(r), clean'
    PROVE  OneWriter' /\ PatchOnCourse' /\ CollectOnCourse' /\ PortsAgree'
<1> USE DEF OneWriter, Active, Collecting, PatchOnCourse, CollectOnCourse,
            MemoryIsView, CleanInv
<1>0. /\ at \in [Requests -> PatchSteps] /\ ports \in [Requests -> Views]
      /\ snap \in [Requests -> Maybe] /\ obj \in [Collectors -> Maybe]
      /\ last \in Collectors \union {NoObject}
      /\ last # NoObject => obj[last] # NoSnap
      /\ \A q \in Requests : at[q] = "save" => snap[q] # NoSnap
  BY DEF TypeInv, TypeOK, Present
<1>1. CASE PatchPort(r)
  <2>1. /\ AloneAsRequest(r) /\ at' = [at EXCEPT ![r] = "send"]
        /\ UNCHANGED <<cpc, ports, draft, saves>>
    BY <1>1 DEF PatchPort, Merge, collVars
  <2>2. at'[r] = "send" /\ \A q \in Requests \ {r} : at'[q] = "idle"
    BY <1>0, <2>1 DEF AloneAsRequest
  <2>3. \A c \in Collectors : cpc'[c] = "idle"
    BY <2>1 DEF AloneAsRequest
  <2> QED BY <2>2, <2>3 DEF PortsAgree
<1>2. ASSUME clean, at[r] # "idle"
      PROVE  /\ \A q \in Requests \ {r} : at[q] = "idle"
             /\ \A c \in Collectors : cpc[c] = "idle"
  BY <1>2
<1>3. CASE SendAnswered(r)
  <2>1. /\ clean /\ at[r] = "send" /\ at' = [at EXCEPT ![r] = "refresh"]
        /\ UNCHANGED <<cpc, ports, draft, saves>>
    BY <1>3 DEF SendAnswered, collVars
  <2>2. at'[r] = "refresh" /\ \A q \in Requests \ {r} : at'[q] = "idle"
    BY <1>0, <1>2, <2>1
  <2> QED BY <1>2, <2>1, <2>2 DEF PortsAgree
<1>4. CASE SendFails(r) \/ RefreshFails(r) \/ SavePatchedFails(r)
  BY <1>4 DEF SendFails, RefreshFails, SavePatchedFails
<1>5. CASE RefreshOk(r)
  <2>1. /\ clean /\ at[r] = "refresh" /\ at' = [at EXCEPT ![r] = "publish"]
        /\ ports' = [ports EXCEPT ![r] = View]
        /\ UNCHANGED <<dev, cpc, draft, saves>>
    BY <1>5 DEF RefreshOk, devVars, collVars, histVars
  <2>2. /\ at'[r] = "publish" /\ ports'[r] = View'
        /\ \A q \in Requests \ {r} : at'[q] = "idle"
    BY <1>0, <1>2, <2>1, ViewOfDevice
  <2> QED BY <1>2, <2>1, <2>2 DEF PortsAgree
<1>6. CASE RefreshPublishes(r)
  <2>1. /\ clean /\ at[r] = "publish" /\ at' = [at EXCEPT ![r] = "reload"]
        /\ UNCHANGED <<dev, last, ports, cpc, draft, saves>>
    BY <1>6 DEF RefreshPublishes, devVars, histVars
  <2>2. /\ at'[r] = "reload" /\ ports'[r] = View'
        /\ \A q \in Requests \ {r} : at'[q] = "idle"
    BY <1>0, <1>2, <2>1, ViewOfDevice
  <2>3. ASSUME last # NoObject PROVE obj'[last].ports = ports[r]
    <3>1. obj' = [obj EXCEPT ![last] = [obj[last] EXCEPT !.ports = ports[r]]]
      BY <1>6, <2>3 DEF RefreshPublishes, WriteMemory
    <3>2. obj[last] \in Snapshots /\ ports[r] \in Views
      BY <1>0, <2>3 DEF Maybe
    <3> QED BY <1>0, <2>3, <3>1, <3>2, NewPortsType
  <2> QED BY <1>2, <2>1, <2>2, <2>3 DEF PortsAgree
<1>7. CASE ReloadStored(r)
  <2>1. /\ clean /\ at[r] = "reload" /\ at' = [at EXCEPT ![r] = "save"]
        /\ UNCHANGED <<dev, last, obj, ports, cpc, draft, saves>>
    BY <1>7 DEF ReloadStored, devVars, collVars, histVars
  <2>2. /\ at'[r] = "save" /\ ports'[r] = View' /\ View' = View
        /\ \A q \in Requests \ {r} : at'[q] = "idle"
    BY <1>0, <1>2, <2>1, ViewOfDevice
  <2> QED BY <1>2, <2>1, <2>2 DEF PortsAgree
<1>8. CASE ReloadMisses(r)
  <2>1. /\ clean /\ stored = NoSnap /\ at[r] = "reload"
        /\ at' = [at EXCEPT ![r] = "idle"]
        /\ UNCHANGED <<dev, stored, last, obj, cpc, draft, saves>>
    BY <1>8 DEF ReloadMisses, EndPatch, devVars, collVars
  <2>2. View' = View /\ \A q \in Requests : at'[q] = "idle"
    BY <1>0, <1>2, <2>1, ViewOfDevice
  <2> QED BY <1>2, <2>1, <2>2 DEF PortsAgree
<1>9. CASE SavePatched(r)
  <2>1. /\ clean /\ at[r] = "save" /\ at' = [at EXCEPT ![r] = "idle"]
        /\ stored' = [snap[r] EXCEPT !.ports = ports[r]]
        /\ UNCHANGED <<dev, last, obj, cpc, draft, saves>>
    BY <1>9 DEF SavePatched, EndPatch, devVars, collVars
  <2>2. View' = View /\ \A q \in Requests : at'[q] = "idle"
    BY <1>0, <1>2, <2>1, ViewOfDevice
  <2>3. stored'.ports = View
    <3>1. snap[r] \in Snapshots /\ ports[r] \in Views
      BY <1>0, <2>1 DEF Maybe
    <3> QED BY <2>1, <3>1, NewPortsType
  <2> QED BY <1>2, <2>1, <2>2, <2>3 DEF PortsAgree
<1> QED BY <1>1, <1>3, <1>4, <1>5, <1>6, <1>7, <1>8, <1>9 DEF Patch

LEMMA CollectionClean ==
    ASSUME TypeInv, CleanInv, NEW c \in Collectors, Collection(c), clean'
    PROVE  OneWriter' /\ PatchOnCourse' /\ CollectOnCourse' /\ PortsAgree'
<1> USE DEF OneWriter, Active, Collecting, PatchOnCourse, CollectOnCourse,
            MemoryIsView, CleanInv
<1>0. /\ cpc \in [Collectors -> {"idle", "publish", "save"}]
      /\ obj \in [Collectors -> Maybe] /\ draft \in [Collectors -> Maybe]
      /\ saves \in [Collectors -> Collectors \union {NoObject}]
      /\ last \in Collectors \union {NoObject}
      /\ cpc[c] = "save" => saves[c] # NoObject
  BY DEF TypeInv, TypeOK, Present
<1>1. CASE Collect(c)
  <2>1. PICK v \in Readable(c, View), x \in Readable(c, rest) :
           /\ draft' = [draft EXCEPT ![c] = [ports |-> v, rest |-> x]]
           /\ clean' = (AloneAsCollector(c) /\ v # Missing)
    BY <1>1 DEF Collect
  <2>2. v = View /\ AloneAsCollector(c)
    BY <2>1 DEF Readable
  <2>3. at' = at /\ dev' = dev /\ cpc' = [cpc EXCEPT ![c] = "publish"]
    BY <1>1 DEF Collect, devVars, reqVars
  <2>4. /\ cpc'[c] = "publish" /\ draft'[c].ports = View'
        /\ \A d \in Collectors \ {c} : cpc'[d] = "idle"
        /\ \A r \in Requests : at'[r] = "idle"
    BY <1>0, <2>1, <2>2, <2>3, ViewOfDevice DEF AloneAsCollector
  <2> QED BY <2>4 DEF PortsAgree
<1>2. ASSUME clean, cpc[c] # "idle"
      PROVE  /\ \A d \in Collectors \ {c} : cpc[d] = "idle"
             /\ \A r \in Requests : at[r] = "idle"
  BY <1>2
<1>3. CASE Publish(c)
  <2>1. /\ clean /\ cpc[c] = "publish" /\ last' = c /\ saves' = [saves EXCEPT ![c] = c]
        /\ cpc' = [cpc EXCEPT ![c] = "save"] /\ at' = at /\ dev' = dev
    BY <1>3 DEF Publish, devVars, reqVars, histVars
  <2> DEFINE o == [obj EXCEPT ![c] = draft[c]]
  <2>2. o \in [Collectors -> Maybe] /\ o[c] = draft[c]
    BY <1>0
  <2>3. obj' = Kept(o, c, saves')
    BY <1>3 DEF Publish
  <2> HIDE DEF o
  <2>4. obj'[c].ports = View'
    BY <2>1, <2>2, <2>3, KeptType, ViewOfDevice
  <2>5. /\ cpc'[c] = "save" /\ saves'[c] = last'
        /\ \A d \in Collectors \ {c} : cpc'[d] = "idle"
        /\ \A r \in Requests : at'[r] = "idle"
    BY <1>0, <1>2, <2>1
  <2> QED BY <2>1, <2>4, <2>5 DEF PortsAgree
<1>4. CASE Save(c)
  <2>1. /\ clean /\ cpc[c] = "save" /\ cpc' = [cpc EXCEPT ![c] = "idle"]
        /\ stored' = obj[saves[c]] /\ obj' = Kept(obj, last, saves')
        /\ last' = last /\ at' = at /\ dev' = dev
    BY <1>4 DEF Save, EndCollect, devVars, reqVars
  <2>2. saves[c] = last /\ last \in Collectors /\ obj[last].ports = View
    BY <1>0, <2>1
  <2>3. stored'.ports = View' /\ obj'[last'].ports = View'
    BY <1>0, <2>1, <2>2, KeptType, ViewOfDevice
  <2>4. /\ \A d \in Collectors : cpc'[d] = "idle"
        /\ \A r \in Requests : at'[r] = "idle"
    BY <1>0, <1>2, <2>1
  <2> QED BY <2>3, <2>4 DEF PortsAgree
<1>5. CASE SaveFails(c)
  BY <1>5 DEF SaveFails
<1> QED BY <1>1, <1>3, <1>4, <1>5 DEF Collection

LEMMA OtherClean ==
    ASSUME TypeInv, CleanInv, clean',
           CollectStats \/ SessionEnds \/ RestChanges \/ Restart \/ UNCHANGED vars
    PROVE  OneWriter' /\ PatchOnCourse' /\ CollectOnCourse' /\ PortsAgree'
<1> USE DEF OneWriter, Active, Collecting, PatchOnCourse, CollectOnCourse,
            MemoryIsView, CleanInv
<1>1. CASE CollectStats
  <2>1. /\ clean /\ AloneAsCollector(Loop) /\ cpc[Loop] = "idle"
        /\ saves' = [saves EXCEPT ![Loop] = last]
        /\ cpc' = [cpc EXCEPT ![Loop] = "save"] /\ last # NoObject
        /\ UNCHANGED <<dev, at, last, obj>>
    BY <1>1 DEF CollectStats, devVars, reqVars
  <2>2. obj[last].ports = View
    BY <2>1 DEF AloneAsCollector, PortsAgree
  <2>3. /\ cpc'[Loop] = "save" /\ saves'[Loop] = last'
        /\ \A d \in Collectors \ {Loop} : cpc'[d] = "idle"
        /\ \A r \in Requests : at'[r] = "idle"
    BY <2>1, CollectorsAssumption DEF AloneAsCollector, TypeInv, TypeOK
  <2> QED BY <2>1, <2>2, <2>3, ViewOfDevice, CollectorsAssumption DEF PortsAgree
<1>2. CASE SessionEnds \/ RestChanges \/ UNCHANGED vars
  <2>1. /\ clean
        /\ UNCHANGED <<dev, stored, at, ports, cpc, draft, saves, last, obj>>
    BY <1>2 DEF SessionEnds, RestChanges, vars, devVars, collVars, reqVars, histVars
  <2> QED BY <2>1, ViewOfDevice DEF PortsAgree
<1>3. CASE Restart
  <2>1. /\ clean /\ (\A r \in Requests : at[r] = "idle")
        /\ (\A c \in Collectors : cpc[c] = "idle")
        /\ last' = NoObject /\ stored' = stored /\ dev' = dev
    BY <1>3 DEF Restart
  <2>2. /\ \A r \in Requests : at'[r] = "idle"
        /\ \A c \in Collectors : cpc'[c] = "idle"
    BY <1>3 DEF Restart
  <2> QED BY <2>1, <2>2, ViewOfDevice DEF PortsAgree
<1> QED BY <1>1, <1>2, <1>3

LEMMA StepClean == TypeInv /\ CleanInv /\ [Next]_vars => CleanInv'
<1> SUFFICES ASSUME TypeInv, CleanInv, [Next]_vars, clean'
             PROVE  OneWriter' /\ PatchOnCourse' /\ CollectOnCourse' /\ PortsAgree'
  BY DEF CleanInv
<1> QED BY PatchClean, CollectionClean, OtherClean DEF Next

(* When the last writer was alone and nothing failed, the stored snapshot  *)
(* and the one in memory show the ports as the device is set (PatchPort,   *)
(* RefreshPorts, collectFull and collectStats together).                   *)
THEOREM PortsStayAgreed == Spec => []PortsAgree
<1>1. Init => CleanInv
  BY DEF Init, CleanInv
<1>2. CleanInv => PortsAgree
  BY DEF CleanInv, PortsAgree
<1> QED BY <1>1, <1>2, StepClean, TypeInvariant, PTL DEF Spec
=============================================================================
