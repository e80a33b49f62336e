-------------------------- MODULE CollectionProofs --------------------------
(***************************************************************************)
(* Proofs about Collection: it is a WorkerPool, so what is proved of the   *)
(* pool holds while snapshots are collected; a worker's memory is its own; *)
(* every mark is covered by a collection and every collection by a mark,   *)
(* up to the two exceptions the histories cleared and leaked record; UI    *)
(* and metrics show the same snapshot after an undisturbed writer.         *)
(***************************************************************************)
EXTENDS Collection, WorkerPoolProofs

-----------------------------------------------------------------------------
(* Collection is a WorkerPool.                                             *)

(* The steps that leave the pool alone.                                    *)
LEMMA RunsLeavePool ==
    ASSUME NEW c \in Runs, Run(c) \/ \E s \in Switches : TriggerCollect(c, s)
    PROVE  UNCHANGED vars
BY DEF Run, MarkCollecting, LookupMisses, LookupFinds, RunReads, RunPublishes,
       RunFails, RunReturns, RunSaves, TriggerCollect

LEMMA LoopIsPoolLoop ==
    ASSUME NEW w \in Workers,
           \/ LoopLogsIn(w) \/ OnlyPool(LoginFails(w)) \/ SessionEnds(w) \/ Read(w)
           \/ OnlyPool(FullTick(w)) \/ OnlyPool(StatsTick(w)) \/ LoopExits(w)
    PROVE  Loop(w) \/ UNCHANGED vars
<1>1. CASE LoopReads(w)
  BY <1>1 DEF LoopReads
<1>2. CASE LoopPublishes(w) \/ LoopTakesLast(w)
  BY <1>2 DEF LoopPublishes, LoopTakesLast, Loop, Collect, Fetched
<1>3. CASE LoopSkips(w) \/ LoopSaves(w) \/ LoopSaveFails(w)
  BY <1>3 DEF LoopSkips, LoopSaves, LoopSaveFails, Loop, Collect
<1>4. CASE LoopLogsIn(w) \/ SessionEnds(w)
  BY <1>4 DEF LoopLogsIn, SessionEnds, Loop, Collect
<1> QED BY <1>1, <1>2, <1>3, <1>4 DEF Read, OnlyPool, LoopExits, Loop, Collect

LEMMA StepIsPoolStep == [CNext]_cvars => [Next]_vars
<1> SUFFICES ASSUME [CNext]_cvars PROVE [Next]_vars
  OBVIOUS
<1>1. CASE UNCHANGED cvars
  BY <1>1 DEF cvars
<1>2. CASE OnlyPool(Boot) \/ Load \/ OnlyPool(Serve) \/ Interrupt
  BY <1>2 DEF OnlyPool, Load, Interrupt, Next
<1>3. ASSUME NEW r \in Requests,
             OnlyPool(Request(r)) \/ StartAndCollect(r) \/ DropRowAndSnapshot(r)
      PROVE  Next
  <2>1. Begin(r) \/ Step(r)
    BY <1>3 DEF OnlyPool, Request, StartAndCollect, DropRowAndSnapshot, Step
  <2> QED BY <2>1 DEF Next
<1>4. ASSUME NEW w \in Workers,
             \/ LoopLogsIn(w) \/ OnlyPool(LoginFails(w)) \/ SessionEnds(w) \/ Read(w)
             \/ OnlyPool(FullTick(w)) \/ OnlyPool(StatsTick(w)) \/ LoopExits(w)
      PROVE  [Next]_vars
  BY <1>4, LoopIsPoolLoop DEF Next
<1>5. ASSUME NEW c \in Runs, Run(c) \/ \E s \in Switches : TriggerCollect(c, s)
      PROVE  UNCHANGED vars
  BY <1>5, RunsLeavePool
<1>6. ASSUME NEW s \in Switches, DeviceChanges(s) PROVE UNCHANGED vars
  BY <1>6 DEF DeviceChanges
<1> QED BY <1>1, <1>2, <1>3, <1>4, <1>5, <1>6 DEF CNext

(* Every behaviour of Collection is one of WorkerPool: what is proved of   *)
(* the pool (one loop per switch, no leaked loop, ...) holds here as well. *)
THEOREM CollectionIsPool == CSpec => Spec
<1>1. CInit => Init
  BY DEF CInit
<1> QED BY <1>1, StepIsPoolStep, PTL DEF CSpec, Spec

LEMMA CollectionKeepsPoolInv == CSpec => []PoolInv
BY CollectionIsPool, PoolInvariant, PTL

(* Also with its snapshots, immediate collections and marks the system     *)
(* implements "one loop per switch at a time" (Manager, worker.run).       *)
THEOREM CollectionImplementsSingleRunner == CSpec => ImplementsSingleRunner
BY CollectionIsPool, PoolImplementsSingleRunner, PTL

(* And where requests do not overlap, its workers run the stored           *)
(* configuration, whatever is collected meanwhile (manager.go:118).        *)
THEOREM CollectionRunsStoredConfig == CSpec => []AloneRunsStoredConfig
BY CollectionIsPool, StoredConfigRuns, PTL

-----------------------------------------------------------------------------
(* Types.                                                                  *)

LEMMA SettingsOfConfigs == \A c \in Configs : c.pwd \in Settings
BY DEF Configs, Settings

LEMMA ReadTypes ==
    ASSUME NEW s \in Switches, NEW set \in Settings, CTypeOK,
           NEW snap \in ReadWith(s, set)
    PROVE  snap \in Snapshots /\ snap.by = set /\ snap # NoSnap
BY NoSnapAssumption DEF ReadWith, Snapshots, CTypeOK

LEMMA LoopReadTypes ==
    ASSUME CTypeOK, NEW w \in Workers, NEW snap \in ReadBy(w)
    PROVE  snap \in Snapshots /\ snap.by = wcfg[w].pwd /\ snap # NoSnap
<1>1. wid[w] \in Switches /\ wcfg[w].pwd \in Settings
  BY SettingsOfConfigs DEF CTypeOK, TypeOK
<1>2. CASE w \in session
  BY <1>1, <1>2, ReadTypes DEF ReadBy
<1>3. CASE w \notin session
  BY <1>1, <1>3, NoSnapAssumption DEF ReadBy, Snapshots
<1> QED BY <1>2, <1>3

LEMMA CInitType == CInit => CTypeOK
BY InitInv, SomeTypes, MaxConfAssumption
   DEF CInit, NoRuns, CTypeOK, PoolInv, Maybe, RunSteps, Settings

(* The types of WorkerPool follow from CollectionIsPool; these are the     *)
(* ones of the variables Collection adds.                                  *)
DataOK == /\ conf \in [Switches -> 0 .. MaxConf]
          /\ session \subseteq Workers
          /\ last \in [Workers -> Maybe]
          /\ got \in [Workers -> Maybe]
          /\ saved \in [Switches -> Maybe]
          /\ mark \subseteq Switches
HistOK == /\ cleared \subseteq Runs
          /\ leaked \subseteq Switches
          /\ mixed \subseteq Switches
RunsOK == /\ rpc \in [Runs -> RunSteps]
          /\ ron \in [Runs -> Switches]
          /\ rw \in [Runs -> Workers \union {NoWorker}]
          /\ rset \in [Runs -> Settings]
          /\ rgot \in [Runs -> Maybe]

LEMMA TypeParts == CTypeOK <=> TypeOK /\ DataOK /\ HistOK /\ RunsOK
BY DEF CTypeOK, DataOK, HistOK, RunsOK

LEMMA LoopTypes ==
    ASSUME PoolInv, CTypeOK, NEW w \in Workers, Read(w) \/ LoopExits(w)
    PROVE  DataOK' /\ HistOK' /\ RunsOK'
<1> USE DEF DataOK, HistOK, RunsOK, Maybe, devVars
<1>1. wid[w] \in Switches /\ wcfg[w].pwd \in Settings
  BY SettingsOfConfigs DEF CTypeOK, TypeOK
<1>2. CASE LoopReads(w)
  <2>1. PICK snap \in ReadBy(w) : got' = [got EXCEPT ![w] = snap]
    BY <1>2 DEF LoopReads
  <2>2. snap \in Snapshots
    BY <2>1, LoopReadTypes
  <2> QED BY <1>2, <2>1, <2>2 DEF LoopReads, CTypeOK, runVars, histVars
<1>3. CASE LoopPublishes(w)
  BY <1>1, <1>3 DEF LoopPublishes, NotePublish, CTypeOK, runVars
<1>4. CASE LoopTakesLast(w)
  BY <1>1, <1>4 DEF LoopTakesLast, CTypeOK, runVars
<1>5. CASE LoopSkips(w)
  BY <1>5 DEF LoopSkips, CTypeOK, collVars, runVars, histVars
<1>6. CASE LoopSaves(w)
  BY <1>1, <1>6 DEF LoopSaves, UpsertSnapshot, CTypeOK, runVars
<1>7. CASE LoopSaveFails(w)
  BY <1>1, <1>7 DEF LoopSaveFails, UpsertFails, CTypeOK, runVars
<1>8. CASE LoopExits(w)
  BY <1>8 DEF LoopExits, CTypeOK, runVars
<1> QED BY <1>2, <1>3, <1>4, <1>5, <1>6, <1>7, <1>8 DEF Read

LEMMA RunTypes ==
    ASSUME PoolInv, CTypeOK, NEW c \in Runs, Run(c)
    PROVE  DataOK' /\ HistOK' /\ RunsOK'
<1> USE SomeTypes DEF DataOK, HistOK, RunsOK, Maybe, RunSteps, devVars
<1>1. ron[c] \in Switches /\ Blank \in Settings
  BY DEF CTypeOK, Settings
<1>2. CASE MarkCollecting(c)
  BY <1>1, <1>2 DEF MarkCollecting, CTypeOK, histVars
<1>3. CASE LookupMisses(c)
  BY <1>1, <1>3 DEF LookupMisses, EndRun, CTypeOK
<1>4. CASE LookupFinds(c)
  <2>1. pool[ron[c]] \in Workers
    BY <1>1, <1>4 DEF LookupFinds, CTypeOK, TypeOK
  <2>2. wcfg[pool[ron[c]]].pwd \in Settings
    BY <2>1, SettingsOfConfigs DEF CTypeOK, TypeOK
  <2> QED BY <1>1, <1>4, <2>1, <2>2 DEF LookupFinds, CTypeOK
<1>5. CASE RunReads(c)
  <2>1. PICK snap \in ReadWith(ron[c], rset[c]) : rgot' = [rgot EXCEPT ![c] = snap]
    BY <1>5 DEF RunReads
  <2>2. snap \in Snapshots
    BY <1>1, <2>1, ReadTypes DEF CTypeOK
  <2> QED BY <1>5, <2>1, <2>2 DEF RunReads, CTypeOK, histVars
<1>6. CASE RunPublishes(c)
  BY <1>1, <1>6 DEF RunPublishes, NotePublish, CTypeOK
<1>7. CASE RunFails(c)
  BY <1>1, <1>7 DEF RunFails, ClearMark, Others, CTypeOK
<1>8. CASE RunReturns(c)
  BY <1>1, <1>8 DEF RunReturns, ClearMark, Others, CTypeOK
<1>9. CASE RunSaves(c)
  BY <1>1, <1>9 DEF RunSaves, UpsertSnapshot, UpsertFails, EndRun, CTypeOK
<1> QED BY <1>2, <1>3, <1>4, <1>5, <1>6, <1>7, <1>8, <1>9 DEF Run

LEMMA PoolStepTypes ==
    ASSUME PoolInv, CTypeOK, NEW r \in Requests,
           StartAndCollect(r) \/ DropRowAndSnapshot(r)
    PROVE  DataOK' /\ HistOK' /\ RunsOK'
<1> USE DEF DataOK, HistOK, RunsOK, Maybe, devVars, RunSteps
<1>1. on[r] \in Switches
  BY DEF CTypeOK, TypeOK
<1>2. CASE StartAndCollect(r)
  BY <1>1, <1>2 DEF StartAndCollect, CTypeOK, runVars, histVars
<1>3. CASE DropRowAndSnapshot(r)
  BY <1>1, <1>3 DEF DropRowAndSnapshot, CTypeOK, runVars, histVars
<1> QED BY <1>2, <1>3

LEMMA TypesKept ==
    ASSUME PoolInv, CTypeOK, [CNext]_cvars
    PROVE  DataOK' /\ HistOK' /\ RunsOK'
<1>1. CASE UNCHANGED collVars
  BY <1>1 DEF collVars, devVars, runVars, histVars, CTypeOK, DataOK, HistOK, RunsOK
<1>2. CASE UNCHANGED cvars
  BY <1>1, <1>2 DEF cvars
<1>3. CASE OnlyPool(Boot) \/ Load \/ OnlyPool(Serve)
  BY <1>1, <1>3 DEF OnlyPool, Load
<1>4. CASE Interrupt
  BY <1>4, SomeTypes DEF Interrupt, CTypeOK, DataOK, HistOK, RunsOK, RunSteps, Maybe, Settings
<1>5. ASSUME NEW c \in Runs, NEW s \in Switches, TriggerCollect(c, s)
      PROVE  DataOK' /\ HistOK' /\ RunsOK'
  BY <1>5 DEF TriggerCollect, CTypeOK, DataOK, HistOK, RunsOK, RunSteps, devVars, histVars
<1>6. ASSUME NEW s \in Switches, DeviceChanges(s)
      PROVE  DataOK' /\ HistOK' /\ RunsOK'
  BY <1>6, MaxConfAssumption
     DEF DeviceChanges, CTypeOK, DataOK, HistOK, RunsOK, runVars, histVars
<1>7. ASSUME NEW w \in Workers,
             OnlyPool(LoginFails(w)) \/ OnlyPool(FullTick(w)) \/ OnlyPool(StatsTick(w))
      PROVE  UNCHANGED collVars
  BY <1>7 DEF OnlyPool
<1>8. ASSUME NEW r \in Requests, OnlyPool(Request(r)) PROVE UNCHANGED collVars
  BY <1>8 DEF OnlyPool
<1>9. ASSUME NEW w \in Workers, LoopLogsIn(w) \/ SessionEnds(w)
      PROVE  DataOK' /\ HistOK' /\ RunsOK'
  BY <1>9 DEF LoopLogsIn, SessionEnds, CTypeOK, DataOK, HistOK, RunsOK, runVars, histVars
<1> QED BY <1>1, <1>2, <1>3, <1>4, <1>5, <1>6, <1>7, <1>8, <1>9,
           LoopTypes, RunTypes, PoolStepTypes DEF CNext

(* Every variable of the composed system keeps its type.                   *)
THEOREM CollectionTypeCorrect == CSpec => []CTypeOK
<1>1. CInit => CTypeOK
  BY CInitType
<1>2. PoolInv /\ PoolInv' /\ CTypeOK /\ [CNext]_cvars => CTypeOK'
  BY TypesKept, TypeParts DEF PoolInv, CTypeOK, DataOK, HistOK, RunsOK
<1> QED BY <1>1, <1>2, CollectionKeepsPoolInv, PTL DEF CSpec

-----------------------------------------------------------------------------
(* Marks.  Both properties are inductive: a step touches the mark and the  *)
(* place of at most one run.                                               *)

LEMMA MarksUntouched ==
    ASSUME UnmarkedOnlyIfCleared, MarkHasRun,
           \A c \in Runs : Collecting(c)' <=> Collecting(c),
           \A c \in Runs : Collecting(c) => ron'[c] = ron[c],
           mark' = mark, leaked' = leaked, cleared' = cleared
    PROVE  UnmarkedOnlyIfCleared' /\ MarkHasRun'
BY DEF UnmarkedOnlyIfCleared, MarkHasRun

(* Run c of s starts to count, and s is marked.                            *)
LEMMA MarkSet ==
    ASSUME CTypeOK, UnmarkedOnlyIfCleared, MarkHasRun, NEW c \in Runs,
           NEW to \in {"lookup", "fetch"},
           rpc' = [rpc EXCEPT ![c] = to],
           ron' = ron, mark' = mark \union {ron[c]}, leaked' = leaked,
           cleared \ {c} \subseteq cleared'
    PROVE  UnmarkedOnlyIfCleared' /\ MarkHasRun'
<1>1. Collecting(c)' /\ \A d \in Runs \ {c} : Collecting(d)' <=> Collecting(d)
  BY DEF Collecting, CTypeOK
<1>2. UnmarkedOnlyIfCleared'
  BY <1>1 DEF UnmarkedOnlyIfCleared
<1>3. MarkHasRun'
  <2> SUFFICES ASSUME NEW s \in mark', s \notin leaked
               PROVE  \E d \in Runs : ron[d] = s /\ Collecting(d)'
    BY DEF MarkHasRun
  <2> QED BY <1>1 DEF MarkHasRun
<1> QED BY <1>2, <1>3

(* Run c of s stops to count, and the mark of s is cleared.                *)
LEMMA MarkCleared ==
    ASSUME CTypeOK, UnmarkedOnlyIfCleared, MarkHasRun, NEW c \in Runs,
           NEW to \in {"idle", "save"},
           rpc' = [rpc EXCEPT ![c] = to], ClearMark(c),
           \A d \in Runs \ {c} : ron'[d] = ron[d],
           (cleared \union Others(c)) \ {c} \subseteq cleared'
    PROVE  UnmarkedOnlyIfCleared' /\ MarkHasRun'
<1>1. ~Collecting(c)' /\ \A d \in Runs \ {c} : Collecting(d)' <=> Collecting(d)
  BY DEF Collecting, CTypeOK
<1>2. UnmarkedOnlyIfCleared'
  <2> SUFFICES ASSUME NEW d \in Runs \ {c}, Collecting(d), ron[d] \notin mark'
               PROVE  d \in cleared'
    BY <1>1 DEF UnmarkedOnlyIfCleared
  <2>1. CASE ron[d] = ron[c]
    BY <2>1 DEF Others, Collecting
  <2>2. CASE ron[d] # ron[c]
    BY <2>2 DEF ClearMark, UnmarkedOnlyIfCleared
  <2> QED BY <2>1, <2>2
<1>3. MarkHasRun'
  <2> SUFFICES ASSUME NEW s \in mark', s \notin leaked'
               PROVE  \E d \in Runs : ron'[d] = s /\ Collecting(d)'
    BY DEF MarkHasRun
  <2>1. s \in mark \ leaked /\ s # ron[c]
    BY DEF ClearMark
  <2>2. PICK d \in Runs : ron[d] = s /\ Collecting(d)
    BY <2>1 DEF MarkHasRun
  <2> QED BY <1>1, <2>1, <2>2
<1> QED BY <1>2, <1>3

LEMMA MarkRunStep ==
    ASSUME CTypeOK, UnmarkedOnlyIfCleared, MarkHasRun, NEW c \in Runs, Run(c)
    PROVE  UnmarkedOnlyIfCleared' /\ MarkHasRun'
<1>1. CASE MarkCollecting(c)
  BY <1>1, MarkSet DEF MarkCollecting, histVars
<1>2. CASE LookupFinds(c)
  BY <1>2, MarkSet DEF LookupFinds
<1>3. CASE LookupMisses(c)
  <2>1. ~Collecting(c)' /\ \A d \in Runs \ {c} : /\ Collecting(d)' <=> Collecting(d)
                                                 /\ ron'[d] = ron[d]
    BY <1>3 DEF LookupMisses, EndRun, Collecting, CTypeOK
  <2>2. UnmarkedOnlyIfCleared'
    BY <1>3, <2>1 DEF LookupMisses, EndRun, UnmarkedOnlyIfCleared
  <2>3. MarkHasRun'
    BY <1>3, <2>1 DEF LookupMisses, MarkHasRun
  <2> QED BY <2>2, <2>3
<1>4. CASE RunReads(c) \/ RunPublishes(c)
  <2>1. \A d \in Runs : Collecting(d)' <=> Collecting(d)
    BY <1>4 DEF RunReads, RunPublishes, Collecting, CTypeOK
  <2> QED BY <1>4, <2>1, MarksUntouched DEF RunReads, RunPublishes, histVars
<1>5. CASE RunFails(c)
  <2>1. \A d \in Runs \ {c} : ron'[d] = ron[d]
    BY <1>5 DEF RunFails, CTypeOK
  <2> QED BY <1>5, <2>1, MarkCleared DEF RunFails
<1>6. CASE RunReturns(c)
  BY <1>6, MarkCleared DEF RunReturns
<1>7. CASE RunSaves(c)
  <2>1. /\ ~Collecting(c) /\ ~Collecting(c)'
        /\ \A d \in Runs \ {c} : /\ Collecting(d)' <=> Collecting(d)
                                 /\ ron'[d] = ron[d]
    BY <1>7 DEF RunSaves, EndRun, Collecting, CTypeOK
  <2>2. UnmarkedOnlyIfCleared'
    BY <1>7, <2>1 DEF RunSaves, EndRun, UnmarkedOnlyIfCleared
  <2>3. MarkHasRun'
    BY <1>7, <2>1 DEF RunSaves, MarkHasRun
  <2> QED BY <2>2, <2>3
<1> QED BY <1>1, <1>2, <1>3, <1>4, <1>5, <1>6, <1>7 DEF Run

(* A handler that is about to mark its switch does not count yet.          *)
LEMMA MarkHandlerStep ==
    ASSUME CTypeOK, UnmarkedOnlyIfCleared, MarkHasRun,
           NEW c \in Runs, NEW s \in Switches, rpc[c] = "idle",
           rpc' = [rpc EXCEPT ![c] = "mark"], ron' = [ron EXCEPT ![c] = s],
           UNCHANGED <<mark, histVars>>
    PROVE  UnmarkedOnlyIfCleared' /\ MarkHasRun'
<1>1. \A d \in Runs : Collecting(d)' <=> Collecting(d)
  BY DEF Collecting, CTypeOK
<1>2. \A d \in Runs : Collecting(d) => ron'[d] = ron[d]
  BY DEF Collecting, CTypeOK
<1> QED BY <1>1, <1>2, MarksUntouched DEF histVars

LEMMA MarkStep ==
    ASSUME CTypeOK, UnmarkedOnlyIfCleared, MarkHasRun, [CNext]_cvars
    PROVE  UnmarkedOnlyIfCleared' /\ MarkHasRun'
<1>1. CASE UNCHANGED <<mark, runVars, cleared, leaked>>
  BY <1>1, MarksUntouched DEF runVars, Collecting
<1>2. CASE UNCHANGED cvars
  BY <1>1, <1>2 DEF cvars, collVars, histVars
<1>3. CASE OnlyPool(Boot) \/ Load \/ OnlyPool(Serve)
  BY <1>1, <1>3 DEF OnlyPool, Load, collVars, histVars
<1>4. CASE Interrupt
  BY <1>4 DEF Interrupt, UnmarkedOnlyIfCleared, MarkHasRun, Collecting
<1>5. ASSUME NEW r \in Requests,
             OnlyPool(Request(r)) \/ StartAndCollect(r) \/ DropRowAndSnapshot(r)
      PROVE  UnmarkedOnlyIfCleared' /\ MarkHasRun'
  <2>1. CASE OnlyPool(Request(r)) \/ DropRowAndSnapshot(r)
    BY <1>1, <2>1 DEF OnlyPool, DropRowAndSnapshot, collVars, histVars
  <2>2. CASE StartAndCollect(r)
    <3>1. CASE UNCHANGED runVars
      BY <1>1, <2>2, <3>1 DEF StartAndCollect, histVars
    <3>2. CASE \E c \in Runs : /\ rpc[c] = "idle"
                               /\ rpc' = [rpc EXCEPT ![c] = "mark"]
                               /\ ron' = [ron EXCEPT ![c] = on[r]]
      BY <2>2, <3>2, MarkHandlerStep DEF StartAndCollect, CTypeOK, TypeOK
    <3> QED BY <2>2, <3>1, <3>2 DEF StartAndCollect
  <2> QED BY <1>5, <2>1, <2>2
<1>6. ASSUME NEW w \in Workers,
             \/ LoopLogsIn(w) \/ OnlyPool(LoginFails(w)) \/ SessionEnds(w) \/ Read(w)
             \/ OnlyPool(FullTick(w)) \/ OnlyPool(StatsTick(w)) \/ LoopExits(w)
      PROVE  UNCHANGED <<mark, runVars, cleared, leaked>>
  BY <1>6 DEF OnlyPool, LoopLogsIn, SessionEnds, Read, LoopReads, LoopPublishes,
              LoopTakesLast, LoopSkips, LoopSaves, LoopSaveFails, LoopExits,
              collVars, histVars
<1>7. ASSUME NEW c \in Runs, NEW s \in Switches, TriggerCollect(c, s)
      PROVE  UnmarkedOnlyIfCleared' /\ MarkHasRun'
  BY <1>7, MarkHandlerStep DEF TriggerCollect
<1>8. ASSUME NEW s \in Switches, DeviceChanges(s)
      PROVE  UNCHANGED <<mark, runVars, cleared, leaked>>
  BY <1>8 DEF DeviceChanges, histVars
<1> QED BY <1>1, <1>2, <1>3, <1>4, <1>5, <1>6, <1>7, <1>8, MarkRunStep DEF CNext

LEMMA MarkInvariant == CSpec => [](UnmarkedOnlyIfCleared /\ MarkHasRun)
<1>1. CInit => UnmarkedOnlyIfCleared /\ MarkHasRun
  BY DEF CInit, NoRuns, UnmarkedOnlyIfCleared, MarkHasRun, Collecting
<1> QED BY <1>1, MarkStep, CollectionTypeCorrect, PTL DEF CSpec

(* While an immediate collection is under way the switch is marked, unless *)
(* another one of the same switch took the mark along (manager.go:164).    *)
THEOREM RunsAreMarked == CSpec => []UnmarkedOnlyIfCleared
BY MarkInvariant, PTL

(* A mark that no failed lookup left behind has a collection to clear it.  *)
THEOREM MarksHaveRuns == CSpec => []MarkHasRun
BY MarkInvariant, PTL

-----------------------------------------------------------------------------
(* Memory.  What a loop or a run carries was read with the settings of the *)
(* worker it will publish to, as long as that worker's loop runs; and the  *)
(* object a run refers to is not handed out again under its feet.          *)

LoopMemInv ==
    \A w \in Workers :
        /\ last[w] # NoSnap => Running(w) /\ last[w].by = wcfg[w].pwd
        /\ got[w] # NoSnap => /\ wst[w] \in {"full", "save"}
                             /\ got[w].by = wcfg[w].pwd

RunMemInv ==
    \A c \in Runs :
        /\ rpc[c] \in {"fetch", "publish"} =>
               /\ rw[c] \in Workers
               /\ Running(rw[c]) => rset[c] = wcfg[rw[c]].pwd
        /\ rpc[c] = "publish" => rgot[c].by = rset[c]

MemInv == LoopMemInv /\ RunMemInv

(* What the snapshots need of a pool step: a running worker keeps running  *)
(* with its settings, one that starts is not referred to, and a loop that  *)
(* carries a snapshot stays where it is.                                   *)
LEMMA PoolStepKeepsMemory ==
    ASSUME CTypeOK, MemInv, last' = last, got' = got,
           \A w \in Workers : Running(w) => Running(w)' /\ wcfg'[w] = wcfg[w],
           \A w \in Workers : got[w] # NoSnap => wst'[w] = wst[w],
           \A c \in Runs, w \in Workers : rw[c] = w /\ ~Running(w) => ~Running(w)',
           \A c \in Runs : rpc'[c] \in {"fetch", "publish"} =>
               /\ rpc'[c] = rpc[c] /\ rw'[c] = rw[c]
               /\ rset'[c] = rset[c] /\ rgot'[c] = rgot[c]
    PROVE  MemInv'
<1>1. LoopMemInv'
  <2> SUFFICES ASSUME NEW w \in Workers
               PROVE  /\ last[w] # NoSnap => Running(w)' /\ last[w].by = wcfg'[w].pwd
                      /\ got[w] # NoSnap => /\ wst'[w] \in {"full", "save"}
                                           /\ got[w].by = wcfg'[w].pwd
    BY DEF LoopMemInv
  <2>1. got[w] # NoSnap => Running(w)
    BY DEF MemInv, LoopMemInv, Running
  <2> QED BY <2>1 DEF MemInv, LoopMemInv
<1>2. RunMemInv'
  <2> SUFFICES ASSUME NEW c \in Runs, rpc'[c] \in {"fetch", "publish"}
               PROVE  /\ rw'[c] \in Workers
                      /\ wst'[rw[c]] # "exited" => rset'[c] = wcfg'[rw[c]].pwd
                      /\ rpc'[c] = "publish" => rgot'[c].by = rset'[c]
    BY DEF RunMemInv, Running
  <2>1. /\ rw[c] \in Workers
        /\ Running(rw[c]) => rset[c] = wcfg[rw[c]].pwd
        /\ rpc[c] = "publish" => rgot[c].by = rset[c]
    BY DEF MemInv, RunMemInv
  <2>2. wst'[rw[c]] # "exited" => Running(rw[c]) /\ wcfg'[rw[c]] = wcfg[rw[c]]
    BY <2>1 DEF Running
  <2> QED BY <2>1, <2>2
<1> QED BY <1>1, <1>2 DEF MemInv

(* Steps that leave every worker object alone.                             *)
LEMMA QuietPoolStep ==
    ASSUME CTypeOK, MemInv, UNCHANGED <<last, got, runVars, wcfg, wst>>
    PROVE  MemInv'
BY PoolStepKeepsMemory DEF Running, runVars

LEMMA AdvanceKeepsMemory ==
    ASSUME CTypeOK, MemInv, NEW w \in Workers,
           NEW from \in {"login", "select"}, NEW to \in LoopStates \ {"exited"},
           Advance(w, from, to), UNCHANGED <<last, got, runVars>>
    PROVE  MemInv'
<1>1. wst[w] = from /\ wst' = [wst EXCEPT ![w] = to] /\ wcfg' = wcfg
  BY DEF Advance
<1>2. \A v \in Workers : Running(v)' <=> Running(v)
  BY <1>1 DEF CTypeOK, TypeOK, Running
<1>3. got[w] = NoSnap
  BY <1>1 DEF MemInv, LoopMemInv
<1>4. \A v \in Workers : got[v] # NoSnap => wst'[v] = wst[v]
  BY <1>1, <1>3 DEF CTypeOK, TypeOK
<1> QED BY <1>1, <1>2, <1>4, PoolStepKeepsMemory DEF runVars

LEMMA AddKeepsMemory ==
    ASSUME CTypeOK, MemInv, NEW s \in Switches, NEW cfg \in Configs,
           AddIfAbsent(s, cfg), last' = last, got' = got,
           \A c \in Runs, w \in Workers : rw[c] = w /\ ~Running(w) => wst'[w] = wst[w],
           \A c \in Runs : rpc'[c] \in {"fetch", "publish"} =>
               /\ rpc'[c] = rpc[c] /\ rw'[c] = rw[c]
               /\ rset'[c] = rset[c] /\ rgot'[c] = rgot[c]
    PROVE  MemInv'
<1>1. CASE UNCHANGED workerVars
  BY <1>1, PoolStepKeepsMemory DEF workerVars, Running
<1>2. CASE Add(s, cfg)
  <2>1. PICK w \in Workers :
            /\ ~Running(w)
            /\ wcfg' = [wcfg EXCEPT ![w] = cfg]
            /\ wst' = [wst EXCEPT ![w] = "login"]
    BY <1>2 DEF Add, Unreferenced
  <2>2. \A v \in Workers \ {w} : wst'[v] = wst[v] /\ wcfg'[v] = wcfg[v]
    BY <2>1 DEF CTypeOK, TypeOK
  <2>3. wst'[w] = "login" /\ wst[w] = "exited"
    BY <2>1 DEF CTypeOK, TypeOK, Running
  <2>4. got[w] = NoSnap
    BY <2>3 DEF MemInv, LoopMemInv
  <2>5. \A v \in Workers : Running(v) => Running(v)' /\ wcfg'[v] = wcfg[v]
    BY <2>1, <2>2 DEF Running
  <2>6. \A v \in Workers : got[v] # NoSnap => wst'[v] = wst[v]
    BY <2>2, <2>4
  <2>7. \A c \in Runs, v \in Workers : rw[c] = v /\ ~Running(v) => ~Running(v)'
    BY DEF Running
  <2> QED BY <2>5, <2>6, <2>7, PoolStepKeepsMemory
<1> QED BY <1>1, <1>2 DEF AddIfAbsent

LEMMA LoopKeepsMemory ==
    ASSUME CTypeOK, MemInv, NEW w \in Workers, Read(w) \/ LoopExits(w)
    PROVE  MemInv'
<1>1. wid[w] \in Switches /\ wcfg[w].pwd \in Settings
  BY SettingsOfConfigs DEF CTypeOK, TypeOK
<1>2. CASE LoopReads(w)
  <2>1. PICK snap \in ReadBy(w) : got' = [got EXCEPT ![w] = snap]
    BY <1>2 DEF LoopReads
  <2>2. snap.by = wcfg[w].pwd
    BY <2>1, LoopReadTypes
  <2>3. LoopMemInv'
    BY <1>2, <2>1, <2>2 DEF LoopReads, vars, workerVars, CTypeOK, MemInv,
                            LoopMemInv, Running
  <2>4. RunMemInv'
    BY <1>2 DEF LoopReads, vars, workerVars, runVars, MemInv, RunMemInv, Running
  <2> QED BY <2>3, <2>4 DEF MemInv
<1>3. CASE LoopPublishes(w) \/ LoopTakesLast(w) \/ LoopSkips(w)
           \/ LoopSaves(w) \/ LoopSaveFails(w)
  <2>1. PICK from \in {"full", "stats", "save"}, to \in {"save", "select"} :
            Advance(w, from, to)
    BY <1>3 DEF LoopPublishes, LoopTakesLast, LoopSkips, LoopSaves, LoopSaveFails,
                Saved, FetchSkipped
  <2>2. /\ Running(w) /\ wst' = [wst EXCEPT ![w] = to] /\ wcfg' = wcfg
        /\ \A v \in Workers : Running(v)' <=> Running(v)
    BY <2>1 DEF Advance, CTypeOK, TypeOK, Running
  <2>3. UNCHANGED runVars
    BY <1>3 DEF LoopPublishes, LoopTakesLast, LoopSkips, LoopSaves, LoopSaveFails,
                collVars
  <2>4. RunMemInv'
    BY <2>2, <2>3 DEF MemInv, RunMemInv, runVars, Running
  <2>5. \A v \in Workers \ {w} : /\ wst'[v] = wst[v]
                                /\ last'[v] = last[v] /\ got'[v] = got[v]
    BY <1>3, <2>2 DEF LoopPublishes, LoopTakesLast, LoopSkips, LoopSaves,
                      LoopSaveFails, CTypeOK, TypeOK, collVars
  <2>6. /\ last'[w] # NoSnap => last'[w].by = wcfg[w].pwd
        /\ got'[w] # NoSnap => wst'[w] = "save" /\ got'[w].by = wcfg[w].pwd
    <3>1. CASE LoopPublishes(w)
      BY <3>1 DEF LoopPublishes, Advance, CTypeOK, TypeOK, MemInv, LoopMemInv
    <3>2. CASE LoopTakesLast(w)
      BY <3>2 DEF LoopTakesLast, Advance, CTypeOK, TypeOK, MemInv, LoopMemInv
    <3>3. CASE LoopSkips(w)
      BY <3>3 DEF LoopSkips, collVars, MemInv, LoopMemInv
    <3>4. CASE LoopSaves(w) \/ LoopSaveFails(w)
      BY <3>4 DEF LoopSaves, LoopSaveFails, CTypeOK, MemInv, LoopMemInv
    <3> QED BY <1>3, <3>1, <3>2, <3>3, <3>4
  <2>7. LoopMemInv'
    BY <2>2, <2>5, <2>6 DEF MemInv, LoopMemInv, Running
  <2> QED BY <2>4, <2>7 DEF MemInv
<1>4. CASE LoopExits(w)
  <2>1. /\ wst[w] = "select" /\ wst' = [wst EXCEPT ![w] = "exited"] /\ wcfg' = wcfg
        /\ last' = [last EXCEPT ![w] = NoSnap] /\ got' = got /\ UNCHANGED runVars
    BY <1>4 DEF LoopExits, Exit, Advance
  <2>2. \A v \in Workers : Running(v)' <=> v # w /\ Running(v)
    BY <2>1 DEF CTypeOK, TypeOK, Running
  <2>3. got[w] = NoSnap
    BY <2>1 DEF MemInv, LoopMemInv
  <2>4. LoopMemInv'
    BY <2>1, <2>2, <2>3 DEF CTypeOK, TypeOK, MemInv, LoopMemInv
  <2>5. RunMemInv'
    BY <2>1, <2>2 DEF MemInv, RunMemInv, runVars
  <2> QED BY <2>4, <2>5 DEF MemInv
<1> QED BY <1>2, <1>3, <1>4 DEF Read
LEMMA RunKeepsMemory ==
    ASSUME PoolInv, CTypeOK, MemInv, NEW c \in Runs, Run(c)
    PROVE  MemInv'
<1>1. UNCHANGED vars
  BY RunsLeavePool
<1>2. /\ wst' = wst /\ wcfg' = wcfg
      /\ \A w \in Workers : Running(w)' <=> Running(w)
  BY <1>1 DEF vars, workerVars, Running
<1>3. \A d \in Runs \ {c} : /\ rpc'[d] = rpc[d] /\ rw'[d] = rw[d]
                           /\ rset'[d] = rset[d] /\ rgot'[d] = rgot[d]
  BY DEF Run, MarkCollecting, LookupMisses, LookupFinds, RunReads, RunPublishes,
         RunFails, RunReturns, RunSaves, EndRun, CTypeOK
<1>4. got' = got
  BY DEF Run, MarkCollecting, LookupMisses, LookupFinds, RunReads, RunPublishes,
         RunFails, RunReturns, RunSaves
<1>5. LoopMemInv'
  <2>1. CASE last' = last
    BY <1>2, <1>4, <2>1 DEF MemInv, LoopMemInv
  <2>2. CASE RunPublishes(c)
    <3>1. /\ rw[c] \in Workers
          /\ Running(rw[c]) => rgot[c].by = wcfg[rw[c]].pwd
      BY <2>2 DEF RunPublishes, MemInv, RunMemInv
    <3>2. CASE Running(rw[c])
      BY <1>2, <1>4, <2>2, <3>1, <3>2
         DEF RunPublishes, Target, CTypeOK, MemInv, LoopMemInv
    <3>3. CASE ~Running(rw[c])
      BY <2>1, <2>2, <3>3 DEF RunPublishes, Target
    <3> QED BY <3>2, <3>3
  <2> QED BY <2>1, <2>2 DEF Run, MarkCollecting, LookupMisses, LookupFinds, RunReads,
                            RunFails, RunReturns, RunSaves
<1>6. /\ rpc'[c] \in {"fetch", "publish"} =>
             /\ rw'[c] \in Workers
             /\ rset'[c] = wcfg[rw'[c]].pwd \/ ~(wst[rw'[c]] # "exited")
      /\ rpc'[c] = "publish" => rgot'[c].by = rset'[c]
  <2>1. CASE LookupFinds(c)
    BY <2>1 DEF LookupFinds, CTypeOK, TypeOK
  <2>2. CASE RunReads(c)
    <3>1. PICK snap \in ReadWith(ron[c], rset[c]) : rgot' = [rgot EXCEPT ![c] = snap]
      BY <2>2 DEF RunReads
    <3>2. snap.by = rset[c]
      BY <3>1, ReadTypes DEF CTypeOK
    <3> QED BY <2>2, <3>1, <3>2 DEF RunReads, CTypeOK, MemInv, RunMemInv, Running
  <2>3. CASE \/ MarkCollecting(c) \/ LookupMisses(c) \/ RunPublishes(c)
             \/ RunFails(c) \/ RunReturns(c) \/ RunSaves(c)
    BY <2>3 DEF MarkCollecting, LookupMisses, RunPublishes, RunFails, RunReturns,
                RunSaves, EndRun, CTypeOK
  <2> QED BY <2>1, <2>2, <2>3 DEF Run
<1>7. RunMemInv'
  <2> SUFFICES ASSUME NEW d \in Runs
               PROVE  /\ rpc'[d] \in {"fetch", "publish"} =>
                            /\ rw'[d] \in Workers
                            /\ wst[rw'[d]] # "exited" => rset'[d] = wcfg[rw'[d]].pwd
                      /\ rpc'[d] = "publish" => rgot'[d].by = rset'[d]
    BY <1>2 DEF RunMemInv, Running
  <2>1. CASE d = c
    BY <1>6, <2>1
  <2>2. CASE d # c
    BY <1>3, <2>2 DEF MemInv, RunMemInv, Running
  <2> QED BY <2>1, <2>2
<1> QED BY <1>5, <1>7 DEF MemInv

LEMMA RequestKeepsMemory ==
    ASSUME PoolInv, CTypeOK, MemInv, NEW r \in Requests,
           OnlyPool(Request(r)) \/ StartAndCollect(r) \/ DropRowAndSnapshot(r)
    PROVE  MemInv'
<1>1. CASE OnlyPool(WaitStopped(r))
  <2>1. /\ ~Running(held[r]) /\ wst' = wst
        /\ wcfg' = [wcfg EXCEPT ![held[r]] = SomeConfig]
        /\ UNCHANGED <<last, got, runVars>>
    BY <1>1 DEF OnlyPool, WaitStopped, collVars
  <2>2. \A w \in Workers : /\ Running(w)' <=> Running(w)
                           /\ Running(w) => wcfg'[w] = wcfg[w]
    BY <2>1 DEF CTypeOK, TypeOK, Running
  <2> QED BY <2>1, <2>2, PoolStepKeepsMemory DEF runVars
<1>2. CASE \/ OnlyPool(Begin(r)) \/ OnlyPool(UpdateTake(r))
           \/ OnlyPool(UpdateNotPooled(r)) \/ OnlyPool(CloseStop(r))
           \/ DropRowAndSnapshot(r)
  BY <1>2, QuietPoolStep
     DEF OnlyPool, Begin, BeginAdd, BeginUpdate, BeginDelete, UpdateTake,
         UpdateNotPooled, CloseStop, DropRowAndSnapshot, DropRow, workerVars, collVars
<1>3. CASE StartAndCollect(r)
  <2>1. /\ AddIfAbsent(on[r], want[r]) /\ last' = last /\ got' = got
        /\ \A c \in Runs, w \in Workers : rw[c] = w /\ ~Running(w) => wst'[w] = wst[w]
    BY <1>3 DEF StartAndCollect, StartWorker, NewWorker
  <2>2. \A c \in Runs : rpc'[c] \in {"fetch", "publish"} =>
            /\ rpc'[c] = rpc[c] /\ rw'[c] = rw[c]
            /\ rset'[c] = rset[c] /\ rgot'[c] = rgot[c]
    BY <1>3 DEF StartAndCollect, CTypeOK, runVars
  <2>3. on[r] \in Switches /\ want[r] \in Configs
    BY DEF CTypeOK, TypeOK
  <2> QED BY <2>1, <2>2, <2>3, AddKeepsMemory
<1> QED BY <1>1, <1>2, <1>3 DEF OnlyPool, Request

LEMMA ProcessKeepsMemory ==
    ASSUME PoolInv, CTypeOK, MemInv,
           OnlyPool(Boot) \/ Load \/ OnlyPool(Serve) \/ Interrupt
    PROVE  MemInv'
<1>1. CASE OnlyPool(Boot) \/ OnlyPool(Serve)
  BY <1>1, QuietPoolStep DEF OnlyPool, Boot, Serve, workerVars, collVars
<1>2. CASE Load
  <2>1. PICK s \in todo : AddIfAbsent(s, row[s])
    BY <1>2 DEF Load, LoadOne
  <2>2. s \in Switches /\ row[s] \in Configs
    BY <2>1 DEF PoolInv, TypeOK, PhaseInv
  <2>3. /\ \A c \in Runs, w \in Workers : rw[c] = w /\ ~Running(w) => wst'[w] = wst[w]
        /\ UNCHANGED <<last, got, runVars>>
    BY <1>2 DEF Load, NewWorker, collVars
  <2> QED BY <2>1, <2>2, <2>3, AddKeepsMemory DEF runVars
<1>3. CASE Interrupt
  BY <1>3 DEF Interrupt, MemInv, LoopMemInv, RunMemInv
<1> QED BY <1>1, <1>2, <1>3

LEMMA MemStep ==
    ASSUME PoolInv, CTypeOK, MemInv, [CNext]_cvars
    PROVE  MemInv'
<1>1. CASE UNCHANGED cvars
  BY <1>1, QuietPoolStep DEF cvars, vars, workerVars, collVars
<1>2. ASSUME NEW w \in Workers,
             \/ LoopLogsIn(w) \/ OnlyPool(LoginFails(w))
             \/ OnlyPool(FullTick(w)) \/ OnlyPool(StatsTick(w))
      PROVE  MemInv'
  <2>1. PICK from \in {"login", "select"}, to \in LoopStates \ {"exited"} :
            Advance(w, from, to)
    BY <1>2 DEF OnlyPool, LoopLogsIn, LoginOk, LoginFails, FullTick, StatsTick,
                LoopStates
  <2> QED BY <1>2, <2>1, AdvanceKeepsMemory DEF OnlyPool, LoopLogsIn, collVars
<1>3. ASSUME NEW c \in Runs, NEW s \in Switches, TriggerCollect(c, s)
      PROVE  MemInv'
  <2>1. UNCHANGED <<vars, last, got, rw, rset, rgot>>
    BY <1>3 DEF TriggerCollect
  <2>2. \A d \in Runs : rpc'[d] \in {"fetch", "publish"} => rpc'[d] = rpc[d]
    BY <1>3 DEF TriggerCollect, CTypeOK
  <2>3. /\ \A w \in Workers : Running(w)' <=> Running(w)
        /\ UNCHANGED <<wst, wcfg>>
    BY <2>1 DEF vars, workerVars, Running
  <2> QED BY <2>1, <2>2, <2>3, PoolStepKeepsMemory
<1>4. ASSUME NEW s \in Switches, DeviceChanges(s) PROVE MemInv'
  BY <1>4, QuietPoolStep DEF DeviceChanges, vars, workerVars
<1>5. ASSUME NEW w \in Workers, SessionEnds(w) PROVE MemInv'
  BY <1>5, QuietPoolStep DEF SessionEnds, vars, workerVars
<1> QED BY <1>1, <1>2, <1>3, <1>4, <1>5, LoopKeepsMemory, RunKeepsMemory,
           RequestKeepsMemory, ProcessKeepsMemory DEF CNext

LEMMA MemInvariant == CSpec => []MemInv
<1>1. CInit => MemInv
  BY DEF CInit, NoRuns, MemInv, LoopMemInv, RunMemInv
<1> QED BY <1>1, MemStep, CollectionKeepsPoolInv, CollectionTypeCorrect, PTL
        DEF CSpec

(* For any number of switches, requests and collections: what a worker has *)
(* in memory was read with that worker's own settings.                     *)
THEOREM MemoryStaysOwn == CSpec => []MemoryIsOwn
<1>1. MemInv => MemoryIsOwn
  BY DEF MemInv, LoopMemInv, MemoryIsOwn
<1> QED BY <1>1, MemInvariant, PTL
-----------------------------------------------------------------------------
(* The saved snapshot and the one in memory.  At a switch that is not      *)
(* mixed, and whose pooled worker has a snapshot, one writer at most has   *)
(* published without having saved, and it is about to save what memory     *)
(* shows; when there is none, that has been saved.                         *)

Shown(s) == row[s] # NoRow /\ pool[s] # NoWorker /\ last[pool[s]] # NoSnap

AgreesAt(s) ==
    /\ \A w \in LoopUnsaved(s) : w = pool[s] /\ got[w] = last[w]
    /\ \A c \in RunsUnsaved(s) : rgot[c] = last[pool[s]]
    /\ \A c, d \in RunsUnsaved(s) : c = d
    /\ LoopUnsaved(s) = {} \/ RunsUnsaved(s) = {}
    /\ LoopUnsaved(s) = {} /\ RunsUnsaved(s) = {} => saved[s] = last[pool[s]]

AgreeInv == \A s \in Switches \ mixed : Shown(s) => AgreesAt(s)

(* A run publishes to a worker of the switch it collects, if that worker's *)
(* loop still runs.                                                        *)
HomeInv ==
    \A c \in Runs : rpc[c] \in {"fetch", "publish"} /\ Running(rw[c]) =>
        wid[rw[c]] = ron[c]

LEMMA LoopKeepsSwitch ==
    ASSUME PoolInv, [Next]_vars, NEW w \in Workers, Running(w), Running(w)'
    PROVE  wid'[w] = wid[w]
<1> USE DEF PoolInv, TypeOK
<1>1. CASE wid' = wid
  BY <1>1
<1>2. ASSUME NEW s \in Switches, NEW c \in Configs, Add(s, c)
      PROVE  wid'[w] = wid[w]
  BY <1>2 DEF Add, Unreferenced
<1>3. ASSUME NEW r \in Requests, Begin(r) \/ Step(r) PROVE wid'[w] = wid[w]
  <2>1. CASE WaitStopped(r)
    BY <2>1 DEF WaitStopped
  <2>2. CASE StartWorker(r)
    BY <1>2, <2>2 DEF StartWorker, AddIfAbsent, workerVars
  <2> QED BY <1>3, <2>1, <2>2
          DEF Begin, BeginAdd, BeginUpdate, BeginDelete, Step, UpdateTake,
              UpdateNotPooled, CloseStop, DropRow, workerVars
<1>4. CASE LoadOne
  <2>1. PICK s \in todo : AddIfAbsent(s, row[s])
    BY <1>4 DEF LoadOne
  <2>2. s \in Switches /\ row[s] \in Configs
    BY <2>1 DEF PhaseInv
  <2> QED BY <1>2, <2>1, <2>2 DEF AddIfAbsent, workerVars
<1>5. CASE Crash
  BY <1>5 DEF Crash, Running
<1>6. ASSUME NEW v \in Workers, Loop(v) PROVE wid' = wid
  BY <1>6 DEF Loop, Collect, LoginOk, LoginFails, FullTick, StatsTick, Fetched,
              FetchSkipped, Saved, Exit, Advance
<1> QED BY <1>1, <1>3, <1>4, <1>5, <1>6 DEF Next, Boot, Serve, vars, workerVars

(* What starts to run is no object a run refers to.                        *)
LEMMA StartedIsNew ==
    ASSUME PoolInv, CTypeOK, [CNext]_cvars,
           NEW w \in Workers, ~Running(w), Running(w)'
    PROVE  \A c \in Runs : rw[c] # w
<1>1. CASE NewWorker
  BY <1>1 DEF NewWorker, Running
<1>2. wst'[w] # wst[w]
  BY DEF Running
<1>3. ASSUME NEW v \in Workers, NEW from \in LoopStates, NEW to \in LoopStates,
             from # "exited", Advance(v, from, to)
      PROVE  FALSE
  BY <1>3 DEF Advance, Running, CTypeOK, TypeOK
<1>4. ASSUME NEW v \in Workers,
             \/ LoopLogsIn(v) \/ OnlyPool(LoginFails(v)) \/ SessionEnds(v) \/ Read(v)
             \/ OnlyPool(FullTick(v)) \/ OnlyPool(StatsTick(v)) \/ LoopExits(v)
      PROVE  FALSE
  <2>1. CASE LoopReads(v) \/ SessionEnds(v)
    BY <1>2, <2>1 DEF LoopReads, SessionEnds, vars, workerVars
  <2> QED BY <1>3, <1>4, <2>1
          DEF OnlyPool, LoopLogsIn, LoginOk, LoginFails, FullTick, StatsTick, Read,
              LoopPublishes, LoopTakesLast, LoopSkips, FetchSkipped, LoopSaves, LoopSaveFails, Saved,
              LoopExits, Exit, LoopStates
<1>5. ASSUME NEW r \in Requests, OnlyPool(Request(r)) \/ DropRowAndSnapshot(r)
      PROVE  FALSE
  BY <1>2, <1>5
     DEF OnlyPool, Request, Begin, BeginAdd, BeginUpdate, BeginDelete, UpdateTake,
         UpdateNotPooled, CloseStop, WaitStopped, DropRowAndSnapshot, DropRow,
         workerVars
<1>6. ASSUME OnlyPool(Boot) \/ OnlyPool(Serve) \/ Interrupt PROVE FALSE
  BY <1>2, <1>6 DEF OnlyPool, Boot, Serve, Interrupt, Crash, Running, workerVars
<1>7. ASSUME UNCHANGED vars PROVE FALSE
  BY <1>2, <1>7 DEF vars, workerVars
<1> QED BY <1>1, <1>4, <1>5, <1>6, <1>7, RunsLeavePool
        DEF CNext, Load, StartAndCollect, DeviceChanges, cvars

LEMMA HomeStep ==
    ASSUME PoolInv, CTypeOK, MemInv, HomeInv, [CNext]_cvars
    PROVE  HomeInv'
<1> SUFFICES ASSUME NEW c \in Runs, rpc'[c] \in {"fetch", "publish"}, Running(rw[c])'
             PROVE  wid'[rw'[c]] = ron'[c]
  BY DEF HomeInv
<1>1. CASE LookupFinds(c)
  <2>1. /\ pool[ron[c]] # NoWorker /\ rw'[c] = pool[ron[c]] /\ ron' = ron
        /\ wid' = wid
    BY <1>1 DEF LookupFinds, CTypeOK, vars, workerVars
  <2> QED BY <2>1 DEF PoolInv, PooledInv, CTypeOK
<1>2. CASE /\ rpc[c] \in {"fetch", "publish"}
           /\ rw'[c] = rw[c] /\ ron'[c] = ron[c]
  <2>1. rw[c] \in Workers
    BY <1>2 DEF MemInv, RunMemInv
  <2>2. Running(rw[c])
    BY <1>2, <2>1, StartedIsNew DEF Running
  <2>3. wid'[rw[c]] = wid[rw[c]]
    BY <1>2, <2>1, <2>2, LoopKeepsSwitch, StepIsPoolStep DEF Running
  <2> QED BY <1>2, <2>2, <2>3 DEF HomeInv
<1>3. CASE UNCHANGED runVars
  BY <1>2, <1>3 DEF runVars
<1>4. ASSUME NEW d \in Runs, Run(d)
      PROVE  wid'[rw'[c]] = ron'[c]
  <2>1. \/ d = c /\ LookupFinds(c)
        \/ /\ rpc[c] \in {"fetch", "publish"}
           /\ rw'[c] = rw[c] /\ ron'[c] = ron[c]
    BY <1>4 DEF Run, MarkCollecting, LookupMisses, LookupFinds, RunReads, RunPublishes,
                RunFails, RunReturns, RunSaves, EndRun, CTypeOK
  <2> QED BY <1>1, <1>2, <2>1
<1>5. ASSUME NEW d \in Runs, NEW s \in Switches, rpc[d] = "idle",
             rpc' = [rpc EXCEPT ![d] = "mark"], ron' = [ron EXCEPT ![d] = s],
             rw' = rw
      PROVE  wid'[rw'[c]] = ron'[c]
  BY <1>2, <1>5 DEF CTypeOK
<1>6. ASSUME NEW r \in Requests, StartAndCollect(r) PROVE wid'[rw'[c]] = ron'[c]
  BY <1>3, <1>5, <1>6 DEF StartAndCollect, CTypeOK, TypeOK
<1>7. CASE Interrupt
  BY <1>7 DEF Interrupt
<1>8. ASSUME NEW w \in Workers,
             \/ LoopLogsIn(w) \/ OnlyPool(LoginFails(w)) \/ SessionEnds(w) \/ Read(w)
             \/ OnlyPool(FullTick(w)) \/ OnlyPool(StatsTick(w)) \/ LoopExits(w)
      PROVE  UNCHANGED runVars
  BY <1>8 DEF OnlyPool, LoopLogsIn, SessionEnds, Read, LoopReads, LoopPublishes,
              LoopTakesLast, LoopSkips, LoopSaves, LoopSaveFails, LoopExits, collVars
<1>9. ASSUME NEW d \in Runs, NEW s \in Switches, TriggerCollect(d, s)
      PROVE  wid'[rw'[c]] = ron'[c]
  BY <1>5, <1>9 DEF TriggerCollect
<1> QED BY <1>3, <1>4, <1>6, <1>7, <1>8, <1>9
        DEF CNext, OnlyPool, Load, DropRowAndSnapshot, DeviceChanges, cvars, collVars

LEMMA AgreeUntouched ==
    ASSUME NEW s \in Switches, Shown(s) => AgreesAt(s),
           Shown(s)' => Shown(s) /\ pool'[s] = pool[s] /\ saved'[s] = saved[s],
           Shown(s)' => last'[pool[s]] = last[pool[s]],
           LoopUnsaved(s)' = LoopUnsaved(s),
           \A w \in LoopUnsaved(s) : got'[w] = got[w],
           RunsUnsaved(s)' = RunsUnsaved(s),
           \A c \in RunsUnsaved(s) : rgot'[c] = rgot[c]
    PROVE  Shown(s)' => AgreesAt(s)'
<1> SUFFICES ASSUME Shown(s)' PROVE AgreesAt(s)'
  OBVIOUS
<1>1. /\ AgreesAt(s)
      /\ pool'[s] = pool[s] /\ saved'[s] = saved[s] /\ last'[pool[s]] = last[pool[s]]
  OBVIOUS
<1>2. \A w \in LoopUnsaved(s)' : w = pool'[s] /\ got'[w] = last'[w]
  BY <1>1 DEF AgreesAt
<1>3. \A c \in RunsUnsaved(s)' : rgot'[c] = last'[pool'[s]]
  BY <1>1 DEF AgreesAt
<1>4. \A c, d \in RunsUnsaved(s)' : c = d
  BY <1>1 DEF AgreesAt
<1>5. /\ LoopUnsaved(s)' = {} \/ RunsUnsaved(s)' = {}
      /\ LoopUnsaved(s)' = {} /\ RunsUnsaved(s)' = {} => saved'[s] = last'[pool'[s]]
  BY <1>1 DEF AgreesAt
<1> QED BY <1>2, <1>3, <1>4, <1>5 DEF AgreesAt

(* A pool step shows no switch that was not shown: a new worker has no     *)
(* snapshot yet and a new row no worker.                                   *)
LEMMA PoolStepShows ==
    ASSUME PoolInv, CTypeOK, MemInv, last' = last, NEW s \in Switches,
           \/ Boot \/ LoadOne \/ Serve
           \/ \E r \in Requests : Begin(r) \/ Step(r)
    PROVE  /\ Shown(s)' => Shown(s) /\ pool'[s] = pool[s]
           /\ LoopUnsaved(s)' = LoopUnsaved(s)
<1> USE DEF PoolInv, TypeOK
<1>1. CASE UNCHANGED <<row, pool, wid, wst>>
  BY <1>1 DEF Shown, LoopUnsaved
<1>2. ASSUME NEW t \in Switches, NEW c \in Configs, Add(t, c), row' = row
      PROVE  /\ Shown(s)' => Shown(s) /\ pool'[s] = pool[s]
             /\ LoopUnsaved(s)' = LoopUnsaved(s)
  <2>1. PICK w \in Workers :
            /\ ~Running(w)
            /\ pool' = [pool EXCEPT ![t] = w]
            /\ wid' = [wid EXCEPT ![w] = t]
            /\ wst' = [wst EXCEPT ![w] = "login"]
    BY <1>2 DEF Add, Unreferenced
  <2>2. last[w] = NoSnap
    BY <2>1 DEF MemInv, LoopMemInv
  <2>3. Shown(s)' => Shown(s) /\ pool'[s] = pool[s]
    BY <1>2, <2>1, <2>2 DEF Shown
  <2>4. LoopUnsaved(s)' = LoopUnsaved(s)
    BY <2>1 DEF LoopUnsaved, Running
  <2> QED BY <2>3, <2>4
<1>3. CASE LoadOne
  <2>1. PICK t \in todo : AddIfAbsent(t, row[t])
    BY <1>3 DEF LoadOne
  <2>2. t \in Switches /\ row[t] \in Configs /\ row' = row
    BY <1>3, <2>1 DEF LoadOne, PhaseInv, storeVars
  <2> QED BY <1>1, <1>2, <2>1, <2>2 DEF AddIfAbsent, workerVars
<1>4. ASSUME NEW r \in Requests, Begin(r)
      PROVE  /\ Shown(s)' => Shown(s) /\ pool'[s] = pool[s]
             /\ LoopUnsaved(s)' = LoopUnsaved(s)
  <2>1. wid' = wid /\ wst' = wst
    BY <1>4 DEF Begin, BeginAdd, BeginUpdate, BeginDelete, workerVars
  <2>2. \A t \in Switches, c \in Configs : BeginAdd(r, t, c) =>
            (Shown(s)' => Shown(s) /\ pool'[s] = pool[s])
    BY DEF BeginAdd, PooledInv, Shown
  <2>3. \A t \in Switches, c \in Configs : BeginUpdate(r, t, c) =>
            (Shown(s)' => Shown(s) /\ pool'[s] = pool[s])
    BY DEF BeginUpdate, UpdateRow, Shown
  <2>4. \A t \in Switches : BeginDelete(r, t) =>
            (Shown(s)' => Shown(s) /\ pool'[s] = pool[s])
    BY DEF BeginDelete, RemoveTakes, storeVars, Shown
  <2> QED BY <1>4, <2>1, <2>2, <2>3, <2>4 DEF Begin, LoopUnsaved
<1>5. ASSUME NEW r \in Requests, Step(r)
      PROVE  /\ Shown(s)' => Shown(s) /\ pool'[s] = pool[s]
             /\ LoopUnsaved(s)' = LoopUnsaved(s)
  <2>1. CASE UpdateNotPooled(r) \/ CloseStop(r)
    BY <1>1, <2>1 DEF UpdateNotPooled, CloseStop, storeVars, workerVars
  <2>2. CASE UpdateTake(r)
    BY <2>2 DEF UpdateTake, RemoveTakes, storeVars, workerVars, Shown, LoopUnsaved
  <2>3. CASE WaitStopped(r)
    BY <2>3 DEF WaitStopped, Running, storeVars, Shown, LoopUnsaved
  <2>4. CASE StartWorker(r)
    BY <1>1, <1>2, <2>4 DEF StartWorker, AddIfAbsent, storeVars, workerVars
  <2>5. CASE DropRow(r)
    BY <2>5 DEF DropRow, workerVars, Shown, LoopUnsaved
  <2> QED BY <1>5, <2>1, <2>2, <2>3, <2>4, <2>5 DEF Step
<1> QED BY <1>1, <1>3, <1>4, <1>5 DEF Boot, Serve, storeVars, workerVars

LEMMA AgreePoolStep ==
    ASSUME PoolInv, CTypeOK, MemInv, AgreeInv,
           \/ OnlyPool(Boot) \/ Load \/ OnlyPool(Serve)
           \/ \E r \in Requests : \/ OnlyPool(Request(r)) \/ StartAndCollect(r)
                                  \/ DropRowAndSnapshot(r)
    PROVE  AgreeInv'
<1>1. /\ UNCHANGED <<last, got, rgot, mixed>>
      /\ \/ Boot \/ LoadOne \/ Serve
         \/ \E r \in Requests : Begin(r) \/ Step(r)
  BY DEF OnlyPool, Load, Request, StartAndCollect, DropRowAndSnapshot, Step, collVars,
         runVars, histVars
<1>2. \A s \in Switches : RunsUnsaved(s)' = RunsUnsaved(s)
  <2>1. CASE UNCHANGED runVars
    BY <2>1 DEF runVars, RunsUnsaved
  <2>2. ASSUME NEW c \in Runs, NEW s \in Switches, rpc[c] = "idle",
               rpc' = [rpc EXCEPT ![c] = "mark"], ron' = [ron EXCEPT ![c] = s]
        PROVE  \A t \in Switches : RunsUnsaved(t)' = RunsUnsaved(t)
    BY <2>2 DEF RunsUnsaved, CTypeOK
  <2>3. ASSUME NEW r \in Requests, StartAndCollect(r)
        PROVE  \A s \in Switches : RunsUnsaved(s)' = RunsUnsaved(s)
    BY <2>1, <2>2, <2>3 DEF StartAndCollect, CTypeOK, TypeOK
  <2> QED BY <2>1, <2>3 DEF OnlyPool, Load, DropRowAndSnapshot, collVars
<1>3. \A s \in Switches : saved'[s] = saved[s] \/ row'[s] = NoRow
  BY DEF OnlyPool, Load, StartAndCollect, DropRowAndSnapshot, DropRow, collVars,
         CTypeOK, TypeOK
<1>4. ASSUME NEW s \in Switches \ mixed PROVE Shown(s)' => AgreesAt(s)'
  <2>1. /\ Shown(s)' => Shown(s) /\ pool'[s] = pool[s]
        /\ LoopUnsaved(s)' = LoopUnsaved(s)
    BY <1>1, PoolStepShows
  <2>2. Shown(s)' => saved'[s] = saved[s]
    BY <1>3 DEF Shown
  <2> QED BY <1>1, <1>2, <2>1, <2>2, AgreeUntouched DEF AgreeInv
<1> QED BY <1>1, <1>4 DEF AgreeInv

(* What the loop of w does is of no concern to other switches.             *)
LEMMA AgreeOtherLoop ==
    ASSUME PoolInv, CTypeOK, AgreeInv, NEW w \in Workers,
           NEW s \in Switches \ mixed, s # wid[w],
           UNCHANGED <<row, pool, wid, rpc, ron, rgot>>, saved'[s] = saved[s],
           \A v \in Workers \ {w} : /\ wst'[v] = wst[v]
                                   /\ last'[v] = last[v] /\ got'[v] = got[v]
    PROVE  Shown(s)' => AgreesAt(s)'
<1>1. LoopUnsaved(s)' = LoopUnsaved(s) /\ RunsUnsaved(s)' = RunsUnsaved(s)
  BY DEF LoopUnsaved, RunsUnsaved
<1>2. pool[s] # NoWorker => pool[s] \in Workers \ {w}
  BY DEF PoolInv, PooledInv, CTypeOK, TypeOK
<1>3. Shown(s)' => Shown(s) /\ last'[pool[s]] = last[pool[s]]
  BY <1>2 DEF Shown
<1>4. \A v \in LoopUnsaved(s) : got'[v] = got[v]
  BY DEF LoopUnsaved
<1> QED BY <1>1, <1>3, <1>4, AgreeUntouched DEF AgreeInv

LEMMA AgreeLoopStep ==
    ASSUME PoolInv, CTypeOK, MemInv, AgreeInv, NEW w \in Workers,
           Read(w) \/ LoopExits(w)
    PROVE  AgreeInv'
<1>0. PICK s \in Switches : s = wid[w]
  BY DEF CTypeOK, TypeOK
<1>1. /\ UNCHANGED <<row, pool, wid, rpc, ron, rgot>>
      /\ \A v \in Workers \ {w} : /\ wst'[v] = wst[v]
                                 /\ last'[v] = last[v] /\ got'[v] = got[v]
      /\ \A t \in Switches \ {s} : saved'[t] = saved[t] /\ (t \in mixed' <=> t \in mixed)
  BY <1>0 DEF Read, LoopReads, LoopPublishes, LoopTakesLast, LoopSkips, FetchSkipped,
         LoopSaves, LoopSaveFails, Saved, LoopExits, Exit, Advance, NotePublish,
         UpsertSnapshot, UpsertFails, CTypeOK, TypeOK, vars, storeVars, workerVars,
         collVars, runVars, histVars
<1>2. ASSUME NEW t \in Switches \ {s}, t \notin mixed' PROVE Shown(t)' => AgreesAt(t)'
  BY <1>0, <1>1, <1>2, AgreeOtherLoop
<1>3. RunsUnsaved(s)' = RunsUnsaved(s)
  BY <1>1 DEF RunsUnsaved
<1>4. Running(w) =>
        /\ \A v \in Workers \ {w} : Running(v) => wid[v] # s
        /\ pool[s] # NoWorker => pool[s] = w
  BY <1>0, OneLoop DEF PoolInv, PooledInv, CTypeOK, TypeOK
<1>5. ASSUME s \notin mixed', Shown(s)' PROVE AgreesAt(s)'
  <2>1. CASE LoopReads(w) \/ LoopSkips(w)
    <3>1. LoopUnsaved(s)' = LoopUnsaved(s) /\ w \notin LoopUnsaved(s)
      BY <2>1 DEF LoopReads, LoopSkips, FetchSkipped, Advance, LoopUnsaved, vars,
                  workerVars, CTypeOK, TypeOK
    <3>2. UNCHANGED <<last, saved, mixed, row, pool>>
      BY <1>1, <2>1 DEF LoopReads, LoopSkips, collVars, histVars
    <3>3. \A v \in LoopUnsaved(s) : got'[v] = got[v]
      BY <1>1, <3>1 DEF LoopUnsaved
    <3> QED BY <1>1, <1>3, <1>5, <3>1, <3>2, <3>3, AgreeUntouched
            DEF AgreeInv, Shown
  <2>2. CASE LoopPublishes(w)
    <3>1. /\ Running(w) /\ wst' = [wst EXCEPT ![w] = "save"]
          /\ RunsUnsaved(s) = {} /\ pool[s] = w
          /\ last' = [last EXCEPT ![w] = got[w]] /\ got' = got
      BY <1>0, <1>5, <2>2 DEF LoopPublishes, NotePublish, Advance, Running
    <3>2. LoopUnsaved(s)' = {w}
      BY <1>0, <1>1, <1>4, <3>1 DEF LoopUnsaved, Running, CTypeOK, TypeOK
    <3> QED BY <1>1, <1>3, <3>1, <3>2 DEF AgreesAt, CTypeOK
  <2>3. CASE LoopTakesLast(w)
    <3>1. /\ Running(w) /\ wst' = [wst EXCEPT ![w] = "save"]
          /\ RunsUnsaved(s) = {}
          /\ got' = [got EXCEPT ![w] = last[w]] /\ last' = last
      BY <1>0, <1>1, <1>5, <2>3 DEF LoopTakesLast, Advance, Running
    <3>2. LoopUnsaved(s)' = {w}
      BY <1>0, <1>1, <1>4, <3>1 DEF LoopUnsaved, Running, CTypeOK, TypeOK
    <3>3. pool[s] = w
      BY <1>1, <1>4, <1>5, <3>1 DEF Shown
    <3> QED BY <1>1, <1>3, <3>1, <3>2, <3>3 DEF AgreesAt, CTypeOK
  <2>4. CASE LoopSaves(w)
    <3>1. /\ wst[w] = "save" /\ wst' = [wst EXCEPT ![w] = "select"]
          /\ saved' = [saved EXCEPT ![s] = got[w]]
          /\ UNCHANGED <<last, mixed>>
      BY <1>0, <2>4 DEF LoopSaves, Saved, Advance, UpsertSnapshot
    <3>2. w \in LoopUnsaved(s) /\ AgreesAt(s)
      BY <1>0, <1>1, <1>5, <3>1 DEF LoopUnsaved, AgreeInv, Shown
    <3>3. LoopUnsaved(s)' = {}
      BY <1>0, <1>1, <1>4, <3>1 DEF LoopUnsaved, Running, CTypeOK, TypeOK
    <3>4. saved'[s] = last[pool[s]] /\ RunsUnsaved(s) = {}
      BY <1>1, <3>1, <3>2 DEF AgreesAt, CTypeOK
    <3> QED BY <1>1, <1>3, <3>1, <3>3, <3>4 DEF AgreesAt
  <2>5. CASE LoopSaveFails(w)
    BY <1>0, <1>5, <2>5 DEF LoopSaveFails, UpsertFails
  <2>6. CASE LoopExits(w)
    <3>1. closings[w] > 0 /\ Running(w)
      BY <2>6 DEF LoopExits, Exit, Advance, Running
    <3>2. pool[s] = NoWorker
      BY <1>0, <1>1, <1>4, <3>1 DEF PoolInv, PooledInv
    <3> QED BY <1>1, <1>5, <3>2 DEF Shown
  <2> QED BY <2>1, <2>2, <2>3, <2>4, <2>5, <2>6 DEF Read
<1>6. \A t \in Switches \ mixed' : Shown(t)' => AgreesAt(t)'
  <2> SUFFICES ASSUME NEW t \in Switches, t \notin mixed', Shown(t)'
               PROVE  AgreesAt(t)'
    OBVIOUS
  <2>1. CASE t # s
    BY <1>2, <2>1
  <2>2. CASE t = s
    BY <1>5, <2>2
  <2> QED BY <2>1, <2>2
<1> QED BY <1>6 DEF AgreeInv

LEMMA AgreeRunStep ==
    ASSUME PoolInv, CTypeOK, MemInv, HomeInv, AgreeInv, NEW c \in Runs, Run(c)
    PROVE  AgreeInv'
<1>1. /\ UNCHANGED <<row, pool, wid, wst, got>>
      /\ \A s \in Switches : LoopUnsaved(s)' = LoopUnsaved(s)
  BY RunsLeavePool
     DEF vars, storeVars, workerVars, LoopUnsaved, Run, MarkCollecting, LookupMisses,
         LookupFinds, RunReads, RunPublishes, RunFails, RunReturns, RunSaves
<1>2. PICK s \in Switches : s = ron[c]
  BY DEF CTypeOK
<1>3. /\ \A d \in Runs \ {c} : rpc'[d] = rpc[d] /\ ron'[d] = ron[d] /\ rgot'[d] = rgot[d]
      /\ rpc'[c] \notin {"idle"} => ron'[c] = s
      /\ \A t \in Switches \ {s} : saved'[t] = saved[t] /\ (t \in mixed' <=> t \in mixed)
  BY <1>2 DEF Run, MarkCollecting, LookupMisses, LookupFinds, RunReads, RunPublishes,
         RunFails, RunReturns, RunSaves, EndRun, NotePublish, UpsertSnapshot,
         UpsertFails, CTypeOK, histVars
<1>4. ASSUME NEW t \in Switches \ {s}, t \notin mixed' PROVE Shown(t)' => AgreesAt(t)'
  <2>1. RunsUnsaved(t)' = RunsUnsaved(t) /\ c \notin RunsUnsaved(t)
    BY <1>2, <1>3 DEF RunsUnsaved
  <2>2. pool[t] # NoWorker => last'[pool[t]] = last[pool[t]]
    <3>1. CASE last' = last
      BY <3>1
    <3>2. CASE RunPublishes(c)
      <4>1. rw[c] \in Workers /\ (Running(rw[c]) => wid[rw[c]] = s)
        BY <1>2, <3>2 DEF RunPublishes, MemInv, RunMemInv, HomeInv
      <4>2. pool[t] # NoWorker => pool[t] # rw[c] \/ ~Running(rw[c])
        BY <4>1 DEF PoolInv, PooledInv
      <4> QED BY <3>2, <4>2 DEF RunPublishes, Target, CTypeOK, TypeOK
    <3> QED BY <3>1, <3>2 DEF Run, MarkCollecting, LookupMisses, LookupFinds, RunReads,
                              RunFails, RunReturns, RunSaves
  <2>3. \A d \in RunsUnsaved(t) : rgot'[d] = rgot[d]
    BY <1>3, <2>1 DEF RunsUnsaved
  <2> QED BY <1>1, <1>3, <1>4, <2>1, <2>2, <2>3, AgreeUntouched DEF AgreeInv, Shown
<1>5. ASSUME s \notin mixed', Shown(s)' PROVE AgreesAt(s)'
  <2>1. CASE RunPublishes(c)
    <3>1. /\ LoopUnsaved(s) = {} /\ RunsUnsaved(s) = {} /\ pool[s] = rw[c]
          /\ rw[c] \in Workers /\ rgot' = rgot
          /\ rpc' = [rpc EXCEPT ![c] = "clear"] /\ ron' = ron
      BY <1>2, <1>5, <2>1 DEF RunPublishes, NotePublish, MemInv, RunMemInv
    <3>2. last'[pool[s]] = rgot[c]
      BY <2>1, <3>1, NoWorkerAssumption
         DEF RunPublishes, Target, CTypeOK, PoolInv, PooledInv
    <3>3. RunsUnsaved(s)' = {c}
      BY <1>2, <3>1 DEF RunsUnsaved, CTypeOK
    <3> QED BY <1>1, <3>1, <3>2, <3>3 DEF AgreesAt
  <2>2. CASE RunSaves(c)
    <3>1. /\ rpc[c] = "save" /\ last' = last /\ mixed' = mixed
          /\ saved' = [saved EXCEPT ![s] = rgot[c]]
          /\ rpc' = [rpc EXCEPT ![c] = "idle"]
      BY <1>2, <1>5, <2>2 DEF RunSaves, UpsertSnapshot, UpsertFails, EndRun
    <3>2. c \in RunsUnsaved(s) /\ AgreesAt(s)
      BY <1>1, <1>2, <1>5, <3>1 DEF RunsUnsaved, AgreeInv, Shown
    <3>3. RunsUnsaved(s)' = {} /\ LoopUnsaved(s) = {}
      BY <1>3, <3>1, <3>2 DEF RunsUnsaved, AgreesAt, CTypeOK
    <3>4. saved'[s] = last[pool[s]]
      BY <3>1, <3>2 DEF AgreesAt, CTypeOK
    <3> QED BY <1>1, <3>1, <3>3, <3>4 DEF AgreesAt
  <2>3. CASE RunReturns(c)
    <3>1. RunsUnsaved(s)' = RunsUnsaved(s)
      BY <2>3 DEF RunReturns, RunsUnsaved, CTypeOK
    <3> QED BY <1>1, <1>5, <2>3, <3>1, AgreeUntouched DEF RunReturns, AgreeInv, Shown
  <2>4. CASE \/ MarkCollecting(c) \/ LookupMisses(c) \/ LookupFinds(c)
             \/ RunReads(c) \/ RunFails(c)
    <3>1. UNCHANGED <<last, saved, mixed>>
      BY <2>4 DEF MarkCollecting, LookupMisses, LookupFinds, RunReads, RunFails, histVars
    <3>2. RunsUnsaved(s)' = RunsUnsaved(s) /\ c \notin RunsUnsaved(s)
      BY <1>3, <2>4 DEF MarkCollecting, LookupMisses, LookupFinds, RunReads, RunFails,
                        EndRun, RunsUnsaved, CTypeOK
    <3>3. \A d \in RunsUnsaved(s) : rgot'[d] = rgot[d]
      BY <1>3, <3>2 DEF RunsUnsaved
    <3> QED BY <1>1, <1>5, <3>1, <3>2, <3>3, AgreeUntouched DEF AgreeInv, Shown
  <2> QED BY <2>1, <2>2, <2>3, <2>4 DEF Run
<1>6. \A t \in Switches \ mixed' : Shown(t)' => AgreesAt(t)'
  <2> SUFFICES ASSUME NEW t \in Switches, t \notin mixed', Shown(t)'
               PROVE  AgreesAt(t)'
    OBVIOUS
  <2>1. CASE t # s
    BY <1>4, <2>1
  <2>2. CASE t = s
    BY <1>5, <2>2
  <2> QED BY <2>1, <2>2
<1> QED BY <1>6 DEF AgreeInv

LEMMA AgreeStep ==
    ASSUME PoolInv, CTypeOK, MemInv, HomeInv, AgreeInv, [CNext]_cvars
    PROVE  AgreeInv'
<1>1. ASSUME UNCHANGED <<row, pool, wid, last, got, saved, rgot, mixed>>,
             \A s \in Switches : LoopUnsaved(s)' = LoopUnsaved(s),
             \A s \in Switches : RunsUnsaved(s)' = RunsUnsaved(s)
      PROVE  AgreeInv'
  BY <1>1, AgreeUntouched DEF AgreeInv, Shown
<1>2. CASE UNCHANGED <<row, pool, wid, wst, last, got, saved, runVars, mixed>>
  BY <1>1, <1>2 DEF LoopUnsaved, RunsUnsaved, runVars
<1>3. CASE UNCHANGED cvars
  BY <1>2, <1>3 DEF cvars, vars, storeVars, workerVars, collVars, histVars
<1>4. ASSUME NEW w \in Workers,
             \/ LoopLogsIn(w) \/ OnlyPool(LoginFails(w))
             \/ OnlyPool(FullTick(w)) \/ OnlyPool(StatsTick(w))
      PROVE  AgreeInv'
  <2>1. /\ \A s \in Switches : LoopUnsaved(s)' = LoopUnsaved(s)
        /\ UNCHANGED <<row, pool, wid, last, got, saved, runVars, mixed>>
    BY <1>4 DEF OnlyPool, LoopLogsIn, LoginOk, LoginFails, FullTick, StatsTick, Advance,
                LoopUnsaved, storeVars, collVars, histVars, CTypeOK, TypeOK
  <2> QED BY <1>1, <2>1 DEF runVars, RunsUnsaved
<1>5. ASSUME NEW c \in Runs, NEW s \in Switches, TriggerCollect(c, s) PROVE AgreeInv'
  <2>1. \A t \in Switches : RunsUnsaved(t)' = RunsUnsaved(t)
    BY <1>5 DEF TriggerCollect, RunsUnsaved, CTypeOK
  <2> QED BY <1>1, <1>5, <2>1
          DEF TriggerCollect, LoopUnsaved, vars, storeVars, workerVars, histVars
<1>6. ASSUME NEW s \in Switches, DeviceChanges(s) PROVE AgreeInv'
  BY <1>2, <1>6 DEF DeviceChanges, vars, storeVars, workerVars, histVars
<1>7. CASE Interrupt
  BY <1>7 DEF Interrupt, Crash, AgreeInv, Shown
<1>8. ASSUME NEW w \in Workers, SessionEnds(w) PROVE AgreeInv'
  BY <1>2, <1>8 DEF SessionEnds, vars, storeVars, workerVars, histVars
<1> QED BY <1>3, <1>4, <1>5, <1>6, <1>7, <1>8, AgreePoolStep, AgreeLoopStep, AgreeRunStep
        DEF CNext

LEMMA AgreeInvariant == CSpec => [](HomeInv /\ AgreeInv)
<1>1. CInit => HomeInv /\ AgreeInv
  BY DEF CInit, NoRuns, Init, HomeInv, AgreeInv, Shown
<1> QED BY <1>1, HomeStep, AgreeStep, MemInvariant, CollectionKeepsPoolInv,
           CollectionTypeCorrect, PTL DEF CSpec

(* The snapshot the UI reads from SQLite is the one /metrics reads from    *)
(* memory (README.md:122), at every switch whose last collection met no    *)
(* other writer and no failing save: however many collections, updates and *)
(* crashes there were before, and whatever happens at other switches.      *)
THEOREM UIShowsMetrics == CSpec => []UIAgreesWithMetrics
<1>1. AgreeInv => UIAgreesWithMetrics
  BY DEF AgreeInv, Shown, AgreesAt, UIAgreesWithMetrics
<1> QED BY <1>1, AgreeInvariant, PTL
-----------------------------------------------------------------------------
(* Worker objects.                                                         *)

(* A run keeps the worker it collects for out of the allocator's hands, so *)
(* there have to be more of them than the pool alone needs.                *)
EnoughForRuns ==
    /\ FinitelyMany /\ IsFiniteSet(Runs)
    /\ Cardinality(Workers) >= Cardinality(Switches) + Cardinality(Runs)
    /\ Cardinality(Workers) + 1
           >= Cardinality(Switches) + Cardinality(Requests) + Cardinality(Runs)

AddFindsFreeWorker ==
    \/ \E r \in Requests : at[r] = "start"
    \/ \E s \in todo : pool[s] = NoWorker
    => \E w \in Workers : Unreferenced(w) /\ \A c \in Runs : rw[c] # w

(* With as many worker objects as that, the bound on them never keeps an   *)
(* Add waiting for a collection to let go of one (Manager.Add allocates).  *)
THEOREM CollectionsHoldUpNoAdd == CSpec => [](EnoughForRuns => AddFindsFreeWorker)
<1> DEFINE X == {rw[c] : c \in Runs}
<1>1. EnoughForRuns =>
          /\ IsFiniteSet(X) /\ Cardinality(X) <= Cardinality(Runs)
          /\ Cardinality(X) \in Nat /\ Cardinality(Runs) \in Nat
          /\ Cardinality(Workers) \in Nat /\ Cardinality(Switches) \in Nat
          /\ Cardinality(Requests) \in Nat
  BY ImageBound, FS_CardinalityType DEF EnoughForRuns, FinitelyMany
<1> HIDE DEF X
<1>2. EnoughForRuns =>
          /\ FinitelyMany /\ IsFiniteSet(X)
          /\ Cardinality(Workers) >= Cardinality(Switches) + Cardinality(X)
          /\ Cardinality(Workers) + 1
                 >= Cardinality(Switches) + Cardinality(Requests) + Cardinality(X)
  BY <1>1 DEF EnoughForRuns
<1>3. \A w \in Workers \ X, c \in Runs : rw[c] # w
  BY DEF X
<1>4. PoolInv /\ EnoughForRuns => AddFindsFreeWorker
  <2>1. ASSUME PoolInv, EnoughForRuns, NEW r \in Requests, at[r] = "start"
        PROVE  \E w \in Workers \ X : Unreferenced(w)
    BY <1>2, <2>1, SpareForAdd
  <2>2. ASSUME PoolInv, EnoughForRuns, NEW s \in todo, pool[s] = NoWorker
        PROVE  \E w \in Workers \ X : Unreferenced(w)
    BY <1>2, <2>2, SpareForLoad
  <2> QED BY <1>3, <2>1, <2>2 DEF AddFindsFreeWorker
<1> QED BY <1>4, CollectionKeepsPoolInv, PTL
=============================================================================
