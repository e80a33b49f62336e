----------------------------- MODULE Collection -----------------------------
(***************************************************************************)
(* What is collected, on top of WorkerPool: the snapshot each worker keeps *)
(* in memory (worker.last), the one saved in SQLite, the immediate         *)
(* collections of POST .../collect and of AddSwitch (Manager.CollectNow),  *)
(* and the "collecting" marks that Status and the handlers read.           *)
(*                                                                         *)
(* Pool steps are those of WorkerPool; a step that touches a snapshot adds *)
(* its conjuncts here, so every behaviour is also one of WorkerPool.       *)
(*                                                                         *)
(* A snapshot is the settings it was read with and the version of the      *)
(* switch's configuration it shows: the twelve pages are one, which comes  *)
(* back whole or, GetSnapshot only logging a page it could not read, not   *)
(* at all (Unread).  A run is a TriggerCollect or AddSwitch handler and    *)
(* the goroutine it spawns.                                                *)
(***************************************************************************)
EXTENDS WorkerPool

CONSTANTS Runs,         \* bound: immediate collections at the same time
          MaxConf,      \* bound: changes of a switch's own configuration
          NoSnap,       \* nil, or no row in the snapshots table
          Unread,       \* pages that could not be read
          SwitchMayFail, \* may a page fail to load, or a session end?
          ForeignKeys   \* are foreign keys enforced? (not in this build)

ASSUME MaxConfAssumption == MaxConf \in Nat
ASSUME ForeignKeysAssumption == ForeignKeys \in BOOLEAN
ASSUME SwitchAssumption == SwitchMayFail \in BOOLEAN

Settings == Passwords \union {Blank}
Snapshots == [by : Settings, conf : (0 .. MaxConf) \union {Unread}]
ASSUME NoSnapAssumption == NoSnap \notin Snapshots
Maybe == Snapshots \union {NoSnap}

VARIABLES
    conf,       \* [Switches -> version of what the device is set to]
    session,    \* the workers whose one login still holds  (w.client)
    last,       \* [Workers -> the snapshot in memory, or NoSnap]  (w.last)
    got,        \* [Workers -> what its loop has read and not yet saved]
    saved,      \* durable: [Switches -> row of the snapshots table]
    mark,       \* the ids in Manager.collecting
    rpc,        \* [Runs -> where the handler or its goroutine is]
    ron,        \* [Runs -> the switch it collects]
    rw,         \* [Runs -> the worker CollectNow looked up, or NoWorker]
    rset,       \* [Runs -> that worker's settings]  (w.cfg)
    rgot,       \* [Runs -> what it has read]
    cleared,    \* history: runs during which another run cleared the mark
    leaked,     \* history: marks whose run ended without clearing them
    mixed       \* history: switches whose writers have overlapped

runVars == <<rpc, ron, rw, rset, rgot>>
histVars == <<cleared, leaked, mixed>>
devVars == <<conf, session>>
collVars == <<devVars, last, got, saved, mark, runVars, histVars>>
cvars == <<vars, collVars>>

RunSteps == {"idle", "mark", "lookup", "fetch", "publish", "clear", "save"}

CTypeOK ==
    /\ TypeOK
    /\ conf \in [Switches -> 0 .. MaxConf]
    /\ session \subseteq Workers
    /\ last \in [Workers -> Maybe]
    /\ got \in [Workers -> Maybe]
    /\ saved \in [Switches -> Maybe]
    /\ mark \subseteq Switches
    /\ rpc \in [Runs -> RunSteps]
    /\ ron \in [Runs -> Switches]
    /\ rw \in [Runs -> Workers \union {NoWorker}]
    /\ rset \in [Runs -> Settings]
    /\ rgot \in [Runs -> Maybe]
    /\ cleared \subseteq Runs
    /\ leaked \subseteq Switches
    /\ mixed \subseteq Switches

NoRuns == /\ rpc = [c \in Runs |-> "idle"]
          /\ ron = [c \in Runs |-> SomeSwitch]
          /\ rw = [c \in Runs |-> NoWorker]
          /\ rset = [c \in Runs |-> Blank]
          /\ rgot = [c \in Runs |-> NoSnap]
          /\ cleared = {}

CInit == /\ Init
         /\ conf = [s \in Switches |-> 0]
         /\ session = {}
         /\ last = [w \in Workers |-> NoSnap]
         /\ got = [w \in Workers |-> NoSnap]
         /\ saved = [s \in Switches |-> NoSnap]
         /\ mark = {}
         /\ NoRuns
         /\ leaked = {}
         /\ mixed = {}

-----------------------------------------------------------------------------
(* Reading a switch, publishing to memory and saving, for loop and runs.   *)

(* What a client that has logged in can come back with.                    *)
ReadWith(s, set) == {[by |-> set, conf |-> v] :
                       v \in {conf[s]} \union (IF SwitchMayFail THEN {Unread} ELSE {})}
(* A worker without a session gets the login form for every page, and      *)
(* fetchPage does not log in again.                                        *)
ReadBy(w) == IF w \in session THEN ReadWith(wid[w], wcfg[w].pwd)
             ELSE {[by |-> wcfg[w].pwd, conf |-> Unread]}

(* Somebody has published a snapshot of s and not saved it yet.            *)
LoopUnsaved(s) == {w \in Workers : wid[w] = s /\ wst[w] = "save"}
RunsUnsaved(s) == {c \in Runs : ron[c] = s /\ rpc[c] \in {"clear", "save"}}

(* A snapshot goes to w's memory: alone, or across another writer's path.  *)
NotePublish(s, w, others) ==
    mixed' = IF others = {} /\ pool[s] = w THEN mixed \ {s} ELSE mixed \union {s}

InsertOnly(s, snap) ==
    /\ ForeignKeys => row[s] # NoRow
    /\ saved' = [saved EXCEPT ![s] = IF @ = NoSnap THEN snap ELSE @]
    /\ UNCHANGED mixed
(* UpsertSnapshot replaces the row; with enforced keys it needs a switch.  *)
UpsertSnapshot(s, snap) ==
    /\ ForeignKeys => row[s] # NoRow
    /\ saved' = [saved EXCEPT ![s] = snap]
    /\ UNCHANGED mixed

(* It may fail; the callers log that or ignore it.                         *)
UpsertFails(s) ==
    /\ StoreMayFail \/ (ForeignKeys /\ row[s] = NoRow)
    /\ mixed' = mixed \union {s}
    /\ UNCHANGED saved

-----------------------------------------------------------------------------
(* The loop of a worker: WorkerPool's steps that carry a snapshot.         *)

(* run logs in once, before its first collection.                          *)
LoopLogsIn(w) ==
    /\ LoginOk(w)
    /\ session' = session \union {w}
    /\ UNCHANGED <<conf, last, got, saved, mark, runVars, histVars>>

(* The switch reboots, or drops the session: nothing tells the worker.     *)
SessionEnds(w) ==
    /\ SwitchMayFail
    /\ w \in session
    /\ session' = session \ {w}
    /\ UNCHANGED <<vars, conf, last, got, saved, mark, runVars, histVars>>

(* GetSnapshot inside collectFull: the pages are read; memory is as before.*)
LoopReads(w) ==
    /\ wst[w] = "full"
    /\ got[w] = NoSnap
    /\ \E snap \in ReadBy(w) : got' = [got EXCEPT ![w] = snap]
    /\ UNCHANGED <<vars, devVars, last, saved, mark, runVars, histVars>>

ReadsPages(w) == LoopReads(w) /\ got'[w].conf # Unread

(* collectFull: w.last = snap under w.mu.                                  *)
LoopPublishes(w) ==
    /\ got[w] # NoSnap
    /\ Advance(w, "full", "save")
    /\ last' = [last EXCEPT ![w] = got[w]]
    /\ NotePublish(wid[w], w, RunsUnsaved(wid[w]))
    /\ UNCHANGED <<devVars, got, saved, mark, runVars, cleared, leaked>>

(* collectStats: the counters change in place, the rest is saved again.    *)
(* The login form has no counters, which is an error.                      *)
LoopTakesLast(w) ==
    /\ w \in session
    /\ last[w] # NoSnap
    /\ Advance(w, "stats", "save")
    /\ got' = [got EXCEPT ![w] = last[w]]
    /\ mixed' = IF RunsUnsaved(wid[w]) = {} THEN mixed ELSE mixed \union {wid[w]}
    /\ UNCHANGED <<devVars, last, saved, mark, runVars, cleared, leaked>>

(* An error of the client, or counters for a snapshot that is not there.   *)
LoopSkips(w) ==
    /\ got[w] = NoSnap
    /\ FetchSkipped(w)
    /\ UNCHANGED collVars

LoopSaves(w) ==
    /\ Saved(w)
    /\ UpsertSnapshot(wid[w], got[w])
    /\ got' = [got EXCEPT ![w] = NoSnap]
    /\ UNCHANGED <<devVars, last, mark, runVars, cleared, leaked>>

LoopSaveFails(w) ==
    /\ Saved(w)
    /\ UpsertFails(wid[w])
    /\ got' = [got EXCEPT ![w] = NoSnap]
    /\ UNCHANGED <<devVars, last, mark, runVars, cleared, leaked>>

-----------------------------------------------------------------------------
(* Immediate collections.                                                  *)

(* TriggerCollect finds the row and no mark.  (With a mark it answers      *)
(* "collecting" and does nothing.)                                         *)
TriggerCollect(c, s) ==
    /\ phase = "serving"
    /\ rpc[c] = "idle"
    /\ row[s] # NoRow
    /\ s \notin mark
    /\ rpc' = [rpc EXCEPT ![c] = "mark"]
    /\ ron' = [ron EXCEPT ![c] = s]
    /\ UNCHANGED <<vars, devVars, last, got, saved, mark, rw, rset, rgot, histVars>>

SpawnUnmarked(c) ==
    /\ rpc[c] = "mark"
    /\ rpc' = [rpc EXCEPT ![c] = "lookup"]
    /\ UNCHANGED <<vars, devVars, last, got, saved, mark, ron, rw, rset, rgot, histVars>>
(* The handler marks the switch and spawns the goroutine.                  *)
MarkCollecting(c) ==
    /\ rpc[c] = "mark"
    /\ mark' = mark \union {ron[c]}
    /\ rpc' = [rpc EXCEPT ![c] = "lookup"]
    /\ UNCHANGED <<vars, devVars, last, got, saved, ron, rw, rset, rgot, histVars>>

EndRun(c) == /\ rpc' = [rpc EXCEPT ![c] = "idle"]
             /\ ron' = [ron EXCEPT ![c] = SomeSwitch]
             /\ rw' = [rw EXCEPT ![c] = NoWorker]
             /\ rset' = [rset EXCEPT ![c] = Blank]
             /\ rgot' = [rgot EXCEPT ![c] = NoSnap]
             /\ cleared' = cleared \ {c}

(* CollectNow: "not in pool".  The mark stays: the defer is further down.  *)
LookupMisses(c) ==
    /\ rpc[c] = "lookup"
    /\ pool[ron[c]] = NoWorker
    /\ EndRun(c)
    /\ leaked' = leaked \union {ron[c]}
    /\ UNCHANGED <<vars, devVars, last, got, saved, mark, mixed>>

(* It has the worker and stores the mark (again); both need no lock of     *)
(* another goroutine's, so they are one step.                              *)
LookupFinds(c) ==
    /\ rpc[c] = "lookup"
    /\ pool[ron[c]] # NoWorker
    /\ rw' = [rw EXCEPT ![c] = pool[ron[c]]]
    /\ rset' = [rset EXCEPT ![c] = wcfg[pool[ron[c]]].pwd]
    /\ mark' = mark \union {ron[c]}
    /\ rpc' = [rpc EXCEPT ![c] = "fetch"]
    /\ cleared' = cleared \ {c}
    /\ UNCHANGED <<vars, devVars, last, got, saved, ron, rgot, leaked, mixed>>

RunReads(c) ==
    /\ rpc[c] = "fetch"
    /\ \E snap \in ReadWith(ron[c], rset[c]) : rgot' = [rgot EXCEPT ![c] = snap]
    /\ rpc' = [rpc EXCEPT ![c] = "publish"]
    /\ UNCHANGED <<vars, devVars, last, got, saved, mark, ron, rw, rset, histVars>>

PublishToPooled(c) == IF pool[ron[c]] # NoWorker THEN pool[ron[c]] ELSE rw[c]
(* w.last = snap goes to the worker that was looked up at the start.  The  *)
(* memory of one whose loop has ended is out of everybody's reach.         *)
Target(c) == rw[c]

RunPublishes(c) ==
    /\ rpc[c] = "publish"
    /\ last' = IF Running(Target(c)) THEN [last EXCEPT ![Target(c)] = rgot[c]] ELSE last
    /\ NotePublish(ron[c], rw[c], LoopUnsaved(ron[c]) \union RunsUnsaved(ron[c]))
    /\ rpc' = [rpc EXCEPT ![c] = "clear"]
    /\ UNCHANGED <<vars, devVars, got, saved, mark, ron, rw, rset, rgot, cleared, leaked>>

Others(c) == {d \in Runs \ {c} : rpc[d] \notin {"idle", "mark"} /\ ron[d] = ron[c]}

LeaveMark(c) == UNCHANGED <<mark, leaked>>
(* The deferred collecting.Delete of CollectNow.                           *)
ClearMark(c) == mark' = mark \ {ron[c]} /\ leaked' = leaked \ {ron[c]}

(* Login or GetSnapshot returned an error.                                 *)
RunFails(c) ==
    /\ rpc[c] = "fetch"
    /\ ClearMark(c)
    /\ rpc' = [rpc EXCEPT ![c] = "idle"]
    /\ ron' = [ron EXCEPT ![c] = SomeSwitch]
    /\ rw' = [rw EXCEPT ![c] = NoWorker]
    /\ rset' = [rset EXCEPT ![c] = Blank]
    /\ cleared' = (cleared \union Others(c)) \ {c}
    /\ UNCHANGED <<vars, devVars, last, got, saved, rgot, mixed>>

(* CollectNow returns; its caller saves after the mark is gone.            *)
RunReturns(c) ==
    /\ rpc[c] = "clear"
    /\ ClearMark(c)
    /\ rpc' = [rpc EXCEPT ![c] = "save"]
    /\ rw' = [rw EXCEPT ![c] = NoWorker]
    /\ rset' = [rset EXCEPT ![c] = Blank]
    /\ cleared' = cleared \union Others(c)
    /\ UNCHANGED <<vars, devVars, last, got, saved, ron, rgot, mixed>>

RunSaves(c) ==
    /\ rpc[c] = "save"
    /\ UpsertSnapshot(ron[c], rgot[c]) \/ UpsertFails(ron[c])
    /\ EndRun(c)
    /\ UNCHANGED <<vars, devVars, last, got, mark, leaked>>

Run(c) == \/ MarkCollecting(c) \/ LookupMisses(c) \/ LookupFinds(c)
          \/ RunReads(c) \/ RunPublishes(c) \/ RunFails(c) \/ RunReturns(c)
          \/ RunSaves(c)

-----------------------------------------------------------------------------
(* Pool steps and what they mean for snapshots and marks.                  *)

(* A new worker is no object that a run still refers to.                   *)
NewWorker == \A c \in Runs, w \in Workers :
                rw[c] = w /\ ~Running(w) => wst'[w] = wst[w]

(* The worker left the pool before it was stopped: nobody reads its memory.*)
LoopExits(w) ==
    /\ Exit(w)
    /\ session' = session \ {w}
    /\ last' = [last EXCEPT ![w] = NoSnap]
    /\ mixed' = mixed \ {wid[w]}
    /\ UNCHANGED <<conf, got, saved, mark, runVars, cleared, leaked>>

Load == LoadOne /\ NewWorker /\ UNCHANGED collVars

(* After its Add, AddSwitch goes on like TriggerCollect after its checks.  *)
StartAndCollect(r) ==
    /\ StartWorker(r)
    /\ NewWorker
    /\ IF op[r] = "add" /\ pool[on[r]] = NoWorker
       THEN \E c \in Runs : /\ rpc[c] = "idle"
                            /\ rpc' = [rpc EXCEPT ![c] = "mark"]
                            /\ ron' = [ron EXCEPT ![c] = on[r]]
                            /\ UNCHANGED <<rw, rset, rgot>>
       ELSE UNCHANGED runVars
    /\ UNCHANGED <<devVars, last, got, saved, mark, histVars>>

(* ON DELETE CASCADE takes the snapshot along, if it is in force.          *)
DropRowAndSnapshot(r) ==
    /\ DropRow(r)
    /\ saved' = IF ForeignKeys /\ row' # row THEN [saved EXCEPT ![on[r]] = NoSnap]
                ELSE saved
    /\ UNCHANGED <<devVars, last, got, mark, runVars, histVars>>

Interrupt ==
    /\ Crash
    /\ session' = {}
    /\ last' = [w \in Workers |-> NoSnap]
    /\ got' = [w \in Workers |-> NoSnap]
    /\ mark' = {}
    /\ rpc' = [c \in Runs |-> "idle"]
    /\ ron' = [c \in Runs |-> SomeSwitch]
    /\ rw' = [c \in Runs |-> NoWorker]
    /\ rset' = [c \in Runs |-> Blank]
    /\ rgot' = [c \in Runs |-> NoSnap]
    /\ cleared' = {}
    /\ leaked' = {}
    /\ mixed' = {}
    /\ UNCHANGED <<conf, saved>>

Request(r) == \/ Begin(r) \/ UpdateTake(r) \/ UpdateNotPooled(r)
              \/ CloseStop(r) \/ WaitStopped(r)

OnlyPool(A) == A /\ UNCHANGED collVars

(* Somebody reconfigures the switch.                                       *)
DeviceChanges(s) ==
    /\ conf[s] < MaxConf
    /\ conf' = [conf EXCEPT ![s] = @ + 1]
    /\ UNCHANGED <<vars, session, last, got, saved, mark, runVars, histVars>>

Read(w) == LoopReads(w) \/ LoopPublishes(w) \/ LoopTakesLast(w) \/ LoopSkips(w)
           \/ LoopSaves(w) \/ LoopSaveFails(w)

CNext ==
    \/ OnlyPool(Boot) \/ Load \/ OnlyPool(Serve) \/ Interrupt
    \/ \E r \in Requests : \/ OnlyPool(Request(r)) \/ StartAndCollect(r)
                           \/ DropRowAndSnapshot(r)
    \/ \E w \in Workers :
          \/ LoopLogsIn(w) \/ OnlyPool(LoginFails(w)) \/ SessionEnds(w) \/ Read(w)
          \/ OnlyPool(FullTick(w)) \/ OnlyPool(StatsTick(w)) \/ LoopExits(w)
    \/ \E c \in Runs : Run(c) \/ \E s \in Switches : TriggerCollect(c, s)
    \/ \E s \in Switches : DeviceChanges(s)

CSpec == CInit /\ [][CNext]_cvars

(* As in WorkerPool, goroutines go on.  Besides, the config ticker of a    *)
(* worker fires again and again and its select takes the tick now and      *)
(* then; and a switch that is asked again and again over a session that    *)
(* holds shows its pages now and then.  Nothing is assumed of logins and   *)
(* of sessions: a worker without one never enables ReadsPages.             *)
CFairness ==
    /\ \A w \in Workers :
          /\ WF_cvars(LoopLogsIn(w) \/ OnlyPool(LoginFails(w)))
          /\ SF_cvars(OnlyPool(FullTick(w)))
          /\ SF_cvars(ReadsPages(w))
          /\ WF_cvars(LoopPublishes(w))
          /\ WF_cvars(LoopTakesLast(w) \/ LoopSkips(w))
          /\ WF_cvars(LoopSaves(w) \/ LoopSaveFails(w))
    /\ \A c \in Runs : WF_cvars(Run(c))

CFairSpec == CSpec /\ CFairness

-----------------------------------------------------------------------------
(* Properties.                                                             *)

(* The memory of a worker only ever shows what was read with that worker's *)
(* own settings: an immediate collection that a PUT overtakes does not     *)
(* leak what it read from the old address, or as the old user, into the    *)
(* new worker (CollectNow uses the w it looked up, manager.go:158-177).    *)
MemoryIsOwn ==
    \A w \in Workers :
        Running(w) /\ last[w] # NoSnap => last[w].by = wcfg[w].pwd

Collecting(c) == rpc[c] \in {"lookup", "fetch", "publish", "clear"}

(* From the answer of TriggerCollect or AddSwitch until CollectNow returns *)
(* Status says "collecting", unless another collection of the same switch  *)
(* ended in between and took the mark along (manager.go:137-164).          *)
UnmarkedOnlyIfCleared ==
    \A c \in Runs : Collecting(c) /\ ron[c] \notin mark => c \in cleared

(* Except where CollectNow found no worker, a mark has a collection that   *)
(* will clear it, so TriggerCollect is not refused for nothing.            *)
MarkHasRun ==
    \A s \in mark \ leaked : \E c \in Runs : ron[c] = s /\ Collecting(c)

(* When the last full collection met no other writer and no failing save,  *)
(* and nobody is about to save, the snapshot the UI reads is the one that  *)
(* /metrics reads (README.md:122).                                         *)
UIAgreesWithMetrics ==
    \A s \in Switches \ mixed :
        /\ row[s] # NoRow
        /\ pool[s] # NoWorker
        /\ last[pool[s]] # NoSnap
        /\ LoopUnsaved(s) = {}
        /\ RunsUnsaved(s) = {}
        => saved[s] = last[pool[s]]

(* A mark that a collection owns is cleared.                               *)
MarksClear == \A s \in Switches : s \in mark ~> s \notin mark \/ s \in leaked

Settled(s) == phase = "serving" /\ row[s] # NoRow /\ pool[s] # NoWorker /\ ~Busy(s)
UpToDate(s) == /\ pool[s] # NoWorker
               /\ saved[s] = [by |-> wcfg[pool[s]].pwd, conf |-> conf[s]]

(* Once nobody edits a switch any more, and as long as its worker's login  *)
(* holds, what the UI shows keeps coming back to what the switch is set    *)
(* to, read with the settings in force, whatever stale immediate           *)
(* collections have saved in between.  Without a session it need not       *)
(* ("each worker logs in once, when it starts", README.md:474).            *)
SavedCatchesUp ==
    \A s \in Switches :
        <>[](Settled(s) /\ pool[s] \in session) => []<>UpToDate(s)

(* README.md:349, "1 while a collection is running".                       *)
MarkedMeansCollecting ==
    \A s \in mark : \E c \in Runs : ron[c] = s /\ Collecting(c)
=============================================================================
