----------------------------- MODULE WorkerPool -----------------------------
(***************************************************************************)
(* The pool of collection workers: Manager (internal/manager/manager.go),  *)
(* the life of a worker's loop (worker.go), the HTTP handlers that add,    *)
(* update and delete switches (internal/api/handlers/switches.go), the     *)
(* switch rows in SQLite (internal/store/store.go) and startup             *)
(* (cmd/switchdeck/main.go).  The rows survive a crash, nothing else does. *)
(*                                                                         *)
(* A request is a handler goroutine; it runs its steps in order and any    *)
(* other goroutine may run between two of them.  Each critical section of  *)
(* Manager.mu is one step.  A request whose first step fails (a bad body,  *)
(* a failing first statement) changes nothing and is not a step.           *)
(*                                                                         *)
(* Of a switch configuration two fields matter here: whether it is enabled *)
(* and its password, which stands for all the settings a worker captures.  *)
(* Worker objects are reused once nothing refers to them.                  *)
(*                                                                         *)
(* An operator written just before the one it varies (StopWithoutWait      *)
(* before WaitStopped) is a deliberate slip, not part of Spec.             *)
(***************************************************************************)
EXTENDS Naturals, FiniteSets

CONSTANTS Switches,      \* switch ids (UUIDs in the code)
          Requests,      \* bound: handler goroutines at the same time
          Workers,       \* bound: worker objects that exist at the same time
          Passwords,     \* passwords a user may type
          Blank,         \* the password field left empty
          Flags,         \* bound: what the "enabled" field may say
          StoreMayFail,  \* may a statement after a request's first one fail?
          NoRow,         \* no row in the switches table
          NoWorker       \* nil

ASSUME SwitchesAssumption == Switches # {}
ASSUME NoWorkerAssumption == NoWorker \notin Workers
ASSUME StoreAssumption == StoreMayFail \in BOOLEAN

ASSUME FlagsAssumption == TRUE \in Flags /\ Flags \subseteq BOOLEAN

Configs == [pwd : Passwords \union {Blank}, enabled : Flags]
ASSUME NoRowAssumption == NoRow \notin Configs

VARIABLES
    phase,      \* the process: "down", "loading" (LoadFromStore) or "serving"
    todo,       \* rows LoadFromStore has listed and not yet added
    row,        \* durable: [Switches -> configuration, or NoRow]
    known,      \* durable: the ids ever given out; a UUID is given once
    pool,       \* Manager.workers: [Switches -> worker, or NoWorker]
    wid,        \* [Workers -> the switch it serves]   (w.cfg.ID)
    wcfg,       \* [Workers -> the configuration it captured]  (w.cfg)
    wst,        \* [Workers -> where run() is]
    closings,   \* [Workers -> how often its stop channel was closed]
    op,         \* [Requests -> which handler it runs, "none" when idle]
    at,         \* [Requests -> its next step]
    on,         \* [Requests -> the switch it is about]
    want,       \* [Requests -> the configuration it carries]
    held,       \* [Requests -> the worker its Remove took out of the pool]
    contended   \* history: switches on which two requests have overlapped

storeVars == <<row, known>>
workerVars == <<wid, wcfg, wst, closings>>
reqVars == <<op, at, on, want, held, contended>>
vars == <<phase, todo, storeVars, pool, workerVars, reqVars>>

LoopStates == {"login", "select", "full", "stats", "save", "exited"}
Steps == {"idle", "remove", "close", "wait", "start", "drop"}

SomeSwitch == CHOOSE s \in Switches : TRUE
SomeConfig == [pwd |-> Blank, enabled |-> TRUE]

TypeOK ==
    /\ phase \in {"down", "loading", "serving"}
    /\ todo \subseteq Switches
    /\ row \in [Switches -> Configs \union {NoRow}]
    /\ known \subseteq Switches
    /\ pool \in [Switches -> Workers \union {NoWorker}]
    /\ wid \in [Workers -> Switches]
    /\ wcfg \in [Workers -> Configs]
    /\ wst \in [Workers -> LoopStates]
    /\ closings \in [Workers -> Nat]
    /\ op \in [Requests -> {"none", "add", "update", "delete"}]
    /\ at \in [Requests -> Steps]
    /\ on \in [Requests -> Switches]
    /\ want \in [Requests -> Configs]
    /\ held \in [Requests -> Workers \union {NoWorker}]
    /\ contended \subseteq Switches

Running(w) == wst[w] # "exited"
Loops(s) == {w \in Workers : Running(w) /\ wid[w] = s}

(* A worker object nothing refers to: what the allocator may hand out.     *)
Unreferenced(w) == /\ ~Running(w)
                   /\ \A s \in Switches : pool[s] # w
                   /\ \A r \in Requests : held[r] # w

Init ==
    /\ phase = "down"
    /\ todo = {}
    /\ row = [s \in Switches |-> NoRow]
    /\ known = {}
    /\ pool = [s \in Switches |-> NoWorker]
    /\ wid = [w \in Workers |-> SomeSwitch]
    /\ wcfg = [w \in Workers |-> SomeConfig]
    /\ wst = [w \in Workers |-> "exited"]
    /\ closings = [w \in Workers |-> 0]
    /\ op = [r \in Requests |-> "none"]
    /\ at = [r \in Requests |-> "idle"]
    /\ on = [r \in Requests |-> SomeSwitch]
    /\ want = [r \in Requests |-> SomeConfig]
    /\ held = [r \in Requests |-> NoWorker]
    /\ contended = {}

-----------------------------------------------------------------------------
(* Manager operations, one critical section of m.mu each.                  *)

(* Add: a worker for s joins the pool and its goroutine starts.            *)
Add(s, c) ==
    \E w \in Workers :
        /\ Unreferenced(w)
        /\ pool' = [pool EXCEPT ![s] = w]
        /\ wid' = [wid EXCEPT ![w] = s]
        /\ wcfg' = [wcfg EXCEPT ![w] = c]
        /\ wst' = [wst EXCEPT ![w] = "login"]
        /\ closings' = [closings EXCEPT ![w] = 0]

(* If there is an entry, it returns "already in pool" and changes nothing. *)
AddIfAbsent(s, c) == IF pool[s] = NoWorker THEN Add(s, c)
                     ELSE UNCHANGED <<pool, workerVars>>

Finish(r) == /\ op' = [op EXCEPT ![r] = "none"]
             /\ at' = [at EXCEPT ![r] = "idle"]
             /\ on' = [on EXCEPT ![r] = SomeSwitch]
             /\ want' = [want EXCEPT ![r] = SomeConfig]
             /\ held' = [held EXCEPT ![r] = NoWorker]
             /\ UNCHANGED contended

GoTo(r, step) == /\ at' = [at EXCEPT ![r] = step]
                 /\ UNCHANGED <<op, on, want, held, contended>>

RemoveLeavesEntry(r, s) ==
    /\ pool[s] # NoWorker
    /\ held' = [held EXCEPT ![r] = pool[s]]
    /\ at' = [at EXCEPT ![r] = "close"]
    /\ UNCHANGED pool
(* Remove's critical section: the entry leaves the map, the caller has it. *)
RemoveTakes(r, s) ==
    /\ pool[s] # NoWorker
    /\ held' = [held EXCEPT ![r] = pool[s]]
    /\ at' = [at EXCEPT ![r] = "close"]
    /\ pool' = [pool EXCEPT ![s] = NoWorker]

-----------------------------------------------------------------------------
(* Requests.                                                               *)

Busy(s) == \E r \in Requests : at[r] # "idle" /\ on[r] = s

NoteOverlap(s) == contended' = IF Busy(s) THEN contended \union {s} ELSE contended

(* AddSwitch: the required fields are there, the row is in under a new id. *)
BeginAdd(r, s, c) ==
    /\ phase = "serving"
    /\ at[r] = "idle"
    /\ s \notin known
    /\ c.pwd # Blank /\ c.enabled
    /\ known' = known \union {s}
    /\ row' = [row EXCEPT ![s] = c]
    /\ op' = [op EXCEPT ![r] = "add"]
    /\ at' = [at EXCEPT ![r] = "start"]
    /\ on' = [on EXCEPT ![r] = s]
    /\ want' = [want EXCEPT ![r] = c]
    /\ UNCHANGED <<phase, todo, pool, workerVars, held, contended>>

UpsertRow(s, c) == row' = [row EXCEPT ![s] = c]
KeepRow(s, c) == UNCHANGED row
(* Store.UpdateSwitch: an UPDATE of no row is not an error.                *)
UpdateRow(s, c) == row' = [row EXCEPT ![s] = IF @ = NoRow THEN NoRow ELSE c]

(* UpdateSwitch: no field is required, and nothing checks that the row is  *)
(* still there.  Clients can only name ids that were given out.            *)
BeginUpdate(r, s, c) ==
    /\ phase = "serving"
    /\ at[r] = "idle"
    /\ s \in known
    /\ UpdateRow(s, c)
    /\ op' = [op EXCEPT ![r] = "update"]
    /\ at' = [at EXCEPT ![r] = "remove"]
    /\ on' = [on EXCEPT ![r] = s]
    /\ want' = [want EXCEPT ![r] = c]
    /\ NoteOverlap(s)
    /\ UNCHANGED <<phase, todo, known, pool, workerVars, held>>

UpdateTake(r) ==
    /\ at[r] = "remove"
    /\ RemoveTakes(r, on[r])
    /\ UNCHANGED <<phase, todo, storeVars, workerVars, op, on, want,
                   contended>>

(* "updated but could not restart worker": the switch is not in the pool.  *)
UpdateNotPooled(r) ==
    /\ at[r] = "remove"
    /\ pool[on[r]] = NoWorker
    /\ Finish(r)
    /\ UNCHANGED <<phase, todo, storeVars, pool, workerVars>>

(* DeleteSwitch ignores Remove's error and goes on to the row.             *)
BeginDelete(r, s) ==
    /\ phase = "serving"
    /\ at[r] = "idle"
    /\ s \in known
    /\ \/ RemoveTakes(r, s)
       \/ /\ pool[s] = NoWorker
          /\ at' = [at EXCEPT ![r] = "drop"]
          /\ UNCHANGED <<pool, held>>
    /\ op' = [op EXCEPT ![r] = "delete"]
    /\ on' = [on EXCEPT ![r] = s]
    /\ NoteOverlap(s)
    /\ UNCHANGED <<phase, todo, storeVars, workerVars, want>>

CloseForgotten(r) ==
    /\ at[r] = "close"
    /\ GoTo(r, "wait")
    /\ UNCHANGED <<phase, todo, storeVars, pool, workerVars>>
(* stopAndWait: close(w.stop), then receive from w.stopped.                *)
CloseStop(r) ==
    /\ at[r] = "close"
    /\ closings' = [closings EXCEPT ![held[r]] = @ + 1]
    /\ GoTo(r, "wait")
    /\ UNCHANGED <<phase, todo, storeVars, pool, wid, wcfg, wst>>

AfterRemove(r) == IF op[r] = "update" THEN "start" ELSE "drop"

StopWithoutWait(r) ==
    /\ at[r] = "wait"
    /\ at' = [at EXCEPT ![r] = AfterRemove(r)]
    /\ held' = [held EXCEPT ![r] = NoWorker]
    /\ UNCHANGED <<phase, todo, storeVars, pool, workerVars, op, on, want,
                   contended>>
(* Nobody refers to the stopped worker any more: its fields are reset, as  *)
(* those of any object the allocator may hand out again.                   *)
WaitStopped(r) ==
    /\ at[r] = "wait"
    /\ ~Running(held[r])
    /\ at' = [at EXCEPT ![r] = AfterRemove(r)]
    /\ held' = [held EXCEPT ![r] = NoWorker]
    /\ wid' = [wid EXCEPT ![held[r]] = SomeSwitch]
    /\ wcfg' = [wcfg EXCEPT ![held[r]] = SomeConfig]
    /\ closings' = [closings EXCEPT ![held[r]] = 0]
    /\ UNCHANGED <<phase, todo, storeVars, pool, wst, op, on, want, contended>>

StartWorker(r) ==
    /\ at[r] = "start"
    /\ AddIfAbsent(on[r], want[r])
    /\ Finish(r)
    /\ UNCHANGED <<phase, todo, storeVars>>

(* Store.DeleteSwitch, which may fail with the worker already gone.        *)
DropRow(r) ==
    /\ at[r] = "drop"
    /\ \/ row' = [row EXCEPT ![on[r]] = NoRow]
       \/ StoreMayFail /\ row' = row
    /\ Finish(r)
    /\ UNCHANGED <<phase, todo, known, pool, workerVars>>

Step(r) == \/ UpdateTake(r) \/ UpdateNotPooled(r) \/ CloseStop(r)
           \/ WaitStopped(r) \/ StartWorker(r) \/ DropRow(r)

Begin(r) == \E s \in Switches :
                \/ BeginDelete(r, s)
                \/ \E c \in Configs : BeginAdd(r, s, c) \/ BeginUpdate(r, s, c)

-----------------------------------------------------------------------------
(* run(): the collection loop of worker w.                                 *)

Advance(w, from, to) ==
    /\ wst[w] = from
    /\ wst' = [wst EXCEPT ![w] = to]
    /\ UNCHANGED <<phase, todo, storeVars, pool, wid, wcfg, closings, reqVars>>

LoginOk(w) == Advance(w, "login", "full")
LoginFails(w) == Advance(w, "login", "select")

(* collectFull and collectStats: the switch is read, then the callback     *)
(* stores the snapshot; an error, or stats without a snapshot, skips it.   *)
FullTick(w) == Advance(w, "select", "full")
StatsTick(w) == Advance(w, "select", "stats")
Fetched(w) == Advance(w, "full", "save") \/ Advance(w, "stats", "save")
FetchSkipped(w) == Advance(w, "full", "select") \/ Advance(w, "stats", "select")
Saved(w) == Advance(w, "save", "select")

ExitUnasked(w) == Advance(w, "select", "exited")
Exit(w) == closings[w] > 0 /\ Advance(w, "select", "exited")

Collect(w) == LoginOk(w) \/ LoginFails(w) \/ Fetched(w) \/ FetchSkipped(w)
              \/ Saved(w)

Loop(w) == Collect(w) \/ FullTick(w) \/ StatsTick(w) \/ Exit(w)

-----------------------------------------------------------------------------
(* The process.                                                            *)

ListEverKnown == known
(* The enabled rows of ListSwitches.                                       *)
Listed == {s \in Switches : row[s] # NoRow /\ row[s].enabled}

(* main opens the store and lists the rows; nobody serves HTTP yet.        *)
Boot == /\ phase = "down"
        /\ phase' = "loading"
        /\ todo' = Listed
        /\ UNCHANGED <<storeVars, pool, workerVars, reqVars>>

LoadOne == /\ phase = "loading"
           /\ \E s \in todo : /\ todo' = todo \ {s}
                              /\ AddIfAbsent(s, row[s])
           /\ UNCHANGED <<phase, storeVars, reqVars>>

Serve == /\ phase = "loading"
         /\ todo = {}
         /\ phase' = "serving"
         /\ UNCHANGED <<todo, storeVars, pool, workerVars, reqVars>>

Crash == /\ phase # "down"
         /\ phase' = "down"
         /\ todo' = {}
         /\ pool' = [s \in Switches |-> NoWorker]
         /\ wst' = [w \in Workers |-> "exited"]
         /\ closings' = [w \in Workers |-> 0]
         /\ wid' = [w \in Workers |-> SomeSwitch]
         /\ wcfg' = [w \in Workers |-> SomeConfig]
         /\ op' = [r \in Requests |-> "none"]
         /\ at' = [r \in Requests |-> "idle"]
         /\ on' = [r \in Requests |-> SomeSwitch]
         /\ want' = [r \in Requests |-> SomeConfig]
         /\ held' = [r \in Requests |-> NoWorker]
         /\ contended' = {}
         /\ UNCHANGED storeVars

Next == \/ Boot \/ LoadOne \/ Serve \/ Crash
        \/ \E r \in Requests : Begin(r) \/ Step(r)
        \/ \E w \in Workers : Loop(w)

Spec == Init /\ [][Next]_vars

(* Goroutines that can run do, and every call to the switch or to SQLite   *)
(* returns (the HTTP client and the probes have timeouts).  select picks   *)
(* at random among ready cases, so a closed stop channel is not passed     *)
(* over for ever: strong fairness of Exit.  Nothing makes users send       *)
(* requests, tickers fire or the process crash.                            *)
Fairness == /\ WF_vars(Boot) /\ WF_vars(LoadOne) /\ WF_vars(Serve)
            /\ \A r \in Requests : WF_vars(Step(r))
            /\ \A w \in Workers : WF_vars(Collect(w)) /\ SF_vars(Exit(w))

FairSpec == Spec /\ Fairness

-----------------------------------------------------------------------------
(* Properties.                                                             *)

(* A switch never has two collection loops, whatever updates, deletes and  *)
(* restarts race: "one worker per switch" (README.md:35).                  *)
AtMostOneLoop == \A s \in Switches : Cardinality(Loops(s)) <= 1

(* No loop is leaked: one that runs is in the pool under its own id, or a  *)
(* request has taken it out and is about to stop it.                       *)
NoLeakedLoop ==
    \A w \in Workers : Running(w) =>
        \/ pool[wid[w]] = w
        \/ \E r \in Requests : held[r] = w /\ at[r] \in {"close", "wait"}

(* A stop channel is closed at most once (a second close would panic), and *)
(* never while its worker is still in the pool.                            *)
StopClosedOnce ==
    /\ \A w \in Workers : closings[w] <= 1
    /\ \A s \in Switches : pool[s] # NoWorker => closings[pool[s]] = 0

(* The Add of UpdateSwitch and AddSwitch never meets "already in pool":    *)
(* whoever took the entry out is the only one who can put it back.         *)
StartNeverRefused ==
    \A r \in Requests : at[r] = "start" => pool[on[r]] = NoWorker

(* The loop of a pooled worker ends only when its process does.            *)
PooledLoopKeepsRunning ==
    \A s \in Switches : pool[s] # NoWorker =>
        Running(pool[s]) /\ wid[pool[s]] = s

(* A deleted switch stays deleted: no late update brings its row back.     *)
DeletedStaysDeleted ==
    [][\A s \in known : row[s] = NoRow => row'[s] = NoRow]_vars

Runner == INSTANCE SingleRunner WITH runners <- [s \in Switches |-> Loops(s)]
ImplementsSingleRunner == Runner!Spec

(* As long as requests for a switch do not overlap, its worker runs the    *)
(* configuration that is stored, and a deleted switch has no worker:       *)
(* "Update stops and re-creates a switch worker with new config"           *)
(* (manager.go:118).                                                       *)
Quiet(s) == phase = "serving" /\ ~Busy(s)
AloneRunsStoredConfig ==
    \A s \in Switches \ contended :
        Quiet(s) /\ pool[s] # NoWorker => wcfg[pool[s]] = row[s]

(* Every request is answered: stopAndWait never waits for ever.            *)
RequestsEnd == \A r \in Requests : at[r] # "idle" ~> at[r] = "idle"

(* "Remove a switch" (README.md:397): when DELETE has been answered and    *)
(* nobody is at work on the switch, nothing polls it any more, also when   *)
(* requests did overlap.                                                   *)
DeletedIsNotPolled ==
    \A s \in Switches : Quiet(s) /\ pool[s] # NoWorker => row[s] # NoRow

(* "to restart the worker itself, edit and save the switch" (README.md:474)*)
(* and "a worker for each enabled switch" (README.md:117).                 *)
EnabledHasWorker ==
    \A s \in Switches :
        Quiet(s) /\ row[s] # NoRow /\ row[s].enabled => pool[s] # NoWorker
=============================================================================
