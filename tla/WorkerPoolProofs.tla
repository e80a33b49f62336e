-------------------------- MODULE WorkerPoolProofs --------------------------
(***************************************************************************)
(* Proofs about the worker pool, for any number of switches, requests,     *)
(* worker objects and crashes.  The argument is about ownership: the entry *)
(* of a switch is either in the pool, or with the one request that took it *)
(* out (or that is adding it for the first time), or nowhere; only its     *)
(* owner can put an entry back, and only after the old loop has ended.  At *)
(* the end, what requests that stay alone achieve, what a stopping request *)
(* waits for, and that the bound on worker objects hides nothing.          *)
(***************************************************************************)
EXTENDS WorkerPool, FiniteSetTheorems, TLAPS

(* The request is between taking the entry of its switch out of the pool   *)
(* (or giving the switch its id) and putting an entry there.               *)
Owns(r) == at[r] \in {"close", "wait", "start"}
Stopping(r) == at[r] \in {"close", "wait"}

PooledInv ==
    \A s \in Switches : pool[s] # NoWorker =>
        /\ s \in known
        /\ Running(pool[s])
        /\ wid[pool[s]] = s
        /\ closings[pool[s]] = 0

HeldInv ==
    \A r \in Requests :
        /\ ~Stopping(r) => held[r] = NoWorker
        /\ Stopping(r) => /\ held[r] # NoWorker
                          /\ wid[held[r]] = on[r]
        /\ at[r] = "close" => /\ closings[held[r]] = 0
                              /\ Running(held[r])
        /\ at[r] = "wait" => closings[held[r]] = 1

OwnerInv ==
    /\ \A r \in Requests : at[r] # "idle" => on[r] \in known
    /\ \A r \in Requests : Owns(r) => pool[on[r]] = NoWorker
    /\ \A r, q \in Requests : Owns(r) /\ Owns(q) /\ on[r] = on[q] => r = q

PhaseInv ==
    /\ phase # "serving" => \A r \in Requests : at[r] = "idle"
    /\ phase # "loading" => todo = {}
    /\ \A s \in todo : row[s] # NoRow
    /\ \A s \in Switches : row[s] # NoRow => s \in known

ClosingInv == \A w \in Workers : closings[w] <= 1

PoolInv == /\ TypeOK
           /\ PooledInv
           /\ HeldInv
           /\ OwnerInv
           /\ NoLeakedLoop
           /\ PhaseInv
           /\ ClosingInv

-----------------------------------------------------------------------------
LEMMA SomeTypes == SomeSwitch \in Switches /\ SomeConfig \in Configs
BY SwitchesAssumption, FlagsAssumption DEF SomeSwitch, SomeConfig, Configs

LEMMA InitInv == Init => PoolInv
<1> SUFFICES ASSUME Init PROVE PoolInv
  OBVIOUS
<1>1. TypeOK
  BY SomeTypes DEF Init, TypeOK, LoopStates, Steps
<1>2. PooledInv /\ HeldInv /\ OwnerInv
  BY DEF Init, PooledInv, HeldInv, OwnerInv, Owns, Stopping
<1>3. NoLeakedLoop /\ PhaseInv /\ ClosingInv
  BY DEF Init, NoLeakedLoop, Running, PhaseInv, ClosingInv
<1> QED BY <1>1, <1>2, <1>3 DEF PoolInv

(* A worker object nothing refers to is not pooled, held or running.       *)
LEMMA AddEffect ==
    ASSUME PoolInv, NEW s \in Switches, NEW c \in Configs, pool[s] = NoWorker,
           s \in known, Add(s, c),
           \A r \in Requests : Owns(r)' /\ on'[r] = s => FALSE,
           \A r \in Requests : Stopping(r)' <=> Stopping(r),
           \A r \in Requests : at'[r] = "close" <=> at[r] = "close",
           \A r \in Requests : at'[r] = "wait" <=> at[r] = "wait",
           \A r \in Requests : at'[r] # "idle" => at[r] # "idle" /\ on'[r] = on[r],
           \A r \in Requests : Owns(r)' => Owns(r),
           \A r \in Requests : held'[r] = held[r],
           known' = known
    PROVE  PooledInv' /\ HeldInv' /\ OwnerInv' /\ NoLeakedLoop' /\ ClosingInv'
<1> USE DEF PoolInv
<1>1. PICK w \in Workers :
          /\ Unreferenced(w)
          /\ pool' = [pool EXCEPT ![s] = w]
          /\ wid' = [wid EXCEPT ![w] = s]
          /\ wcfg' = [wcfg EXCEPT ![w] = c]
          /\ wst' = [wst EXCEPT ![w] = "login"]
          /\ closings' = [closings EXCEPT ![w] = 0]
  BY DEF Add
<1>2. /\ ~Running(w)
      /\ \A t \in Switches : pool[t] # w
      /\ \A r \in Requests : held[r] # w
  BY <1>1 DEF Unreferenced
<1>3. w # NoWorker
  BY NoWorkerAssumption
<1>4. PooledInv'
  BY <1>1, <1>2, <1>3 DEF TypeOK, PooledInv, Running
<1>5. HeldInv'
  BY <1>1, <1>2, <1>3 DEF TypeOK, HeldInv, Running, Stopping, Owns
<1>6. OwnerInv'
  BY <1>1, <1>2 DEF TypeOK, OwnerInv, Owns
<1>7. NoLeakedLoop'
  <2> SUFFICES ASSUME NEW v \in Workers, Running(v)'
               PROVE  \/ pool'[wid'[v]] = v
                      \/ \E r \in Requests :
                             held'[r] = v /\ at'[r] \in {"close", "wait"}
    BY DEF NoLeakedLoop
  <2>1. CASE v = w
    BY <1>1, <2>1 DEF TypeOK
  <2>2. CASE v # w
    <3>1. Running(v) /\ wid'[v] = wid[v] /\ wid[v] \in Switches
      BY <1>1, <2>2 DEF TypeOK, Running
    <3>2. CASE pool[wid[v]] = v
      BY <3>1, <3>2, <1>1, NoWorkerAssumption DEF TypeOK
    <3>3. CASE \E r \in Requests : held[r] = v /\ at[r] \in {"close", "wait"}
      BY <3>3
    <3> QED BY <3>1, <3>2, <3>3 DEF NoLeakedLoop
  <2> QED BY <2>1, <2>2
<1>8. ClosingInv'
  BY <1>1 DEF TypeOK, ClosingInv
<1> QED BY <1>4, <1>5, <1>6, <1>7, <1>8

(* A loop that goes on to another state of its own.                        *)
LEMMA AdvanceStep ==
    ASSUME PoolInv, NEW w \in Workers,
           NEW from \in LoopStates \ {"exited"}, NEW to \in LoopStates \ {"exited"},
           Advance(w, from, to)
    PROVE  PoolInv'
<1> USE DEF PoolInv
<1>1. \A v \in Workers : Running(v)' <=> Running(v)
  BY DEF Advance, TypeOK, Running, LoopStates
<1>2. TypeOK'
  BY DEF Advance, TypeOK, storeVars, reqVars
<1>3. PooledInv' /\ OwnerInv' /\ PhaseInv' /\ ClosingInv'
  BY <1>1 DEF Advance, TypeOK, PooledInv, OwnerInv, Owns, PhaseInv, ClosingInv,
              storeVars, reqVars
<1>4. HeldInv'
  BY <1>1 DEF Advance, TypeOK, HeldInv, Stopping, reqVars
<1>5. NoLeakedLoop'
  BY <1>1 DEF Advance, NoLeakedLoop, reqVars
<1> QED BY <1>2, <1>3, <1>4, <1>5

(* A loop that ends was asked to: its worker is held, not pooled.          *)
LEMMA ExitStep ==
    ASSUME PoolInv, NEW w \in Workers, Exit(w)
    PROVE  PoolInv'
<1> USE DEF PoolInv
<1>1. /\ wst' = [wst EXCEPT ![w] = "exited"]
      /\ closings[w] > 0
      /\ UNCHANGED <<phase, todo, storeVars, pool, wid, wcfg, closings, reqVars>>
  BY DEF Exit, Advance
<1>2. \A s \in Switches : pool[s] # w
  BY <1>1, NoWorkerAssumption DEF PooledInv, TypeOK
<1>3. \A r \in Requests : at[r] = "close" => held[r] # w
  BY <1>1 DEF HeldInv, TypeOK
<1>4. \A v \in Workers : Running(v)' <=> v # w /\ Running(v)
  BY <1>1 DEF TypeOK, Running
<1>5. TypeOK'
  BY <1>1 DEF TypeOK, LoopStates, storeVars, reqVars
<1>6. PooledInv' /\ OwnerInv' /\ PhaseInv' /\ ClosingInv'
  BY <1>1, <1>2, <1>4 DEF TypeOK, PooledInv, OwnerInv, Owns, PhaseInv, ClosingInv,
              storeVars, reqVars
<1>7. HeldInv'
  BY <1>1, <1>3, <1>4 DEF TypeOK, HeldInv, Stopping, reqVars
<1>8. NoLeakedLoop'
  BY <1>1, <1>4 DEF NoLeakedLoop, reqVars
<1> QED BY <1>5, <1>6, <1>7, <1>8

LEMMA LoopStep ==
    ASSUME PoolInv, NEW w \in Workers, Loop(w)
    PROVE  PoolInv'
<1>1. ASSUME Exit(w) PROVE PoolInv'
  BY <1>1, ExitStep
<1>2. ASSUME Collect(w) \/ FullTick(w) \/ StatsTick(w) PROVE PoolInv'
  BY <1>2, AdvanceStep DEF Collect, LoginOk, LoginFails, FullTick, StatsTick,
                           Fetched, FetchSkipped, Saved, LoopStates
<1> QED BY <1>1, <1>2 DEF Loop

-----------------------------------------------------------------------------
(* Steps of a request that touch neither workers nor the pool.             *)
LEMMA BeginAddStep ==
    ASSUME PoolInv, NEW r \in Requests, NEW s \in Switches, NEW c \in Configs,
           BeginAdd(r, s, c)
    PROVE  PoolInv'
<1> USE DEF PoolInv
<1>1. TypeOK'
  BY DEF BeginAdd, TypeOK, Steps, workerVars
<1>2. PooledInv' /\ NoLeakedLoop' /\ ClosingInv'
  BY DEF BeginAdd, TypeOK, PooledInv, NoLeakedLoop, ClosingInv, Running, workerVars
<1>3. HeldInv'
  BY DEF BeginAdd, TypeOK, HeldInv, Stopping, Running, workerVars
<1>4. OwnerInv'
  BY DEF BeginAdd, TypeOK, OwnerInv, Owns, PooledInv
<1>5. PhaseInv'
  BY DEF BeginAdd, TypeOK, PhaseInv
<1> QED BY <1>1, <1>2, <1>3, <1>4, <1>5

LEMMA BeginUpdateStep ==
    ASSUME PoolInv, NEW r \in Requests, NEW s \in Switches, NEW c \in Configs,
           BeginUpdate(r, s, c)
    PROVE  PoolInv'
<1> USE DEF PoolInv
<1>1. TypeOK'
  BY DEF BeginUpdate, UpdateRow, NoteOverlap, TypeOK, Steps, workerVars
<1>2. PooledInv' /\ NoLeakedLoop' /\ ClosingInv'
  BY DEF BeginUpdate, TypeOK, PooledInv, NoLeakedLoop, ClosingInv, Running,
         workerVars
<1>3. HeldInv'
  BY DEF BeginUpdate, TypeOK, HeldInv, Stopping, Running, workerVars
<1>4. OwnerInv'
  BY DEF BeginUpdate, TypeOK, OwnerInv, Owns
<1>5. PhaseInv'
  BY DEF BeginUpdate, UpdateRow, TypeOK, PhaseInv
<1> QED BY <1>1, <1>2, <1>3, <1>4, <1>5

LEMMA FinishStep ==
    ASSUME PoolInv, NEW r \in Requests, ~Stopping(r), Finish(r),
           UNCHANGED <<phase, todo, known, pool, workerVars>>,
           row' \in [Switches -> Configs \union {NoRow}],
           \A s \in Switches : row'[s] # NoRow => row[s] # NoRow,
           todo = {} \/ row' = row
    PROVE  PoolInv'
<1> USE DEF PoolInv
<1>1. TypeOK'
  BY SomeTypes DEF Finish, TypeOK, Steps, workerVars
<1>2. PooledInv' /\ ClosingInv'
  BY DEF Finish, TypeOK, PooledInv, ClosingInv, Running, workerVars
<1>3. HeldInv'
  BY DEF Finish, TypeOK, HeldInv, Stopping, Running, workerVars
<1>4. OwnerInv'
  BY DEF Finish, TypeOK, OwnerInv, Owns
<1>5. NoLeakedLoop'
  BY DEF Finish, TypeOK, NoLeakedLoop, Running, Stopping, workerVars
<1>6. PhaseInv'
  BY DEF Finish, TypeOK, PhaseInv
<1> QED BY <1>1, <1>2, <1>3, <1>4, <1>5, <1>6

(* Remove takes the entry out: r becomes its only owner.                   *)
LEMMA RemoveEffect ==
    ASSUME PoolInv, NEW r \in Requests, NEW s \in Switches, s \in known,
           at[r] \in {"idle", "remove"}, RemoveTakes(r, s),
           on'[r] = s, \A q \in Requests : q # r => on'[q] = on[q],
           UNCHANGED <<known, workerVars>>
    PROVE  PooledInv' /\ HeldInv' /\ OwnerInv' /\ NoLeakedLoop' /\ ClosingInv'
<1> USE DEF PoolInv
<1>1. /\ pool[s] \in Workers
      /\ pool' = [pool EXCEPT ![s] = NoWorker]
      /\ held' = [held EXCEPT ![r] = pool[s]]
      /\ at' = [at EXCEPT ![r] = "close"]
      /\ Running(pool[s]) /\ wid[pool[s]] = s /\ closings[pool[s]] = 0
  BY DEF RemoveTakes, TypeOK, PooledInv
<1>2. PooledInv' /\ ClosingInv'
  BY <1>1 DEF TypeOK, PooledInv, ClosingInv, Running, workerVars
<1>3. HeldInv'
  BY <1>1, NoWorkerAssumption DEF TypeOK, HeldInv, Stopping, Running, workerVars
<1>4. OwnerInv'
  BY <1>1, NoWorkerAssumption DEF TypeOK, OwnerInv, Owns
<1>5. NoLeakedLoop'
  BY <1>1 DEF TypeOK, NoLeakedLoop, Running, workerVars
<1> QED BY <1>2, <1>3, <1>4, <1>5

LEMMA UpdateTakeStep ==
    ASSUME PoolInv, NEW r \in Requests, UpdateTake(r)
    PROVE  PoolInv'
<1> USE DEF PoolInv
<1>1. /\ at[r] = "remove" /\ RemoveTakes(r, on[r]) /\ on[r] \in Switches
      /\ UNCHANGED <<phase, todo, storeVars, workerVars, op, on, want, contended>>
  BY DEF UpdateTake, TypeOK
<1>2. on[r] \in known
  BY <1>1 DEF OwnerInv
<1>3. PooledInv' /\ HeldInv' /\ OwnerInv' /\ NoLeakedLoop' /\ ClosingInv'
  BY <1>1, <1>2, RemoveEffect DEF storeVars
<1>4. TypeOK'
  BY <1>1 DEF TypeOK, RemoveTakes, Steps, storeVars, workerVars
<1>5. PhaseInv'
  BY <1>1 DEF PhaseInv, RemoveTakes, TypeOK, storeVars
<1> QED BY <1>3, <1>4, <1>5

LEMMA BeginDeleteStep ==
    ASSUME PoolInv, NEW r \in Requests, NEW s \in Switches, BeginDelete(r, s)
    PROVE  PoolInv'
<1> USE DEF PoolInv
<1>1. /\ phase = "serving" /\ at[r] = "idle" /\ s \in known
      /\ op' = [op EXCEPT ![r] = "delete"]
      /\ on' = [on EXCEPT ![r] = s]
      /\ contended' \subseteq Switches
      /\ UNCHANGED <<phase, todo, storeVars, workerVars, want>>
  BY DEF BeginDelete, NoteOverlap, TypeOK
<1>2. ASSUME RemoveTakes(r, s) PROVE PoolInv'
  <2>1. on'[r] = s /\ \A q \in Requests : q # r => on'[q] = on[q]
    BY <1>1 DEF TypeOK
  <2>2. PooledInv' /\ HeldInv' /\ OwnerInv' /\ NoLeakedLoop' /\ ClosingInv'
    BY <1>1, <1>2, <2>1, RemoveEffect DEF storeVars
  <2>3. TypeOK'
    BY <1>1, <1>2 DEF TypeOK, RemoveTakes, Steps, storeVars, workerVars
  <2>4. PhaseInv'
    BY <1>1 DEF PhaseInv, storeVars
  <2> QED BY <2>2, <2>3, <2>4
<1>3. ASSUME at' = [at EXCEPT ![r] = "drop"], UNCHANGED <<pool, held>>
      PROVE  PoolInv'
  <2>1. TypeOK'
    BY <1>1, <1>3 DEF TypeOK, Steps, storeVars, workerVars
  <2>2. PooledInv' /\ ClosingInv' /\ PhaseInv'
    BY <1>1, <1>3 DEF TypeOK, PooledInv, ClosingInv, PhaseInv, Running,
                      storeVars, workerVars
  <2>3. HeldInv'
    BY <1>1, <1>3 DEF TypeOK, HeldInv, Stopping, Running, workerVars
  <2>4. OwnerInv'
    BY <1>1, <1>3 DEF TypeOK, OwnerInv, Owns, storeVars
  <2>5. NoLeakedLoop'
    BY <1>1, <1>3 DEF TypeOK, NoLeakedLoop, Running, workerVars
  <2> QED BY <2>1, <2>2, <2>3, <2>4, <2>5
<1> QED BY <1>2, <1>3 DEF BeginDelete

(* Only the owner closes the channel, and only once.                       *)
LEMMA CloseStopStep ==
    ASSUME PoolInv, NEW r \in Requests, CloseStop(r)
    PROVE  PoolInv'
<1> USE DEF PoolInv
<1>1. /\ at[r] = "close"
      /\ at' = [at EXCEPT ![r] = "wait"]
      /\ closings' = [closings EXCEPT ![held[r]] = closings[held[r]] + 1]
      /\ UNCHANGED <<op, on, want, held, contended, phase, todo, storeVars,
                     pool, wid, wcfg, wst>>
  BY DEF CloseStop, GoTo
<1>2. held[r] \in Workers /\ closings[held[r]] = 0 /\ wid[held[r]] = on[r]
  BY <1>1 DEF TypeOK, HeldInv, Stopping
<1>3. pool[on[r]] = NoWorker
  BY <1>1 DEF OwnerInv, Owns
<1>4. TypeOK'
  BY <1>1, <1>2 DEF TypeOK, Steps, storeVars
<1>5. PooledInv'
  <2> SUFFICES ASSUME NEW s \in Switches, pool[s] # NoWorker
               PROVE  pool[s] # held[r]
    BY <1>1, <1>2 DEF PooledInv, TypeOK, Running, storeVars
  <2> QED BY <1>2, <1>3 DEF PooledInv
<1>6. HeldInv'
  <2>1. \A q \in Requests : q # r /\ Stopping(q) => held[q] # held[r]
    BY <1>1, <1>2 DEF HeldInv, OwnerInv, Owns, Stopping
  <2>2. ASSUME NEW q \in Requests, q # r, Stopping(q)
        PROVE  closings'[held[q]] = closings[held[q]]
    BY <1>1, <2>1, <2>2 DEF TypeOK
  <2>3. closings'[held[r]] = 1
    BY <1>1, <1>2 DEF TypeOK
  <2> QED BY <1>1, <2>2, <2>3 DEF TypeOK, HeldInv, Stopping, Running
<1>7. OwnerInv' /\ PhaseInv'
  BY <1>1 DEF TypeOK, OwnerInv, Owns, PhaseInv, storeVars
<1>8. NoLeakedLoop'
  BY <1>1 DEF TypeOK, NoLeakedLoop, Running
<1>9. ClosingInv'
  BY <1>1, <1>2 DEF TypeOK, ClosingInv
<1> QED BY <1>4, <1>5, <1>6, <1>7, <1>8, <1>9

(* The stopped object is nobody else's: no pool entry, no other request.   *)
LEMMA WaitStoppedStep ==
    ASSUME PoolInv, NEW r \in Requests, WaitStopped(r)
    PROVE  PoolInv'
<1> USE DEF PoolInv
<1>1. /\ at[r] = "wait" /\ ~Running(held[r])
      /\ at' = [at EXCEPT ![r] = AfterRemove(r)]
      /\ AfterRemove(r) \in {"start", "drop"}
      /\ held' = [held EXCEPT ![r] = NoWorker]
      /\ wid' = [wid EXCEPT ![held[r]] = SomeSwitch]
      /\ wcfg' = [wcfg EXCEPT ![held[r]] = SomeConfig]
      /\ closings' = [closings EXCEPT ![held[r]] = 0]
      /\ UNCHANGED <<phase, todo, storeVars, pool, wst, op, on, want, contended>>
  BY DEF WaitStopped, AfterRemove
<1>2. held[r] \in Workers /\ wid[held[r]] = on[r] /\ closings[held[r]] = 1
  BY <1>1 DEF TypeOK, HeldInv, Stopping
<1>3. \A v \in Workers : v # held[r] => /\ wid'[v] = wid[v]
                                        /\ closings'[v] = closings[v]
  BY <1>1 DEF TypeOK
<1>4. TypeOK'
  BY <1>1, SomeTypes DEF TypeOK, Steps, storeVars
<1>5. \A s \in Switches : pool[s] # NoWorker => pool[s] # held[r]
  BY <1>1 DEF PooledInv
<1>6. PooledInv'
  BY <1>1, <1>3, <1>5 DEF TypeOK, PooledInv, Running, storeVars
<1>7. \A q \in Requests : q # r /\ Stopping(q) => held[q] # held[r]
  BY <1>1, <1>2 DEF HeldInv, OwnerInv, Owns, Stopping
<1>8. HeldInv'
  BY <1>1, <1>3, <1>7 DEF TypeOK, HeldInv, Stopping, Running
<1>9. OwnerInv' /\ PhaseInv'
  BY <1>1 DEF TypeOK, OwnerInv, Owns, PhaseInv, storeVars
<1>10. NoLeakedLoop'
  BY <1>1, <1>3 DEF TypeOK, NoLeakedLoop, Running
<1>11. ClosingInv'
  BY <1>1, <1>3 DEF TypeOK, ClosingInv
<1> QED BY <1>4, <1>6, <1>8, <1>9, <1>10, <1>11

(* A switch nobody owns the entry of, and that is not pooled, has no loop. *)
LEMMA NoEntryNoLoop ==
    ASSUME PoolInv, NEW s \in Switches, pool[s] = NoWorker,
           \A r \in Requests : Stopping(r) => on[r] # s
    PROVE  Loops(s) = {}
<1> SUFFICES ASSUME NEW w \in Workers, Running(w), wid[w] = s PROVE FALSE
  BY DEF Loops
<1>1. pool[s] # w
  BY NoWorkerAssumption
<1>2. PICK r \in Requests : held[r] = w /\ Stopping(r)
  BY <1>1 DEF PoolInv, NoLeakedLoop, Stopping
<1> QED BY <1>2 DEF PoolInv, HeldInv

LEMMA StartWorkerStep ==
    ASSUME PoolInv, NEW r \in Requests, StartWorker(r)
    PROVE  PoolInv'
<1> USE DEF PoolInv
<1>1. /\ at[r] = "start" /\ AddIfAbsent(on[r], want[r]) /\ Finish(r)
      /\ UNCHANGED <<phase, todo, storeVars>>
  BY DEF StartWorker
<1>2. on[r] \in known /\ pool[on[r]] = NoWorker /\ on[r] \in Switches
      /\ want[r] \in Configs /\ held[r] = NoWorker
  BY <1>1 DEF OwnerInv, Owns, TypeOK, HeldInv, Stopping
<1>3. Add(on[r], want[r])
  BY <1>1, <1>2 DEF AddIfAbsent
<1>4. TypeOK'
  BY <1>1, <1>2, <1>3, SomeTypes DEF Add, Finish, TypeOK, Steps, LoopStates, storeVars
<1>5. /\ at' = [at EXCEPT ![r] = "idle"]
      /\ on' = [on EXCEPT ![r] = SomeSwitch]
      /\ held' = [held EXCEPT ![r] = NoWorker]
  BY <1>1 DEF Finish
<1>6. \A q \in Requests : q # r => at'[q] = at[q] /\ on'[q] = on[q]
  BY <1>5 DEF TypeOK
<1>7. at'[r] = "idle"
  BY <1>5 DEF TypeOK
<1>8. \A q \in Requests : held'[q] = held[q]
  BY <1>2, <1>5 DEF TypeOK
<1>9. \A q \in Requests : Owns(q)' /\ on'[q] = on[r] => FALSE
  BY <1>1, <1>6, <1>7 DEF OwnerInv, Owns
<1>10. \A q \in Requests : /\ Stopping(q)' <=> Stopping(q)
                           /\ at'[q] = "close" <=> at[q] = "close"
                           /\ at'[q] = "wait" <=> at[q] = "wait"
                           /\ at'[q] # "idle" => at[q] # "idle" /\ on'[q] = on[q]
                           /\ Owns(q)' => Owns(q)
  BY <1>1, <1>6, <1>7 DEF Owns, Stopping
<1>11. known' = known
  BY <1>1 DEF storeVars
<1>12. PooledInv' /\ HeldInv' /\ OwnerInv' /\ NoLeakedLoop' /\ ClosingInv'
  BY <1>2, <1>3, <1>8, <1>9, <1>10, <1>11, AddEffect
<1>13. PhaseInv'
  BY <1>1, <1>6, <1>7 DEF PhaseInv, storeVars
<1> QED BY <1>4, <1>12, <1>13

LEMMA RequestStep ==
    ASSUME PoolInv, NEW r \in Requests, Begin(r) \/ Step(r)
    PROVE  PoolInv'
<1>1. CASE Begin(r)
  BY <1>1, BeginAddStep, BeginUpdateStep, BeginDeleteStep DEF Begin
<1>2. CASE UpdateNotPooled(r)
  BY <1>2, FinishStep DEF UpdateNotPooled, Stopping, storeVars, PoolInv, TypeOK
<1>3. CASE DropRow(r)
  <2>1. at[r] = "drop" /\ phase = "serving"
    BY <1>3 DEF DropRow, PoolInv, PhaseInv
  <2>2. todo = {}
    BY <2>1 DEF PoolInv, PhaseInv
  <2>3. /\ row' \in [Switches -> Configs \union {NoRow}]
        /\ \A s \in Switches : row'[s] # NoRow => row[s] # NoRow
    BY <1>3 DEF DropRow, PoolInv, TypeOK
  <2> QED BY <1>3, <2>1, <2>2, <2>3, FinishStep DEF DropRow, Stopping
<1> QED BY <1>1, <1>2, <1>3, UpdateTakeStep, CloseStopStep, WaitStoppedStep,
           StartWorkerStep DEF Step

-----------------------------------------------------------------------------
(* Steps of the process.                                                   *)
LEMMA BootServeStep ==
    ASSUME PoolInv, Boot \/ Serve
    PROVE  PoolInv'
<1> USE DEF PoolInv
<1>1. UNCHANGED <<storeVars, pool, workerVars, reqVars>>
  BY DEF Boot, Serve
<1>2. TypeOK'
  BY <1>1 DEF Boot, Serve, Listed, TypeOK, storeVars, workerVars, reqVars
<1>3. PooledInv' /\ OwnerInv' /\ ClosingInv'
  BY <1>1 DEF PooledInv, OwnerInv, Owns, ClosingInv, Running, storeVars,
              workerVars, reqVars
<1>4. HeldInv' /\ NoLeakedLoop'
  BY <1>1 DEF HeldInv, NoLeakedLoop, Stopping, Running, workerVars, reqVars
<1>5. PhaseInv'
  BY <1>1 DEF Boot, Serve, Listed, PhaseInv, storeVars, reqVars
<1> QED BY <1>2, <1>3, <1>4, <1>5

LEMMA LoadOneStep ==
    ASSUME PoolInv, LoadOne
    PROVE  PoolInv'
<1> USE DEF PoolInv
<1>1. PICK s \in todo : todo' = todo \ {s} /\ AddIfAbsent(s, row[s])
  BY DEF LoadOne
<1>2. phase = "loading" /\ UNCHANGED <<phase, storeVars, reqVars>>
  BY DEF LoadOne
<1>3. s \in Switches /\ s \in known /\ row[s] \in Configs
  BY <1>1 DEF TypeOK, PhaseInv
<1>4. \A r \in Requests : at[r] = "idle"
  BY <1>2 DEF PhaseInv
<1>5. PhaseInv'
  BY <1>1, <1>2, <1>4 DEF PhaseInv, storeVars, reqVars
<1>6. CASE pool[s] = NoWorker
  <2>1. Add(s, row[s])
    BY <1>1, <1>6 DEF AddIfAbsent
  <2>2. TypeOK'
    BY <1>1, <1>2, <1>3, <2>1
       DEF Add, TypeOK, LoopStates, storeVars, reqVars
  <2>3. PooledInv' /\ HeldInv' /\ OwnerInv' /\ NoLeakedLoop' /\ ClosingInv'
    BY <1>2, <1>3, <1>4, <1>6, <2>1, AddEffect DEF Owns, Stopping, storeVars, reqVars
  <2> QED BY <1>5, <2>2, <2>3
<1>7. CASE pool[s] # NoWorker
  <2>1. UNCHANGED <<pool, workerVars>>
    BY <1>1, <1>7 DEF AddIfAbsent
  <2>2. TypeOK'
    BY <1>1, <1>2, <2>1 DEF TypeOK, storeVars, workerVars, reqVars
  <2>3. PooledInv' /\ OwnerInv' /\ ClosingInv'
    BY <1>2, <2>1 DEF PooledInv, OwnerInv, Owns, ClosingInv, Running,
              storeVars, workerVars, reqVars
  <2>4. HeldInv' /\ NoLeakedLoop'
    BY <1>2, <2>1 DEF HeldInv, NoLeakedLoop, Stopping, Running, workerVars, reqVars
  <2> QED BY <1>5, <2>2, <2>3, <2>4
<1> QED BY <1>6, <1>7

LEMMA CrashStep ==
    ASSUME PoolInv, Crash
    PROVE  PoolInv'
<1> USE DEF PoolInv
<1>1. TypeOK'
  BY SomeTypes DEF Crash, TypeOK, LoopStates, Steps, storeVars
<1>2. PooledInv' /\ HeldInv' /\ OwnerInv' /\ ClosingInv'
  BY DEF Crash, PooledInv, HeldInv, OwnerInv, ClosingInv, Owns, Stopping
<1>3. NoLeakedLoop' /\ PhaseInv'
  BY DEF Crash, NoLeakedLoop, PhaseInv, Running, storeVars
<1> QED BY <1>1, <1>2, <1>3

LEMMA InvStep ==
    ASSUME PoolInv, [Next]_vars
    PROVE  PoolInv'
<1>1. CASE UNCHANGED vars
  BY <1>1 DEF PoolInv, TypeOK, PooledInv, HeldInv, OwnerInv, NoLeakedLoop,
              PhaseInv, ClosingInv, Owns, Stopping, Running, vars, storeVars,
              workerVars, reqVars
<1>2. ASSUME NEW r \in Requests, Begin(r) \/ Step(r) PROVE PoolInv'
  BY <1>2, RequestStep
<1>3. ASSUME NEW w \in Workers, Loop(w) PROVE PoolInv'
  BY <1>3, LoopStep
<1>4. CASE Boot \/ Serve \/ LoadOne \/ Crash
  BY <1>4, BootServeStep, LoadOneStep, CrashStep
<1> QED BY <1>1, <1>2, <1>3, <1>4 DEF Next

LEMMA PoolInvariant == Spec => []PoolInv
<1> QED BY InitInv, InvStep, PTL DEF Spec

-----------------------------------------------------------------------------
(* The variables keep their types.                                         *)
THEOREM TypeCorrect == Spec => []TypeOK
<1>1. PoolInv => TypeOK
  BY DEF PoolInv
<1> QED BY <1>1, PoolInvariant, PTL

(* Two loops of one switch would both be its owner's.                      *)
LEMMA OneLoop ==
    ASSUME PoolInv, NEW v \in Workers, NEW w \in Workers,
           Running(v), Running(w), wid[v] = wid[w]
    PROVE  v = w
<1> USE DEF PoolInv
<1>1. wid[v] \in Switches
  BY DEF TypeOK
<1>2. CASE pool[wid[v]] = v /\ pool[wid[w]] = w
  BY <1>2
<1>3. ASSUME NEW r \in Requests, Stopping(r), held[r] = v
      PROVE  pool[wid[w]] = NoWorker /\ on[r] = wid[v]
  BY <1>3 DEF HeldInv, OwnerInv, Owns, Stopping
<1>4. ASSUME NEW r \in Requests, Stopping(r), held[r] = w
      PROVE  pool[wid[v]] = NoWorker /\ on[r] = wid[w]
  BY <1>4 DEF HeldInv, OwnerInv, Owns, Stopping
<1>5. pool[wid[v]] = v \/ \E r \in Requests : held[r] = v /\ Stopping(r)
  BY DEF NoLeakedLoop, Stopping
<1>6. pool[wid[w]] = w \/ \E r \in Requests : held[r] = w /\ Stopping(r)
  BY DEF NoLeakedLoop, Stopping
<1>7. CASE \E r \in Requests : held[r] = v /\ Stopping(r)
  <2>1. PICK r \in Requests : held[r] = v /\ Stopping(r)
    BY <1>7
  <2>2. PICK q \in Requests : held[q] = w /\ Stopping(q)
    BY <1>3, <1>6, <2>1, NoWorkerAssumption
  <2>3. r = q
    BY <1>3, <1>4, <2>1, <2>2 DEF OwnerInv, Owns, Stopping
  <2> QED BY <2>1, <2>2, <2>3
<1> QED BY <1>2, <1>4, <1>5, <1>6, <1>7, NoWorkerAssumption

(* No switch ever has two collection loops.                                *)
THEOREM NeverTwoLoops == Spec => []AtMostOneLoop
<1>1. PoolInv => AtMostOneLoop
  <2> SUFFICES ASSUME PoolInv, NEW s \in Switches
               PROVE  Cardinality(Loops(s)) <= 1
    BY DEF AtMostOneLoop
  <2>1. CASE Loops(s) = {}
    BY <2>1, FS_EmptySet
  <2>2. CASE Loops(s) # {}
    <3>1. PICK w : w \in Loops(s)
      BY <2>2
    <3>2. Loops(s) = {w}
      BY <3>1, OneLoop DEF Loops
    <3> QED BY <3>2, FS_Singleton
  <2> QED BY <2>1, <2>2
<1> QED BY <1>1, PoolInvariant, PTL

(* Every loop that runs is pooled or about to be stopped by its owner.     *)
THEOREM LoopsAreOwned == Spec => []NoLeakedLoop
<1>1. PoolInv => NoLeakedLoop
  BY DEF PoolInv
<1> QED BY <1>1, PoolInvariant, PTL

(* stopAndWait never closes a stop channel twice, nor a pooled worker's.   *)
THEOREM ClosedAtMostOnce == Spec => []StopClosedOnce
<1>1. PoolInv => StopClosedOnce
  BY DEF PoolInv, StopClosedOnce, ClosingInv, PooledInv
<1> QED BY <1>1, PoolInvariant, PTL

(* The Add that follows a successful Remove always finds its place free.   *)
THEOREM RestartIsNeverRefused == Spec => []StartNeverRefused
<1>1. PoolInv => StartNeverRefused
  BY DEF PoolInv, StartNeverRefused, OwnerInv, Owns
<1> QED BY <1>1, PoolInvariant, PTL

(* A pooled worker's loop runs, under the id it is pooled by.              *)
THEOREM PooledWorkersRun == Spec => []PooledLoopKeepsRunning
<1>1. PoolInv => PooledLoopKeepsRunning
  BY DEF PoolInv, PooledLoopKeepsRunning, PooledInv
<1> QED BY <1>1, PoolInvariant, PTL

(* A row that was deleted is never written again.                          *)
THEOREM RowsStayDeleted == Spec => DeletedStaysDeleted
<1>1. ASSUME PoolInv, [Next]_vars
      PROVE  [\A s \in known : row[s] = NoRow => row'[s] = NoRow]_vars
  <2> SUFFICES ASSUME Next, NEW s \in known, row[s] = NoRow
               PROVE  row'[s] = NoRow
    BY <1>1
  <2>0. s \in Switches /\ row \in [Switches -> Configs \union {NoRow}]
    BY <1>1 DEF PoolInv, TypeOK
  <2>1. CASE row' = row
    BY <2>1
  <2>2. ASSUME NEW r \in Requests, NEW t \in Switches, NEW c \in Configs,
               BeginAdd(r, t, c) \/ BeginUpdate(r, t, c)
        PROVE  row'[s] = NoRow
    BY <2>0, <2>2 DEF BeginAdd, BeginUpdate, UpdateRow
  <2>3. ASSUME NEW r \in Requests, DropRow(r) PROVE row'[s] = NoRow
    BY <2>0, <2>3 DEF DropRow
  <2>4. ASSUME NEW r \in Requests,
               \/ UpdateTake(r) \/ UpdateNotPooled(r) \/ CloseStop(r)
               \/ WaitStopped(r) \/ StartWorker(r)
               \/ \E t \in Switches : BeginDelete(r, t)
        PROVE  row' = row
    BY <2>4 DEF UpdateTake, UpdateNotPooled, CloseStop, WaitStopped, StartWorker,
                BeginDelete, storeVars
  <2>5. ASSUME NEW w \in Workers, Loop(w) PROVE row' = row
    BY <2>5 DEF Loop, Collect, LoginOk, LoginFails, FullTick, StatsTick, Fetched,
                FetchSkipped, Saved, Exit, Advance, storeVars
  <2>6. CASE Boot \/ LoadOne \/ Serve \/ Crash
    BY <2>6 DEF Boot, LoadOne, Serve, Crash, storeVars
  <2> QED BY <2>1, <2>2, <2>3, <2>4, <2>5, <2>6 DEF Next, Begin, Step
<1> QED BY <1>1, PoolInvariant, PTL DEF Spec, DeletedStaysDeleted

-----------------------------------------------------------------------------
(* The pool implements SingleRunner: an Add is a Start, the exit of a loop *)
(* an End, a crash a Crash, and every other step leaves the loops alone.   *)
LEMMA SameLoops ==
    ASSUME \A w \in Workers : /\ Running(w)' <=> Running(w)
                              /\ Running(w) => wid'[w] = wid[w]
    PROVE  UNCHANGED [s \in Switches |-> Loops(s)]
BY DEF Loops

LEMMA AddStarts ==
    ASSUME PoolInv, NEW s \in Switches, NEW c \in Configs, Add(s, c),
           Loops(s) = {}
    PROVE  \E w \in Workers : Runner!Start(s, w)
<1>1. PICK w \in Workers :
          /\ Unreferenced(w)
          /\ wid' = [wid EXCEPT ![w] = s]
          /\ wst' = [wst EXCEPT ![w] = "login"]
  BY DEF Add
<1>2. ~Running(w)
  BY <1>1 DEF Unreferenced
<1>3. \A t \in Switches : w \notin Loops(t)
  BY <1>2 DEF Loops
<1>4. \A v \in Workers : v # w =>
          (Running(v)' <=> Running(v)) /\ wid'[v] = wid[v]
  BY <1>1 DEF PoolInv, TypeOK, Running
<1>5. Running(w)' /\ wid'[w] = s
  BY <1>1 DEF PoolInv, TypeOK, Running
<1>6. \A t \in Switches : Loops(t)' = IF t = s THEN {w} ELSE Loops(t)
  BY <1>2, <1>4, <1>5 DEF Loops
<1>7. [t \in Switches |-> Loops(t)]'
        = [[t \in Switches |-> Loops(t)] EXCEPT ![s] = {w}]
  BY <1>6
<1> QED BY <1>3, <1>7 DEF Runner!Start

LEMMA ExitEnds ==
    ASSUME PoolInv, NEW w \in Workers, Exit(w)
    PROVE  \E s \in Switches : Runner!End(s)
<1>1. /\ wst[w] = "select"
      /\ wst' = [wst EXCEPT ![w] = "exited"]
      /\ UNCHANGED wid
  BY DEF Exit, Advance
<1>2. wid[w] \in Switches /\ Running(w)
  BY <1>1 DEF PoolInv, TypeOK, Running
<1>3. Loops(wid[w]) = {w}
  BY <1>2, OneLoop DEF Loops
<1>4. \A v \in Workers : Running(v)' <=> v # w /\ Running(v)
  BY <1>1 DEF PoolInv, TypeOK, Running
<1>5. \A t \in Switches : Loops(t)' = IF t = wid[w] THEN {} ELSE Loops(t)
  <2>1. \A t \in Switches : t = wid[w] => Loops(t)' = {}
    BY <1>1, <1>3, <1>4 DEF Loops
  <2>2. \A t \in Switches : t # wid[w] => Loops(t)' = Loops(t)
    BY <1>1, <1>4 DEF Loops
  <2> QED BY <2>1, <2>2
<1>6. [t \in Switches |-> Loops(t)]'
        = [[t \in Switches |-> Loops(t)] EXCEPT ![wid[w]] = {}]
  BY <1>5
<1> QED BY <1>2, <1>3, <1>6 DEF Runner!End

LEMMA StepRefines ==
    ASSUME PoolInv, [Next]_vars
    PROVE  [Runner!Next]_([s \in Switches |-> Loops(s)])
<1>1. ASSUME UNCHANGED <<wid, wst>>
      PROVE  UNCHANGED [s \in Switches |-> Loops(s)]
  BY <1>1, SameLoops DEF Running
<1>2. CASE UNCHANGED vars
  BY <1>1, <1>2 DEF vars, workerVars
<1>3. ASSUME NEW r \in Requests,
             \/ Begin(r) \/ UpdateTake(r) \/ UpdateNotPooled(r)
             \/ CloseStop(r) \/ DropRow(r)
      PROVE  UNCHANGED [s \in Switches |-> Loops(s)]
  BY <1>1, <1>3 DEF Begin, BeginAdd, BeginUpdate, BeginDelete, UpdateTake,
                    UpdateNotPooled, CloseStop, DropRow, workerVars
<1>9. ASSUME NEW r \in Requests, WaitStopped(r)
      PROVE  UNCHANGED [s \in Switches |-> Loops(s)]
  <2>1. /\ ~Running(held[r]) /\ wst' = wst
        /\ wid' = [wid EXCEPT ![held[r]] = SomeSwitch]
    BY <1>9 DEF WaitStopped
  <2>2. \A w \in Workers : /\ Running(w)' <=> Running(w)
                           /\ Running(w) => wid'[w] = wid[w]
    BY <2>1 DEF PoolInv, TypeOK, Running
  <2> QED BY <2>2, SameLoops
<1>4. ASSUME NEW r \in Requests, StartWorker(r) PROVE Runner!Next
  <2>1. /\ at[r] = "start" /\ on[r] \in Switches /\ want[r] \in Configs
        /\ pool[on[r]] = NoWorker
    BY <1>4 DEF StartWorker, PoolInv, TypeOK, OwnerInv, Owns
  <2>2. Add(on[r], want[r])
    BY <1>4, <2>1 DEF StartWorker, AddIfAbsent
  <2>3. \A q \in Requests : Stopping(q) => on[q] # on[r]
    BY <2>1 DEF PoolInv, OwnerInv, Owns, Stopping
  <2>4. Loops(on[r]) = {}
    BY <2>1, <2>3, NoEntryNoLoop
  <2> QED BY <2>1, <2>2, <2>4, AddStarts DEF Runner!Next
<1>5. ASSUME NEW w \in Workers, Loop(w)
      PROVE  [Runner!Next]_([s \in Switches |-> Loops(s)])
  <2>1. CASE Exit(w)
    BY <2>1, ExitEnds DEF Runner!Next
  <2>2. ASSUME NEW from \in LoopStates \ {"exited"},
               NEW to \in LoopStates \ {"exited"}, Advance(w, from, to)
        PROVE  UNCHANGED [s \in Switches |-> Loops(s)]
    BY <2>2, SameLoops DEF Advance, PoolInv, TypeOK, Running, LoopStates
  <2>3. CASE Collect(w) \/ FullTick(w) \/ StatsTick(w)
    BY <2>2, <2>3 DEF Collect, LoginOk, LoginFails, FullTick, StatsTick, Fetched,
                      FetchSkipped, Saved, LoopStates
  <2> QED BY <1>5, <2>1, <2>3 DEF Loop
<1>6. CASE Boot \/ Serve
  BY <1>1, <1>6 DEF Boot, Serve, workerVars
<1>7. CASE LoadOne
  <2>1. PICK s \in todo : AddIfAbsent(s, row[s])
    BY <1>7 DEF LoadOne
  <2>2. s \in Switches /\ row[s] \in Configs
    BY <2>1 DEF PoolInv, TypeOK, PhaseInv
  <2>3. CASE pool[s] # NoWorker
    BY <1>1, <2>1, <2>3 DEF AddIfAbsent, workerVars
  <2>4. CASE pool[s] = NoWorker
    <3>1. Add(s, row[s])
      BY <2>1, <2>4 DEF AddIfAbsent
    <3>2. \A q \in Requests : ~Stopping(q)
      BY <1>7 DEF LoadOne, PoolInv, PhaseInv, Stopping
    <3>3. Loops(s) = {}
      BY <2>2, <2>4, <3>2, NoEntryNoLoop
    <3> QED BY <2>2, <3>1, <3>3, AddStarts DEF Runner!Next
  <2> QED BY <2>3, <2>4
<1>8. CASE Crash
  <2>1. \A w \in Workers : ~Running(w)'
    BY <1>8 DEF Crash, Running
  <2>2. [s \in Switches |-> Loops(s)]' = [s \in Switches |-> {}]
    BY <2>1 DEF Loops
  <2> QED BY <2>2 DEF Runner!Crash, Runner!Next
<1> QED BY <1>2, <1>3, <1>4, <1>5, <1>6, <1>7, <1>8, <1>9 DEF Next, Step

(* Manager, handlers, channels and restarts implement "one loop at a time".*)
THEOREM PoolImplementsSingleRunner == Spec => ImplementsSingleRunner
<1>1. Init => Runner!Init
  BY DEF Init, Runner!Init, Loops, Running
<1> QED BY <1>1, StepRefines, PoolInvariant, PTL
        DEF Spec, ImplementsSingleRunner, Runner!Spec
-----------------------------------------------------------------------------
(* A switch whose requests have not overlapped.  At most one request is at *)
(* work on it, and that one carries the configuration that is stored (or   *)
(* is deleting the switch); with nobody at work the pooled worker runs it. *)

WorksOn(r, s) == at[r] # "idle" /\ on[r] = s

Answers(r, s) ==
    \/ op[r] = "update" /\ at[r] = "remove" /\ (pool[s] # NoWorker => row[s] = want[r])
    \/ op[r] = "update" /\ Stopping(r) /\ row[s] = want[r]
    \/ at[r] = "start" /\ row[s] = want[r]
    \/ op[r] = "delete" /\ (Stopping(r) \/ at[r] = "drop") /\ pool[s] = NoWorker

AloneAt(s) ==
    /\ \A r, q \in Requests : WorksOn(r, s) /\ WorksOn(q, s) => r = q
    /\ \A r \in Requests : WorksOn(r, s) => Answers(r, s)
    /\ ~Busy(s) /\ pool[s] # NoWorker => wcfg[pool[s]] = row[s]

AloneInv == \A s \in Switches \ contended : AloneAt(s)

(* What happens elsewhere does not concern s.                              *)
LEMMA AloneElsewhere ==
    ASSUME NEW s \in Switches, AloneAt(s),
           \A r \in Requests : WorksOn(r, s) \/ WorksOn(r, s)' =>
               /\ at'[r] = at[r] /\ on'[r] = on[r]
               /\ op'[r] = op[r] /\ want'[r] = want[r],
           row'[s] = row[s], pool'[s] = pool[s],
           pool[s] # NoWorker => wcfg'[pool[s]] = wcfg[pool[s]]
    PROVE  AloneAt(s)'
<1>1. \A r \in Requests : WorksOn(r, s)' <=> WorksOn(r, s)
  BY DEF WorksOn
<1>2. \A r \in Requests : WorksOn(r, s) => (Answers(r, s)' <=> Answers(r, s))
  BY DEF Answers, Stopping
<1>3. Busy(s)' <=> Busy(s)
  BY <1>1 DEF Busy, WorksOn
<1> QED BY <1>1, <1>2, <1>3 DEF AloneAt

(* r was, or now is, the only request at work on s.                        *)
LEMMA AloneAfter ==
    ASSUME NEW s \in Switches, NEW r \in Requests,
           \A q \in Requests \ {r} : ~WorksOn(q, s)',
           WorksOn(r, s)' => Answers(r, s)',
           ~WorksOn(r, s)' /\ pool'[s] # NoWorker => wcfg'[pool'[s]] = row'[s]
    PROVE  AloneAt(s)'
BY DEF AloneAt, Busy, WorksOn

LEMMA AloneBegins ==
    ASSUME PoolInv, AloneInv, NEW r \in Requests, Begin(r)
    PROVE  AloneInv'
<1> USE DEF PoolInv
<1>1. PICK s \in Switches :
          \/ BeginDelete(r, s)
          \/ \E c \in Configs : BeginAdd(r, s, c) \/ BeginUpdate(r, s, c)
  BY DEF Begin
<1>2. /\ at[r] = "idle"
      /\ wcfg' = wcfg
      /\ at'[r] # "idle" /\ on'[r] = s
      /\ \A q \in Requests \ {r} : /\ at'[q] = at[q] /\ on'[q] = on[q]
                                  /\ op'[q] = op[q] /\ want'[q] = want[q]
      /\ \A t \in Switches \ {s} : row'[t] = row[t] /\ pool'[t] = pool[t]
  BY <1>1 DEF BeginDelete, BeginAdd, BeginUpdate, UpdateRow, RemoveTakes, TypeOK,
              workerVars, storeVars
<1>3. contended \subseteq contended'
      /\ (s \notin contended' => ~Busy(s))
  <2>1. CASE \E c \in Configs : BeginAdd(r, s, c)
    BY <2>1 DEF BeginAdd, OwnerInv, Busy
  <2>2. CASE BeginDelete(r, s) \/ \E c \in Configs : BeginUpdate(r, s, c)
    BY <2>2 DEF BeginDelete, BeginUpdate, NoteOverlap
  <2> QED BY <1>1, <2>1, <2>2
<1>4. ASSUME NEW t \in Switches \ {s}, t \notin contended' PROVE AloneAt(t)'
  BY <1>2, <1>3, <1>4, AloneElsewhere DEF AloneInv, WorksOn
<1>5. ASSUME s \notin contended' PROVE AloneAt(s)'
  <2>1. ~Busy(s) /\ AloneAt(s)
    BY <1>3, <1>5 DEF AloneInv
  <2>2. \A q \in Requests \ {r} : ~WorksOn(q, s)'
    BY <1>2, <2>1 DEF Busy, WorksOn
  <2>3. pool[s] # NoWorker => row[s] # NoRow
    <3>1. pool[s] # NoWorker => row[s] = wcfg[pool[s]] /\ pool[s] \in Workers
      BY <2>1 DEF AloneAt, TypeOK
    <3> QED BY <3>1, NoRowAssumption DEF TypeOK
  <2>4. Answers(r, s)'
    <3>1. ASSUME NEW c \in Configs, BeginAdd(r, s, c) PROVE Answers(r, s)'
      BY <3>1 DEF BeginAdd, Answers, TypeOK
    <3>2. ASSUME NEW c \in Configs, BeginUpdate(r, s, c) PROVE Answers(r, s)'
      BY <2>3, <3>2 DEF BeginUpdate, UpdateRow, Answers, TypeOK
    <3>3. CASE BeginDelete(r, s)
      BY <3>3 DEF BeginDelete, RemoveTakes, Answers, Stopping, TypeOK
    <3> QED BY <1>1, <3>1, <3>2, <3>3
  <2> QED BY <1>2, <2>2, <2>4, AloneAfter DEF WorksOn
<1> QED BY <1>4, <1>5 DEF AloneInv

LEMMA AloneSteps ==
    ASSUME PoolInv, AloneInv, NEW r \in Requests, Step(r)
    PROVE  AloneInv'
<1> USE DEF PoolInv
<1>1. PICK s \in Switches : s = on[r] /\ WorksOn(r, s) /\ contended' = contended
  BY DEF TypeOK, WorksOn, Step, UpdateTake, UpdateNotPooled, CloseStop, WaitStopped,
         StartWorker, DropRow, Finish, GoTo
<1>2. /\ \A q \in Requests \ {r} : /\ at'[q] = at[q] /\ on'[q] = on[q]
                                  /\ op'[q] = op[q] /\ want'[q] = want[q]
      /\ at'[r] = "idle" \/ on'[r] = s
  <2>1. CASE Finish(r)
    BY <1>1, <2>1 DEF Finish, TypeOK
  <2>2. CASE UpdateTake(r) \/ CloseStop(r) \/ WaitStopped(r)
    BY <1>1, <2>2 DEF UpdateTake, RemoveTakes, CloseStop, WaitStopped, GoTo, TypeOK
  <2> QED BY <2>1, <2>2 DEF Step, UpdateNotPooled, StartWorker, DropRow
<1>3. StartWorker(r) => pool[s] = NoWorker /\ Add(s, want[r])
  BY <1>1 DEF StartWorker, AddIfAbsent, OwnerInv, Owns
<1>4. ASSUME NEW t \in Switches \ {s}
      PROVE  /\ row'[t] = row[t] /\ pool'[t] = pool[t]
             /\ pool[t] # NoWorker => wcfg'[pool[t]] = wcfg[pool[t]]
  <2>1. CASE UpdateTake(r) \/ UpdateNotPooled(r) \/ CloseStop(r) \/ DropRow(r)
    BY <1>1, <2>1 DEF UpdateTake, RemoveTakes, UpdateNotPooled, CloseStop, DropRow,
                      workerVars, storeVars, TypeOK
  <2>2. CASE WaitStopped(r)
    <3>1. pool[t] # NoWorker => pool[t] # held[r]
      BY <2>2 DEF WaitStopped, PooledInv
    <3> QED BY <2>2, <3>1 DEF WaitStopped, storeVars, TypeOK
  <2>3. CASE StartWorker(r)
    BY <1>1, <1>3, <2>3 DEF StartWorker, Add, Unreferenced, storeVars, TypeOK
  <2> QED BY <2>1, <2>2, <2>3 DEF Step
<1>5. ASSUME NEW t \in Switches \ {s}, t \notin contended' PROVE AloneAt(t)'
  BY <1>1, <1>2, <1>4, <1>5, AloneElsewhere DEF AloneInv, WorksOn
<1>6. ASSUME s \notin contended' PROVE AloneAt(s)'
  <2>1. Answers(r, s) /\ \A q \in Requests \ {r} : ~WorksOn(q, s)
    BY <1>1, <1>6 DEF AloneInv, AloneAt
  <2>2. \A q \in Requests \ {r} : ~WorksOn(q, s)'
    BY <1>2, <2>1 DEF WorksOn
  <2>3. CASE UpdateTake(r)
    <3>1. WorksOn(r, s)' /\ Answers(r, s)'
      BY <1>1, <2>1, <2>3
         DEF UpdateTake, RemoveTakes, Answers, WorksOn, Stopping, storeVars, TypeOK
    <3> QED BY <1>1, <2>2, <3>1, AloneAfter
  <2>4. CASE CloseStop(r) \/ WaitStopped(r)
    <3>1. WorksOn(r, s)' /\ Answers(r, s)'
      BY <1>1, <2>1, <2>4
         DEF CloseStop, GoTo, WaitStopped, AfterRemove, Answers, WorksOn, Stopping,
             storeVars, TypeOK
    <3> QED BY <1>1, <2>2, <3>1, AloneAfter
  <2>5. CASE UpdateNotPooled(r)
    <3>1. ~WorksOn(r, s)' /\ pool'[s] = NoWorker
      BY <1>1, <2>5 DEF UpdateNotPooled, Finish, WorksOn, TypeOK
    <3> QED BY <1>1, <2>2, <3>1, AloneAfter
  <2>6. CASE StartWorker(r)
    <3>1. ~WorksOn(r, s)' /\ row'[s] = want[r]
      BY <1>1, <2>1, <2>6 DEF StartWorker, Finish, Answers, Stopping, WorksOn, storeVars, TypeOK
    <3>2. pool'[s] # NoWorker => wcfg'[pool'[s]] = want[r]
      BY <1>1, <1>3, <2>6 DEF Add, TypeOK
    <3> QED BY <1>1, <2>2, <3>1, <3>2, AloneAfter
  <2>7. CASE DropRow(r)
    <3>1. ~WorksOn(r, s)' /\ pool'[s] = NoWorker
      BY <1>1, <2>1, <2>7 DEF DropRow, Finish, Answers, Stopping, WorksOn, TypeOK
    <3> QED BY <1>1, <2>2, <3>1, AloneAfter
  <2> QED BY <2>3, <2>4, <2>5, <2>6, <2>7 DEF Step
<1> QED BY <1>5, <1>6 DEF AloneInv

LEMMA AloneLoads ==
    ASSUME PoolInv, AloneInv, LoadOne
    PROVE  AloneInv'
<1> USE DEF PoolInv
<1>1. PICK s \in todo : AddIfAbsent(s, row[s])
  BY DEF LoadOne
<1>2. s \in Switches /\ phase = "loading" /\ UNCHANGED <<storeVars, reqVars>>
  BY <1>1 DEF LoadOne, TypeOK
<1>3. \A r \in Requests, t \in Switches : ~WorksOn(r, t) /\ ~WorksOn(r, t)'
  BY <1>2 DEF PhaseInv, WorksOn, reqVars
<1>4. ASSUME NEW t \in Switches \ contended, UNCHANGED <<pool, workerVars>> \/ t # s
      PROVE  AloneAt(t)'
  <2>1. /\ row'[t] = row[t] /\ pool'[t] = pool[t]
        /\ pool[t] # NoWorker => wcfg'[pool[t]] = wcfg[pool[t]]
    BY <1>1, <1>2, <1>4
       DEF AddIfAbsent, Add, Unreferenced, workerVars, storeVars, TypeOK
  <2> QED BY <1>3, <2>1, AloneElsewhere DEF AloneInv
<1>5. ASSUME pool[s] = NoWorker PROVE AloneAt(s)'
  <2>1. pool'[s] # NoWorker => wcfg'[pool'[s]] = row'[s]
    BY <1>1, <1>2, <1>5 DEF AddIfAbsent, Add, storeVars, TypeOK
  <2> QED BY <1>3, <2>1, <1>2 DEF AloneAt, Busy, WorksOn
<1> QED BY <1>1, <1>2, <1>4, <1>5 DEF AloneInv, AddIfAbsent, reqVars

LEMMA AloneStep ==
    ASSUME PoolInv, AloneInv, [Next]_vars
    PROVE  AloneInv'
<1>1. CASE UNCHANGED <<row, pool, wcfg, reqVars>>
  BY <1>1 DEF AloneInv, AloneAt, Answers, WorksOn, Stopping, Busy, reqVars
<1>2. CASE UNCHANGED vars
  BY <1>1, <1>2 DEF vars, storeVars, workerVars
<1>3. CASE Boot \/ Serve
  BY <1>1, <1>3 DEF Boot, Serve, storeVars, workerVars
<1>4. ASSUME NEW w \in Workers, Loop(w) PROVE AloneInv'
  BY <1>1, <1>4 DEF Loop, Collect, LoginOk, LoginFails, FullTick, StatsTick, Fetched,
                    FetchSkipped, Saved, Exit, Advance, storeVars
<1>5. CASE Crash
  BY <1>5 DEF Crash, AloneInv, AloneAt, WorksOn, Busy
<1> QED BY <1>2, <1>3, <1>4, <1>5, AloneBegins, AloneSteps, AloneLoads DEF Next

LEMMA AloneInvariant == Spec => []AloneInv
<1>1. Init => AloneInv
  BY DEF Init, AloneInv, AloneAt, WorksOn, Busy
<1> QED BY <1>1, AloneStep, PoolInvariant, PTL DEF Spec

(* As long as the requests for a switch do not overlap, its worker runs    *)
(* the configuration that is stored (manager.go:118), through any number   *)
(* of updates, failing statements and crashes, and whatever is done to     *)
(* other switches meanwhile.                                               *)
THEOREM StoredConfigRuns == Spec => []AloneRunsStoredConfig
<1>1. AloneInv => AloneRunsStoredConfig
  BY DEF AloneInv, AloneAt, AloneRunsStoredConfig, Quiet
<1> QED BY <1>1, AloneInvariant, PTL

(* DELETE means what README.md:397 says of it, "Remove a switch", as long  *)
(* as requests do not overlap: a switch without a row is not polled.  (The *)
(* run that interleaves an update and a delete shows it can be otherwise.) *)
THEOREM DeletedAloneIsNotPolled ==
    Spec => [](\A s \in Switches \ contended :
                   Quiet(s) /\ pool[s] # NoWorker => row[s] # NoRow)
<1>1. PoolInv /\ AloneInv =>
          \A s \in Switches \ contended :
              Quiet(s) /\ pool[s] # NoWorker => row[s] # NoRow
  <2> SUFFICES ASSUME PoolInv, AloneInv, NEW s \in Switches \ contended,
                      Quiet(s), pool[s] # NoWorker
               PROVE  row[s] # NoRow
    OBVIOUS
  <2>1. wcfg[pool[s]] = row[s] /\ pool[s] \in Workers
    BY DEF AloneInv, AloneAt, Quiet, PoolInv, TypeOK
  <2> QED BY <2>1, NoRowAssumption DEF PoolInv, TypeOK
<1> QED BY <1>1, PoolInvariant, AloneInvariant, PTL
-----------------------------------------------------------------------------
(* Waiting.  A request waits for a loop, a loop for nobody.                *)

(* The safety half of RequestsEnd (stopAndWait): whoever waits for a loop  *)
(* has closed its stop channel, is the only one to wait for it, and nobody *)
(* can find the worker in the pool any more.                               *)
WaitsForAStoppedLoop ==
    \A r \in Requests : at[r] = "wait" =>
        /\ closings[held[r]] = 1
        /\ \A q \in Requests \ {r} : held[q] # held[r]
        /\ \A s \in Switches : pool[s] # held[r]

THEOREM WaitersWereHeard == Spec => []WaitsForAStoppedLoop
<1>1. PoolInv => WaitsForAStoppedLoop
  <2> SUFFICES ASSUME PoolInv, NEW r \in Requests, at[r] = "wait"
               PROVE  /\ closings[held[r]] = 1
                      /\ \A q \in Requests \ {r} : held[q] # held[r]
                      /\ \A s \in Switches : pool[s] # held[r]
    BY DEF WaitsForAStoppedLoop
  <2>1. held[r] # NoWorker /\ wid[held[r]] = on[r] /\ closings[held[r]] = 1
    BY DEF PoolInv, HeldInv, Stopping
  <2>2. \A q \in Requests \ {r} : held[q] # held[r]
    BY <2>1 DEF PoolInv, HeldInv, OwnerInv, Owns, Stopping
  <2>3. \A s \in Switches : pool[s] # held[r]
    BY <2>1 DEF PoolInv, PooledInv
  <2> QED BY <2>1, <2>2, <2>3
<1> QED BY <1>1, PoolInvariant, PTL

(* Workers bounds the objects of the model, not of the code, where an Add  *)
(* finds memory.  With this many of them the bound never stands in the way *)
(* of an Add, so no behaviour is lost by it.                               *)
FinitelyMany ==
    IsFiniteSet(Switches) /\ IsFiniteSet(Requests) /\ IsFiniteSet(Workers)

EnoughWorkers ==
    /\ FinitelyMany
    /\ Cardinality(Workers) >= Cardinality(Switches)
    /\ Cardinality(Workers) + 1 >= Cardinality(Switches) + Cardinality(Requests)

AddFindsWorker ==
    \/ \E r \in Requests : at[r] = "start"
    \/ \E s \in todo : pool[s] = NoWorker
    => \E w \in Workers : Unreferenced(w)

LEMMA ImageBound ==
    ASSUME NEW S, IsFiniteSet(S), NEW f
    PROVE  LET T == {f[x] : x \in S}
           IN  IsFiniteSet(T) /\ Cardinality(T) <= Cardinality(S)
<1> DEFINE T == {f[x] : x \in S}
           g == [x \in S |-> f[x]]
<1>1. g \in Surjection(S, T)
  BY DEF Surjection
<1> QED BY <1>1, FS_Surjection

(* Who is referred to is in the pool or held.                              *)
LEMMA ReferencedWorkers ==
    ASSUME PoolInv, NEW w \in Workers, ~Unreferenced(w)
    PROVE  \/ \E s \in Switches : pool[s] = w
           \/ \E r \in Requests : held[r] = w
BY DEF PoolInv, NoLeakedLoop, TypeOK, Unreferenced

LEMMA UnionBound ==
    ASSUME NEW A, NEW B, IsFiniteSet(A), IsFiniteSet(B)
    PROVE  /\ IsFiniteSet(A \cup B)
           /\ Cardinality(A \cup B) <= Cardinality(A) + Cardinality(B)
<1>1. A \cap B \in SUBSET A /\ IsFiniteSet(A \cap B)
  BY FS_Subset
<1>2. /\ IsFiniteSet(A \cup B)
      /\ Cardinality(A \cup B) = Cardinality(A) + Cardinality(B) - Cardinality(A \cap B)
  BY FS_Union
<1>3. Cardinality(A) \in Nat /\ Cardinality(B) \in Nat /\ Cardinality(A \cap B) \in Nat
  BY <1>1, FS_CardinalityType
<1> QED BY <1>2, <1>3

(* X are workers that may not be taken for another reason.                 *)
LEMMA SpareWorker ==
    ASSUME FinitelyMany, PoolInv, NEW s \in Switches, pool[s] = NoWorker,
           NEW Q \in SUBSET Requests, \A r \in Requests \ Q : held[r] = NoWorker,
           NEW X, IsFiniteSet(X),
           Cardinality(Workers)
               > Cardinality(Switches) - 1 + Cardinality(Q) + Cardinality(X)
    PROVE  \E w \in Workers \ X : Unreferenced(w)
<1> SUFFICES ASSUME \A w \in Workers \ X : ~Unreferenced(w) PROVE FALSE
  OBVIOUS
<1> DEFINE others == Switches \ {s}
           P == {pool[t] : t \in others}
           H == {held[r] : r \in Q}
<1>1. Workers \subseteq (P \cup H) \cup X
  BY ReferencedWorkers, NoWorkerAssumption
<1>2. /\ IsFiniteSet(others) /\ IsFiniteSet(Q)
      /\ Cardinality(others) = Cardinality(Switches) - 1
      /\ Cardinality(Switches) \in Nat /\ Cardinality(Q) \in Nat
  BY FS_RemoveElement, FS_Subset, FS_CardinalityType DEF FinitelyMany
<1>3. /\ IsFiniteSet(P) /\ Cardinality(P) <= Cardinality(Switches) - 1
      /\ IsFiniteSet(H) /\ Cardinality(H) <= Cardinality(Q)
  BY <1>2, ImageBound
<1> HIDE DEF P, H, others
<1>4. /\ IsFiniteSet(P \cup H)
      /\ Cardinality(P \cup H) <= Cardinality(P) + Cardinality(H)
  BY <1>3, UnionBound
<1>5. /\ IsFiniteSet((P \cup H) \cup X)
      /\ Cardinality((P \cup H) \cup X) <= Cardinality(P \cup H) + Cardinality(X)
  BY <1>4, UnionBound
<1>6. Cardinality(Workers) <= Cardinality((P \cup H) \cup X)
  BY <1>1, <1>5, FS_Subset
<1>7. /\ Cardinality(P) \in Nat /\ Cardinality(H) \in Nat /\ Cardinality(X) \in Nat
      /\ Cardinality(P \cup H) \in Nat /\ Cardinality((P \cup H) \cup X) \in Nat
      /\ Cardinality(Workers) \in Nat
  BY <1>3, <1>4, <1>5, FS_CardinalityType DEF FinitelyMany
<1> QED BY <1>2, <1>3, <1>4, <1>5, <1>6, <1>7

LEMMA SpareForAdd ==
    ASSUME FinitelyMany, PoolInv, NEW r \in Requests, at[r] = "start",
           NEW X, IsFiniteSet(X),
           Cardinality(Workers) + 1
               >= Cardinality(Switches) + Cardinality(Requests) + Cardinality(X)
    PROVE  \E w \in Workers \ X : Unreferenced(w)
<1>1. held[r] = NoWorker /\ pool[on[r]] = NoWorker /\ on[r] \in Switches
  BY DEF PoolInv, HeldInv, OwnerInv, Owns, Stopping, TypeOK
<1>2. /\ Cardinality(Requests \ {r}) = Cardinality(Requests) - 1
      /\ Cardinality(Requests) \in Nat /\ Cardinality(Switches) \in Nat
      /\ Cardinality(Workers) \in Nat /\ Cardinality(X) \in Nat
  BY FS_RemoveElement, FS_CardinalityType DEF FinitelyMany
<1>3. Cardinality(Workers)
          > Cardinality(Switches) - 1 + Cardinality(Requests \ {r}) + Cardinality(X)
  BY <1>2
<1>4. \A q \in Requests \ (Requests \ {r}) : held[q] = NoWorker
  BY <1>1
<1> QED BY <1>1, <1>3, <1>4, SpareWorker

LEMMA SpareForLoad ==
    ASSUME FinitelyMany, PoolInv, NEW s \in todo, pool[s] = NoWorker,
           NEW X, IsFiniteSet(X),
           Cardinality(Workers) >= Cardinality(Switches) + Cardinality(X)
    PROVE  \E w \in Workers \ X : Unreferenced(w)
<1>1. s \in Switches /\ phase # "serving"
  BY DEF PoolInv, PhaseInv, TypeOK
<1>2. \A r \in Requests \ {} : held[r] = NoWorker
  BY <1>1 DEF PoolInv, PhaseInv, HeldInv, Stopping
<1>3. /\ Cardinality({}) = 0 /\ Cardinality(Switches) \in Nat
      /\ Cardinality(Workers) \in Nat /\ Cardinality(X) \in Nat
  BY FS_EmptySet, FS_CardinalityType DEF FinitelyMany
<1>4. Cardinality(Workers) > Cardinality(Switches) - 1 + Cardinality({}) + Cardinality(X)
  BY <1>3
<1> QED BY <1>1, <1>2, <1>4, SpareWorker

(* The number of worker objects in the model hides nothing: with one less  *)
(* than switches and requests together an Add always finds one to make     *)
(* (Manager.Add allocates and cannot fail).                                *)
THEOREM AddIsNeverShortOfWorkers == Spec => [](EnoughWorkers => AddFindsWorker)
<1>1. IsFiniteSet({}) /\ Cardinality({}) = 0
  BY FS_EmptySet
<1>2. EnoughWorkers =>
          /\ Cardinality(Workers) \in Nat /\ Cardinality(Switches) \in Nat
          /\ Cardinality(Requests) \in Nat
  BY FS_CardinalityType DEF EnoughWorkers, FinitelyMany
<1>3. PoolInv => (EnoughWorkers => AddFindsWorker)
  <2>1. ASSUME PoolInv, EnoughWorkers, NEW r \in Requests, at[r] = "start"
        PROVE  \E w \in Workers : Unreferenced(w)
    <3>1. \E w \in Workers \ {} : Unreferenced(w)
      BY <1>1, <1>2, <2>1, SpareForAdd DEF EnoughWorkers
    <3> QED BY <3>1
  <2>2. ASSUME PoolInv, EnoughWorkers, NEW s \in todo, pool[s] = NoWorker
        PROVE  \E w \in Workers : Unreferenced(w)
    <3>1. \E w \in Workers \ {} : Unreferenced(w)
      BY <1>1, <1>2, <2>2, SpareForLoad DEF EnoughWorkers
    <3> QED BY <3>1
  <2> QED BY <2>1, <2>2 DEF AddFindsWorker
<1> QED BY <1>3, PoolInvariant, PTL
=============================================================================
