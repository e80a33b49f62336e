----------------------------- MODULE PortWrites -----------------------------
(***************************************************************************)
(* Changing a port of one switch (PatchPort in internal/api/handlers/      *)
(* data.go): the handler fills in the fields the client left out from the  *)
(* stored snapshot, sends all of them, reads the ports page again with a   *)
(* session of its own (Manager.RefreshPorts), replaces the ports of the    *)
(* snapshot in memory in place, and rewrites the stored snapshot.  The     *)
(* worker's loop and immediate collections write the same two snapshots.   *)
(*                                                                         *)
(* Other than a restart of the process, the pool does not change here:     *)
(* WorkerPool and Collection are about that.  All that is collected next   *)
(* to the ports is one version number (rest).                              *)
(*                                                                         *)
(* Snapshots are objects: a collector that has published its object saves  *)
(* that same object, with what was written into it in between.             *)
(***************************************************************************)
EXTENDS Naturals

CONSTANTS Ports,        \* port numbers (1..8 in the code)
          Codes,        \* the device's codes for a configured speed
          FirstPorts,   \* how a port may be set when SwitchDeck first sees it
          Bodies,       \* PATCH bodies that clients send
          Nil,          \* a field the body leaves out
          Requests,     \* bound: PatchPort handlers at the same time
          Collectors,   \* the loop, and immediate collections (bound)
          Loop,         \* the worker's loop
          NoObject,     \* w.last is nil
          NoSnap,       \* no row in the snapshots table
          Missing,      \* a page that could not be read
          MaxRest,      \* bound: changes of the other settings
          PagesMayFail, \* may a page fail to load?
          StoreMayFail  \* may a statement fail?

-----------------------------------------------------------------------------
(* The port settings page there and back (tplink/parser/ports.go).         *)

ConfiguredSpeed(code) == IF code \in {2, 3} THEN "10M"
                         ELSE IF code \in {4, 5} THEN "100M"
                         ELSE IF code = 6 THEN "1G"
                         ELSE ""                            \* Auto

CfgSpeedCode(speed) == IF speed = "10M" THEN 3
                       ELSE IF speed = "100M" THEN 5
                       ELSE IF speed = "1G" THEN 6
                       ELSE 1

(* The codes that survive being read and written back.                     *)
FullDuplex == {1, 3, 5, 6}

Speeds == {ConfiguredSpeed(c) : c \in Codes}
PortConfigs == [enabled : BOOLEAN, speed : Speeds, flow : BOOLEAN]
PortBodies == [enabled : BOOLEAN \union {Nil}, speed : Speeds \union {Nil},
               flow : BOOLEAN \union {Nil}]
DevicePorts == [on : BOOLEAN, code : Codes, fc : BOOLEAN]

ASSUME PortsAssumption == Ports # {}
ASSUME CodesAssumption ==
    Codes \subseteq 1 .. 6 /\ {CfgSpeedCode(s) : s \in Speeds \union {""}} \subseteq Codes
ASSUME FirstPortsAssumption == FirstPorts \subseteq DevicePorts
ASSUME BodiesAssumption == Bodies # {} /\ Bodies \subseteq PortBodies
ASSUME NilAssumption == Nil \notin BOOLEAN /\ Nil \notin Speeds
ASSUME CollectorsAssumption == Loop \in Collectors /\ NoObject \notin Collectors
ASSUME MaxRestAssumption == MaxRest \in Nat /\ Missing \notin Nat
ASSUME FlagsAssumption == PagesMayFail \in BOOLEAN /\ StoreMayFail \in BOOLEAN

-----------------------------------------------------------------------------
(* ParsePortSettings, for one port: what can be configured.                *)
Shown(d) == [enabled |-> d.on, speed |-> ConfiguredSpeed(d.code), flow |-> d.fc]

(* SetPort's parameters, as the device takes them.                         *)
Applied(cfg) == [on |-> cfg.enabled, code |-> CfgSpeedCode(cfg.speed),
                 fc |-> cfg.flow]

DefaultConfig == [enabled |-> TRUE, speed |-> "", flow |-> FALSE]

PickBlindly(asked, base) == asked
(* A field of the body, unless the client left it out.                     *)
Pick(asked, base) == IF asked = Nil THEN base ELSE asked

MergedForgetsSpeed(base, patch) == [enabled |-> Pick(patch.enabled, base.enabled),
                                    speed |-> Pick(patch.speed, ""),
                                    flow |-> Pick(patch.flow, base.flow)]
(* What PatchPort sends: the body over the port as the snapshot has it.    *)
Merged(base, patch) == [enabled |-> Pick(patch.enabled, base.enabled),
                        speed |-> Pick(patch.speed, base.speed),
                        flow |-> Pick(patch.flow, base.flow)]

-----------------------------------------------------------------------------
VARIABLES
    dev,        \* durable: [Ports -> how the device's port is set]
    rest,       \* durable: version of everything else on the device
    session,    \* the worker's session is valid on the device
    stored,     \* durable: the row of the snapshots table, or NoSnap
    last,       \* w.last: the collector whose object it is, or NoObject
    obj,        \* [Collectors -> the snapshot object it published last]
    draft,      \* [Collectors -> the snapshot it has read, or NoSnap]
    cpc,        \* [Collectors -> "idle", "publish" or "save"]
    saves,      \* [Collectors -> the object it is about to save]
    at,         \* [Requests -> its next step, "idle" when there is none]
    port,       \* [Requests -> the port it changes]
    body,       \* [Requests -> the fields its client gave]
    cfg,        \* [Requests -> what it sends]
    ports,      \* [Requests -> the ports it has read back]
    snap,       \* [Requests -> the stored snapshot it has read again]
    fresh,      \* history: requests whose view of their port is still right
    overtaken,  \* history: requests whose stored snapshot was replaced
    clean       \* history: the last writer was alone and nothing failed

devVars == <<dev, rest, session>>
collVars == <<last, obj, draft, cpc, saves>>
sendVars == <<port, body, cfg>>
reqVars == <<at, sendVars, ports, snap>>
histVars == <<fresh, overtaken, clean>>
vars == <<devVars, stored, collVars, reqVars, histVars>>

Views == [Ports -> PortConfigs]
Snapshots == [ports : Views \union {Missing}, rest : (0 .. MaxRest) \union {Missing}]
Maybe == Snapshots \union {NoSnap}
ASSUME NoSnapAssumption == NoSnap \notin Snapshots
ASSUME MissingAssumption == Missing \notin Views

View == [p \in Ports |-> Shown(dev[p])]
NoView == [p \in Ports |-> DefaultConfig]
SomePort == CHOOSE p \in Ports : TRUE
SomeBody == CHOOSE b \in Bodies : TRUE
PatchSteps == {"idle", "send", "refresh", "publish", "reload", "save"}

TypeOK ==
    /\ dev \in [Ports -> DevicePorts]
    /\ rest \in 0 .. MaxRest
    /\ session \in BOOLEAN
    /\ stored \in Maybe
    /\ last \in Collectors \union {NoObject}
    /\ obj \in [Collectors -> Maybe]
    /\ draft \in [Collectors -> Maybe]
    /\ cpc \in [Collectors -> {"idle", "publish", "save"}]
    /\ saves \in [Collectors -> Collectors \union {NoObject}]
    /\ at \in [Requests -> PatchSteps]
    /\ port \in [Requests -> Ports]
    /\ body \in [Requests -> Bodies]
    /\ cfg \in [Requests -> PortConfigs]
    /\ ports \in [Requests -> Views]
    /\ snap \in [Requests -> Maybe]
    /\ fresh \subseteq Requests
    /\ overtaken \subseteq Requests
    /\ clean \in BOOLEAN

NoRequests == /\ at = [r \in Requests |-> "idle"]
              /\ port = [r \in Requests |-> SomePort]
              /\ body = [r \in Requests |-> SomeBody]
              /\ cfg = [r \in Requests |-> DefaultConfig]
              /\ ports = [r \in Requests |-> NoView]
              /\ snap = [r \in Requests |-> NoSnap]
              /\ fresh = {}
              /\ overtaken = {}

NoCollections == /\ last = NoObject
                 /\ obj = [c \in Collectors |-> NoSnap]
                 /\ draft = [c \in Collectors |-> NoSnap]
                 /\ cpc = [c \in Collectors |-> "idle"]
                 /\ saves = [c \in Collectors |-> NoObject]

(* A device that was set up before; the worker has logged in, or failed to.*)
Init == /\ dev \in [Ports -> FirstPorts]
        /\ rest = 0
        /\ session \in BOOLEAN
        /\ stored = NoSnap
        /\ NoCollections
        /\ NoRequests
        /\ clean = FALSE

-----------------------------------------------------------------------------
Active(r) == at[r] # "idle"
Collecting(c) == cpc[c] # "idle"
AloneAsRequest(r) == /\ \A q \in Requests \ {r} : ~Active(q)
                     /\ \A c \in Collectors : ~Collecting(c)
AloneAsCollector(c) == /\ \A r \in Requests : ~Active(r)
                       /\ \A d \in Collectors \ {c} : ~Collecting(d)

(* PatchPort, first part.                                                  *)

(* LatestSnapshot's error is ignored: no snapshot means the defaults.      *)
Base(p, s) == IF s = NoSnap \/ s.ports = Missing THEN DefaultConfig
              ELSE s.ports[p]

(* The body is valid and the snapshot has been read; the client is known.  *)
Merge(r, p, b, s) ==
    /\ at[r] = "idle"
    /\ at' = [at EXCEPT ![r] = "send"]
    /\ port' = [port EXCEPT ![r] = p]
    /\ body' = [body EXCEPT ![r] = b]
    /\ cfg' = [cfg EXCEPT ![r] = Merged(Base(p, s), b)]
    /\ fresh' = IF Base(p, s) = Shown(dev[p]) /\ dev[p].code \in FullDuplex
                THEN fresh \union {r} ELSE fresh \ {r}
    /\ clean' = AloneAsRequest(r)
    /\ UNCHANGED <<devVars, stored, collVars, ports, snap, overtaken>>

PatchPort(r) ==
    \E p \in Ports, b \in Bodies :
        Merge(r, p, b, stored) \/ (StoreMayFail /\ Merge(r, p, b, NoSnap))

(* What a handler has no use for any more is reset.                        *)
Sent(r) == /\ port' = [port EXCEPT ![r] = SomePort]
           /\ body' = [body EXCEPT ![r] = SomeBody]
           /\ cfg' = [cfg EXCEPT ![r] = DefaultConfig]

EndPatch(r) == /\ at' = [at EXCEPT ![r] = "idle"]
               /\ ports' = [ports EXCEPT ![r] = NoView]
               /\ snap' = [snap EXCEPT ![r] = NoSnap]
               /\ overtaken' = overtaken \ {r}

(* Whoever has looked at this port before now has an outdated view of it.  *)
Set(r) == /\ dev' = [dev EXCEPT ![port[r]] = Applied(cfg[r])]
          /\ fresh' = fresh \ ({q \in Requests : port[q] = port[r]} \union {r})

NotSet(r) == /\ UNCHANGED dev
             /\ fresh' = fresh \ {r}

(* getAction takes any HTTP response for success, the login form of a      *)
(* session that has ended included.                                        *)
SendAnswered(r) ==
    /\ at[r] = "send"
    /\ IF session THEN Set(r) ELSE NotSet(r)
    /\ Sent(r)
    /\ at' = [at EXCEPT ![r] = "refresh"]
    /\ UNCHANGED <<rest, session, stored, collVars, ports, snap, overtaken, clean>>

(* A reset or timed out connection is an error for a GET, whether or not   *)
(* the device has taken the change.                                        *)
SendFails(r) ==
    /\ at[r] = "send"
    /\ NotSet(r) \/ (session /\ Set(r))
    /\ Sent(r)
    /\ EndPatch(r)
    /\ clean' = FALSE
    /\ UNCHANGED <<rest, session, stored, collVars, overtaken>>

-----------------------------------------------------------------------------
(* PatchPort, second part: Manager.RefreshPorts and the stored snapshot.   *)

RefreshOk(r) ==
    /\ at[r] = "refresh"
    /\ ports' = [ports EXCEPT ![r] = View]
    /\ at' = [at EXCEPT ![r] = "publish"]
    /\ UNCHANGED <<devVars, stored, collVars, sendVars, snap, histVars>>

(* The answer is "ok" all the same.                                        *)
RefreshFails(r) ==
    /\ at[r] = "refresh"
    /\ EndPatch(r)
    /\ clean' = FALSE
    /\ UNCHANGED <<devVars, stored, collVars, sendVars, fresh, overtaken>>

KeepMemory(r) == UNCHANGED obj
(* w.last.Ports = ports, under w.mu, if there is a snapshot.               *)
WriteMemory(r) ==
    obj' = IF last = NoObject THEN obj ELSE [obj EXCEPT ![last].ports = ports[r]]

RefreshPublishes(r) ==
    /\ at[r] = "publish"
    /\ WriteMemory(r)
    /\ at' = [at EXCEPT ![r] = "reload"]
    /\ UNCHANGED <<devVars, stored, last, draft, cpc, saves, sendVars, ports,
                   snap, histVars>>

ReloadFromMemory(r) == snap' = [snap EXCEPT ![r] = IF last = NoObject THEN stored
                                                   ELSE obj[last]]
ReadStored(r) == snap' = [snap EXCEPT ![r] = stored]

ReloadStored(r) ==
    /\ at[r] = "reload"
    /\ stored # NoSnap
    /\ ReadStored(r)
    /\ at' = [at EXCEPT ![r] = "save"]
    /\ UNCHANGED <<devVars, stored, collVars, sendVars, ports, histVars>>

(* No row, or an error: nothing is saved.                                  *)
ReloadMisses(r) ==
    /\ at[r] = "reload"
    /\ stored = NoSnap \/ StoreMayFail
    /\ EndPatch(r)
    /\ clean' = (clean /\ stored = NoSnap)
    /\ UNCHANGED <<devVars, stored, collVars, sendVars, fresh, overtaken>>

(* A new row: the requests that are about to write theirs back undo it.    *)
Overtaken == overtaken \union {q \in Requests : at[q] = "save"}

SavePatched(r) ==
    /\ at[r] = "save"
    /\ stored' = [snap[r] EXCEPT !.ports = ports[r]]
    /\ EndPatch(r)
    /\ overtaken' = Overtaken \ {r}
    /\ UNCHANGED <<devVars, collVars, sendVars, fresh, clean>>

(* UpsertSnapshot's error is ignored.                                      *)
SavePatchedFails(r) ==
    /\ at[r] = "save"
    /\ StoreMayFail
    /\ EndPatch(r)
    /\ overtaken' = overtaken \ {r}
    /\ clean' = FALSE
    /\ UNCHANGED <<devVars, stored, collVars, sendVars, fresh>>

Patch(r) == \/ PatchPort(r) \/ SendAnswered(r) \/ SendFails(r) \/ RefreshOk(r)
            \/ RefreshFails(r) \/ RefreshPublishes(r) \/ ReloadStored(r)
            \/ ReloadMisses(r) \/ SavePatched(r) \/ SavePatchedFails(r)

-----------------------------------------------------------------------------
(* collectFull of the loop, CollectNow and its caller, collectStats.       *)

(* GetSnapshot returns what it could read; a login form has no pages.  Its *)
(* pages come one after the other: the other settings are of any moment    *)
(* (RestChanges), the ports of the moment of this step.                    *)
Readable(c, page) ==
    IF c = Loop /\ ~session THEN {Missing}
    ELSE {page} \union (IF PagesMayFail THEN {Missing} ELSE {})

Collect(c) ==
    /\ cpc[c] = "idle"
    /\ cpc' = [cpc EXCEPT ![c] = "publish"]
    /\ \E v \in Readable(c, View), x \in Readable(c, rest) :
           /\ draft' = [draft EXCEPT ![c] = [ports |-> v, rest |-> x]]
           /\ clean' = (AloneAsCollector(c) /\ v # Missing)
    /\ UNCHANGED <<devVars, stored, last, obj, saves, reqVars, fresh, overtaken>>

(* An object nobody refers to any more is gone.                            *)
Kept(object, l, s) ==
    [c \in Collectors |-> IF l = c \/ \E d \in Collectors : s[d] = c
                          THEN object[c] ELSE NoSnap]

(* w.last = snap.  Its own identity c may be in use for one object only.   *)
Publish(c) ==
    /\ cpc[c] = "publish"
    /\ \A d \in Collectors : saves[d] # c
    /\ last' = c
    /\ saves' = [saves EXCEPT ![c] = c]
    /\ obj' = Kept([obj EXCEPT ![c] = draft[c]], c, saves')
    /\ draft' = [draft EXCEPT ![c] = NoSnap]
    /\ cpc' = [cpc EXCEPT ![c] = "save"]
    /\ UNCHANGED <<devVars, stored, reqVars, histVars>>

(* The counters change in w.last, which is then saved whole.               *)
CollectStats ==
    /\ cpc[Loop] = "idle"
    /\ session
    /\ last # NoObject
    /\ saves' = [saves EXCEPT ![Loop] = last]
    /\ cpc' = [cpc EXCEPT ![Loop] = "save"]
    /\ clean' = (clean /\ AloneAsCollector(Loop))
    /\ UNCHANGED <<devVars, stored, last, obj, draft, reqVars, fresh, overtaken>>

EndCollect(c) ==
    /\ saves' = [saves EXCEPT ![c] = NoObject]
    /\ cpc' = [cpc EXCEPT ![c] = "idle"]
    /\ obj' = Kept(obj, last, saves')
    /\ UNCHANGED <<devVars, last, draft, reqVars, fresh>>

Save(c) ==
    /\ cpc[c] = "save"
    /\ stored' = obj[saves[c]]
    /\ EndCollect(c)
    /\ overtaken' = Overtaken
    /\ UNCHANGED clean

SaveFails(c) ==
    /\ cpc[c] = "save"
    /\ StoreMayFail
    /\ EndCollect(c)
    /\ clean' = FALSE
    /\ UNCHANGED <<stored, overtaken>>

Collection(c) == Collect(c) \/ Publish(c) \/ Save(c) \/ SaveFails(c)

-----------------------------------------------------------------------------
(* The device and the process.                                             *)

(* The device restarts (Reboot asks it to) or drops the session.           *)
SessionEnds == /\ session
               /\ session' = FALSE
               /\ UNCHANGED <<dev, rest, stored, collVars, reqVars, histVars>>

RestChanges == /\ rest < MaxRest
               /\ rest' = rest + 1
               /\ UNCHANGED <<dev, session, stored, collVars, reqVars, histVars>>

(* The process is killed and starts again; the worker logs in, or fails to.*)
Restart == /\ clean' = /\ clean
                       /\ \A r \in Requests : ~Active(r)
                       /\ \A c \in Collectors : ~Collecting(c)
           /\ session' \in BOOLEAN
           /\ last' = NoObject
           /\ obj' = [c \in Collectors |-> NoSnap]
           /\ draft' = [c \in Collectors |-> NoSnap]
           /\ cpc' = [c \in Collectors |-> "idle"]
           /\ saves' = [c \in Collectors |-> NoObject]
           /\ at' = [r \in Requests |-> "idle"]
           /\ port' = [r \in Requests |-> SomePort]
           /\ body' = [r \in Requests |-> SomeBody]
           /\ cfg' = [r \in Requests |-> DefaultConfig]
           /\ ports' = [r \in Requests |-> NoView]
           /\ snap' = [r \in Requests |-> NoSnap]
           /\ fresh' = {}
           /\ overtaken' = {}
           /\ UNCHANGED <<dev, rest, stored>>

Next == \/ \E r \in Requests : Patch(r)
        \/ \E c \in Collectors : Collection(c)
        \/ CollectStats \/ SessionEnds \/ RestChanges \/ Restart

Spec == Init /\ [][Next]_vars

-----------------------------------------------------------------------------
(* Properties.                                                             *)

(* The fields the body of r leaves out are the same on d and e.            *)
KeepsUnasked(r, d, e) == /\ body[r].enabled = Nil => e.on = d.on
                         /\ body[r].speed = Nil => e.code = d.code
                         /\ body[r].flow = Nil => e.fc = d.fc

(* A PATCH changes the fields it names and no other, if the snapshot it    *)
(* started from was right about a full duplex port and no other PATCH of   *)
(* that port came in between (PatchPort's merge, data.go:87-111, and the   *)
(* codes of ports.go).                                                     *)
UnaskedFieldsKept ==
    [][\A r \in fresh :
          at[r] = "send" /\ at'[r] # "send"
              => KeepsUnasked(r, dev[port[r]], dev'[port[r]])]_vars

(* Writing the confirmed ports back into the stored snapshot loses nothing *)
(* else, unless another writer saved between the reload and the save       *)
(* (data.go:124-127 reads the row again for this).                         *)
OnlyPortsRewritten ==
    [][\A r \in Requests \ overtaken :
          at[r] = "save" /\ stored' # stored /\ at'[r] = "idle"
              => stored'.rest = stored.rest]_vars

(* When the last writer was alone and nothing failed, the UI (the stored   *)
(* snapshot) and /metrics (the one in memory) both show the ports as the   *)
(* device is set, also when a PATCH was lost with the worker's session.    *)
PortsAgree ==
    clean /\ (\A r \in Requests : ~Active(r)) /\ (\A c \in Collectors : ~Collecting(c))
    => /\ stored # NoSnap => stored.ports = View
       /\ last # NoObject => obj[last].ports = View
=============================================================================
