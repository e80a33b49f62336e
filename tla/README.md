# SwitchDeck: TLA+ specifications

SwitchDeck is one Go process that polls TP-Link Easy Smart switches, keeps what it
reads in memory and in SQLite, and serves a REST API, a web UI and Prometheus
metrics. These modules specify what it does with state: the pool of collection
workers, the reachability probes, the snapshots that loops, immediate collections and
handlers share, the changes of a switch's ports and other settings, the configuration
in SQLite with its encryption key, backup and restore, who is let in, and who is told
of an alert. TLC checks them on small instances; TLAPS proves the main results for all
values of the constants. `PROJECT.json` ties every definition to the lines it models
and lists the runs, the theorems and the hazards.

```
tlc -workers 2 -config WorkerPool.cfg WorkerPool
tlapm WorkerPoolProofs.tla
```

## 1. The system

| component | state | operations | modelled in |
|---|---|---|---|
| reachability probe (`manager/worker.go`) | `pingMu`, `pingConsec`, `pingReady`, `pingDown`, `pingWasDown`, the ticker's channel | `doPing`, `pingIsDown`, the ping case of `run` | `PingProbe` |
| worker pool (`manager/manager.go`, `worker.go`) | `Manager.workers`, per worker `cfg`, `stop`, `stopped` | `Add`, `Remove`, `Update`, `LoadFromStore`, `start`, `stopAndWait`, `run` | `WorkerPool` |
| switch handlers (`api/handlers/switches.go`) | none of their own; the `switches` table | `AddSwitch`, `UpdateSwitch`, `DeleteSwitch`, `TriggerCollect` | `WorkerPool`, `Collection` |
| collection (`manager.go`, `worker.go`) | `worker.last`, `Manager.collecting`, the `snapshots` table | `collectFull`, `collectStats`, `CollectNow`, `MarkCollecting`, `UpsertSnapshot` | `Collection`; page by page in `DeviceSettings` |
| write actions (`api/handlers/data.go`) | the stored snapshot, the device | `PatchPort` ... `Reboot`, `Manager.RefreshPorts` | `PortWrites` (`PatchPort`), `DeviceSettings` (the others) |
| TP-Link client and parsers (`switchclient/tplink`) | login flag, cookie | `Login`, `GetSnapshot`, the actions, page parsers | `PortWrites`, `DeviceSettings` |
| store (`internal/store`) | SQLite tables, the encryption key | rows, settings, tokens, port names, channels | `Backup` (key and configuration), `Access` (login settings), `WorkerPool`, `Collection` (switches, snapshots) |
| backup (`internal/backup`) | every configuration table | `Export`, `Restore` | `Backup` |
| authentication (`auth`, `api/middleware`, `handlers/auth.go`, `settings.go`) | login settings, session secret, cookies | middlewares, `Login`, `UpdateSettings`, `--reset-password` | `Access` |
| notification (`internal/notification`) | channels | `NotifyPingChange`, senders, the channels' API | `Notifications`; `PingProbe!Callback` stands for the call |
| metrics (`internal/metrics`) | none | a scrape | `DeviceSettings` (`EmitSwitch`) |
| server, routes, web UI, config, `pkg/httpclient` | none of interest | routing, templates | no: presentation |

How they interact. A handler goroutine writes the row, then calls the manager, which
starts or stops a worker under `Manager.mu`; stopping closes a channel and waits for
another. A worker's loop reads its switch on two tickers, publishes to its memory
under `w.mu` and calls back into the store. A third ticker spawns a goroutine per
probe; probes overlap, outlive the loop, and call the notification service inline.
`POST .../collect` and `AddSwitch` spawn goroutines that read the same switch through
a client of their own, publish to the worker they looked up, and save. Status, the
UI and `/metrics` read the mark, the memory and the saved row without a common lock.
Backup and restore go through the store only, statement by statement; the pool learns
of a restore at the next start (README.md:327). Every request of the API and the UI
passes a middleware that reads the login settings. Only SQLite survives a crash.

What is hard. Two requests race for one worker; a request waits for a loop that is
busy; a map entry and the goroutine behind it are removed in separate steps; a
collection outlives the worker, the switch or the settings it was started with;
memory and SQLite have several writers each; a client sends back a whole list that
others may have changed since it read it; a statement of a request fails after an
earlier one took effect; the process stops between any two steps; a second process
(`--reset-password`) opens the same file.

What makes each part correct:

* probe: the verdict is a function of the last results, in the order they are taken
  in; one alert per change, none lost, none twice; no lock across the network;
* pool: one loop per switch, owned by the pool or by the request that stops it; no
  double `close`; every request is answered; the worker runs what is stored;
* collection: memory is read with the worker's own settings; the mark and the
  collections agree; the saved snapshot is the one in memory and catches up;
* write actions and parsers: reading a list, changing one entry and writing it back
  changes one entry; no update of another field or another writer is lost, other than
  in the races the histories name; memory, store and device agree in the end;
* metrics: what a scrape says of a snapshot that is current is true of the switch;
* store: a server that serves can decrypt what it has stored, whichever process opened
  the file in between;
* backup: what is exported here and restored there is the configuration it was taken
  from, under the key over there; the schema refuses no step of it;
* authentication: user name and password belong together; one session secret, so that
  no valid cookie is turned away;
* notification: no channel is left out because of another; verdicts arrive in order;
  every alert ends, unless a channel that takes no deadline does not answer.

## 2. Modules

| module | what it is |
|---|---|
| `Reachability` | abstract: results arrive one at a time, an alert for every change of the verdict |
| `PingProbe` | `run`'s ping ticker and the `doPing` goroutines, one step per lock region |
| `PingProbeProofs` | its theorems |
| `SingleRunner` | abstract: at most one loop per switch, the next starts after the last ended |
| `WorkerPool` | the manager, the loops' life cycle, the three handlers, startup and crash |
| `WorkerPoolProofs` | its theorems |
| `Collection` | extends `WorkerPool` with snapshots, marks and immediate collections |
| `MCCollection` | symmetry for TLC |
| `CollectionProofs` | its theorems; reuses those of `WorkerPool` |
| `PortWrites` | `PatchPort` from the stored snapshot to the device and back, next to the collectors |
| `MCPortWrites` | bodies, first settings and symmetry for TLC |
| `PortWritesProofs` | its theorems |
| `DeviceSettings` | the lists of a switch: the pages, the parsers, the write actions, clients, metrics |
| `MCDeviceSettings` | two devices, and what clients ask for, for TLC |
| `DeviceSettingsProofs` | its theorems |
| `Backup` | configuration and encryption key: `Open`, start, API writes, `Export`, `Restore` |
| `MCBackup` | what the databases hold at first, for TLC |
| `BackupProofs` | its theorems |
| `Access` | login settings, session secret, middlewares, `Login`, `UpdateSettings`, `Restore`'s settings |
| `AccessProofs` | its theorems |
| `AlertDelivery` | abstract: an alert has fixed recipients, tries each once and nobody else, and ends after all of them |
| `Notifications` | `NotifyPingChange`'s fan-out and the edits of channels |
| `MCNotifications` | channels for TLC |
| `NotificationsProofs` | its theorems |

`PingProbe` and `WorkerPool` share only the loop's position and the stop channel, so
they are separate modules: `PingProbe` keeps a loop with one "away" state
(`collect`), `WorkerPool` leaves probes out because they touch neither the pool, nor
the rows, nor `stopped`. `Collection` composes by conjunction: each of its steps is
a step of `WorkerPool` with conjuncts for the new variables, or leaves `WorkerPool`'s
variables alone. `CollectionIsPool` proves that this is so, and with it every theorem
about `WorkerPool` holds of `Collection`.

`PortWrites` and `DeviceSettings` stand on their own: the pool stays as it is while they
run. They divide a switch between them, because its ports are merged with the stored
snapshot and read back after a PATCH, and its other lists are replaced as a whole and
not read back. `Backup`, `Access` and `Notifications` share tables with the others, not
invariants: `Access` opens up the three settings and the secret that `Backup` treats as
rows, and `Notifications` begins where `PingProbe!Callback` calls.

### State and actions against the code

**PingProbe.** `pc[p]` is the line a `doPing` goroutine has reached: `dial` (no
lock), `lock`, `record` (counter and verdict), `decide` (the flip), `callback`
(`pingMu` released), `relock`, `unlock` (the deferred unlock). `tick` is the ticker's
one-element channel. `stop` is the closed channel; `Begin` may find it closed, since
`run` logs in and collects before its first select. `results`, `events`, `evt`,
`delivered` are history.

**WorkerPool.** `row` and `known` are the table and the UUIDs given out (durable);
`pool` is `Manager.workers`; `wid`, `wcfg`, `wst`, `closings` belong to worker
objects; `op`, `at`, `on`, `want`, `held` to handler goroutines; `phase` and `todo` to
`main` and `LoadFromStore`. One action per critical section or statement:

| request | actions |
|---|---|
| `AddSwitch` | `BeginAdd` (insert), `StartWorker` (`Manager.Add`) |
| `UpdateSwitch` | `BeginUpdate` (UPDATE), `UpdateTake` / `UpdateNotPooled`, `CloseStop`, `WaitStopped`, `StartWorker` |
| `DeleteSwitch` | `BeginDelete` (map entry), `CloseStop`, `WaitStopped`, `DropRow` (may fail) |

A configuration is abstracted to its password, which stands for every field a worker
captures, and `enabled`, which is one of `Flags`. Bodies that are refused, and first statements that fail,
change nothing and are not actions. Worker objects are handed out again when nothing
refers to them, so any number of restarts fits in a few objects.

**Collection.** `session` are the workers whose login holds. `LoopLogsIn` is the one login of a
worker's life; `SessionEnds` (the switch reboots, or drops it) goes unnoticed, and from then
on `LoopReads` gets the login form for every page and publishes and saves `Unread`
(`ReadBy`), while `LoopTakesLast` finds no counters. An immediate collection has a client of
its own and logs in anew. A snapshot is a record of the settings it was read with (`by`) and the
version of the device's configuration it shows (`conf`), or `Unread`: `GetSnapshot`
logs a page it cannot read and goes on. A run is a `TriggerCollect` or `AddSwitch`
handler and the goroutine it spawns: `TriggerCollect` (reads the mark),
`MarkCollecting`, `LookupFinds` / `LookupMisses`, `RunReads` / `RunFails`,
`RunPublishes` (`w.last`), `RunReturns` (the deferred `Delete`), `RunSaves`. The loop's
`LoopReads`, `LoopPublishes`, `LoopTakesLast`, `LoopSaves` refine `Fetched` and
`Saved`. `ForeignKeys` says whether foreign keys are enforced. In this build they are not:
`store.go:60` asks for them with `_foreign_keys=on`, and modernc.org/sqlite (`store.go:15`)
does not know that parameter. It is FALSE in every run; the proofs hold for both values.
`cleared`, `leaked` and `mixed` are history: they record the three ways in which the
code lets mark, memory and store part, so that the invariants can state exactly what
holds otherwise.

**PortWrites.** `dev` is how the device's ports are set (`on`, `code`, `fc`), `rest` a
version number for all its other settings, `session` whether the worker's login is
still valid. `stored` is the row of the snapshots table, `last` and `obj` are `w.last` and
the snapshot objects: `RefreshPorts` writes into the object that `w.last` points to, and a
collector saves that object, not a copy. `at[r]` is the step a `PatchPort` handler takes
next:

| step | action | code |
|---|---|---|
| `idle` | `PatchPort` (`Merge`): snapshot read, body laid over it | `data.go:87-112` |
| `send` | `SendAnswered`, `SendFails` | `SetPort`, `getAction` |
| `refresh` | `RefreshOk`, `RefreshFails` | `Manager.RefreshPorts`, its own login |
| `publish` | `RefreshPublishes` (`WriteMemory`) | `manager.go:199-203` |
| `reload` | `ReloadStored` (`ReadStored`), `ReloadMisses` | `data.go:126` |
| `save` | `SavePatched`, `SavePatchedFails` | `data.go:127-128` |

`Collect`, `Publish`, `CollectStats`, `Save` and `SaveFails` are `collectFull`,
`collectStats` and the snapshot handler. `SendAnswered` takes any answer for success, as
`getAction` does: without a session the device sends its login form and sets nothing.
Histories: `fresh` are the requests whose base was the port as it is, in full duplex, with
no other PATCH of it since; `overtaken` those whose reloaded row somebody has replaced;
`clean` says that the last writer was alone and nothing failed.

**DeviceSettings.** `dev` is how the switch is set, in the device's own form: VLAN masks
as sets of ports, a mirror code with a source set per direction, QoS codes, rates. A
snapshot has the API's form: a membership per port, groups, `both`/`ingress`/`egress`, a
mode. The `Parse...` operators and `ApplyPage` are the parsers and `GetSnapshot`'s apply
functions, `SetVLANs` ... `SetLoopPrevention` the write actions; both sides are conversions,
none is the identity (`SetLAG` sends every id but 2 to trunk 1; `SetIGMP` switches report
suppression off; a parser shows a port that is in both masks as tagged).

| code | actions |
|---|---|
| `collectFull`, `CollectNow` | `CollectFull` / `CollectNow` begin, `ReadPage` or `SkipPage` for each page of `PageOrder`, `TimesOut`, `Publish` (`w.last`), `UpsertSnapshot` / `UpsertFails` |
| `collectStats` | `CollectStats`, then the save |
| a client | `GetSnapshot` of one list, then `PatchTaken` / `PatchNotTaken` with an edit of it |
| the switch | `Reboot` (the session ends), `OwnPage` (set on its own page) |
| the process | `Restart` |

`cat` and `view` are what a client edits and what it has read of it. `page`, `own` and
`draft` are the collections, `own` those with a login of their own. Histories: `calm` are the
collections that have read every page they tried, with no change of the switch since they
began; `right` says of memory and of the stored row that such a collection filled them and
that the switch has not been changed since. `EmitSwitch` is the part of a scrape that
speaks of settings.

**Backup.** An item is a table and a key in it; `rows` says what each row says and, if that
is secret, under which key it is encrypted. `skey` is the stored `encryption_key`, `encKey`
the one `main` has read. `fk` leaves open whether the driver enforces foreign keys.

| code | actions |
|---|---|
| `store.Open` in the server, `main`, `LoadFromStore` | `OpenServer`, `ServerMakesKey`, `EncryptionKey`, `LoadFromStore`, `Down` |
| `--reset-password`, in a process of its own | `OpenTool`, `ToolMakesKey`, `RunResetPassword`, `ToolEnds` |
| the API's writes | `AddSwitch` ... `UpdateSettings`, one statement each |
| `Export` | `BeginExport`, `ExportItem`, `SkipSetting`, `ExportSwitches`, `ExportTable`, `EndExport` |
| `Restore` | `BeginRestore`, `Wipe` per table, `Insert` per row, `EndRestore` |
| a statement fails, the client goes away | `JobFails`: what is done stays done |

`file` is a backup in the client's hands, made here or by another server (with another
key: a file holds plain text). `Init` starts with an empty file or with a database that has
served before. Histories: `calm` (nothing has disturbed the job), `origin` (the
configuration the file is a copy of), `goal` (what an undisturbed restore has put here),
`lost` (a key was made over another one).

**Access.** `enabled`, `user`, `hash`, `secret` are the four settings, `cookies` what has
been signed and has not expired. `req[r].at` is the statement a request takes next: those
of `authRequired` (`enabled`, `user`), `sessionSecret` (`secret`, `save`), the token's
lookup (`token`), `UpdateSettings` and the settings part of `Restore` (`put-...`), `Login`
(`login-...`). `RestoreBackup` differs from `UpdateSettings` in two ways: it stops at the first
statement that fails, and it writes the hash alone if the exported user name was empty,
since `Export` leaves out what is empty (`SkipUser`). A hash is the password
it was made from, a cookie the secret it was signed with; whether an API token matches is a
choice. Every read may yield "" and every other write may be forgotten, since no error is
looked at. Histories: `pairs` (what was asked for), `whole` (the request whose two writes nothing
has come between), `torn`, `forked` (a statement on the secret failed, or two first uses
overlapped).

**Notifications.** `at[a]` is how far alert `a` has come, `clock[a]` the time since its
context was made, `queue[a]` and `copy[a]` the channels it has listed and not tried, as they
were then, `told[c]` the last alert that has reached a channel, `wire[a]` the channels whose
message its sender has given up but which may still get it. `ListEnabled` / `ListFails`,
then per channel, in the order of their creation, `SkipChannel` (the config does not
parse), `SendOk`, `SendFails` or `CutOff` (the deadline), and `Return`. A send that fails or is
cut off may leave a request under way (`NoAnswer`), and `Arrives` is its arrival at any later
time. Shoutrrr's senders do not use the context (`Obeys`). `due`, `tried`, `blind`, `over` are history.

Next to some definitions stands a slip of theirs (`StopWithoutWait` before
`WaitStopped`). No specification uses it; `PROJECT.json` names the property that fails
when it takes the place of the definition.

## 3. Runs

| run | question | bounds |
|---|---|---|
| `probe` | is the verdict right and every alert sent once, with overlapping probes? | threshold 2 (the code's), 4 probes |
| `pool` | one loop per switch, none leaked, all requests end, under races, failures, crashes? | 1 switch, 2 requests, 2 workers, 1 password |
| `collection` | do mark, memory and saved snapshot agree? | 1 switch, 1 request, 3 workers, 2 runs |
| `collection_live` | do marks clear and does the saved snapshot catch up? | 1 switch, 1 request, 1 worker, 1 run, 1 change of the device |
| `port_writes` | do PATCHes keep what they do not name, and memory, store and device agree? | 1 port, 2 PATCHes, the loop, codes 1 to 3, 2 bodies, 1 change of the rest |
| `settings` | does editing one entry of a list change one entry of the switch, and are snapshots and metrics true of it? | 2 ports, 2 VLANs, 2 rates, 2 priorities, 1 client, 1 collection at a time, 1 change |
| `backup` | does a backup travel, is its restore accepted, do secrets stay readable? | 1 switch, token and port name, 2 channel names, 2 settings, 2 values, 1 write, 2 keys |
| `access` | do cookies stay valid, do name and password belong together? | 2 requests, 1 user, 2 passwords, 2 secrets, 2 writes |
| `notify` | is an alert a delivery, to all its channels and no other, in order, and does it end? | 3 channels, 2 alerts, 1 edit, a deadline of 1 |
| `pool_zombie`, `pool_enable`, `collection_leak` | statements of the documentation that the code does not keep | smallest instance that shows it |

Why the bounds are enough for what is asked:

* Four probes and a threshold of two give offline, online, offline again, with all
  four in flight at once; the proofs cover any threshold and number.
* Switches interact only through `Manager.mu`, which every step takes once and
  releases: one switch shows every interleaving of the requests for it. Two requests
  are enough for every pair of steps to race; two worker objects for one that is
  being stopped and one that replaces it. A request for which no object is free would wait
  in the model, not in the code; `AddIsNeverShortOfWorkers` and `CollectionsHoldUpNoAdd` prove
  that none does in `pool` and `collection`. `AddSwitch` waits there for one of the two runs.
* One password and `Blank` are two different settings. Two runs show every overlap of
  two writers next to the loop. `MaxConf = 1` (in `collection_live`) lets a stale read
  differ from a fresh one, and `SwitchMayFail` lets pages fail and sessions end there. In
  the pool's runs `Flags` is both values; in the collection's it is TRUE only, since a
  disabled switch and one whose worker is gone look alike to a collection: no pool entry.
* With one worker object (`collection_live`) an update can only start its worker after
  the old one is unreferenced, which the run may delay but not prevent.
* Two PATCHes of one port and the loop are three writers of each snapshot. PATCHes of
  different ports meet only in the snapshots, where the port plays no part. The two
  bodies name one field each, so that either can undo the other; codes 1 to 3 are those
  of a port without higher speeds and hold both a code that survives the round trip and
  one (2) that does not. In `port_writes` pages load whenever the login is valid
  (`PagesMayFail` is FALSE) but the login may end at any time, which loses all pages at
  once. Immediate collections are collectors like the loop and are left to the proofs,
  which allow any set of collectors; `Publish` waits there while the collector's
  earlier object is still being saved, a bound on objects.
* In `settings` two ports and two VLANs let an edit of one entry lose or disturb another;
  the two devices differ in whether 802.1Q VLANs exist, which decides what the page of
  port-based VLANs may do to a snapshot. One change lets every snapshot become stale at
  any page; one page (`vlan-802.1q`) may fail by itself, and all of them fail when the
  session ends. Any number of clients, collectors and changes is in the proofs.
* In `backup` one id per table meets every pair of statements; the second channel name is
  for a rename and for a name that is taken. One write can fall between any two
  statements of an export or a restore, and an export here may be restored here later.
  Two keys are one that replaces the other. A client does one export or restore at a
  time: that two restores at once mix their rows is not in the model.
* In `access` two requests are all that two first uses or two writers need, and one of
  them may be the tool. Two passwords tell a new pair from an old one.
* In `notify` two alerts are an "offline" and the "online" that overtakes it; the third
  channel is one that is created meanwhile. That the odd alerts say "offline" is
  `EventsAlternate` of `PingProbe`. The deadline is one unit because only
  "before" and "after" count.

Deadlock is checked everywhere except in `probe`, where a stopped worker whose probes
are done has nothing left to do, and in `notify`, where the alerts and edits are used up.

### Fairness

* Goroutines that can run do (weak fairness of each handler's, probe's and loop's
  step): dials, HTTP requests to switches and SQLite calls have timeouts. In `PingProbe`
  this takes for granted that `NotifyPingChange` returns, which holds as long as no shoutrrr
  channel hangs (below): `EventuallyDelivered` and `StopQuiesces` say nothing otherwise.
* `Exit` is strongly fair: Go's `select` picks at random among the ready cases, so a
  closed stop channel is not passed over for ever by tickers.
* In `CFairSpec` the config ticker is taken again and again (`FullTick`), and a switch that
  is polled for ever over a session that holds shows its pages now and then (`ReadsPages`),
  both strongly fair. No login has to succeed and no session to last: without one
  `ReadsPages` is never enabled, and `SavedCatchesUp` is about workers whose session holds
  from some time on. The code does not log in again (`worker.go:125`, README.md:474).
* In `Notifications` time passes (`Tick`) and the goroutine goes on between sends. No send is
  assumed to end by itself. Those that obey the context are cut off by it; the call into
  shoutrrr is handed no context and may never return (`sender.go:61`), so `AlertsEnd` says
  that an alert ends or hangs at such a channel.
* Nothing makes users send requests, statements succeed or the process crash or stay
  up. `RequestsEnd` therefore also counts a crash as an end.

### What the documentation says and the code does not do

1. `pool_zombie`: a DELETE in the window where an add or update has no pool entry
   removes the row and leaves a worker that polls until a restart (`Remove`'s error is
   ignored, `switches.go:212`).
2. `pool_enable`: a switch that was disabled at startup has no pool entry, so `Update`
   fails at its `Remove` and the worker is never started (`manager.go:120`).
3. `collection_leak`: `CollectNow` returns before its `defer` when the switch is not in
   the pool; the mark set by its caller stays and refuses every later collection.

Further behaviours of the models that a comment of the code speaks against, without a run
of their own:

* two collections of one switch can start, since the mark is read and set in two steps
  (`switches.go:229`);
* the mark is cleared before the snapshot is saved, so the UI can announce fresh data and
  load the old (`app.js:840`);
* the configured speed kept "for round-trip writes" (`parser/ports.go:91`) has no duplex,
  so switching a half duplex port on or off sets it to full duplex;
* what a scrape reads can be older than "at most one poll interval" (`collector.go:192`)
  when collections fail;
* an encryption key is made not only on the first run (README.md:117) but after any error
  of the read (`store.go:72`), over the one there is.

The invariants of the passing runs say what holds in spite of these: for instance
`AloneRunsStoredConfig` (requests that do not overlap leave the stored configuration
running), `UnmarkedOnlyIfCleared` and `MarkHasRun` (the only ways for marks and
collections to disagree are an early clear by another run and 3), `SecretsStayReadable`
(a server that serves can read every password even then).

## 4. Proofs

All theorems are for arbitrary constants, from the named `ASSUME`s only:
`PingThreshold` and `MaxProbes` are positive; `Switches` is not empty; `NoRow`,
`NoWorker` and `NoSnap` are no configuration, worker or snapshot; the flags are
Booleans. Nothing is assumed finite except where a statement needs cardinalities.

* **PingProbe.** `ProbeInv` adds to the type invariant who holds `pingMu`
  (`LockHeldBriefly`), that `pingConsec` is the length of the run of failures at the
  end of `results`, with one correction while a probe stands between `record` and
  `decide` (`CounterInv`), that the verdict follows the counter (`VerdictInv`), and
  which probe carries which event (`CarrierInv`). `OfflineMeansFailures` alone is not
  inductive: it says nothing of the counter. From `ProbeInv`: `OfflineIsJustified`,
  `TransitionsAlternate`, `OneCarrierPerEvent`, and the refinement
  `ProbeImplementsReachability`, in which `DecideFlip` and `DecideSame` are the
  abstract `Report` and every other step stutters. `NobodyIsLeftUntold` puts them together for
  a worker whose probes have ended.
* **WorkerPool.** `PoolInv` is about ownership. A pooled worker runs, is not closed and
  bears its key (`PooledInv`). A request between taking the entry out and having waited
  holds a worker of its switch, closed once exactly when it is at `wait` (`HeldInv`). While
  a request owns the entry (from `Remove`, or from the insert of a new id, to `Add`) the
  pool has none and no other request owns it (`OwnerInv`). Every running loop is in the
  pool or held (`NoLeakedLoop`). Requests exist only while the process serves, and every
  row has an id that was given out (`PhaseInv`). `AtMostOneLoop` alone is not inductive:
  the step that needs it is `StartWorker`: only with the owner of the switch's
  loop known to be the request itself does it follow that no loop is left. From it:
  `NeverTwoLoops`, `LoopsAreOwned`, `ClosedAtMostOnce`, `RestartIsNeverRefused`,
  `PooledWorkersRun`, and the refinement `PoolImplementsSingleRunner`. `RowsStayDeleted`
  is an action property, and `WaitersWereHeard` says of a request in `stopAndWait` that it has
  closed the channel of a worker that nobody else waits for or can find.
  `StoredConfigRuns` (`AloneRunsStoredConfig`) says nothing of requests at work. `AloneInv`
  adds, for a switch whose requests have not overlapped, that there is one such request at most
  and that it holds the answer: an update between UPDATE and `Add` wants what the row says, a
  delete past its `Remove` finds no entry. The proof is one frame lemma (`AloneElsewhere`: steps
  for other switches, which uses that two switches never share a worker) and one lemma per
  kind of step of that one request. `DeletedAloneIsNotPolled` follows: what `pool_zombie` shows
  takes two overlapping requests.
  `AddIsNeverShortOfWorkers` is about the model: with `EnoughWorkers` an `Add` always finds a
  free object, as it does in the code, so that the bound on objects hides no behaviour. The
  constants of `pool` satisfy it.
* **Collection.** `CollectionIsPool` (the composition implements its part), hence
  `CollectionKeepsPoolInv`, `CollectionImplementsSingleRunner` and `CollectionRunsStoredConfig`. On top: `CollectionTypeCorrect`; `RunsAreMarked` and
  `MarksHaveRuns`, inductive with the type invariant; `MemoryStaysOwn`, which needs
  `MemInv`: what a loop or a run has read and not yet published bears the settings of
  the worker it will be published to, as long as that worker lives, and a run's worker
  is not handed out again meanwhile. `UIShowsMetrics` (`UIAgreesWithMetrics`) is not inductive, as
  it is silent while somebody is about to save. `AgreeInv` follows the one undisturbed
  writer: it is the only one, and what it has yet to save is what memory holds. It needs
  `HomeInv` to know that a run publishes to the memory of the switch it collects. A step of one
  switch's loop, run or request leaves the others' agreement alone (`AgreeUntouched`,
  `AgreeOtherLoop`), and a worker that starts shows nothing (`StartedIsNew`).
  `CollectionsHoldUpNoAdd` is `AddIsNeverShortOfWorkers` with the objects that runs refer to
  (`EnoughForRuns`, which the constants of `collection` satisfy).
* **PortWrites.** Every property of `port_writes` is proved. `TypeInv` adds that there is a
  snapshot wherever one is written into or saved (`Present`). `UnaskedFieldsAreKept` rests
  on `FreshInv` (what a fresh request sends is its port with the body on top) and on the
  codec lemma `RoundTrip`; `OnlyPortsAreRewritten` on `ReloadedInv` (what is about to be
  written back is the row, until it is overtaken). `PortsAgree` says nothing of writers at
  work and is not inductive; `CleanInv` adds that the undisturbed writer is the only one
  and how far it has come: what a PATCH has read is the device's view from `publish` on,
  and memory is from `reload` on; a collector's draft is, and then the object it saves is
  `w.last`. Assumptions: the codes are among the device's six and closed under writing a
  speed, `Nil`, `NoObject`, `NoSnap` and `Missing` are none of the values they stand beside.
* **DeviceSettings.** Every property of `settings` is proved. `RightIsCurrent` says nothing
  of collections at work; `CurrentInv` adds `ReadingInv`: a calm collection at page n has
  read the first n pages as they are (`HasRead`, one clause per page, because port-based
  VLANs only show once the 802.1Q page has said that there are none), and has `ShownOf(dev)`
  when it is about to save. `ScrapesAreCurrent` follows, with a bijection between trunks in
  use and groups shown (`GroupsPerTrunk`) for the counts. `EditsChangeOneEntry` rests on a round
  trip per list: writing back what was parsed sets the switch to what it is, and writing an
  edit differs in one entry. It holds of plain masks (no port both tagged and untagged, no
  source in a direction the mode does not name), which is what the pages can show.
  Assumptions: ports are positive; rates and priorities are numbers, 0 a rate and 1 a
  priority (the defaults the actions write); trunk ids 1 and 2 exist; `None` and `Unread` are
  no values.
* **Backup.** Every property of `backup` is proved. `KeyInv` has the stored key, the server's
  and that of every secret in one (`OneKey`) as long as none was lost, and what the server
  could read when it started (`Loaded`) in any case: whatever it writes later, it writes with
  its own key. `BackupInv` follows a file on its way: a file is complete (it names ports only
  of switches it holds) and, if it is certain of what, a copy (`FileInv`); an undisturbed
  export has so far read what is there (`ExportInv`); an undisturbed restore leaves nothing
  in a wiped table that it has not inserted (`Progress`). `RestoredAsExported` alone is not
  inductive, as it only speaks of restores that have ended. `NeverRefused` follows from the
  order of the tables and from completeness, which torn files have too. Assumption: `None` is
  no value, row or configuration, and at least one key can be made.
* **Access.** Every property of `access` is proved. For `PairsAreOfOneRequest`: only requests
  that have asked for their pair write it (`WriterInv`), and the user name stored is that of
  the request in `whole` (`WholeInv`). For `CookiesStayValid`: cookies are signed with secrets
  that were made (`CookieInv`), and until a fork one request at most is making a secret, and
  there is none yet (`SaveInv`). From the same invariant, `SecretIsMadeOnce`. Restores are among the requests.
* **Notifications.** `EveryChannelIsTried` and `VerdictsArriveInOrder` from `AlertInv`: a channel
  that is due is still queued, was tried, or does not parse (`DueInv`); only the last alert
  runs without another beside it (`OrderInv`); only a sending alert has channels left, and
  only one that has begun has messages under way (`QueueInv`). `TypeCorrect` is a lemma here. `NotificationsImplementDelivery` is the refinement of `AlertDelivery`, with the
  listed channels whose config parses as recipients: `ListEnabled` opens, each send is a try,
  `Return` and `ListFails` end, and edits, time and `SkipChannel` stutter. It needs `FanOutInv`
  besides: the queue and the tried channels are disjoint parts of what was listed (so that a
  send is a first try of a recipient), nothing is listed before `ListEnabled`, and an alert
  is not blind while it runs (so that `DueInv` speaks of every alert that returns).
  `EveryoneTried` is kept as the corollary that `EveryChannelIsTried` states.

`CTypeOK` of `Collection`, `NoLeakedLoop` and `PooledLoopKeepsRunning` of `WorkerPool` are
proved as well and are not properties of a run.

Only model-checked: the liveness properties (`EventuallyDelivered`, `StopQuiesces`,
`RequestsEnd`, `MarksClear`, `SavedCatchesUp`, `AlertsEnd`), since `ENABLED` and fairness are
outside the prover's reach. Of three of them the half that no step may spoil is proved: at rest
everything decided has been notified (`NobodyIsLeftUntold`), a waiting request has told its loop
to end (`WaitersWereHeard`), a mark has a collection that will clear it (`MarksHaveRuns`). Every
invariant and every other action property of a passing run is proved. No module declares a
`RECURSIVE` operator.

## 5. Not modelled

* Data races inside a snapshot (`collectStats` and `RefreshPorts` change slices in
  place while another goroutine marshals them): in `PortWrites` the shared object changes
  in one step, in `Collection` and `DeviceSettings` snapshots are values.
* In `PortWrites` and `DeviceSettings`: a switch added, updated or deleted meanwhile; link
  speed, counters and system information, and with them `ResetStats`; port numbers that
  are refused before anything happens. A PATCH in `DeviceSettings` is one step at the switch,
  as each write action sends one request. The three rates of storm control and the two of
  bandwidth are one rate here; `SetBandwidth` has no handler that calls it.
* The login handshake of the switches: a login succeeds or does not. The scraping of
  their pages (HTML and JavaScript arrays): text, without state.
* Poll intervals (a negative one makes `time.NewTicker` panic), graceful shutdown
  (`StopAll` followed by exit is a `Crash` for the state that is kept), logging.
* Cryptography: AES-GCM is a key number, a password hash its password, a cookie its
  secret; an expired cookie is one that matches no secret. API tokens match by choice.
* In `PortWrites`: port settings that somebody changes on the switch's own page (its other
  settings do change there, `RestChanges`). They would make a request's base wrong, which
  `fresh` excludes for other PATCHes already.
* In `Access`: a backup file that holds a user name without a hash, which only an export
  of torn settings makes. What else `Restore` writes is in `Backup`.
* In `Backup`: the order of rows within a table, created-at columns, the encoding of the
  file, two exports or restores at a time.
* The payloads of the notification providers; a test message, which keeps no state.
* Counters, port states and names in `/metrics`, which are passed through.
* Several servers on one database file (`--reset-password` next to a server is modelled).
* Server, routing, templates, the web UI and the configuration file: presentation.

What the histories exclude. Several properties say what holds unless a race that the code
allows has happened, and the history variable records that race: `fresh` (PATCHes of one
port that overlap, a base that was stale, half duplex), `overtaken` (a snapshot saved over
another writer's), `clean` (a writer that met another one, or failed, a reset connection
included), `calm` and `right` (reads next to changes), `torn` and `forked` (two requests
between each other's statements, a statement that failed), `over` (alerts that overlap),
`mixed`, `cleared` and `leaked` (collections that overlap). A property does not catch what its
history excludes; those behaviours are in the models and the hazards of `PROJECT.json` name
them. `UIAgreesWithMetrics` and `SavedCatchesUp` are also silent between the clearing of the
mark and the save after it.

## 6. Plan

Done: the components above. What could follow:

1. `PortWrites` and `DeviceSettings` over `Collection`: PATCHes while the pool changes.
2. Abstract specifications for the session secret (`Access`) and for an undisturbed restore
   (`Backup`), as `Reachability`, `SingleRunner` and `AlertDelivery` are for their components.
3. An abstract specification of a setting of the device, that only changes as somebody
   asked, which `PortWrites` and `DeviceSettings` implement.
4. `Notifications` composed with `PingProbe`: from the dial to the channel, with the alerts
   as events of the probe.
5. A restore next to running workers, which keep polling switches that are gone
   (README.md:327 asks for a restart).
