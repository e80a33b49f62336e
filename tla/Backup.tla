------------------------------- MODULE Backup -------------------------------
(***************************************************************************)
(* The configuration in SQLite, the encryption key it is stored under, and *)
(* its way out of the server and into another one: store.Open and the      *)
(* start of the process, the API's writes, Export and Restore.             *)
(*                                                                         *)
(* Export and Restore are long sequences of statements without a           *)
(* transaction.  Other requests write in between, every statement may fail *)
(* and the process may be killed after each.  --reset-password opens the   *)
(* same file from a process of its own, next to the server.                *)
(*                                                                         *)
(* Left out: the collected snapshots; the order of rows.                   *)
(***************************************************************************)
EXTENDS Naturals

CONSTANTS SettingKeys,   \* settingsKeys: auth_enabled, auth_username, auth_password_hash
          Ids,           \* switch ids (uuids)
          Tokens,        \* API tokens: id and hash
          Names,         \* names of notification channels
          Values,        \* what a setting, switch, token, channel, port name says
          FirstConfigs,  \* what the database may hold when the history begins
          MaxWrites,     \* bound: API writes
          MaxKeys,       \* bound: encryption keys made
          None           \* no such row, not in the file, no file

Tables == {"settings", "switches", "api_tokens", "notification_channels", "port_names"}
Items == ({"settings"} \X SettingKeys) \union ({"switches"} \X Ids)
         \union ({"api_tokens"} \X Tokens) \union ({"notification_channels"} \X Names)
         \union ({"port_names"} \X Ids)
Of(table) == {i \in Items : i[1] = table}
Secrets == Of("switches") \union Of("notification_channels")
SwitchOf(i) == <<"switches", i[2]>>

Configs == [Items -> Values \union {None}]
NoConfig == [i \in Items |-> None]
(* A row: what it says and, if that is secret, the key it is stored under. *)
Rows == [val : Values, key : 0 .. MaxKeys]

ASSUME KeysAssumption == MaxKeys \in Nat \ {0}
ASSUME WritesAssumption == MaxWrites \in Nat
ASSUME ConfigsAssumption == FirstConfigs # {} /\ FirstConfigs \subseteq Configs
ASSUME NoneAssumption == None \notin Values \union Rows \union Configs

(* Encrypt, of the tables that hold secrets.                               *)
Row(i, v, key) == IF v = None THEN None
                  ELSE [val |-> v, key |-> IF i \in Secrets THEN key ELSE 0]

-----------------------------------------------------------------------------
VARIABLES
    rows,    \* durable: [Items -> Rows or None]
    skey,    \* durable: the setting encryption_key, 0 if there is none
    keys,    \* keys made so far (bound)
    fk,      \* the driver enforces foreign keys (it decides, not this code)
    server,  \* "down", "making" a key, "opened", "keyed", "serving"
    tool,    \* --reset-password: "down", "making", "opened"
    encKey,  \* the key main has read
    file,    \* a backup in the client's hands, or None
    job,     \* the export or restore under way
    writes,  \* API writes so far (bound)
    calm,    \* history: nothing else has written and no read failed in this job
    origin,  \* history: the configuration file is a copy of, None if not certain
    goal,    \* history: the configuration an undisturbed restore has put here
    lost     \* history: a key was made although there was one

dbVars == <<rows, skey, keys, fk>>
procVars == <<server, tool, encKey>>
history == <<calm, origin, goal, lost>>
vars == <<dbVars, procVars, file, job, writes, history>>

Wiped == {"port_names", "switches", "api_tokens", "notification_channels"}
(* The order of the statements of Restore's first part, and of the tables  *)
(* in Export and in Restore's second part.                                 *)
WipeOrder == [t \in Wiped |-> IF t = "port_names" THEN 1 ELSE IF t = "switches" THEN 2
                              ELSE IF t = "api_tokens" THEN 3 ELSE 4]
Order == [t \in Tables |-> IF t = "settings" THEN 1 ELSE IF t = "switches" THEN 2
                           ELSE IF t = "api_tokens" THEN 3
                           ELSE IF t = "notification_channels" THEN 4 ELSE 5]

(* left: the items still to be read, or written; content: of the file.     *)
Jobs == [kind : {"none", "export", "restore"}, wipe : SUBSET Wiped,
         left : SUBSET Items, content : Configs]
NoJob == [kind |-> "none", wipe |-> {}, left |-> {}, content |-> NoConfig]

TypeOK ==
    /\ rows \in [Items -> Rows \union {None}]
    /\ skey \in 0 .. MaxKeys
    /\ keys \in 0 .. MaxKeys
    /\ fk \in BOOLEAN
    /\ server \in {"down", "making", "opened", "keyed", "serving"}
    /\ tool \in {"down", "making", "opened"}
    /\ encKey \in 0 .. MaxKeys
    /\ file \in Configs \union {None}
    /\ job \in Jobs
    /\ writes \in 0 .. MaxWrites
    /\ calm \in BOOLEAN
    /\ origin \in Configs \union {None}
    /\ goal \in Configs \union {None}
    /\ lost \in BOOLEAN

(* A file names the ports of switches it holds.                            *)
Complete(f) == \A i \in Of("port_names") : f[i] # None => f[SwitchOf(i)] # None

(* The process has served before, or starts for the first time.            *)
Init ==
    /\ \E c \in FirstConfigs : rows = [i \in Items |-> Row(i, c[i], 1)]
    /\ keys \in {0, 1}
    /\ keys = 0 => rows = [i \in Items |-> None]
    /\ skey = keys
    /\ fk \in BOOLEAN
    /\ server = "down" /\ tool = "down" /\ encKey = 0
    /\ file \in {c \in FirstConfigs : Complete(c)} \union {None}   \* another server's
    /\ job = NoJob
    /\ writes = 0
    /\ calm = FALSE /\ goal = None /\ lost = FALSE
    /\ origin = file

-----------------------------------------------------------------------------
(* store.Open, main and runResetPassword.                                  *)

OpenServer ==
    /\ server = "down"
    /\ server' \in IF skey # 0 THEN {"opened", "making"} ELSE {"making"}
    /\ UNCHANGED <<dbVars, tool, encKey, file, job, writes, history>>

OpenTool ==
    /\ tool = "down"
    /\ tool' \in IF skey # 0 THEN {"opened", "making"} ELSE {"making"}
    /\ UNCHANGED <<dbVars, server, encKey, file, job, writes, history>>

(* Any error of the read makes a new key, not only that there is none.     *)
MakeKey ==
    /\ keys < MaxKeys
    /\ keys' = keys + 1
    /\ skey' = keys + 1
    /\ lost' = (lost \/ skey # 0)
    /\ UNCHANGED <<rows, fk, encKey, file, job, writes, calm, origin, goal>>

ServerMakesKey == server = "making" /\ server' = "opened" /\ MakeKey /\ UNCHANGED tool
ToolMakesKey == tool = "making" /\ tool' = "opened" /\ MakeKey /\ UNCHANGED server

EncryptionKey ==
    /\ server = "opened"
    /\ server' = "keyed"
    /\ encKey' = skey
    /\ UNCHANGED <<dbVars, tool, file, job, writes, history>>

Readable(i) == rows[i] # None => rows[i].key \in {0, encKey}

(* One password that cannot be decrypted ends the process.                 *)
LoadFromStore ==
    /\ server = "keyed"
    /\ \A i \in Of("switches") : Readable(i)
    /\ server' = "serving"
    /\ UNCHANGED <<dbVars, tool, encKey, file, job, writes, history>>

(* log.Fatalf, or killed.                                                  *)
Down ==
    /\ server # "down"
    /\ server' = "down"
    /\ encKey' = 0
    /\ job' = NoJob
    /\ UNCHANGED <<dbVars, tool, file, writes, history>>

ToolEnds == /\ tool # "down"
            /\ tool' = "down"
            /\ UNCHANGED <<dbVars, server, encKey, file, job, writes, history>>

-----------------------------------------------------------------------------
(* Writes of other requests, each one statement.                           *)

Written == /\ writes < MaxWrites
           /\ writes' = writes + 1
           /\ calm' = FALSE
           /\ goal' = None
           /\ UNCHANGED <<skey, keys, fk, procVars, file, job, origin, lost>>

Put(i, v) == rows' = [rows EXCEPT ![i] = Row(i, v, encKey)] /\ Written

(* What is left without the rows S: ON DELETE CASCADE takes the port names.*)
Without(S) == [i \in Items |->
                  IF i \in S \/ (fk /\ i[1] = "port_names" /\ SwitchOf(i) \in S)
                  THEN None ELSE rows[i]]
Delete(i) == rows[i] # None /\ rows' = Without({i}) /\ Written

(* A new uuid: one that nothing refers to.                                 *)
New(id) == \A i \in Items : i[2] = id /\ i[1] \in {"switches", "port_names", "api_tokens"} =>
              /\ rows[i] = None
              /\ file # None => file[i] = None
              /\ job.content[i] = None

AddSwitch == \E i \in Of("switches"), v \in Values : New(i[2]) /\ Put(i, v)
UpdateSwitch == \E i \in Of("switches"), v \in Values : rows[i] # None /\ Put(i, v)
DeleteSwitch == \E i \in Of("switches") : Delete(i)

CreateApiToken == \E i \in Of("api_tokens"), v \in Values : New(i[2]) /\ Put(i, v)
DeleteApiToken == \E i \in Of("api_tokens") : Delete(i)

(* The switch need not exist, unless the driver checks the reference.      *)
SetPortName ==
    \E i \in Of("port_names") :
        \/ \E v \in Values : (fk => rows[SwitchOf(i)] # None) /\ Put(i, v)
        \/ Delete(i)

(* A second channel of that name is refused.                               *)
CreateChannel ==
    \E i \in Of("notification_channels"), v \in Values : rows[i] = None /\ Put(i, v)
(* It may be renamed, and then keep its settings as they are stored.       *)
UpdateChannel ==
    \E i, j \in Of("notification_channels") :
        /\ rows[i] # None
        /\ i # j => rows[j] = None
        /\ \E r \in {rows[i]} \union {Row(j, v, encKey) : v \in Values} :
               rows' = [rows EXCEPT ![i] = None, ![j] = r]
        /\ Written
DeleteChannel == \E i \in Of("notification_channels") : Delete(i)

UpdateSettings == \E i \in Of("settings"), v \in Values : Put(i, v)

ServerWrites ==
    /\ server = "serving"
    /\ \/ AddSwitch \/ UpdateSwitch \/ DeleteSwitch
       \/ CreateApiToken \/ DeleteApiToken \/ SetPortName
       \/ CreateChannel \/ UpdateChannel \/ DeleteChannel
       \/ UpdateSettings

RunResetPassword == tool = "opened" /\ UpdateSettings

-----------------------------------------------------------------------------
(* GET /api/v1/backup.  Bound: a client does one export or restore at a    *)
(* time.                                                                   *)

BeginJob(j) == /\ server = "serving"
               /\ job = NoJob
               /\ job' = j
               /\ calm' = TRUE
               /\ UNCHANGED <<dbVars, procVars, file, writes, origin, goal, lost>>

BeginExport == BeginJob([NoJob EXCEPT !.kind = "export", !.left = Items])

(* It is the turn of a table if nothing is left of those before it.        *)
Turn(t) == \A i \in job.left : Order[t] <= Order[i[1]]

ValSlip(i) == rows[i]
Val(i) == IF rows[i] = None THEN None ELSE rows[i].val

(* The rows S go into the file, the items T are done.                      *)
Collected(S, T) ==
    /\ job' = [job EXCEPT !.left = @ \ T,
                          !.content = [i \in Items |-> IF i \in S THEN Val(i) ELSE @[i]]]
    /\ UNCHANGED <<dbVars, procVars, file, writes, history>>

(* A setting, or the port names of one switch.                             *)
ExportItem ==
    /\ job.kind = "export"
    /\ \E i \in job.left : /\ i[1] \in {"settings", "port_names"}
                           /\ Turn(i[1])
                           /\ Collected({i}, {i})

(* A setting that cannot be read is left out, as one that is not set.      *)
SkipSetting ==
    /\ job.kind = "export"
    /\ \E i \in job.left : i[1] = "settings" /\ job' = [job EXCEPT !.left = @ \ {i}]
    /\ calm' = FALSE
    /\ UNCHANGED <<dbVars, procVars, file, writes, origin, goal, lost>>

(* ListSwitches; then only the port names of these switches are asked for. *)
ExportSwitches ==
    /\ job.kind = "export"
    /\ Of("switches") \subseteq job.left
    /\ Turn("switches")
    /\ \A i \in Of("switches") : Readable(i)
    /\ Collected(Of("switches"),
                 Of("switches")
                 \union {i \in Of("port_names") : rows[SwitchOf(i)] = None})

ExportTable(t) ==
    /\ job.kind = "export"
    /\ Of(t) \subseteq job.left
    /\ Turn(t)
    /\ \A i \in Of(t) : Readable(i)
    /\ Collected(Of(t), Of(t))

EndExport ==
    /\ job.kind = "export"
    /\ job.left = {}
    /\ file' = job.content
    /\ origin' = IF calm THEN [i \in Items |-> Val(i)] ELSE None
    /\ job' = NoJob
    /\ UNCHANGED <<dbVars, procVars, writes, calm, goal, lost>>

-----------------------------------------------------------------------------
(* POST /api/v1/backup/restore.  A file of another version is refused      *)
(* before anything is changed.                                             *)

BeginRestoreSlip ==
    /\ file # None
    /\ BeginJob([kind |-> "restore", wipe |-> Wiped \ {"port_names"}, content |-> file,
                 left |-> {i \in Items : file[i] # None}])
BeginRestoreSlip2 ==
    /\ file # None
    /\ BeginJob([kind |-> "restore", wipe |-> Wiped \ {"api_tokens"}, content |-> file,
                 left |-> {i \in Items : file[i] # None}])
BeginRestore ==
    /\ file # None
    /\ BeginJob([kind |-> "restore", wipe |-> Wiped, content |-> file,
                 left |-> {i \in Items : file[i] # None}])

Restored == UNCHANGED <<skey, keys, fk, procVars, file, writes, calm, origin, lost>>

WipeSlip(t) ==
    /\ job.kind = "restore"
    /\ t \in job.wipe
    /\ \A u \in job.wipe : WipeOrder[t] <= WipeOrder[u]
    /\ rows' = Without(Of(t) \union Of("settings"))
    /\ skey' = 0
    /\ job' = [job EXCEPT !.wipe = @ \ {t}]
    /\ goal' = None
    /\ UNCHANGED <<keys, fk, procVars, file, writes, calm, origin, lost>>
Wipe(t) ==
    /\ job.kind = "restore"
    /\ t \in job.wipe
    /\ \A u \in job.wipe : WipeOrder[t] <= WipeOrder[u]
    /\ rows' = Without(Of(t))
    /\ job' = [job EXCEPT !.wipe = @ \ {t}]
    /\ goal' = None
    /\ Restored

(* Settings and port names are upserts, the others plain inserts.          *)
Accepts(i) == /\ rows[i] # None => i[1] \in {"settings", "port_names"}
              /\ fk /\ i[1] = "port_names" => rows[SwitchOf(i)] # None

(* Secrets are stored under this server's key.                             *)
Insert(i) ==
    /\ job.kind = "restore" /\ job.wipe = {}
    /\ i \in job.left
    /\ Turn(i[1])
    /\ Accepts(i)
    /\ rows' = [rows EXCEPT ![i] = Row(i, job.content[i], encKey)]
    /\ job' = [job EXCEPT !.left = @ \ {i}]
    /\ goal' = None
    /\ Restored

EndRestore ==
    /\ job.kind = "restore" /\ job.wipe = {}
    /\ job.left = {}
    /\ job' = NoJob
    /\ goal' = IF calm THEN origin ELSE None
    /\ UNCHANGED <<dbVars, procVars, file, writes, calm, origin, lost>>

(* A statement fails or the client goes away; what is done stays done.     *)
JobFails ==
    /\ job # NoJob
    /\ job' = NoJob
    /\ UNCHANGED <<dbVars, procVars, file, writes, history>>

-----------------------------------------------------------------------------
Next ==
    \/ OpenServer \/ ServerMakesKey \/ EncryptionKey \/ LoadFromStore \/ Down
    \/ OpenTool \/ ToolMakesKey \/ RunResetPassword \/ ToolEnds
    \/ ServerWrites
    \/ BeginExport \/ ExportItem \/ SkipSetting \/ ExportSwitches \/ EndExport
    \/ \E t \in {"api_tokens", "notification_channels"} : ExportTable(t)
    \/ BeginRestore \/ EndRestore \/ JobFails
    \/ \E t \in Wiped : Wipe(t)
    \/ \E i \in Items : Insert(i)

Spec == Init /\ [][Next]_vars

-----------------------------------------------------------------------------
(* Properties.                                                             *)

(* What an undisturbed export and an undisturbed restore of its file have  *)
(* brought here is the configuration it was taken from: nothing is lost,   *)
(* nothing of what was here before is left, whatever this server held and  *)
(* whether an earlier restore broke off, and whoever has the key here      *)
(* (Export, Restore).  Settings that the file does not name stay; names of *)
(* ports of switches that are gone do not travel.                          *)
RestoredAsExported ==
    goal # None =>
        \A i \in Items :
            IF i[1] = "settings" THEN goal[i] # None => Val(i) = goal[i]
            ELSE IF i[1] = "port_names" /\ goal[SwitchOf(i)] = None THEN Val(i) = None
            ELSE Val(i) = goal[i]

(* No constraint of the schema refuses a statement of a restore nobody     *)
(* disturbs, not even of a file that was torn by writes during its export: *)
(* such a restore fails only if SQLite does (Restore, schema).             *)
NeverRefused ==
    job.kind = "restore" /\ calm /\ job.wipe = {} =>
        \A i \in job.left : Turn(i[1]) => Accepts(i)

(* A server that serves can read the password of every switch, also when   *)
(* Open has replaced the key in the meantime, here or from the tool: it    *)
(* has read them all with its key when it started and whatever it writes,  *)
(* it writes with that key.  And as long as no key is made over another    *)
(* one, all secrets are stored under the stored key, so the next start can *)
(* read them; a restore of another server's file does not change that      *)
(* (Open, EncryptionKey, LoadFromStore, AddSwitch, Restore).               *)
SecretsStayReadable ==
    /\ server = "serving" => \A i \in Of("switches") : Readable(i)
    /\ ~lost =>
          /\ \A i \in Secrets : rows[i] # None => rows[i].key = skey
          /\ server \in {"keyed", "serving"} => encKey = skey
=============================================================================
