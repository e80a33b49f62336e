---------------------------- MODULE BackupProofs ----------------------------
(***************************************************************************)
(* Proofs about Backup, for any number of settings, switches, tokens,      *)
(* channels, writes and keys: types; secrets stay readable; an undisturbed *)
(* restore is never refused and brings what was exported.                  *)
(***************************************************************************)
EXTENDS Backup, TLAPS

-----------------------------------------------------------------------------
(* Items and rows.                                                         *)

LEMMA ItemFacts ==
    ASSUME NEW i \in Items
    PROVE  /\ i[1] \in Tables
           /\ i \in Of(i[1])
           /\ i[1] \in Wiped \/ i[1] = "settings"
           /\ i[1] = "port_names" => SwitchOf(i) \in Of("switches")
BY DEF Items, Tables, Of, Wiped, SwitchOf

LEMMA RowType ==
    ASSUME NEW i \in Items, NEW v \in Values \union {None}, NEW key \in 0 .. MaxKeys
    PROVE  Row(i, v, key) \in Rows \union {None}
BY KeysAssumption DEF Row, Rows

(* What a row says is what was put there.                                  *)
LEMMA RowSays ==
    ASSUME NEW i \in Items, NEW v \in Values, NEW key
    PROVE  /\ Row(i, v, key) # None => Row(i, v, key).val = v
           /\ Row(i, v, key) # None => Row(i, v, key).key = IF i \in Secrets THEN key ELSE 0
           /\ v # None
BY NoneAssumption DEF Row

LEMMA RowIsThere ==
    ASSUME NEW i \in Items, NEW v \in Values, NEW key \in 0 .. MaxKeys
    PROVE  Row(i, v, key) # None
<1>1. v # None
  BY NoneAssumption
<1>2. (IF i \in Secrets THEN key ELSE 0) \in 0 .. MaxKeys
  BY KeysAssumption
<1>3. [val |-> v, key |-> IF i \in Secrets THEN key ELSE 0] \in Rows
  BY <1>2 DEF Rows
<1>4. Row(i, v, key) \in Rows
  BY <1>1, <1>3, Zenon DEF Row
<1> QED BY <1>4, NoneAssumption, Zenon

LEMMA ValType ==
    ASSUME rows \in [Items -> Rows \union {None}]
    PROVE  [i \in Items |-> Val(i)] \in Configs
BY DEF Val, Configs, Rows

-----------------------------------------------------------------------------
(* Types.                                                                  *)

RowsOK == rows \in [Items -> Rows \union {None}]
ProcOK == /\ skey \in 0 .. MaxKeys
          /\ keys \in 0 .. MaxKeys
          /\ fk \in BOOLEAN
          /\ server \in {"down", "making", "opened", "keyed", "serving"}
          /\ tool \in {"down", "making", "opened"}
          /\ encKey \in 0 .. MaxKeys
          /\ lost \in BOOLEAN
JobOK == /\ file \in Configs \union {None}
         /\ job \in Jobs
         /\ writes \in 0 .. MaxWrites
         /\ calm \in BOOLEAN
         /\ origin \in Configs \union {None}
         /\ goal \in Configs \union {None}

LEMMA TypeParts == TypeOK <=> RowsOK /\ ProcOK /\ JobOK
BY DEF TypeOK, RowsOK, ProcOK, JobOK

LEMMA NoJobType == NoJob \in Jobs
BY DEF NoJob, Jobs, NoConfig, Configs

(* The actions by what they touch.                                         *)
KeyStep == \/ OpenServer \/ ServerMakesKey \/ EncryptionKey \/ LoadFromStore
           \/ OpenTool \/ ToolMakesKey \/ ToolEnds
WriteStep == ServerWrites \/ RunResetPassword
ExportStep == \/ ExportItem \/ SkipSetting \/ ExportSwitches
              \/ \E t \in {"api_tokens", "notification_channels"} : ExportTable(t)
RestoreStep == (\E t \in Wiped : Wipe(t)) \/ (\E i \in Items : Insert(i))

LEMMA NextSteps ==
    Next => \/ KeyStep \/ WriteStep \/ ExportStep \/ RestoreStep
            \/ BeginExport \/ BeginRestore \/ EndExport \/ EndRestore \/ JobFails \/ Down
BY DEF Next, KeyStep, WriteStep, ExportStep, RestoreStep

LEMMA KeyStepKeeps ==
    ASSUME KeyStep
    PROVE  UNCHANGED <<rows, fk, file, job, writes, calm, origin, goal>>
BY DEF KeyStep, OpenServer, ServerMakesKey, MakeKey, EncryptionKey, LoadFromStore,
       OpenTool, ToolMakesKey, ToolEnds, dbVars, history

(* A row after a write: gone, as it was, new under main's key, or the      *)
(* stored settings of a channel under another name.                        *)
LEMMA WriteShape ==
    ASSUME RowsOK, WriteStep
    PROVE  /\ Written
           /\ DOMAIN rows' = Items /\ rows' = [i \in Items |-> rows'[i]]
           /\ \A j \in Items :
                 \/ rows'[j] \in {None, rows[j]}
                 \/ \E v \in Values : /\ rows'[j] = Row(j, v, encKey)
                                      /\ server = "serving" \/ j \in Of("settings")
                 \/ /\ j \in Of("notification_channels")
                    /\ \E i \in Of("notification_channels") : rows'[j] = rows[i]
<1> DEFINE Shape == /\ Written
                    /\ DOMAIN rows' = Items /\ rows' = [i \in Items |-> rows'[i]]
                    /\ \A j \in Items :
                          \/ rows'[j] \in {None, rows[j]}
                          \/ \E v \in Values : /\ rows'[j] = Row(j, v, encKey)
                                               /\ server = "serving" \/ j \in Of("settings")
                          \/ /\ j \in Of("notification_channels")
                             /\ \E i \in Of("notification_channels") : rows'[j] = rows[i]
<1>1. ASSUME NEW i \in Items, NEW v \in Values, Put(i, v),
             server = "serving" \/ i \in Of("settings")
      PROVE  Shape
  BY <1>1 DEF Put, RowsOK
<1>2. ASSUME NEW i \in Items, Delete(i) PROVE Shape
  BY <1>2 DEF Delete, Without, RowsOK
<1>3. CASE UpdateChannel /\ server = "serving"
  <2>1. PICK i \in Of("notification_channels"), j \in Of("notification_channels") :
            /\ \E r \in {rows[i]} \union {Row(j, v, encKey) : v \in Values} :
                   rows' = [rows EXCEPT ![i] = None, ![j] = r]
            /\ Written
    BY <1>3 DEF UpdateChannel
  <2>2. PICK r \in {rows[i]} \union {Row(j, v, encKey) : v \in Values} :
            rows' = [rows EXCEPT ![i] = None, ![j] = r]
    BY <2>1
  <2>3. i \in Items /\ j \in Items
    BY DEF Of
  <2>4. /\ DOMAIN rows' = Items /\ rows' = [k \in Items |-> rows'[k]]
        /\ \A k \in Items \ {i, j} : rows'[k] = rows[k]
        /\ rows'[j] = r /\ (i # j => rows'[i] = None)
    BY <2>2, <2>3 DEF RowsOK
  <2>5. \A k \in Items : k = j \/ rows'[k] \in {None, rows[k]}
    BY <2>4
  <2>6. r = rows[i] \/ \E v \in Values : r = Row(j, v, encKey)
    OBVIOUS
  <2>7. \/ \E v \in Values : rows'[j] = Row(j, v, encKey)
        \/ \E k \in Of("notification_channels") : rows'[j] = rows[k]
    BY <2>4, <2>6
  <2> QED BY <1>3, <2>1, <2>4, <2>5, <2>7
<1>4. \A t \in Tables : Of(t) \subseteq Items
  BY DEF Of
<1>5. UpdateSettings => Shape
  BY <1>1, <1>4 DEF UpdateSettings, Tables
<1>6. CASE ServerWrites
  BY <1>1, <1>2, <1>3, <1>4, <1>5, <1>6 DEF ServerWrites, AddSwitch, UpdateSwitch, DeleteSwitch,
     CreateApiToken, DeleteApiToken, SetPortName, CreateChannel, DeleteChannel, Tables
<1>7. CASE RunResetPassword
  BY <1>5, <1>7 DEF RunResetPassword
<1> QED BY <1>6, <1>7 DEF WriteStep

(* What a step of a restore does to the rows.                              *)
LEMMA RestoreShape ==
    ASSUME TypeOK, RestoreStep
    PROVE  /\ Restored /\ job.kind = "restore"
           /\ DOMAIN rows' = Items /\ rows' = [i \in Items |-> rows'[i]]
           /\ \A j \in Items : \/ rows'[j] \in {None, rows[j]}
                                \/ rows'[j] = Row(j, job.content[j], encKey)
           /\ goal' = None
           /\ job' \in Jobs /\ job'.kind = "restore" /\ job'.content = job.content
<1>1. ASSUME NEW t \in Wiped, Wipe(t)
      PROVE  /\ Restored /\ job.kind = "restore" /\ goal' = None
             /\ rows' = [i \in Items |-> rows'[i]]
             /\ \A j \in Items : rows'[j] \in {None, rows[j]}
             /\ job' \in Jobs /\ job'.kind = "restore" /\ job'.content = job.content
  BY <1>1 DEF Wipe, Without, TypeOK, Jobs
<1>2. ASSUME NEW i \in Items, Insert(i)
      PROVE  /\ Restored /\ job.kind = "restore" /\ goal' = None
             /\ rows' = [j \in Items |-> rows'[j]]
             /\ \A j \in Items : rows'[j] = rows[j]
                                \/ rows'[j] = Row(j, job.content[j], encKey)
             /\ job' \in Jobs /\ job'.kind = "restore" /\ job'.content = job.content
  BY <1>2 DEF Insert, TypeOK, Jobs
<1> QED BY <1>1, <1>2 DEF RestoreStep

LEMMA ExportShape ==
    ASSUME TypeOK, ExportStep
    PROVE  /\ UNCHANGED <<dbVars, procVars, file, writes, origin, goal, lost>>
           /\ calm' \in BOOLEAN /\ job.kind = "export"
           /\ job' \in Jobs /\ job'.kind = "export" /\ job'.wipe = job.wipe
<1>1. ASSUME NEW S, NEW T, Collected(S, T), job.kind = "export"
      PROVE  /\ job' \in Jobs /\ job'.kind = "export" /\ job'.wipe = job.wipe
  <2>1. [i \in Items |-> Val(i)] \in Configs
    BY ValType DEF TypeOK
  <2>2. [i \in Items |-> IF i \in S THEN Val(i) ELSE job.content[i]] \in Configs
    BY <2>1 DEF TypeOK, Jobs, Configs
  <2> QED BY <1>1, <2>2 DEF Collected, TypeOK, Jobs
<1>2. SkipSetting => /\ job' \in Jobs /\ job'.kind = "export" /\ job'.wipe = job.wipe
  BY DEF SkipSetting, TypeOK, Jobs
<1>3. ExportStep =>
        \/ job.kind = "export" /\ \E S, T \in SUBSET Items : Collected(S, T)
        \/ SkipSetting
  <2>1. \A t \in Tables : Of(t) \in SUBSET Items
    BY DEF Of
  <2>2. \A i \in job.left : {i} \in SUBSET Items
    BY DEF TypeOK, Jobs
  <2>3. Of("switches") \union {i \in Of("port_names") : rows[SwitchOf(i)] = None}
            \in SUBSET Items
    BY <2>1 DEF Tables, Of
  <2>4. ExportItem => job.kind = "export" /\ \E S, T \in SUBSET Items : Collected(S, T)
    BY <2>2 DEF ExportItem
  <2>5. ExportSwitches => job.kind = "export" /\ \E S, T \in SUBSET Items : Collected(S, T)
    BY <2>1, <2>3 DEF ExportSwitches, Tables
  <2>6. \A t \in Tables : ExportTable(t) =>
            job.kind = "export" /\ \E S, T \in SUBSET Items : Collected(S, T)
    BY <2>1 DEF ExportTable
  <2> QED BY <2>4, <2>5, <2>6 DEF ExportStep, Tables
<1>4. \A S, T : Collected(S, T) => UNCHANGED <<dbVars, procVars, file, writes, history>>
  BY DEF Collected
<1>5. SkipSetting => /\ UNCHANGED <<dbVars, procVars, file, writes, origin, goal, lost>>
                     /\ calm' \in BOOLEAN /\ job.kind = "export"
  BY DEF SkipSetting
<1> QED BY <1>1, <1>2, <1>3, <1>4, <1>5 DEF TypeOK, history

LEMMA TypeInit == Init => TypeOK
<1> SUFFICES ASSUME Init PROVE TypeOK
  OBVIOUS
<1>1. PICK c \in FirstConfigs : rows = [i \in Items |-> Row(i, c[i], 1)]
  BY DEF Init
<1>2. \A i \in Items : c[i] \in Values \union {None}
  BY <1>1, ConfigsAssumption DEF Configs
<1>3. RowsOK
  BY <1>1, <1>2, RowType, KeysAssumption DEF RowsOK
<1>4. ProcOK
  <2>1. /\ keys \in {0, 1} /\ skey = keys /\ fk \in BOOLEAN
        /\ server = "down" /\ tool = "down" /\ encKey = 0 /\ lost = FALSE
    BY DEF Init
  <2>2. 0 \in 0 .. MaxKeys /\ 1 \in 0 .. MaxKeys
    BY KeysAssumption
  <2> QED BY <2>1, <2>2 DEF ProcOK
<1>5. JobOK
  <2>1. file \in {f \in FirstConfigs : Complete(f)} \union {None} /\ origin = file
    BY DEF Init
  <2>2. file \in Configs \union {None}
    BY <2>1, ConfigsAssumption
  <2>3. job = NoJob /\ writes = 0 /\ calm = FALSE /\ goal = None
    BY DEF Init
  <2>4. origin \in Configs \union {None} /\ goal \in Configs \union {None}
    BY <2>1, <2>2, <2>3
  <2>5. calm \in BOOLEAN
    BY <2>3
  <2>6. job \in Jobs /\ writes \in 0 .. MaxWrites
    BY <2>3, NoJobType, WritesAssumption
  <2> QED BY <2>2, <2>4, <2>5, <2>6, Zenon DEF JobOK
<1> QED BY <1>3, <1>4, <1>5, TypeParts

LEMMA TypeNext == TypeOK /\ [Next]_vars => TypeOK'
<1> SUFFICES ASSUME TypeOK, [Next]_vars PROVE TypeOK'
  OBVIOUS
<1> USE DEF dbVars, procVars, history
<1>1. CASE KeyStep
  <2>1. CASE OpenServer \/ LoadFromStore \/ EncryptionKey \/ OpenTool \/ ToolEnds
    BY <2>1 DEF OpenServer, LoadFromStore, EncryptionKey, OpenTool, ToolEnds, TypeOK
  <2>2. CASE ServerMakesKey \/ ToolMakesKey
    <3>1. /\ keys' \in 0 .. MaxKeys /\ skey' \in 0 .. MaxKeys
      BY <2>2, KeysAssumption DEF ServerMakesKey, ToolMakesKey, MakeKey, TypeOK
    <3>2. lost' \in BOOLEAN
      BY <2>2 DEF ServerMakesKey, ToolMakesKey, MakeKey, TypeOK
    <3> QED BY <2>2, <3>1, <3>2 DEF ServerMakesKey, ToolMakesKey, MakeKey, TypeOK
  <2> QED BY <1>1, <2>1, <2>2 DEF KeyStep
<1>2. CASE WriteStep
  <2>1. RowsOK
    BY DEF TypeOK, RowsOK
  <2>2. RowsOK'
    <3>1. ASSUME NEW j \in Items PROVE rows'[j] \in Rows \union {None}
      BY <2>1, <1>2, WriteShape, RowType DEF RowsOK, Of, TypeOK
    <3> QED BY <3>1, <2>1, <1>2, WriteShape DEF RowsOK
  <2>3. Written
    BY <1>2, <2>1, WriteShape
  <2>4. writes' \in 0 .. MaxWrites
    BY <2>3, WritesAssumption DEF TypeOK, Written
  <2> QED BY <2>2, <2>3, <2>4 DEF TypeOK, RowsOK, Written
<1>3. CASE ExportStep
  BY <1>3, ExportShape DEF TypeOK
<1>4. CASE RestoreStep
  <2>1. ASSUME NEW j \in Items PROVE rows'[j] \in Rows \union {None}
    <3>1. job.content[j] \in Values \union {None}
      BY DEF TypeOK, Jobs, Configs
    <3> QED BY <3>1, <1>4, RestoreShape, RowType DEF TypeOK
  <2> QED BY <1>4, <2>1, RestoreShape DEF TypeOK, Restored
<1>5. CASE BeginExport
  <2>1. [NoJob EXCEPT !.kind = "export", !.left = Items] \in Jobs
    BY NoJobType DEF NoJob, Jobs
  <2> QED BY <1>5, <2>1 DEF BeginExport, BeginJob, TypeOK
<1>6. CASE BeginRestore
  BY <1>6 DEF BeginRestore, BeginJob, TypeOK, Jobs
<1>7. CASE EndExport
  BY <1>7, NoJobType, ValType DEF EndExport, TypeOK, Jobs
<1>8. CASE EndRestore \/ JobFails \/ Down
  BY <1>8, NoJobType, KeysAssumption DEF EndRestore, JobFails, Down, TypeOK
<1>9. CASE UNCHANGED vars
  BY <1>9 DEF vars, TypeOK
<1> QED BY <1>1, <1>2, <1>3, <1>4, <1>5, <1>6, <1>7, <1>8, <1>9, NextSteps

(* Every variable keeps its type: a row has a key that has been made, a    *)
(* file and what a job has read are configurations (Open, Export, Restore).*)
THEOREM TypeCorrect == Spec => []TypeOK
BY TypeInit, TypeNext, PTL DEF Spec

-----------------------------------------------------------------------------
(* Keys.                                                                   *)

Loaded == server = "serving" => \A i \in Of("switches") : Readable(i)
JobServes == job.kind # "none" => server = "serving"
OneKey == /\ \A i \in Secrets : rows[i] # None => rows[i].key = skey /\ skey # 0
          /\ server \in {"keyed", "serving"} => encKey = skey
          /\ server \in {"opened", "keyed", "serving"} => skey # 0
KeyInv == Loaded /\ JobServes /\ (~lost => OneKey)

LEMMA SecretFacts ==
    /\ Secrets \subseteq Items
    /\ Of("switches") \subseteq Secrets
    /\ Of("notification_channels") \subseteq Secrets
    /\ \A i \in Secrets : i \notin Of("settings")
BY DEF Secrets, Of

LEMMA KeyInit == Init => KeyInv
<1> SUFFICES ASSUME Init PROVE KeyInv
  OBVIOUS
<1>1. PICK c \in FirstConfigs : rows = [i \in Items |-> Row(i, c[i], 1)]
  BY DEF Init
<1>2. \A i \in Secrets : rows[i] # None => rows[i].key = 1
  BY <1>1, SecretFacts, NoneAssumption DEF Row
<1>3. keys \in {0, 1} /\ skey = keys /\ (keys = 0 => rows = [i \in Items |-> None])
  BY DEF Init
<1>4. \A i \in Secrets : rows[i] # None => rows[i].key = skey /\ skey # 0
  BY <1>2, <1>3, SecretFacts
<1>5. server = "down" /\ job = NoJob
  BY DEF Init
<1> QED BY <1>4, <1>5 DEF KeyInv, Loaded, JobServes, OneKey, NoJob

(* Rows that are gone, as they were, written with main's key by a server   *)
(* that serves, or a channel's under another name.                         *)
LEMMA RowsKeepKey ==
    ASSUME TypeOK, KeyInv,
           UNCHANGED <<skey, procVars, lost>>, job'.kind = job.kind,
           DOMAIN rows' = Items,
           \A j \in Secrets :
              \/ rows'[j] \in {None, rows[j]}
              \/ server = "serving" /\ \E v : rows'[j] = Row(j, v, encKey)
              \/ /\ j \in Of("notification_channels")
                 /\ \E i \in Of("notification_channels") : rows'[j] = rows[i]
    PROVE  KeyInv'
<1> USE DEF procVars
<1>1. ASSUME NEW j \in Secrets, NEW v, rows'[j] = Row(j, v, encKey), rows'[j] # None
      PROVE  rows'[j].key = encKey
  BY <1>1, NoneAssumption DEF Row
<1>2. Loaded'
  <2> SUFFICES ASSUME server = "serving", NEW i \in Of("switches"), rows'[i] # None
               PROVE  rows'[i].key \in {0, encKey}
    BY DEF Loaded, Readable
  <2>1. rows[i] # None => rows[i].key \in {0, encKey}
    BY DEF KeyInv, Loaded, Readable
  <2>2. i \in Secrets /\ i \notin Of("notification_channels")
    BY SecretFacts DEF Of
  <2> QED BY <1>1, <2>1, <2>2
<1>3. JobServes'
  BY DEF KeyInv, JobServes
<1>4. ~lost => OneKey'
  <2> SUFFICES ASSUME ~lost PROVE OneKey'
    OBVIOUS
  <2> USE DEF KeyInv, OneKey
  <2>1. ASSUME NEW j \in Secrets, rows'[j] # None PROVE rows'[j].key = skey /\ skey # 0
    <3>1. CASE rows'[j] = rows[j]
      BY <2>1, <3>1
    <3>2. CASE server = "serving" /\ \E v : rows'[j] = Row(j, v, encKey)
      BY <2>1, <3>2, <1>1
    <3>3. CASE \E i \in Of("notification_channels") : rows'[j] = rows[i]
      BY <2>1, <3>3, SecretFacts
    <3> QED BY <2>1, <3>1, <3>2, <3>3
  <2> QED BY <2>1
<1> QED BY <1>2, <1>3, <1>4 DEF KeyInv

LEMMA KeyNext == TypeOK /\ KeyInv /\ [Next]_vars => KeyInv'
<1> SUFFICES ASSUME TypeOK, KeyInv, [Next]_vars PROVE KeyInv'
  OBVIOUS
<1> USE DEF dbVars, procVars, history
<1>1. CASE KeyStep
  <2>1. UNCHANGED <<rows, job>>
    BY <1>1, KeyStepKeeps
  <2>2. CASE OpenServer \/ OpenTool \/ ToolEnds
    BY <2>1, <2>2 DEF OpenServer, OpenTool, ToolEnds, KeyInv, Loaded, JobServes, OneKey, Readable
  <2>3. CASE EncryptionKey
    BY <2>1, <2>3 DEF EncryptionKey, KeyInv, Loaded, JobServes, OneKey, Readable
  <2>4. CASE LoadFromStore
    BY <2>1, <2>4 DEF LoadFromStore, KeyInv, Loaded, JobServes, OneKey, Readable
  <2>5. CASE ServerMakesKey \/ ToolMakesKey
    <3>1. /\ server' = server \/ (server = "making" /\ server' = "opened")
          /\ encKey' = encKey /\ skey' = keys + 1
      BY <2>5 DEF ServerMakesKey, ToolMakesKey, MakeKey
    <3>2. ~lost' => ~lost /\ skey = 0
      BY <2>5, Zenon DEF ServerMakesKey, ToolMakesKey, MakeKey
    <3>3. skey' # 0
      BY <3>1 DEF TypeOK
    <3> QED BY <2>1, <3>1, <3>2, <3>3 DEF KeyInv, Loaded, JobServes, OneKey, Readable
  <2> QED BY <1>1, <2>2, <2>3, <2>4, <2>5 DEF KeyStep
<1>2. CASE WriteStep
  <2>1. RowsOK
    BY DEF TypeOK, RowsOK
  <2> QED BY <1>2, <2>1, WriteShape, RowsKeepKey, SecretFacts DEF Written
<1>3. CASE ExportStep
  BY <1>3, ExportShape DEF KeyInv, Loaded, JobServes, OneKey, Readable
<1>4. CASE RestoreStep
  <2>1. server = "serving"
    BY <1>4, RestoreShape DEF KeyInv, JobServes
  <2> QED BY <1>4, <2>1, RestoreShape, RowsKeepKey, SecretFacts DEF Restored
<1>5. CASE BeginExport \/ BeginRestore
  BY <1>5 DEF BeginExport, BeginRestore, BeginJob, KeyInv, Loaded, JobServes, OneKey, Readable
<1>6. CASE EndExport \/ EndRestore \/ JobFails \/ Down
  BY <1>6 DEF EndExport, EndRestore, JobFails, Down, NoJob,
              KeyInv, Loaded, JobServes, OneKey, Readable
<1>7. CASE UNCHANGED vars
  BY <1>7 DEF vars, KeyInv, Loaded, JobServes, OneKey, Readable
<1> QED BY <1>1, <1>2, <1>3, <1>4, <1>5, <1>6, <1>7, NextSteps

(* Whatever keys Open makes over others, here or in --reset-password, and  *)
(* whatever is written or restored: a serving server can decrypt every     *)
(* switch's password, and while no key was replaced all secrets are stored *)
(* under the stored key (Open, LoadFromStore, Encrypt, Restore).           *)
THEOREM KeysFitSecrets == Spec => []SecretsStayReadable
<1>1. KeyInv => SecretsStayReadable
  BY DEF KeyInv, Loaded, OneKey, SecretsStayReadable
<1> QED BY <1>1, TypeInit, TypeNext, KeyInit, KeyNext, PTL DEF Spec

-----------------------------------------------------------------------------
(* Export and restore.                                                     *)

(* What a file says of the configuration c: names of ports of switches     *)
(* that are gone stay behind.                                              *)
Travels(c) == [i \in Items |->
                  IF i[1] = "port_names" /\ c[SwitchOf(i)] = None THEN None ELSE c[i]]

FileInv == /\ file # None => Complete(file)
           /\ origin # None => file = Travels(origin)

ExportInv ==
    job.kind = "export" =>
        /\ \A i \in job.left : job.content[i] = None
        /\ Complete(job.content)
        /\ \A i \in job.left : i[1] = "port_names" =>
              Of("switches") \subseteq job.left \/ job.content[SwitchOf(i)] # None
        /\ calm => \A i \in Items \ job.left :
              job.content[i] = IF i[1] = "port_names" /\ Val(SwitchOf(i)) = None
                               THEN None ELSE Val(i)

(* While nobody disturbs: a table that has been wiped holds what has been  *)
(* written since, and what has been written is there.                      *)
Progress ==
    \A i \in Items :
        /\ i[1] \in Wiped \ job.wipe /\ rows[i] # None =>
              job.content[i] # None /\ i \notin job.left
        /\ job.content[i] # None /\ i \notin job.left => Val(i) = job.content[i]
RestoreInv ==
    job.kind = "restore" =>
        /\ file # None /\ job.content = file
        /\ \A i \in job.left : job.content[i] # None
        /\ job.wipe # {} => \A i \in Items : job.content[i] # None => i \in job.left
        /\ calm => Progress

BackupInv == FileInv /\ ExportInv /\ RestoreInv /\ RestoredAsExported

LEMMA SwitchFacts ==
    /\ \A t : \A i : i \in Of(t) <=> i \in Items /\ i[1] = t
    /\ \A i \in Items : i[1] \in Tables
    /\ \A i \in Of("port_names") : /\ SwitchOf(i) \in Items
                                   /\ SwitchOf(i)[1] = "switches"
BY DEF Items, Of, SwitchOf, Tables

LEMMA OrderFacts == Order["switches"] = 2 /\ Order["port_names"] = 5 /\ ~(5 <= 2)
BY DEF Order, Tables

LEMMA ValFacts ==
    ASSUME TypeOK
    PROVE  \A i \in Items : /\ rows[i] = None <=> Val(i) = None
                            /\ Val(i) \in Values \union {None}
BY NoneAssumption DEF Val, TypeOK, Rows

LEMMA BackupInit == Init => BackupInv
<1> SUFFICES ASSUME Init PROVE BackupInv
  OBVIOUS
<1>1. file # None => Complete(file) /\ file \in Configs
  BY ConfigsAssumption DEF Init
<1>2. ASSUME file # None PROVE file = Travels(file)
  <2>1. \A i \in Items : file[i] = Travels(file)[i]
    BY <1>1, <1>2, SwitchFacts DEF Complete, Travels
  <2> QED BY <1>1, <1>2, <2>1 DEF Travels, Configs
<1>3. origin = file /\ job.kind = "none" /\ goal = None
  BY DEF Init, NoJob
<1> QED BY <1>1, <1>2, <1>3 DEF BackupInv, FileInv, ExportInv, RestoreInv, RestoredAsExported

(* What reads and writes nothing that matters here.                        *)
LEMMA BackupStutter ==
    ASSUME BackupInv, UNCHANGED <<rows, file, job, origin>>,
           calm' = calm \/ calm' = FALSE, goal' = goal \/ goal' = None
    PROVE  BackupInv'
<1>1. \A i : Val(i)' = Val(i)
  BY DEF Val
<1>2. Progress' = Progress
  BY <1>1 DEF Progress
<1>3. ASSUME job.kind = "export", calm' PROVE calm
  BY <1>3
<1>4. FileInv'
  BY DEF BackupInv, FileInv
<1>5. ExportInv'
  BY <1>1 DEF BackupInv, ExportInv
<1>6. RestoreInv'
  BY <1>2 DEF BackupInv, RestoreInv
<1>7. RestoredAsExported'
  BY <1>1 DEF BackupInv, RestoredAsExported
<1> QED BY <1>4, <1>5, <1>6, <1>7 DEF BackupInv

(* The rows change, and nobody counts on them.                             *)
LEMMA BackupWrite ==
    ASSUME BackupInv, UNCHANGED <<file, job, origin>>, calm' = FALSE, goal' = None
    PROVE  BackupInv'
BY DEF BackupInv, FileInv, ExportInv, RestoreInv, RestoredAsExported, Complete

(* Between two jobs.                                                       *)
LEMMA BackupNoJob ==
    ASSUME BackupInv, UNCHANGED <<rows, file, origin>>, job'.kind = "none",
           goal' = goal \/ goal' = None
    PROVE  BackupInv'
<1>1. \A i : Val(i)' = Val(i)
  BY DEF Val
<1> QED BY <1>1 DEF BackupInv, FileInv, ExportInv, RestoreInv, RestoredAsExported

(* What Collected leaves of the job.                                       *)
LEMMA CollectedShape ==
    ASSUME TypeOK, NEW S, NEW T, Collected(S, T)
    PROVE  /\ UNCHANGED <<rows, file, origin, goal, calm>>
           /\ job'.kind = job.kind
           /\ job'.left = job.left \ T
           /\ \A i \in Items : job'.content[i] = IF i \in S THEN Val(i) ELSE job.content[i]
           /\ \A i : Val(i)' = Val(i)
BY DEF Collected, TypeOK, Jobs, dbVars, history, Val

LEMMA ExportKeeps == TypeOK /\ BackupInv /\ ExportStep => BackupInv'
<1> SUFFICES ASSUME TypeOK, BackupInv, ExportStep PROVE BackupInv'
  OBVIOUS
<1>1. UNCHANGED <<rows, file, origin, goal>> /\ job.kind = "export" /\ job'.kind = "export"
  BY ExportShape DEF dbVars
<1>2. \A i : Val(i)' = Val(i)
  BY <1>1 DEF Val
<1>3. FileInv' /\ RestoreInv' /\ RestoredAsExported'
  BY <1>1, <1>2 DEF BackupInv, FileInv, RestoreInv, RestoredAsExported
<1>4. job.left \subseteq Items
  BY DEF TypeOK, Jobs
<1>5. ExportInv /\ ExportInv!2
  BY <1>1 DEF BackupInv, ExportInv
<1>6. ASSUME NEW i \in job.left, i[1] = "settings", Collected({i}, {i}) PROVE ExportInv'
  BY <1>1, <1>4, <1>5, <1>6, CollectedShape, SwitchFacts DEF ExportInv, Complete
<1>7. ASSUME NEW i \in job.left, i[1] = "port_names", Turn("port_names"), Collected({i}, {i})
      PROVE  ExportInv'
  <2>1. i \in Of("port_names") /\ SwitchOf(i) \in Items /\ SwitchOf(i)[1] = "switches"
    BY <1>4, <1>7, SwitchFacts
  <2>2. SwitchOf(i) \notin job.left
    BY <1>7, <2>1, OrderFacts DEF Turn
  <2>3. job.content[SwitchOf(i)] # None
    BY <1>5, <1>7, <2>1, <2>2, SwitchFacts
  <2>4. calm => Val(SwitchOf(i)) # None
    BY <1>5, <2>1, <2>2, <2>3
  <2> QED BY <1>1, <1>4, <1>5, <1>7, <2>1, <2>3, <2>4, CollectedShape, SwitchFacts
          DEF ExportInv, Complete
<1>8. ASSUME SkipSetting PROVE ExportInv'
  <2>1. PICK i \in job.left : i[1] = "settings" /\ job' = [job EXCEPT !.left = @ \ {i}]
    BY <1>8 DEF SkipSetting
  <2>2. job'.left = job.left \ {i} /\ job'.content = job.content /\ calm' = FALSE
    BY <1>8, <2>1 DEF SkipSetting, TypeOK, Jobs
  <2> QED BY <1>1, <1>4, <1>5, <2>1, <2>2, SwitchFacts DEF ExportInv, Complete
<1>9. ASSUME ExportSwitches PROVE ExportInv'
  <2> DEFINE S == Of("switches")
             T == S \union {i \in Of("port_names") : rows[SwitchOf(i)] = None}
  <2>1. S \subseteq job.left /\ Collected(S, T)
    BY <1>9 DEF ExportSwitches
  <2>2. \A i \in Items : i \in T <=> \/ i[1] = "switches"
                                     \/ i[1] = "port_names" /\ rows[SwitchOf(i)] = None
    BY SwitchFacts
  <2>3. \A i \in Items : i \in S <=> i[1] = "switches"
    BY SwitchFacts
  <2> HIDE DEF S, T
  <2>4. \A i \in Of("port_names") : job.content[i] = None
    BY <1>5, <2>1, <2>3, SwitchFacts DEF Complete
  <2>5. \A i \in Items : job'.content[i] = IF i[1] = "switches" THEN Val(i) ELSE job.content[i]
    BY <2>1, <2>3, CollectedShape
  <2>6. job'.left = job.left \ T
    BY <2>1, CollectedShape
  <2>7. \A i \in Of("port_names") : job'.content[i] = None
    BY <2>4, <2>5, SwitchFacts
  <2>8. \A i \in job'.left : job'.content[i] = None
    BY <1>4, <1>5, <2>2, <2>5, <2>6
  <2>9. Complete(job'.content)
    BY <2>7 DEF Complete
  <2>10. \A i \in job'.left : i[1] = "port_names" => job'.content[SwitchOf(i)] # None
    BY <1>4, <2>2, <2>5, <2>6, SwitchFacts, ValFacts
  <2>11. ASSUME calm, NEW i \in Items \ job'.left
         PROVE  job'.content[i] = IF i[1] = "port_names" /\ Val(SwitchOf(i)) = None
                                  THEN None ELSE Val(i)
    <3>1. CASE i \in T
      BY <2>2, <2>5, <2>7, <2>11, <3>1, SwitchFacts, ValFacts
    <3>2. CASE i \notin job.left
      BY <1>5, <2>3, <2>1, <2>5, <2>11, <3>2
    <3> QED BY <2>6, <2>11, <3>1, <3>2
  <2>12. calm' = calm
    BY <2>1, CollectedShape
  <2> QED BY <1>2, <2>8, <2>9, <2>10, <2>11, <2>12 DEF ExportInv
<1>10. ASSUME NEW t \in {"api_tokens", "notification_channels"}, ExportTable(t)
       PROVE  ExportInv'
  <2>1. Of(t) \subseteq job.left /\ Collected(Of(t), Of(t))
    BY <1>10 DEF ExportTable
  <2>2. \A i \in Of(t) : i \in Items /\ i[1] \notin {"switches", "port_names"}
    BY SwitchFacts
  <2>3. Of("switches") \subseteq job.left => Of("switches") \subseteq job.left \ Of(t)
    BY <2>2, SwitchFacts
  <2>4. /\ UNCHANGED calm /\ job'.left = job.left \ Of(t)
        /\ \A i \in Items : job'.content[i] = IF i \in Of(t) THEN Val(i) ELSE job.content[i]
    BY <2>1, CollectedShape
  <2>5. \A i \in Items : i[1] \in {"switches", "port_names"} =>
                           job'.content[i] = job.content[i]
    BY <2>2, <2>4
  <2>6. Complete(job'.content)
    BY <1>5, <2>5, SwitchFacts DEF Complete
  <2>7. \A i \in job'.left : job'.content[i] = None
    BY <1>4, <1>5, <2>4
  <2>8. \A i \in job'.left : i[1] = "port_names" =>
            Of("switches") \subseteq job'.left \/ job'.content[SwitchOf(i)] # None
    BY <1>4, <1>5, <2>3, <2>4, <2>5, SwitchFacts
  <2>9. ASSUME calm, NEW i \in Items \ job'.left
        PROVE  job'.content[i] = IF i[1] = "port_names" /\ Val(SwitchOf(i)) = None
                                 THEN None ELSE Val(i)
    BY <1>5, <2>2, <2>4, <2>9
  <2> QED BY <1>2, <2>4, <2>6, <2>7, <2>8, <2>9 DEF ExportInv
<1>11. ExportInv'
  BY <1>6, <1>7, <1>8, <1>9, <1>10 DEF ExportStep, ExportItem
<1> QED BY <1>3, <1>11 DEF BackupInv

LEMMA EndExportKeeps == TypeOK /\ BackupInv /\ EndExport => BackupInv'
<1> SUFFICES ASSUME TypeOK, BackupInv, EndExport PROVE BackupInv'
  OBVIOUS
<1>1. /\ job.kind = "export" /\ job.left = {} /\ job'.kind = "none"
      /\ UNCHANGED <<rows, goal>> /\ file' = job.content
      /\ origin' = IF calm THEN [i \in Items |-> Val(i)] ELSE None
  BY DEF EndExport, NoJob, dbVars
<1>2. \A i : Val(i)' = Val(i)
  BY <1>1 DEF Val
<1>3. ExportInv' /\ RestoreInv' /\ RestoredAsExported'
  BY <1>1, <1>2 DEF BackupInv, ExportInv, RestoreInv, RestoredAsExported
<1>4. Complete(job.content)
  BY <1>1 DEF BackupInv, ExportInv
<1>5. ASSUME calm PROVE job.content = Travels([i \in Items |-> Val(i)])
  <2> DEFINE c == [i \in Items |-> Val(i)]
  <2>1. \A i \in Items : c[i] = Val(i)
    OBVIOUS
  <2> HIDE DEF c
  <2>2. \A i \in Items : job.content[i] = IF i[1] = "port_names" /\ Val(SwitchOf(i)) = None
                                         THEN None ELSE Val(i)
    BY <1>1, <1>5 DEF BackupInv, ExportInv
  <2>3. \A i \in Items : job.content[i] = Travels(c)[i]
    BY <2>1, <2>2, SwitchFacts DEF Travels
  <2>4. job.content = Travels(c)
    BY <2>3 DEF Travels, TypeOK, Jobs, Configs
  <2> QED BY <2>4 DEF c
<1>6. FileInv'
  <2>1. Complete(file)'
    BY <1>1, <1>4 DEF Complete
  <2>2. ASSUME origin' # None PROVE file' = Travels(origin')
    BY <1>1, <1>5, <2>2
  <2>3. Travels(origin)' = Travels(origin')
    BY DEF Travels
  <2> QED BY <2>1, <2>2, <2>3 DEF FileInv
<1> QED BY <1>3, <1>6 DEF BackupInv

LEMMA BeginKeeps == TypeOK /\ BackupInv /\ (BeginExport \/ BeginRestore) => BackupInv'
<1> SUFFICES ASSUME TypeOK, BackupInv, BeginExport \/ BeginRestore PROVE BackupInv'
  OBVIOUS
<1>1. UNCHANGED <<rows, file, origin, goal>>
  BY DEF BeginExport, BeginRestore, BeginJob, dbVars
<1>2. \A i : Val(i)' = Val(i)
  BY <1>1 DEF Val
<1>3. FileInv' /\ RestoredAsExported'
  BY <1>1, <1>2 DEF BackupInv, FileInv, RestoredAsExported
<1>4. CASE BeginExport
  <2>1. job'.kind = "export" /\ job'.left = Items /\ job'.content = NoConfig
    BY <1>4 DEF BeginExport, BeginJob, NoJob
  <2>2. ExportInv'
    <3>1. \A i \in Items : job'.content[i] = None
      BY <2>1 DEF NoConfig
    <3>2. Of("switches") \subseteq job'.left
      BY <2>1 DEF Of
    <3> QED BY <2>1, <3>1, <3>2, SwitchFacts DEF ExportInv, Complete
  <2> QED BY <1>3, <2>1, <2>2 DEF BackupInv, RestoreInv
<1>5. CASE BeginRestore
  <2>1. /\ job'.kind = "restore" /\ job'.wipe = Wiped /\ job'.content = file
        /\ job'.left = {i \in Items : file[i] # None} /\ file # None
    BY <1>5 DEF BeginRestore, BeginJob
  <2>2. RestoreInv'
    BY <1>1, <2>1 DEF RestoreInv, Progress
  <2> QED BY <1>3, <2>1, <2>2 DEF BackupInv, ExportInv
<1> QED BY <1>4, <1>5

LEMMA RestoreKeeps == TypeOK /\ BackupInv /\ RestoreStep => BackupInv'
<1> SUFFICES ASSUME TypeOK, BackupInv, RestoreStep PROVE BackupInv'
  OBVIOUS
<1>1. /\ UNCHANGED <<file, origin, calm, encKey>> /\ goal' = None
      /\ job.kind = "restore" /\ job'.kind = "restore" /\ job'.content = job.content
  BY RestoreShape DEF Restored, procVars
<1>2. FileInv' /\ ExportInv' /\ RestoredAsExported'
  BY <1>1 DEF BackupInv, FileInv, ExportInv, RestoredAsExported
<1>3. RestoreInv /\ RestoreInv!2
  BY <1>1 DEF BackupInv, RestoreInv
<1>4. rows \in [Items -> Rows \union {None}] /\ job.left \subseteq Items
  BY DEF TypeOK, Jobs
<1>5. ASSUME NEW t \in Wiped, Wipe(t) PROVE RestoreInv'
  <2>1. /\ job'.wipe = job.wipe \ {t} /\ job'.left = job.left /\ t \in job.wipe
        /\ rows' = Without(Of(t))
    BY <1>5 DEF Wipe, TypeOK, Jobs
  <2>2. \A i \in Items : rows'[i] \in {None, rows[i]} /\ (i[1] = t => rows'[i] = None)
    BY <2>1, SwitchFacts DEF Without
  <2>3. \A i \in Items : job.content[i] # None => i \in job.left
    BY <1>3, <2>1
  <2>4. ASSUME calm PROVE Progress'
    <3>1. Progress
      BY <1>3, <2>4
    <3>2. ASSUME NEW i \in Items, i[1] \in Wiped \ job'.wipe, rows'[i] # None
          PROVE  job.content[i] # None /\ i \notin job.left
      BY <2>1, <2>2, <3>1, <3>2 DEF Progress
    <3> QED BY <1>1, <2>1, <2>3, <3>2 DEF Progress
  <2> QED BY <1>1, <1>3, <2>1, <2>3, <2>4 DEF RestoreInv
<1>6. ASSUME NEW i \in Items, Insert(i) PROVE RestoreInv'
  <2>1. /\ job.wipe = {} /\ i \in job.left /\ job'.wipe = job.wipe
        /\ job'.left = job.left \ {i}
        /\ rows'[i] = Row(i, job.content[i], encKey)
        /\ \A j \in Items \ {i} : rows'[j] = rows[j]
    BY <1>4, <1>6 DEF Insert, TypeOK, Jobs
  <2>2. job.content[i] # None /\ job.content[i] \in Values
    BY <1>3, <2>1 DEF TypeOK, Jobs, Configs
  <2>3. rows'[i] # None /\ rows'[i].val = job.content[i]
    BY <2>1, <2>2, RowIsThere, RowSays DEF TypeOK
  <2>4. /\ Val(i)' = job.content[i]
        /\ \A j \in Items \ {i} : Val(j)' = Val(j)
    BY <2>1, <2>3 DEF Val
  <2>5. ASSUME calm PROVE Progress'
    <3>1. Progress
      BY <1>3, <2>5
    <3> QED BY <1>1, <2>1, <2>2, <2>4, <3>1 DEF Progress
  <2> QED BY <1>1, <1>3, <2>1, <2>5 DEF RestoreInv
<1>7. RestoreInv'
  BY <1>5, <1>6 DEF RestoreStep
<1> QED BY <1>2, <1>7 DEF BackupInv

LEMMA EndRestoreKeeps == TypeOK /\ BackupInv /\ EndRestore => BackupInv'
<1> SUFFICES ASSUME TypeOK, BackupInv, EndRestore PROVE BackupInv'
  OBVIOUS
<1>1. /\ job.kind = "restore" /\ job.wipe = {} /\ job.left = {} /\ job'.kind = "none"
      /\ UNCHANGED <<rows, file, origin>> /\ goal' = IF calm THEN origin ELSE None
  BY DEF EndRestore, NoJob, dbVars
<1>2. \A i : Val(i)' = Val(i)
  BY <1>1 DEF Val
<1>3. FileInv' /\ ExportInv' /\ RestoreInv'
  BY <1>1 DEF BackupInv, FileInv, ExportInv, RestoreInv
<1>4. ASSUME calm, origin # None, NEW i \in Items
      PROVE  Val(i) = Travels(origin)[i] \/ (i[1] = "settings" /\ origin[i] = None)
  <2>1. job.content = Travels(origin) /\ Progress
    BY <1>1, <1>4 DEF BackupInv, FileInv, RestoreInv
  <2>2. CASE job.content[i] # None
    BY <1>1, <2>1, <2>2 DEF Progress
  <2>3. CASE job.content[i] = None /\ i[1] # "settings"
    <3>1. i[1] \in Wiped
      BY <2>3, ItemFacts
    <3>2. rows[i] = None
      BY <1>1, <2>1, <2>3, <3>1 DEF Progress
    <3> QED BY <2>1, <2>3, <3>2, ValFacts
  <2>4. CASE job.content[i] = None /\ i[1] = "settings"
    BY <2>1, <2>4 DEF Travels
  <2> QED BY <2>2, <2>3, <2>4
<1>5. ASSUME goal' # None, NEW i \in Items
      PROVE  IF i[1] = "settings" THEN goal'[i] # None => Val(i) = goal'[i]
             ELSE IF i[1] = "port_names" /\ goal'[SwitchOf(i)] = None THEN Val(i) = None
             ELSE Val(i) = goal'[i]
  <2>1. calm /\ origin # None /\ goal' = origin
    BY <1>1, <1>5
  <2> QED BY <1>4, <2>1 DEF Travels
<1>6. RestoredAsExported'
  BY <1>2, <1>5 DEF RestoredAsExported
<1> QED BY <1>3, <1>6 DEF BackupInv

LEMMA BackupNext == TypeOK /\ BackupInv /\ [Next]_vars => BackupInv'
<1> SUFFICES ASSUME TypeOK, BackupInv, [Next]_vars PROVE BackupInv'
  OBVIOUS
<1>1. CASE KeyStep
  BY <1>1, KeyStepKeeps, BackupStutter
<1>2. CASE WriteStep
  BY <1>2, WriteShape, BackupWrite DEF TypeOK, RowsOK, Written
<1>3. CASE JobFails \/ Down
  BY <1>3, BackupNoJob DEF JobFails, Down, NoJob, dbVars, history
<1>4. CASE UNCHANGED vars
  BY <1>4, BackupStutter DEF vars, dbVars, history
<1> QED BY <1>1, <1>2, <1>3, <1>4, ExportKeeps, EndExportKeeps, BeginKeeps, RestoreKeeps,
           EndRestoreKeeps, NextSteps

(* Whoever writes, fails or restarts in between: what an undisturbed       *)
(* export and an undisturbed restore of its file leave behind is what was  *)
(* exported (Export, Restore).                                             *)
THEOREM BackupTravels == Spec => []RestoredAsExported
<1>1. BackupInv => RestoredAsExported
  BY DEF BackupInv
<1> QED BY <1>1, TypeInit, TypeNext, BackupInit, BackupNext, PTL DEF Spec

(* The order of the tables, and that a file names ports only of switches   *)
(* it holds, torn or not, keep the schema from refusing what an            *)
(* undisturbed restore inserts (Restore, Export, migrate).                 *)
THEOREM RestoreIsAccepted == Spec => []NeverRefused
<1>1. TypeOK /\ BackupInv => NeverRefused
  <2> SUFFICES ASSUME TypeOK, BackupInv, job.kind = "restore", calm, job.wipe = {},
                      NEW i \in job.left, Turn(i[1])
               PROVE  Accepts(i)
    BY DEF NeverRefused
  <2>1. i \in Items /\ job.content[i] # None /\ Complete(job.content) /\ Progress
    BY DEF BackupInv, FileInv, RestoreInv, TypeOK, Jobs
  <2>2. rows[i] # None => i[1] = "settings"
    BY <2>1, ItemFacts DEF Progress
  <2>3. ASSUME i[1] = "port_names" PROVE rows[SwitchOf(i)] # None
    <3>1. /\ i \in Of("port_names") /\ SwitchOf(i) \in Items
          /\ SwitchOf(i)[1] = "switches" /\ job.content[SwitchOf(i)] # None
      BY <2>1, <2>3, SwitchFacts DEF Complete
    <3>2. SwitchOf(i) \notin job.left
      BY <2>3, <3>1, OrderFacts DEF Turn
    <3> QED BY <2>1, <3>1, <3>2, ValFacts DEF Progress
  <2> QED BY <2>2, <2>3 DEF Accepts
<1> QED BY <1>1, TypeInit, TypeNext, BackupInit, BackupNext, PTL DEF Spec
=============================================================================
