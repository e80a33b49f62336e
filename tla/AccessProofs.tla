---------------------------- MODULE AccessProofs ----------------------------
(***************************************************************************)
(* Proofs about Access, for any number of requests, users, passwords and   *)
(* secrets: types; cookies stay valid while the secret was not forked;     *)
(* user name and hash are of one request while they are not torn.          *)
(***************************************************************************)
EXTENDS Access, TLAPS

-----------------------------------------------------------------------------
(* Types.                                                                  *)

LEMMA NoBodyType == NoBody \in Bodies
BY DEF NoBody, Bodies

LEMMA IdleType == Idle \in Reqs
<1>1. 0 \in Secrets
  BY SecretsAssumption DEF Secrets
<1> QED BY <1>1, NoBodyType DEF Idle, Reqs, Stages

LEMMA GoType ==
    ASSUME NEW q \in Reqs, NEW stage \in Stages
    PROVE  [q EXCEPT !.at = stage] \in Reqs
BY DEF Reqs

SettingsOK == /\ enabled \in BOOLEAN
              /\ user \in Users \union {None}
              /\ hash \in Passwords \union {None}
KeysOK == /\ secret \in Secrets
          /\ made \in Secrets
          /\ cookies \subseteq Secrets
          /\ forked \in BOOLEAN
HistoryOK == /\ puts \in 0 .. MaxPuts
             /\ pairs \subseteq (Users \union {None}) \X Passwords
             /\ whole \subseteq Requests
             /\ torn \in BOOLEAN
ReqOK == req \in [Requests -> Reqs]

LEMMA TypeParts == TypeOK <=> SettingsOK /\ KeysOK /\ HistoryOK /\ ReqOK
BY DEF TypeOK, SettingsOK, KeysOK, HistoryOK, ReqOK

(* The requests that write settings.                                       *)
Writers == {"put", "restore", "tool"}

(* The steps of one request.                                               *)
Step(r) ==
    \/ Use(r) \/ Login(r)
    \/ UpdateSettings(r) \/ RestoreBackup(r) \/ RunResetPassword(r)
    \/ ReadEnabled(r) \/ ReadUser(r) \/ ReadSecret(r) \/ ReadNoSecret(r)
    \/ SaveSecret(r) \/ MatchApiToken(r)
    \/ PutEnabled(r) \/ PutEnabledFails(r)
    \/ SkipUser(r) \/ PutUser(r) \/ PutUserFails(r) \/ PutHash(r) \/ PutHashFails(r)
    \/ LoginUser(r) \/ LoginHash(r) \/ ToolKilled(r)

LEMMA GoesOn ==
    ASSUME ReqOK, NEW r \in Requests, NEW stage \in Stages, Go(r, stage)
    PROVE  ReqOK'
BY GoType DEF Go, ReqOK

LEMMA Ends ==
    ASSUME ReqOK, NEW r \in Requests, Done(r)
    PROVE  ReqOK'
BY IdleType DEF Done, ReqOK

LEMMA LetIn ==
    ASSUME ReqOK, NEW r \in Requests, Admitted(r)
    PROVE  ReqOK'
BY GoesOn, Ends DEF Admitted, Stages

LEMMA Begins ==
    ASSUME ReqOK, KeysOK, NEW r \in Requests,
           Use(r) \/ Login(r)
           \/ UpdateSettings(r) \/ RestoreBackup(r) \/ RunResetPassword(r)
    PROVE  ReqOK'
<1>1. ASSUME NEW stage \in Stages, NEW kind \in {"use", "put", "restore", "login", "tool"},
             NEW c \in Secrets \union {None}, NEW b \in Bodies
      PROVE  [Idle EXCEPT !.at = stage, !.kind = kind, !.cookie = c, !.body = b] \in Reqs
  BY IdleType DEF Reqs
<1>2. ASSUME NEW q \in Reqs, req' = [req EXCEPT ![r] = q] PROVE ReqOK'
  BY <1>2 DEF ReqOK
<1>3. 0 \in Secrets
  BY SecretsAssumption DEF Secrets
<1>4. CASE Use(r)
  <2>1. PICK c \in cookies \union {0, None}, stage \in {"enabled", "secret"} :
            req' = [req EXCEPT ![r] = [Idle EXCEPT !.at = stage, !.cookie = c]]
    BY <1>4 DEF Use
  <2>2. [Idle EXCEPT !.at = stage, !.cookie = c] \in Reqs
    BY <2>1, <1>3, IdleType DEF Reqs, Stages, KeysOK
  <2> QED BY <2>1, <2>2, <1>2
<1>5. CASE Login(r)
  <2>1. PICK u \in Users, p \in Passwords :
            req' = [req EXCEPT ![r] = [Idle EXCEPT !.at = "login-user", !.kind = "login",
                                                   !.body.name = u, !.body.pw = p]]
    BY <1>5 DEF Login
  <2>2. [NoBody EXCEPT !.name = u, !.pw = p] \in Bodies
    BY NoneAssumption DEF NoBody, Bodies
  <2>3. [Idle EXCEPT !.at = "login-user", !.kind = "login",
                     !.body.name = u, !.body.pw = p] \in Reqs
    BY <2>2, <1>3 DEF Idle, Reqs, Stages, NoBody
  <2> QED BY <2>1, <2>3, <1>2
<1>6. ASSUME NEW kind \in Writers, NEW stage \in Stages,
             NEW b \in Bodies, NEW c \in cookies \union {None}, Write(r, kind, stage, b, c)
      PROVE  ReqOK'
  BY <1>1, <1>2, <1>6 DEF Write, KeysOK, Writers
<1>7. CASE UpdateSettings(r)
  BY <1>6, <1>7 DEF UpdateSettings, Stages, Writers
<1>8. CASE RunResetPassword(r)
  BY <1>6, <1>8 DEF RunResetPassword, Stages, Writers
<1>9. CASE RestoreBackup(r)
  BY <1>6, <1>9 DEF RestoreBackup, Stages, Writers
<1> QED BY <1>4, <1>5, <1>7, <1>8, <1>9

LEMMA StepKeepsReq ==
    ASSUME ReqOK, KeysOK, SettingsOK, NEW r \in Requests, Step(r)
    PROVE  ReqOK'
<1>1. CASE ReadEnabled(r) \/ ReadUser(r)
  BY <1>1, LetIn, GoesOn DEF ReadEnabled, ReadUser, Stages
<1>2. CASE ReadSecret(r) \/ SaveSecret(r) \/ MatchApiToken(r)
  BY <1>2, LetIn, GoesOn, Ends DEF ReadSecret, SaveSecret, MatchApiToken, Stages
<1>3. CASE ReadNoSecret(r)
  <2>1. made + 1 \in Secrets
    BY <1>3, SecretsAssumption DEF ReadNoSecret, KeysOK, Secrets
  <2>2. [[req[r] EXCEPT !.at = "save"] EXCEPT !.raw = made + 1] \in Reqs
    BY <2>1 DEF ReqOK, Reqs, Stages
  <2>3. req' = [req EXCEPT ![r] = [[req[r] EXCEPT !.at = "save"] EXCEPT !.raw = made + 1]]
    BY <1>3 DEF ReadNoSecret, ReqOK
  <2> QED BY <2>2, <2>3 DEF ReqOK
<1>4. CASE PutEnabled(r) \/ PutEnabledFails(r) \/ SkipUser(r) \/ PutUser(r)
        \/ PutUserFails(r) \/ PutHash(r) \/ PutHashFails(r)
  BY <1>4, GoesOn, Ends
     DEF PutEnabled, PutEnabledFails, AfterEnabled, SkipUser, PutUser, PutUserFails, PutHash, PutHashFails, Stages
<1>5. CASE LoginUser(r)
  <2>1. PICK s \in {user, None} :
            req' = [req EXCEPT ![r] = [[req[r] EXCEPT !.at = "login-hash"] EXCEPT !.seen = s]]
    BY <1>5 DEF LoginUser, ReqOK
  <2>2. [[req[r] EXCEPT !.at = "login-hash"] EXCEPT !.seen = s] \in Reqs
    BY DEF ReqOK, SettingsOK, Reqs, Stages
  <2> QED BY <2>1, <2>2 DEF ReqOK
<1>6. CASE LoginHash(r) \/ ToolKilled(r)
  BY <1>6, GoesOn, Ends DEF LoginHash, ToolKilled, Stages
<1> QED BY <1>1, <1>2, <1>3, <1>4, <1>5, <1>6, Begins DEF Step

LEMMA StepKeepsKeys ==
    ASSUME ReqOK, KeysOK, NEW r \in Requests, Step(r)
    PROVE  KeysOK'
<1>1. req[r] \in Reqs
  BY DEF ReqOK
<1>2. CASE ReadSecret(r)
  BY <1>2 DEF ReadSecret, KeysOK
<1>3. CASE ReadNoSecret(r)
  <2>1. made + 1 \in Secrets
    BY <1>3, SecretsAssumption DEF ReadNoSecret, KeysOK, Secrets
  <2> QED BY <1>3, <2>1 DEF ReadNoSecret, KeysOK
<1>4. CASE SaveSecret(r)
  BY <1>1, <1>4 DEF SaveSecret, KeysOK, Reqs
<1>5. CASE UNCHANGED keys
  BY <1>5 DEF keys, KeysOK
<1> QED
  BY <1>2, <1>3, <1>4, <1>5 DEF Step, Use, Login, UpdateSettings, RestoreBackup, RunResetPassword, Write,
     ReadEnabled, ReadUser, MatchApiToken, PutEnabled, PutEnabledFails, SkipUser,
     PutUser, PutUserFails, PutHash,
     PutHashFails, LoginUser, LoginHash, ToolKilled

LEMMA StepKeepsSettings ==
    ASSUME ReqOK, SettingsOK, NEW r \in Requests, Step(r)
    PROVE  SettingsOK'
<1>1. req[r].body \in Bodies
  BY DEF ReqOK, Reqs
<1>2. req[r].body.name \in Users \union {None} /\ req[r].body.pw \in Passwords \union {None}
  BY <1>1 DEF Bodies
<1>3. CASE PutEnabled(r)
  BY <1>3 DEF PutEnabled, SettingsOK
<1>4. CASE PutUser(r) \/ PutHash(r)
  BY <1>2, <1>4 DEF PutUser, PutHash, SettingsOK
<1>5. CASE UNCHANGED settings
  BY <1>5 DEF settings, SettingsOK
<1> QED
  BY <1>3, <1>4, <1>5 DEF Step, Use, Login, UpdateSettings, RestoreBackup, RunResetPassword, Write,
     ReadEnabled, ReadUser, ReadSecret, ReadNoSecret, SaveSecret, MatchApiToken,
     PutEnabledFails, SkipUser, PutUserFails, PutHashFails, LoginUser, LoginHash, ToolKilled

LEMMA StepKeepsHistory ==
    ASSUME HistoryOK, NEW r \in Requests, Step(r)
    PROVE  HistoryOK'
<1>1. ASSUME NEW kind, NEW stage, NEW b \in Bodies, NEW c, Write(r, kind, stage, b, c)
      PROVE  HistoryOK'
  <2>1. pairs' \subseteq (Users \union {None}) \X Passwords
    BY <1>1 DEF Write, Asks, Bodies, HistoryOK
  <2>2. puts' \in 0 .. MaxPuts
    BY <1>1, PutsAssumption DEF Write, HistoryOK
  <2> QED BY <1>1, <2>1, <2>2 DEF Write, HistoryOK
<1>2. CASE UpdateSettings(r) \/ RestoreBackup(r) \/ RunResetPassword(r)
  BY <1>1, <1>2 DEF UpdateSettings, RestoreBackup, RunResetPassword
<1>3. CASE PutUser(r) \/ PutHash(r) \/ PutHashFails(r) \/ ToolKilled(r)
  BY <1>3 DEF PutUser, PutHash, PutHashFails, ToolKilled, HistoryOK
<1>4. CASE UNCHANGED <<puts, history>>
  BY <1>4 DEF history, HistoryOK
<1> QED
  BY <1>2, <1>3, <1>4 DEF Step, Use, Login, ReadEnabled, ReadUser, ReadSecret, ReadNoSecret,
     SaveSecret, MatchApiToken, PutEnabled, PutEnabledFails, SkipUser, PutUserFails,
     LoginUser, LoginHash

LEMMA RestartKeepsTypes ==
    ASSUME TypeOK, Restart PROVE TypeOK'
<1>1. ReqOK'
  BY IdleType, TypeParts DEF Restart, ReqOK
<1>2. SettingsOK' /\ KeysOK' /\ HistoryOK'
  BY TypeParts DEF Restart, settings, keys, SettingsOK, KeysOK, HistoryOK
<1> QED BY <1>1, <1>2 DEF TypeOK, SettingsOK, KeysOK, HistoryOK, ReqOK

LEMMA TypeInit == Init => TypeOK
<1>1. 0 \in Secrets /\ 0 \in 0 .. MaxPuts
  BY SecretsAssumption, PutsAssumption DEF Secrets
<1> QED BY <1>1, IdleType DEF Init, TypeOK

LEMMA TypeNext == ASSUME TypeOK, [Next]_vars PROVE TypeOK'
<1> USE TypeParts
<1>1. ASSUME NEW r \in Requests, Step(r) PROVE TypeOK'
  BY <1>1, StepKeepsReq, StepKeepsKeys, StepKeepsSettings, StepKeepsHistory
     DEF TypeOK, SettingsOK, KeysOK, HistoryOK, ReqOK
<1>2. CASE UNCHANGED vars
  BY <1>2 DEF TypeOK, vars, settings, keys, history
<1> QED BY <1>1, <1>2, RestartKeepsTypes DEF Next, Step

(* Every variable of the access control keeps its type: whatever is stored *)
(* as user name, hash and secret came from the request that stores it.     *)
THEOREM TypeCorrect == Spec => []TypeOK
BY TypeInit, TypeNext, PTL DEF Spec

-----------------------------------------------------------------------------
(* User name and hash.                                                     *)

Writing == {"put-enabled", "put-user", "put-hash"}

(* Only requests that may write reach the writes, and those that carry a   *)
(* pair have asked for it.                                                 *)
WriterInv ==
    \A r \in Requests :
        /\ req[r].at \in Writing => req[r].kind \in Writers
        /\ req[r].at \in {"put-user", "put-hash"} => req[r].body.pw # None
        /\ req[r].kind \in Writers /\ req[r].body.pw # None
               => <<req[r].body.name, req[r].body.pw>> \in pairs

(* The name of a whole request is stored and its hash comes next.          *)
WholeInv == \A r \in whole : req[r].at = "put-hash" /\ user = req[r].body.name

LEMMA Moved ==
    ASSUME TypeOK, WriterInv, WholeInv, NEW r \in Requests, NEW stage \in Stages,
           Go(r, stage), r \notin whole, UNCHANGED <<user, pairs, whole>>,
           stage \in Writing => req[r].kind \in Writers,
           stage \in {"put-user", "put-hash"} => req[r].body.pw # None
    PROVE  WriterInv' /\ WholeInv'
BY DEF TypeOK, Go, WriterInv, WholeInv, Reqs

LEMMA Left ==
    ASSUME TypeOK, WriterInv, WholeInv, NEW r \in Requests, Done(r),
           UNCHANGED <<user, pairs>>, whole' \subseteq whole \ {r}
    PROVE  WriterInv' /\ WholeInv'
BY DEF TypeOK, Done, Idle, WriterInv, WholeInv, Reqs, Writing, Writers

LEMMA MovedIn ==
    ASSUME TypeOK, WriterInv, WholeInv, NEW r \in Requests, Admitted(r), r \notin whole,
           UNCHANGED <<user, pairs, whole>>
    PROVE  WriterInv' /\ WholeInv'
<1>1. CASE req[r].kind \in {"put", "restore"}
  BY <1>1, Moved DEF Admitted, Stages, Writing, Writers
<1>2. CASE req[r].kind \notin {"put", "restore"}
  BY <1>2, Left DEF Admitted
<1> QED BY <1>1, <1>2

LEMMA Asked ==
    ASSUME TypeOK, WriterInv, WholeInv, NEW r \in Requests,
           UpdateSettings(r) \/ RestoreBackup(r) \/ RunResetPassword(r)
    PROVE  WriterInv' /\ WholeInv' /\ UNCHANGED <<user, hash, torn>> /\ pairs \subseteq pairs'
<1>1. PICK kind \in Writers, stage \in {"enabled", "put-user"},
           b \in Bodies, c \in cookies \union {None} :
          /\ Write(r, kind, stage, b, c)
          /\ stage = "put-user" => b.pw # None
  BY DEF UpdateSettings, RestoreBackup, RunResetPassword, Writers
<1>2. req' = [req EXCEPT ![r] = [Idle EXCEPT !.at = stage, !.kind = kind,
                                             !.cookie = c, !.body = b]]
  BY <1>1 DEF Write
<1> DEFINE q == [Idle EXCEPT !.at = stage, !.kind = kind, !.cookie = c, !.body = b]
<1>3. q.at = stage /\ q.kind = kind /\ q.body = b
  BY DEF Idle
<1> HIDE DEF q
<1>4. req'[r] = q /\ \A x \in Requests \ {r} : req'[x] = req[x]
  BY <1>2 DEF TypeOK, q
<1>5. pairs \subseteq pairs' /\ (b.pw # None => <<b.name, b.pw>> \in pairs')
  BY <1>1 DEF Write, Asks
<1>6. r \notin whole /\ UNCHANGED <<user, hash, whole, torn>>
  BY <1>1 DEF Write, WholeInv, settings
<1>7. WriterInv'
  BY <1>1, <1>3, <1>4, <1>5 DEF WriterInv, Writing
<1>8. WholeInv'
  BY <1>4, <1>6 DEF WholeInv, TypeOK
<1> QED BY <1>5, <1>6, <1>7, <1>8

LEMMA PairStep ==
    ASSUME TypeOK, WriterInv, WholeInv, PairsBelongTogether, NEW r \in Requests, Step(r)
    PROVE  WriterInv' /\ WholeInv' /\ PairsBelongTogether'
<1> USE DEF PairsBelongTogether
<1>1. CASE Use(r) \/ Login(r)
  <2>1. req'[r].kind \notin Writers /\ req'[r].at \notin Writing
    <3>1. CASE Use(r)
      BY <3>1 DEF Use, TypeOK, Idle, Writing, Writers
    <3>2. CASE Login(r)
      BY <3>2 DEF Login, TypeOK, Idle, Writing, Writers
    <3> QED BY <1>1, <3>1, <3>2
  <2>2. \A x \in Requests \ {r} : req'[x] = req[x]
    BY <1>1 DEF Use, Login, TypeOK
  <2>3. r \notin whole /\ UNCHANGED <<user, hash, history>>
    BY <1>1 DEF Use, Login, WholeInv, settings
  <2>4. WriterInv'
    BY <2>1, <2>2, <2>3 DEF WriterInv, Writing, history
  <2>5. WholeInv'
    BY <2>2, <2>3 DEF WholeInv, history, TypeOK
  <2> QED BY <2>3, <2>4, <2>5 DEF history
<1>2. CASE UpdateSettings(r) \/ RestoreBackup(r) \/ RunResetPassword(r)
  BY <1>2, Asked
<1>3. CASE ReadEnabled(r) \/ ReadUser(r) \/ MatchApiToken(r)
  <2>1. r \notin whole /\ UNCHANGED <<user, hash, pairs, whole, torn>>
    BY <1>3 DEF ReadEnabled, ReadUser, MatchApiToken, WholeInv, settings, history
  <2>2. Admitted(r) \/ Done(r) \/ \E stage \in {"user", "token", "secret"} : Go(r, stage)
    BY <1>3 DEF ReadEnabled, ReadUser, MatchApiToken
  <2>3. whole' \subseteq whole \ {r}
    BY <2>1
  <2> QED BY <2>1, <2>2, <2>3, MovedIn, Moved, Left DEF Stages, Writing
<1>4. CASE ReadSecret(r) \/ SaveSecret(r)
  <2>1. r \notin whole /\ UNCHANGED <<user, hash, pairs, whole, torn>>
    BY <1>4 DEF ReadSecret, SaveSecret, WholeInv, settings, history
  <2>2. Admitted(r) \/ Done(r) \/ Go(r, "token")
    BY <1>4 DEF ReadSecret, SaveSecret
  <2>3. whole' \subseteq whole \ {r}
    BY <2>1
  <2> QED BY <2>1, <2>2, <2>3, MovedIn, Moved, Left DEF Stages, Writing
<1>5. CASE ReadNoSecret(r)
  <2>1. r \notin whole /\ UNCHANGED <<user, hash, pairs, whole, torn>>
    BY <1>5 DEF ReadNoSecret, WholeInv, settings, history
  <2>2. /\ req'[r].at = "save" /\ req'[r].kind = req[r].kind /\ req'[r].body = req[r].body
        /\ \A x \in Requests \ {r} : req'[x] = req[x]
    BY <1>5 DEF ReadNoSecret, TypeOK, Reqs
  <2>3. WriterInv'
    BY <2>1, <2>2 DEF WriterInv, Writing
  <2>4. WholeInv'
    BY <2>1, <2>2 DEF WholeInv, TypeOK
  <2> QED BY <2>1, <2>3, <2>4
<1>6. CASE PutEnabled(r) \/ PutEnabledFails(r)
  <2>1. r \notin whole /\ UNCHANGED <<user, hash, pairs, whole, torn>>
    BY <1>6 DEF PutEnabled, PutEnabledFails, WholeInv, settings, history
  <2>2. req[r].kind \in Writers
    BY <1>6 DEF PutEnabled, PutEnabledFails, WriterInv, Writing
  <2>3. Done(r) \/ (req[r].body.pw # None /\ Go(r, "put-user"))
    BY <1>6 DEF PutEnabled, PutEnabledFails, AfterEnabled
  <2>4. whole' \subseteq whole \ {r}
    BY <2>1
  <2> QED BY <2>1, <2>2, <2>3, <2>4, Moved, Left DEF Stages, Writing
<1>7. CASE PutUser(r)
  <2>1. req[r].kind \in Writers /\ req[r].body.pw # None
    BY <1>7 DEF PutUser, WriterInv, Writing
  <2>2. /\ req'[r] = [req[r] EXCEPT !.at = "put-hash"]
        /\ \A x \in Requests \ {r} : req'[x] = req[x]
    BY <1>7 DEF PutUser, Go, TypeOK
  <2>3. req'[r].at = "put-hash" /\ req'[r].kind = req[r].kind /\ req'[r].body = req[r].body
    BY <2>2 DEF TypeOK, Reqs
  <2>4. whole' \subseteq {r} /\ user' = req[r].body.name /\ torn' /\ pairs' = pairs
    BY <1>7 DEF PutUser
  <2>5. WriterInv'
    BY <2>1, <2>2, <2>3, <2>4 DEF WriterInv
  <2>6. WholeInv'
    BY <2>3, <2>4 DEF WholeInv
  <2> QED BY <2>4, <2>5, <2>6
<1>8. CASE PutUserFails(r) \/ SkipUser(r)
  <2>1. r \notin whole /\ UNCHANGED <<user, hash, pairs, whole, torn>>
    BY <1>8 DEF PutUserFails, SkipUser, WholeInv, settings, history
  <2>2. req[r].kind \in Writers /\ req[r].body.pw # None
    BY <1>8 DEF PutUserFails, SkipUser, WriterInv, Writing
  <2>3. Done(r) \/ Go(r, "put-hash")
    BY <1>8 DEF PutUserFails, SkipUser
  <2>4. whole' \subseteq whole \ {r}
    BY <2>1
  <2> QED BY <2>1, <2>2, <2>3, <2>4, Moved, Left DEF Stages
<1>9. CASE PutHash(r)
  <2>1. <<req[r].body.name, req[r].body.pw>> \in pairs
    BY <1>9 DEF PutHash, WriterInv, Writing
  <2>2. r \in whole => user = req[r].body.name
    BY DEF WholeInv
  <2>3. Done(r) /\ UNCHANGED <<user, pairs>> /\ whole' = {} /\ hash' = req[r].body.pw
        /\ torn' = (r \notin whole)
    BY <1>9 DEF PutHash
  <2>4. whole' \subseteq whole \ {r}
    BY <2>3
  <2> QED BY <2>1, <2>2, <2>3, <2>4, Left
<1>10. CASE PutHashFails(r) \/ ToolKilled(r)
  BY <1>10, Left DEF PutHashFails, ToolKilled, settings
<1>11. CASE LoginUser(r)
  <2>1. r \notin whole /\ UNCHANGED <<user, hash, pairs, whole, torn>>
    BY <1>11 DEF LoginUser, WholeInv, settings, history
  <2>2. /\ req'[r].at = "login-hash" /\ req'[r].kind = req[r].kind /\ req'[r].body = req[r].body
        /\ \A x \in Requests \ {r} : req'[x] = req[x]
    BY <1>11 DEF LoginUser, TypeOK, Reqs
  <2>3. WriterInv'
    BY <2>1, <2>2 DEF WriterInv, Writing
  <2>4. WholeInv'
    BY <2>1, <2>2 DEF WholeInv, TypeOK
  <2> QED BY <2>1, <2>3, <2>4
<1>12. CASE LoginHash(r)
  <2>1. r \notin whole /\ UNCHANGED <<user, hash, pairs, whole, torn>>
    BY <1>12 DEF LoginHash, WholeInv, settings, history
  <2>2. whole' \subseteq whole \ {r}
    BY <2>1
  <2> QED BY <1>12, <2>1, <2>2, Moved, Left DEF LoginHash, Stages, Writing
<1> QED
  BY <1>1, <1>2, <1>3, <1>4, <1>5, <1>6, <1>7, <1>8, <1>9, <1>10, <1>11, <1>12 DEF Step

LEMMA PairNext ==
    ASSUME TypeOK, WriterInv, WholeInv, PairsBelongTogether, [Next]_vars
    PROVE  WriterInv' /\ WholeInv' /\ PairsBelongTogether'
<1>1. ASSUME NEW r \in Requests, Step(r) PROVE WriterInv' /\ WholeInv' /\ PairsBelongTogether'
  BY <1>1, PairStep
<1>2. CASE Restart
  <2>1. WriterInv'
    BY <1>2 DEF Restart, WriterInv, Idle, Writing, Writers
  <2>2. WholeInv'
    BY <1>2 DEF Restart, WholeInv, TypeOK, settings
  <2> QED BY <1>2, <2>1, <2>2 DEF Restart, settings, PairsBelongTogether
<1>3. CASE UNCHANGED vars
  BY <1>3 DEF vars, settings, history, WriterInv, WholeInv, PairsBelongTogether
<1> QED BY <1>1, <1>2, <1>3 DEF Next, Step

(* While user name and hash are not torn, they are of one request, for any *)
(* number of requests that write them a statement at a time.               *)
THEOREM PairsAreOfOneRequest == Spec => []PairsBelongTogether
<1>1. Init => TypeOK /\ WriterInv /\ WholeInv /\ PairsBelongTogether
  BY TypeInit DEF Init, WriterInv, WholeInv, PairsBelongTogether, Idle, Writing, Writers
<1>2. TypeOK /\ WriterInv /\ WholeInv /\ PairsBelongTogether /\ [Next]_vars
      => (TypeOK /\ WriterInv /\ WholeInv /\ PairsBelongTogether)'
  BY TypeNext, PairNext
<1> QED BY <1>1, <1>2, PTL DEF Spec

-----------------------------------------------------------------------------
(* The session secret.                                                     *)

(* What requests carry was given out, or is no good; secrets are not 0.    *)
CookieInv ==
    /\ 0 \notin cookies
    /\ \A r \in Requests : /\ req[r].cookie \in cookies \union {0, None}
                           /\ req[r].at = "save" => req[r].raw # 0

(* One request at most is making the secret, and there is none yet.        *)
SaveInv ==
    ~forked => \A r \in Requests : req[r].at = "save" =>
                   secret = 0 /\ \A q \in Requests : req[q].at = "save" => q = r

SecretInv == CookieInv /\ SaveInv /\ SessionsStayValid

(* A step of r that leaves the secret and the cookies alone.               *)
LEMMA Quiet ==
    ASSUME TypeOK, SecretInv, NEW r \in Requests, UNCHANGED keys,
           \A x \in Requests \ {r} : req'[x] = req[x],
           req'[r].at # "save",
           req'[r].cookie \in cookies \union {0, None},
           ~forked /\ req'[r].at = "token" => req'[r].cookie \notin cookies
    PROVE  SecretInv'
<1>1. CookieInv'
  BY DEF SecretInv, CookieInv, keys
<1>2. SaveInv'
  BY DEF SecretInv, SaveInv, keys
<1>3. SessionsStayValid'
  BY DEF SecretInv, SessionsStayValid, keys
<1> QED BY <1>1, <1>2, <1>3 DEF SecretInv

LEMMA QuietGo ==
    ASSUME TypeOK, SecretInv, NEW r \in Requests, UNCHANGED keys, NEW stage, Go(r, stage),
           stage # "save",
           ~forked /\ stage = "token" => req[r].cookie \notin cookies
    PROVE  SecretInv'
<1>1. req'[r].at = stage /\ req'[r].cookie = req[r].cookie
  BY DEF Go, TypeOK, Reqs
<1>2. \A x \in Requests \ {r} : req'[x] = req[x]
  BY DEF Go, TypeOK
<1>3. req[r].cookie \in cookies \union {0, None}
  BY DEF SecretInv, CookieInv
<1> QED BY <1>1, <1>2, <1>3, Quiet

LEMMA QuietDone ==
    ASSUME TypeOK, SecretInv, NEW r \in Requests, UNCHANGED keys, Done(r)
    PROVE  SecretInv'
<1>1. req'[r].at = "idle" /\ req'[r].cookie = None
  BY DEF Done, TypeOK, Idle
<1>2. \A x \in Requests \ {r} : req'[x] = req[x]
  BY DEF Done, TypeOK
<1> QED BY <1>1, <1>2, Quiet

LEMMA QuietIn ==
    ASSUME TypeOK, SecretInv, NEW r \in Requests, UNCHANGED keys, Admitted(r)
    PROVE  SecretInv'
BY QuietGo, QuietDone DEF Admitted

LEMMA NewSecret ==
    ASSUME TypeOK, SecretInv, NEW r \in Requests, ReadNoSecret(r)
    PROVE  SecretInv'
<1>1. /\ req'[r].at = "save" /\ req'[r].cookie = req[r].cookie /\ req'[r].raw = made + 1
      /\ \A x \in Requests \ {r} : req'[x] = req[x]
  BY DEF ReadNoSecret, TypeOK, Reqs
<1>2. made + 1 # 0
  BY SecretsAssumption DEF TypeOK, Secrets
<1>3. UNCHANGED <<secret, cookies>>
  BY DEF ReadNoSecret
<1>4. ~forked' => ~forked /\ secret = 0 /\ \A q \in Requests : req[q].at # "save"
  BY DEF ReadNoSecret, TypeOK
<1>5. CookieInv'
  BY <1>1, <1>2, <1>3 DEF SecretInv, CookieInv
<1>6. SaveInv'
  BY <1>1, <1>3, <1>4 DEF SaveInv
<1>7. SessionsStayValid'
  BY <1>1, <1>3, <1>4 DEF SecretInv, SessionsStayValid
<1> QED BY <1>5, <1>6, <1>7 DEF SecretInv

LEMMA SecretRead ==
    ASSUME TypeOK, SecretInv, NEW r \in Requests, ReadSecret(r)
    PROVE  SecretInv'
<1>1. CASE req[r].kind # "login"
  <2>1. UNCHANGED keys
    BY <1>1 DEF ReadSecret, keys
  <2>2. CASE req[r].cookie = secret
    BY <1>1, <2>1, <2>2, QuietIn DEF ReadSecret
  <2>3. CASE req[r].cookie # secret
    <3>1. Go(r, "token")
      BY <1>1, <2>3 DEF ReadSecret
    <3>2. ~forked => req[r].cookie \notin cookies
      BY <2>3 DEF SecretInv, SessionsStayValid
    <3> QED BY <2>1, <3>1, <3>2, QuietGo
  <2> QED BY <2>2, <2>3
<1>2. CASE req[r].kind = "login"
  <2>1. /\ Done(r) /\ cookies' = cookies \union {secret} /\ secret # 0
        /\ UNCHANGED <<secret, made, forked>>
    BY <1>2 DEF ReadSecret
  <2>2. req'[r].at = "idle" /\ req'[r].cookie = None
    BY <2>1 DEF Done, TypeOK, Idle
  <2>3. \A x \in Requests \ {r} : req'[x] = req[x]
    BY <2>1 DEF Done, TypeOK
  <2>4. secret # None
    BY NoneAssumption DEF TypeOK
  <2>5. CookieInv'
    BY <2>1, <2>2, <2>3 DEF SecretInv, CookieInv
  <2>6. SaveInv'
    BY <2>1, <2>2, <2>3 DEF SecretInv, SaveInv
  <2>7. ASSUME ~forked, NEW x \in Requests, req'[x].at = "token"
        PROVE  req'[x].cookie \notin cookies'
    <3>1. x # r /\ req[x].at = "token" /\ req'[x] = req[x]
      BY <2>2, <2>3, <2>7
    <3>2. req[x].cookie \in {0, None}
      BY <2>7, <3>1 DEF SecretInv, CookieInv, SessionsStayValid
    <3>3. req[x].cookie \notin cookies
      BY <2>7, <3>1 DEF SecretInv, SessionsStayValid
    <3> QED BY <2>1, <2>4, <3>1, <3>2, <3>3
  <2>8. SessionsStayValid'
    BY <2>1, <2>7 DEF SecretInv, SessionsStayValid
  <2> QED BY <2>5, <2>6, <2>8 DEF SecretInv
<1> QED BY <1>1, <1>2

LEMMA SecretSaved ==
    ASSUME TypeOK, SecretInv, NEW r \in Requests, SaveSecret(r)
    PROVE  SecretInv'
<1> DEFINE raw == req[r].raw
<1>1. /\ req[r].at = "save" /\ raw # 0 /\ raw # None
      /\ forked' \/ (secret' = raw /\ forked' = forked)
      /\ cookies' \in {cookies, cookies \union {raw}}
  BY NoneAssumption DEF SaveSecret, SecretInv, CookieInv, TypeOK, Reqs
<1>2. \A x \in Requests \ {r} : req'[x] = req[x]
  BY DEF SaveSecret, Go, Done, TypeOK
<1>3. \/ req'[r].at = "idle" /\ req'[r].cookie = None
      \/ req'[r].at = "token" /\ req'[r].cookie = req[r].cookie
  BY DEF SaveSecret, Go, Done, TypeOK, Reqs, Idle
<1> HIDE DEF raw
<1>4. CookieInv'
  BY <1>1, <1>2, <1>3 DEF SecretInv, CookieInv
<1>5. ~forked' => ~forked /\ secret = 0 /\ secret' = raw /\ cookies = {}
                 /\ \A x \in Requests \ {r} : req[x].at # "save"
  BY <1>1 DEF TypeOK, SecretInv, CookieInv, SaveInv, SessionsStayValid
<1>6. SaveInv'
  BY <1>2, <1>3, <1>5 DEF SaveInv
<1>7. ASSUME ~forked', NEW x \in Requests, req'[x].at = "token"
      PROVE  req'[x].cookie \notin cookies'
  <2>1. req'[x].cookie \in {0, None}
    BY <1>2, <1>3, <1>5, <1>7 DEF SecretInv, CookieInv
  <2> QED BY <1>1, <1>5, <1>7, <2>1
<1>8. SessionsStayValid'
  BY <1>1, <1>5, <1>7 DEF SessionsStayValid
<1> QED BY <1>4, <1>6, <1>8 DEF SecretInv

LEMMA SecretStep ==
    ASSUME TypeOK, SecretInv, NEW r \in Requests, Step(r)
    PROVE  SecretInv'
<1>1. CASE Use(r) \/ Login(r)
        \/ UpdateSettings(r) \/ RestoreBackup(r) \/ RunResetPassword(r)
  <2>1. \A x \in Requests \ {r} : req'[x] = req[x]
    BY <1>1 DEF Use, Login, UpdateSettings, RestoreBackup, RunResetPassword, Write, TypeOK
  <2>2. UNCHANGED keys
    BY <1>1 DEF Use, Login, UpdateSettings, RestoreBackup, RunResetPassword, Write
  <2>3. req'[r].at \notin {"save", "token"}
    <3>1. CASE Use(r)
      BY <3>1 DEF Use, TypeOK, Idle
    <3>2. CASE Login(r)
      BY <3>2 DEF Login, TypeOK, Idle
    <3>3. CASE UpdateSettings(r) \/ RestoreBackup(r) \/ RunResetPassword(r)
      BY <3>3 DEF UpdateSettings, RestoreBackup, RunResetPassword, Write, TypeOK, Idle
    <3> QED BY <1>1, <3>1, <3>2, <3>3
  <2>4. req'[r].cookie \in cookies \union {0, None}
    <3>1. CASE Use(r)
      BY <3>1 DEF Use, TypeOK, Idle
    <3>2. CASE Login(r)
      BY <3>2 DEF Login, TypeOK, Idle
    <3>3. ASSUME NEW kind, NEW stage, NEW x, NEW c \in cookies \union {None},
                 Write(r, kind, stage, x, c)
          PROVE  req'[r].cookie \in cookies \union {0, None}
      BY <3>3 DEF Write, TypeOK, Idle
    <3>4. CASE UpdateSettings(r)
      BY <3>3, <3>4 DEF UpdateSettings
    <3>5. CASE RestoreBackup(r)
      BY <3>3, <3>5 DEF RestoreBackup
    <3>6. CASE RunResetPassword(r)
      BY <3>3, <3>6 DEF RunResetPassword
    <3> QED BY <1>1, <3>1, <3>2, <3>4, <3>5, <3>6
  <2> QED BY <2>1, <2>2, <2>3, <2>4, Quiet
<1>2. CASE ReadEnabled(r)
  BY <1>2, QuietGo, QuietIn DEF ReadEnabled
<1>3. CASE ReadUser(r)
  <2>1. None \notin cookies
    BY NoneAssumption DEF TypeOK
  <2>2. UNCHANGED keys
    BY <1>3 DEF ReadUser
  <2>3. \/ req[r].cookie = None /\ Go(r, "token")
        \/ Go(r, "secret")
        \/ Admitted(r)
    BY <1>3 DEF ReadUser
  <2> QED BY <2>1, <2>2, <2>3, QuietGo, QuietIn
<1>4. CASE MatchApiToken(r)
  BY <1>4, QuietIn, QuietDone DEF MatchApiToken
<1>5. CASE PutEnabled(r) \/ PutEnabledFails(r) \/ SkipUser(r) \/ PutUser(r)
        \/ PutUserFails(r) \/ PutHash(r) \/ PutHashFails(r)
  BY <1>5, QuietGo, QuietDone
     DEF PutEnabled, PutEnabledFails, AfterEnabled, SkipUser, PutUser, PutUserFails, PutHash, PutHashFails
<1>6. CASE LoginUser(r)
  <2>1. /\ req'[r].at = "login-hash" /\ req'[r].cookie = req[r].cookie
        /\ \A x \in Requests \ {r} : req'[x] = req[x]
    BY <1>6 DEF LoginUser, TypeOK, Reqs
  <2>2. req[r].cookie \in cookies \union {0, None} /\ UNCHANGED keys
    BY <1>6 DEF LoginUser, SecretInv, CookieInv
  <2> QED BY <2>1, <2>2, Quiet
<1>7. CASE LoginHash(r) \/ ToolKilled(r)
  BY <1>7, QuietGo, QuietDone DEF LoginHash, ToolKilled
<1> QED BY <1>1, <1>2, <1>3, <1>4, <1>5, <1>6, <1>7, NewSecret, SecretRead, SecretSaved DEF Step

LEMMA SecretNext ==
    ASSUME TypeOK, SecretInv, [Next]_vars PROVE SecretInv'
<1>1. CASE Restart
  <2>1. UNCHANGED keys
    BY <1>1 DEF Restart
  <2>2. \A r \in Requests : req'[r] = req[r]
                           \/ (req'[r].at = "idle" /\ req'[r].cookie = None)
    BY <1>1 DEF Restart, Idle
  <2>3. CookieInv'
    BY <2>1, <2>2 DEF SecretInv, CookieInv, keys
  <2>4. SaveInv'
    BY <2>1, <2>2 DEF SecretInv, SaveInv, keys
  <2>5. SessionsStayValid'
    BY <2>1, <2>2 DEF SecretInv, SessionsStayValid, keys
  <2> QED BY <2>3, <2>4, <2>5 DEF SecretInv
<1>2. CASE UNCHANGED vars
  BY <1>2 DEF vars, keys, SecretInv, CookieInv, SaveInv, SessionsStayValid
<1> QED BY <1>1, <1>2, SecretStep DEF Next, Step

LEMMA SecretInvariant == Spec => [](TypeOK /\ SecretInv)
<1>1. Init => SecretInv
  BY DEF Init, SecretInv, CookieInv, SaveInv, SessionsStayValid, Idle
<1>2. TypeOK /\ SecretInv /\ [Next]_vars => (TypeOK /\ SecretInv)'
  BY TypeNext, SecretNext
<1> QED BY <1>1, <1>2, TypeInit, PTL DEF Spec

(* A cookie stays valid for as long as the secret has not been forked, for *)
(* any number of requests, restarts and logins.                            *)
THEOREM CookiesStayValid == Spec => []SessionsStayValid
<1>1. SecretInv => SessionsStayValid
  BY DEF SecretInv
<1> QED BY <1>1, SecretInvariant, PTL

(* The session secret is made once and for all: what sessionSecret has     *)
(* stored is replaced only after a statement on it failed or two first     *)
(* uses overlapped, and no login, password or restart resets it.           *)
SecretMadeOnce == [][secret = 0 \/ forked']_secret

THEOREM SecretIsMadeOnce == Spec => SecretMadeOnce
<1>1. ASSUME TypeOK, SecretInv, [Next]_vars, secret' # secret, ~forked'
      PROVE  secret = 0
  <2>1. PICK r \in Requests : Step(r)
    BY <1>1 DEF Next, Step, vars, keys, Restart
  <2>2. SaveSecret(r)
    BY <1>1, <2>1
       DEF Step, Use, Login, UpdateSettings, RestoreBackup, RunResetPassword, Write, ReadEnabled,
           ReadUser, ReadSecret, ReadNoSecret, MatchApiToken, PutEnabled,
           PutEnabledFails, SkipUser, PutUser,
           PutUserFails, PutHash, PutHashFails, LoginUser, LoginHash, ToolKilled, keys
  <2> QED BY <1>1, <2>2 DEF SaveSecret, SecretInv, SaveInv, TypeOK
<1>2. TypeOK /\ SecretInv /\ [Next]_vars => [secret = 0 \/ forked']_secret
  BY <1>1
<1> QED BY <1>2, SecretInvariant, PTL DEF Spec, SecretMadeOnce
=============================================================================
