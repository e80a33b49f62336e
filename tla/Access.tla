------------------------------- MODULE Access -------------------------------
(***************************************************************************)
(* Who is let in: the login settings and the session secret in SQLite, and *)
(* the requests that read and write them a statement at a time.            *)
(*                                                                         *)
(* A request passes AuthAPI or AuthUI before its handler; PUT /settings    *)
(* and POST /restore are the handlers that matter here.  The secret that   *)
(* signs session cookies is made by the first request that needs it.  No   *)
(* statement's error is looked at: a read that fails yields "", a write    *)
(* that fails is forgotten - but a restore stops at it.                    *)
(* --reset-password writes user name and hash from a process of its own.   *)
(*                                                                         *)
(* A hash is the password it was made from, a cookie the secret it was     *)
(* signed with.  API tokens match or they do not.                          *)
(***************************************************************************)
EXTENDS Naturals

CONSTANTS Requests,     \* requests at a time (and the tool)
          Users,        \* user names
          Passwords,    \* passwords of at least 8 characters
          None,         \* "", or not given, or a shorter password
          MaxSecrets,   \* bound: session secrets made
          MaxPuts       \* bound: requests that write settings

Secrets == 0 .. MaxSecrets

ASSUME NoneAssumption == None \notin Users \union Passwords \union Secrets
ASSUME SecretsAssumption == MaxSecrets \in Nat
ASSUME PutsAssumption == MaxPuts \in Nat

(* The body of PUT /settings, or what a backup file holds of the settings; *)
(* a login has name and password.                                          *)
Bodies == {b \in [on : {"true", "false", "keep"}, name : Users \union {None},
                  pw : Passwords \union {None}] : b.pw = None => b.name = None}
NoBody == [on |-> "keep", name |-> None, pw |-> None]

Stages == {"idle", "enabled", "user", "secret", "save", "token", "put-enabled",
           "put-user", "put-hash", "login-user", "login-hash"}

VARIABLES
    enabled,  \* durable: auth_enabled is "true"
    user,     \* durable: auth_username
    hash,     \* durable: auth_password_hash
    secret,   \* durable: session_secret, 0 if there is none
    made,     \* secrets made so far (bound)
    puts,     \* requests that write, so far (bound)
    cookies,  \* signed and not expired, by the secret
    req,      \* [Requests -> how far each is]
    pairs,    \* history: (user name, password) that somebody has asked for
    whole,    \* history: the request whose user name is stored, and no
              \* other request was between its two writes
    torn,     \* history: user name and hash may be of different requests
    forked    \* history: a statement on the secret failed, or two requests
              \* were making one at the same time

settings == <<enabled, user, hash>>
keys == <<secret, made, cookies, forked>>
history == <<pairs, whole, torn>>
vars == <<settings, keys, puts, req, history>>

(* cookie: what the request carries; 0 is one that is expired, or signed   *)
(* by another database.  raw: the secret it has just made.                 *)
Reqs == [at : Stages, kind : {"use", "put", "restore", "login", "tool"},
         cookie : Secrets \union {None}, body : Bodies,
         seen : Users \union {None}, raw : Secrets]
Idle == [at |-> "idle", kind |-> "use", cookie |-> None, body |-> NoBody,
         seen |-> None, raw |-> 0]

TypeOK ==
    /\ enabled \in BOOLEAN
    /\ user \in Users \union {None}
    /\ hash \in Passwords \union {None}
    /\ secret \in Secrets
    /\ made \in Secrets
    /\ puts \in 0 .. MaxPuts
    /\ cookies \subseteq Secrets
    /\ req \in [Requests -> Reqs]
    /\ pairs \subseteq (Users \union {None}) \X Passwords
    /\ whole \subseteq Requests
    /\ torn \in BOOLEAN
    /\ forked \in BOOLEAN

Init ==
    /\ enabled = FALSE /\ user = None /\ hash = None
    /\ secret = 0 /\ made = 0 /\ puts = 0
    /\ cookies = {}
    /\ req = [r \in Requests |-> Idle]
    /\ pairs = {} /\ whole = {} /\ torn = FALSE /\ forked = FALSE

-----------------------------------------------------------------------------
Go(r, stage) == req' = [req EXCEPT ![r].at = stage]
Done(r) == req' = [req EXCEPT ![r] = Idle]

(* A request of the API or the UI; GET .../auth/session, which nobody has  *)
(* to be let in for, starts at the secret.                                 *)
Use(r) ==
    /\ req[r].at = "idle"
    /\ \E c \in cookies \union {0, None}, stage \in {"enabled", "secret"} :
           /\ c = None => stage = "enabled"
           /\ req' = [req EXCEPT ![r] = [Idle EXCEPT !.at = stage, !.cookie = c]]
    /\ UNCHANGED <<settings, keys, puts, history>>

Login(r) ==
    /\ req[r].at = "idle"
    /\ \E u \in Users, p \in Passwords :
           req' = [req EXCEPT ![r] = [Idle EXCEPT !.at = "login-user", !.kind = "login",
                                                  !.body.name = u, !.body.pw = p]]
    /\ UNCHANGED <<settings, keys, puts, history>>

(* Asks for the pair, if there is one that will be accepted.               *)
Asks(b) == pairs' = IF b.pw # None THEN pairs \union {<<b.name, b.pw>>} ELSE pairs

Write(r, kind, stage, b, c) ==
    /\ req[r].at = "idle"
    /\ puts < MaxPuts
    /\ puts' = puts + 1
    /\ req' = [req EXCEPT ![r] = [Idle EXCEPT !.at = stage, !.kind = kind,
                                              !.cookie = c, !.body = b]]
    /\ Asks(b)
    /\ UNCHANGED <<settings, keys, whole, torn>>

UpdateSettings(r) ==
    \E b \in Bodies, c \in cookies \union {None} : Write(r, "put", "enabled", b, c)
RestoreBackup(r) ==
    \E b \in Bodies, c \in cookies \union {None} : Write(r, "restore", "enabled", b, c)
RunResetPassword(r) ==
    \E b \in Bodies : /\ b.pw # None /\ b.name # None
                      /\ Write(r, "tool", "put-user", b, None)

-----------------------------------------------------------------------------
(* AuthAPI, AuthUI.                                                        *)

Admitted(r) == IF req[r].kind \in {"put", "restore"} THEN Go(r, "put-enabled") ELSE Done(r)

(* authRequired, two statements; a read may fail.                          *)
ReadEnabled(r) ==
    /\ req[r].at = "enabled"
    /\ (enabled /\ Go(r, "user")) \/ Admitted(r)
    /\ UNCHANGED <<settings, keys, puts, history>>

ReadUser(r) ==
    /\ req[r].at = "user"
    /\ \/ user # None /\ Go(r, IF req[r].cookie = None THEN "token" ELSE "secret")
       \/ Admitted(r)
    /\ UNCHANGED <<settings, keys, puts, history>>

(* sessionSecret: the stored one, for a cookie to be checked or signed.    *)
ReadSecret(r) ==
    /\ req[r].at = "secret"
    /\ secret # 0
    /\ IF req[r].kind = "login"
       THEN Done(r) /\ cookies' = cookies \union {secret}
       ELSE /\ IF req[r].cookie = secret THEN Admitted(r) ELSE Go(r, "token")
            /\ UNCHANGED cookies
    /\ UNCHANGED <<settings, secret, made, forked, puts, history>>

(* There is none yet, or the read fails: another is made.                  *)
ReadNoSecret(r) ==
    /\ req[r].at = "secret"
    /\ made < MaxSecrets
    /\ forked' = (forked \/ secret # 0 \/ \E q \in Requests : req[q].at = "save")
    /\ made' = made + 1
    /\ req' = [req EXCEPT ![r].at = "save", ![r].raw = made + 1]
    /\ UNCHANGED <<settings, secret, cookies, puts, history>>

(* It is used whether it could be saved or not.                            *)
SaveSecretSlip(r) ==
    /\ req[r].at = "save"
    /\ UNCHANGED <<secret, forked>>
    /\ IF req[r].kind = "login"
       THEN Done(r) /\ cookies' = cookies \union {req[r].raw}
       ELSE Go(r, "token") /\ UNCHANGED cookies
    /\ UNCHANGED <<settings, made, puts, history>>
SaveSecret(r) ==
    /\ req[r].at = "save"
    /\ \/ secret' = req[r].raw /\ UNCHANGED forked
       \/ UNCHANGED secret /\ forked' = TRUE
    /\ IF req[r].kind = "login"
       THEN Done(r) /\ cookies' = cookies \union {req[r].raw}
       ELSE Go(r, "token") /\ UNCHANGED cookies
    /\ UNCHANGED <<settings, made, puts, history>>

(* validateRequest's second chance; without a token that matches: 401.     *)
MatchApiToken(r) ==
    /\ req[r].at = "token"
    /\ Admitted(r) \/ Done(r)
    /\ UNCHANGED <<settings, keys, puts, history>>

-----------------------------------------------------------------------------
(* UpdateSettings, and the settings part of Restore.                       *)

(* auth_enabled is written before the password is looked at.               *)
AfterEnabled(r) == IF req[r].body.pw # None THEN Go(r, "put-user") ELSE Done(r)
PutEnabled(r) ==
    /\ req[r].at = "put-enabled"
    /\ enabled' = IF req[r].body.on = "keep" THEN enabled ELSE req[r].body.on = "true"
    /\ AfterEnabled(r)
    /\ UNCHANGED <<user, hash, keys, puts, history>>

(* A restore returns the error, also that of a statement before this one.  *)
PutEnabledFails(r) ==
    /\ req[r].at = "put-enabled"
    /\ IF req[r].kind = "restore" THEN Done(r) ELSE AfterEnabled(r)
    /\ UNCHANGED <<settings, keys, puts, history>>

(* An export leaves out a user name that is "", and Restore then writes    *)
(* the hash alone.                                                         *)
OnlyHash(r) == req[r].kind = "restore" /\ req[r].body.name = None
SkipUser(r) ==
    /\ req[r].at = "put-user"
    /\ OnlyHash(r)
    /\ Go(r, "put-hash")
    /\ UNCHANGED <<settings, keys, puts, history>>

PutUserSlip(r) ==
    /\ req[r].at = "put-user"
    /\ ~OnlyHash(r)
    /\ user' = req[r].body.pw
    /\ whole' = IF \E q \in Requests \ {r} : req[q].at = "put-hash" THEN {} ELSE {r}
    /\ torn' = TRUE
    /\ Go(r, "put-hash")
    /\ UNCHANGED <<enabled, hash, keys, puts, pairs>>
PutUser(r) ==
    /\ req[r].at = "put-user"
    /\ ~OnlyHash(r)
    /\ user' = req[r].body.name
    /\ whole' = IF \E q \in Requests \ {r} : req[q].at = "put-hash" THEN {} ELSE {r}
    /\ torn' = TRUE
    /\ Go(r, "put-hash")
    /\ UNCHANGED <<enabled, hash, keys, puts, pairs>>

PutUserFails(r) ==
    /\ req[r].at = "put-user"
    /\ ~OnlyHash(r)
    /\ IF req[r].kind = "restore" THEN Done(r) ELSE Go(r, "put-hash")
    /\ UNCHANGED <<settings, keys, puts, history>>

PutHashSlip(r) ==
    /\ req[r].at = "put-hash"
    /\ hash' = IF hash = None THEN req[r].body.pw ELSE hash
    /\ torn' = (r \notin whole)
    /\ whole' = {}
    /\ Done(r)
    /\ UNCHANGED <<enabled, user, keys, puts, pairs>>
PutHash(r) ==
    /\ req[r].at = "put-hash"
    /\ hash' = req[r].body.pw
    /\ torn' = (r \notin whole)
    /\ whole' = {}
    /\ Done(r)
    /\ UNCHANGED <<enabled, user, keys, puts, pairs>>

PutHashFails(r) ==
    /\ req[r].at = "put-hash"
    /\ whole' = whole \ {r}
    /\ Done(r)
    /\ UNCHANGED <<settings, keys, puts, pairs, torn>>

-----------------------------------------------------------------------------
(* Login, two statements.                                                  *)

LoginUser(r) ==
    /\ req[r].at = "login-user"
    /\ \E s \in {user, None} :
           req' = [req EXCEPT ![r].at = "login-hash", ![r].seen = s]
    /\ UNCHANGED <<settings, keys, puts, history>>

LoginHash(r) ==
    /\ req[r].at = "login-hash"
    /\ \/ req[r].body.name = req[r].seen /\ req[r].body.pw = hash /\ Go(r, "secret")
       \/ Done(r)                       \* 401: also if the read fails
    /\ UNCHANGED <<settings, keys, puts, history>>

(* The server is killed, or the tool.                                      *)
Restart == /\ req' = [r \in Requests |-> IF req[r].kind = "tool" THEN req[r] ELSE Idle]
           /\ whole' = {r \in whole : req[r].kind = "tool"}
           /\ UNCHANGED <<settings, keys, puts, pairs, torn>>
ToolKilled(r) == /\ req[r].kind = "tool"
                 /\ Done(r)
                 /\ whole' = whole \ {r}
                 /\ UNCHANGED <<settings, keys, puts, pairs, torn>>

Next ==
    \/ \E r \in Requests :
           \/ Use(r) \/ Login(r)
           \/ UpdateSettings(r) \/ RestoreBackup(r) \/ RunResetPassword(r)
           \/ ReadEnabled(r) \/ ReadUser(r) \/ ReadSecret(r) \/ ReadNoSecret(r)
           \/ SaveSecret(r) \/ MatchApiToken(r)
           \/ PutEnabled(r) \/ PutEnabledFails(r)
           \/ SkipUser(r) \/ PutUser(r) \/ PutUserFails(r) \/ PutHash(r) \/ PutHashFails(r)
           \/ LoginUser(r) \/ LoginHash(r) \/ ToolKilled(r)
    \/ Restart

Spec == Init /\ [][Next]_vars

-----------------------------------------------------------------------------
(* Properties.                                                             *)

(* A cookie that was given out and is not expired is signed with the       *)
(* stored secret, and no request that carries one is turned away, across   *)
(* restarts and changes of the password - unless a statement on the secret *)
(* has failed or two first uses overlapped (sessionSecret).                *)
SessionsStayValid ==
    ~forked => /\ cookies \subseteq {secret}
               /\ \A r \in Requests :
                     req[r].at = "token" => req[r].cookie \notin cookies

(* User name and hash are of one request, or both not set: with them one   *)
(* can log in, and a login that is required can be passed - unless a       *)
(* request is between its two writes, was killed there, had one fail,      *)
(* wrote next to another one, or restored a hash without a user name.  A   *)
(* request that writes both alone puts it right again (UpdateSettings,     *)
(* Restore, runResetPassword).                                             *)
PairsBelongTogether ==
    ~torn => <<user, hash>> \in pairs \union {<<None, None>>}
=============================================================================
