------------------------------ MODULE Accounts ------------------------------
(***************************************************************************)
(* One account and everything that can prove it is its owner calling: the  *)
(* password, refresh tokens, password reset tokens, two-factor secret and  *)
(* an API key.  src/services/auth.ts and twoFactor.ts over the models      *)
(* user.ts, passwordReset.ts and apiKey.ts, with the refresh-token         *)
(* blacklist in Redis.                                                     *)
(*                                                                         *)
(* A request is one call of the service; each database or Redis call it    *)
(* awaits is a step of its own, so requests interleave between them.       *)
(* Passwords and API key hashes are numbered in the order they are stored; *)
(* 0 stands for none.                                                      *)
(***************************************************************************)
EXTENDS Naturals, FiniteSets

CONSTANTS
  Request,
  Proc,            \* API processes
  ProcOf,          \* the process that serves each request
  Profile,         \* sets of operations that clients call together
  TokenLife,       \* lifetime of a refresh token, in ticks
  BlacklistLife,   \* lifetime of a blacklist key, in ticks
  MaxStored,       \* bound on passwords and key hashes ever stored
  MaxResets        \* bound on password resets requested

ASSUME ProcOfAssumption == ProcOf \in [Request -> Proc]
ASSUME TokenLifeAssumption == TokenLife \in Nat \ {0}
\* 7 days for both: auth.ts:219 and the default of JWT_REFRESH_EXPIRES_IN.
ASSUME BlacklistLifeAssumption == BlacklistLife \in Nat /\ TokenLife <= BlacklistLife
ASSUME BoundsAssumption == MaxStored \in Nat \ {0} /\ MaxResets \in Nat

VARIABLES
  calls,      \* the operations clients call
  row,        \* the row of table users, pw = 0 while there is none
  resets,     \* rows of table password_resets
  key,        \* the row of table api_keys
  tokens,     \* unexpired refresh tokens; out: a logout came after them
  black,      \* remaining life of the account's blacklist key, 0 for none
  client,     \* whether a process has a Redis client
  req         \* the requests

vars == <<calls, row, resets, key, tokens, black, client, req>>
store == <<row, resets, key, tokens, black, client>>

Op == {"register", "login", "refresh", "logout", "change", "forgot", "reset",
       "setup", "enable", "disable", "create", "use", "rotate", "revoke"}
Over == {"idle", "done", "failed", "refused"}
Location == Over \cup {"read", "check", "write", "insert", "issue", "mark"}
Call == [op: Op \cup {"none"}, pc: Location, with: Nat, dead: BOOLEAN]
Stored == 0..MaxStored
\* Two secrets tell a stored secret from its replacement; 0 is NULL.
Secret == 1..2
NoRow == [pw |-> 0, secret |-> 0, tfa |-> FALSE]

TypeOK ==
  /\ calls \in Profile
  /\ row \in [pw: Stored, secret: Secret \cup {0}, tfa: BOOLEAN]
  /\ resets \in [1..MaxResets -> {"none", "fresh", "live", "expired", "used"}]
  /\ key \in [hash: Stored, active: BOOLEAN]
  /\ tokens \subseteq [left: 1..TokenLife, out: BOOLEAN]
  /\ black \in 0..BlacklistLife
  /\ client \in [Proc -> BOOLEAN]
  /\ req \in [Request -> Call]

Init ==
  /\ calls \in Profile
  /\ row = NoRow
  /\ resets = [t \in 1..MaxResets |-> "none"]
  /\ key = [hash |-> 0, active |-> FALSE]
  /\ tokens = {}
  /\ black = 0
  /\ client \in [Proc -> BOOLEAN]
  /\ req = [r \in Request |-> [op |-> "none", pc |-> "idle", with |-> 0, dead |-> FALSE]]

-----------------------------------------------------------------------------
\* How requests start, move and end.

\* dead is a history variable: what the request presented had already lost
\* its effect when the request began.
Begin(r, op, pc, with, dead) ==
  /\ op \in calls
  /\ req[r].pc \in Over
  /\ req' = [req EXCEPT ![r] = [op |-> op, pc |-> pc, with |-> with, dead |-> dead]]
  /\ UNCHANGED <<calls, store>>

At(r, op, pc) == req[r].op = op /\ req[r].pc = pc
To(r, pc) == req' = [req EXCEPT ![r].pc = pc, ![r].with = IF pc \in {"done", "failed"} THEN 0 ELSE @]
ToIf(r, cond, pc, otherwise) == To(r, IF cond THEN pc ELSE otherwise)

\* userModel.findById or findByEmail: the request goes on if the row it read
\* satisfies cond, whatever happens to the row afterwards.
Read(r, cond, pc) ==
  /\ ToIf(r, cond, pc, "failed")
  /\ UNCHANGED <<calls, store>>

\* A database or Redis call throws, the request ends with an error.
Throw(r) ==
  /\ req[r].pc \notin Over
  /\ To(r, "failed")
  /\ UNCHANGED <<calls, store>>

-----------------------------------------------------------------------------
\* The queries of the models.

HasAccount == row.pw # 0
\* INSERT INTO users: the email is UNIQUE.
InsertUser ==
  /\ ~HasAccount
  /\ row' = [row EXCEPT !.pw = 1]
UpdatePassword ==
  /\ row.pw < MaxStored
  /\ row' = [row EXCEPT !.pw = @ + 1]
UpdateSecret(s) == row' = [row EXCEPT !.secret = s]
EnableTwoFactor == row' = [row EXCEPT !.tfa = TRUE]
DisableTwoFactor == row' = [row EXCEPT !.secret = 0, !.tfa = FALSE]

\* findByToken; hasRecentRequest; invalidateAllUserTokens; INSERT; markAsUsed
Usable(t) == resets[t] \in {"fresh", "live"}
HasRecent == \E t \in DOMAIN resets : resets[t] = "fresh"
InvalidateAll ==
  resets' = [t \in DOMAIN resets |-> IF resets[t] = "none" THEN "none" ELSE "used"]
InsertReset ==
  \E t \in DOMAIN resets :
    /\ resets[t] = "none"
    /\ resets' = [resets EXCEPT ![t] = "fresh"]
MarkAsUsed(t) == resets' = [resets EXCEPT ![t] = "used"]

\* apiKeyModel.create, validate, rotateKey and delete
InsertKey == key.hash = 0 /\ key' = [hash |-> 1, active |-> TRUE]
Validates(h) == key.active /\ key.hash = h
\* Mutant of NewHash: a rotation makes the key active.
NewHashActive ==
  /\ key.hash < MaxStored
  /\ key' = [hash |-> key.hash + 1, active |-> TRUE]

NewHash ==
  /\ key.hash < MaxStored
  /\ key' = [key EXCEPT !.hash = @ + 1]
Deactivate == key' = [key EXCEPT !.active = FALSE]

-----------------------------------------------------------------------------
\* Registration and sessions.

NewToken == tokens' = tokens \cup {[left |-> TokenLife, out |-> FALSE]}

Register(r) ==
  \/ Begin(r, "register", "read", 0, FALSE)
  \/ At(r, "register", "read") /\ Read(r, ~HasAccount, "insert")
  \/ /\ At(r, "register", "insert")
     /\ InsertUser
     /\ NewToken
     /\ To(r, "done")
     /\ UNCHANGED <<calls, resets, key, black, client>>

\* With two-factor authentication enabled the call succeeds with no tokens.
Login(r) ==
  \/ \E pw \in 1..row.pw : Begin(r, "login", "read", pw, pw # row.pw)
  \/ At(r, "login", "read") /\ Read(r, row.pw = req[r].with /\ ~row.tfa, "issue")
  \/ /\ At(r, "login", "issue")
     /\ To(r, "done")
     /\ NewToken
     /\ UNCHANGED <<calls, row, resets, key, black, client>>

\* After jwt.verify only the token's account matters; with = 1 is a history
\* variable here: no logout came after the token.
Refresh(r) ==
  \/ \E t \in tokens :
       Begin(r, "refresh", "check", IF t.out THEN 0 ELSE 1, t.out /\ client[ProcOf[r]])
  \/ /\ At(r, "refresh", "check")
     /\ ToIf(r, client[ProcOf[r]] /\ black > 0, "refused", "issue")
     /\ UNCHANGED <<calls, store>>
  \/ /\ At(r, "refresh", "issue")
     /\ IF HasAccount THEN To(r, "done") /\ NewToken ELSE To(r, "failed") /\ UNCHANGED tokens
     /\ UNCHANGED <<calls, row, resets, key, black, client>>

\* Mutant of Blacklist: the key expires before the tokens it revokes.
BlacklistShort(r) ==
  /\ black' = BlacklistLife - 1
  /\ tokens' = {[t EXCEPT !.out = TRUE] : t \in tokens}
  /\ req' = [req EXCEPT ![r].pc = "done"]

\* The blacklist key is the account's, not the token's.
Blacklist(r) ==
  /\ black' = BlacklistLife
  /\ tokens' = {[t EXCEPT !.out = TRUE] : t \in tokens}
  /\ req' = [q \in Request |->
              IF q = r THEN [req[q] EXCEPT !.pc = "done"]
              ELSE IF At(q, "refresh", "check") THEN [req[q] EXCEPT !.with = 0] ELSE req[q]]

Logout(r) ==
  \/ HasAccount /\ Begin(r, "logout", "read", 0, FALSE)
  \/ At(r, "logout", "read") /\ Read(r, HasAccount, "write")
  \/ /\ At(r, "logout", "write")
     /\ IF client[ProcOf[r]] THEN Blacklist(r) ELSE To(r, "done") /\ UNCHANGED <<black, tokens>>
     /\ UNCHANGED <<calls, row, resets, key, client>>

-----------------------------------------------------------------------------
\* Passwords.

ChangePassword(r) ==
  \/ \E pw \in 1..row.pw : Begin(r, "change", "read", pw, pw # row.pw)
  \/ At(r, "change", "read") /\ Read(r, row.pw = req[r].with, "write")
  \/ /\ At(r, "change", "write")
     /\ UpdatePassword
     /\ To(r, "done")
     /\ UNCHANGED <<calls, resets, key, tokens, black, client>>

RequestReset(r) ==
  \/ HasAccount /\ Begin(r, "forgot", "read", 0, FALSE)
  \/ /\ At(r, "forgot", "read")
     /\ ToIf(r, HasRecent, "done", "check")
     /\ UNCHANGED <<calls, store>>
  \/ /\ At(r, "forgot", "check")
     /\ InvalidateAll
     /\ To(r, "insert")
     /\ UNCHANGED <<calls, row, key, tokens, black, client>>
  \/ /\ At(r, "forgot", "insert")
     /\ InsertReset
     /\ To(r, "done")
     /\ UNCHANGED <<calls, row, key, tokens, black, client>>

\* Mutant of ResetPassword: used_at IS NULL is not asked for.
ResetPasswordUsedToken(r) ==
  \/ \E t \in DOMAIN resets : resets[t] # "none" /\ Begin(r, "reset", "read", t, ~Usable(t))
  \/ /\ At(r, "reset", "read")
     /\ ToIf(r, resets[req[r].with] # "expired", "write", "failed")
     /\ UNCHANGED <<calls, store>>
  \/ /\ At(r, "reset", "write")
     /\ UpdatePassword
     /\ To(r, "mark")
     /\ UNCHANGED <<calls, resets, key, tokens, black, client>>
  \/ /\ At(r, "reset", "mark")
     /\ MarkAsUsed(req[r].with)
     /\ To(r, "done")
     /\ UNCHANGED <<calls, row, key, tokens, black, client>>

ResetPassword(r) ==
  \/ \E t \in DOMAIN resets : resets[t] # "none" /\ Begin(r, "reset", "read", t, ~Usable(t))
  \/ /\ At(r, "reset", "read")
     /\ ToIf(r, Usable(req[r].with), "write", "failed")
     /\ UNCHANGED <<calls, store>>
  \/ /\ At(r, "reset", "write")
     /\ UpdatePassword
     /\ To(r, "mark")
     /\ UNCHANGED <<calls, resets, key, tokens, black, client>>
  \/ /\ At(r, "reset", "mark")
     /\ MarkAsUsed(req[r].with)
     /\ To(r, "done")
     /\ UNCHANGED <<calls, row, key, tokens, black, client>>

\* A reset token grows older: past five minutes, past its hour.
Age(t) ==
  /\ \/ resets[t] = "fresh" /\ resets' = [resets EXCEPT ![t] = "live"]
     \/ resets[t] = "live" /\ resets' = [resets EXCEPT ![t] = "expired"]
  /\ UNCHANGED <<calls, row, key, tokens, black, client, req>>

-----------------------------------------------------------------------------
\* Two-factor authentication.  The codes of a TOTP secret stand for it.

Setup(r) ==
  \/ HasAccount /\ Begin(r, "setup", "read", 0, FALSE)
  \/ At(r, "setup", "read") /\ Read(r, HasAccount, "write")
  \/ /\ At(r, "setup", "write")
     /\ \E s \in Secret \ {row.secret} : UpdateSecret(s)
     /\ To(r, "done")
     /\ UNCHANGED <<calls, resets, key, tokens, black, client>>

Enable(r) ==
  \/ \E s \in Secret : Begin(r, "enable", "read", s, FALSE)
  \/ At(r, "enable", "read") /\ Read(r, row.secret # 0 /\ row.secret = req[r].with, "write")
  \/ /\ At(r, "enable", "write")
     /\ EnableTwoFactor
     /\ To(r, "done")
     /\ UNCHANGED <<calls, resets, key, tokens, black, client>>

Disable(r) ==
  \/ \E pw \in 1..row.pw : Begin(r, "disable", "read", pw, pw # row.pw)
  \/ At(r, "disable", "read") /\ Read(r, row.pw = req[r].with, "write")
  \/ /\ At(r, "disable", "write")
     /\ DisableTwoFactor
     /\ To(r, "done")
     /\ UNCHANGED <<calls, resets, key, tokens, black, client>>

-----------------------------------------------------------------------------
\* The API key.

CreateKey(r) ==
  \/ HasAccount /\ Begin(r, "create", "insert", 0, FALSE)
  \/ /\ At(r, "create", "insert")
     /\ InsertKey
     /\ To(r, "done")
     /\ UNCHANGED <<calls, row, resets, tokens, black, client>>

UseKey(r) ==
  \/ \E h \in 1..key.hash : Begin(r, "use", "read", h, ~Validates(h))
  \/ /\ At(r, "use", "read")
     /\ ToIf(r, Validates(req[r].with), "done", "failed")
     /\ UNCHANGED <<calls, store>>

\* findByUserId and findById find revoked keys too: such a key gets a new
\* hash and stays revoked.
RotateKey(r) ==
  \/ key.hash # 0 /\ Begin(r, "rotate", "read", 0, FALSE)
  \/ At(r, "rotate", "read") /\ To(r, "write") /\ UNCHANGED <<calls, store>>
  \/ /\ At(r, "rotate", "write")
     /\ NewHash
     /\ To(r, "done")
     /\ UNCHANGED <<calls, row, resets, tokens, black, client>>

RevokeKey(r) ==
  \/ key.hash # 0 /\ Begin(r, "revoke", "read", 0, FALSE)
  \/ At(r, "revoke", "read") /\ To(r, "write") /\ UNCHANGED <<calls, store>>
  \/ /\ At(r, "revoke", "write")
     /\ Deactivate
     /\ To(r, "done")
     /\ UNCHANGED <<calls, row, resets, tokens, black, client>>

-----------------------------------------------------------------------------
\* A day passes for tokens and the blacklist key.  No request lasts that
\* long: none is between verifying its token and reading the blacklist.
Tick ==
  /\ \A r \in Request : ~At(r, "refresh", "check")
  /\ tokens' = {[t EXCEPT !.left = @ - 1] : t \in {u \in tokens : u.left > 1}}
  /\ black' = IF black = 0 THEN 0 ELSE black - 1
  /\ tokens # {} \/ black > 0
  /\ UNCHANGED <<calls, row, resets, key, client, req>>

\* A process restarts: its requests are lost, initializeRedis tries once.
Restart(p) ==
  /\ \E up \in BOOLEAN : client' = [client EXCEPT ![p] = up]
  /\ req' = [r \in Request |-> IF ProcOf[r] = p THEN [req[r] EXCEPT !.pc = "idle", !.with = 0] ELSE req[r]]
  /\ UNCHANGED <<calls, row, resets, key, tokens, black>>

Step(r) ==
  \/ Register(r) \/ Login(r) \/ Refresh(r) \/ Logout(r)
  \/ ChangePassword(r) \/ RequestReset(r) \/ ResetPassword(r)
  \/ Setup(r) \/ Enable(r) \/ Disable(r)
  \/ CreateKey(r) \/ UseKey(r) \/ RotateKey(r) \/ RevokeKey(r)

Next ==
  \/ \E r \in Request : Step(r) \/ Throw(r)
  \/ \E t \in DOMAIN resets : Age(t)
  \/ Tick
  \/ \E p \in Proc : Restart(p)

Spec == Init /\ [][Next]_vars

-----------------------------------------------------------------------------
\* After a logout that reached Redis, no refresh with a token issued before
\* it succeeds on a process that has a Redis client, whatever other logins,
\* refreshes, restarts and days passed in between (auth.ts:173-183, 211-221).
LogoutHolds == \A r \in Request : At(r, "refresh", "done") => ~req[r].dead

\* A request has had its effect.
Effective(r) == req[r].pc = "done" \/ At(r, "reset", "mark")

\* A superseded password, a used, invalidated or expired reset
\* token, a rotated or revoked key: once it lost its effect, no request that
\* begins with it afterwards succeeds (auth.ts:112, 229, 302, apiKey.ts:178).
DeadCredentialsFail == \A r \in Request : Effective(r) => ~req[r].dead

\* A revoked key never validates again, not even after a rotation that
\* overlapped the revocation; and a reset token is never usable again
\* once it was not (apiKey.ts:277, 311, passwordReset.ts:103).
DeadStaysDead ==
  [][ /\ key.hash # 0 /\ ~key.active => ~key'.active
      /\ \A t \in DOMAIN resets : resets[t] \in {"used", "expired"} => resets'[t] \in {"used", "expired"} ]_vars

\* Expected to fail: a refresh is refused as revoked only if a logout came
\* after its token; auth.ts:213 "Find and blacklist active refresh tokens for
\* this user".
NewSessionRefreshes == \A r \in Request : At(r, "refresh", "refused") => req[r].with = 0
=============================================================================
