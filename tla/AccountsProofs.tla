--------------------------- MODULE AccountsProofs ---------------------------
(***************************************************************************)
(* Proofs about accounts, for every number of requests and processes and   *)
(* every pair of lifetimes with TokenLife <= BlacklistLife.                *)
(***************************************************************************)
EXTENDS Accounts, TLAPS

-----------------------------------------------------------------------------
\* What the ways of moving a request do to it, and to it alone.

Only(r) == \A q \in Request \ {r} : req'[q] = req[q]

LEMMA ToMoves ==
  ASSUME req \in [Request -> Call], NEW r \in Request, NEW pc \in Location, To(r, pc)
  PROVE  /\ req' \in [Request -> Call]
         /\ Only(r)
         /\ req'[r].op = req[r].op /\ req'[r].pc = pc /\ req'[r].dead = req[r].dead
         /\ pc \notin {"done", "failed"} => req'[r].with = req[r].with
<1> DEFINE new == [req[r] EXCEPT !.pc = pc, !.with = IF pc \in {"done", "failed"} THEN 0 ELSE @]
<1>1. /\ new \in Call /\ new.op = req[r].op /\ new.pc = pc /\ new.dead = req[r].dead
      /\ pc \notin {"done", "failed"} => new.with = req[r].with
  BY DEF Call
<1>2. req' = [req EXCEPT ![r] = new]
  BY DEF To, Call
<1> HIDE DEF new
<1> QED
  BY <1>1, <1>2 DEF Only

LEMMA BeginMoves ==
  ASSUME req \in [Request -> Call], NEW r \in Request, NEW op \in Op, NEW pc \in Location,
         NEW with \in Nat, NEW dead \in BOOLEAN, Begin(r, op, pc, with, dead)
  PROVE  /\ req' \in [Request -> Call]
         /\ Only(r)
         /\ req'[r].op = op /\ req'[r].pc = pc /\ req'[r].dead = dead /\ req'[r].with = with
         /\ UNCHANGED <<calls, store>>
<1> DEFINE new == [op |-> op, pc |-> pc, with |-> with, dead |-> dead]
<1>1. new \in Call /\ new.op = op /\ new.pc = pc /\ new.dead = dead /\ new.with = with
  BY DEF Call
<1>2. req' = [req EXCEPT ![r] = new] /\ UNCHANGED <<calls, store>>
  BY DEF Begin
<1> HIDE DEF new
<1> QED
  BY <1>1, <1>2 DEF Only

-----------------------------------------------------------------------------
StoreTyped ==
  /\ row \in [pw: Stored, secret: Secret \cup {0}, tfa: BOOLEAN]
  /\ resets \in [1..MaxResets -> {"none", "fresh", "live", "expired", "used"}]
  /\ key \in [hash: Stored, active: BOOLEAN]
  /\ tokens \subseteq [left: 1..TokenLife, out: BOOLEAN]
  /\ black \in 0..BlacklistLife
  /\ client \in [Proc -> BOOLEAN]

LEMMA StoreTyping == TypeOK => StoreTyped /\ req \in [Request -> Call] /\ calls \in Profile
BY DEF TypeOK, StoreTyped

LEMMA TypedAgain == StoreTyped' /\ req' \in [Request -> Call] /\ calls' = calls /\ TypeOK => TypeOK'
BY DEF TypeOK, StoreTyped

\* The writes keep the types of what they write.
LEMMA QueryTyping ==
  ASSUME StoreTyped
  PROVE  /\ InsertUser \/ UpdatePassword \/ EnableTwoFactor \/ DisableTwoFactor
              \/ (\E s \in Secret : UpdateSecret(s))
              => row' \in [pw: Stored, secret: Secret \cup {0}, tfa: BOOLEAN]
         /\ InvalidateAll \/ InsertReset \/ (\E t \in DOMAIN resets : MarkAsUsed(t) \/ Age(t))
              => resets' \in [1..MaxResets -> {"none", "fresh", "live", "expired", "used"}]
         /\ InsertKey \/ NewHash \/ Deactivate => key' \in [hash: Stored, active: BOOLEAN]
         /\ NewToken => tokens' \subseteq [left: 1..TokenLife, out: BOOLEAN]
<1>0. /\ row \in [pw: Stored, secret: Secret \cup {0}, tfa: BOOLEAN]
      /\ resets \in [1..MaxResets -> {"none", "fresh", "live", "expired", "used"}]
      /\ key \in [hash: Stored, active: BOOLEAN]
      /\ tokens \subseteq [left: 1..TokenLife, out: BOOLEAN]
      /\ DOMAIN resets = 1..MaxResets
  BY DEF StoreTyped
<1> USE BoundsAssumption DEF Stored, Secret
<1>1. InsertUser \/ UpdatePassword \/ EnableTwoFactor \/ DisableTwoFactor
        \/ (\E s \in Secret : UpdateSecret(s))
        => row' \in [pw: Stored, secret: Secret \cup {0}, tfa: BOOLEAN]
  <2>1. InsertUser => row' \in [pw: Stored, secret: Secret \cup {0}, tfa: BOOLEAN]
    BY <1>0 DEF InsertUser
  <2>2. UpdatePassword => row' \in [pw: Stored, secret: Secret \cup {0}, tfa: BOOLEAN]
    BY <1>0 DEF UpdatePassword
  <2>3. EnableTwoFactor => row' \in [pw: Stored, secret: Secret \cup {0}, tfa: BOOLEAN]
    BY <1>0 DEF EnableTwoFactor
  <2>4. DisableTwoFactor => row' \in [pw: Stored, secret: Secret \cup {0}, tfa: BOOLEAN]
    BY <1>0 DEF DisableTwoFactor
  <2>5. ASSUME NEW s \in Secret, UpdateSecret(s)
        PROVE  row' \in [pw: Stored, secret: Secret \cup {0}, tfa: BOOLEAN]
    BY <1>0, <2>5 DEF UpdateSecret
  <2> QED
    BY <2>1, <2>2, <2>3, <2>4, <2>5
<1>2. InvalidateAll \/ InsertReset \/ (\E t \in DOMAIN resets : MarkAsUsed(t) \/ Age(t))
        => resets' \in [1..MaxResets -> {"none", "fresh", "live", "expired", "used"}]
  <2>1. InvalidateAll => resets' \in [1..MaxResets -> {"none", "fresh", "live", "expired", "used"}]
    BY <1>0 DEF InvalidateAll
  <2>2. InsertReset => resets' \in [1..MaxResets -> {"none", "fresh", "live", "expired", "used"}]
    BY <1>0 DEF InsertReset
  <2>3. ASSUME NEW t \in DOMAIN resets, MarkAsUsed(t) \/ Age(t)
        PROVE  resets' \in [1..MaxResets -> {"none", "fresh", "live", "expired", "used"}]
    BY <1>0, <2>3 DEF MarkAsUsed, Age
  <2> QED
    BY <2>1, <2>2, <2>3
<1>3. InsertKey \/ NewHash \/ Deactivate => key' \in [hash: Stored, active: BOOLEAN]
  <2>1. InsertKey => key' \in [hash: Stored, active: BOOLEAN]
    BY <1>0 DEF InsertKey
  <2>2. NewHash => key' \in [hash: Stored, active: BOOLEAN]
    BY <1>0 DEF NewHash
  <2>3. Deactivate => key' \in [hash: Stored, active: BOOLEAN]
    BY <1>0 DEF Deactivate
  <2> QED
    BY <2>1, <2>2, <2>3
<1>4. NewToken => tokens' \subseteq [left: 1..TokenLife, out: BOOLEAN]
  <2>1. [left |-> TokenLife, out |-> FALSE] \in [left: 1..TokenLife, out: BOOLEAN]
    BY TokenLifeAssumption
  <2> QED
    BY <1>0, <2>1 DEF NewToken
<1> QED
  BY <1>1, <1>2, <1>3, <1>4

-----------------------------------------------------------------------------
\* A step of request r that is no refresh and no logout: the blacklist key and
\* the Redis clients stay, and every new token is one that no logout followed.
Quiet(r) ==
  /\ StoreTyped' /\ req' \in [Request -> Call] /\ calls' = calls
  /\ black' = black /\ client' = client
  /\ \A t \in tokens' : t \in tokens \/ ~t.out
  /\ Only(r)
  /\ req'[r].op # "refresh"

LEMMA BeginIsQuiet ==
  ASSUME TypeOK, NEW r \in Request, NEW op \in Op \ {"refresh"}, NEW pc \in Location,
         NEW with \in Nat, NEW dead \in BOOLEAN, Begin(r, op, pc, with, dead)
  PROVE  Quiet(r)
<1>1. /\ req' \in [Request -> Call] /\ Only(r) /\ req'[r].op = op
      /\ UNCHANGED <<calls, store>>
  BY StoreTyping, BeginMoves
<1>2. StoreTyped'
  BY <1>1, StoreTyping DEF StoreTyped, store
<1> QED
  BY <1>1, <1>2 DEF Quiet, store

LEMMA ToIsQuiet ==
  ASSUME TypeOK, NEW r \in Request, NEW pc \in Location, To(r, pc), req[r].op # "refresh",
         StoreTyped', calls' = calls, black' = black, client' = client,
         tokens' = tokens \/ NewToken
  PROVE  Quiet(r)
<1>1. req' \in [Request -> Call] /\ Only(r) /\ req'[r].op = req[r].op
  BY StoreTyping, ToMoves
<1>2. \A t \in tokens' : t \in tokens \/ ~t.out
  BY DEF NewToken
<1> QED
  BY <1>1, <1>2 DEF Quiet

\* A step that reads: the store stays.
LEMMA ReadIsQuiet ==
  ASSUME TypeOK, NEW r \in Request, NEW pc \in Location, To(r, pc), req[r].op # "refresh",
         UNCHANGED <<calls, store>>
  PROVE  Quiet(r)
<1>1. StoreTyped'
  BY StoreTyping DEF StoreTyped, store
<1> QED
  BY <1>1, ToIsQuiet DEF store

-----------------------------------------------------------------------------
\* Every call except refreshing and logging out is quiet.

LEMMA RegisterIsQuiet == ASSUME TypeOK, NEW r \in Request, Register(r) PROVE Quiet(r)
<1> USE DEF Op, Location, Over
<1>1. CASE Begin(r, "register", "read", 0, FALSE)
  BY <1>1, BeginIsQuiet
<1>2. CASE At(r, "register", "read") /\ Read(r, ~HasAccount, "insert")
  BY <1>2, ReadIsQuiet DEF At, Read, ToIf
<1>3. CASE /\ At(r, "register", "insert") /\ InsertUser /\ NewToken /\ To(r, "done")
           /\ UNCHANGED <<calls, resets, key, black, client>>
  <2>1. StoreTyped'
    BY <1>3, StoreTyping, QueryTyping DEF StoreTyped
  <2> QED
    BY <1>3, <2>1, ToIsQuiet DEF At
<1> QED
  BY <1>1, <1>2, <1>3 DEF Register

LEMMA LoginIsQuiet == ASSUME TypeOK, NEW r \in Request, Login(r) PROVE Quiet(r)
<1> USE DEF Op, Location, Over
<1>1. CASE \E pw \in 1..row.pw : Begin(r, "login", "read", pw, pw # row.pw)
  <2>1. PICK pw \in 1..row.pw : Begin(r, "login", "read", pw, pw # row.pw)
    BY <1>1
  <2>2. pw \in Nat
    BY StoreTyping, BoundsAssumption DEF StoreTyped, Stored, Secret
  <2>3. (pw # row.pw) \in BOOLEAN
    OBVIOUS
  <2> QED
    BY <2>1, <2>2, <2>3, BeginIsQuiet
<1>2. CASE At(r, "login", "read") /\ Read(r, row.pw = req[r].with /\ ~row.tfa, "issue")
  BY <1>2, ReadIsQuiet DEF At, Read, ToIf
<1>3. CASE /\ At(r, "login", "issue") /\ To(r, "done") /\ NewToken
           /\ UNCHANGED <<calls, row, resets, key, black, client>>
  <2>1. StoreTyped'
    BY <1>3, StoreTyping, QueryTyping DEF StoreTyped
  <2> QED
    BY <1>3, <2>1, ToIsQuiet DEF At
<1> QED
  BY <1>1, <1>2, <1>3 DEF Login

LEMMA ChangePasswordIsQuiet == ASSUME TypeOK, NEW r \in Request, ChangePassword(r) PROVE Quiet(r)
<1> USE DEF Op, Location, Over
<1>1. CASE \E pw \in 1..row.pw : Begin(r, "change", "read", pw, pw # row.pw)
  <2>1. PICK pw \in 1..row.pw : Begin(r, "change", "read", pw, pw # row.pw)
    BY <1>1
  <2>2. pw \in Nat
    BY StoreTyping, BoundsAssumption DEF StoreTyped, Stored, Secret
  <2>3. (pw # row.pw) \in BOOLEAN
    OBVIOUS
  <2> QED
    BY <2>1, <2>2, <2>3, BeginIsQuiet
<1>2. CASE At(r, "change", "read") /\ Read(r, row.pw = req[r].with, "write")
  BY <1>2, ReadIsQuiet DEF At, Read, ToIf
<1>3. CASE /\ At(r, "change", "write") /\ UpdatePassword /\ To(r, "done")
           /\ UNCHANGED <<calls, resets, key, tokens, black, client>>
  <2>1. StoreTyped'
    BY <1>3, StoreTyping, QueryTyping DEF StoreTyped
  <2> QED
    BY <1>3, <2>1, ToIsQuiet DEF At
<1> QED
  BY <1>1, <1>2, <1>3 DEF ChangePassword

LEMMA RequestResetIsQuiet == ASSUME TypeOK, NEW r \in Request, RequestReset(r) PROVE Quiet(r)
<1> USE DEF Op, Location, Over
<1>1. CASE HasAccount /\ Begin(r, "forgot", "read", 0, FALSE)
  BY <1>1, BeginIsQuiet
<1>2. CASE /\ At(r, "forgot", "read") /\ ToIf(r, HasRecent, "done", "check")
           /\ UNCHANGED <<calls, store>>
  BY <1>2, ReadIsQuiet DEF At, ToIf
<1>3. CASE /\ At(r, "forgot", "check") /\ InvalidateAll /\ To(r, "insert")
           /\ UNCHANGED <<calls, row, key, tokens, black, client>>
  <2>1. StoreTyped'
    BY <1>3, StoreTyping, QueryTyping DEF StoreTyped
  <2> QED
    BY <1>3, <2>1, ToIsQuiet DEF At
<1>4. CASE /\ At(r, "forgot", "insert") /\ InsertReset /\ To(r, "done")
           /\ UNCHANGED <<calls, row, key, tokens, black, client>>
  <2>1. StoreTyped'
    BY <1>4, StoreTyping, QueryTyping DEF StoreTyped
  <2> QED
    BY <1>4, <2>1, ToIsQuiet DEF At
<1> QED
  BY <1>1, <1>2, <1>3, <1>4 DEF RequestReset

LEMMA ResetPasswordIsQuiet == ASSUME TypeOK, NEW r \in Request, ResetPassword(r) PROVE Quiet(r)
<1> USE DEF Op, Location, Over
<1>1. CASE \E t \in DOMAIN resets : resets[t] # "none" /\ Begin(r, "reset", "read", t, ~Usable(t))
  <2>1. PICK t \in DOMAIN resets : Begin(r, "reset", "read", t, ~Usable(t))
    BY <1>1
  <2>2. t \in Nat /\ (~Usable(t)) \in BOOLEAN
    BY StoreTyping, BoundsAssumption DEF StoreTyped, Usable
  <2> QED
    BY <2>1, <2>2, BeginIsQuiet
<1>2. CASE /\ At(r, "reset", "read") /\ ToIf(r, Usable(req[r].with), "write", "failed")
           /\ UNCHANGED <<calls, store>>
  BY <1>2, ReadIsQuiet DEF At, Read, ToIf
<1>3. CASE /\ At(r, "reset", "write") /\ UpdatePassword /\ To(r, "mark")
           /\ UNCHANGED <<calls, resets, key, tokens, black, client>>
  <2>1. StoreTyped'
    BY <1>3, StoreTyping, QueryTyping DEF StoreTyped
  <2> QED
    BY <1>3, <2>1, ToIsQuiet DEF At
<1>4. CASE /\ At(r, "reset", "mark") /\ MarkAsUsed(req[r].with) /\ To(r, "done")
           /\ UNCHANGED <<calls, row, key, tokens, black, client>>
  <2>1. resets' \in [1..MaxResets -> {"none", "fresh", "live", "expired", "used"}]
    BY <1>4, StoreTyping DEF MarkAsUsed, StoreTyped
  <2>2. StoreTyped'
    BY <1>4, <2>1, StoreTyping DEF StoreTyped
  <2> QED
    BY <1>4, <2>2, ToIsQuiet DEF At
<1> QED
  BY <1>1, <1>2, <1>3, <1>4 DEF ResetPassword

LEMMA SetupIsQuiet == ASSUME TypeOK, NEW r \in Request, Setup(r) PROVE Quiet(r)
<1> USE DEF Op, Location, Over
<1>1. CASE HasAccount /\ Begin(r, "setup", "read", 0, FALSE)
  BY <1>1, BeginIsQuiet
<1>2. CASE At(r, "setup", "read") /\ Read(r, HasAccount, "write")
  BY <1>2, ReadIsQuiet DEF At, Read, ToIf
<1>3. CASE /\ At(r, "setup", "write") /\ (\E s \in Secret \ {row.secret} : UpdateSecret(s)) /\ To(r, "done")
           /\ UNCHANGED <<calls, resets, key, tokens, black, client>>
  <2>1. StoreTyped'
    BY <1>3, StoreTyping, QueryTyping DEF StoreTyped
  <2> QED
    BY <1>3, <2>1, ToIsQuiet DEF At
<1> QED
  BY <1>1, <1>2, <1>3 DEF Setup

LEMMA EnableIsQuiet == ASSUME TypeOK, NEW r \in Request, Enable(r) PROVE Quiet(r)
<1> USE DEF Op, Location, Over
<1>1. CASE \E s \in Secret : Begin(r, "enable", "read", s, FALSE)
  <2>1. PICK s \in Secret : Begin(r, "enable", "read", s, FALSE)
    BY <1>1
  <2>2. s \in Nat
    BY DEF Secret
  <2> QED
    BY <2>1, <2>2, BeginIsQuiet
<1>2. CASE At(r, "enable", "read") /\ Read(r, row.secret # 0 /\ row.secret = req[r].with, "write")
  BY <1>2, ReadIsQuiet DEF At, Read, ToIf
<1>3. CASE /\ At(r, "enable", "write") /\ EnableTwoFactor /\ To(r, "done")
           /\ UNCHANGED <<calls, resets, key, tokens, black, client>>
  <2>1. StoreTyped'
    BY <1>3, StoreTyping, QueryTyping DEF StoreTyped
  <2> QED
    BY <1>3, <2>1, ToIsQuiet DEF At
<1> QED
  BY <1>1, <1>2, <1>3 DEF Enable

LEMMA DisableIsQuiet == ASSUME TypeOK, NEW r \in Request, Disable(r) PROVE Quiet(r)
<1> USE DEF Op, Location, Over
<1>1. CASE \E pw \in 1..row.pw : Begin(r, "disable", "read", pw, pw # row.pw)
  <2>1. PICK pw \in 1..row.pw : Begin(r, "disable", "read", pw, pw # row.pw)
    BY <1>1
  <2>2. pw \in Nat
    BY StoreTyping, BoundsAssumption DEF StoreTyped, Stored, Secret
  <2>3. (pw # row.pw) \in BOOLEAN
    OBVIOUS
  <2> QED
    BY <2>1, <2>2, <2>3, BeginIsQuiet
<1>2. CASE At(r, "disable", "read") /\ Read(r, row.pw = req[r].with, "write")
  BY <1>2, ReadIsQuiet DEF At, Read, ToIf
<1>3. CASE /\ At(r, "disable", "write") /\ DisableTwoFactor /\ To(r, "done")
           /\ UNCHANGED <<calls, resets, key, tokens, black, client>>
  <2>1. StoreTyped'
    BY <1>3, StoreTyping, QueryTyping DEF StoreTyped
  <2> QED
    BY <1>3, <2>1, ToIsQuiet DEF At
<1> QED
  BY <1>1, <1>2, <1>3 DEF Disable

LEMMA CreateKeyIsQuiet == ASSUME TypeOK, NEW r \in Request, CreateKey(r) PROVE Quiet(r)
<1> USE DEF Op, Location, Over
<1>1. CASE HasAccount /\ Begin(r, "create", "insert", 0, FALSE)
  BY <1>1, BeginIsQuiet
<1>2. CASE /\ At(r, "create", "insert") /\ InsertKey /\ To(r, "done")
           /\ UNCHANGED <<calls, row, resets, tokens, black, client>>
  <2>1. StoreTyped'
    BY <1>2, StoreTyping, QueryTyping DEF StoreTyped
  <2> QED
    BY <1>2, <2>1, ToIsQuiet DEF At
<1> QED
  BY <1>1, <1>2 DEF CreateKey

LEMMA UseKeyIsQuiet == ASSUME TypeOK, NEW r \in Request, UseKey(r) PROVE Quiet(r)
<1> USE DEF Op, Location, Over
<1>1. CASE \E h \in 1..key.hash : Begin(r, "use", "read", h, ~Validates(h))
  <2>1. PICK h \in 1..key.hash : Begin(r, "use", "read", h, ~Validates(h))
    BY <1>1
  <2>2. h \in Nat
    BY StoreTyping, BoundsAssumption DEF StoreTyped, Stored, Secret
  <2>3. (~Validates(h)) \in BOOLEAN
    OBVIOUS
  <2> QED
    BY <2>1, <2>2, <2>3, BeginIsQuiet
<1>2. CASE /\ At(r, "use", "read") /\ ToIf(r, Validates(req[r].with), "done", "failed")
           /\ UNCHANGED <<calls, store>>
  BY <1>2, ReadIsQuiet DEF At, Read, ToIf
<1> QED
  BY <1>1, <1>2 DEF UseKey

LEMMA RotateKeyIsQuiet == ASSUME TypeOK, NEW r \in Request, RotateKey(r) PROVE Quiet(r)
<1> USE DEF Op, Location, Over
<1>1. CASE key.hash # 0 /\ Begin(r, "rotate", "read", 0, FALSE)
  BY <1>1, BeginIsQuiet
<1>2. CASE At(r, "rotate", "read") /\ To(r, "write") /\ UNCHANGED <<calls, store>>
  BY <1>2, ReadIsQuiet DEF At, Read, ToIf
<1>3. CASE /\ At(r, "rotate", "write") /\ NewHash /\ To(r, "done")
           /\ UNCHANGED <<calls, row, resets, tokens, black, client>>
  <2>1. StoreTyped'
    BY <1>3, StoreTyping, QueryTyping DEF StoreTyped
  <2> QED
    BY <1>3, <2>1, ToIsQuiet DEF At
<1> QED
  BY <1>1, <1>2, <1>3 DEF RotateKey

LEMMA RevokeKeyIsQuiet == ASSUME TypeOK, NEW r \in Request, RevokeKey(r) PROVE Quiet(r)
<1> USE DEF Op, Location, Over
<1>1. CASE key.hash # 0 /\ Begin(r, "revoke", "read", 0, FALSE)
  BY <1>1, BeginIsQuiet
<1>2. CASE At(r, "revoke", "read") /\ To(r, "write") /\ UNCHANGED <<calls, store>>
  BY <1>2, ReadIsQuiet DEF At, Read, ToIf
<1>3. CASE /\ At(r, "revoke", "write") /\ Deactivate /\ To(r, "done")
           /\ UNCHANGED <<calls, row, resets, tokens, black, client>>
  <2>1. StoreTyped'
    BY <1>3, StoreTyping, QueryTyping DEF StoreTyped
  <2> QED
    BY <1>3, <2>1, ToIsQuiet DEF At
<1> QED
  BY <1>1, <1>2, <1>3 DEF RevokeKey

LEMMA StepIsQuiet ==
  ASSUME TypeOK, NEW r \in Request, Step(r) PROVE Quiet(r) \/ Refresh(r) \/ Logout(r)
BY RegisterIsQuiet, LoginIsQuiet, ChangePasswordIsQuiet, RequestResetIsQuiet,
   ResetPasswordIsQuiet, SetupIsQuiet, EnableIsQuiet, DisableIsQuiet, CreateKeyIsQuiet,
   UseKeyIsQuiet, RotateKeyIsQuiet, RevokeKeyIsQuiet DEF Step

-----------------------------------------------------------------------------
\* The inductive invariant.  The key lives at least as long as every token it
\* revokes, so a refresh that began with such a token finds it.
SessionInv ==
  /\ \A t \in tokens : t.out => t.left <= black
  /\ \A r \in Request :
       At(r, "refresh", "check") /\ req[r].dead => black > 0 /\ client[ProcOf[r]]
  /\ \A r \in Request :
       At(r, "refresh", "issue") \/ At(r, "refresh", "done") => ~req[r].dead

LEMMA QuietKeeps == ASSUME TypeOK, SessionInv, NEW r \in Request, Quiet(r) PROVE TypeOK' /\ SessionInv'
<1>1. TypeOK'
  BY TypedAgain DEF Quiet
<1>2. \A t \in tokens' : t.out => t.left <= black'
  BY DEF Quiet, SessionInv
<1>3. ASSUME NEW q \in Request
      PROVE  /\ At(q, "refresh", "check")' /\ req'[q].dead => black' > 0 /\ client'[ProcOf[q]]
             /\ At(q, "refresh", "issue")' \/ At(q, "refresh", "done")' => ~req'[q].dead
  BY DEF Quiet, Only, SessionInv, At
<1> QED
  BY <1>1, <1>2, <1>3 DEF SessionInv

\* A request that no longer refreshes leaves what the invariant says of it.
LEMMA RequestEnds ==
  ASSUME TypeOK, SessionInv, NEW r \in Request, Only(r), req' \in [Request -> Call],
         ~At(r, "refresh", "check")', ~At(r, "refresh", "issue")', ~At(r, "refresh", "done")',
         black' = black, client' = client, tokens' = tokens, StoreTyped', calls' = calls
  PROVE  TypeOK' /\ SessionInv'
<1>1. TypeOK'
  BY TypedAgain
<1>2. ASSUME NEW q \in Request
      PROVE  /\ At(q, "refresh", "check")' /\ req'[q].dead => black' > 0 /\ client'[ProcOf[q]]
             /\ At(q, "refresh", "issue")' \/ At(q, "refresh", "done")' => ~req'[q].dead
  BY DEF Only, SessionInv, At
<1> QED
  BY <1>1, <1>2 DEF SessionInv

LEMMA RefreshKeeps == ASSUME TypeOK, SessionInv, NEW r \in Request, Refresh(r) PROVE TypeOK' /\ SessionInv'
<1> USE DEF Op, Location, Over
<1>1. ASSUME NEW t \in tokens,
             Begin(r, "refresh", "check", IF t.out THEN 0 ELSE 1, t.out /\ client[ProcOf[r]])
      PROVE  TypeOK' /\ SessionInv'
  <2> DEFINE with == IF t.out THEN 0 ELSE 1
             dead == t.out /\ client[ProcOf[r]]
  <2>1. t.out \in BOOLEAN /\ t.left \in 1..TokenLife /\ client[ProcOf[r]] \in BOOLEAN /\ black \in Nat
    BY StoreTyping, ProcOfAssumption, BlacklistLifeAssumption DEF StoreTyped
  <2>2. with \in Nat /\ dead \in BOOLEAN
    BY <2>1
  <2>3. dead => black > 0 /\ client[ProcOf[r]]
    BY <2>1, TokenLifeAssumption DEF SessionInv
  <2>4. Begin(r, "refresh", "check", with, dead)
    BY <1>1
  <2> HIDE DEF with, dead
  <2>5. /\ req' \in [Request -> Call] /\ Only(r) /\ UNCHANGED <<calls, store>>
        /\ req'[r].pc = "check" /\ req'[r].dead = dead
    BY <2>2, <2>4, StoreTyping, BeginMoves
  <2>6. TypeOK'
    BY <2>5, StoreTyping, TypedAgain DEF StoreTyped, store
  <2>7. ASSUME NEW q \in Request
        PROVE  /\ At(q, "refresh", "check")' /\ req'[q].dead => black' > 0 /\ client'[ProcOf[q]]
               /\ At(q, "refresh", "issue")' \/ At(q, "refresh", "done")' => ~req'[q].dead
    <3>1. CASE q = r
      BY <2>3, <2>5, <3>1 DEF At, store
    <3>2. CASE q # r
      BY <2>5, <3>2 DEF Only, SessionInv, At, store
    <3> QED
      BY <3>1, <3>2
  <2> QED
    BY <2>5, <2>6, <2>7 DEF SessionInv, store
<1>2. CASE /\ At(r, "refresh", "check")
           /\ ToIf(r, client[ProcOf[r]] /\ black > 0, "refused", "issue")
           /\ UNCHANGED <<calls, store>>
  <2>1. /\ req' \in [Request -> Call] /\ Only(r) /\ req'[r].dead = req[r].dead
        /\ req'[r].pc = IF client[ProcOf[r]] /\ black > 0 THEN "refused" ELSE "issue"
    BY <1>2, StoreTyping, ToMoves DEF ToIf
  <2>2. TypeOK'
    BY <1>2, <2>1, StoreTyping, TypedAgain DEF StoreTyped, store
  <2>3. ASSUME NEW q \in Request
        PROVE  /\ At(q, "refresh", "check")' /\ req'[q].dead => black' > 0 /\ client'[ProcOf[q]]
               /\ At(q, "refresh", "issue")' \/ At(q, "refresh", "done")' => ~req'[q].dead
    <3>1. CASE q = r
      BY <1>2, <2>1, <3>1 DEF At, SessionInv
    <3>2. CASE q # r
      BY <1>2, <2>1, <3>2 DEF Only, SessionInv, At, store
    <3> QED
      BY <3>1, <3>2
  <2> QED
    BY <1>2, <2>2, <2>3 DEF SessionInv, store
<1>3. CASE /\ At(r, "refresh", "issue")
           /\ \/ To(r, "done") /\ NewToken
              \/ To(r, "failed") /\ UNCHANGED tokens
           /\ UNCHANGED <<calls, row, resets, key, black, client>>
  <2>1. /\ req' \in [Request -> Call] /\ Only(r) /\ req'[r].dead = req[r].dead
        /\ req'[r].pc \in {"done", "failed"}
    BY <1>3, StoreTyping, ToMoves
  <2>2. StoreTyped'
    BY <1>3, StoreTyping, QueryTyping DEF StoreTyped
  <2>3. TypeOK'
    BY <1>3, <2>1, <2>2, TypedAgain
  <2>4. \A t \in tokens' : t.out => t.left <= black'
    BY <1>3 DEF NewToken, SessionInv
  <2>5. ASSUME NEW q \in Request
        PROVE  /\ At(q, "refresh", "check")' /\ req'[q].dead => black' > 0 /\ client'[ProcOf[q]]
               /\ At(q, "refresh", "issue")' \/ At(q, "refresh", "done")' => ~req'[q].dead
    <3>1. CASE q = r
      BY <1>3, <2>1, <3>1 DEF At, SessionInv
    <3>2. CASE q # r
      BY <1>3, <2>1, <3>2 DEF Only, SessionInv, At
    <3> QED
      BY <3>1, <3>2
  <2> QED
    BY <2>3, <2>4, <2>5 DEF SessionInv
<1> QED
  BY <1>1, <1>2, <1>3 DEF Refresh

\* Marking a token as logged out keeps its type and its remaining life.
LEMMA OutKeepsTyping ==
  ASSUME NEW n \in Nat, NEW t \in [left: 1..n, out: BOOLEAN]
  PROVE  /\ [t EXCEPT !.out = TRUE] \in [left: 1..n, out: BOOLEAN]
         /\ [t EXCEPT !.out = TRUE].left = t.left
OBVIOUS

\* A logout outlives every token it revokes: TokenLife <= BlacklistLife.
LEMMA BlacklistKeeps ==
  ASSUME TypeOK, SessionInv, NEW r \in Request, At(r, "logout", "write"), Blacklist(r),
         client[ProcOf[r]], UNCHANGED <<calls, row, resets, key, client>>
  PROVE  TypeOK' /\ SessionInv'
<1>0. tokens \subseteq [left: 1..TokenLife, out: BOOLEAN]
  BY StoreTyping DEF StoreTyped
<1>1. \A t \in tokens : /\ [t EXCEPT !.out = TRUE] \in [left: 1..TokenLife, out: BOOLEAN]
                        /\ [t EXCEPT !.out = TRUE].left = t.left
  BY <1>0, OutKeepsTyping
<1>2. tokens' \subseteq [left: 1..TokenLife, out: BOOLEAN] /\ black' = BlacklistLife
  BY <1>1 DEF Blacklist
<1>a. black' \in 0..BlacklistLife
  BY <1>2, BlacklistLifeAssumption
<1>b. /\ row' = row /\ resets' = resets /\ key' = key /\ client' = client
  OBVIOUS
<1>c. /\ row \in [pw: Stored, secret: Secret \cup {0}, tfa: BOOLEAN]
      /\ resets \in [1..MaxResets -> {"none", "fresh", "live", "expired", "used"}]
      /\ key \in [hash: Stored, active: BOOLEAN]
      /\ client \in [Proc -> BOOLEAN]
  BY StoreTyping DEF StoreTyped
<1>3. StoreTyped'
  BY <1>a, <1>b, <1>c, <1>2 DEF StoreTyped
<1>4. \A t \in tokens' : t.left <= black'
  BY <1>2, TokenLifeAssumption, BlacklistLifeAssumption
<1>5. ASSUME NEW q \in Request
      PROVE  /\ req'[q] \in Call /\ req'[q].dead = req[q].dead /\ req'[q].op = req[q].op
             /\ req'[q].pc = IF q = r THEN "done" ELSE req[q].pc
  <2>0. req[q] \in Call
    BY StoreTyping
  <2>1. CASE q = r
    BY <2>0, <2>1 DEF Blacklist, Call, Location, Over
  <2>2. CASE q # r
    BY <2>0, <2>2 DEF Blacklist, Call
  <2> QED
    BY <2>1, <2>2
<1>6. req' \in [Request -> Call]
  <2>1. DOMAIN req' = Request /\ req' = [q \in Request |-> req'[q]]
    BY DEF Blacklist
  <2> QED
    BY <1>5, <2>1
<1>7. ASSUME NEW q \in Request
      PROVE  /\ At(q, "refresh", "check")' /\ req'[q].dead => black' > 0 /\ client'[ProcOf[q]]
             /\ At(q, "refresh", "issue")' \/ At(q, "refresh", "done")' => ~req'[q].dead
  BY <1>2, <1>5, TokenLifeAssumption, BlacklistLifeAssumption DEF At, SessionInv
<1> QED
  BY <1>3, <1>4, <1>6, <1>7, TypedAgain DEF SessionInv

LEMMA LogoutKeeps == ASSUME TypeOK, SessionInv, NEW r \in Request, Logout(r) PROVE TypeOK' /\ SessionInv'
<1> USE DEF Op, Location, Over
<1>1. CASE HasAccount /\ Begin(r, "logout", "read", 0, FALSE)
  BY <1>1, BeginIsQuiet, QuietKeeps
<1>2. CASE At(r, "logout", "read") /\ Read(r, HasAccount, "write")
  <2>1. Quiet(r)
    BY <1>2, ReadIsQuiet DEF At, Read, ToIf
  <2> QED
    BY <2>1, QuietKeeps
<1>3. CASE /\ At(r, "logout", "write")
           /\ IF client[ProcOf[r]] THEN Blacklist(r) ELSE To(r, "done") /\ UNCHANGED <<black, tokens>>
           /\ UNCHANGED <<calls, row, resets, key, client>>
  <2>1. CASE client[ProcOf[r]]
    BY <1>3, <2>1, BlacklistKeeps
  <2>2. CASE ~client[ProcOf[r]]
    <3>1. Quiet(r)
      BY <1>3, <2>2, ReadIsQuiet DEF At, store
    <3> QED
      BY <3>1, QuietKeeps
  <2> QED
    BY <2>1, <2>2
<1> QED
  BY <1>1, <1>2, <1>3 DEF Logout

LEMMA ThrowKeeps == ASSUME TypeOK, SessionInv, NEW r \in Request, Throw(r) PROVE TypeOK' /\ SessionInv'
<1>1. req' \in [Request -> Call] /\ Only(r) /\ req'[r].pc = "failed"
  BY StoreTyping, ToMoves DEF Throw, Location, Over
<1>2. StoreTyped' /\ calls' = calls /\ black' = black /\ client' = client /\ tokens' = tokens
  BY StoreTyping DEF Throw, StoreTyped, store
<1> QED
  BY <1>1, <1>2, RequestEnds DEF At

LEMMA AgeKeeps == ASSUME TypeOK, SessionInv, NEW t \in DOMAIN resets, Age(t) PROVE TypeOK' /\ SessionInv'
<1>1. UNCHANGED <<calls, row, key, tokens, black, client, req>>
  BY DEF Age
<1>2. StoreTyped'
  BY <1>1, StoreTyping, QueryTyping DEF StoreTyped
<1> QED
  BY <1>1, <1>2, StoreTyping, TypedAgain DEF SessionInv, At

LEMMA TickKeeps == ASSUME TypeOK, SessionInv, Tick PROVE TypeOK' /\ SessionInv'
<1>1. /\ UNCHANGED <<calls, row, resets, key, client, req>>
      /\ \A r \in Request : ~At(r, "refresh", "check")
  BY DEF Tick
<1>2. ASSUME NEW u \in tokens'
      PROVE  u \in [left: 1..TokenLife, out: BOOLEAN] /\ (u.out => u.left <= black')
  <2>1. PICK t \in tokens : t.left > 1 /\ u = [t EXCEPT !.left = @ - 1]
    BY DEF Tick
  <2>2. /\ t \in [left: 1..TokenLife, out: BOOLEAN] /\ black \in Nat
        /\ t.out => t.left <= black
    BY StoreTyping, BlacklistLifeAssumption DEF StoreTyped, SessionInv
  <2>3. u.left = t.left - 1 /\ u.out = t.out /\ u \in [left: 1..TokenLife, out: BOOLEAN]
    BY <2>1, <2>2, TokenLifeAssumption
  <2>4. black' = IF black = 0 THEN 0 ELSE black - 1
    BY DEF Tick
  <2> QED
    BY <2>2, <2>3, <2>4
<1>3. black' \in 0..BlacklistLife
  BY StoreTyping, BlacklistLifeAssumption DEF StoreTyped, Tick
<1>4. TypeOK'
  BY <1>1, <1>2, <1>3, StoreTyping, TypedAgain DEF StoreTyped
<1> QED
  BY <1>1, <1>2, <1>4 DEF SessionInv, At

LEMMA RestartKeeps == ASSUME TypeOK, SessionInv, NEW p \in Proc, Restart(p) PROVE TypeOK' /\ SessionInv'
<1>1. /\ UNCHANGED <<calls, row, resets, key, tokens, black>>
      /\ client' \in [Proc -> BOOLEAN]
      /\ \A p2 \in Proc : p2 # p => client'[p2] = client[p2]
  BY StoreTyping DEF Restart, StoreTyped
<1>2. ASSUME NEW q \in Request
      PROVE  /\ req'[q] \in Call
             /\ IF ProcOf[q] = p THEN req'[q].pc = "idle" ELSE req'[q] = req[q]
  <2>0. req[q] \in Call
    BY StoreTyping
  <2>1. CASE ProcOf[q] = p
    BY <2>0, <2>1 DEF Restart, Call, Location, Over
  <2>2. CASE ProcOf[q] # p
    BY <2>0, <2>2 DEF Restart
  <2> QED
    BY <2>1, <2>2
<1>3. req' \in [Request -> Call]
  <2>1. req' = [q \in Request |-> req'[q]]
    BY DEF Restart
  <2> QED
    BY <1>2, <2>1
<1>4. TypeOK'
  BY <1>1, <1>3, StoreTyping, TypedAgain DEF StoreTyped
<1>5. ASSUME NEW q \in Request
      PROVE  /\ At(q, "refresh", "check")' /\ req'[q].dead => black' > 0 /\ client'[ProcOf[q]]
             /\ At(q, "refresh", "issue")' \/ At(q, "refresh", "done")' => ~req'[q].dead
  BY <1>1, <1>2, ProcOfAssumption DEF At, SessionInv
<1> QED
  BY <1>1, <1>4, <1>5 DEF SessionInv

-----------------------------------------------------------------------------
LEMMA InitHolds == Init => TypeOK /\ SessionInv
<1> SUFFICES ASSUME Init PROVE TypeOK /\ SessionInv
  OBVIOUS
<1>1. req \in [Request -> Call] /\ \A r \in Request : req[r].pc = "idle"
  BY DEF Init, Call, Location, Over
<1>2. StoreTyped /\ calls \in Profile /\ tokens = {}
  BY BoundsAssumption, BlacklistLifeAssumption DEF Init, StoreTyped, NoRow, Stored
<1> QED
  BY <1>1, <1>2 DEF TypeOK, StoreTyped, SessionInv, At

LEMMA StepKeeps == TypeOK /\ SessionInv /\ [Next]_vars => TypeOK' /\ SessionInv'
<1> SUFFICES ASSUME TypeOK, SessionInv, [Next]_vars PROVE TypeOK' /\ SessionInv'
  OBVIOUS
<1>1. ASSUME NEW r \in Request, Step(r) PROVE TypeOK' /\ SessionInv'
  BY <1>1, StepIsQuiet, QuietKeeps, RefreshKeeps, LogoutKeeps
<1>2. ASSUME NEW r \in Request, Throw(r) PROVE TypeOK' /\ SessionInv'
  BY <1>2, ThrowKeeps
<1>3. ASSUME NEW t \in DOMAIN resets, Age(t) PROVE TypeOK' /\ SessionInv'
  BY <1>3, AgeKeeps
<1>4. ASSUME NEW p \in Proc, Restart(p) PROVE TypeOK' /\ SessionInv'
  BY <1>4, RestartKeeps
<1>5. CASE UNCHANGED vars
  BY <1>5 DEF vars, TypeOK, SessionInv, At
<1> QED
  BY <1>1, <1>2, <1>3, <1>4, <1>5, TickKeeps DEF Next

\* Every variable keeps its type.
THEOREM AccountsTypeCorrect == Spec => []TypeOK
<1>1. Spec => [](TypeOK /\ SessionInv)
  BY InitHolds, StepKeeps, PTL DEF Spec
<1> QED
  BY <1>1, PTL

\* After a logout that reached Redis, no refresh with a token issued before it
\* succeeds on a process that has a Redis client (auth.ts:173-183, 211-221).
THEOREM LogoutHoldsAlways == Spec => []LogoutHolds
<1>1. TypeOK /\ SessionInv => LogoutHolds
  BY DEF SessionInv, LogoutHolds
<1>2. Spec => [](TypeOK /\ SessionInv)
  BY InitHolds, StepKeeps, PTL DEF Spec
<1> QED
  BY <1>1, <1>2, PTL

-----------------------------------------------------------------------------
(* Dead credentials.  What a credential is compared with only moves on, so *)
(* one that was dead when its request began is dead when it is read.       *)

Gone == {"used", "expired"}

\* No step brings a superseded password, a reset token or a revoked key back.
StoreAges ==
  /\ row'.pw >= row.pw
  /\ \A t \in DOMAIN resets : resets[t] \in Gone => resets'[t] \in Gone
  /\ key.hash # 0 => key'.hash >= key.hash /\ (~key.active => ~key'.active)

ByPassword == {"login", "change", "disable"}
Presenting == ByPassword \cup {"reset", "use"}

\* What r presents can have no effect any more.
Ineffective(r) ==
  /\ req[r].op \in ByPassword => req[r].with < row.pw
  /\ req[r].op = "reset" => req[r].with \in DOMAIN resets /\ resets[req[r].with] \in Gone
  /\ req[r].op = "use" => key.hash # 0 /\ (~key.active \/ req[r].with < key.hash)

\* A request that began with a dead credential gets as far as reading what it
\* is compared with; refreshes are SessionInv's matter.
Stopped(r) ==
  req[r].dead /\ req[r].op # "refresh" =>
    \/ req[r].pc \in {"idle", "failed"}
    \/ req[r].pc = "read" /\ req[r].op \in Presenting /\ Ineffective(r)

DeadInv == TypeOK /\ SessionInv /\ \A r \in Request : Stopped(r)

\* A step that leaves the tables alone is such a one.
LEMMA SameStoreAges ==
  ASSUME TypeOK, UNCHANGED <<row, resets, key>>
  PROVE  StoreAges
<1>1. row.pw \in Nat /\ key.hash \in Nat
  BY StoreTyping, BoundsAssumption DEF StoreTyped, Stored
<1> QED
  BY <1>1 DEF StoreAges

\* The writes, one table each.
LEMMA WritesAge ==
  ASSUME TypeOK
  PROVE  /\ (InsertUser \/ UpdatePassword \/ EnableTwoFactor \/ DisableTwoFactor \/ \E s \in Secret : UpdateSecret(s))
              /\ UNCHANGED <<resets, key>> => StoreAges
         /\ (InvalidateAll \/ InsertReset \/ \E t \in Nat : MarkAsUsed(t) \/ Age(t)) /\ UNCHANGED <<row, key>> => StoreAges
         /\ (InsertKey \/ NewHash \/ Deactivate) /\ UNCHANGED <<row, resets>> => StoreAges
<1>0. /\ row \in [pw: Stored, secret: Secret \cup {0}, tfa: BOOLEAN] /\ row.pw \in Nat
      /\ resets \in [1..MaxResets -> {"none", "fresh", "live", "expired", "used"}]
      /\ key \in [hash: Stored, active: BOOLEAN] /\ key.hash \in Nat
  BY StoreTyping, BoundsAssumption DEF StoreTyped, Stored
<1>1. ASSUME InsertUser \/ UpdatePassword \/ EnableTwoFactor \/ DisableTwoFactor \/ \E s \in Secret : UpdateSecret(s),
             UNCHANGED <<resets, key>>
      PROVE  StoreAges
  <2>1. row'.pw >= row.pw
    <3>1. InsertUser => row'.pw >= row.pw
      BY <1>0 DEF InsertUser, HasAccount
    <3>2. UpdatePassword => row'.pw >= row.pw
      BY <1>0 DEF UpdatePassword
    <3>3. EnableTwoFactor => row'.pw >= row.pw
      BY <1>0 DEF EnableTwoFactor
    <3>4. DisableTwoFactor => row'.pw >= row.pw
      BY <1>0 DEF DisableTwoFactor
    <3>5. ASSUME NEW s \in Secret, UpdateSecret(s) PROVE row'.pw >= row.pw
      BY <1>0, <3>5 DEF UpdateSecret
    <3> QED
      BY <1>1, <3>1, <3>2, <3>3, <3>4, <3>5
  <2> QED
    BY <1>0, <1>1, <2>1 DEF StoreAges
<1>2. ASSUME InvalidateAll \/ InsertReset \/ \E t \in Nat : MarkAsUsed(t) \/ Age(t), UNCHANGED <<row, key>>
      PROVE  StoreAges
  <2>1. \A t \in DOMAIN resets : resets[t] \in Gone => resets'[t] \in Gone
    BY <1>0, <1>2 DEF InvalidateAll, InsertReset, MarkAsUsed, Age, Gone
  <2> QED
    BY <1>0, <1>2, <2>1 DEF StoreAges
<1>3. ASSUME InsertKey \/ NewHash \/ Deactivate, UNCHANGED <<row, resets>>
      PROVE  StoreAges
  <2>1. key.hash # 0 => key'.hash >= key.hash /\ (~key.active => ~key'.active)
    BY <1>0, <1>3 DEF InsertKey, NewHash, Deactivate
  <2> QED
    BY <1>0, <1>3, <2>1 DEF StoreAges
<1> QED
  BY <1>1, <1>2, <1>3

\* What every step of a request owes.
Ages(r) == StoreAges /\ Only(r) /\ Stopped(r)'

\* A request that does not move stays where it is.
LEMMA OthersStayStopped ==
  ASSUME TypeOK, TypeOK', StoreAges, NEW q \in Request, req'[q] = req[q], Stopped(q)
  PROVE  Stopped(q)'
<1>1. /\ req[q].with \in Nat /\ row.pw \in Nat /\ row'.pw \in Nat
      /\ key.hash \in Nat /\ key'.hash \in Nat /\ DOMAIN resets = 1..MaxResets /\ DOMAIN resets' = 1..MaxResets
  <2>1. req[q] \in Call /\ StoreTyped /\ row' \in [pw: Stored, secret: Secret \cup {0}, tfa: BOOLEAN]
        /\ key' \in [hash: Stored, active: BOOLEAN]
        /\ resets' \in [1..MaxResets -> {"none", "fresh", "live", "expired", "used"}]
    BY StoreTyping DEF TypeOK
  <2> QED
    BY <2>1, BoundsAssumption DEF StoreTyped, Stored, Call
<1> QED
  BY <1>1 DEF Stopped, Ineffective, StoreAges

\* A request that begins with a credential it need not compare, or a live one.
LEMMA BeginsAlive ==
  ASSUME TypeOK, NEW r \in Request, NEW op \in Op, NEW pc \in Location, NEW with \in Nat,
         Begin(r, op, pc, with, FALSE)
  PROVE  Ages(r)
<1>1. Only(r) /\ req'[r].dead = FALSE /\ UNCHANGED <<calls, store>>
  BY StoreTyping, BeginMoves
<1> QED
  BY <1>1, SameStoreAges DEF Ages, Stopped, store

\* A request that presents something, dead or alive, before it is read.
LEMMA BeginsPresenting ==
  ASSUME TypeOK, NEW r \in Request, NEW op \in Presenting, NEW with \in Nat, NEW dead \in BOOLEAN,
         Begin(r, op, "read", with, dead),
         dead => /\ op \in ByPassword => with < row.pw
                 /\ op = "reset" => with \in DOMAIN resets /\ resets[with] \in Gone
                 /\ op = "use" => key.hash # 0 /\ (~key.active \/ with < key.hash)
  PROVE  Ages(r)
<1>0. op \in Op /\ "read" \in Location
  BY DEF Presenting, ByPassword, Op, Location
<1>1. /\ Only(r) /\ UNCHANGED <<calls, store>>
      /\ req'[r].op = op /\ req'[r].pc = "read" /\ req'[r].dead = dead /\ req'[r].with = with
  BY <1>0, StoreTyping, BeginMoves
<1>2. StoreAges
  BY <1>1, SameStoreAges DEF store
<1>3. dead => Ineffective(r)'
  BY <1>1 DEF Ineffective, store
<1> QED
  BY <1>1, <1>2, <1>3 DEF Ages, Stopped

\* A request that has nothing dead left to compare goes on, or it fails.
LEMMA GoesOnAlive ==
  ASSUME TypeOK, NEW r \in Request, Stopped(r), NEW pc \in Location, To(r, pc), req[r].op # "refresh",
         req[r].pc \notin {"idle", "failed"}, StoreAges,
         pc = "failed" \/ req[r].pc # "read" \/ req[r].op \notin Presenting \/ ~Ineffective(r)
  PROVE  Ages(r)
<1>1. Only(r) /\ req'[r].op = req[r].op /\ req'[r].pc = pc /\ req'[r].dead = req[r].dead
  BY StoreTyping, ToMoves
<1>2. Stopped(r)'
  BY <1>1 DEF Stopped
<1> QED
  BY <1>1, <1>2 DEF Ages

\* Reading a password that is not superseded, or failing.
LEMMA ReadsPassword ==
  ASSUME TypeOK, NEW r \in Request, Stopped(r), req[r].op \in ByPassword, req[r].pc = "read",
         NEW cond \in BOOLEAN, cond => row.pw = req[r].with, NEW pc \in Location, Read(r, cond, pc)
  PROVE  Ages(r)
<1>0. row.pw \in Nat
  BY StoreTyping, BoundsAssumption DEF StoreTyped, Stored
<1>1. StoreAges
  BY SameStoreAges DEF Read, store
<1>2. req[r].op # "refresh"
  BY DEF ByPassword
<1>3. CASE cond
  <2>1. ~Ineffective(r) /\ To(r, pc)
    BY <1>0, <1>3 DEF Ineffective, Read, ToIf
  <2> QED
    BY <1>1, <1>2, <2>1, GoesOnAlive
<1>4. CASE ~cond
  <2>1. To(r, "failed") /\ "failed" \in Location
    BY <1>4 DEF Read, ToIf, Location, Over
  <2> QED
    BY <1>1, <1>2, <2>1, GoesOnAlive
<1> QED
  BY <1>3, <1>4

\* Any other step of an operation that presents nothing to be read.
LEMMA ReadsElse ==
  ASSUME TypeOK, NEW r \in Request, Stopped(r), req[r].op \notin Presenting \cup {"refresh"},
         req[r].pc \notin {"idle", "failed"}, NEW cond, NEW pc \in Location, Read(r, cond, pc)
  PROVE  Ages(r)
<1>1. StoreAges
  BY SameStoreAges DEF Read, store
<1>2. (To(r, pc) \/ To(r, "failed")) /\ "failed" \in Location
  BY DEF Read, ToIf, Location, Over
<1> QED
  BY <1>1, <1>2, GoesOnAlive

-----------------------------------------------------------------------------
\* The operations that compare a password.
LEMMA PasswordOpsAge ==
  ASSUME TypeOK, NEW r \in Request, Stopped(r), Login(r) \/ ChangePassword(r) \/ Disable(r)
  PROVE  Ages(r)
<1> USE DEF Op, Location, Over, ByPassword, Presenting
<1>0. row.pw \in Nat
  BY StoreTyping, BoundsAssumption DEF StoreTyped, Stored
<1>1. ASSUME NEW op \in ByPassword, NEW pw \in 1..row.pw, Begin(r, op, "read", pw, pw # row.pw)
      PROVE  Ages(r)
  <2>1. pw \in Nat /\ (pw # row.pw) \in BOOLEAN /\ (pw # row.pw => pw < row.pw)
    BY <1>0
  <2> QED
    BY <1>1, <2>1, BeginsPresenting
<1>2. ASSUME NEW op \in ByPassword, At(r, op, "read"),
             NEW cond \in BOOLEAN, cond => row.pw = req[r].with, NEW pc \in Location, Read(r, cond, pc)
      PROVE  Ages(r)
  BY <1>2, ReadsPassword DEF At
<1>3. CASE /\ At(r, "login", "issue") /\ To(r, "done") /\ NewToken
           /\ UNCHANGED <<calls, row, resets, key, black, client>>
  <2>1. StoreAges
    BY <1>3, SameStoreAges
  <2> QED
    BY <1>3, <2>1, GoesOnAlive DEF At
<1>4. CASE /\ At(r, "change", "write") /\ UpdatePassword /\ To(r, "done")
           /\ UNCHANGED <<calls, resets, key, tokens, black, client>>
  <2>1. StoreAges
    BY <1>4, WritesAge
  <2> QED
    BY <1>4, <2>1, GoesOnAlive DEF At
<1>5. CASE /\ At(r, "disable", "write") /\ DisableTwoFactor /\ To(r, "done")
           /\ UNCHANGED <<calls, resets, key, tokens, black, client>>
  <2>1. StoreAges
    BY <1>5, WritesAge
  <2> QED
    BY <1>5, <2>1, GoesOnAlive DEF At
<1>6. CASE Login(r)
  <2>1. CASE At(r, "login", "read") /\ Read(r, row.pw = req[r].with /\ ~row.tfa, "issue")
    <3> DEFINE cond == row.pw = req[r].with /\ ~row.tfa
    <3>1. cond \in BOOLEAN /\ (cond => row.pw = req[r].with) /\ Read(r, cond, "issue")
      BY <2>1
    <3> HIDE DEF cond
    <3> QED
      BY <1>2, <2>1, <3>1
  <2> QED
    BY <1>1, <1>3, <1>6, <2>1 DEF Login
<1>7. CASE ChangePassword(r)
  <2>1. CASE At(r, "change", "read") /\ Read(r, row.pw = req[r].with, "write")
    BY <1>2, <2>1
  <2> QED
    BY <1>1, <1>4, <1>7, <2>1 DEF ChangePassword
<1>8. CASE Disable(r)
  <2>1. CASE At(r, "disable", "read") /\ Read(r, row.pw = req[r].with, "write")
    BY <1>2, <2>1
  <2> QED
    BY <1>1, <1>5, <1>8, <2>1 DEF Disable
<1> QED
  BY <1>6, <1>7, <1>8

\* A reset token that is gone is refused when it is read.
LEMMA ResetAges ==
  ASSUME TypeOK, NEW r \in Request, Stopped(r), ResetPassword(r)
  PROVE  Ages(r)
<1> USE DEF Op, Location, Over, ByPassword, Presenting
<1>0. resets \in [1..MaxResets -> {"none", "fresh", "live", "expired", "used"}] /\ MaxResets \in Nat
  BY StoreTyping, BoundsAssumption DEF StoreTyped
<1>1. ASSUME NEW t \in DOMAIN resets, resets[t] # "none", Begin(r, "reset", "read", t, ~Usable(t))
      PROVE  Ages(r)
  <2>1. t \in Nat /\ (~Usable(t)) \in BOOLEAN /\ (~Usable(t) => resets[t] \in Gone)
    BY <1>0, <1>1 DEF Usable, Gone
  <2> QED
    BY <1>1, <2>1, BeginsPresenting
<1>2. CASE /\ At(r, "reset", "read") /\ ToIf(r, Usable(req[r].with), "write", "failed")
           /\ UNCHANGED <<calls, store>>
  <2>1. StoreAges
    BY <1>2, SameStoreAges DEF store
  <2>2. Usable(req[r].with) => ~Ineffective(r)
    BY <1>2 DEF Usable, Ineffective, Gone, At
  <2>3. CASE Usable(req[r].with)
    BY <1>2, <2>1, <2>2, <2>3, GoesOnAlive DEF At, ToIf
  <2>4. CASE ~Usable(req[r].with)
    BY <1>2, <2>1, <2>4, GoesOnAlive DEF At, ToIf
  <2> QED
    BY <2>3, <2>4
<1>3. CASE /\ At(r, "reset", "write") /\ UpdatePassword /\ To(r, "mark")
           /\ UNCHANGED <<calls, resets, key, tokens, black, client>>
  <2>1. StoreAges
    BY <1>3, WritesAge
  <2> QED
    BY <1>3, <2>1, GoesOnAlive DEF At
<1>4. CASE /\ At(r, "reset", "mark") /\ MarkAsUsed(req[r].with) /\ To(r, "done")
           /\ UNCHANGED <<calls, row, key, tokens, black, client>>
  <2>1. req[r].with \in Nat
    BY StoreTyping DEF Call
  <2>2. StoreAges
    BY <1>4, <2>1, WritesAge
  <2> QED
    BY <1>4, <2>2, GoesOnAlive DEF At
<1> QED
  BY <1>1, <1>2, <1>3, <1>4 DEF ResetPassword

\* A key that was revoked, or rotated away, is refused when it is read.
LEMMA UseAges ==
  ASSUME TypeOK, NEW r \in Request, Stopped(r), UseKey(r)
  PROVE  Ages(r)
<1> USE DEF Op, Location, Over, ByPassword, Presenting
<1>0. key.hash \in Nat
  BY StoreTyping, BoundsAssumption DEF StoreTyped, Stored
<1>1. ASSUME NEW h \in 1..key.hash, Begin(r, "use", "read", h, ~Validates(h))
      PROVE  Ages(r)
  <2>1. h \in Nat /\ (~Validates(h)) \in BOOLEAN
        /\ (~Validates(h) => key.hash # 0 /\ (~key.active \/ h < key.hash))
    BY <1>0 DEF Validates
  <2> QED
    BY <1>1, <2>1, BeginsPresenting
<1>2. CASE /\ At(r, "use", "read") /\ ToIf(r, Validates(req[r].with), "done", "failed")
           /\ UNCHANGED <<calls, store>>
  <2>1. StoreAges
    BY <1>2, SameStoreAges DEF store
  <2>2. Validates(req[r].with) => ~Ineffective(r)
    BY <1>0, <1>2 DEF Validates, Ineffective, At
  <2>3. CASE Validates(req[r].with)
    BY <1>2, <2>1, <2>2, <2>3, GoesOnAlive DEF At, ToIf
  <2>4. CASE ~Validates(req[r].with)
    BY <1>2, <2>1, <2>4, GoesOnAlive DEF At, ToIf
  <2> QED
    BY <2>3, <2>4
<1> QED
  BY <1>1, <1>2 DEF UseKey

-----------------------------------------------------------------------------
\* The operations that present nothing: they begin alive and stay so.
LEMMA PlainOpsAge ==
  ASSUME TypeOK, NEW r \in Request, Stopped(r),
         Register(r) \/ RequestReset(r) \/ Setup(r) \/ Enable(r) \/ CreateKey(r) \/ RotateKey(r) \/ RevokeKey(r)
  PROVE  Ages(r)
<1> USE DEF Op, Location, Over, ByPassword, Presenting
<1>1. ASSUME NEW op \in Op, NEW pc \in Location, NEW with \in Nat, Begin(r, op, pc, with, FALSE)
      PROVE  Ages(r)
  BY <1>1, BeginsAlive
<1>2. ASSUME NEW op \in {"register", "setup", "enable"}, At(r, op, "read"),
             NEW cond, NEW pc \in Location, Read(r, cond, pc)
      PROVE  Ages(r)
  BY <1>2, ReadsElse DEF At
\* Their other steps: what they write, if anything.
<1>3. ASSUME NEW op \in Op \ (Presenting \cup {"refresh"}), NEW at \in Location \ {"idle", "failed"},
             At(r, op, at), NEW pc \in Location, To(r, pc), StoreAges
      PROVE  Ages(r)
  BY <1>3, GoesOnAlive DEF At
<1>4. CASE Register(r)
  <2>1. CASE /\ At(r, "register", "insert") /\ InsertUser /\ NewToken /\ To(r, "done")
             /\ UNCHANGED <<calls, resets, key, black, client>>
    <3>1. StoreAges
      BY <2>1, WritesAge
    <3> QED
      BY <1>3, <2>1, <3>1
  <2>2. CASE At(r, "register", "read") /\ Read(r, ~HasAccount, "insert")
    BY <1>2, <2>2
  <2> QED
    BY <1>1, <1>4, <2>1, <2>2 DEF Register
<1>5. CASE RequestReset(r)
  <2>1. CASE /\ At(r, "forgot", "read") /\ ToIf(r, HasRecent, "done", "check")
             /\ UNCHANGED <<calls, store>>
    <3>1. StoreAges /\ (To(r, "done") \/ To(r, "check"))
      BY <2>1, SameStoreAges DEF store, ToIf
    <3> QED
      BY <1>3, <2>1, <3>1
  <2>2. CASE /\ At(r, "forgot", "check") /\ InvalidateAll /\ To(r, "insert")
             /\ UNCHANGED <<calls, row, key, tokens, black, client>>
    <3>1. StoreAges
      BY <2>2, WritesAge
    <3> QED
      BY <1>3, <2>2, <3>1
  <2>3. CASE /\ At(r, "forgot", "insert") /\ InsertReset /\ To(r, "done")
             /\ UNCHANGED <<calls, row, key, tokens, black, client>>
    <3>1. StoreAges
      BY <2>3, WritesAge
    <3> QED
      BY <1>3, <2>3, <3>1
  <2> QED
    BY <1>1, <1>5, <2>1, <2>2, <2>3 DEF RequestReset
<1>6. CASE Setup(r)
  <2>1. CASE /\ At(r, "setup", "write") /\ (\E s \in Secret \ {row.secret} : UpdateSecret(s)) /\ To(r, "done")
             /\ UNCHANGED <<calls, resets, key, tokens, black, client>>
    <3>1. StoreAges
      BY <2>1, WritesAge
    <3> QED
      BY <1>3, <2>1, <3>1
  <2>2. CASE At(r, "setup", "read") /\ Read(r, HasAccount, "write")
    BY <1>2, <2>2
  <2> QED
    BY <1>1, <1>6, <2>1, <2>2 DEF Setup
<1>7. CASE Enable(r)
  <2>1. CASE /\ At(r, "enable", "write") /\ EnableTwoFactor /\ To(r, "done")
             /\ UNCHANGED <<calls, resets, key, tokens, black, client>>
    <3>1. StoreAges
      BY <2>1, WritesAge
    <3> QED
      BY <1>3, <2>1, <3>1
  <2>2. CASE At(r, "enable", "read") /\ Read(r, row.secret # 0 /\ row.secret = req[r].with, "write")
    BY <1>2, <2>2
  <2>3. \A s \in Secret : s \in Nat
    BY DEF Secret
  <2> QED
    BY <1>1, <1>7, <2>1, <2>2, <2>3 DEF Enable
<1>8. CASE CreateKey(r)
  <2>1. CASE /\ At(r, "create", "insert") /\ InsertKey /\ To(r, "done")
             /\ UNCHANGED <<calls, row, resets, tokens, black, client>>
    <3>1. StoreAges
      BY <2>1, WritesAge
    <3> QED
      BY <1>3, <2>1, <3>1
  <2> QED
    BY <1>1, <1>8, <2>1 DEF CreateKey
<1>9. ASSUME NEW op \in {"rotate", "revoke"}, At(r, op, "read"), To(r, "write"), UNCHANGED <<calls, store>>
      PROVE  Ages(r)
  <2>1. StoreAges
    BY <1>9, SameStoreAges DEF store
  <2> QED
    BY <1>3, <1>9, <2>1
<1>10. CASE RotateKey(r)
  <2>1. CASE /\ At(r, "rotate", "write") /\ NewHash /\ To(r, "done")
             /\ UNCHANGED <<calls, row, resets, tokens, black, client>>
    <3>1. StoreAges
      BY <2>1, WritesAge
    <3> QED
      BY <1>3, <2>1, <3>1
  <2> QED
    BY <1>1, <1>9, <1>10, <2>1 DEF RotateKey
<1>11. CASE RevokeKey(r)
  <2>1. CASE /\ At(r, "revoke", "write") /\ Deactivate /\ To(r, "done")
             /\ UNCHANGED <<calls, row, resets, tokens, black, client>>
    <3>1. StoreAges
      BY <2>1, WritesAge
    <3> QED
      BY <1>3, <2>1, <3>1
  <2> QED
    BY <1>1, <1>9, <1>11, <2>1 DEF RevokeKey
<1> QED
  BY <1>4, <1>5, <1>6, <1>7, <1>8, <1>10, <1>11

\* A refresh writes nothing but tokens, and its request is not this part's.
LEMMA RefreshAges ==
  ASSUME TypeOK, NEW r \in Request, Refresh(r)
  PROVE  Ages(r)
<1> USE DEF Op, Location, Over
<1>1. UNCHANGED <<row, resets, key>>
  BY DEF Refresh, Begin, store
<1>2. Only(r) /\ req'[r].op = "refresh"
  <2>1. ASSUME NEW t \in tokens,
               Begin(r, "refresh", "check", IF t.out THEN 0 ELSE 1, t.out /\ client[ProcOf[r]])
        PROVE  Only(r) /\ req'[r].op = "refresh"
    <3>1. req[r] \in Call /\ req \in [Request -> Call]
      BY StoreTyping
    <3> QED
      BY <2>1, <3>1 DEF Begin, Only, Call
  <2>2. ASSUME NEW pc \in Location, To(r, pc), req[r].op = "refresh"
        PROVE  Only(r) /\ req'[r].op = "refresh"
    BY <2>2, StoreTyping, ToMoves
  <2> QED
    BY <2>1, <2>2 DEF Refresh, At, ToIf
<1> QED
  BY <1>1, <1>2, SameStoreAges DEF Ages, Stopped

\* A logout stops no request and starts none again, but for what it tells the
\* refreshes under way.
LEMMA LogoutAges ==
  ASSUME TypeOK, TypeOK', \A q \in Request : Stopped(q), NEW r \in Request, Logout(r)
  PROVE  StoreAges /\ \A q \in Request : Stopped(q)'
<1> USE DEF Op, Location, Over
<1>1. UNCHANGED <<row, resets, key>>
  BY DEF Logout, Begin, Read, store
<1>2. StoreAges
  BY <1>1, SameStoreAges
<1>3. CASE Ages(r)
  BY <1>2, <1>3, OthersStayStopped DEF Ages, Only
<1>4. CASE HasAccount /\ Begin(r, "logout", "read", 0, FALSE)
  BY <1>3, <1>4, BeginsAlive
<1>5. CASE At(r, "logout", "read") /\ Read(r, HasAccount, "write")
  <2>1. Ages(r)
    BY <1>5, ReadsElse DEF At, Presenting, ByPassword
  <2> QED
    BY <1>3, <2>1
<1>6. CASE At(r, "logout", "write") /\ To(r, "done")
  <2>1. Ages(r)
    BY <1>2, <1>6, GoesOnAlive DEF At
  <2> QED
    BY <1>3, <2>1
<1>7. CASE At(r, "logout", "write") /\ Blacklist(r)
  <2>1. ASSUME NEW q \in Request PROVE Stopped(q)'
    <3>0. req[q] \in Call
      BY StoreTyping
    <3>1. CASE q = r
      <4>1. req'[q].dead = req[q].dead /\ req'[q].op = "logout"
        BY <3>0, <3>1, <1>7 DEF Blacklist, At, Call
      <4> QED
        BY <3>1, <4>1, <1>7 DEF Stopped, At, Presenting, ByPassword
    <3>2. CASE q # r /\ At(q, "refresh", "check")
      <4>1. req'[q].op = "refresh"
        BY <3>0, <3>2, <1>7 DEF Blacklist, At, Call
      <4> QED
        BY <4>1 DEF Stopped
    <3>3. CASE q # r /\ ~At(q, "refresh", "check")
      <4>1. req'[q] = req[q]
        BY <3>3, <1>7 DEF Blacklist
      <4> QED
        BY <4>1, <1>2, OthersStayStopped
    <3> QED
      BY <3>1, <3>2, <3>3
  <2> QED
    BY <1>2, <2>1
<1> QED
  BY <1>4, <1>5, <1>6, <1>7 DEF Logout

LEMMA StepAges ==
  ASSUME TypeOK, TypeOK', \A q \in Request : Stopped(q), NEW r \in Request, Step(r)
  PROVE  StoreAges /\ \A q \in Request : Stopped(q)'
<1>1. CASE Ages(r)
  BY <1>1, OthersStayStopped DEF Ages, Only
<1>2. Ages(r) \/ Logout(r)
  BY PasswordOpsAge, ResetAges, UseAges, PlainOpsAge, RefreshAges DEF Step
<1> QED
  BY <1>1, <1>2, LogoutAges

\* Whatever else happens ends requests, or makes their tokens older.
LEMMA OthersAge ==
  ASSUME TypeOK, TypeOK', \A q \in Request : Stopped(q),
         \/ \E r \in Request : Throw(r)
         \/ \E t \in DOMAIN resets : Age(t)
         \/ Tick
         \/ \E p \in Proc : Restart(p)
         \/ UNCHANGED vars
  PROVE  StoreAges /\ \A q \in Request : Stopped(q)'
<1> USE DEF Location, Over
<1>1. ASSUME NEW r \in Request, Throw(r) PROVE StoreAges /\ \A q \in Request : Stopped(q)'
  <2>1. StoreAges
    BY <1>1, SameStoreAges DEF Throw, store
  <2>2. Only(r) /\ req'[r].pc = "failed"
    BY <1>1, StoreTyping, ToMoves DEF Throw
  <2>3. Stopped(r)'
    BY <2>2 DEF Stopped
  <2> QED
    BY <2>1, <2>2, <2>3, OthersStayStopped DEF Only
<1>2. ASSUME NEW t \in DOMAIN resets, Age(t) PROVE StoreAges /\ \A q \in Request : Stopped(q)'
  <2>1. t \in Nat
    BY StoreTyping, BoundsAssumption DEF StoreTyped
  <2>2. StoreAges
    BY <1>2, <2>1, WritesAge DEF Age
  <2> QED
    BY <1>2, <2>2, OthersStayStopped DEF Age
<1>3. CASE Tick \/ UNCHANGED vars
  <2>1. StoreAges /\ req' = req
    BY <1>3, SameStoreAges DEF Tick, vars
  <2> QED
    BY <2>1, OthersStayStopped
<1>4. ASSUME NEW p \in Proc, Restart(p) PROVE StoreAges /\ \A q \in Request : Stopped(q)'
  <2>1. StoreAges
    BY <1>4, SameStoreAges DEF Restart
  <2>2. ASSUME NEW q \in Request PROVE Stopped(q)'
    <3>1. CASE ProcOf[q] = p
      <4>1. req[q] \in Call
        BY StoreTyping
      <4>2. req'[q].pc = "idle"
        BY <1>4, <3>1, <4>1 DEF Restart, Call
      <4> QED
        BY <4>2 DEF Stopped
    <3>2. CASE ProcOf[q] # p
      <4>1. req'[q] = req[q]
        BY <1>4, <3>2 DEF Restart
      <4> QED
        BY <2>1, <4>1, OthersStayStopped
    <3> QED
      BY <3>1, <3>2
  <2> QED
    BY <2>1, <2>2
<1> QED
  BY <1>1, <1>2, <1>3, <1>4

LEMMA InitIsAlive == Init => DeadInv
<1>1. ASSUME Init, NEW r \in Request PROVE Stopped(r)
  BY <1>1 DEF Init, Stopped
<1> QED
  BY <1>1, InitHolds DEF DeadInv

LEMMA DeadInvKept == DeadInv /\ [Next]_vars => DeadInv' /\ StoreAges
<1> SUFFICES ASSUME DeadInv, [Next]_vars PROVE DeadInv' /\ StoreAges
  OBVIOUS
<1>1. TypeOK /\ SessionInv /\ TypeOK' /\ SessionInv' /\ \A q \in Request : Stopped(q)
  BY StepKeeps DEF DeadInv
<1>2. StoreAges /\ \A q \in Request : Stopped(q)'
  BY <1>1, StepAges, OthersAge DEF Next
<1> QED
  BY <1>1, <1>2 DEF DeadInv

\* No request that begins with a superseded password, a used, invalidated or
\* expired reset token, or a rotated or revoked key succeeds, however it
\* interleaves with whatever else is done to the account (auth.ts:112, 229,
\* 302, apiKey.ts:178).
THEOREM DeadCredentialsAlwaysFail == Spec => []DeadCredentialsFail
<1>1. DeadInv => DeadCredentialsFail
  <2> SUFFICES ASSUME DeadInv, NEW r \in Request, Effective(r) PROVE ~req[r].dead
    BY DEF DeadCredentialsFail
  <2>1. req[r].pc = "done" \/ At(r, "reset", "mark")
    BY DEF Effective
  <2>2. CASE req[r].op = "refresh"
    BY <2>1, <2>2 DEF DeadInv, SessionInv, At
  <2>3. CASE req[r].op # "refresh"
    BY <2>1, <2>3 DEF DeadInv, Stopped, At
  <2> QED
    BY <2>2, <2>3
<1> QED
  BY <1>1, InitIsAlive, DeadInvKept, PTL DEF Spec

\* A revoked key stays revoked, a reset token that is gone stays gone
\* (apiKey.ts:277, 311, passwordReset.ts:103).
THEOREM TheDeadStayDead == Spec => DeadStaysDead
<1>1. DeadInv /\ [Next]_vars =>
        [/\ key.hash # 0 /\ ~key.active => ~key'.active
         /\ \A t \in DOMAIN resets : resets[t] \in {"used", "expired"} => resets'[t] \in {"used", "expired"}]_vars
  BY DeadInvKept DEF StoreAges, Gone
<1> QED
  BY <1>1, InitIsAlive, DeadInvKept, PTL DEF Spec, DeadStaysDead
=============================================================================
