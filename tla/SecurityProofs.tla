--------------------------- MODULE SecurityProofs ----------------------------
(***************************************************************************)
(* What is proved of Security for every set of events, requests, results,  *)
(* responses and calls, and every limit: a threat has its result, and a    *)
(* block in force can always be undone.                                    *)
(***************************************************************************)
EXTENDS Security, FiniteSetTheorems, WellFoundedInduction, TLAPS

ResponseSpec == Response!Init /\ [][Response!Next]_Response!vars

-----------------------------------------------------------------------------
(* Sequences of work *)

Items(q) == {q[i] : i \in DOMAIN q}
IsWork(q) == q \in Seq(Items(q))

\* A sequence is one of the items it has.
LEMMA WorkOfSet == ASSUME NEW S, NEW q \in Seq(S) PROVE IsWork(q) /\ Items(q) \subseteq S
<1>1. q = [i \in 1..Len(q) |-> q[i]] /\ Len(q) \in Nat /\ DOMAIN q = 1..Len(q)
  OBVIOUS
<1>2. \A i \in 1..Len(q) : q[i] \in Items(q) /\ q[i] \in S
  BY <1>1 DEF Items
<1> QED
  BY <1>1, <1>2 DEF IsWork, Items

\* Two pieces of work one after the other have the items of both.
LEMMA WorkJoined ==
  ASSUME NEW p, NEW q, IsWork(p), IsWork(q)
  PROVE  IsWork(p \o q) /\ Items(p \o q) \subseteq Items(p) \cup Items(q)
<1> DEFINE S == Items(p) \cup Items(q)
<1>1. p \in Seq(S) /\ q \in Seq(S)
  <2>1. p = [i \in 1..Len(p) |-> p[i]] /\ Len(p) \in Nat /\ DOMAIN p = 1..Len(p)
    BY DEF IsWork
  <2>2. q = [i \in 1..Len(q) |-> q[i]] /\ Len(q) \in Nat /\ DOMAIN q = 1..Len(q)
    BY DEF IsWork
  <2>3. \A i \in 1..Len(p) : p[i] \in S
    BY <2>1 DEF Items
  <2>4. \A i \in 1..Len(q) : q[i] \in S
    BY <2>2 DEF Items
  <2> HIDE DEF S
  <2> QED
    BY <2>1, <2>2, <2>3, <2>4
<1> HIDE DEF S
<1>2. p \o q \in Seq(S)
  BY <1>1
<1> QED
  BY <1>2, WorkOfSet DEF S

\* Without its head, work has no other items.
LEMMA WorkLeft ==
  ASSUME NEW q, IsWork(q), q # <<>>
  PROVE  IsWork(Tail(q)) /\ Items(Tail(q)) \subseteq Items(q) /\ Head(q) \in Items(q)
<1> DEFINE S == Items(q)
<1>1. q \in Seq(S)
  BY DEF IsWork
<1> HIDE DEF S
<1>2. Tail(q) \in Seq(S) /\ Head(q) \in S
  BY <1>1
<1> QED
  BY <1>2, WorkOfSet DEF S

LEMMA NoWork == IsWork(<<>>) /\ Items(<<>>) = {}
<1>1. <<>> \in Seq({}) /\ DOMAIN <<>> = {}
  OBVIOUS
<1> QED
  BY <1>1, WorkOfSet DEF Items

LEMMA OneWork == ASSUME NEW x PROVE IsWork(<<x>>) /\ Items(<<x>>) = {x}
<1> PICK q : q = <<x>>
  OBVIOUS
<1>1. q \in Seq({x}) /\ DOMAIN q = {1} /\ q[1] = x
  OBVIOUS
<1>2. Items(q) = {x}
  BY <1>1 DEF Items
<1> QED
  BY <1>1, <1>2, WorkOfSet

\* The elements of a finite set, in some order.
LEMMA WorkOfFinite ==
  ASSUME NEW S, IsFiniteSet(S)
  PROVE  IsWork(Response!SetToSeq(S)) /\ Items(Response!SetToSeq(S)) \subseteq S
<1>1. Response!Cardinality(S) = Cardinality(S) /\ Cardinality(S) \in Nat
  BY FS_CardinalityType DEF Response!Cardinality, Cardinality
<1>2. PICK f : f \in Bijection(1..Cardinality(S), S)
  BY FS_CardinalityType DEF ExistsBijection
<1>3. f \in [1..Cardinality(S) -> S] /\ Response!IsInjective(f)
  BY <1>2 DEF Bijection, Injection, IsInjective, Response!IsInjective
<1>4. Response!SetToSeq(S) \in [1..Cardinality(S) -> S]
  BY <1>1, <1>3 DEF Response!SetToSeq
<1>5. Response!SetToSeq(S) \in Seq(S)
  BY <1>1, <1>4
<1> QED
  BY <1>5, WorkOfSet

LEMMA FiniteImage ==
  ASSUME NEW S, NEW T, NEW f, f = [x \in S |-> f[x]], T = {f[x] : x \in S}, IsFiniteSet(S)
  PROVE  IsFiniteSet(T)
<1>1. f \in Surjection(S, T)
  BY DEF Surjection
<1> QED
  BY <1>1, FS_Surjection

-----------------------------------------------------------------------------
(* The invariant *)

Known == Response!InitialResponses \cup AddedResponses
Target(e, action) ==
  IF action = "block_ip" THEN log[executions[e].of].result.ip ELSE log[executions[e].of].result.userId
Fails(e) == (e[2] = "lock_account" /\ Target(e, e[2]) = None) \/ e[2] = "notify_security"

Todo == UNION {Items(calls[c]) : c \in Response!Call}

\* What a run of a response has executed so far is of the run's threat, and of
\* this moment, since a run goes on while no time passes.
RunOf(x) ==
  /\ x.run \in Nat /\ x.run <= runs
  /\ \A e \in DOMAIN executions :
       e[1] = x.run => /\ executions[e].of = x.of
                       /\ executions[e].status \in {"pending", "executed", "failed"}
                       /\ executions[e].status = "executed" => executions[e].executedAt = now

\* What a call has still to do can be done.
TodoOf(x) ==
  /\ x.do # "settle" => x.of \in DOMAIN log
  /\ x.do = "respond" => x.response \in Known
  /\ x.do = "act" => RunOf(x)
  /\ x.do = "settle" => /\ x.execution \in DOMAIN executions
                        /\ x.failed => Fails(x.execution)

SameRun(x, y) == x.do = "act" /\ y.do = "act" /\ x.run = y.run => x.of = y.of

ExecutionOf(e) ==
  /\ executions[e] = [action |-> e[2], of |-> executions[e].of, response |-> executions[e].response,
                      status |-> executions[e].status, executedAt |-> executions[e].executedAt]
  /\ e[1] \in Nat /\ e[1] <= runs
  /\ executions[e].of \in DOMAIN log /\ executions[e].executedAt \in Int
  /\ executions[e].status = "pending" => executions[e].executedAt = Response!NoTime
  /\ executions[e].status = "failed" => Fails(e)

\* A block in force is of an execution that is kept at least as long.
BlockOf(b, action, key) ==
  /\ b = [active |-> b.active, expiresAt |-> b.expiresAt, by |-> b.by]
  /\ b.expiresAt \in Int
  /\ b.active =>
       /\ b.by \in DOMAIN executions /\ b.by[2] = action
       /\ Target(b.by, action) = key /\ (action = "lock_account" => key # None)
       /\ executions[b.by].status \in {"pending", "executed"}
       /\ b.expiresAt <= now + BlockFor
       /\ executions[b.by].status = "executed" => b.expiresAt <= executions[b.by].executedAt + BlockFor

Blocks ==
  /\ ipBlocks = [k \in Response!Ip |-> ipBlocks[k]]
  /\ accountLocks = [k \in Response!UserId |-> accountLocks[k]]
  /\ \A k \in Response!Ip : BlockOf(ipBlocks[k], "block_ip", k)
  /\ \A k \in Response!UserId : BlockOf(accountLocks[k], "lock_account", k)

ResponseTypes ==
  /\ now \in Nat /\ runs \in Nat
  /\ IsWork(log) /\ \A i \in DOMAIN log : log[i].result \in Results
  /\ responses \subseteq Known
  /\ \A t \in timers : t.of \in DOMAIN log /\ t.response \in Known
  /\ calls = [c \in Response!Call |-> calls[c]]
  /\ \A c \in Response!Call : IsWork(calls[c])
  /\ executions = [e \in DOMAIN executions |-> executions[e]]

Working ==
  /\ \A x \in Todo : TodoOf(x)
  /\ \A x, y \in Todo : SameRun(x, y)

ResponseInv ==
  /\ ResponseTypes
  /\ \A e \in DOMAIN executions : ExecutionOf(e)
  /\ Working
  /\ Blocks

\* It says what is to be shown.
LEMMA ResponseInvSuffices == ResponseInv => BlockCanBeUndone
<1> SUFFICES ASSUME ResponseInv PROVE BlockCanBeUndone
  OBVIOUS
<1>1. \A b \in Response!Range(ipBlocks) : \E k \in Response!Ip : b = ipBlocks[k]
  BY DEF Response!Range, ResponseInv, Blocks
<1>2. \A b \in Response!Range(accountLocks) : \E k \in Response!UserId : b = accountLocks[k]
  BY DEF Response!Range, ResponseInv, Blocks
<1> QED
  BY <1>1, <1>2 DEF ResponseInv, Blocks, BlockOf, BlockCanBeUndone, Response!BlockCanBeUndone

LEMMA InitResponseInv == Response!Init => ResponseInv
<1> SUFFICES ASSUME Response!Init PROVE ResponseInv
  OBVIOUS
<1>1. DOMAIN executions = {} /\ DOMAIN log = {} /\ IsWork(log)
  BY NoWork DEF Response!Init
<1>2. \A c \in Response!Call : calls[c] = <<>>
  BY DEF Response!Init
<1>3. Todo = {}
  BY <1>2, NoWork DEF Todo
<1>4. ResponseTypes
  BY <1>1, <1>2, NoWork DEF Response!Init, ResponseTypes, Known
<1>5. /\ ipBlocks = [k \in Response!Ip |-> Response!NoRecord]
      /\ accountLocks = [k \in Response!UserId |-> Response!NoRecord]
  BY DEF Response!Init
<1>6. \A action, k : BlockOf(Response!NoRecord, action, k)
  BY DEF BlockOf, Response!NoRecord
<1>7. Blocks
  BY <1>5, <1>6 DEF Blocks
<1> QED
  BY <1>1, <1>3, <1>4, <1>7 DEF ResponseInv, Working

-----------------------------------------------------------------------------
(* Steps that carry nothing out *)

LEMMA TodoIs == ASSUME NEW c \in Response!Call PROVE Items(calls[c]) \subseteq Todo
BY DEF Todo

\* A call has other work; the rest do not change.
LEMMA CallsBecome ==
  ASSUME ResponseTypes, NEW c \in Response!Call, NEW q, IsWork(q), calls' = [calls EXCEPT ![c] = q]
  PROVE  /\ calls' = [d \in Response!Call |-> calls'[d]] /\ \A d \in Response!Call : IsWork(calls'[d])
         /\ Todo' \subseteq Todo \cup Items(q)
<1>1. /\ calls'[c] = q /\ \A d \in Response!Call : d # c => calls'[d] = calls[d]
      /\ calls' = [d \in Response!Call |-> calls'[d]]
  BY DEF ResponseTypes
<1>2. \A d \in Response!Call : IsWork(calls'[d])
  BY <1>1 DEF ResponseTypes
<1>3. \A d \in Response!Call : Items(calls'[d]) \subseteq Todo \cup Items(q)
  BY <1>1, TodoIs
<1>4. Todo' = UNION {Items(calls'[d]) : d \in Response!Call}
  BY DEF Todo, Items, Response!Call
<1> QED
  BY <1>1, <1>2, <1>3, <1>4

\* A call that goes on has the new work and what it had left.
LEMMA CallGoesOn ==
  ASSUME ResponseTypes, NEW c \in Response!Call, calls[c] # <<>>, NEW w, IsWork(w), Response!GoesOn(c, w)
  PROVE  /\ calls' = [d \in Response!Call |-> calls'[d]] /\ \A d \in Response!Call : IsWork(calls'[d])
         /\ Todo' \subseteq Todo \cup Items(w)
<1>1. calls' = [calls EXCEPT ![c] = w \o Tail(calls[c])]
  BY DEF Response!GoesOn, ResponseTypes
<1>2. IsWork(calls[c]) /\ Items(calls[c]) \subseteq Todo
  BY TodoIs DEF ResponseTypes
<1>3. IsWork(Tail(calls[c])) /\ Items(Tail(calls[c])) \subseteq Items(calls[c])
  BY <1>2, WorkLeft
<1>4. IsWork(w \o Tail(calls[c])) /\ Items(w \o Tail(calls[c])) \subseteq Items(w) \cup Todo
  BY <1>2, <1>3, WorkJoined
<1> QED
  BY <1>1, <1>4, CallsBecome

\* The first of a call's work is something it has to do.
LEMMA DoneNow ==
  ASSUME ResponseTypes, NEW c \in Response!Call, calls[c] # <<>>
  PROVE  Head(calls[c]) \in Todo
<1>1. IsWork(calls[c]) /\ Items(calls[c]) \subseteq Todo
  BY TodoIs DEF ResponseTypes
<1> QED
  BY <1>1, WorkLeft

LEMMA NothingLeft == ASSUME Response!Quiet PROVE Todo = {}
<1>1. \A c \in Response!Call : Items(calls[c]) = {}
  BY NoWork DEF Response!Quiet
<1> QED
  BY <1>1 DEF Todo

\* What carries nothing out and leaves no action to be carried out keeps all.
LEMMA OnlyWork ==
  ASSUME ResponseInv, ResponseTypes',
         UNCHANGED <<now, log, runs, executions, ipBlocks, accountLocks>>,
         \A x \in Todo' : x \in Todo \/ (TodoOf(x) /\ x.do # "act")
  PROVE  ResponseInv'
<1>1. \A e \in DOMAIN executions : ExecutionOf(e)'
  BY DEF ResponseInv, ExecutionOf, Fails, Target
<1>2. ASSUME NEW x \in Todo' PROVE TodoOf(x)'
  <2>1. TodoOf(x)
    BY <1>2 DEF ResponseInv, Working
  <2> QED
    BY <2>1 DEF TodoOf, RunOf, Fails, Target, Known, Response!InitialResponses
<1>3. ASSUME NEW x \in Todo', NEW y \in Todo' PROVE SameRun(x, y)'
  BY <1>3 DEF ResponseInv, Working, SameRun
<1>4. Blocks'
  <2>1. ASSUME NEW k \in Response!Ip PROVE BlockOf(ipBlocks[k], "block_ip", k)'
    BY <2>1 DEF ResponseInv, Blocks, BlockOf, Target
  <2>2. ASSUME NEW k \in Response!UserId PROVE BlockOf(accountLocks[k], "lock_account", k)'
    BY <2>2 DEF ResponseInv, Blocks, BlockOf, Target
  <2> QED
    BY <2>1, <2>2 DEF ResponseInv, Blocks, Response!Ip, Response!UserId
<1> QED
  BY <1>1, <1>2, <1>3, <1>4 DEF ResponseInv, Working

\* The rest of the types, when only calls change.
LEMMA TypesOfWork ==
  ASSUME ResponseTypes, UNCHANGED <<now, runs, log, responses, timers, executions>>,
         calls' = [d \in Response!Call |-> calls'[d]], \A d \in Response!Call : IsWork(calls'[d])
  PROVE  ResponseTypes'
BY DEF ResponseTypes, Known, Response!InitialResponses, Response!Call, IsWork, Items

\* A call goes on to something that is no action.
LEMMA GoesOnWith ==
  ASSUME ResponseInv, NEW c \in Response!Call, calls[c] # <<>>, NEW w, IsWork(w), Response!GoesOn(c, w),
         \A x \in Items(w) : TodoOf(x) /\ x.do # "act",
         UNCHANGED <<now, log, runs, executions, ipBlocks, accountLocks, responses, timers>>
  PROVE  ResponseInv'
<1>1. /\ calls' = [d \in Response!Call |-> calls'[d]] /\ \A d \in Response!Call : IsWork(calls'[d])
      /\ Todo' \subseteq Todo \cup Items(w)
  BY CallGoesOn DEF ResponseInv
<1>2. ResponseTypes'
  BY <1>1, TypesOfWork DEF ResponseInv
<1>3. \A x \in Todo' : x \in Todo \/ (TodoOf(x) /\ x.do # "act")
  BY <1>1
<1> QED
  BY <1>2, <1>3, OnlyWork

LEMMA UpdateEntitiesKeeps ==
  ASSUME ResponseInv, NEW c \in Response!Call, Response!UpdateEntities(c) \/ Response!Report(c)
  PROVE  ResponseInv'
<1>1. /\ UNCHANGED <<now, log, runs, executions, ipBlocks, accountLocks, responses, timers>>
      /\ calls[c] # <<>> /\ Response!GoesOn(c, <<>>)
  BY DEF Response!UpdateEntities, Response!Report, Response!Doing
<1> QED
  BY <1>1, NoWork, GoesOnWith

LEMMA LogIsFinite == ASSUME ResponseTypes PROVE IsFiniteSet(DOMAIN log)
<1>1. Len(log) \in Nat /\ DOMAIN log = 1..Len(log)
  BY DEF ResponseTypes, IsWork
<1> QED
  BY <1>1, FS_Interval

LEMMA CorrelateKeeps ==
  ASSUME ResponseInv, NEW c \in Response!Call, Response!Correlate(c)
  PROVE  ResponseInv'
<1> PICK x : x = Head(calls[c])
  OBVIOUS
<1> PICK related : related = Response!findRelatedThreats(x.rule, x.of)
  OBVIOUS
<1>1. /\ UNCHANGED <<now, log, runs, executions, ipBlocks, accountLocks, responses, timers>>
      /\ calls[c] # <<>> /\ x.do = "correlate"
  BY DEF Response!Correlate, Response!Doing
<1>2. x.of \in DOMAIN log
  BY <1>1, DoneNow DEF ResponseInv, Working, TodoOf
<1>3. related \subseteq DOMAIN log /\ IsFiniteSet(related)
  <2>1. related \subseteq DOMAIN log
    BY DEF Response!findRelatedThreats, Response!getDetectionResults
  <2> QED
    BY <2>1, LogIsFinite, FS_Subset DEF ResponseInv
<1> DEFINE order == Append(Response!SetToSeq(related), x.of)
           answers == [k \in 1..(Cardinality(related) + 1) |-> [do |-> "answer", of |-> order[k]]]
<1>4. \/ Response!GoesOn(c, <<>>)
      \/ Response!GoesOn(c, answers)
  <2>1. Response!Cardinality(related) = Cardinality(related)
    BY DEF Response!Cardinality, Cardinality
  <2> QED
    BY <2>1 DEF Response!Correlate
<1>5. Cardinality(related) \in Nat /\ \A k \in 1..(Cardinality(related) + 1) : order[k] \in DOMAIN log
  <2>1. PICK f : f \in Bijection(1..Cardinality(related), related)
    BY <1>3, FS_CardinalityType DEF ExistsBijection
  <2>2. Response!SetToSeq(related) \in [1..Cardinality(related) -> related]
    <3>1. f \in [1..Cardinality(related) -> related] /\ Response!IsInjective(f)
      BY <2>1 DEF Bijection, Injection, IsInjective, Response!IsInjective
    <3>2. Response!Cardinality(related) = Cardinality(related)
      BY DEF Response!Cardinality, Cardinality
    <3> QED
      BY <3>1, <3>2 DEF Response!SetToSeq
  <2>3. Cardinality(related) \in Nat
    BY <1>3, FS_CardinalityType
  <2>4. PICK q : q = Response!SetToSeq(related)
    OBVIOUS
  <2>5. q \in Seq(DOMAIN log) /\ Len(q) = Cardinality(related)
    BY <1>3, <2>2, <2>3, <2>4
  <2>6. \A k \in 1..(Cardinality(related) + 1) : Append(q, x.of)[k] \in DOMAIN log
    BY <1>2, <2>3, <2>5
  <2> QED
    BY <2>3, <2>4, <2>6
<1>6. IsWork(answers) /\ \A y \in Items(answers) : y.do = "answer" /\ y.of \in DOMAIN log
  <2> PICK n : n = Cardinality(related) + 1 /\ n \in Nat
    BY <1>5
  <2> PICK f : f = order
    OBVIOUS
  <2>1. answers = [k \in 1..n |-> [do |-> "answer", of |-> f[k]]]
    OBVIOUS
  <2>2. \A k \in 1..n : f[k] \in DOMAIN log
    BY <1>5
  <2> HIDE DEF answers
  <2> DEFINE S == {[do |-> "answer", of |-> i] : i \in DOMAIN log}
  <2>3. \A k \in 1..n : [do |-> "answer", of |-> f[k]] \in S
    BY <2>2
  <2>4. \A y \in S : y.do = "answer" /\ y.of \in DOMAIN log
    OBVIOUS
  <2> HIDE DEF S
  <2>5. answers \in [1..n -> S]
    BY <2>1, <2>3
  <2>6. answers \in Seq(S)
    BY <2>5
  <2> QED
    BY <2>4, <2>6, WorkOfSet
<1> HIDE DEF answers
<1>7. \A y \in Items(answers) : TodoOf(y) /\ y.do # "act"
  BY <1>6 DEF TodoOf
<1> QED
  BY <1>1, <1>4, <1>6, <1>7, NoWork, GoesOnWith

-----------------------------------------------------------------------------
(* Which responses there are *)

LEMMA SixAreFinite == ASSUME NEW a, NEW b, NEW c, NEW d, NEW e, NEW f PROVE IsFiniteSet({a, b, c, d, e, f})
<1>1. IsFiniteSet({a})
  BY FS_Singleton
<1>2. IsFiniteSet({a} \cup {b})
  BY <1>1, FS_AddElement
<1>3. IsFiniteSet(({a} \cup {b}) \cup {c})
  BY <1>2, FS_AddElement
<1>4. IsFiniteSet((({a} \cup {b}) \cup {c}) \cup {d})
  BY <1>3, FS_AddElement
<1>5. IsFiniteSet(((({a} \cup {b}) \cup {c}) \cup {d}) \cup {e})
  BY <1>4, FS_AddElement
<1>6. IsFiniteSet((((({a} \cup {b}) \cup {c}) \cup {d}) \cup {e}) \cup {f})
  BY <1>5, FS_AddElement
<1>7. {a, b, c, d, e, f} = (((({a} \cup {b}) \cup {c}) \cup {d}) \cup {e}) \cup {f}
  OBVIOUS
<1> QED
  BY <1>6, <1>7

LEMMA FiniteRules == IsFiniteSet(Response!Rules)
<1>1. \A a, b, c, d, e : IsFiniteSet({a, b, c, d, e})
  <2> TAKE a, b, c, d, e
  <2>1. {a, b, c, d, e} = {a, b, c, d, e, e}
    OBVIOUS
  <2> QED
    BY <2>1, SixAreFinite
<1>2. IsFiniteSet(Response!DefaultRules)
  BY <1>1, ZenonT(60) DEF Response!DefaultRules
<1>3. Response!Rules \in SUBSET Response!DefaultRules
  BY DEF Response!Rules
<1> QED
  BY <1>2, <1>3, FS_Subset

LEMMA KnownIsFinite == IsFiniteSet(Known)
<1>1. IsFiniteSet(Response!DefaultResponses)
  BY SixAreFinite, ZenonT(60) DEF Response!DefaultResponses
<1>2. IsFiniteSet(Response!DefaultResponses \cup {Response!GeographicResponse})
  BY <1>1, FS_AddElement
<1>3. Response!InitialResponses \in SUBSET (Response!DefaultResponses \cup {Response!GeographicResponse})
  BY DEF Response!InitialResponses
<1>4. IsFiniteSet(Response!InitialResponses)
  BY <1>2, <1>3, FS_Subset
<1> QED
  BY <1>4, FS_Union, AddedAssumption DEF Known

LEMMA ActionsAreListed == ASSUME NEW p \in Known PROVE \E n \in Nat : DOMAIN p.actions = 1..n
<1>1. ASSUME NEW r \in Response!DefaultResponses PROVE \E n \in {3, 4, 5} : DOMAIN r.actions = 1..n
  <2>1. \A k, l, m : DOMAIN <<k, l, m>> = 1..3
    OBVIOUS
  <2>2. \A k, l, m, n : DOMAIN <<k, l, m, n>> = 1..4
    OBVIOUS
  <2>3. \A k, l, m, n, o : DOMAIN <<k, l, m, n, o>> = 1..5
    OBVIOUS
  <2>4. \/ \E k, l, m : r.actions = <<k, l, m>>
        \/ \E k, l, m, n : r.actions = <<k, l, m, n>>
        \/ \E k, l, m, n, o : r.actions = <<k, l, m, n, o>>
    BY <1>1 DEF Response!DefaultResponses
  <2> QED
    BY <2>1, <2>2, <2>3, <2>4
<1>2. DOMAIN Response!GeographicResponse.actions = 1..2
  BY DEF Response!GeographicResponse
<1>3. \A r \in AddedResponses : DOMAIN r.actions = 1..Len(r.actions) /\ Len(r.actions) \in Nat
  BY AddedAssumption
<1> QED
  BY <1>1, <1>2, <1>3 DEF Known, Response!InitialResponses

-----------------------------------------------------------------------------
(* Steps that begin something *)

LEMMA ProcessThreatDetectionKeeps ==
  ASSUME ResponseInv, NEW c \in Response!Call, Response!ProcessThreatDetection(c)
  PROVE  ResponseInv'
<1> PICK x : x = Head(calls[c])
  OBVIOUS
<1> DEFINE ps == Response!findMatchingResponses(log[x.of].result)
           S == {[do |-> "respond", of |-> x.of, response |-> p] : p \in ps}
<1>1. /\ UNCHANGED <<now, log, runs, executions, ipBlocks, accountLocks, responses, timers>>
      /\ calls[c] # <<>> /\ x.do = "answer"
      /\ Response!GoesOn(c, <<>>) \/ Response!GoesOn(c, Response!SetToSeq(S))
  BY DEF Response!ProcessThreatDetection, Response!Doing
<1>2. x.of \in DOMAIN log
  BY <1>1, DoneNow DEF ResponseInv, Working, TodoOf
<1>3. ps \in SUBSET Known
  BY DEF Response!findMatchingResponses, ResponseInv, ResponseTypes
<1>4. IsFiniteSet(S)
  <2>1. IsFiniteSet(ps)
    BY <1>3, KnownIsFinite, FS_Subset
  <2> HIDE DEF ps
  <2>2. PICK f : f = [p \in ps |-> [do |-> "respond", of |-> x.of, response |-> p]]
    OBVIOUS
  <2>3. f = [p \in ps |-> f[p]] /\ S = {f[p] : p \in ps}
    BY <2>2
  <2> HIDE DEF S
  <2> QED
    BY <2>1, <2>3, FiniteImage
<1>5. \A y \in S : TodoOf(y) /\ y.do # "act"
  BY <1>2, <1>3 DEF TodoOf
<1> HIDE DEF ps, S
<1>6. IsWork(Response!SetToSeq(S)) /\ Items(Response!SetToSeq(S)) \subseteq S
  BY <1>4, WorkOfFinite
<1> QED
  BY <1>1, <1>5, <1>6, NoWork, GoesOnWith

LEMMA ProcessSecurityEventKeeps ==
  ASSUME ResponseInv, NEW c \in Response!Call, NEW i \in DOMAIN log, Response!ProcessSecurityEvent(c, i)
  PROVE  ResponseInv'
<1> DEFINE S == {[do |-> "correlate", of |-> i, rule |-> r] : r \in Response!Rules}
           first == <<[do |-> "entities", of |-> i]>>
           answer == IF log[i].result.confidence >= 80 \/ log[i].result.riskScore >= 80
                     THEN <<[do |-> "answer", of |-> i]>> ELSE <<>>
           last == <<[do |-> "report", of |-> i]>>
           q == first \o Response!SetToSeq(S) \o answer \o last
<1>1. /\ UNCHANGED <<now, log, runs, executions, ipBlocks, accountLocks, responses, timers>>
      /\ calls' = [calls EXCEPT ![c] = q]
  BY DEF Response!ProcessSecurityEvent
<1>2. IsFiniteSet(S)
  <2>1. PICK f : f = [r \in Response!Rules |-> [do |-> "correlate", of |-> i, rule |-> r]]
    OBVIOUS
  <2>2. f = [r \in Response!Rules |-> f[r]] /\ S = {f[r] : r \in Response!Rules}
    BY <2>1
  <2> HIDE DEF S
  <2> QED
    BY <2>2, FiniteRules, FiniteImage
<1>3. \A y \in S : y.do = "correlate" /\ y.of = i
  OBVIOUS
<1> HIDE DEF S
<1>4. IsWork(Response!SetToSeq(S)) /\ Items(Response!SetToSeq(S)) \subseteq S
  BY <1>2, WorkOfFinite
<1> DEFINE mid == Response!SetToSeq(S)
           Begins(y) == y.do \in {"entities", "correlate", "answer", "report"} /\ y.of = i
<1>5. IsWork(first) /\ \A y \in Items(first) : Begins(y)
  BY OneWork
<1>6. IsWork(answer) /\ \A y \in Items(answer) : Begins(y)
  <2>1. CASE log[i].result.confidence >= 80 \/ log[i].result.riskScore >= 80
    BY <2>1, OneWork
  <2>2. CASE ~(log[i].result.confidence >= 80 \/ log[i].result.riskScore >= 80)
    BY <2>2, NoWork
  <2> QED
    BY <2>1, <2>2
<1>7. IsWork(last) /\ \A y \in Items(last) : Begins(y)
  BY OneWork
<1>8. IsWork(mid) /\ \A y \in Items(mid) : Begins(y)
  BY <1>3, <1>4
<1>9. \A y : Begins(y) => TodoOf(y) /\ y.do # "act"
  BY DEF TodoOf
<1> HIDE DEF first, answer, last, mid, Begins
<1>10. IsWork(first \o mid) /\ Items(first \o mid) \subseteq Items(first) \cup Items(mid)
  BY <1>5, <1>8, WorkJoined
<1>11. /\ IsWork(first \o mid \o answer)
       /\ Items(first \o mid \o answer) \subseteq Items(first) \cup Items(mid) \cup Items(answer)
  BY <1>6, <1>10, WorkJoined
<1>12. /\ IsWork(first \o mid \o answer \o last)
       /\ Items(first \o mid \o answer \o last) \subseteq Items(first) \cup Items(mid) \cup Items(answer) \cup Items(last)
  BY <1>7, <1>11, WorkJoined
<1>13. q = first \o mid \o answer \o last
  BY DEF mid
<1>14. IsWork(q) /\ \A y \in Items(q) : TodoOf(y) /\ y.do # "act"
  BY <1>5, <1>6, <1>7, <1>8, <1>9, <1>12, <1>13
<1> HIDE DEF q
<1>15. /\ calls' = [d \in Response!Call |-> calls'[d]] /\ \A d \in Response!Call : IsWork(calls'[d])
       /\ Todo' \subseteq Todo \cup Items(q)
  BY <1>1, <1>14, CallsBecome DEF ResponseInv
<1>16. ResponseTypes'
  BY <1>1, <1>15, TypesOfWork DEF ResponseInv
<1>17. \A x \in Todo' : x \in Todo \/ (TodoOf(x) /\ x.do # "act")
  BY <1>14, <1>15
<1> QED
  BY <1>1, <1>16, <1>17, OnlyWork

\* The responses there are change only while no call is under way.
LEMMA ResponsesKeep ==
  ASSUME ResponseInv, NEW p \in Known,
         (p \in AddedResponses /\ Response!AddResponse(p)) \/ Response!RemoveResponse(p)
  PROVE  ResponseInv'
<1>1. /\ UNCHANGED <<now, log, runs, executions, ipBlocks, accountLocks, timers, calls>>
      /\ responses' \subseteq responses \cup {p}
  BY DEF Response!AddResponse, Response!RemoveResponse
<1>2. ResponseTypes'
  BY <1>1 DEF ResponseInv, ResponseTypes, Known, Response!InitialResponses, Response!Call, IsWork, Items
<1>3. Todo' = Todo
  BY <1>1 DEF Todo, Items, Response!Call
<1> QED
  BY <1>1, <1>2, <1>3, OnlyWork

\* A detection result comes in: those before it keep their places.
LEMMA DetectKeeps ==
  ASSUME ResponseInv, NEW r \in Results, Response!Detect(r)
  PROVE  ResponseInv'
<1>1. /\ UNCHANGED <<now, runs, executions, ipBlocks, accountLocks, responses, timers, calls>>
      /\ log' = Append(log, [result |-> r, at |-> now]) /\ Response!Quiet
  BY DEF Response!Detect
<1>2. /\ \A i \in DOMAIN log : i \in DOMAIN log' /\ log'[i] = log[i]
      /\ \A i \in DOMAIN log' : log'[i].result \in Results
      /\ IsWork(log')
  <2> PICK x : x = [result |-> r, at |-> now]
    OBVIOUS
  <2> DEFINE S == Items(log) \cup {x}
  <2>1. log \in Seq(S)
    <3>1. log = [i \in 1..Len(log) |-> log[i]] /\ Len(log) \in Nat /\ DOMAIN log = 1..Len(log)
      BY DEF ResponseInv, ResponseTypes, IsWork
    <3>2. \A i \in 1..Len(log) : log[i] \in S
      BY <3>1 DEF Items
    <3> HIDE DEF S
    <3> QED
      BY <3>1, <3>2
  <2>2. x \in S /\ x.result = r /\ log' = Append(log, x)
    BY <1>1
  <2> HIDE DEF S
  <2>3. log' \in Seq(S) /\ Len(log') = Len(log) + 1 /\ Len(log) \in Nat
    BY <2>1, <2>2
  <2>4. \A i \in 1..Len(log) : log'[i] = log[i]
    BY <2>1, <2>2
  <2>5. log'[Len(log) + 1] = x
    BY <2>1, <2>2
  <2>6. DOMAIN log = 1..Len(log) /\ DOMAIN log' = 1..(Len(log) + 1)
    BY <2>1, <2>3
  <2>7. \A i \in DOMAIN log' : i \in DOMAIN log \/ i = Len(log) + 1
    BY <2>3, <2>6
  <2>8. IsWork(log')
    BY <2>3, WorkOfSet
  <2>9. \A i \in DOMAIN log : i \in DOMAIN log' /\ log'[i] = log[i]
    BY <2>3, <2>4, <2>6
  <2>10. \A i \in DOMAIN log : log[i].result \in Results
    BY DEF ResponseInv, ResponseTypes
  <2> QED
    BY <2>2, <2>5, <2>7, <2>8, <2>9, <2>10
<1>3. Todo' = {}
  <2>1. Todo' = Todo
    BY <1>1 DEF Todo, Items, Response!Call
  <2> QED
    BY <1>1, <2>1, NothingLeft
<1>4. ResponseTypes'
  <2>1. /\ responses' \subseteq Known' /\ \A t \in timers' : t.of \in DOMAIN log' /\ t.response \in Known'
    BY <1>1, <1>2 DEF ResponseInv, ResponseTypes, Known, Response!InitialResponses
  <2>2. calls' = [c \in Response!Call' |-> calls'[c]] /\ \A c \in Response!Call' : IsWork(calls[c])'
    BY <1>1 DEF ResponseInv, ResponseTypes, Response!Call, IsWork, Items
  <2>3. now' \in Nat /\ runs' \in Nat /\ executions' = [e \in DOMAIN executions' |-> executions'[e]]
    BY <1>1 DEF ResponseInv, ResponseTypes
  <2> QED
    BY <1>2, <2>1, <2>2, <2>3 DEF ResponseTypes, IsWork, Items
<1>5. ASSUME NEW e \in DOMAIN executions, NEW action PROVE Target(e, action)' = Target(e, action) /\ ExecutionOf(e)'
  <2>1. ExecutionOf(e)
    BY DEF ResponseInv
  <2>2. executions[e].of \in DOMAIN log' /\ log'[executions[e].of] = log[executions[e].of]
    BY <1>2, <2>1 DEF ExecutionOf
  <2>3. \A a : Target(e, a)' = Target(e, a)
    BY <1>1, <2>2 DEF Target
  <2>4. ExecutionOf(e)'
    BY <1>1, <2>1, <2>2, <2>3 DEF ExecutionOf, Fails
  <2> QED
    BY <2>3, <2>4
<1>6. Blocks'
  <2>1. ASSUME NEW k \in Response!Ip PROVE BlockOf(ipBlocks[k], "block_ip", k)'
    BY <1>1, <1>5, <2>1 DEF ResponseInv, Blocks, BlockOf
  <2>2. ASSUME NEW k \in Response!UserId PROVE BlockOf(accountLocks[k], "lock_account", k)'
    BY <1>1, <1>5, <2>2 DEF ResponseInv, Blocks, BlockOf
  <2> QED
    BY <1>1, <2>1, <2>2 DEF ResponseInv, Blocks, Response!Ip, Response!UserId
<1> QED
  BY <1>1, <1>3, <1>4, <1>5, <1>6 DEF ResponseInv, Working

-----------------------------------------------------------------------------
(* Runs of responses *)

LEMMA RunIsWork ==
  ASSUME ResponseTypes, NEW p \in Known, NEW i \in DOMAIN log
  PROVE  /\ IsWork(Response!ExecuteResponse(p, i, runs + 1))
         /\ \A x \in Items(Response!ExecuteResponse(p, i, runs + 1)) :
              x.of = i /\ (x.do = "log" \/ (x.do = "act" /\ x.run = runs + 1))
<1> PICK n \in Nat : DOMAIN p.actions = 1..n
  BY ActionsAreListed
<1> DEFINE item(k) == [do |-> "act", of |-> i, response |-> p, action |-> p.actions[k], run |-> runs + 1]
           acts == [k \in 1..n |-> item(k)]
           end == [do |-> "log", of |-> i, response |-> p]
           S == {item(k) : k \in 1..n}
<1>1. Response!ExecuteResponse(p, i, runs + 1) = acts \o <<end>>
  BY DEF Response!ExecuteResponse
<1>2. \A x \in S : x.of = i /\ x.do = "act" /\ x.run = runs + 1
  OBVIOUS
<1>3. end.of = i /\ end.do = "log"
  OBVIOUS
<1>4. \A k \in 1..n : item(k) \in S
  OBVIOUS
<1> HIDE DEF S, end, item
<1>5. acts \in [1..n -> S]
  BY <1>4
<1> HIDE DEF acts
<1>6. acts \in Seq(S)
  BY <1>5
<1>7. IsWork(acts) /\ Items(acts) \subseteq S
  BY <1>6, WorkOfSet
<1>8. IsWork(acts \o <<end>>) /\ Items(acts \o <<end>>) \subseteq S \cup {end}
  BY <1>7, OneWork, WorkJoined
<1> QED
  BY <1>1, <1>2, <1>3, <1>8

\* A run that begins has executed nothing yet.
LEMMA NewRunKeeps ==
  ASSUME ResponseInv, NEW p \in Known, NEW i \in DOMAIN log, runs' = runs + 1,
         UNCHANGED <<now, log, executions, ipBlocks, accountLocks, responses>>,
         timers' \subseteq timers,
         calls' = [d \in Response!Call |-> calls'[d]], \A d \in Response!Call : IsWork(calls'[d]),
         Todo' \subseteq Todo \cup Items(Response!ExecuteResponse(p, i, runs + 1))
  PROVE  ResponseInv'
<1>1. \A x \in Todo' : \/ x \in Todo
                       \/ x.of = i /\ (x.do = "log" \/ (x.do = "act" /\ x.run = runs + 1))
  BY RunIsWork DEF ResponseInv
<1>2. runs \in Nat
  BY DEF ResponseInv, ResponseTypes
<1>3. ResponseTypes'
  <2>1. responses' \subseteq Known' /\ \A t \in timers' : t.of \in DOMAIN log' /\ t.response \in Known'
    BY DEF ResponseInv, ResponseTypes, Known, Response!InitialResponses
  <2>2. calls' = [d \in Response!Call' |-> calls'[d]] /\ \A d \in Response!Call' : IsWork(calls[d])'
    BY DEF Response!Call, IsWork, Items
  <2>3. now' \in Nat /\ runs' \in Nat /\ executions' = [e \in DOMAIN executions' |-> executions'[e]]
    BY DEF ResponseInv, ResponseTypes
  <2>4. IsWork(log)' /\ \A j \in DOMAIN log' : log'[j].result \in Results
    BY DEF ResponseInv, ResponseTypes, IsWork, Items
  <2> QED
    BY <2>1, <2>2, <2>3, <2>4 DEF ResponseTypes
<1>4. \A e \in DOMAIN executions : e[1] \in Nat /\ e[1] <= runs
  BY DEF ResponseInv, ExecutionOf
<1>5. ASSUME NEW e \in DOMAIN executions' PROVE ExecutionOf(e)'
  BY <1>2, <1>5 DEF ResponseInv, ExecutionOf, Fails, Target
<1>6. ASSUME NEW x \in Todo' PROVE TodoOf(x)'
  <2>1. CASE x \in Todo
    <3>1. TodoOf(x)
      BY <2>1 DEF ResponseInv, Working
    <3> QED
      BY <1>2, <3>1 DEF TodoOf, RunOf, Fails, Target, Known, Response!InitialResponses
  <2>2. CASE x.of = i /\ (x.do = "log" \/ (x.do = "act" /\ x.run = runs + 1))
    <3>1. x.do = "act" => RunOf(x)'
      BY <1>2, <1>4, <2>2 DEF RunOf
    <3> QED
      BY <2>2, <3>1 DEF TodoOf
  <2> QED
    BY <1>1, <1>6, <2>1, <2>2
<1>7. ASSUME NEW x \in Todo', NEW y \in Todo' PROVE SameRun(x, y)'
  <2>1. \A z \in Todo : z.do = "act" => z.run \in Nat /\ z.run <= runs
    BY DEF ResponseInv, Working, TodoOf, RunOf
  <2>2. \A z \in Todo : z.do = "act" => z.run # runs + 1
    BY <1>2, <2>1
  <2>3. x \in Todo /\ y \in Todo => SameRun(x, y)
    BY DEF ResponseInv, Working
  <2> QED
    BY <1>1, <1>7, <2>2, <2>3 DEF SameRun
<1>8. Blocks'
  <2>1. ASSUME NEW k \in Response!Ip PROVE BlockOf(ipBlocks[k], "block_ip", k)'
    BY <2>1 DEF ResponseInv, Blocks, BlockOf, Target
  <2>2. ASSUME NEW k \in Response!UserId PROVE BlockOf(accountLocks[k], "lock_account", k)'
    BY <2>2 DEF ResponseInv, Blocks, BlockOf, Target
  <2> QED
    BY <2>1, <2>2 DEF ResponseInv, Blocks, Response!Ip, Response!UserId
<1> QED
  BY <1>3, <1>5, <1>6, <1>7, <1>8 DEF ResponseInv, Working

LEMMA ScheduleResponseKeeps ==
  ASSUME ResponseInv, NEW c \in Response!Call, Response!ScheduleResponse(c)
  PROVE  ResponseInv'
<1> PICK x : x = Head(calls[c])
  OBVIOUS
<1> PICK p : p = x.response
  OBVIOUS
<1>1. /\ UNCHANGED <<now, log, executions, ipBlocks, accountLocks, responses>>
      /\ calls[c] # <<>> /\ x.do = "respond"
  BY DEF Response!ScheduleResponse, Response!Doing
<1>2. x.of \in DOMAIN log /\ p \in Known
  BY <1>1, DoneNow DEF ResponseInv, Working, TodoOf
<1>3. CASE p.delayed
  <2>1. /\ timers' = timers \cup {[at |-> now + Delay, of |-> x.of, response |-> p]}
        /\ Response!GoesOn(c, <<>>) /\ runs' = runs
    BY <1>3 DEF Response!ScheduleResponse
  <2>2. /\ calls' = [d \in Response!Call |-> calls'[d]] /\ \A d \in Response!Call : IsWork(calls'[d])
        /\ Todo' \subseteq Todo
    BY <1>1, <2>1, NoWork, CallGoesOn DEF ResponseInv
  <2>3. \A t \in timers' : t.of \in DOMAIN log /\ t.response \in Known
    BY <1>2, <2>1 DEF ResponseInv, ResponseTypes
  <2>4. ResponseTypes'
    BY <1>1, <2>1, <2>2, <2>3
       DEF ResponseInv, ResponseTypes, Known, Response!InitialResponses, Response!Call, IsWork, Items
  <2> QED
    BY <1>1, <2>1, <2>2, <2>4, OnlyWork
<1>4. CASE ~p.delayed
  <2> PICK w : w = Response!ExecuteResponse(p, x.of, runs + 1)
    OBVIOUS
  <2>1. Response!GoesOn(c, w) /\ runs' = runs + 1 /\ timers' = timers
    BY <1>4 DEF Response!ScheduleResponse
  <2>2. IsWork(w)
    BY <1>2, RunIsWork DEF ResponseInv
  <2>3. /\ calls' = [d \in Response!Call |-> calls'[d]] /\ \A d \in Response!Call : IsWork(calls'[d])
        /\ Todo' \subseteq Todo \cup Items(w)
    BY <1>1, <2>1, <2>2, CallGoesOn DEF ResponseInv
  <2> QED
    BY <1>1, <1>2, <2>1, <2>3, NewRunKeeps
<1> QED
  BY <1>3, <1>4

LEMMA TimerFiresKeeps ==
  ASSUME ResponseInv, NEW t \in timers, Response!TimerFires(t)
  PROVE  ResponseInv'
<1> PICK w : w = Response!ExecuteResponse(t.response, t.of, runs + 1)
  OBVIOUS
<1>1. /\ UNCHANGED <<now, log, executions, ipBlocks, accountLocks, responses>>
      /\ timers' = timers \ {t} /\ runs' = runs + 1 /\ calls' = [calls EXCEPT ![1] = w]
  BY DEF Response!TimerFires
<1>2. t.of \in DOMAIN log /\ t.response \in Known /\ 1 \in Response!Call
  BY CallsAssumption DEF ResponseInv, ResponseTypes, Response!Call
<1>3. IsWork(w)
  BY <1>2, RunIsWork DEF ResponseInv
<1>4. /\ calls' = [d \in Response!Call |-> calls'[d]] /\ \A d \in Response!Call : IsWork(calls'[d])
      /\ Todo' \subseteq Todo \cup Items(w)
  BY <1>1, <1>2, <1>3, CallsBecome DEF ResponseInv
<1> QED
  BY <1>1, <1>2, <1>4, NewRunKeeps

-----------------------------------------------------------------------------
(* Actions *)

\* The rest of the types, when executions, blocks and calls change.
LEMMA TypesOfActions ==
  ASSUME ResponseTypes, UNCHANGED <<runs, log, responses, timers>>, now' \in Nat,
         executions' = [e \in DOMAIN executions' |-> executions'[e]],
         calls' = [d \in Response!Call |-> calls'[d]], \A d \in Response!Call : IsWork(calls'[d])
  PROVE  ResponseTypes'
BY DEF ResponseTypes, Known, Response!InitialResponses, Response!Call, IsWork, Items

\* Blocks are kept when each is as before of an execution that says the same,
\* or as it should be.
LEMMA BlocksKeep ==
  ASSUME ipBlocks' = [k \in Response!Ip |-> ipBlocks'[k]],
         accountLocks' = [k \in Response!UserId |-> accountLocks'[k]],
         \A k \in Response!Ip : BlockOf(ipBlocks[k], "block_ip", k)',
         \A k \in Response!UserId : BlockOf(accountLocks[k], "lock_account", k)'
  PROVE  Blocks'
BY DEF Blocks, Response!Ip, Response!UserId

LEMMA ExecuteActionKeeps ==
  ASSUME ResponseInv, NEW c \in Response!Call, Response!ExecuteAction(c)
  PROVE  ResponseInv'
<1> PICK x : x = Head(calls[c])
  OBVIOUS
<1> PICK e : e = <<x.run, x.action>>
  OBVIOUS
<1> PICK r : r = log[x.of].result
  OBVIOUS
<1> PICK record : record = [active |-> TRUE, expiresAt |-> now + BlockFor, by |-> e]
  OBVIOUS
<1>gone. PICK gone : gone = (x.action = "notify_security"
                        /\ ~(x.action = "notify_security" /\ \E p \in responses : p.type = r.type))
  OBVIOUS
<1>y. PICK y : y = [do |-> "settle", execution |-> e,
                    failed |-> (x.action = "lock_account" /\ ~(x.action = "lock_account" /\ r.userId # None)) \/ gone]
  OBVIOUS
<1>1. /\ UNCHANGED <<now, log, runs, responses, timers>>
      /\ calls[c] # <<>> /\ x.do = "act" /\ Response!GoesOn(c, <<y>>)
      /\ ipBlocks' = IF x.action = "block_ip" THEN [ipBlocks EXCEPT ![r.ip] = record] ELSE ipBlocks
      /\ accountLocks' = IF x.action = "lock_account" /\ r.userId # None
                         THEN [accountLocks EXCEPT ![r.userId] = record] ELSE accountLocks
      /\ executions' = [d \in DOMAIN executions \cup {e} |->
              IF d \in DOMAIN executions THEN executions[d]
              ELSE [action |-> x.action, of |-> x.of, response |-> x.response.id,
                    status |-> "pending", executedAt |-> Response!NoTime]]
  BY <1>gone, <1>y DEF Response!ExecuteAction, Response!Doing
<1>same. now' = now /\ log' = log /\ runs' = runs /\ responses' = responses
  BY <1>1
<1>2. x \in Todo /\ x.of \in DOMAIN log /\ RunOf(x)
  BY <1>1, DoneNow DEF ResponseInv, Working, TodoOf
<1>3. e[1] = x.run /\ e[2] = x.action
  OBVIOUS
<1>4. /\ DOMAIN executions' = DOMAIN executions \cup {e}
      /\ \A d \in DOMAIN executions : executions'[d] = executions[d]
      /\ executions' = [d \in DOMAIN executions' |-> executions'[d]]
      /\ e \notin DOMAIN executions =>
           executions'[e] = [action |-> e[2], of |-> x.of, response |-> x.response.id,
                             status |-> "pending", executedAt |-> Response!NoTime]
  BY <1>1, <1>3
<1>old. \A d \in DOMAIN executions : d \in DOMAIN executions' /\ executions'[d] = executions[d]
  BY <1>4
<1>new. e \notin DOMAIN executions =>
           executions'[e] = [action |-> e[2], of |-> x.of, response |-> x.response.id,
                             status |-> "pending", executedAt |-> Response!NoTime]
  BY <1>4
<1>5. /\ executions'[e].of = x.of
      /\ executions'[e].status \in {"pending", "executed", "failed"}
      /\ executions'[e].status = "executed" => executions'[e].executedAt = now
  <2>1. CASE e \in DOMAIN executions
    BY <1>2, <1>3, <1>4, <2>1 DEF RunOf
  <2>2. CASE e \notin DOMAIN executions
    BY <1>new, <2>2
  <2> QED
    BY <2>1, <2>2
<1>6. /\ \A d \in DOMAIN executions : \A action : Target(d, action)' = Target(d, action)
      /\ Target(e, "block_ip")' = r.ip /\ Target(e, "lock_account")' = r.userId
  BY <1>1, <1>4, <1>5 DEF Target
<1>target. \A d \in DOMAIN executions : \A action : Target(d, action)' = Target(d, action)
  BY <1>6
<1>7. ASSUME NEW d \in DOMAIN executions' PROVE ExecutionOf(d)'
  <2>1. CASE d \in DOMAIN executions
    BY <1>same, <1>old, <1>target, <2>1 DEF ResponseInv, ExecutionOf, Fails
  <2>2. CASE d = e /\ e \notin DOMAIN executions
    <3>1. e[1] \in Nat /\ e[1] <= runs /\ Response!NoTime \in Int
      BY <1>2, <1>3 DEF RunOf, Response!NoTime
    <3>2. executions'[d] = [action |-> d[2], of |-> executions'[d].of, response |-> executions'[d].response,
                            status |-> executions'[d].status, executedAt |-> executions'[d].executedAt]
      BY <1>new, <2>2
    <3>3. /\ executions'[d].of \in DOMAIN log /\ executions'[d].executedAt = Response!NoTime
          /\ executions'[d].status = "pending"
      BY <1>2, <1>new, <2>2
    <3> QED
      BY <1>1, <2>2, <3>1, <3>2, <3>3 DEF ExecutionOf, Response!NoTime
  <2> QED
    BY <1>4, <1>7, <2>1, <2>2
<1>8. /\ calls' = [d \in Response!Call |-> calls'[d]] /\ \A d \in Response!Call : IsWork(calls'[d])
      /\ Todo' \subseteq Todo \cup {y}
  BY <1>1, OneWork, CallGoesOn DEF ResponseInv
<1>todo. Todo' \subseteq Todo \cup {y} /\ y.do # "act"
  BY <1>8, <1>y
<1>9. ResponseTypes'
  BY <1>1, <1>4, <1>8, TypesOfActions DEF ResponseInv, ResponseTypes
<1>10. ASSUME NEW z \in Todo' PROVE TodoOf(z)'
  <2>1. CASE z \in Todo
    <3>1. TodoOf(z) /\ SameRun(x, z)
      BY <1>2, <2>1 DEF ResponseInv, Working
    <3>2. z.do = "act" => RunOf(z)'
      <4> SUFFICES ASSUME z.do = "act" PROVE RunOf(z)'
        OBVIOUS
      <4>1. RunOf(z)
        BY <3>1 DEF TodoOf
      <4>2. z.run = e[1] => z.of = x.of
        BY <1>1, <1>3, <3>1 DEF SameRun
      <4>3. ASSUME NEW d \in DOMAIN executions', d[1] = z.run
            PROVE  /\ executions'[d].of = z.of
                   /\ executions'[d].status \in {"pending", "executed", "failed"}
                   /\ executions'[d].status = "executed" => executions'[d].executedAt = now
        BY <1>4, <1>5, <4>1, <4>2, <4>3 DEF RunOf
      <4> QED
        BY <1>same, <4>1, <4>3 DEF RunOf
    <3>3. z.do = "settle" => z.execution \in DOMAIN executions' /\ (z.failed => Fails(z.execution)')
      BY <1>4, <1>6, <3>1 DEF TodoOf, Fails
    <3> QED
      BY <1>1, <3>1, <3>2, <3>3 DEF TodoOf, Known, Response!InitialResponses
  <2>2. CASE z = y
    <3>1. y.do = "settle" /\ y.execution = e /\ (y.failed => Fails(e)')
      BY <1>3, <1>6, <1>gone, <1>y DEF Fails
    <3> QED
      BY <1>4, <2>2, <3>1 DEF TodoOf
  <2> QED
    BY <1>8, <1>10, <2>1, <2>2
<1>11. ASSUME NEW z \in Todo', NEW u \in Todo' PROVE SameRun(z, u)'
  <2>1. z \in Todo /\ u \in Todo => SameRun(z, u)
    BY DEF ResponseInv, Working
  <2> QED
    BY <1>todo, <1>11, <2>1 DEF SameRun
<1>12. now \in Nat /\ BlockFor \in Nat
  BY KeepingAssumption DEF ResponseInv, ResponseTypes
<1>14. /\ e \in DOMAIN executions /\ executions[e].status = "failed" => Fails(e)'
       /\ e \in DOMAIN executions'
  <2>1. e \in DOMAIN executions /\ executions[e].status = "failed" => Fails(e)
    BY DEF ResponseInv, ExecutionOf
  <2>2. e \in DOMAIN executions => Target(e, e[2])' = Target(e, e[2])
    BY <1>target
  <2> QED
    BY <1>4, <2>1, <2>2 DEF Fails
<1>15. /\ x.action = "block_ip" => BlockOf(record, "block_ip", r.ip)'
       /\ x.action = "lock_account" /\ r.userId # None => BlockOf(record, "lock_account", r.userId)'
  <2>1. /\ record.active = TRUE /\ record.expiresAt = now + BlockFor /\ record.by = e
        /\ record = [active |-> record.active, expiresAt |-> record.expiresAt, by |-> record.by]
    OBVIOUS
  <2>2. executions'[e].status = "failed" =>
          (x.action = "lock_account" /\ r.userId = None) \/ x.action = "notify_security"
    <3>1. executions'[e].status = "failed" => e \in DOMAIN executions /\ executions[e].status = "failed"
      BY <1>new, <1>old
    <3> QED
      BY <1>3, <1>6, <1>14, <3>1 DEF Fails
  <2>3. executions'[e].status = "executed" => record.expiresAt <= executions'[e].executedAt + BlockFor
    BY <1>5, <1>12, <2>1
  <2>4. record.expiresAt \in Int /\ record.expiresAt <= now + BlockFor
    BY <1>12, <2>1
  <2>5. executions'[e].status # "failed" => executions'[e].status \in {"pending", "executed"}
    BY <1>5
  <2> QED
    BY <1>same, <1>3, <1>6, <1>14, <2>1, <2>2, <2>3, <2>4, <2>5 DEF BlockOf
<1>16. /\ ipBlocks' = [k \in Response!Ip |-> ipBlocks'[k]]
       /\ \A k \in Response!Ip : ipBlocks'[k] = ipBlocks[k] \/ (ipBlocks'[k] = record /\ k = r.ip /\ x.action = "block_ip")
  BY <1>1 DEF ResponseInv, Blocks
<1>17. /\ accountLocks' = [k \in Response!UserId |-> accountLocks'[k]]
       /\ \A k \in Response!UserId :
            \/ accountLocks'[k] = accountLocks[k]
            \/ accountLocks'[k] = record /\ k = r.userId /\ x.action = "lock_account" /\ r.userId # None
  BY <1>1 DEF ResponseInv, Blocks
<1>18. ASSUME NEW k \in Response!Ip PROVE BlockOf(ipBlocks[k], "block_ip", k)'
  <2>1. BlockOf(ipBlocks[k], "block_ip", k)
    BY <1>18 DEF ResponseInv, Blocks
  <2>2. CASE ipBlocks'[k] = ipBlocks[k]
    BY <1>same, <1>old, <1>target, <2>1, <2>2 DEF BlockOf
  <2>3. CASE ipBlocks'[k] = record /\ k = r.ip /\ x.action = "block_ip"
    BY <1>15, <2>3 DEF BlockOf
  <2> QED
    BY <1>16, <1>18, <2>2, <2>3
<1>19. ASSUME NEW k \in Response!UserId PROVE BlockOf(accountLocks[k], "lock_account", k)'
  <2>1. BlockOf(accountLocks[k], "lock_account", k)
    BY <1>19 DEF ResponseInv, Blocks
  <2>2. CASE accountLocks'[k] = accountLocks[k]
    BY <1>same, <1>old, <1>target, <2>1, <2>2 DEF BlockOf
  <2>3. CASE accountLocks'[k] = record /\ k = r.userId /\ x.action = "lock_account" /\ r.userId # None
    BY <1>15, <2>3 DEF BlockOf
  <2> QED
    BY <1>17, <1>19, <2>2, <2>3
<1>20. Blocks'
  BY <1>16, <1>17, <1>18, <1>19, BlocksKeep
<1> QED
  BY <1>7, <1>9, <1>10, <1>11, <1>20 DEF ResponseInv, Working

\* An execution gets another status and its time.
LEMMA ExecutedAt ==
  \A x, a, n :
    x = [action |-> a, of |-> x.of, response |-> x.response, status |-> x.status, executedAt |-> x.executedAt] =>
    [x EXCEPT !.status = "executed", !.executedAt = n] =
      [action |-> a, of |-> x.of, response |-> x.response, status |-> "executed", executedAt |-> n]
<1> TAKE x, a, n
<1>x. HAVE x = [action |-> a, of |-> x.of, response |-> x.response, status |-> x.status, executedAt |-> x.executedAt]
<1>m. PICK m : m = [x EXCEPT !.status = "executed"]
  OBVIOUS
<1>1. [x EXCEPT !.status = "executed", !.executedAt = n] = [m EXCEPT !.executedAt = n]
  BY <1>m
<1>2. m = [action |-> a, of |-> x.of, response |-> x.response, status |-> "executed", executedAt |-> x.executedAt]
  BY <1>x, <1>m
<1>3. [m EXCEPT !.executedAt = n] =
        [action |-> a, of |-> x.of, response |-> x.response, status |-> "executed", executedAt |-> n]
  BY <1>2
<1> QED
  BY <1>1, <1>3, Zenon

LEMMA SettleKeeps ==
  ASSUME ResponseInv, NEW c \in Response!Call, Response!Settle(c)
  PROVE  ResponseInv'
<1> PICK y : y = Head(calls[c])
  OBVIOUS
<1> PICK e : e = y.execution
  OBVIOUS
<1>1. /\ UNCHANGED <<now, log, runs, responses, timers, ipBlocks, accountLocks>>
      /\ calls[c] # <<>> /\ y.do = "settle" /\ Response!GoesOn(c, <<>>)
      /\ executions' = IF y.failed THEN [executions EXCEPT ![e].status = "failed"]
                       ELSE [executions EXCEPT ![e].status = "executed", ![e].executedAt = now]
  BY DEF Response!Settle, Response!Doing
<1>same. now' = now /\ log' = log /\ runs' = runs /\ responses' = responses
  BY <1>1
<1>2. e \in DOMAIN executions /\ (y.failed => Fails(e))
  BY <1>1, DoneNow DEF ResponseInv, Working, TodoOf
<1>3. ExecutionOf(e) /\ now \in Nat
  BY <1>2 DEF ResponseInv, ResponseTypes
<1>4. /\ executions' = [d \in DOMAIN executions |-> executions'[d]]
      /\ \A d \in DOMAIN executions : d # e => executions'[d] = executions[d]
  BY <1>1 DEF ResponseInv, ResponseTypes
<1>5. executions[e] = [action |-> e[2], of |-> executions[e].of, response |-> executions[e].response,
                       status |-> executions[e].status, executedAt |-> executions[e].executedAt]
  BY <1>3 DEF ExecutionOf
<1>6. /\ executions'[e] = [action |-> e[2], of |-> executions[e].of, response |-> executions[e].response,
                           status |-> executions'[e].status, executedAt |-> executions'[e].executedAt]
      /\ \/ y.failed /\ executions'[e].status = "failed" /\ executions'[e].executedAt = executions[e].executedAt
         \/ ~y.failed /\ executions'[e].status = "executed" /\ executions'[e].executedAt = now
  <2>1. CASE y.failed
    <3>1. executions' = [executions EXCEPT ![e].status = "failed"]
      BY <1>1, <2>1
    <3>2. executions'[e] = [executions[e] EXCEPT !.status = "failed"]
      BY <1>2, <3>1
    <3> QED
      BY <1>5, <2>1, <3>2
  <2>2. CASE ~y.failed
    <3>1. executions' = [executions EXCEPT ![e].status = "executed", ![e].executedAt = now]
      BY <1>1, <2>2
    <3>2. executions'[e] = [executions[e] EXCEPT !.status = "executed", !.executedAt = now]
      BY <1>2, <3>1
    <3>x. PICK x : x = executions[e]
      OBVIOUS
    <3>a. PICK a, n : a = e[2] /\ n = now
      OBVIOUS
    <3>3. x = [action |-> a, of |-> x.of, response |-> x.response, status |-> x.status, executedAt |-> x.executedAt]
      BY <1>5, <3>x, <3>a, Zenon
    <3>4. [x EXCEPT !.status = "executed", !.executedAt = n] =
            [action |-> a, of |-> x.of, response |-> x.response, status |-> "executed", executedAt |-> n]
      BY <3>3, ExecutedAt
    <3>5. executions'[e] = [action |-> e[2], of |-> executions[e].of, response |-> executions[e].response,
                            status |-> "executed", executedAt |-> now]
      BY <3>2, <3>4, <3>x, <3>a, Zenon
    <3>6. executions'[e].status = "executed" /\ executions'[e].executedAt = now
      BY <3>5
    <3> QED
      BY <2>2, <3>5, <3>6
  <2> QED
    BY <2>1, <2>2
<1>7. DOMAIN executions' = DOMAIN executions /\ \A d \in DOMAIN executions : executions'[d].of = executions[d].of
  BY <1>4, <1>6
<1>8. \A d \in DOMAIN executions : \A action : Target(d, action)' = Target(d, action)
  BY <1>same, <1>7 DEF Target
<1>9. ASSUME NEW d \in DOMAIN executions' PROVE ExecutionOf(d)'
  <2>1. ExecutionOf(d) /\ d \in DOMAIN executions
    BY <1>7, <1>9 DEF ResponseInv
  <2>2. CASE d # e
    BY <1>same, <1>4, <1>8, <2>1, <2>2 DEF ExecutionOf, Fails
  <2>3. CASE d = e
    <3>1. executions'[e].status = "failed" => Fails(e)'
      BY <1>2, <1>6, <1>8 DEF Fails
    <3>2. executions'[e].executedAt \in Int /\ executions'[e].status # "pending"
      BY <1>3, <1>6 DEF ExecutionOf
    <3>3. executions'[e].of = executions[e].of
      BY <1>6
    <3>4. executions'[e] = [action |-> e[2], of |-> executions'[e].of, response |-> executions'[e].response,
                            status |-> executions'[e].status, executedAt |-> executions'[e].executedAt]
      BY <1>6
    <3> QED
      BY <1>same, <1>3, <2>3, <3>1, <3>2, <3>3, <3>4 DEF ExecutionOf
  <2> QED
    BY <2>2, <2>3
<1>10. /\ calls' = [d \in Response!Call |-> calls'[d]] /\ \A d \in Response!Call : IsWork(calls'[d])
       /\ Todo' \subseteq Todo
  BY <1>1, NoWork, CallGoesOn DEF ResponseInv
<1>11. ResponseTypes'
  BY <1>1, <1>4, <1>7, <1>10, TypesOfActions DEF ResponseInv, ResponseTypes
<1>12. ASSUME NEW z \in Todo' PROVE TodoOf(z)'
  <2>1. TodoOf(z)
    BY <1>10, <1>12 DEF ResponseInv, Working
  <2>2. z.do = "act" => RunOf(z)'
    <3> SUFFICES ASSUME z.do = "act" PROVE RunOf(z)'
      OBVIOUS
    <3>1. RunOf(z)
      BY <2>1 DEF TodoOf
    <3>2. ASSUME NEW d \in DOMAIN executions, d[1] = z.run
          PROVE  /\ executions'[d].of = z.of
                 /\ executions'[d].status \in {"pending", "executed", "failed"}
                 /\ executions'[d].status = "executed" => executions'[d].executedAt = now
      BY <1>4, <1>6, <3>1, <3>2 DEF RunOf
    <3> QED
      BY <1>same, <1>7, <3>1, <3>2 DEF RunOf
  <2>3. z.do = "settle" => z.execution \in DOMAIN executions' /\ (z.failed => Fails(z.execution)')
    BY <1>7, <1>8, <2>1 DEF TodoOf, Fails
  <2> QED
    BY <1>same, <2>1, <2>2, <2>3 DEF TodoOf, Known, Response!InitialResponses
<1>13. ASSUME NEW z \in Todo', NEW u \in Todo' PROVE SameRun(z, u)'
  BY <1>10, <1>13 DEF ResponseInv, Working, SameRun
<1>14. ASSUME NEW b, NEW action \in {"block_ip", "lock_account"}, NEW k, BlockOf(b, action, k)
       PROVE  BlockOf(b, action, k)'
  <2>1. CASE b.by # e
    BY <1>same, <1>4, <1>7, <1>8, <1>14, <2>1 DEF BlockOf
  <2>2. CASE b.active /\ b.by = e
    <3>1. ~y.failed
      BY <1>2, <1>14, <2>2 DEF BlockOf, Fails, Target
    <3> QED
      BY <1>same, <1>3, <1>6, <1>7, <1>8, <1>14, <2>2, <3>1 DEF BlockOf
  <2>3. CASE ~b.active
    BY <1>14, <2>3 DEF BlockOf
  <2> QED
    BY <2>1, <2>2, <2>3
<1>15. Blocks'
  <2>1. ASSUME NEW k \in Response!Ip PROVE BlockOf(ipBlocks[k], "block_ip", k)'
    <3> PICK b : b = ipBlocks[k]
      OBVIOUS
    <3>1. BlockOf(b, "block_ip", k)' /\ ipBlocks'[k] = b
      BY <1>1, <1>14, <2>1 DEF ResponseInv, Blocks
    <3> QED
      BY <3>1 DEF BlockOf
  <2>2. ASSUME NEW k \in Response!UserId PROVE BlockOf(accountLocks[k], "lock_account", k)'
    <3> PICK b : b = accountLocks[k]
      OBVIOUS
    <3>1. BlockOf(b, "lock_account", k)' /\ accountLocks'[k] = b
      BY <1>1, <1>14, <2>2 DEF ResponseInv, Blocks
    <3> QED
      BY <3>1 DEF BlockOf
  <2> QED
    BY <1>1, <2>1, <2>2, BlocksKeep DEF ResponseInv, Blocks
<1> QED
  BY <1>9, <1>11, <1>12, <1>13, <1>15 DEF ResponseInv, Working

-----------------------------------------------------------------------------
(* What happens while no call is under way *)

\* No call has anything to do, so nothing else depends on the executions.
LEMMA QuietKeeps ==
  ASSUME ResponseInv, Response!Quiet, UNCHANGED <<runs, log, responses, timers, calls>>, now' \in Nat,
         executions' = [e \in DOMAIN executions' |-> executions'[e]],
         \A e \in DOMAIN executions' : ExecutionOf(e)', Blocks'
  PROVE  ResponseInv'
<1>1. Todo' = {}
  <2>1. Todo' = Todo
    BY DEF Todo, Items, Response!Call
  <2> QED
    BY <2>1, NothingLeft
<1>2. calls' = [d \in Response!Call |-> calls'[d]] /\ \A d \in Response!Call : IsWork(calls'[d])
  BY DEF ResponseInv, ResponseTypes
<1>3. ResponseTypes'
  BY <1>2, TypesOfActions DEF ResponseInv
<1> QED
  BY <1>1, <1>3 DEF ResponseInv, Working

LEMMA RollbackExecutionKeeps ==
  ASSUME ResponseInv, NEW e \in DOMAIN executions, Response!RollbackExecution(e)
  PROVE  ResponseInv'
<1> PICK r : r = log[executions[e].of].result
  OBVIOUS
<1>1. /\ UNCHANGED <<now, log, runs, responses, timers, calls>> /\ Response!Quiet
      /\ ipBlocks' = IF executions[e].action = "block_ip"
                     THEN [ipBlocks EXCEPT ![r.ip].active = FALSE] ELSE ipBlocks
      /\ accountLocks' = IF executions[e].action = "lock_account"
                         THEN [accountLocks EXCEPT ![r.userId].active = FALSE] ELSE accountLocks
      /\ executions' = [executions EXCEPT ![e].status = "rollback"]
  BY DEF Response!RollbackExecution
<1>same. now' = now /\ log' = log /\ runs' = runs
  BY <1>1
<1>2. ExecutionOf(e)
  BY DEF ResponseInv
<1>3. executions[e] = [action |-> e[2], of |-> executions[e].of, response |-> executions[e].response,
                       status |-> executions[e].status, executedAt |-> executions[e].executedAt]
  BY <1>2 DEF ExecutionOf
<1>4. executions[e].action = e[2]
  BY <1>3
<1>5. /\ executions' = [d \in DOMAIN executions |-> executions'[d]]
      /\ \A d \in DOMAIN executions : d # e => executions'[d] = executions[d]
      /\ executions'[e] = [executions[e] EXCEPT !.status = "rollback"]
  BY <1>1 DEF ResponseInv, ResponseTypes
<1>6. executions'[e] = [action |-> e[2], of |-> executions[e].of, response |-> executions[e].response,
                        status |-> "rollback", executedAt |-> executions[e].executedAt]
  BY <1>3, <1>5
<1>7. DOMAIN executions' = DOMAIN executions /\ \A d \in DOMAIN executions : executions'[d].of = executions[d].of
  BY <1>5, <1>6
<1>8. \A d \in DOMAIN executions : \A action : Target(d, action)' = Target(d, action)
  BY <1>same, <1>7 DEF Target
<1>9. ASSUME NEW d \in DOMAIN executions' PROVE ExecutionOf(d)'
  <2>1. ExecutionOf(d) /\ d \in DOMAIN executions
    BY <1>7, <1>9 DEF ResponseInv
  <2>2. CASE d # e
    BY <1>same, <1>5, <1>8, <2>1, <2>2 DEF ExecutionOf, Fails
  <2>3. CASE d = e
    BY <1>same, <1>6, <1>7, <1>8, <2>1, <2>3 DEF ExecutionOf, Fails
  <2> QED
    BY <2>2, <2>3
<1>10. ASSUME NEW b, NEW action, NEW k, BlockOf(b, action, k), b.active => b.by # e
       PROVE  BlockOf(b, action, k)'
  BY <1>same, <1>5, <1>7, <1>8, <1>10 DEF BlockOf
<1>11. ASSUME NEW b, NEW action, NEW k, BlockOf(b, action, k), NEW n, n = [b EXCEPT !.active = FALSE]
       PROVE  BlockOf(n, action, k)'
  <2>1. b = [active |-> b.active, expiresAt |-> b.expiresAt, by |-> b.by] /\ b.expiresAt \in Int
    BY <1>11 DEF BlockOf
  <2>2. n = [active |-> FALSE, expiresAt |-> b.expiresAt, by |-> b.by]
    BY <1>11, <2>1
  <2> QED
    BY <2>1, <2>2 DEF BlockOf
<1>12. ASSUME NEW k \in Response!Ip PROVE BlockOf(ipBlocks[k], "block_ip", k)'
  <2>1. BlockOf(ipBlocks[k], "block_ip", k) /\ ipBlocks = [q \in Response!Ip |-> ipBlocks[q]]
    BY <1>12 DEF ResponseInv, Blocks
  <2>2. \/ ipBlocks'[k] = [ipBlocks[k] EXCEPT !.active = FALSE]
        \/ ipBlocks'[k] = ipBlocks[k] /\ ~(executions[e].action = "block_ip" /\ r.ip = k)
    BY <1>1, <1>12, <2>1
  <2>3. CASE ipBlocks'[k] = [ipBlocks[k] EXCEPT !.active = FALSE]
    BY <1>11, <2>1, <2>3 DEF BlockOf
  <2>4. CASE ipBlocks'[k] = ipBlocks[k] /\ ~(executions[e].action = "block_ip" /\ r.ip = k)
    <3>1. ipBlocks[k].active => ipBlocks[k].by # e
      BY <1>4, <2>1, <2>4 DEF BlockOf, Target
    <3>2. BlockOf(ipBlocks[k], "block_ip", k) => \A b : b = ipBlocks[k] => BlockOf(b, "block_ip", k)'
      BY <1>10, <3>1
    <3> QED
      BY <2>1, <2>4, <3>2 DEF BlockOf
  <2> QED
    BY <2>2, <2>3, <2>4
<1>13. ASSUME NEW k \in Response!UserId PROVE BlockOf(accountLocks[k], "lock_account", k)'
  <2>1. BlockOf(accountLocks[k], "lock_account", k) /\ accountLocks = [q \in Response!UserId |-> accountLocks[q]]
    BY <1>13 DEF ResponseInv, Blocks
  <2>2. \/ accountLocks'[k] = [accountLocks[k] EXCEPT !.active = FALSE]
        \/ accountLocks'[k] = accountLocks[k] /\ ~(executions[e].action = "lock_account" /\ r.userId = k)
    BY <1>1, <1>13, <2>1
  <2>3. CASE accountLocks'[k] = [accountLocks[k] EXCEPT !.active = FALSE]
    BY <1>11, <2>1, <2>3 DEF BlockOf
  <2>4. CASE accountLocks'[k] = accountLocks[k] /\ ~(executions[e].action = "lock_account" /\ r.userId = k)
    <3>1. accountLocks[k].active => accountLocks[k].by # e
      BY <1>4, <2>1, <2>4 DEF BlockOf, Target
    <3>2. BlockOf(accountLocks[k], "lock_account", k) => \A b : b = accountLocks[k] => BlockOf(b, "lock_account", k)'
      BY <1>10, <3>1
    <3> QED
      BY <2>1, <2>4, <3>2 DEF BlockOf
  <2> QED
    BY <2>2, <2>3, <2>4
<1>14. Blocks'
  <2>1. /\ ipBlocks' = [k \in Response!Ip |-> ipBlocks'[k]]
        /\ accountLocks' = [k \in Response!UserId |-> accountLocks'[k]]
    BY <1>1 DEF ResponseInv, Blocks
  <2> QED
    BY <1>12, <1>13, <2>1, BlocksKeep
<1>15. now' \in Nat
  BY <1>same DEF ResponseInv, ResponseTypes
<1> QED
  BY <1>1, <1>5, <1>7, <1>9, <1>14, <1>15, QuietKeeps

\* A record as the hourly cleanup leaves it.
LEMMA ExpiredIs ==
  ASSUME NEW records, NEW S, records = [k \in S |-> records[k]]
  PROVE  /\ Response!Expired(records) = [k \in S |-> Response!Expired(records)[k]]
         /\ \A k \in S :
              \/ Response!Expired(records)[k] = [records[k] EXCEPT !.active = FALSE]
              \/ Response!Expired(records)[k] = records[k] /\ ~(records[k].expiresAt < now)
BY DEF Response!Expired

\* Executions are forgotten after the blocks they have made have expired.
LEMMA CleanupKeeps ==
  ASSUME ResponseInv, Response!Cleanup
  PROVE  ResponseInv'
<1> DEFINE stay == {e \in DOMAIN executions : \/ executions[e].executedAt = Response!NoTime
                                              \/ executions[e].executedAt >= now - KeepFor}
<1>1. /\ UNCHANGED <<now, log, runs, responses, timers, calls>> /\ Response!Quiet
      /\ ipBlocks' = Response!Expired(ipBlocks) /\ accountLocks' = Response!Expired(accountLocks)
      /\ executions' = Response!Restrict(executions, stay)
  BY DEF Response!Cleanup
<1>same. now' = now /\ log' = log /\ runs' = runs
  BY <1>1
<1>2. /\ DOMAIN executions' = stay /\ executions' = [e \in stay |-> executions'[e]]
      /\ \A e \in stay : executions'[e] = executions[e]
  BY <1>1 DEF Response!Restrict
<1>3. \A e \in stay : \A action : Target(e, action)' = Target(e, action)
  BY <1>same, <1>2 DEF Target
<1>4. ASSUME NEW e \in DOMAIN executions' PROVE ExecutionOf(e)'
  <2>1. e \in stay /\ ExecutionOf(e)
    BY <1>2, <1>4 DEF ResponseInv
  <2> HIDE DEF stay
  <2> QED
    BY <1>same, <1>2, <1>3, <2>1 DEF ExecutionOf, Fails
<1>5. now \in Nat /\ BlockFor \in Nat /\ KeepFor \in Nat /\ BlockFor <= KeepFor
  BY KeepingAssumption DEF ResponseInv, ResponseTypes
\* What is not kept was executed so long ago that its block has expired.
<1>6. ASSUME NEW b, NEW action, NEW k, BlockOf(b, action, k), ~(b.expiresAt < now)
      PROVE  BlockOf(b, action, k)'
  <2>1. CASE b.active
    <3>1. /\ b.by \in DOMAIN executions /\ executions[b.by].status \in {"pending", "executed"}
          /\ executions[b.by].status = "executed" => b.expiresAt <= executions[b.by].executedAt + BlockFor
          /\ b.expiresAt \in Int
      BY <1>6, <2>1 DEF BlockOf
    <3>2. /\ executions[b.by].status = "pending" => executions[b.by].executedAt = Response!NoTime
          /\ executions[b.by].executedAt \in Int
      BY <3>1 DEF ResponseInv, ExecutionOf
    <3>3. b.by \in stay
      BY <1>5, <1>6, <3>1, <3>2
    <3> HIDE DEF stay
    <3> QED
      BY <1>same, <1>2, <1>3, <1>6, <3>3 DEF BlockOf
  <2>2. CASE ~b.active
    BY <1>6, <2>2 DEF BlockOf
  <2> QED
    BY <2>1, <2>2
<1>7. ASSUME NEW b, NEW action, NEW k, BlockOf(b, action, k), NEW n, n = [b EXCEPT !.active = FALSE]
      PROVE  BlockOf(n, action, k)'
  <2>1. b = [active |-> b.active, expiresAt |-> b.expiresAt, by |-> b.by] /\ b.expiresAt \in Int
    BY <1>7 DEF BlockOf
  <2>2. n = [active |-> FALSE, expiresAt |-> b.expiresAt, by |-> b.by]
    BY <1>7, <2>1
  <2> QED
    BY <2>1, <2>2 DEF BlockOf
<1> HIDE DEF stay
<1>8. /\ ipBlocks = [k \in Response!Ip |-> ipBlocks[k]]
      /\ accountLocks = [k \in Response!UserId |-> accountLocks[k]]
  BY DEF ResponseInv, Blocks
<1>9. ASSUME NEW k \in Response!Ip PROVE BlockOf(ipBlocks[k], "block_ip", k)'
  <2> PICK b, n : b = ipBlocks[k] /\ n = ipBlocks'[k]
    OBVIOUS
  <2>1. BlockOf(b, "block_ip", k)
    BY <1>9 DEF ResponseInv, Blocks
  <2>2. n = [b EXCEPT !.active = FALSE] \/ (n = b /\ ~(b.expiresAt < now))
    BY <1>1, <1>8, <1>9, ExpiredIs
  <2>3. BlockOf(n, "block_ip", k)'
    BY <1>6, <1>7, <2>1, <2>2
  <2> QED
    BY <2>3 DEF BlockOf
<1>10. ASSUME NEW k \in Response!UserId PROVE BlockOf(accountLocks[k], "lock_account", k)'
  <2> PICK b, n : b = accountLocks[k] /\ n = accountLocks'[k]
    OBVIOUS
  <2>1. BlockOf(b, "lock_account", k)
    BY <1>10 DEF ResponseInv, Blocks
  <2>2. n = [b EXCEPT !.active = FALSE] \/ (n = b /\ ~(b.expiresAt < now))
    BY <1>1, <1>8, <1>10, ExpiredIs
  <2>3. BlockOf(n, "lock_account", k)'
    BY <1>6, <1>7, <2>1, <2>2
  <2> QED
    BY <2>3 DEF BlockOf
<1>11. Blocks'
  <2>1. /\ ipBlocks' = [k \in Response!Ip |-> ipBlocks'[k]]
        /\ accountLocks' = [k \in Response!UserId |-> accountLocks'[k]]
    BY <1>1, <1>8, ExpiredIs
  <2> QED
    BY <1>9, <1>10, <2>1, BlocksKeep
<1> QED
  BY <1>1, <1>same, <1>2, <1>4, <1>5, <1>11, QuietKeeps

LEMMA TickKeeps ==
  ASSUME ResponseInv, Response!Tick
  PROVE  ResponseInv'
<1>1. /\ UNCHANGED <<log, runs, responses, timers, calls, executions, ipBlocks, accountLocks>>
      /\ Response!Quiet /\ now' = now + 1
  BY DEF Response!Tick
<1>2. now \in Nat /\ now' \in Nat /\ BlockFor \in Nat
  BY <1>1, KeepingAssumption DEF ResponseInv, ResponseTypes
<1>3. ASSUME NEW e \in DOMAIN executions' PROVE ExecutionOf(e)'
  BY <1>1, <1>3 DEF ResponseInv, ExecutionOf, Fails, Target
<1>4. Blocks'
  <2>1. ASSUME NEW k \in Response!Ip PROVE BlockOf(ipBlocks[k], "block_ip", k)'
    BY <1>1, <1>2, <2>1 DEF ResponseInv, Blocks, BlockOf, Target
  <2>2. ASSUME NEW k \in Response!UserId PROVE BlockOf(accountLocks[k], "lock_account", k)'
    BY <1>1, <1>2, <2>2 DEF ResponseInv, Blocks, BlockOf, Target
  <2> QED
    BY <1>1, <2>1, <2>2, BlocksKeep DEF ResponseInv, Blocks
<1>5. executions' = [e \in DOMAIN executions' |-> executions'[e]]
  BY <1>1 DEF ResponseInv, ResponseTypes
<1> QED
  BY <1>1, <1>2, <1>3, <1>4, <1>5, QuietKeeps

-----------------------------------------------------------------------------
LEMMA ResponseNextKeeps ==
  ASSUME ResponseInv, [Response!Next]_Response!vars
  PROVE  ResponseInv'
<1>1. CASE UNCHANGED Response!vars
  <2>1. /\ UNCHANGED <<now, log, runs, executions, ipBlocks, accountLocks, responses, timers, calls>>
    BY <1>1 DEF Response!vars
  <2>2. calls' = [d \in Response!Call |-> calls'[d]] /\ \A d \in Response!Call : IsWork(calls'[d])
    BY <2>1 DEF ResponseInv, ResponseTypes
  <2>3. ResponseTypes'
    BY <2>1, <2>2, TypesOfWork DEF ResponseInv
  <2>4. Todo' = Todo
    BY <2>1 DEF Todo, Items, Response!Call
  <2> QED
    BY <2>1, <2>3, <2>4, OnlyWork
<1>2. CASE \E c \in Response!Call : Response!Step(c)
  BY <1>2, UpdateEntitiesKeeps, CorrelateKeeps, ProcessThreatDetectionKeeps, ScheduleResponseKeeps,
     ExecuteActionKeeps, SettleKeeps DEF Response!Step
<1>3. CASE \E p \in AddedResponses : Response!AddResponse(p)
  BY <1>3, ResponsesKeep DEF Known
<1>4. CASE \E p \in responses : Response!RemoveResponse(p)
  <2>1. responses \subseteq Known
    BY DEF ResponseInv, ResponseTypes
  <2> QED
    BY <1>4, <2>1, ResponsesKeep
<1> QED
  BY <1>1, <1>2, <1>3, <1>4, DetectKeeps, ProcessSecurityEventKeeps, TimerFiresKeeps,
     RollbackExecutionKeeps, CleanupKeeps, TickKeeps DEF Response!Next

\* Whatever is blocked or locked can be let in again: the execution that shut
\* it out is kept until the block has ended and not rolled back before, though
\* a block overwrites another, actions of one run fail or repeat, and calls
\* overtake each other (automatedResponse.ts, cleanupOldExecutions).
THEOREM BlocksCanBeUndone == ResponseSpec => []BlockCanBeUndone
<1> QED
  BY InitResponseInv, ResponseNextKeeps, ResponseInvSuffices, PTL DEF ResponseSpec

-----------------------------------------------------------------------------
(* Places of a list, in their order. The naturals are well-founded, which     *)
(* gives a least number of a set, and by it induction.                        *)

LEMMA LeastNumber ==
  ASSUME NEW S \in SUBSET Nat, S # {}
  PROVE  \E n \in S : \A m \in S : n <= m
<1> DEFINE R == {p \in Nat \X Nat : p[1] < p[2]}
<1>1. IsWellFoundedOn(R, Nat)
  BY NatLessThanWellFounded DEF OpToRel
<1> HIDE DEF R
<1>2. PICK n \in S : \A m \in S : <<m, n>> \notin R
  BY <1>1, WFMin
<1>3. \A m \in S : ~(m < n)
  BY <1>2 DEF R
<1> QED
  BY <1>3

LEMMA NumberInduction ==
  ASSUME NEW S, 0 \in S, \A n \in Nat : n \in S => n + 1 \in S
  PROVE  Nat \subseteq S
<1> SUFFICES ASSUME Nat \ S # {} PROVE FALSE
  OBVIOUS
<1>1. PICK n \in Nat \ S : \A m \in Nat \ S : n <= m
  BY LeastNumber
<1>2. n # 0 /\ n - 1 \in Nat
  BY <1>1
<1>3. n - 1 \in S
  BY <1>1, <1>2
<1> QED
  BY <1>1, <1>2, <1>3

LEMMA PlacesAreCounted == \A S : Detection!Cardinality(S) = Cardinality(S)
BY DEF Detection!Cardinality, Cardinality

Upto(S, i) == {j \in S : j <= i}

LEMMA UptoAdds ==
  ASSUME NEW n \in Nat, NEW S \in SUBSET (1..n), NEW i \in 1..n
  PROVE  Cardinality(Upto(S, i)) = Cardinality(Upto(S, i - 1)) + (IF i \in S THEN 1 ELSE 0)
<1>n. \A j \in S : j \in Nat /\ 1 <= j /\ j <= n
  OBVIOUS
<1>i. \A m, x : x \in Upto(S, m) <=> x \in S /\ x <= m
  BY DEF Upto
<1>f. \A m : IsFiniteSet(Upto(S, m)) /\ Cardinality(Upto(S, m)) \in Nat
  <2> TAKE m
  <2>1. Upto(S, m) \subseteq 1..n
    BY <1>i
  <2>2. IsFiniteSet(1..n)
    BY FS_Interval, 1 \in Int, n \in Int
  <2> QED
    BY <2>1, <2>2, FS_Subset, FS_CardinalityType
<1>b. \A j \in S : j <= i <=> j <= i - 1 \/ j = i
  BY <1>n
<1>1. CASE i \in S
  <2>0. \A x : x \in Upto(S, i) <=> x \in Upto(S, i - 1) \/ x = i
    BY <1>i, <1>b, <1>1
  <2>1. Upto(S, i) = Upto(S, i - 1) \cup {i} /\ i \notin Upto(S, i - 1)
    BY <1>i, <2>0
  <2>2. Cardinality(Upto(S, i)) = Cardinality(Upto(S, i - 1)) + 1
    BY <1>f, <2>1, FS_AddElement
  <2> QED
    BY <1>1, <2>2
<1>2. CASE i \notin S
  <2>0. \A x : x \in Upto(S, i) <=> x \in Upto(S, i - 1)
    BY <1>i, <1>b, <1>2
  <2>1. Upto(S, i) = Upto(S, i - 1)
    BY <2>0
  <2>2. Cardinality(Upto(S, i - 1)) \in Nat
    BY <1>f
  <2> QED
    BY <1>2, <2>1, <2>2
<1> QED
  BY <1>1, <1>2

\* How many places there are up to each of them.
LEMMA UptoGrows ==
  ASSUME NEW n \in Nat, NEW S \in SUBSET (1..n)
  PROVE  /\ IsFiniteSet(S) /\ Cardinality(S) \in Nat /\ Cardinality(S) <= n
         /\ \A i : Cardinality(Upto(S, i)) \in Nat /\ Cardinality(Upto(S, i)) <= Cardinality(S)
         /\ Upto(S, 0) = {} /\ Upto(S, n) = S
         /\ \A i \in 1..n : Cardinality(Upto(S, i)) =
              Cardinality(Upto(S, i - 1)) + (IF i \in S THEN 1 ELSE 0)
         /\ \A i, j \in S : i < j => Cardinality(Upto(S, i)) < Cardinality(Upto(S, j))
<1>1. IsFiniteSet(1..n) /\ Cardinality(1..n) = n
  BY FS_Interval, 1 \in Int, n \in Int
<1>2. \A j \in S : j \in Nat /\ 1 <= j /\ j <= n
  OBVIOUS
<1>3. IsFiniteSet(S) /\ Cardinality(S) \in Nat /\ Cardinality(S) <= n
  <2>1. S \subseteq 1..n
    OBVIOUS
  <2>2. IsFiniteSet(S) /\ Cardinality(S) <= Cardinality(1..n)
    BY <1>1, <2>1, FS_Subset
  <2> QED
    BY <1>1, <2>2, FS_CardinalityType
<1>4. ASSUME NEW i
      PROVE  /\ Upto(S, i) \subseteq S /\ IsFiniteSet(Upto(S, i))
             /\ Cardinality(Upto(S, i)) \in Nat /\ Cardinality(Upto(S, i)) <= Cardinality(S)
  <2>1. Upto(S, i) \subseteq S
    BY DEF Upto
  <2> QED
    BY <1>3, <2>1, FS_Subset, FS_CardinalityType
<1>in. \A i, x : x \in Upto(S, i) <=> x \in S /\ x <= i
  BY DEF Upto
<1>5. Upto(S, 0) = {} /\ Upto(S, n) = S
  <2>1. \A x : x \notin Upto(S, 0)
    <3>1. \A x \in S : ~(x <= 0)
      BY <1>2
    <3> QED
      BY <1>in, <3>1
  <2>2. \A x : x \in Upto(S, n) <=> x \in S
    BY <1>2, <1>in
  <2> QED
    BY <2>1, <2>2
<1>6. \A i \in 1..n : Cardinality(Upto(S, i)) = Cardinality(Upto(S, i - 1)) + (IF i \in S THEN 1 ELSE 0)
  <2> TAKE i \in 1..n
  <2> QED
    BY ONLY n \in Nat, S \in SUBSET (1..n), i \in 1..n, UptoAdds
<1>7. ASSUME NEW i \in S, NEW j \in S, i < j
      PROVE  Cardinality(Upto(S, i)) < Cardinality(Upto(S, j))
  <2>0. j \in 1..n /\ i \in Nat /\ i <= j - 1
    BY <1>2, <1>7
  <2>1. Upto(S, i) \subseteq Upto(S, j - 1)
    <3>1. \A x \in S : x <= i => x <= j - 1
      BY <1>2, <2>0
    <3> QED
      BY <1>in, <3>1
  <2>2. Cardinality(Upto(S, i)) <= Cardinality(Upto(S, j - 1))
    BY <1>4, <2>1, FS_Subset
  <2>3. Cardinality(Upto(S, j)) = Cardinality(Upto(S, j - 1)) + 1
    BY <1>6, <2>0
  <2>4. Cardinality(Upto(S, i)) \in Nat /\ Cardinality(Upto(S, j - 1)) \in Nat
    BY <1>4
  <2> QED
    BY <2>2, <2>3, <2>4
<1> QED
  BY <1>3, <1>4, <1>5, <1>6, <1>7

\* The k-th place is the one up to which there are k.
LEMMA NthIsThere ==
  ASSUME NEW n \in Nat, NEW S \in SUBSET (1..n), NEW k \in 1..Cardinality(S)
  PROVE  Detection!Nth(S, k) \in S /\ Cardinality(Upto(S, Detection!Nth(S, k))) = k
<1> DEFINE Q == {i \in 0..n : Cardinality(Upto(S, i)) >= k}
<1>1. n \in Q
  BY UptoGrows
<1>2. PICK i \in Q : \A j \in Q : i <= j
  <2>1. Q \in SUBSET Nat /\ Q # {}
    BY <1>1
  <2> HIDE DEF Q
  <2> QED
    BY <2>1, LeastNumber
<1>3. i # 0
  <2>1. Cardinality(Upto(S, 0)) = 0
    BY UptoGrows, FS_EmptySet
  <2> QED
    BY <2>1
<1>4. i \in 1..n /\ i - 1 \in 0..n
  BY <1>3
<1>5. ~(Cardinality(Upto(S, i - 1)) >= k)
  BY <1>2, <1>4
<1>6. PICK c \in Nat, d \in Nat : c = Cardinality(Upto(S, i)) /\ d = Cardinality(Upto(S, i - 1))
  BY UptoGrows
<1>7. c = d + (IF i \in S THEN 1 ELSE 0)
  <2>1. Cardinality(Upto(S, i)) = Cardinality(Upto(S, i - 1)) + (IF i \in S THEN 1 ELSE 0)
    BY ONLY <1>4, UptoAdds, n \in Nat, S \in SUBSET (1..n)
  <2> QED
    BY <1>6, <2>1
<1>8. c >= k /\ d < k /\ k \in Nat
  BY <1>2, <1>5, <1>6
<1>9. i \in S /\ c = k
  <2> HIDE DEF Q
  <2> QED
    BY <1>6, <1>7, <1>8
<1>10. \E j \in S : Detection!Cardinality({m \in S : m <= j}) = k
  BY <1>6, <1>9, PlacesAreCounted DEF Upto
<1> QED
  BY <1>10, PlacesAreCounted DEF Detection!Nth, Upto

\* Places keep their order, none is left out and none comes twice.
LEMMA NthIsOrder ==
  ASSUME NEW n \in Nat, NEW S \in SUBSET (1..n)
  PROVE  /\ \A k \in 1..Cardinality(S) : Detection!Nth(S, k) \in S
         /\ \A j, k \in 1..Cardinality(S) : j < k => Detection!Nth(S, j) < Detection!Nth(S, k)
         /\ \A i \in S : \E k \in 1..Cardinality(S) : Detection!Nth(S, k) = i
         /\ S = 1..n => Cardinality(S) = n /\ \A k \in 1..n : Detection!Nth(S, k) = k
<1> DEFINE rank(i) == Cardinality(Upto(S, i))
           nth(k) == Detection!Nth(S, k)
<1>1. \A k \in 1..Cardinality(S) : nth(k) \in S /\ rank(nth(k)) = k
  BY NthIsThere
<1>2. \A i, j \in S : i < j => rank(i) < rank(j)
  BY UptoGrows
<1>3. \A i \in S : rank(i) \in 1..Cardinality(S)
  <2> TAKE i \in S
  <2>1. i \in 1..n /\ i - 1 \in 0..n
    OBVIOUS
  <2>2. rank(i) = rank(i - 1) + 1
    BY <2>1, UptoGrows
  <2>3. rank(i) \in Nat /\ rank(i) <= Cardinality(S) /\ rank(i - 1) \in Nat /\ Cardinality(S) \in Nat
    BY UptoGrows
  <2> HIDE DEF rank
  <2> QED
    BY <2>2, <2>3
<1>4. \A i, j \in S : i \in Nat /\ j \in Nat
  OBVIOUS
<1> HIDE DEF rank, nth
<1>5. \A j, k \in 1..Cardinality(S) : j < k => nth(j) < nth(k)
  <2> SUFFICES ASSUME NEW j \in 1..Cardinality(S), NEW k \in 1..Cardinality(S), j < k, ~(nth(j) < nth(k))
               PROVE  FALSE
    OBVIOUS
  <2>1. CASE nth(j) = nth(k)
    BY <1>1, <2>1
  <2>2. CASE nth(k) < nth(j)
    <3>1. rank(nth(k)) < rank(nth(j))
      BY <1>1, <1>2, <2>2
    <3> QED
      BY <1>1, <3>1
  <2>3. nth(j) \in Nat /\ nth(k) \in Nat
    BY <1>1, <1>4
  <2> QED
    BY <2>1, <2>2, <2>3
<1>6. \A i, j \in S : rank(i) = rank(j) => i = j
  <2> TAKE i, j \in S
  <2>1. rank(i) \in Int /\ rank(j) \in Int
    BY <1>3
  <2> QED
    BY <1>2, <1>4, <2>1
<1>7. \A i \in S : \E k \in 1..Cardinality(S) : nth(k) = i
  <2> TAKE i \in S
  <2>1. nth(rank(i)) \in S /\ rank(nth(rank(i))) = rank(i)
    BY <1>1, <1>3
  <2> QED
    BY <1>3, <1>6, <2>1
<1>8. ASSUME S = 1..n PROVE Cardinality(S) = n /\ \A k \in 1..n : nth(k) = k
  <2>1. Cardinality(S) = n
    BY <1>8, FS_Interval
  <2>2. ASSUME NEW k \in 1..n PROVE rank(k) = k
    <3>1. Upto(S, k) = 1..k /\ k \in Nat
      BY <1>8 DEF Upto
    <3> QED
      BY <3>1, FS_Interval, 1 \in Int, k \in Int DEF rank
  <2>3. ASSUME NEW k \in 1..n PROVE nth(k) = k
    BY <1>1, <1>6, <1>8, <2>1, <2>2
  <2> QED
    BY <2>1, <2>3
<1> QED
  BY <1>1, <1>5, <1>7, <1>8 DEF nth

-----------------------------------------------------------------------------
(* Detection: every threat has its result. Results are in the order of their *)
(* times, so when the first is pushed out by the limit all the others are at *)
(* least as new, and when the cleanup takes some the threats they were of    *)
(* are old.                                                                  *)

DetectionSpec == Detection!Init /\ [][Detection!Next]_Detection!vars

Of(i) == <<"threat", i>>

\* The results of n threats at time t.
IsResults(list, n, t) ==
  /\ IsWork(list) /\ Len(list) <= MaxResults
  /\ \A k \in DOMAIN list : list[k].at \in Nat /\ list[k].at <= t
  /\ \A j, k \in DOMAIN list : j <= k => list[j].at <= list[k].at
  /\ \A k \in DOMAIN list, i \in Nat : list[k].id = Of(i) => i <= n
  /\ \A j, k \in DOMAIN list, i \in Nat : list[j].id = Of(i) /\ list[k].id = Of(i) => j = k

\* Threat i, made at c, has its result, is old at t or was pushed out.
Told(list, i, c, t) ==
  \/ \E k \in DOMAIN list : list[k].id = Of(i) /\ list[k].at = c
  \/ t - c > MaxAge
  \/ Len(list) = MaxResults /\ \A k \in DOMAIN list : c <= list[k].at

DetectionInv ==
  /\ now \in Nat
  /\ IsWork(patterns)
  /\ IsWork(threats) /\ Len(threats) <= MaxThreats
  /\ \A i \in DOMAIN threats : threats[i].createdAt \in Nat /\ threats[i].createdAt <= now
  /\ IsResults(results, Len(threats), now)
  /\ \A i \in DOMAIN threats : Told(results, i, threats[i].createdAt, now)

LEMMA WorkIs ==
  ASSUME NEW q, IsWork(q)
  PROVE  /\ Len(q) \in Nat /\ DOMAIN q = 1..Len(q) /\ q = [i \in 1..Len(q) |-> q[i]]
BY DEF IsWork

LEMMA OfIsOne ==
  /\ \A i, j : Of(i) = Of(j) => i = j
  /\ \A i, m : Of(i) # <<"action", m>>
BY DEF Of

LEMMA IsWorkMade ==
  ASSUME NEW n \in Nat, NEW q, q = [i \in 1..n |-> q[i]]
  PROVE  IsWork(q) /\ Len(q) = n /\ DOMAIN q = 1..n
<1>1. DOMAIN q = 1..n
  OBVIOUS
<1>2. \A i \in 1..n : q[i] \in Items(q)
  BY <1>1 DEF Items
<1>3. q \in [1..n -> Items(q)]
  BY <1>1, <1>2
<1>4. q \in Seq(Items(q))
  BY <1>3
<1> QED
  BY <1>1, <1>4 DEF IsWork

\* A result is added at the end, and the first goes when there are too many.
LEMMA PushIs ==
  ASSUME NEW list, IsWork(list), Len(list) <= MaxResults, NEW r
  PROVE  /\ IsWork(Detection!Push(list, r))
         /\ \E d \in {0, 1} :
              /\ Len(Detection!Push(list, r)) = Len(list) + 1 - d
              /\ \A k \in 1..(Len(list) + 1 - d) :
                   Detection!Push(list, r)[k] = IF k + d <= Len(list) THEN list[k + d] ELSE r
              /\ IF d = 1 THEN Len(list) = MaxResults ELSE Len(list) + 1 <= MaxResults
<1> DEFINE S == Items(list) \cup {r}
           longer == Append(list, r)
<1>1. PICK n \in Nat : n = Len(list)
  BY WorkIs
<1>2. list \in Seq(S)
  <2>1. list \in [1..n -> S]
    <3>1. \A i \in 1..n : list[i] \in S
      BY WorkIs, <1>1 DEF Items
    <3> HIDE DEF S
    <3> QED
      BY WorkIs, <1>1, <3>1
  <2> HIDE DEF S
  <2> QED
    BY <2>1
<1>3. r \in S
  OBVIOUS
<1> HIDE DEF S
<1>4. longer \in Seq(S) /\ Len(longer) = n + 1
      /\ \A k \in 1..(n + 1) : longer[k] = IF k <= n THEN list[k] ELSE r
  BY <1>1, <1>2, <1>3
<1> HIDE DEF longer
<1>5. CASE n + 1 > MaxResults
  <2>1. Tail(longer) \in Seq(S) /\ Len(Tail(longer)) = n
        /\ \A k \in 1..n : Tail(longer)[k] = longer[k + 1]
    BY <1>4
  <2>2. Detection!Push(list, r) = Tail(longer)
    BY <1>4, <1>5 DEF Detection!Push, longer
  <2>3. n = MaxResults
    BY <1>1, <1>5, ResultsAssumption
  <2>4. \A k \in 1..n : Tail(longer)[k] = IF k + 1 <= n THEN list[k + 1] ELSE r
    BY <1>4, <2>1
  <2>5. IsWork(Tail(longer))
    BY <2>1, WorkOfSet
  <2> QED
    BY <1>1, <2>1, <2>2, <2>3, <2>4, <2>5
<1>6. CASE ~(n + 1 > MaxResults)
  <2>1. Detection!Push(list, r) = longer
    BY <1>4, <1>6 DEF Detection!Push, longer
  <2>2. IsWork(longer)
    BY <1>4, WorkOfSet
  <2>3. n + 1 <= MaxResults
    BY <1>6, ResultsAssumption
  <2>4. \A k \in 1..(n + 1) : longer[k] = IF k + 0 <= n THEN list[k + 0] ELSE r
    BY <1>4
  <2> QED
    BY <1>1, <1>4, <2>1, <2>2, <2>3, <2>4
<1> QED
  BY <1>5, <1>6

\* What threats were told of they still are.
LEMMA PushKeeps ==
  ASSUME NEW t \in Nat, NEW n \in Nat, NEW m \in Nat, n <= m, NEW list, IsResults(list, n, t),
         NEW r, r.at = t, \A i \in Nat : r.id = Of(i) => n < i /\ i <= m
  PROVE  /\ IsResults(Detection!Push(list, r), m, t)
         /\ \A i \in Nat, c \in Nat : c <= t /\ Told(list, i, c, t) => Told(Detection!Push(list, r), i, c, t)
         /\ \A i \in Nat : r.id = Of(i) => Told(Detection!Push(list, r), i, t, t)
<1> DEFINE p == Detection!Push(list, r)
<1>1. PICK len \in Nat : len = Len(list) /\ DOMAIN list = 1..len /\ len <= MaxResults
  BY WorkIs DEF IsResults
<1>2. PICK d \in {0, 1} :
        /\ Len(p) = len + 1 - d
        /\ \A k \in 1..(len + 1 - d) : p[k] = IF k + d <= len THEN list[k + d] ELSE r
        /\ IF d = 1 THEN len = MaxResults ELSE len + 1 <= MaxResults
  BY <1>1, PushIs DEF IsResults
<1>3. IsWork(p)
  BY PushIs DEF IsResults
<1> HIDE DEF p
<1>4. DOMAIN p = 1..(len + 1 - d) /\ Len(p) <= MaxResults
  BY <1>1, <1>2, <1>3, WorkIs, ResultsAssumption
<1>5. \A k \in 1..len : list[k].at \in Nat /\ list[k].at <= t
  BY <1>1 DEF IsResults
<1>6. \A j, k \in 1..len : j <= k => list[j].at <= list[k].at
  BY <1>1 DEF IsResults
<1>7. \A k \in 1..len, i \in Nat : list[k].id = Of(i) => i <= n
  BY <1>1 DEF IsResults
<1>8. \A j, k \in 1..len, i \in Nat : list[j].id = Of(i) /\ list[k].id = Of(i) => j = k
  BY <1>1 DEF IsResults
<1>9. \A k \in DOMAIN p : \/ k + d \in 1..len /\ p[k] = list[k + d]
                          \/ k = len + 1 - d /\ p[k] = r
  BY <1>2, <1>4
<1>10. \A k \in DOMAIN p : k \in Nat
  BY <1>4
<1>11. IsResults(p, m, t)
  <2>1. \A k \in DOMAIN p : p[k].at \in Nat /\ p[k].at <= t
    BY <1>5, <1>9
  <2>2. \A j, k \in DOMAIN p : j <= k => p[j].at <= p[k].at
    <3> SUFFICES ASSUME NEW j \in DOMAIN p, NEW k \in DOMAIN p, j <= k PROVE p[j].at <= p[k].at
      OBVIOUS
    <3>1. CASE p[k] = r
      BY <2>1, <3>1
    <3>2. CASE k + d \in 1..len /\ p[k] = list[k + d]
      <4>0. j \in 1..(len + 1 - d) /\ k \in 1..(len + 1 - d) /\ (d = 0 \/ d = 1)
        BY <1>4
      <4>1. j + d \in 1..len /\ j + d <= k + d
        BY <3>2, <4>0
      <4>2. p[j] = list[j + d]
        <5>1. j + d <= len
          BY <4>1
        <5>2. \A i \in 1..(len + 1 - d) : p[i] = IF i + d <= len THEN list[i + d] ELSE r
          BY <1>2
        <5> QED
          BY ONLY <4>0, <5>1, <5>2
      <4> QED
        BY <1>6, <3>2, <4>1, <4>2
    <3> QED
      BY <1>9, <3>1, <3>2
  <2>3. \A k \in DOMAIN p, i \in Nat : p[k].id = Of(i) => i <= m
    BY <1>7, <1>9
  <2>4. \A j, k \in DOMAIN p, i \in Nat : p[j].id = Of(i) /\ p[k].id = Of(i) => j = k
    <3> SUFFICES ASSUME NEW j \in DOMAIN p, NEW k \in DOMAIN p, NEW i \in Nat, p[j].id = Of(i), p[k].id = Of(i)
                 PROVE  j = k
      OBVIOUS
    <3>1. CASE n < i
      <4>1. ~(i <= n)
        BY <3>1
      <4>2. j = len + 1 - d /\ k = len + 1 - d
        BY <1>7, <1>9, <4>1
      <4> QED
        BY <4>2
    <3>2. CASE ~(n < i)
      <4>1. j + d \in 1..len /\ p[j] = list[j + d] /\ k + d \in 1..len /\ p[k] = list[k + d]
        BY <1>9, <3>2
      <4>2. j + d = k + d
        BY <1>8, <4>1
      <4> QED
        BY <1>10, <4>2
    <3> QED
      BY <3>1, <3>2
  <2> QED
    BY <1>3, <1>4, <2>1, <2>2, <2>3, <2>4 DEF IsResults
<1>12. ASSUME NEW i \in Nat, NEW c \in Nat, c <= t, Told(list, i, c, t) PROVE Told(p, i, c, t)
  <2>1. CASE \E k \in 1..len : list[k].id = Of(i) /\ list[k].at = c
    <3>1. PICK k \in 1..len : list[k].id = Of(i) /\ list[k].at = c
      BY <2>1
    <3>2. CASE k - d \in DOMAIN p
      <4>1. p[k - d] = list[k]
        BY <1>2, <1>4, <3>2
      <4> QED
        BY <3>1, <3>2, <4>1 DEF Told
    <3>3. CASE k - d \notin DOMAIN p
      <4>1. d = 1 /\ k = 1 /\ len = MaxResults
        BY <1>1, <1>2, <1>4, <3>3
      <4>2. \A j \in DOMAIN p : c <= p[j].at
        BY <1>5, <1>6, <1>9, <3>1, <4>1
      <4>3. Len(p) = MaxResults
        BY <1>2, <4>1
      <4> QED
        BY <4>2, <4>3 DEF Told
    <3> QED
      BY <3>2, <3>3
  <2>2. CASE t - c > MaxAge
    BY <2>2 DEF Told
  <2>3. CASE len = MaxResults /\ \A k \in 1..len : c <= list[k].at
    <3>1. d = 1 /\ Len(p) = MaxResults
      BY <1>1, <1>2, <2>3
    <3>2. \A k \in DOMAIN p : c <= p[k].at
      BY <1>9, <1>12, <2>3
    <3> QED
      BY <3>1, <3>2 DEF Told
  <2> QED
    BY <1>1, <1>12, <2>1, <2>2, <2>3 DEF Told
<1>13. ASSUME NEW i \in Nat, r.id = Of(i) PROVE Told(p, i, t, t)
  <2>1. len + 1 - d \in DOMAIN p
    BY <1>1, <1>2, <1>4, ResultsAssumption
  <2>2. p[len + 1 - d] = r
    BY <1>1, <1>9, <2>1
  <2> QED
    BY <1>13, <2>1, <2>2 DEF Told
<1> QED
  BY <1>11, <1>12, <1>13 DEF p

\* The result of a new threat, the n + 1st.
LEMMA AddKeeps ==
  ASSUME NEW t \in Nat, NEW n \in Nat, NEW list, IsResults(list, n, t), NEW th, th.createdAt = t
  PROVE  LET p == Detection!addDetectionResult(list, n + 1, th)
         IN  /\ IsResults(p, n + 1, t)
             /\ \A i \in Nat, c \in Nat : c <= t /\ Told(list, i, c, t) => Told(p, i, c, t)
             /\ Told(p, n + 1, t, t)
<1> DEFINE r == [id |-> <<"threat", n + 1>>, riskScore |-> th.riskScore, at |-> th.createdAt,
                 requiresEscalation |-> th.severity = "critical" \/ th.riskScore >= 80]
<1>1. ~\E k \in DOMAIN list : list[k].id = <<"threat", n + 1>>
  <2>1. \A k \in DOMAIN list : list[k].id = Of(n + 1) => n + 1 <= n
    BY DEF IsResults
  <2> QED
    BY <2>1 DEF Of
<1>2. Detection!addDetectionResult(list, n + 1, th) = Detection!Push(list, r)
  BY <1>1 DEF Detection!addDetectionResult
<1>3. r.at = t /\ r.id = Of(n + 1)
  BY DEF Of
<1> HIDE DEF r
<1>4. \A i \in Nat : r.id = Of(i) => n < i /\ i <= n + 1
  BY <1>3, OfIsOne
<1>5. n + 1 \in Nat /\ n <= n + 1
  OBVIOUS
<1> QED
  BY <1>2, <1>3, <1>4, <1>5, PushKeeps

\* What the results are of after those of the new threats.
LEMMA ReportedKeeps ==
  ASSUME DetectionInv, NEW ts, IsWork(ts), \A k \in DOMAIN ts : ts[k].createdAt = now
  PROVE  LET p == Detection!Reported(ts)
         IN  /\ IsResults(p, Len(threats) + Len(ts), now)
             /\ \A i \in DOMAIN threats : Told(p, i, threats[i].createdAt, now)
             /\ \A k \in DOMAIN ts : Told(p, Len(threats) + k, now, now)
<1>1. PICK n \in Nat, m \in Nat : /\ n = Len(threats) /\ DOMAIN threats = 1..n
                                  /\ m = Len(ts) /\ DOMAIN ts = 1..m
  BY WorkIs DEF DetectionInv
<1> DEFINE add(list, k) == Detection!addDetectionResult(list, n + k, ts[k])
           Follows(g, k) == \A j \in 0..k : g[j] = IF j = 0 THEN results ELSE add(g[j - 1], j)
           N == {k \in Nat : \E g : g = [j \in 0..k |-> g[j]] /\ Follows(g, k)}
<1>2. 0 \in N
  <2> DEFINE g == [j \in 0..0 |-> results]
  <2>1. g = [j \in 0..0 |-> g[j]] /\ \A j \in 0..0 : j = 0 /\ g[j] = results
    OBVIOUS
  <2> HIDE DEF g, add
  <2>2. Follows(g, 0)
    BY <2>1
  <2> QED
    BY <2>1, <2>2
<1>3. ASSUME NEW k \in Nat, k \in N PROVE k + 1 \in N
  <2>1. PICK g : g = [j \in 0..k |-> g[j]] /\ Follows(g, k)
    BY <1>3
  <2> DEFINE h == [j \in 0..(k + 1) |-> IF j = 0 THEN results ELSE add(g[j - 1], j)]
  <2> HIDE DEF add
  <2>3. \A j \in 0..(k + 1) : h[j] = IF j = 0 THEN results ELSE add(g[j - 1], j)
    OBVIOUS
  <2>2. \A j \in 0..k : h[j] = g[j]
    <3> HIDE DEF h
    <3>1. \A j \in 0..k : g[j] = IF j = 0 THEN results ELSE add(g[j - 1], j)
      BY <2>1
    <3>2. \A j \in 0..k : j \in 0..(k + 1)
      OBVIOUS
    <3> QED
      BY ONLY <2>3, <3>1, <3>2
  <2>4. h = [j \in 0..(k + 1) |-> h[j]]
    OBVIOUS
  <2> HIDE DEF h
  <2>5. Follows(h, k + 1)
    <3> SUFFICES ASSUME NEW j \in 0..(k + 1) PROVE h[j] = IF j = 0 THEN results ELSE add(h[j - 1], j)
      OBVIOUS
    <3>1. CASE j = 0
      BY <2>3, <3>1
    <3>2. CASE j # 0
      <4>1. j - 1 \in 0..k
        BY <3>2
      <4>2. h[j - 1] = g[j - 1]
        BY <2>2, <4>1
      <4> QED
        BY <2>3, <3>2, <4>2
    <3> QED
      BY <3>1, <3>2
  <2>6. k + 1 \in Nat
    OBVIOUS
  <2> HIDE DEF Follows
  <2> QED
    BY <2>4, <2>5, <2>6
<1>4. m \in N
  <2> HIDE DEF N
  <2> QED
    BY <1>2, <1>3, NumberInduction
<1> DEFINE Eq(g) == g = [j \in 0..m |-> IF j = 0 THEN results ELSE add(g[j - 1], j)]
           list == CHOOSE g : Eq(g)
<1>5. \E g : Eq(g)
  <2> HIDE DEF add
  <2>1. PICK g : g = [j \in 0..m |-> g[j]] /\ Follows(g, m)
    BY <1>4
  <2>2. [j \in 0..m |-> g[j]] = [j \in 0..m |-> IF j = 0 THEN results ELSE add(g[j - 1], j)]
    BY <2>1
  <2> QED
    BY <2>1, <2>2
<1>6. Eq(list)
  <2> HIDE DEF Eq
  <2> QED
    BY <1>5
<1>7. Detection!Reported(ts) = list[m]
  BY <1>1 DEF Detection!Reported
<1> HIDE DEF list
<1>8. list[0] = results /\ \A k \in 1..m : list[k] = add(list[k - 1], k)
  <2> HIDE DEF add
  <2>1. list = [j \in 0..m |-> IF j = 0 THEN results ELSE add(list[j - 1], j)]
    BY <1>6
  <2>2. \A j \in 0..m : list[j] = IF j = 0 THEN results ELSE add(list[j - 1], j)
    BY <2>1
  <2> QED
    BY <2>2
<1> DEFINE Good(k) == /\ IsResults(list[k], n + k, now)
                      /\ \A i \in DOMAIN threats : Told(list[k], i, threats[i].createdAt, now)
                      /\ \A j \in 1..k : Told(list[k], n + j, now, now)
           G == {k \in Nat : k <= m => Good(k)}
<1>9. 0 \in G
  <2>1. Good(0)
    BY <1>1, <1>8 DEF DetectionInv
  <2> HIDE DEF Good
  <2> QED
    BY <2>1
<1>10. ASSUME NEW k \in Nat, k \in G, k + 1 <= m PROVE Good(k + 1)
  <2>1. IsResults(list[k], n + k, now)
    BY <1>10
  <2>2. \A i \in DOMAIN threats : Told(list[k], i, threats[i].createdAt, now)
    BY <1>10
  <2>3. \A j \in 1..k : Told(list[k], n + j, now, now)
    BY <1>10
  <2>4. list[k + 1] = Detection!addDetectionResult(list[k], (n + k) + 1, ts[k + 1])
    <3>1. k + 1 \in 1..m /\ (k + 1) - 1 = k /\ n + (k + 1) = (n + k) + 1
      BY <1>10
    <3>2. list[k + 1] = add(list[(k + 1) - 1], k + 1)
      BY ONLY <1>8, <3>1
    <3> QED
      BY <3>1, <3>2
  <2>5. ts[k + 1].createdAt = now
    BY <1>1, <1>10
  <2>6. now \in Nat /\ n + k \in Nat /\ n \in Nat
    BY DEF DetectionInv
  <2> HIDE DEF add
  <2>7. /\ IsResults(list[k + 1], (n + k) + 1, now)
        /\ \A i \in Nat, c \in Nat : c <= now /\ Told(list[k], i, c, now) => Told(list[k + 1], i, c, now)
        /\ Told(list[k + 1], (n + k) + 1, now, now)
    BY ONLY <2>1, <2>4, <2>5, <2>6, AddKeeps
  <2>8. \A i \in DOMAIN threats : Told(list[k + 1], i, threats[i].createdAt, now)
    <3>1. \A i \in DOMAIN threats : i \in Nat /\ threats[i].createdAt \in Nat /\ threats[i].createdAt <= now
      BY <1>1 DEF DetectionInv
    <3> QED
      BY <2>2, <2>7, <3>1
  <2>9. \A j \in 1..(k + 1) : Told(list[k + 1], n + j, now, now)
    <3> TAKE j \in 1..(k + 1)
    <3>1. CASE j = k + 1
      <4>1. n + j = (n + k) + 1
        BY <3>1
      <4> QED
        BY <2>7, <4>1
    <3>2. CASE j # k + 1
      <4>1. j \in 1..k /\ n + j \in Nat
        BY <3>2
      <4> QED
        BY <2>3, <2>6, <2>7, <4>1
    <3> QED
      BY <3>1, <3>2
  <2>10. n + (k + 1) = (n + k) + 1
    BY <2>6
  <2> QED
    BY <2>7, <2>8, <2>9, <2>10
<1>11. m \in G
  <2>1. \A k \in Nat : k \in G => k + 1 \in G
    <3> SUFFICES ASSUME NEW k \in Nat, k \in G PROVE k + 1 \in G
      OBVIOUS
    <3>1. k + 1 <= m => Good(k + 1)
      BY <1>10
    <3> HIDE DEF Good
    <3> QED
      BY <3>1
  <2> HIDE DEF G
  <2> QED
    BY <1>9, <2>1, NumberInduction
<1>12. Good(m)
  <2> HIDE DEF Good
  <2> QED
    BY <1>11
<1> QED
  BY <1>1, <1>7, <1>12

LEMMA JoinIs ==
  ASSUME NEW p, NEW q, IsWork(p), IsWork(q)
  PROVE  /\ IsWork(p \o q) /\ Len(p \o q) = Len(p) + Len(q)
         /\ \A i \in 1..(Len(p) + Len(q)) : (p \o q)[i] = IF i <= Len(p) THEN p[i] ELSE q[i - Len(p)]
<1>1. IsWork(p \o q)
  BY WorkJoined
<1> QED
  BY <1>1 DEF IsWork

\* What is kept of a list is in the order of the list; all of it may be.
LEMMA KeptIs ==
  ASSUME NEW list, IsWork(list), NEW S \in SUBSET (DOMAIN list)
  PROVE  LET p == Detection!Kept(list, S)
         IN  /\ IsWork(p) /\ Len(p) <= Len(list)
             /\ \A k \in DOMAIN p : Detection!Nth(S, k) \in S /\ p[k] = list[Detection!Nth(S, k)]
             /\ \A j, k \in DOMAIN p : j < k => Detection!Nth(S, j) < Detection!Nth(S, k)
             /\ \A i \in S : \E k \in DOMAIN p : p[k] = list[i]
             /\ S = DOMAIN list => p = list
<1> DEFINE p == Detection!Kept(list, S)
<1>1. PICK n \in Nat : n = Len(list) /\ DOMAIN list = 1..n /\ list = [i \in 1..n |-> list[i]]
  BY WorkIs
<1>2. S \in SUBSET (1..n)
  BY <1>1
<1>3. PICK m \in Nat : m = Cardinality(S) /\ m <= n
  BY <1>2, UptoGrows
<1>4. p = [k \in 1..m |-> list[Detection!Nth(S, k)]]
  BY <1>3, PlacesAreCounted DEF Detection!Kept
<1>5. p = [k \in 1..m |-> p[k]] /\ \A k \in 1..m : p[k] = list[Detection!Nth(S, k)]
  BY <1>4
<1> HIDE DEF p
<1>6. IsWork(p) /\ Len(p) = m /\ DOMAIN p = 1..m
  BY <1>5, IsWorkMade
<1>7. /\ \A k \in 1..m : Detection!Nth(S, k) \in S
      /\ \A j, k \in 1..m : j < k => Detection!Nth(S, j) < Detection!Nth(S, k)
      /\ \A i \in S : \E k \in 1..m : Detection!Nth(S, k) = i
      /\ S = 1..n => m = n /\ \A k \in 1..n : Detection!Nth(S, k) = k
  <2>1. /\ \A k \in 1..Cardinality(S) : Detection!Nth(S, k) \in S
        /\ \A j, k \in 1..Cardinality(S) : j < k => Detection!Nth(S, j) < Detection!Nth(S, k)
        /\ \A i \in S : \E k \in 1..Cardinality(S) : Detection!Nth(S, k) = i
        /\ S = 1..n => Cardinality(S) = n /\ \A k \in 1..n : Detection!Nth(S, k) = k
    BY ONLY <1>2, n \in Nat, NthIsOrder
  <2> QED
    BY ONLY <1>3, <2>1
<1>8. \A i \in S : \E k \in DOMAIN p : p[k] = list[i]
  BY <1>5, <1>6, <1>7
<1>9. ASSUME S = DOMAIN list PROVE p = list
  <2>1. m = n /\ \A k \in 1..n : p[k] = list[k]
    <3>1. S = 1..n
      BY <1>1, <1>9
    <3>2. m = n /\ \A k \in 1..n : Detection!Nth(S, k) = k
      BY ONLY <1>7, <3>1
    <3>3. \A k \in 1..m : p[k] = list[Detection!Nth(S, k)]
      BY <1>5
    <3> QED
      BY ONLY <3>2, <3>3
  <2>2. [k \in 1..n |-> p[k]] = [k \in 1..n |-> list[k]]
    BY <2>1
  <2> QED
    BY <1>1, <1>5, <2>1, <2>2
<1>10. /\ IsWork(p) /\ Len(p) <= Len(list)
       /\ \A k \in DOMAIN p : Detection!Nth(S, k) \in S /\ p[k] = list[Detection!Nth(S, k)]
       /\ \A j, k \in DOMAIN p : j < k => Detection!Nth(S, j) < Detection!Nth(S, k)
  BY <1>1, <1>3, <1>5, <1>6, <1>7
<1> QED
  BY <1>8, <1>9, <1>10 DEF p

\* Nothing that the invariant speaks of changes, and patterns stay a list.
LEMMA DetectionInvMoves ==
  ASSUME DetectionInv, UNCHANGED <<now, threats, results>>, IsWork(patterns')
  PROVE  DetectionInv'
<1>1. (now \in Nat)' /\ (IsWork(patterns) /\ IsWork(threats))'
  BY DEF DetectionInv, IsWork, Items
<1>2. (Len(threats) <= MaxThreats)'
  BY DEF DetectionInv
<1>3. (\A i \in DOMAIN threats : threats[i].createdAt \in Nat /\ threats[i].createdAt <= now)'
  BY DEF DetectionInv
<1>4. IsResults(results, Len(threats), now)'
  <2>1. results' = results /\ Len(threats') = Len(threats) /\ now' = now
    OBVIOUS
  <2>2. IsResults(results', Len(threats'), now')
    BY ONLY <2>1, DetectionInv DEF DetectionInv
  <2> QED
    BY ONLY <2>2 DEF IsResults, IsWork, Items, Of
<1>5. (\A i \in DOMAIN threats : Told(results, i, threats[i].createdAt, now))'
  BY DEF DetectionInv, Told, Of
<1> QED
  BY <1>1, <1>2, <1>3, <1>4, <1>5 DEF DetectionInv

\* New threats and their results, whatever else becomes of the threats.
LEMMA MakeKeeps ==
  ASSUME DetectionInv, now' = now, IsWork(patterns'), NEW ts, IsWork(ts),
         \A k \in DOMAIN ts : ts[k].createdAt = now,
         Len(threats) + Len(ts) <= MaxThreats,
         IsWork(threats'), Len(threats') = Len(threats) + Len(ts),
         \A i \in DOMAIN threats' :
           threats'[i].createdAt = IF i <= Len(threats) THEN threats[i].createdAt ELSE now,
         results' = Detection!Reported(ts)
  PROVE  DetectionInv'
<1>1. PICK n \in Nat, m \in Nat : /\ n = Len(threats) /\ DOMAIN threats = 1..n
                                  /\ m = Len(ts) /\ DOMAIN ts = 1..m
  BY WorkIs DEF DetectionInv
<1>2. Len(threats') = n + m /\ DOMAIN threats' = 1..(n + m) /\ n + m <= MaxThreats
  <2>1. DOMAIN threats' = 1..Len(threats')
    BY DEF IsWork
  <2> QED
    BY <1>1, <2>1
<1>3. \A i \in 1..(n + m) : threats'[i].createdAt = IF i <= n THEN threats[i].createdAt ELSE now
  BY <1>1, <1>2
<1>4. \A i \in 1..n : threats[i].createdAt \in Nat /\ threats[i].createdAt <= now
  BY <1>1 DEF DetectionInv
<1>5. /\ IsResults(results', n + m, now)
      /\ \A i \in 1..n : Told(results', i, threats[i].createdAt, now)
      /\ \A k \in 1..m : Told(results', n + k, now, now)
  BY <1>1, ReportedKeeps
<1>6. now \in Nat
  BY DEF DetectionInv
<1>7. \A i \in 1..(n + m) : threats'[i].createdAt \in Nat /\ threats'[i].createdAt <= now'
  BY <1>3, <1>4, <1>6
<1>8. \A i \in 1..(n + m) : Told(results', i, threats'[i].createdAt, now')
  <2> TAKE i \in 1..(n + m)
  <2>1. CASE i <= n
    BY <1>3, <1>5, <2>1
  <2>2. CASE ~(i <= n)
    <3>1. i - n \in 1..m /\ n + (i - n) = i
      BY <2>2
    <3>2. Told(results', n + (i - n), now, now)
      BY <1>5, <3>1
    <3> QED
      BY <1>3, <2>2, <3>1, <3>2
  <2> QED
    BY <2>1, <2>2
<1>9. IsResults(results', Len(threats'), now')
  BY <1>2, <1>5
<1>10. now' \in Nat /\ Len(threats') <= MaxThreats
  BY <1>2, <1>6
<1>11. (IsWork(patterns) /\ IsWork(threats))'
  BY DEF IsWork, Items
<1>12. (\A i \in DOMAIN threats : threats[i].createdAt \in Nat /\ threats[i].createdAt <= now)'
  BY <1>2, <1>7
<1>13. IsResults(results, Len(threats), now)'
  BY <1>9 DEF IsResults, IsWork, Items, Of
<1>14. (\A i \in DOMAIN threats : Told(results, i, threats[i].createdAt, now))'
  BY <1>2, <1>8 DEF Told, Of
<1> QED
  BY <1>10, <1>11, <1>12, <1>13, <1>14 DEF DetectionInv

-----------------------------------------------------------------------------
(* The threats that are made, and the actions. *)

LEMMA InitDetectionInv == Detection!Init => DetectionInv
<1> SUFFICES ASSUME Detection!Init PROVE DetectionInv
  OBVIOUS
<1>1. now = 0 /\ patterns = <<>> /\ threats = <<>> /\ results = <<>>
  BY DEF Detection!Init
<1>2. Len(<<>>) = 0 /\ DOMAIN <<>> = {} /\ 0 \in Nat
  OBVIOUS
<1>3. 0 <= MaxThreats /\ 0 <= MaxResults
  BY ResultsAssumption
<1>4. IsResults(<<>>, 0, 0)
  BY <1>2, <1>3, NoWork DEF IsResults
<1> QED
  BY <1>1, <1>2, <1>3, <1>4, NoWork DEF DetectionInv

\* A rule's threat is made when the pattern is recorded.
LEMMA RuleThreatsAreNew ==
  ASSUME NEW pattern
  PROVE  LET ts == Detection!evaluateDetectionRules(pattern)
         IN  IsWork(ts) /\ \A k \in DOMAIN ts : ts[k].createdAt = now
<1> DEFINE S == {i \in DOMAIN Detection!Rules :
                   Detection!Cardinality(Detection!evaluateRule(Detection!Rules[i], pattern.data))
                     >= Detection!Rules[i].count}
           hit == Detection!Kept(Detection!Rules, S)
           ts == Detection!evaluateDetectionRules(pattern)
<1>1. IsWork(Detection!Rules)
  <2>1. Detection!Rules = [i \in 1..3 |-> Detection!Rules[i]]
    BY DEF Detection!Rules
  <2> QED
    BY <2>1, IsWorkMade
<1>2. S \in SUBSET (DOMAIN Detection!Rules)
  OBVIOUS
<1>3. ts = [i \in DOMAIN hit |-> Detection!createThreatFromRule(hit[i], pattern)]
  BY DEF Detection!evaluateDetectionRules
<1> HIDE DEF S
<1>4. IsWork(hit)
  BY <1>1, <1>2, KeptIs
<1> HIDE DEF hit, ts
<1>5. PICK m \in Nat : DOMAIN hit = 1..m
  BY <1>4, WorkIs
<1>6. IsWork(ts) /\ DOMAIN ts = 1..m
  <2>1. ts = [i \in 1..m |-> ts[i]]
    BY <1>3, <1>5
  <2> QED
    BY <2>1, IsWorkMade
<1>7. \A rule : Detection!createThreatFromRule(rule, pattern).createdAt = now
  BY DEF Detection!createThreatFromRule, Detection!Threat
<1>8. \A k \in DOMAIN ts : ts[k].createdAt = now
  BY <1>3, <1>5, <1>6, <1>7
<1> QED
  BY <1>6, <1>8 DEF ts

LEMMA RecordSecurityEventKeeps ==
  ASSUME DetectionInv, NEW data, Detection!RecordSecurityEvent(data)
  PROVE  DetectionInv'
<1> DEFINE pattern == [id |-> made + 1, user |-> data.userId, data |-> data, at |-> now,
                       deviation |-> Detection!calculatePatternDeviation(data, volume),
                       riskScore |-> Detection!calculatePatternRiskScore(data, volume)]
           ts == Detection!evaluateDetectionRules(pattern)
<1>1. now' = now /\ patterns' = Append(patterns, pattern) /\ Detection!Make(ts)
  BY DEF Detection!RecordSecurityEvent
<1>2. IsWork(ts) /\ \A k \in DOMAIN ts : ts[k].createdAt = now
  BY RuleThreatsAreNew
<1> HIDE DEF ts, pattern
<1>3. IsWork(patterns')
  <2>1. patterns' = patterns \o <<pattern>>
    BY <1>1 DEF DetectionInv, IsWork
  <2> QED
    BY <2>1, WorkJoined, OneWork DEF DetectionInv
<1>4. Len(threats) + Len(ts) <= MaxThreats /\ threats' = threats \o ts /\ results' = Detection!Reported(ts)
  BY <1>1 DEF Detection!Make
<1>5. PICK n \in Nat, m \in Nat : n = Len(threats) /\ DOMAIN threats = 1..n /\ m = Len(ts) /\ DOMAIN ts = 1..m
  BY <1>2, WorkIs DEF DetectionInv
<1>6. /\ IsWork(threats') /\ Len(threats') = n + m /\ DOMAIN threats' = 1..(n + m)
      /\ \A i \in 1..(n + m) : threats'[i] = IF i <= n THEN threats[i] ELSE ts[i - n]
  <2>1. IsWork(threats)
    BY DEF DetectionInv
  <2> QED
    BY <1>2, <1>4, <1>5, <2>1, JoinIs, WorkIs
<1>7. \A i \in DOMAIN threats' :
        threats'[i].createdAt = IF i <= Len(threats) THEN threats[i].createdAt ELSE now
  <2>1. \A i \in 1..(n + m) : ~(i <= n) => i - n \in DOMAIN ts
    BY <1>5
  <2> QED
    BY <1>2, <1>5, <1>6, <2>1
<1> QED
  BY <1>1, <1>2, <1>3, <1>4, <1>5, <1>6, <1>7, MakeKeeps

\* A tracked action leaves a result that no threat has.
LEMMA TrackUserActionKeeps ==
  ASSUME DetectionInv, NEW action, Detection!trackUserAction(action), UNCHANGED <<now, patterns, threats>>
  PROVE  DetectionInv'
<1> DEFINE r == [id |-> <<"action", made + 1>>, riskScore |-> Detection!calculateActionRiskScore(action),
                 at |-> now, requiresEscalation |-> Detection!calculateActionRiskScore(action) >= 80]
<1>1. results' = Detection!Push(results, r)
  BY DEF Detection!trackUserAction
<1>2. r.at = now /\ r.id = <<"action", made + 1>>
  OBVIOUS
<1> HIDE DEF r
<1>3. PICK n \in Nat : n = Len(threats) /\ DOMAIN threats = 1..n
  BY WorkIs DEF DetectionInv
<1>4. \A i \in Nat : r.id # Of(i)
  BY <1>2, OfIsOne
<1>5. /\ IsResults(results', n, now)
      /\ \A i \in Nat, c \in Nat : c <= now /\ Told(results, i, c, now) => Told(results', i, c, now)
  <2>1. now \in Nat /\ IsResults(results, n, now) /\ n <= n
    BY <1>3 DEF DetectionInv
  <2> QED
    BY <1>1, <1>2, <1>4, <2>1, PushKeeps
<1>6. \A i \in DOMAIN threats : Told(results', i, threats[i].createdAt, now)
  <2>1. \A i \in DOMAIN threats : /\ i \in Nat /\ threats[i].createdAt \in Nat /\ threats[i].createdAt <= now
                                  /\ Told(results, i, threats[i].createdAt, now)
    BY <1>3 DEF DetectionInv
  <2> QED
    BY <1>5, <2>1
<1>7. IsResults(results, Len(threats), now)'
  BY <1>3, <1>5 DEF IsResults, IsWork, Items, Of
<1>8. (\A i \in DOMAIN threats : Told(results, i, threats[i].createdAt, now))'
  BY <1>6 DEF Told, Of
<1>9. /\ (now \in Nat)' /\ (IsWork(patterns) /\ IsWork(threats))' /\ (Len(threats) <= MaxThreats)'
      /\ (\A i \in DOMAIN threats : threats[i].createdAt \in Nat /\ threats[i].createdAt <= now)'
  BY DEF DetectionInv, IsWork, Items
<1> QED
  BY <1>7, <1>8, <1>9 DEF DetectionInv

LEMMA DetectionTickKeeps == ASSUME DetectionInv, Detection!Tick PROVE DetectionInv'
<1>1. now' = now + 1 /\ threats' = threats /\ patterns' = patterns /\ results' = results
  BY DEF Detection!Tick
<1>2. now \in Nat /\ now' \in Nat
  BY <1>1 DEF DetectionInv
<1>3. PICK n \in Nat : n = Len(threats) /\ DOMAIN threats = 1..n
  BY WorkIs DEF DetectionInv
<1>4. (IsWork(patterns) /\ IsWork(threats))' /\ (Len(threats) <= MaxThreats)'
  BY <1>1 DEF DetectionInv, IsWork, Items
<1>5. (\A i \in DOMAIN threats : threats[i].createdAt \in Nat /\ threats[i].createdAt <= now)'
  <2>1. \A i \in DOMAIN threats : threats[i].createdAt \in Nat /\ threats[i].createdAt <= now + 1
    BY <1>2 DEF DetectionInv
  <2> QED
    BY <1>1, <2>1
<1>6. IsResults(results, Len(threats), now)'
  <2>1. IsResults(results, n, now)
    BY <1>3 DEF DetectionInv
  <2>2. IsResults(results, n, now + 1)
    <3>1. \A k \in DOMAIN results : results[k].at \in Nat /\ results[k].at <= now + 1
      BY <1>2, <2>1 DEF IsResults
    <3> QED
      BY <2>1, <3>1 DEF IsResults
  <2>3. IsResults(results', Len(threats'), now')
    BY <1>1, <1>3, <2>2
  <2> QED
    BY ONLY <2>3 DEF IsResults, IsWork, Items, Of
<1>7. (\A i \in DOMAIN threats : Told(results, i, threats[i].createdAt, now))'
  <2>1. \A i \in DOMAIN threats : Told(results, i, threats[i].createdAt, now + 1)
    <3> TAKE i \in DOMAIN threats
    <3>1. Told(results, i, threats[i].createdAt, now) /\ threats[i].createdAt \in Nat
      BY DEF DetectionInv
    <3>2. now - threats[i].createdAt > MaxAge => (now + 1) - threats[i].createdAt > MaxAge
      BY <1>2, <3>1, ResultsAssumption
    <3> QED
      BY <3>1, <3>2 DEF Told
  <2> QED
    BY <1>1, <2>1 DEF Told, Of
<1> QED
  BY <1>2, <1>4, <1>5, <1>6, <1>7 DEF DetectionInv

\* Threats keep their times, and what they were told of stays.
LEMMA SameThreats ==
  ASSUME DetectionInv, now' = now, IsWork(patterns'), IsWork(threats'), DOMAIN threats' = DOMAIN threats,
         \A i \in DOMAIN threats : threats'[i].createdAt = threats[i].createdAt,
         IsResults(results', Len(threats), now),
         \A i \in DOMAIN threats : Told(results', i, threats[i].createdAt, now)
  PROVE  DetectionInv'
<1>1. Len(threats') = Len(threats)
  <2>1. PICK n \in Nat : n = Len(threats) /\ DOMAIN threats = 1..n
    BY WorkIs DEF DetectionInv
  <2>2. PICK m \in Nat : m = Len(threats') /\ DOMAIN threats' = 1..m
    BY DEF IsWork
  <2>3. n = m
    BY <2>1, <2>2
  <2> QED
    BY <2>1, <2>2, <2>3
<1>2. (now \in Nat)' /\ (IsWork(patterns) /\ IsWork(threats))' /\ (Len(threats) <= MaxThreats)'
  BY <1>1 DEF DetectionInv, IsWork, Items
<1>3. (\A i \in DOMAIN threats : threats[i].createdAt \in Nat /\ threats[i].createdAt <= now)'
  BY DEF DetectionInv
<1>4. IsResults(results, Len(threats), now)'
  <2>1. IsResults(results', Len(threats'), now')
    BY <1>1
  <2> QED
    BY ONLY <2>1 DEF IsResults, IsWork, Items, Of
<1>5. (\A i \in DOMAIN threats : Told(results, i, threats[i].createdAt, now))'
  <2>1. \A i \in DOMAIN threats : Told(results', i, threats'[i].createdAt, now')
    OBVIOUS
  <2> QED
    BY <2>1 DEF Told, Of
<1> QED
  BY <1>2, <1>3, <1>4, <1>5 DEF DetectionInv

LEMMA UpdateThreatStatusKeeps ==
  ASSUME DetectionInv, NEW i \in DOMAIN threats, NEW status, Detection!UpdateThreatStatus(i, status)
  PROVE  DetectionInv'
<1>1. /\ now' = now /\ patterns' = patterns /\ results' = results
      /\ threats' = [threats EXCEPT ![i].status = status,
                       ![i].resolvedAt = IF status = "resolved" THEN now ELSE @]
  BY DEF Detection!UpdateThreatStatus
<1>2. PICK n \in Nat : DOMAIN threats = 1..n
  BY WorkIs DEF DetectionInv
<1>3. threats' = [j \in 1..n |-> threats'[j]] /\ DOMAIN threats' = DOMAIN threats
  BY <1>1, <1>2
<1>4. \A j \in DOMAIN threats : threats'[j].createdAt = threats[j].createdAt
  BY <1>1
<1>5. IsWork(threats') /\ IsWork(patterns')
  BY <1>1, <1>3, IsWorkMade DEF DetectionInv
<1>6. /\ IsResults(results', Len(threats), now)
      /\ \A j \in DOMAIN threats : Told(results', j, threats[j].createdAt, now)
  BY <1>1 DEF DetectionInv
<1> QED
  BY <1>1, <1>3, <1>4, <1>5, <1>6, SameThreats

\* The cleanup takes results of threats that are old by then.
LEMMA CleanupOldDataKeeps ==
  ASSUME DetectionInv, Detection!CleanupOldData
  PROVE  DetectionInv'
<1> DEFINE fresh == {i \in DOMAIN patterns : now - patterns[i].at <= MaxAge}
           S == {k \in DOMAIN results : results[k].at >= now - MaxAge}
           p == Detection!Kept(results, S)
           keeps(i) == threats[i].kept /\ ~(threats[i].status = "resolved" /\ now - threats[i].resolvedAt > MaxAge)
<1>1. /\ now' = now
      /\ patterns' = Detection!Kept(patterns, fresh)
      /\ threats' = [i \in DOMAIN threats |->
           [threats[i] EXCEPT !.kept = keeps(i)]]
      /\ results' = p
  BY DEF Detection!CleanupOldData
<1> HIDE DEF keeps
<1>2. IsWork(patterns')
  <2>1. IsWork(patterns) /\ fresh \in SUBSET (DOMAIN patterns)
    BY DEF DetectionInv
  <2> HIDE DEF fresh
  <2> QED
    BY <1>1, <2>1, KeptIs
<1>3. PICK n \in Nat : DOMAIN threats = 1..n /\ n = Len(threats)
  BY WorkIs DEF DetectionInv
<1>4. IsWork(threats') /\ DOMAIN threats' = DOMAIN threats
  <2>1. threats' = [i \in 1..n |-> threats'[i]]
    BY <1>1, <1>3
  <2> QED
    BY <1>3, <2>1, IsWorkMade
<1>5. \A i \in DOMAIN threats : threats'[i].createdAt = threats[i].createdAt
  <2> SUFFICES ASSUME NEW i \in DOMAIN threats PROVE threats'[i].createdAt = threats[i].createdAt
    OBVIOUS
  <2>1. threats'[i] = [threats[i] EXCEPT !.kept = keeps(i)]
    BY <1>1
  <2>2. PICK y : threats'[i] = [threats[i] EXCEPT !.kept = y]
    BY ONLY <2>1, Zenon
  <2> QED
    BY ONLY <2>2
<1>6. now \in Nat /\ IsResults(results, n, now)
  BY <1>3 DEF DetectionInv
<1>7. PICK len \in Nat : len = Len(results) /\ DOMAIN results = 1..len /\ len <= MaxResults
  BY <1>6, WorkIs DEF IsResults
<1>in. \A k \in DOMAIN results : k \in S <=> results[k].at >= now - MaxAge
  OBVIOUS
<1>8. S \in SUBSET (DOMAIN results)
  OBVIOUS
<1> DEFINE nth(k) == Detection!Nth(S, k)
<1> HIDE DEF S
<1>9. /\ IsWork(p) /\ Len(p) <= len
      /\ \A k \in DOMAIN p : nth(k) \in S /\ p[k] = results[nth(k)]
      /\ \A j, k \in DOMAIN p : j < k => nth(j) < nth(k)
      /\ \A i \in S : \E k \in DOMAIN p : p[k] = results[i]
      /\ S = DOMAIN results => p = results
  <2>1. IsWork(results)
    BY <1>6 DEF IsResults
  <2> QED
    BY ONLY <1>7, <1>8, <2>1, KeptIs
<1> HIDE DEF p, nth
<1>10. \A k \in DOMAIN p : k \in Nat
  BY <1>9, WorkIs
<1>11. \A k \in DOMAIN p : nth(k) \in DOMAIN results /\ nth(k) \in Nat
  BY <1>7, <1>8, <1>9
<1>12. IsResults(p, n, now)
  <2>1. Len(p) <= MaxResults
    BY <1>7, <1>9, WorkIs, ResultsAssumption
  <2>2. \A k \in DOMAIN p : p[k].at \in Nat /\ p[k].at <= now
    BY <1>6, <1>9, <1>11 DEF IsResults
  <2>3. \A j, k \in DOMAIN p : j <= k => p[j].at <= p[k].at
    <3> SUFFICES ASSUME NEW j \in DOMAIN p, NEW k \in DOMAIN p, j <= k PROVE p[j].at <= p[k].at
      OBVIOUS
    <3>1. nth(j) <= nth(k)
      <4>1. j < k \/ j = k
        BY <1>10
      <4> QED
        <5>1. CASE j < k
          BY <1>9, <1>11, <5>1
        <5>2. CASE j = k
          BY <1>11, <5>2
        <5> QED
          BY <4>1, <5>1, <5>2
    <3> QED
      BY <1>6, <1>9, <1>11, <3>1 DEF IsResults
  <2>4. \A k \in DOMAIN p, i \in Nat : p[k].id = Of(i) => i <= n
    BY <1>6, <1>9, <1>11 DEF IsResults
  <2>5. \A j, k \in DOMAIN p, i \in Nat : p[j].id = Of(i) /\ p[k].id = Of(i) => j = k
    <3> SUFFICES ASSUME NEW j \in DOMAIN p, NEW k \in DOMAIN p, NEW i \in Nat, p[j].id = Of(i), p[k].id = Of(i)
                 PROVE  j = k
      OBVIOUS
    <3>1. nth(j) = nth(k)
      <4>1. results[nth(j)].id = Of(i) /\ results[nth(k)].id = Of(i)
        BY <1>9
      <4>2. \A a, b \in DOMAIN results : results[a].id = Of(i) /\ results[b].id = Of(i) => a = b
        BY <1>6 DEF IsResults
      <4> QED
        BY <1>11, <4>1, <4>2
    <3>2. ~(j < k) /\ ~(k < j)
      BY <1>9, <1>11, <3>1
    <3> QED
      BY <1>10, <3>2
  <2> QED
    BY <1>9, <2>1, <2>2, <2>3, <2>4, <2>5 DEF IsResults
<1>13. \A i \in DOMAIN threats : Told(p, i, threats[i].createdAt, now)
  <2> TAKE i \in DOMAIN threats
  <2>0. PICK c \in Nat : c = threats[i].createdAt /\ c <= now /\ Told(results, i, c, now)
    BY DEF DetectionInv
  <2>at. \A k \in DOMAIN results : results[k].at \in Nat
    BY <1>6 DEF IsResults
  <2>1. CASE \E k \in DOMAIN results : results[k].id = Of(i) /\ results[k].at = c
    <3>1. PICK k \in DOMAIN results : results[k].id = Of(i) /\ results[k].at = c
      BY <2>1
    <3>2. CASE k \in S
      BY <1>9, <2>0, <3>1, <3>2 DEF Told
    <3>3. CASE k \notin S
      <4>1. ~(c >= now - MaxAge)
        BY <1>in, <3>1, <3>3
      <4>2. now - c > MaxAge
        BY <1>6, <4>1, ResultsAssumption
      <4> QED
        BY <2>0, <4>2 DEF Told
    <3> QED
      BY <3>2, <3>3
  <2>2. CASE now - c > MaxAge
    BY <2>0, <2>2 DEF Told
  <2>3. CASE Len(results) = MaxResults /\ \A k \in DOMAIN results : c <= results[k].at
    <3>1. CASE S = DOMAIN results
      BY <1>9, <2>0, <2>3, <3>1 DEF Told
    <3>2. CASE S # DOMAIN results
      <4>1. PICK k \in DOMAIN results : k \notin S
        BY <1>8, <3>2
      <4>2. ~(results[k].at >= now - MaxAge) /\ c <= results[k].at /\ results[k].at \in Nat
        BY <1>in, <2>3, <2>at, <4>1
      <4>3. now - c > MaxAge
        BY <1>6, <4>2, ResultsAssumption
      <4> QED
        BY <2>0, <4>3 DEF Told
    <3> QED
      BY <3>1, <3>2
  <2> QED
    BY <2>0, <2>1, <2>2, <2>3 DEF Told
<1>14. IsResults(results', Len(threats), now) /\ \A i \in DOMAIN threats : Told(results', i, threats[i].createdAt, now)
  BY <1>1, <1>3, <1>12, <1>13
<1> QED
  BY <1>1, <1>2, <1>4, <1>5, <1>14, SameThreats

\* A risky pattern makes a threat again, at each analysis.
LEMMA PerformContinuousAnalysisKeeps ==
  ASSUME DetectionInv, Detection!PerformContinuousAnalysis
  PROVE  DetectionInv'
<1> DEFINE old == {i \in DOMAIN patterns : now - patterns[i].at < Recent}
           recent == Detection!recentPatterns
           risky == {i \in DOMAIN recent : recent[i].riskScore > 70}
           max == Detection!Least(Detection!Cardinality(risky), MaxThreats - Len(threats))
           ts == [i \in 1..max |->
                    Detection!Threat("anomalous_behavior", "pattern", recent[Detection!Nth(risky, i)])]
<1>1. /\ now' = now /\ patterns' = patterns
      /\ threats' = Detection!updateThreatScores(threats \o ts)
      /\ results' = Detection!Reported(ts)
  BY DEF Detection!PerformContinuousAnalysis
<1>2. PICK n \in Nat : DOMAIN threats = 1..n /\ n = Len(threats) /\ n <= MaxThreats
  BY WorkIs DEF DetectionInv
<1>3. Detection!Cardinality(risky) \in Nat
  <2>1. IsWork(patterns) /\ old \in SUBSET (DOMAIN patterns)
    BY DEF DetectionInv
  <2>2. recent = Detection!Kept(patterns, old)
    BY DEF Detection!recentPatterns
  <2> HIDE DEF old, recent
  <2>3. PICK m \in Nat : DOMAIN recent = 1..m
    BY <2>1, <2>2, KeptIs, WorkIs
  <2>4. risky \in SUBSET (1..m)
    BY <2>3
  <2> HIDE DEF risky
  <2>5. Cardinality(risky) \in Nat
    BY ONLY <2>4, m \in Nat, UptoGrows
  <2> QED
    BY <2>5, PlacesAreCounted
<1> HIDE DEF risky
<1>4. max \in Nat /\ n + max <= MaxThreats
  BY <1>2, <1>3, ResultsAssumption DEF Detection!Least
<1> HIDE DEF max
<1>5. ts = [k \in 1..max |-> ts[k]] /\ \A k \in 1..max : ts[k].createdAt = now
  BY DEF Detection!Threat
<1> HIDE DEF ts
<1>6. IsWork(ts) /\ Len(ts) = max /\ DOMAIN ts = 1..max
  BY <1>4, <1>5, IsWorkMade
<1> DEFINE both == threats \o ts
<1>7. /\ IsWork(both) /\ Len(both) = n + max
      /\ \A i \in 1..(n + max) : both[i] = IF i <= n THEN threats[i] ELSE ts[i - n]
  <2>1. IsWork(threats)
    BY DEF DetectionInv
  <2> QED
    BY <1>2, <1>6, <2>1, JoinIs
<1> HIDE DEF both
<1>8. n + max \in Nat /\ DOMAIN both = 1..(n + max)
  BY <1>4, <1>7, WorkIs
<1>9. /\ threats' = [i \in 1..(n + max) |-> threats'[i]]
      /\ \A i \in 1..(n + max) : threats'[i].createdAt = both[i].createdAt
  <2>1. threats' = Detection!updateThreatScores(both)
    BY <1>1 DEF both
  <2> QED
    BY <1>8, <2>1 DEF Detection!updateThreatScores
<1>10. IsWork(threats') /\ Len(threats') = n + max /\ DOMAIN threats' = 1..(n + max)
  BY <1>8, <1>9, IsWorkMade
<1>11. \A i \in 1..(n + max) : threats'[i].createdAt = IF i <= n THEN threats[i].createdAt ELSE now
  <2>1. \A i \in 1..(n + max) : ~(i <= n) => i - n \in 1..max
    BY <1>4
  <2> QED
    BY <1>5, <1>7, <1>9, <2>1
<1>12. IsWork(patterns')
  BY <1>1 DEF DetectionInv
<1> QED
  BY <1>1, <1>2, <1>4, <1>5, <1>6, <1>10, <1>11, <1>12, MakeKeeps

LEMMA DetectionNextKeeps ==
  ASSUME DetectionInv, [Detection!Next]_Detection!vars
  PROVE  DetectionInv'
<1>1. CASE \E data \in Events : Detection!RecordSecurityEvent(data)
  BY <1>1, RecordSecurityEventKeeps
<1>2. CASE \E req \in Requests :
             \/ \E type \in {Detection!determineActionType(req), "card_lookup", "api_call"} :
                  Detection!TrackBehavior(req, type)
             \/ Detection!TrackLoginAttempt(req)
             \/ Detection!DetectAPIAbuse(req)
  <2>1. PICK action : Detection!trackUserAction(action) /\ UNCHANGED <<now, patterns, threats>>
    BY <1>2 DEF Detection!TrackBehavior, Detection!TrackLoginAttempt, Detection!DetectAPIAbuse
  <2> QED
    BY <2>1, TrackUserActionKeeps
<1>3. CASE Detection!Tick
  BY <1>3, DetectionTickKeeps
<1>4. CASE Detection!PerformContinuousAnalysis
  BY <1>4, PerformContinuousAnalysisKeeps
<1>5. CASE Detection!CleanupOldData
  BY <1>5, CleanupOldDataKeeps
<1>6. CASE \E i \in DOMAIN threats, status \in Detection!Status : Detection!UpdateThreatStatus(i, status)
  BY <1>6, UpdateThreatStatusKeeps
<1>7. CASE UNCHANGED Detection!vars
  <2>1. UNCHANGED <<now, threats, results, patterns>>
    BY <1>7 DEF Detection!vars
  <2>2. IsWork(patterns')
    BY <2>1 DEF DetectionInv
  <2> QED
    BY <2>1, <2>2, DetectionInvMoves
<1> QED
  BY <1>1, <1>2, <1>3, <1>4, <1>5, <1>6, <1>7 DEF Detection!Next

LEMMA DetectionInvSuffices == DetectionInv => ThreatsAreReported
<1> SUFFICES ASSUME DetectionInv PROVE Detection!ThreatsAreReported
  BY DEF ThreatsAreReported
<1> SUFFICES ASSUME NEW i \in DOMAIN threats
             PROVE  LET own == {k \in DOMAIN results : results[k].id = <<"threat", i>>}
                    IN  /\ Detection!Cardinality(own) <= 1
                        /\ own = {} => \/ now - threats[i].createdAt > MaxAge
                                       \/ Len(results) = MaxResults
  BY DEF Detection!ThreatsAreReported
<1> DEFINE own == {k \in DOMAIN results : results[k].id = <<"threat", i>>}
<1>1. i \in Nat
  BY WorkIs DEF DetectionInv
<1>2. \A k : k \in own <=> k \in DOMAIN results /\ results[k].id = Of(i)
  BY DEF Of
<1> HIDE DEF own
<1>3. \A j, k \in own : j = k
  BY <1>1, <1>2 DEF DetectionInv, IsResults
<1>4. Cardinality(own) <= 1
  <2>1. CASE own = {}
    BY <2>1, FS_EmptySet
  <2>2. CASE own # {}
    <3>1. PICK k \in own : own = {k}
      BY <1>3, <2>2
    <3>2. Cardinality({k}) = 1
      BY ONLY FS_Singleton
    <3> QED
      BY ONLY <3>1, <3>2
  <2> QED
    BY <2>1, <2>2
<1>5. own = {} => now - threats[i].createdAt > MaxAge \/ Len(results) = MaxResults
  BY <1>2 DEF DetectionInv, Told
<1> QED
  BY <1>4, <1>5, PlacesAreCounted DEF own

\* In every behaviour of the detection, for every event, request, limit and
\* age: a threat younger than a day has exactly one detection result of its own,
\* or the limit has been reached (behavioralThreatDetection.ts,
\* addDetectionResult and cleanupOldData).
THEOREM ThreatsAlwaysReported == DetectionSpec => []ThreatsAreReported
<1>1. DetectionSpec => []DetectionInv
  BY InitDetectionInv, DetectionNextKeeps, PTL DEF DetectionSpec
<1> QED
  BY <1>1, DetectionInvSuffices, PTL
=============================================================================
