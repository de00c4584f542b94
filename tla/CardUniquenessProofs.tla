------------------------ MODULE CardUniquenessProofs ------------------------
(***************************************************************************)
(* Proofs about card generation for every number of requests, cards,       *)
(* connections and processes.                                              *)
(***************************************************************************)
EXTENDS CardUniqueness, TLAPS

LEMMA RecordTyping ==
  ASSUME TypeOK, NEW r \in Request, cand[r] \in Card, RecordReservation(r)
  PROVE  /\ row' \in [Card -> {"absent", "live", "expired"}]
         /\ holder' \in [Card -> Request \cup {NoRequest}]
BY DEF TypeOK, RecordReservation

\* Every variable keeps its type, and a request past "generate" has a candidate.
THEOREM TypeCorrect == Spec => []TypeOK
<1>1. Init => TypeOK
  BY NoCardAssumption, MaxRetriesAssumption DEF Init, TypeOK, Location
<1>2. TypeOK /\ [Next]_vars => TypeOK'
  <2> SUFFICES ASSUME TypeOK, [Next]_vars PROVE TypeOK'
    OBVIOUS
  <2> USE NoCardAssumption, MaxRetriesAssumption
          DEF TypeOK, Location, ReservedAt, UncacheAt, Ended, Goto, dbVars, Disconnect, Unlocked
  <2>1. ASSUME NEW r \in Request, Generate(r) PROVE TypeOK'
    BY <2>1 DEF Generate
  <2>2. ASSUME NEW r \in Request, GiveUp(r) PROVE TypeOK'
    BY <2>2 DEF GiveUp
  <2>3. ASSUME NEW r \in Request, CheckCache(r) PROVE TypeOK'
    BY <2>3 DEF CheckCache
  <2>4. ASSUME NEW r \in Request, CheckPool(r) PROVE TypeOK'
    BY <2>4 DEF CheckPool
  <2>5. ASSUME NEW r \in Request, CheckDb(r) PROVE TypeOK'
    BY <2>5 DEF CheckDb
  <2>6. ASSUME NEW r \in Request, CacheReservation(r) PROVE TypeOK'
    BY <2>6 DEF CacheReservation, WriteCache
  <2>7. ASSUME NEW r \in Request, Create(r) PROVE TypeOK'
    <3>1. cand[r] \in Card
      BY <2>7 DEF Create
    <3>2. stored' \in [Card -> Request \cup {NoRequest}]
      BY <2>7, <3>1 DEF Create
    <3>3. /\ row' = row /\ holder' = holder /\ locks' = locks /\ cached' = cached
          /\ cand' = cand /\ pass' = pass /\ attempts' = attempts
          /\ \E l \in {"markCached", "throwRelease"} : pc' = [pc EXCEPT ![r] = l]
      BY <2>7 DEF Create
    <3> QED
      BY <3>1, <3>2, <3>3
  <2>8. ASSUME NEW r \in Request, MarkCached(r) PROVE TypeOK'
    BY <2>8 DEF MarkCached, WriteCache
  <2>9. ASSUME NEW r \in Request, Uncache(r) PROVE TypeOK'
    BY <2>9 DEF Uncache
  <2>10. ASSUME NEW r \in Request, NEW n \in Conn, Reserve(r, n) PROVE TypeOK'
    <3>1. cand[r] \in Card
      BY <2>10 DEF Reserve
    <3>2. /\ stored' = stored /\ cached' = cached /\ cand' = cand
          /\ pass' = pass /\ attempts' = attempts
          /\ pc' \in [Request -> Location]
      BY <2>10 DEF Reserve
    <3>3. /\ row' \in [Card -> {"absent", "live", "expired"}]
          /\ holder' \in [Card -> Request \cup {NoRequest}]
      <4>1. CASE RecordReservation(r)
        BY <3>1, <4>1, RecordTyping
      <4>2. CASE UNCHANGED <<row, holder>>
        BY <4>2
      <4> QED
        BY <2>10, <4>1, <4>2 DEF Reserve
    <3>4. locks' \in [Conn -> [Card -> Nat]]
      <4>1. CASE Grantable(n, cand[r])
        <5>1. locks' = [locks EXCEPT ![n] = [locks[n] EXCEPT ![cand[r]] = @ + 1]]
          BY <2>10, <4>1 DEF Reserve
        <5>2. [locks[n] EXCEPT ![cand[r]] = @ + 1] \in [Card -> Nat]
          BY <3>1
        <5> QED
          BY <5>1, <5>2
      <4>2. CASE ~Grantable(n, cand[r])
        BY <2>10, <4>2 DEF Reserve
      <4> QED
        BY <4>1, <4>2
    <3>5. \A q \in Request : cand'[q] = NoCard => pc'[q] \in {"generate", "failed", "crashed"}
      BY <2>10, <3>1 DEF Reserve
    <3> QED
      BY <3>2, <3>3, <3>4, <3>5
  <2>11. ASSUME NEW r \in Request, NEW n \in Conn, ReserveFault(r, n) PROVE TypeOK'
    <3>1. cand[r] \in Card
      BY <2>11 DEF ReserveFault
    <3>2. /\ row' \in [Card -> {"absent", "live", "expired"}]
          /\ holder' \in [Card -> Request \cup {NoRequest}]
      <4>1. CASE RecordReservation(r)
        BY <3>1, <4>1, RecordTyping
      <4>2. CASE UNCHANGED <<row, holder>>
        BY <4>2
      <4> QED
        BY <2>11, <4>1, <4>2 DEF ReserveFault
    <3>3. locks' \in [Conn -> [Card -> Nat]]
      BY <2>11 DEF ReserveFault
    <3>4. /\ stored' = stored /\ cached' = cached /\ cand' = cand
          /\ pass' = pass /\ attempts' = attempts
          /\ pc' = [pc EXCEPT ![r] = "generate"]
      BY <2>11 DEF ReserveFault
    <3> QED
      BY <3>2, <3>3, <3>4
  <2>12. ASSUME NEW r \in Request, NEW n \in Conn, CreateFault(r, n) PROVE TypeOK'
    <3>1. cand[r] \in Card
      BY <2>12 DEF CreateFault
    <3>2. stored' \in [Card -> Request \cup {NoRequest}]
      BY <2>12, <3>1 DEF CreateFault
    <3>3. locks' \in [Conn -> [Card -> Nat]]
      BY <2>12 DEF CreateFault
    <3>4. /\ row' = row /\ holder' = holder /\ cached' = cached
          /\ cand' = cand /\ pass' = pass /\ attempts' = attempts
          /\ pc' = [pc EXCEPT ![r] = "throwRelease"]
      BY <2>12 DEF CreateFault
    <3> QED
      BY <3>1, <3>2, <3>3, <3>4
  <2>13. ASSUME NEW r \in Request, NEW n \in Conn, Release(r, n) PROVE TypeOK'
    BY <2>13 DEF Release, EraseReservation
  <2>14. ASSUME NEW r \in Request, NEW n \in Conn, ReleaseFault(r, n) PROVE TypeOK'
    BY <2>14 DEF ReleaseFault, EraseReservation
  <2>15. CASE Environment
    <3>1. ASSUME NEW c \in Card, LeaseExpires(c) PROVE TypeOK'
      BY <3>1 DEF LeaseExpires
    <3>2. ASSUME NEW c \in Card, CacheExpires(c) PROVE TypeOK'
      BY <3>2 DEF CacheExpires
    <3>3. CASE CleanupExpired
      BY <3>3 DEF CleanupExpired
    <3>4. ASSUME NEW n \in Conn, Recycle(n) PROVE TypeOK'
      BY <3>4 DEF Recycle
    <3>5. ASSUME NEW p \in Process, Crash(p) PROVE TypeOK'
      BY <3>5 DEF Crash
    <3> QED
      BY <2>15, <3>1, <3>2, <3>3, <3>4, <3>5 DEF Environment
  <2>16. CASE UNCHANGED vars
    BY <2>16 DEF vars
  <2> QED
    BY <2>1, <2>2, <2>3, <2>4, <2>5, <2>6, <2>7, <2>8, <2>9, <2>10, <2>11, <2>12,
       <2>13, <2>14, <2>15, <2>16 DEF Next, RequestStep
<1> QED
  BY <1>1, <1>2, PTL DEF Spec

-----------------------------------------------------------------------------
(* Exclusion.  While leases hold, ReservationBacked is inductive: a grant  *)
(* needs a row that is not live, and whoever erases a row is itself at a   *)
(* location where the row is its own.                                      *)

Exclusive == ReservationBacked /\ FreshUntilCreate

LEMMA ExclusiveInit == Init => Exclusive
BY DEF Init, Exclusive, ReservationBacked, FreshUntilCreate, ReservedAt

LEMMA ExclusiveStep ==
  ASSUME "lease" \notin Faults, TypeOK, Exclusive, [Next]_vars
  PROVE  Exclusive'
<1> USE DEF Exclusive, ReservationBacked, FreshUntilCreate, TypeOK, ReservedAt,
            UncacheAt, Goto, dbVars
<1> USE NoRequestAssumption
<1>1. ASSUME NEW r \in Request, Generate(r) PROVE Exclusive'
  BY <1>1 DEF Generate
<1>2. ASSUME NEW r \in Request, GiveUp(r) PROVE Exclusive'
  BY <1>2 DEF GiveUp
<1>3. ASSUME NEW r \in Request, CheckCache(r) PROVE Exclusive'
  BY <1>3 DEF CheckCache
<1>4. ASSUME NEW r \in Request, CheckPool(r) PROVE Exclusive'
  BY <1>4 DEF CheckPool
<1>5. ASSUME NEW r \in Request, CheckDb(r) PROVE Exclusive'
  BY <1>5 DEF CheckDb
<1>6. ASSUME NEW r \in Request, CacheReservation(r) PROVE Exclusive'
  BY <1>6 DEF CacheReservation
<1>7. ASSUME NEW r \in Request, Create(r) PROVE Exclusive'
  BY <1>7 DEF Create
<1>8. ASSUME NEW r \in Request, MarkCached(r) PROVE Exclusive'
  BY <1>8 DEF MarkCached
<1>9. ASSUME NEW r \in Request, Uncache(r) PROVE Exclusive'
  BY <1>9 DEF Uncache
<1>10. ASSUME NEW r \in Request, NEW n \in Conn, Reserve(r, n) PROVE Exclusive'
  BY <1>10 DEF Reserve, Grantable, RecordReservation, Location
<1>11. ASSUME NEW r \in Request, NEW n \in Conn, ReserveFault(r, n) PROVE Exclusive'
  <2>1. cand[r] \in Card
    BY <1>11 DEF ReserveFault, Location
  <2>2. stored' = stored /\ cand' = cand /\ pc' = [pc EXCEPT ![r] = "generate"]
    BY <1>11 DEF ReserveFault
  <2>3. \A q \in Request : pc'[q] \in ReservedAt => q # r /\ pc[q] \in ReservedAt
    BY <2>2
  <2>4. CASE Grantable(n, cand[r]) /\ RecordReservation(r)
    BY <2>1, <2>2, <2>3, <2>4 DEF Grantable, RecordReservation
  <2>5. CASE UNCHANGED <<row, holder>>
    BY <2>2, <2>3, <2>5
  <2> QED
    BY <1>11, <2>4, <2>5 DEF ReserveFault
<1>12. ASSUME NEW r \in Request, NEW n \in Conn, CreateFault(r, n) PROVE Exclusive'
  <2>1. /\ row' = row /\ holder' = holder /\ cand' = cand
        /\ pc[r] = "create" /\ pc' = [pc EXCEPT ![r] = "throwRelease"]
    BY <1>12 DEF CreateFault
  <2>2. ReservationBacked'
    BY <2>1
  <2>3. \A q \in Request \ {r} : pc[q] \in ReservedAt => cand[q] # cand[r]
    BY <2>1
  <2>4. CASE stored' = [stored EXCEPT ![cand[r]] = r]
    BY <2>1, <2>2, <2>3, <2>4
  <2>5. CASE UNCHANGED stored
    BY <2>1, <2>2, <2>5
  <2> QED
    BY <1>12, <2>4, <2>5 DEF CreateFault
<1>13. ASSUME NEW r \in Request, NEW n \in Conn, Release(r, n) PROVE Exclusive'
  BY <1>13 DEF Release, EraseReservation
<1>14. ASSUME NEW r \in Request, NEW n \in Conn, ReleaseFault(r, n) PROVE Exclusive'
  BY <1>14 DEF ReleaseFault, EraseReservation
<1>15. CASE Environment
  <2>1. ASSUME NEW c \in Card, LeaseExpires(c) PROVE FALSE
    BY <2>1 DEF LeaseExpires
  <2>2. ASSUME NEW c \in Card, CacheExpires(c) PROVE Exclusive'
    BY <2>2 DEF CacheExpires
  <2>3. CASE CleanupExpired
    BY <2>3 DEF CleanupExpired
  <2>4. ASSUME NEW n \in Conn, Recycle(n) PROVE Exclusive'
    BY <2>4 DEF Recycle
  <2>5. ASSUME NEW p \in Process, Crash(p) PROVE Exclusive'
    BY <2>5 DEF Crash
  <2> QED
    BY <1>15, <2>1, <2>2, <2>3, <2>4, <2>5 DEF Environment
<1>16. CASE UNCHANGED vars
  BY <1>16 DEF vars
<1> QED
  BY <1>1, <1>2, <1>3, <1>4, <1>5, <1>6, <1>7, <1>8, <1>9, <1>10, <1>11, <1>12,
     <1>13, <1>14, <1>15, <1>16 DEF Next, RequestStep

\* With leases that do not run out during a call, a reservation is exclusive:
\* the live pool row of the candidate records this request and no other.
THEOREM ReservationsExclusive ==
  ASSUME "lease" \notin Faults PROVE Spec => []ReservationBacked
<1>1. TypeOK /\ Exclusive /\ [Next]_vars => Exclusive'
  BY ExclusiveStep
<1>2. Exclusive => ReservationBacked
  BY DEF Exclusive
<1> QED
  BY <1>1, <1>2, ExclusiveInit, TypeCorrect, PTL DEF Spec

\* Under the same assumption no request ever inserts a card that was stored
\* between its checks and its INSERT.
THEOREM InsertsAreFresh ==
  ASSUME "lease" \notin Faults PROVE Spec => []FreshUntilCreate
<1>1. TypeOK /\ Exclusive /\ [Next]_vars => Exclusive'
  BY ExclusiveStep
<1>2. Exclusive => FreshUntilCreate
  BY DEF Exclusive
<1> QED
  BY <1>1, <1>2, ExclusiveInit, TypeCorrect, PTL DEF Spec
-----------------------------------------------------------------------------
(* Refinement.  Two facts tie control to data: past its INSERT a request   *)
(* owns the row of its candidate, and a row of r exists only once r is     *)
(* past its INSERT, so r never stores a second card.                       *)

SavedAt == {"markCached", "returnRelease", "returnUncache", "returned"}
PastCreate == SavedAt \cup {"throwRelease", "throwUncache", "failed", "crashed"}

OwnsItsCard ==
  /\ \A r \in Request : pc[r] \in SavedAt => stored[cand[r]] = r
  /\ \A r \in Request, c \in Card : stored[c] = r => pc[r] \in PastCreate

LEMMA OwnsItsCardStep ==
  ASSUME TypeOK, OwnsItsCard, [Next]_vars
  PROVE  OwnsItsCard'
<1> USE NoRequestAssumption
        DEF OwnsItsCard, SavedAt, PastCreate, Goto, dbVars, TypeOK
<1>1. ASSUME NEW r \in Request, Generate(r) PROVE OwnsItsCard'
  BY <1>1 DEF Generate
<1>2. ASSUME NEW r \in Request, GiveUp(r) PROVE OwnsItsCard'
  BY <1>2 DEF GiveUp
<1>3. ASSUME NEW r \in Request, CheckCache(r) PROVE OwnsItsCard'
  BY <1>3 DEF CheckCache
<1>4. ASSUME NEW r \in Request, CheckPool(r) PROVE OwnsItsCard'
  BY <1>4 DEF CheckPool
<1>5. ASSUME NEW r \in Request, CheckDb(r) PROVE OwnsItsCard'
  BY <1>5 DEF CheckDb
<1>6. ASSUME NEW r \in Request, CacheReservation(r) PROVE OwnsItsCard'
  BY <1>6 DEF CacheReservation
<1>7. ASSUME NEW r \in Request, Create(r) PROVE OwnsItsCard'
  BY <1>7 DEF Create, Location, ReservedAt, UncacheAt, Ended
<1>8. ASSUME NEW r \in Request, MarkCached(r) PROVE OwnsItsCard'
  BY <1>8 DEF MarkCached
<1>9. ASSUME NEW r \in Request, Uncache(r) PROVE OwnsItsCard'
  BY <1>9 DEF Uncache
<1>10. ASSUME NEW r \in Request, NEW n \in Conn, Reserve(r, n) PROVE OwnsItsCard'
  BY <1>10 DEF Reserve
<1>11. ASSUME NEW r \in Request, NEW n \in Conn, ReserveFault(r, n) PROVE OwnsItsCard'
  BY <1>11 DEF ReserveFault
<1>12. ASSUME NEW r \in Request, NEW n \in Conn, CreateFault(r, n) PROVE OwnsItsCard'
  BY <1>12 DEF CreateFault, Location, ReservedAt, UncacheAt, Ended
<1>13. ASSUME NEW r \in Request, NEW n \in Conn, Release(r, n) PROVE OwnsItsCard'
  BY <1>13 DEF Release
<1>14. ASSUME NEW r \in Request, NEW n \in Conn, ReleaseFault(r, n) PROVE OwnsItsCard'
  BY <1>14 DEF ReleaseFault
<1>15. CASE Environment
  <2>1. ASSUME NEW c \in Card, LeaseExpires(c) \/ CacheExpires(c) PROVE OwnsItsCard'
    BY <2>1 DEF LeaseExpires, CacheExpires
  <2>2. CASE CleanupExpired
    BY <2>2 DEF CleanupExpired
  <2>3. ASSUME NEW n \in Conn, Recycle(n) PROVE OwnsItsCard'
    BY <2>3 DEF Recycle
  <2>4. ASSUME NEW p \in Process, Crash(p) PROVE OwnsItsCard'
    BY <2>4 DEF Crash, Ended
  <2> QED
    BY <1>15, <2>1, <2>2, <2>3, <2>4 DEF Environment
<1>16. CASE UNCHANGED vars
  BY <1>16 DEF vars
<1> QED
  BY <1>1, <1>2, <1>3, <1>4, <1>5, <1>6, <1>7, <1>8, <1>9, <1>10, <1>11, <1>12,
     <1>13, <1>14, <1>15, <1>16 DEF Next, RequestStep

LEMMA RegistryInit == Init => Registry!Init
BY DEF Init, Registry!Init, Outcome

LEMMA RegistryStep ==
  ASSUME TypeOK, OwnsItsCard, [Next]_vars
  PROVE  [Registry!Next]_(Registry!registryVars)
<1> DEFINE Stutter == stored' = stored /\ Outcome' = Outcome
<1> USE NoRequestAssumption DEF TypeOK, Goto, dbVars
<1>0. Stutter => [Registry!Next]_(Registry!registryVars)
  BY DEF Registry!registryVars
<1>1. ASSUME NEW r \in Request, Generate(r) PROVE Stutter
  BY <1>1 DEF Generate, Outcome
<1>3. ASSUME NEW r \in Request, CheckCache(r) PROVE Stutter
  BY <1>3 DEF CheckCache, Outcome
<1>4. ASSUME NEW r \in Request, CheckPool(r) PROVE Stutter
  BY <1>4 DEF CheckPool, Outcome
<1>5. ASSUME NEW r \in Request, CheckDb(r) PROVE Stutter
  BY <1>5 DEF CheckDb, Outcome
<1>6. ASSUME NEW r \in Request, CacheReservation(r) PROVE Stutter
  BY <1>6 DEF CacheReservation, Outcome
<1>8. ASSUME NEW r \in Request, MarkCached(r) PROVE Stutter
  BY <1>8 DEF MarkCached, Outcome
<1>10. ASSUME NEW r \in Request, NEW n \in Conn, Reserve(r, n) PROVE Stutter
  BY <1>10 DEF Reserve, Outcome
<1>11. ASSUME NEW r \in Request, NEW n \in Conn, ReserveFault(r, n) PROVE Stutter
  BY <1>11 DEF ReserveFault, Outcome
<1>13. ASSUME NEW r \in Request, NEW n \in Conn, Release(r, n) PROVE Stutter
  BY <1>13 DEF Release, Outcome
<1>20. ASSUME NEW r \in Request, cand[r] \in Card, pc[r] = "create",
              stored[cand[r]] = NoRequest, stored' = [stored EXCEPT ![cand[r]] = r],
              Outcome' = Outcome
       PROVE  Registry!Next
  <2>1. Outcome[r] = "pending"
    BY <1>20 DEF Outcome
  <2>2. \A d \in Card : stored[d] # r
    BY <1>20 DEF OwnsItsCard, PastCreate, SavedAt
  <2>3. Registry!Store(r, cand[r])
    BY <1>20, <2>1, <2>2 DEF Registry!Store
  <2> QED
    BY <1>20, <2>3 DEF Registry!Next
<1>21. ASSUME NEW R \in SUBSET Request, \A r \in R : pc[r] \notin Ended,
              stored' = stored, cand' = cand,
              \A r \in R : pc'[r] \in {"failed", "crashed"},
              \A r \in Request \ R : pc'[r] = pc[r],
              pc' \in [Request -> Location]
       PROVE  Registry!Next
  <2>1. \A r \in R : Outcome[r] = "pending"
    BY <1>21 DEF Outcome, Ended
  <2>2. Outcome' = [r \in Request |-> IF r \in R THEN "failed" ELSE Outcome[r]]
    BY <1>21 DEF Outcome
  <2>3. Registry!Fail(R)
    BY <1>21, <2>1, <2>2 DEF Registry!Fail
  <2> QED
    BY <2>3 DEF Registry!Next
<1>22. ASSUME NEW r \in Request, pc[r] \in {"returnRelease", "returnUncache"},
              stored' = stored, cand' = cand, pc' = [pc EXCEPT ![r] = "returned"]
       PROVE  Registry!Next
  <2>1. cand[r] \in Card /\ stored[cand[r]] = r
    BY <1>22 DEF OwnsItsCard, SavedAt
  <2>2. Outcome[r] = "pending"
    BY <1>22 DEF Outcome
  <2>3. Outcome' = [Outcome EXCEPT ![r] = cand[r]]
    BY <1>22 DEF Outcome
  <2>4. Registry!Deliver(r, cand[r])
    BY <1>22, <2>1, <2>2, <2>3 DEF Registry!Deliver
  <2> QED
    BY <2>1, <2>4 DEF Registry!Next
<1>2. ASSUME NEW r \in Request, GiveUp(r) PROVE Registry!Next
  BY <1>2, <1>21, {r} \in SUBSET Request DEF GiveUp, Ended, Location
<1>7. ASSUME NEW r \in Request, Create(r) PROVE Stutter \/ Registry!Next
  <2>1. cand[r] \in Card /\ Outcome' = Outcome
    BY <1>7 DEF Create, Outcome
  <2> QED
    BY <1>7, <1>20, <2>1 DEF Create
<1>9. ASSUME NEW r \in Request, Uncache(r) PROVE Registry!Next
  <2>1. CASE pc[r] = "returnUncache"
    BY <1>9, <1>22, <2>1 DEF Uncache
  <2>2. CASE pc[r] = "throwUncache"
    BY <1>9, <1>21, <2>2, {r} \in SUBSET Request DEF Uncache, Ended, Location
  <2> QED
    BY <1>9, <2>1, <2>2 DEF Uncache, UncacheAt
<1>12. ASSUME NEW r \in Request, NEW n \in Conn, CreateFault(r, n)
       PROVE  Stutter \/ Registry!Next
  <2>1. cand[r] \in Card /\ Outcome' = Outcome
    BY <1>12 DEF CreateFault, Outcome
  <2> QED
    BY <1>12, <1>20, <2>1 DEF CreateFault
<1>14. ASSUME NEW r \in Request, NEW n \in Conn, ReleaseFault(r, n)
       PROVE  Registry!Next
  <2>1. CASE pc[r] = "returnRelease"
    BY <1>14, <1>22, <2>1 DEF ReleaseFault
  <2>2. CASE pc[r] = "throwRelease"
    BY <1>14, <1>21, <2>2, {r} \in SUBSET Request DEF ReleaseFault, Ended, Location
  <2> QED
    BY <1>14, <2>1, <2>2 DEF ReleaseFault
<1>15. CASE Environment
  <2>1. ASSUME NEW c \in Card, LeaseExpires(c) \/ CacheExpires(c) PROVE Stutter
    BY <2>1 DEF LeaseExpires, CacheExpires, Outcome
  <2>2. CASE CleanupExpired
    BY <1>0, <2>2 DEF CleanupExpired, Outcome
  <2>3. ASSUME NEW n \in Conn, Recycle(n) PROVE Stutter
    BY <2>3 DEF Recycle, Outcome
  <2>4. ASSUME NEW p \in Process, Crash(p) PROVE Registry!Next
    <3> DEFINE R == {r \in Request : Home[r] = p /\ pc[r] \notin Ended}
    <3> QED
      BY <1>21, <2>4, R \in SUBSET Request DEF Crash, Ended, Location
  <2> QED
    BY <1>0, <1>15, <2>1, <2>2, <2>3, <2>4 DEF Environment
<1>16. CASE UNCHANGED vars
  BY <1>0, <1>16 DEF vars, Outcome
<1> QED
  BY <1>0, <1>1, <1>2, <1>3, <1>4, <1>5, <1>6, <1>7, <1>8, <1>9, <1>10, <1>11,
     <1>12, <1>13, <1>14, <1>15, <1>16 DEF Next, RequestStep

\* Card generation implements the registry: every returned card is a stored
\* row made by the returning request, and no card is returned twice.
THEOREM GenerationImplementsRegistry == Spec => RegistryRefined
<1>1. Init => OwnsItsCard
  BY NoRequestAssumption DEF Init, OwnsItsCard, SavedAt
<1>2. TypeOK /\ OwnsItsCard /\ [Next]_vars => OwnsItsCard'
  BY OwnsItsCardStep
<1>3. TypeOK /\ OwnsItsCard /\ [Next]_vars => [Registry!Next]_(Registry!registryVars)
  BY RegistryStep
<1> QED
  BY <1>1, <1>2, <1>3, RegistryInit, TypeCorrect, PTL
     DEF Spec, RegistryRefined, Registry!RegistrySpec
=============================================================================
