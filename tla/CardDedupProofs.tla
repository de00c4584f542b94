--------------------------- MODULE CardDedupProofs ---------------------------
(***************************************************************************)
(* Proofs about deduplication, for every number of requests, slots, cards, *)
(* processes and retries, under every fault.                               *)
(***************************************************************************)
EXTENDS CardDedup, TLAPS

-----------------------------------------------------------------------------
(* The inductive invariant.                                                *)

\* A request that stores or has stored has its checks behind it, and the card
\* it is about to mark is in the table.
SlotInv(s) ==
  /\ phase[Owner[s]] \in {"storing", "markKey"} => at[s] \in Resolved
  /\ phase[Owner[s]] = "markKey" => Kind[Owner[s]] = "single" /\ rows[cand[s]] # NoRequest

DedupInv == TypeOK /\ (\A s \in Slot : SlotInv(s)) /\ LocalHitIsTrue

\* Everything is empty at first.
LEMMA InitDedupInv == Init => DedupInv
<1> SUFFICES ASSUME Init PROVE DedupInv
  OBVIOUS
<1> USE MaxRetriesAssumption, SentinelAssumption, OwnerAssumption
<1>1. TypeOK
  BY DEF Init, TypeOK, Resolved
<1>2. (\A s \in Slot : SlotInv(s)) /\ LocalHitIsTrue
  BY DEF Init, SlotInv, LocalHitIsTrue
<1> QED
  BY <1>1, <1>2 DEF DedupInv

\* No step deletes a row.
RowsGrow == \A c \in Card : rows[c] # NoRequest => rows'[c] # NoRequest

\* Slots of whom nothing changes keep their part.
SameSlot(s) == at'[s] = at[s] /\ cand'[s] = cand[s] /\ phase'[Owner[s]] = phase[Owner[s]]

\* Their control and their card is all it speaks of, as rows only grow.
LEMMA SameSlotKeeps ==
  ASSUME TypeOK, NEW s \in Slot, SlotInv(s), SameSlot(s), RowsGrow
  PROVE  SlotInv(s)'
BY DEF SameSlot, SlotInv, RowsGrow, TypeOK, Resolved

\* The tables of the tiers, when only the LRUs lose entries.
LEMMA HitsKept ==
  ASSUME LocalHitIsTrue, RowsGrow, \A p \in Process, c \in Card : lru'[p][c] = "exists" => lru[p][c] = "exists"
  PROVE  LocalHitIsTrue'
BY DEF LocalHitIsTrue, RowsGrow

-----------------------------------------------------------------------------
(* Checking.                                                               *)

\* An answer moves one slot whose request is not storing yet.
LEMMA AnswerKeeps ==
  ASSUME TypeOK, NEW s \in Slot, \A t \in Slot : SlotInv(t), at[s] \notin Resolved \cup {"draw"},
         AnswerDuplicate(s) \/ AnswerFresh(s), UNCHANGED <<rows, cand>>
  PROVE  /\ at' \in [Slot -> {"draw", "local", "redis", "db", "setKey"} \cup Resolved]
         /\ tries' \in [Request -> 0..MaxRetries]
         /\ phase' \in [Request -> {"checking", "storing", "markKey", "returned", "failed"}]
         /\ \A t \in Slot : at'[t] # "draw" => cand[t] \in Card
         /\ \A t \in Slot : SlotInv(t)'
<1> DEFINE r == Owner[s]
<1>0. r \in Request /\ phase[r] \notin {"storing", "markKey"}
  BY OwnerAssumption DEF SlotInv, Resolved
<1>1. CASE AnswerFresh(s)
  BY <1>0, <1>1 DEF AnswerFresh, TypeOK, SlotInv, Resolved
<1>2. CASE AnswerDuplicate(s)
  <2>1. CASE Kind[r] = "single" /\ tries[r] < MaxRetries
    <3>1. tries' = [tries EXCEPT ![r] = @ + 1] /\ at' = [at EXCEPT ![s] = "draw"] /\ phase' = phase
      BY <1>2, <2>1 DEF AnswerDuplicate
    <3>2. tries[r] + 1 \in 0..MaxRetries
      BY <1>0, <2>1, MaxRetriesAssumption DEF TypeOK
    <3>3. tries' \in [Request -> 0..MaxRetries]
      BY <1>0, <3>1, <3>2 DEF TypeOK
    <3> QED
      BY <1>0, <3>1, <3>3 DEF TypeOK, SlotInv, Resolved
  <2>2. CASE Kind[r] = "single" /\ ~(tries[r] < MaxRetries)
    <3>1. phase' = [phase EXCEPT ![r] = "failed"] /\ at' = [at EXCEPT ![s] = "duplicate"] /\ tries' = tries
      BY <1>2, <2>2 DEF AnswerDuplicate
    <3> QED
      BY <1>0, <3>1, OwnerAssumption DEF TypeOK, SlotInv, Resolved
  <2>3. CASE Kind[r] # "single"
    <3>1. at' = [at EXCEPT ![s] = "duplicate"] /\ UNCHANGED <<tries, phase>>
      BY <1>2, <2>3 DEF AnswerDuplicate
    <3> QED
      BY <1>0, <3>1 DEF TypeOK, SlotInv, Resolved
  <2> QED
    BY <2>1, <2>2, <2>3
<1> QED
  BY <1>1, <1>2

\* What a step that checks a slot owes beyond its answer.
LEMMA AnsweringKeeps ==
  ASSUME DedupInv, NEW s \in Slot, at[s] \in {"local", "redis", "db", "setKey"},
         AnswerDuplicate(s) \/ AnswerFresh(s), UNCHANGED <<rows, cand>>,
         lru' \in [Process -> [Card -> {"none", "exists", "missing"}]], keys' \subseteq Card, LocalHitIsTrue'
  PROVE  DedupInv'
<1>1. TypeOK /\ \A t \in Slot : SlotInv(t)
  BY DEF DedupInv
<1>2. at[s] \notin Resolved \cup {"draw"}
  BY DEF Resolved
<1> QED
  BY <1>1, <1>2, AnswerKeeps DEF DedupInv, TypeOK

\* A check that goes on to the next level.
LEMMA GoesOnKeeps ==
  ASSUME DedupInv, NEW s \in Slot, at[s] \in {"local", "redis", "db"}, NEW l \in {"redis", "db", "setKey"},
         at' = [at EXCEPT ![s] = l], UNCHANGED <<rows, lru, keys, cand, tries, phase>>
  PROVE  DedupInv'
<1>1. TypeOK /\ (\A t \in Slot : SlotInv(t)) /\ LocalHitIsTrue
  BY DEF DedupInv
<1>2. TypeOK'
  BY <1>1 DEF TypeOK
<1>3. ASSUME NEW t \in Slot PROVE SlotInv(t)'
  BY <1>1, OwnerAssumption DEF TypeOK, SlotInv, Resolved
<1>4. LocalHitIsTrue'
  BY <1>1 DEF LocalHitIsTrue
<1> QED
  BY <1>2, <1>3, <1>4 DEF DedupInv

\* Level 1 only reads.
LEMMA CheckLocalKeeps ==
  ASSUME DedupInv, NEW s \in Slot, CheckLocal(s)
  PROVE  DedupInv'
<1> DEFINE entry == lru[Home[Owner[s]]][cand[s]]
<1>0. TypeOK /\ LocalHitIsTrue /\ cand[s] \in Card /\ Home[Owner[s]] \in Process
  BY OwnerAssumption, HomeAssumption DEF DedupInv, TypeOK, CheckLocal
<1>1. entry \in {"none", "exists", "missing"}
  BY <1>0 DEF TypeOK
<1>2. at[s] = "local" /\ UNCHANGED <<rows, lru, keys, cand>>
  BY DEF CheckLocal
<1>3. \/ AnswerDuplicate(s) \/ AnswerFresh(s)
      \/ at' = [at EXCEPT ![s] = "redis"] /\ UNCHANGED <<tries, phase>>
  BY <1>1 DEF CheckLocal
<1>4. LocalHitIsTrue'
  BY <1>0, <1>2 DEF LocalHitIsTrue
<1>5. lru' \in [Process -> [Card -> {"none", "exists", "missing"}]] /\ keys' \subseteq Card
  BY <1>0, <1>2 DEF TypeOK
<1> QED
  BY <1>2, <1>3, <1>4, <1>5, AnsweringKeeps, GoesOnKeeps

\* So does level 2.
LEMMA CheckRedisKeeps ==
  ASSUME DedupInv, NEW s \in Slot, CheckRedis(s)
  PROVE  DedupInv'
<1>0. TypeOK /\ LocalHitIsTrue
  BY DEF DedupInv
<1>1. at[s] = "redis" /\ UNCHANGED <<rows, lru, keys, cand>>
  BY DEF CheckRedis
<1>2. AnswerDuplicate(s) \/ (at' = [at EXCEPT ![s] = "db"] /\ UNCHANGED <<tries, phase>>)
  BY DEF CheckRedis
<1>3. LocalHitIsTrue'
  BY <1>0, <1>1 DEF LocalHitIsTrue
<1>4. lru' \in [Process -> [Card -> {"none", "exists", "missing"}]] /\ keys' \subseteq Card
  BY <1>0, <1>1 DEF TypeOK
<1> QED
  BY <1>1, <1>2, <1>3, <1>4, AnsweringKeeps, GoesOnKeeps

\* What caching an entry does to the LRUs.
LEMMA CachedLocally ==
  ASSUME TypeOK, NEW r \in Request, NEW c \in Card, NEW e \in {"exists", "missing"}, CacheLocally(r, c, e),
         LocalHitIsTrue, RowsGrow, e = "exists" => rows'[c] # NoRequest
  PROVE  lru' \in [Process -> [Card -> {"none", "exists", "missing"}]] /\ LocalHitIsTrue'
<1>1. Home[r] \in Process
  BY HomeAssumption
<1> QED
  BY <1>1 DEF TypeOK, CacheLocally, LocalHitIsTrue, RowsGrow

\* Level 3 caches a hit only of a row it has read.
LEMMA CheckDbKeeps ==
  ASSUME DedupInv, NEW s \in Slot, CheckDb(s)
  PROVE  DedupInv'
<1>0. TypeOK /\ LocalHitIsTrue /\ cand[s] \in Card /\ Owner[s] \in Request
  BY OwnerAssumption DEF DedupInv, TypeOK, CheckDb
<1>1. at[s] = "db" /\ UNCHANGED <<rows, keys, cand>>
  BY DEF CheckDb
<1>2. RowsGrow /\ keys' \subseteq Card
  BY <1>0, <1>1 DEF RowsGrow, TypeOK
<1>3. CASE rows[cand[s]] # NoRequest /\ CacheLocally(Owner[s], cand[s], "exists") /\ AnswerDuplicate(s)
  <2>1. lru' \in [Process -> [Card -> {"none", "exists", "missing"}]] /\ LocalHitIsTrue'
    BY <1>0, <1>1, <1>2, <1>3, CachedLocally
  <2> QED
    BY <1>1, <1>2, <1>3, <2>1, AnsweringKeeps
<1>4. CASE at' = [at EXCEPT ![s] = "setKey"] /\ UNCHANGED <<lru, tries, phase>>
  BY <1>1, <1>4, GoesOnKeeps
<1>5. CASE AnswerFresh(s) /\ UNCHANGED lru
  <2>1. lru' \in [Process -> [Card -> {"none", "exists", "missing"}]] /\ LocalHitIsTrue'
    BY <1>0, <1>1, <1>5 DEF TypeOK, LocalHitIsTrue
  <2> QED
    BY <1>1, <1>2, <1>5, <2>1, AnsweringKeeps
<1> QED
  BY <1>3, <1>4, <1>5 DEF CheckDb

\* A card that is found absent is cached as such.
LEMMA SetKeyKeeps ==
  ASSUME DedupInv, NEW s \in Slot, SetKey(s)
  PROVE  DedupInv'
<1>0. TypeOK /\ LocalHitIsTrue /\ cand[s] \in Card /\ Owner[s] \in Request
  BY OwnerAssumption DEF DedupInv, TypeOK, SetKey
<1>1. /\ at[s] = "setKey" /\ UNCHANGED <<rows, cand>> /\ AnswerFresh(s)
      /\ CacheLocally(Owner[s], cand[s], "missing") /\ WriteKey(cand[s])
  BY DEF SetKey
<1>2. RowsGrow /\ keys' \subseteq Card
  BY <1>0, <1>1 DEF RowsGrow, TypeOK, WriteKey
<1>3. lru' \in [Process -> [Card -> {"none", "exists", "missing"}]] /\ LocalHitIsTrue'
  BY <1>0, <1>1, <1>2, CachedLocally
<1> QED
  BY <1>1, <1>2, <1>3, AnsweringKeeps

-----------------------------------------------------------------------------
(* Drawing and storing.                                                    *)

\* Drawing fills a slot and asks level 1.
LEMMA DrawKeeps ==
  ASSUME DedupInv, NEW s \in Slot, Draw(s)
  PROVE  DedupInv'
<1>0. TypeOK /\ (\A t \in Slot : SlotInv(t)) /\ LocalHitIsTrue
  BY DEF DedupInv
<1>1. PICK c \in Card : cand' = [cand EXCEPT ![s] = c]
  BY DEF Draw
<1>2. TypeOK'
  BY <1>0, <1>1 DEF TypeOK, Draw
<1>3. ASSUME NEW t \in Slot PROVE SlotInv(t)'
  <2>1. CASE t = s
    BY <2>1, <1>0, OwnerAssumption DEF Draw, SlotInv
  <2>2. CASE t # s
    <3>1. SameSlot(t) /\ RowsGrow
      BY <2>2, <1>0, <1>1 DEF SameSlot, RowsGrow, Draw, TypeOK
    <3> QED
      BY <1>0, <3>1, SameSlotKeeps
  <2> QED
    BY <2>1, <2>2
<1>4. LocalHitIsTrue'
  BY <1>0 DEF LocalHitIsTrue, Draw
<1> QED
  BY <1>2, <1>3, <1>4 DEF DedupInv

\* The 999 cards of a BIN are stored unchecked.
LEMMA DrawAllKeeps ==
  ASSUME DedupInv, NEW r \in Request, DrawAll(r)
  PROVE  DedupInv'
<1>0. TypeOK /\ (\A t \in Slot : SlotInv(t)) /\ LocalHitIsTrue
  BY DEF DedupInv
<1>1. PICK f \in [SlotsOf(r) -> Card] :
        cand' = [s \in Slot |-> IF s \in SlotsOf(r) THEN f[s] ELSE cand[s]]
  BY DEF DrawAll
<1>2. /\ at' = [s \in Slot |-> IF s \in SlotsOf(r) THEN "fresh" ELSE at[s]]
      /\ phase' = [phase EXCEPT ![r] = "storing"] /\ UNCHANGED <<rows, lru, keys, tries>>
  BY DEF DrawAll
<1>3. TypeOK'
  <2>1. cand' \in [Slot -> Card \cup {NoCard}]
    BY <1>0, <1>1 DEF TypeOK
  <2>2. at' \in [Slot -> {"draw", "local", "redis", "db", "setKey"} \cup Resolved]
    BY <1>0, <1>2 DEF TypeOK, Resolved
  <2>3. phase' \in [Request -> {"checking", "storing", "markKey", "returned", "failed"}]
    BY <1>0, <1>2 DEF TypeOK
  <2>4. \A s \in Slot : at'[s] # "draw" => cand'[s] \in Card
    BY <1>0, <1>1, <1>2 DEF TypeOK
  <2> QED
    BY <1>0, <1>2, <2>1, <2>2, <2>3, <2>4 DEF TypeOK
<1>4. ASSUME NEW t \in Slot PROVE SlotInv(t)'
  <2>1. CASE Owner[t] = r
    <3>1. at'[t] = "fresh" /\ phase'[Owner[t]] = "storing"
      BY <2>1, <1>0, <1>2 DEF SlotsOf, TypeOK
    <3> QED
      BY <3>1 DEF SlotInv, Resolved
  <2>2. CASE Owner[t] # r
    <3>1. SameSlot(t) /\ RowsGrow
      BY <2>2, <1>0, <1>1, <1>2, OwnerAssumption DEF SameSlot, RowsGrow, SlotsOf, TypeOK
    <3> QED
      BY <1>0, <3>1, SameSlotKeeps
  <2> QED
    BY <2>1, <2>2
<1>5. LocalHitIsTrue'
  BY <1>0, <1>2 DEF LocalHitIsTrue
<1> QED
  BY <1>3, <1>4, <1>5 DEF DedupInv

\* A request leaves its checks only when each is answered.
LEMMA CheckedKeeps ==
  ASSUME DedupInv, NEW r \in Request, Checked(r)
  PROVE  DedupInv'
<1>0. TypeOK /\ (\A t \in Slot : SlotInv(t)) /\ LocalHitIsTrue
  BY DEF DedupInv
<1>1. TypeOK'
  BY <1>0 DEF TypeOK, Checked
<1>2. ASSUME NEW t \in Slot PROVE SlotInv(t)'
  BY <1>0, OwnerAssumption DEF TypeOK, Checked, SlotInv, SlotsOf
<1>3. LocalHitIsTrue'
  BY <1>0 DEF LocalHitIsTrue, Checked
<1> QED
  BY <1>1, <1>2, <1>3 DEF DedupInv

\* The card of a single request is marked only after its own INSERT: the row
\* that marking relies on is there.
LEMMA StoreSingleKeeps ==
  ASSUME DedupInv, NEW r \in Request, NEW s \in Slot, StoreSingle(r, s)
  PROVE  DedupInv'
<1>0. TypeOK /\ (\A t \in Slot : SlotInv(t)) /\ LocalHitIsTrue
  BY DEF DedupInv
<1>1. /\ phase[r] = "storing" /\ Kind[r] = "single" /\ Owner[s] = r
      /\ UNCHANGED <<lru, keys, at, cand, tries>>
  BY DEF StoreSingle
<1>2. cand[s] \in Card
  BY <1>0, <1>1 DEF TypeOK, SlotInv, Resolved
<1>3. r # NoRequest
  BY SentinelAssumption
<1>4. /\ rows' = [rows EXCEPT ![cand[s]] = r] \/ rows' = rows
      /\ \/ phase' = [phase EXCEPT ![r] = "markKey"] /\ rows' = [rows EXCEPT ![cand[s]] = r]
         \/ phase' = [phase EXCEPT ![r] = "returned"]
  BY DEF StoreSingle
<1>5. TypeOK'
  BY <1>0, <1>1, <1>4 DEF TypeOK
<1>6. RowsGrow
  BY <1>0, <1>3, <1>4 DEF RowsGrow, TypeOK
<1>7. ASSUME NEW t \in Slot PROVE SlotInv(t)'
  <2>1. CASE Owner[t] = r
    <3>1. t = s
      BY <2>1, <1>1, SingleAssumption
    <3>2. at'[t] \in Resolved /\ cand'[t] = cand[s] /\ Kind[Owner[t]] = "single"
      BY <3>1, <1>0, <1>1 DEF SlotInv
    <3>3. phase'[r] = "markKey" => rows'[cand[s]] # NoRequest
      BY <1>0, <1>2, <1>3, <1>4 DEF TypeOK
    <3> QED
      BY <2>1, <3>2, <3>3 DEF SlotInv
  <2>2. CASE Owner[t] # r
    <3>1. SameSlot(t)
      BY <2>2, <1>0, <1>1, <1>4, OwnerAssumption DEF SameSlot, TypeOK
    <3> QED
      BY <1>0, <1>6, <3>1, SameSlotKeeps
  <2> QED
    BY <2>1, <2>2
<1>8. LocalHitIsTrue'
  BY <1>0, <1>1, <1>6, HitsKept
<1> QED
  BY <1>5, <1>7, <1>8 DEF DedupInv

\* Storing a batch or a run of 999 stores nothing.
LEMMA StoreManyKeeps ==
  ASSUME DedupInv, NEW r \in Request, StoreBatch(r) \/ StoreAll999(r)
  PROVE  DedupInv'
<1>0. TypeOK /\ (\A t \in Slot : SlotInv(t)) /\ LocalHitIsTrue
  BY DEF DedupInv
<1>1. phase' = [phase EXCEPT ![r] = "returned"] /\ UNCHANGED <<rows, lru, keys, at, cand, tries>>
  BY DEF StoreBatch, StoreAll999
<1>2. TypeOK'
  BY <1>0, <1>1 DEF TypeOK
<1>3. ASSUME NEW t \in Slot PROVE SlotInv(t)'
  BY <1>0, <1>1, OwnerAssumption DEF TypeOK, SlotInv
<1>4. LocalHitIsTrue'
  BY <1>0, <1>1 DEF LocalHitIsTrue
<1> QED
  BY <1>2, <1>3, <1>4 DEF DedupInv

\* Marking caches a hit of a card whose row is there.
LEMMA MarkKeeps ==
  ASSUME DedupInv, NEW r \in Request, NEW s \in Slot, MarkAsGenerated(r, s)
  PROVE  DedupInv'
<1>0. TypeOK /\ (\A t \in Slot : SlotInv(t)) /\ LocalHitIsTrue
  BY DEF DedupInv
<1>1. /\ phase[r] = "markKey" /\ Owner[s] = r /\ WriteKey(cand[s])
      /\ CacheLocally(r, cand[s], "exists") /\ phase' = [phase EXCEPT ![r] = "returned"]
      /\ UNCHANGED <<rows, at, cand, tries>>
  BY DEF MarkAsGenerated
<1>2. cand[s] \in Card /\ rows[cand[s]] # NoRequest
  BY <1>0, <1>1 DEF TypeOK, SlotInv, Resolved
<1>3. RowsGrow
  BY <1>1 DEF RowsGrow
<1>4. lru' \in [Process -> [Card -> {"none", "exists", "missing"}]] /\ LocalHitIsTrue'
  BY <1>0, <1>1, <1>2, <1>3, CachedLocally
<1>5. TypeOK'
  <2>1. keys' \subseteq Card
    BY <1>0, <1>1, <1>2 DEF WriteKey, TypeOK
  <2> QED
    BY <1>0, <1>1, <1>4, <2>1 DEF TypeOK
<1>6. ASSUME NEW t \in Slot PROVE SlotInv(t)'
  BY <1>0, <1>1, OwnerAssumption DEF TypeOK, SlotInv
<1> QED
  BY <1>4, <1>5, <1>6 DEF DedupInv

-----------------------------------------------------------------------------
(* The environment, and the whole.                                         *)

\* Eviction and expiry only lose entries.
LEMMA LosingKeeps ==
  ASSUME DedupInv,
         (\E p \in Process, c \in Card : EvictLocal(p, c)) \/ (\E c \in Card : ExpireKey(c)) \/ UNCHANGED vars
  PROVE  DedupInv'
<1>0. TypeOK /\ (\A t \in Slot : SlotInv(t)) /\ LocalHitIsTrue
  BY DEF DedupInv
<1>1. UNCHANGED <<rows, at, cand, tries, phase>>
  BY DEF EvictLocal, ExpireKey, vars
<1>2. /\ lru' \in [Process -> [Card -> {"none", "exists", "missing"}]]
      /\ \A p \in Process, c \in Card : lru'[p][c] = "exists" => lru[p][c] = "exists"
  <2>1. ASSUME NEW p \in Process, NEW c \in Card, EvictLocal(p, c)
        PROVE  /\ lru' \in [Process -> [Card -> {"none", "exists", "missing"}]]
               /\ \A q \in Process, d \in Card : lru'[q][d] = "exists" => lru[q][d] = "exists"
    BY <1>0, <2>1 DEF EvictLocal, TypeOK
  <2>2. CASE lru' = lru
    BY <1>0, <2>2 DEF TypeOK
  <2> QED
    BY <2>1, <2>2 DEF ExpireKey, vars
<1>3. keys' \subseteq Card
  BY <1>0 DEF EvictLocal, ExpireKey, vars, TypeOK
<1>4. TypeOK'
  BY <1>0, <1>1, <1>2, <1>3 DEF TypeOK
<1>5. RowsGrow
  BY <1>1 DEF RowsGrow
<1>6. ASSUME NEW t \in Slot PROVE SlotInv(t)'
  BY <1>0, <1>1 DEF SlotInv
<1>7. LocalHitIsTrue'
  BY <1>0, <1>2, <1>5, HitsKept
<1> QED
  BY <1>4, <1>6, <1>7 DEF DedupInv

\* The invariant is inductive.
LEMMA NextKeepsDedupInv == DedupInv /\ [Next]_vars => DedupInv'
<1> SUFFICES ASSUME DedupInv, [Next]_vars PROVE DedupInv'
  OBVIOUS
<1>1. ASSUME NEW r \in Request, RequestStep(r) PROVE DedupInv'
  <2>1. CASE DrawAll(r)
    BY <2>1, DrawAllKeeps
  <2>2. CASE Checked(r)
    BY <2>2, CheckedKeeps
  <2>3. CASE StoreBatch(r) \/ StoreAll999(r)
    BY <2>3, StoreManyKeeps
  <2>4. ASSUME NEW s \in Slot,
               \/ Draw(s) \/ CheckLocal(s) \/ CheckRedis(s) \/ CheckDb(s) \/ SetKey(s)
               \/ StoreSingle(r, s) \/ MarkAsGenerated(r, s)
        PROVE  DedupInv'
    BY <2>4, DrawKeeps, CheckLocalKeeps, CheckRedisKeeps, CheckDbKeeps, SetKeyKeeps,
       StoreSingleKeeps, MarkKeeps
  <2> QED
    BY <1>1, <2>1, <2>2, <2>3, <2>4 DEF RequestStep, SlotsOf
<1> QED
  BY <1>1, LosingKeeps DEF Next

\* Type correctness, for every number of requests, slots, cards and processes.
THEOREM DedupTypeCorrect == Spec => []TypeOK
<1>1. DedupInv => TypeOK
  BY DEF DedupInv
<1> QED
  BY <1>1, InitDedupInv, NextKeepsDedupInv, PTL DEF Spec

\* A positive entry of a local cache names a stored card, whatever fails and
\* however the requests interleave.
THEOREM LocalHitsAreTrue == Spec => []LocalHitIsTrue
<1>1. DedupInv => LocalHitIsTrue
  BY DEF DedupInv
<1> QED
  BY <1>1, InitDedupInv, NextKeepsDedupInv, PTL DEF Spec
=============================================================================
