--------------------------- MODULE BinLookupProofs ---------------------------
(***************************************************************************)
(* Proofs about the ETL pipeline, the bins table it loads, the lookups     *)
(* above it and what is reported of its quality, for every number of runs, *)
(* BINs, processes, readers and requests, every table, what the sources    *)
(* may list and every fault.                                               *)
(***************************************************************************)
EXTENDS BinLookup, EtlPipeline, DataQuality, FiniteSetTheorems, WellFoundedInduction, TLAPS

-----------------------------------------------------------------------------
(* The table.                                                              *)

\* What the invariant says of a run l: it has begun when it holds rows, and the
\* records it is done with are in the table, reported as failed or rolled back.
RunOf(l) ==
  /\ todo[l] \subseteq Records[l]
  /\ run[l] = "completed" => loader[l] = "ended" /\ todo[l] = {}
  /\ l \in undone => loader[l] = "ended"
  /\ \A b \in (Records[l] \ todo[l]) \ failed[l] :
       rows[b] = {} => \E m \in Load : b \in Records[m] /\ undo[m] \in {"mark", "ended"}

\* Every row's stamp is that of a run that has written it, or of before.
StampOf(b) ==
  rows[b] = {} \/ stamp[b] = Nobody \/ \E l \in Load : stamp[b] = VersionOf[l] /\ b \in Records[l] \ todo[l]

EtlInv == EtlTypeOK /\ (\A l \in Load : RunOf(l)) /\ (\A b \in Bin : StampOf(b)) /\ RolledBackIsGone

\* Both halves of TableFollowsRuns are parts of the invariant.
LEMMA EtlInvImpliesTableFollowsRuns == EtlInv => TableFollowsRuns
BY DEF EtlInv, RunOf, TableFollowsRuns, LoadedIsThere

\* Before the first run.
LEMMA EtlInitInv == EtlInit => EtlInv
<1> SUFFICES ASSUME EtlInit PROVE EtlInv
  OBVIOUS
<1> USE RecordsAssumption, OriginalAssumption
<1>1. EtlTypeOK
  BY DEF EtlInit, EtlTypeOK, Version
<1>2. ASSUME NEW l \in Load PROVE RunOf(l)
  BY DEF EtlInit, RunOf
<1>3. ASSUME NEW b \in Bin PROVE StampOf(b)
  BY DEF EtlInit, StampOf
<1>4. RolledBackIsGone
  BY DEF EtlInit, RolledBackIsGone
<1> QED
  BY <1>1, <1>2, <1>3, <1>4 DEF EtlInv

\* Loading and rolling back keep the types.
LEMMA EtlTyping ==
  ASSUME EtlTypeOK, EtlNext
  PROVE  EtlTypeOK'
<1> USE DEF EtlTypeOK
<1> PICK l \in Load : LoadStep(l) \/ RollbackStep(l)
  BY DEF EtlNext
<1>1. CASE StartLoad(l)
  BY <1>1 DEF StartLoad
<1>2. CASE FinishLoad(l)
  BY <1>2 DEF FinishLoad
<1>3. ASSUME NEW b \in Bin, LoadRecord(l, b) PROVE EtlTypeOK'
  <2>1. VersionOf[l] \in Version
    BY DEF Version
  <2>2. UpsertRecord(l, b) => rows' \in [Bin -> SUBSET Version] /\ stamp' \in [Bin -> Version]
    BY <2>1 DEF UpsertRecord
  <2>3. todo' \in [Load -> SUBSET Bin] /\ failed' \in [Load -> SUBSET Bin]
    BY <1>3 DEF LoadRecord
  <2>4. rows' \in [Bin -> SUBSET Version] /\ stamp' \in [Bin -> Version]
    BY <1>3, <2>2 DEF LoadRecord
  <2> QED
    BY <1>3, <2>3, <2>4 DEF LoadRecord
<1>4. CASE StartRollback(l)
  BY <1>4 DEF StartRollback
<1>5. CASE AbortRollback(l)
  BY <1>5 DEF AbortRollback
<1>6. CASE DeleteVersion(l)
  BY <1>6 DEF DeleteVersion
<1>7. CASE MarkRolledBack(l)
  BY <1>7 DEF MarkRolledBack
<1> QED
  BY <1>1, <1>2, <1>3, <1>4, <1>5, <1>6, <1>7 DEF LoadStep, RollbackStep

\* Steps that touch no row.
LEMMA RowsKept ==
  ASSUME EtlInv, EtlTypeOK', UNCHANGED <<rows, stamp, todo, failed, undone>>,
         \A m \in Load : undo[m] \in {"mark", "ended"} => undo'[m] \in {"mark", "ended"},
         \A m \in Load : loader[m] = "ended" => loader'[m] = "ended",
         \A m \in Load : run'[m] = "completed" => loader'[m] = "ended" /\ todo[m] = {}
  PROVE  EtlInv'
<1>1. ASSUME NEW m \in Load PROVE RunOf(m)'
  BY DEF EtlInv, RunOf
<1>2. ASSUME NEW b \in Bin PROVE StampOf(b)'
  BY DEF EtlInv, StampOf
<1>3. RolledBackIsGone'
  BY DEF EtlInv, RolledBackIsGone, Stamped
<1> QED
  BY <1>1, <1>2, <1>3 DEF EtlInv

\* A record of a run: whether it is written or not, it is no longer to be done.
LEMMA LoadRecordKeeps ==
  ASSUME EtlInv, NEW l \in Load, NEW b \in Bin, LoadRecord(l, b)
  PROVE  EtlInv'
<1>0. EtlTypeOK /\ (\A m \in Load : RunOf(m)) /\ (\A c \in Bin : StampOf(c)) /\ RolledBackIsGone
  BY DEF EtlInv
<1>1. EtlTypeOK'
  BY <1>0, EtlTyping DEF EtlNext, LoadStep
<1>2. /\ loader[l] = "loading" /\ b \in todo[l] /\ b \in Records[l]
      /\ todo' = [todo EXCEPT ![l] = @ \ {b}]
      /\ UNCHANGED <<run, loader, undo, undone>>
  BY <1>0 DEF LoadRecord, RunOf
<1>3. /\ UpsertRecord(l, b) \/ UNCHANGED <<rows, stamp>>
      /\ failed' = failed \/ failed' = [failed EXCEPT ![l] = @ \cup {b}]
      /\ ~UpsertRecord(l, b) => failed' = [failed EXCEPT ![l] = @ \cup {b}]
  BY DEF LoadRecord
<1>4. /\ \A m \in Load : todo'[m] \subseteq todo[m] /\ failed[m] \subseteq failed'[m]
      /\ \A m \in Load \ {l} : todo'[m] = todo[m] /\ failed'[m] = failed[m]
      /\ todo'[l] = todo[l] \ {b}
  BY <1>0, <1>2, <1>3 DEF EtlTypeOK
<1>5. UpsertRecord(l, b) =>
        /\ rows'[b] # {} /\ stamp'[b] = VersionOf[l]
        /\ \A c \in Bin \ {b} : rows'[c] = rows[c] /\ stamp'[c] = stamp[c]
  <2> SUFFICES ASSUME UpsertRecord(l, b)
               PROVE  /\ VersionOf[l] \in rows'[b] /\ stamp'[b] = VersionOf[l]
                      /\ \A c \in Bin \ {b} : rows'[c] = rows[c] /\ stamp'[c] = stamp[c]
    OBVIOUS
  <2> QED
    BY <1>0 DEF UpsertRecord, EtlTypeOK
<1>6. \A c \in Bin : rows'[c] = {} => rows[c] = {}
  BY <1>3, <1>5
<1>7. ASSUME NEW m \in Load PROVE RunOf(m)'
  <2>1. /\ todo'[m] \subseteq Records[m]
        /\ run'[m] = "completed" => loader'[m] = "ended" /\ todo'[m] = {}
        /\ m \in undone' => loader'[m] = "ended"
    BY <1>0, <1>2, <1>4 DEF RunOf
  <2>2. ASSUME NEW c \in (Records[m] \ todo'[m]) \ failed'[m], rows'[c] = {}
        PROVE  \E k \in Load : c \in Records[k] /\ undo'[k] \in {"mark", "ended"}
    <3>1. c \in Bin /\ rows[c] = {}
      BY <1>6, <2>2, RecordsAssumption
    <3>2. CASE m = l /\ c = b
      <4>1. ~UpsertRecord(l, b)
        BY <1>5, <2>2, <3>2
      <4>2. b \in failed'[l]
        BY <1>0, <1>3, <4>1 DEF EtlTypeOK
      <4> QED
        BY <2>2, <3>2, <4>2
    <3>3. CASE ~(m = l /\ c = b)
      BY <1>0, <1>2, <1>4, <2>2, <3>1, <3>3 DEF RunOf
    <3> QED
      BY <3>2, <3>3
  <2> QED
    BY <2>1, <2>2 DEF RunOf
<1>8. ASSUME NEW c \in Bin PROVE StampOf(c)'
  <2>1. CASE c = b /\ UpsertRecord(l, b)
    BY <1>2, <1>4, <1>5, <2>1 DEF StampOf
  <2>2. CASE ~(c = b /\ UpsertRecord(l, b))
    <3>1. rows'[c] = rows[c] /\ stamp'[c] = stamp[c]
      BY <1>3, <1>5, <2>2
    <3> QED
      BY <1>0, <1>4, <3>1 DEF StampOf
  <2> QED
    BY <2>1, <2>2
<1>9. RolledBackIsGone'
  <2> SUFFICES ASSUME NEW m \in undone', NEW c \in Stamped(m)'
               PROVE  \E k \in Load \ {m} : VersionOf[k] = VersionOf[m] /\ c \in Records[k] \ todo'[k]
    BY DEF RolledBackIsGone
  <2>1. m \in undone /\ m \in Load /\ m # l
    BY <1>0, <1>2 DEF RunOf, EtlTypeOK
  <2>2. CASE c = b /\ UpsertRecord(l, b)
    BY <1>2, <1>4, <1>5, <2>1, <2>2 DEF Stamped
  <2>3. CASE ~(c = b /\ UpsertRecord(l, b))
    <3>1. c \in Stamped(m)
      BY <1>3, <1>5, <2>3 DEF Stamped
    <3> QED
      BY <1>0, <1>4, <2>1, <3>1 DEF RolledBackIsGone
  <2> QED
    BY <2>2, <2>3
<1> QED
  BY <1>1, <1>7, <1>8, <1>9 DEF EtlInv

\* A rollback deletes what has its version's stamp. By VersionAssumption that is
\* a record of its own run too, so that it answers for every row it deletes.
LEMMA DeleteVersionKeeps ==
  ASSUME EtlInv, NEW l \in Load, DeleteVersion(l)
  PROVE  EtlInv'
<1>0. EtlTypeOK /\ (\A m \in Load : RunOf(m)) /\ (\A b \in Bin : StampOf(b)) /\ RolledBackIsGone
  BY DEF EtlInv
<1>1. EtlTypeOK'
  BY <1>0, EtlTyping DEF EtlNext, RollbackStep
<1>2. /\ \A b \in Bin : rows'[b] = IF b \in Stamped(l) THEN {} ELSE rows[b]
      /\ undo'[l] \in {"mark", "ended"}
      /\ \A m \in Load \ {l} : undo'[m] = undo[m]
      /\ undone' = IF loader[l] = "ended" THEN undone \cup {l} ELSE undone
      /\ UNCHANGED <<stamp, run, todo, failed, loader>>
  BY <1>0 DEF DeleteVersion, EtlTypeOK
<1>3. \A b \in Stamped(l) : b \in Records[l]
  BY <1>0, VersionAssumption, NobodyAssumption DEF Stamped, StampOf
<1>4. ASSUME NEW m \in Load PROVE RunOf(m)'
  <2>1. ASSUME NEW b \in (Records[m] \ todo[m]) \ failed[m], rows'[b] = {}
        PROVE  \E k \in Load : b \in Records[k] /\ undo'[k] \in {"mark", "ended"}
    <3>1. b \in Bin
      BY RecordsAssumption
    <3>2. CASE b \in Stamped(l)
      BY <1>2, <1>3, <3>2
    <3>3. CASE b \notin Stamped(l)
      BY <1>0, <1>2, <2>1, <3>1, <3>3 DEF RunOf
    <3> QED
      BY <3>2, <3>3
  <2> QED
    BY <1>0, <1>2, <2>1 DEF RunOf
<1>5. ASSUME NEW b \in Bin PROVE StampOf(b)'
  BY <1>0, <1>2 DEF StampOf
<1>6. RolledBackIsGone'
  <2> SUFFICES ASSUME NEW m \in undone', NEW b \in Stamped(m)'
               PROVE  \E k \in Load \ {m} : VersionOf[k] = VersionOf[m] /\ b \in Records[k] \ todo'[k]
    BY DEF RolledBackIsGone
  <2>1. m \in Load /\ b \in Stamped(m) /\ b \notin Stamped(l)
    BY <1>1, <1>2 DEF Stamped, EtlTypeOK
  <2>2. m # l /\ m \in undone
    BY <1>2, <2>1
  <2> QED
    BY <1>0, <1>2, <2>1, <2>2 DEF RolledBackIsGone
<1> QED
  BY <1>1, <1>4, <1>5, <1>6 DEF EtlInv

\* Every step of a load or a rollback keeps the invariant.
LEMMA EtlNextKeeps == ASSUME EtlInv, EtlNext PROVE EtlInv'
<1>0. EtlTypeOK /\ EtlTypeOK' /\ \A m \in Load : RunOf(m)
  BY EtlTyping DEF EtlInv
<1> PICK l \in Load : LoadStep(l) \/ RollbackStep(l)
  BY DEF EtlNext
<1>1. CASE StartLoad(l)
  BY <1>0, <1>1, RowsKept DEF StartLoad, EtlTypeOK, RunOf
<1>2. CASE FinishLoad(l)
  BY <1>0, <1>2, RowsKept DEF FinishLoad, EtlTypeOK, RunOf
<1>3. CASE StartRollback(l)
  BY <1>0, <1>3, RowsKept DEF StartRollback, EtlTypeOK, RunOf
<1>4. CASE AbortRollback(l)
  BY <1>0, <1>4, RowsKept DEF AbortRollback, EtlTypeOK, RunOf
<1>5. CASE MarkRolledBack(l)
  BY <1>0, <1>5, RowsKept DEF MarkRolledBack, EtlTypeOK, RunOf
<1> QED
  BY <1>1, <1>2, <1>3, <1>4, <1>5, LoadRecordKeeps, DeleteVersionKeeps DEF LoadStep, RollbackStep

-----------------------------------------------------------------------------
(* The lookups.                                                            *)

\* Control and data of a reader: what it is about to cache it has read.
HandOf(q) == at[q] \in {"setRedis", "country", "setFallback"} => got[q] \in Cacheable

\* What has been said of each BIN includes what the table says now.
PastInv ==
  /\ past \in [Bin -> SUBSET Cacheable]
  /\ \A b \in Bin : Current(b) \in past[b]

LookupInv == TypeOK /\ PastInv /\ (\A q \in Reader : HandOf(q)) /\ NothingMadeUp

\* What the table says can be cached.
LEMMA CurrentIsCacheable == ASSUME EtlTypeOK, NEW b \in Bin PROVE Current(b) \in Cacheable
<1>1. CASE rows[b] = {}
  BY <1>1 DEF Current, Cacheable
<1>2. CASE rows[b] # {}
  <2>1. PICK v \in rows[b] : TRUE
    BY <1>2
  <2>2. rows[b] \in SUBSET Version /\ v \in Version /\ rows[b] = rows[b] \cup {v}
    BY <2>1 DEF EtlTypeOK
  <2> QED
    BY <1>2, <2>2 DEF Current, Cacheable, Content
<1> QED
  BY <1>1, <1>2

\* A reader has a process and asks for BINs.
LEMMA WantsTyping == ASSUME NEW q \in Reader PROVE Home[q] \in Process /\ Wants[q] \subseteq Bin /\ Wants[q] # {}
BY ReaderAssumption

\* A filter with fewer BINs sets fewer bits.
LEMMA FilterGrows ==
  ASSUME NEW b, NEW S, NEW T, S \subseteq T, InFilter(b, S)
  PROVE  InFilter(b, T)
BY DEF InFilter

\* Empty caches hold nothing.
LEMMA InitLookupInv == Init => LookupInv
<1> SUFFICES ASSUME Init PROVE LookupInv
  OBVIOUS
<1>1. EtlTypeOK
  BY EtlInitInv DEF Init, EtlInv
<1>2. bin \in [Reader -> Bin]
  BY WantsTyping DEF Init
<1>3. TypeOK
  BY <1>1, <1>2 DEF Init, TypeOK
<1>4. PastInv
  BY <1>1, CurrentIsCacheable DEF Init, PastInv
<1>5. \A q \in Reader : HandOf(q)
  BY DEF Init, HandOf
<1>6. NothingMadeUp
  BY <1>2, AnswerAssumption DEF Init, NothingMadeUp
<1> QED
  BY <1>3, <1>4, <1>5, <1>6 DEF LookupInv

\* NothingMadeUp, tier by tier and reader by reader.
TiersOf(b) ==
  /\ redis[b] \in past[b] \cup {None}
  /\ \A p \in Process :
       /\ lru[p][b] \in past[b] \cup {None}
       /\ fallback[p][b] \in past[b] \cup {None}
       /\ b \in bloom[p] => Unknown \in past[b]

Missed == {b \in Bin : Unknown \in past[b]}

AnswerOf(q) ==
  /\ got[q] \in Cacheable => got[q] \in past[bin[q]]
  /\ got[q] = Null => InFilter(bin[q], Missed)

\* The property is the conjunction of its parts.
LEMMA NothingMadeUpByParts == NothingMadeUp <=> (\A b \in Bin : TiersOf(b)) /\ (\A q \in Reader : AnswerOf(q))
BY DEF NothingMadeUp, TiersOf, AnswerOf, Missed

\* The invariant taken apart ...
LEMMA LookupInvParts ==
  LookupInv => /\ TypeOK /\ PastInv
               /\ \A q \in Reader : HandOf(q) /\ AnswerOf(q)
               /\ \A b \in Bin : TiersOf(b)
BY NothingMadeUpByParts DEF LookupInv

\* ... and put together again.
LEMMA LookupInvAgain ==
  ASSUME TypeOK', PastInv', \A q \in Reader : HandOf(q)' /\ AnswerOf(q)', \A b \in Bin : TiersOf(b)'
  PROVE  LookupInv'
BY DEF LookupInv, NothingMadeUp, TiersOf, AnswerOf, Missed

\* A step that leaves the table alone leaves the history alone.
LEMMA PastKept == ASSUME PastInv, UNCHANGED <<etlVars, past>> PROVE PastInv'
BY DEF PastInv, Current, etlVars

\* The types of the table's side when it does not move.
LEMMA EtlTypeKept == ASSUME EtlTypeOK, UNCHANGED etlVars PROVE EtlTypeOK'
BY DEF EtlTypeOK, etlVars

\* Steps that only take entries out of the caches, or set nothing.
Fewer ==
  /\ \A b \in Bin : redis'[b] \in {redis[b], None}
  /\ \A p \in Process : /\ bloom'[p] \subseteq bloom[p]
                        /\ \A b \in Bin : /\ lru'[p][b] \in {lru[p][b], None}
                                          /\ fallback'[p][b] \in {fallback[p][b], None}

\* They keep the tiers.
LEMMA FewerKeepsTiers ==
  ASSUME \A b \in Bin : TiersOf(b), Fewer, UNCHANGED past
  PROVE  \A b \in Bin : TiersOf(b)'
BY DEF TiersOf, Fewer

\* Readers of whom nothing changes keep their part.
SameReader(q) == at'[q] = at[q] /\ got'[q] = got[q] /\ bin'[q] = bin[q]

\* Their control, hand and BIN are all it speaks of.
LEMMA SameReaderKeeps ==
  ASSUME NEW q, SameReader(q), UNCHANGED past, HandOf(q), AnswerOf(q)
  PROVE  HandOf(q)' /\ AnswerOf(q)'
BY DEF SameReader, HandOf, AnswerOf, Missed, InFilter

-----------------------------------------------------------------------------
\* The first two tiers: null comes from BINs without a row, the rest from the LRU.
LEMMA LookupKeeps ==
  ASSUME LookupInv, NEW q \in Reader, NEW b \in Wants[q], Lookup(q, b)
  PROVE  LookupInv'
<1> DEFINE p == Home[q]
<1>0. TypeOK /\ PastInv /\ (\A r \in Reader : HandOf(r) /\ AnswerOf(r)) /\ (\A c \in Bin : TiersOf(c))
  BY LookupInvParts
<1>1. p \in Process /\ b \in Bin
  BY WantsTyping
<1>2. /\ bin' = [bin EXCEPT ![q] = b] /\ UNCHANGED <<etlVars, bloom, lru, fallback, redis, flush, past>>
      /\ \/ InFilter(b, bloom[p]) /\ Reply(q, Null)
         \/ /\ got' = [got EXCEPT ![q] = lru[p][b]]
            /\ Goto(q, IF lru[p][b] # None THEN "country" ELSE "redis")
  BY DEF Lookup, cacheVars
<1> HIDE DEF p
<1>3. TypeOK'
  BY <1>0, <1>1, <1>2, EtlTypeKept DEF TypeOK, Reply, Goto
<1>4. PastInv'
  BY <1>0, <1>2, PastKept
<1>5. \A c \in Bin : TiersOf(c)'
  BY <1>0, <1>2 DEF TiersOf
<1>6. ASSUME NEW r \in Reader \ {q} PROVE HandOf(r)' /\ AnswerOf(r)'
  <2>1. SameReader(r)
    BY <1>0, <1>2 DEF SameReader, TypeOK, Reply, Goto
  <2> QED
    BY <1>0, <1>2, <2>1, SameReaderKeeps
<1>7. HandOf(q)' /\ AnswerOf(q)'
  <2>0. bin'[q] = b
    BY <1>0, <1>2 DEF TypeOK
  <2>1. CASE InFilter(b, bloom[p]) /\ Reply(q, Null)
    <3>1. at'[q] = "idle" /\ got'[q] = Null
      BY <1>0, <2>1 DEF TypeOK, Reply, Goto
    <3>2. bloom[p] \subseteq Missed
      BY <1>0, <1>1 DEF TypeOK, TiersOf, Missed
    <3>3. InFilter(b, Missed) /\ Missed' = Missed
      BY <1>2, <2>1, <3>2, FilterGrows DEF Missed
    <3> QED
      BY <2>0, <3>1, <3>3, AnswerAssumption DEF HandOf, AnswerOf, InFilter
  <2>2. CASE /\ got' = [got EXCEPT ![q] = lru[p][b]]
             /\ Goto(q, IF lru[p][b] # None THEN "country" ELSE "redis")
    <3>1. /\ got'[q] = lru[p][b]
          /\ at'[q] = IF lru[p][b] # None THEN "country" ELSE "redis"
      BY <1>0, <2>2 DEF TypeOK, Goto
    <3>2. lru[p][b] \in past[b] \cup {None} /\ lru[p][b] \in Cacheable \cup {None}
      BY <1>0, <1>1 DEF TiersOf, TypeOK
    <3> QED
      BY <1>2, <2>0, <3>1, <3>2, AnswerAssumption DEF HandOf, AnswerOf
  <2> QED
    BY <1>2, <2>1, <2>2
<1> QED
  BY <1>3, <1>4, <1>5, <1>6, <1>7, LookupInvAgain

\* What a step of reader q owes.
LEMMA ReaderStepKeeps ==
  ASSUME LookupInv, NEW q \in Reader, TypeOK', UNCHANGED <<etlVars, past>>,
         \A r \in Reader \ {q} : SameReader(r), HandOf(q)', AnswerOf(q)', \A b \in Bin : TiersOf(b)'
  PROVE  LookupInv'
<1>1. \A r \in Reader : HandOf(r) /\ AnswerOf(r)
  BY LookupInvParts
<1>2. \A r \in Reader : HandOf(r)' /\ AnswerOf(r)'
  BY <1>1, SameReaderKeeps
<1>3. PastInv'
  BY LookupInvParts, PastKept
<1> QED
  BY <1>2, <1>3, LookupInvAgain

\* The fallback's cache.
LEMMA LookupBatchKeeps ==
  ASSUME LookupInv, NEW q \in Reader, NEW b \in Wants[q], LookupBatch(q, b)
  PROVE  LookupInv'
<1>0. TypeOK /\ \A c \in Bin : TiersOf(c)
  BY LookupInvParts
<1>1. Home[q] \in Process /\ b \in Bin
  BY WantsTyping
<1>2. /\ UNCHANGED <<etlVars, bloom, lru, fallback, redis, flush, past>>
      /\ bin' = [bin EXCEPT ![q] = b]
      /\ got' = [got EXCEPT ![q] = fallback[Home[q]][b]] /\ at' = [at EXCEPT ![q] = "idle"]
  BY DEF LookupBatch, cacheVars, Reply, Goto
<1>3. TypeOK'
  BY <1>0, <1>1, <1>2, EtlTypeKept DEF TypeOK
<1>4. \A c \in Bin : TiersOf(c)'
  BY <1>0, <1>2 DEF TiersOf
<1>5. \A r \in Reader \ {q} : SameReader(r)
  BY <1>0, <1>2 DEF SameReader, TypeOK
<1>6. at'[q] = "idle" /\ bin'[q] = b /\ got'[q] = fallback[Home[q]][b]
  BY <1>0, <1>2 DEF TypeOK
<1>7. fallback[Home[q]][b] \in past[b] \cup {None} /\ fallback[Home[q]][b] \in Cacheable \cup {None}
  BY <1>0, <1>1 DEF TiersOf, TypeOK
<1>8. HandOf(q)' /\ AnswerOf(q)'
  BY <1>2, <1>6, <1>7, AnswerAssumption DEF HandOf, AnswerOf
<1> QED
  BY <1>2, <1>3, <1>4, <1>5, <1>8, ReaderStepKeeps

\* A hit in Redis fills the LRU.
LEMMA ReadRedisKeeps ==
  ASSUME LookupInv, NEW q \in Reader, ReadRedis(q)
  PROVE  LookupInv'
<1> DEFINE b == bin[q]
<1>0. TypeOK /\ PastInv /\ (\A c \in Bin : TiersOf(c)) /\ HandOf(q) /\ AnswerOf(q)
  BY LookupInvParts
<1>1. Home[q] \in Process /\ b \in Bin
  BY <1>0, WantsTyping DEF TypeOK
<1>2. redis[b] \in past[b] \cup {None} /\ redis[b] \in Cacheable \cup {None}
  BY <1>0, <1>1 DEF TiersOf, TypeOK
<1>3. UNCHANGED <<etlVars, bloom, fallback, redis, bin, flush, past>> /\ at[q] = "redis"
  BY DEF ReadRedis
<1>4. CASE /\ redis[b] # None
           /\ got' = [got EXCEPT ![q] = redis[b]]
           /\ SetLRU(q, redis[b])
           /\ Goto(q, "country")
  <2>1. lru' = [lru EXCEPT ![Home[q]][b] = redis[b]] /\ at' = [at EXCEPT ![q] = "country"]
    BY <1>4 DEF SetLRU, Goto
  <2>2. TypeOK'
    BY <1>0, <1>1, <1>2, <1>3, <1>4, <2>1, EtlTypeKept DEF TypeOK
  <2>3. \A c \in Bin : TiersOf(c)'
    BY <1>0, <1>1, <1>2, <1>3, <2>1 DEF TiersOf, TypeOK
  <2>4. \A r \in Reader \ {q} : SameReader(r)
    BY <1>0, <1>3, <1>4, <2>1 DEF SameReader, TypeOK
  <2>5. at'[q] = "country" /\ got'[q] = redis[b] /\ bin'[q] = b
    BY <1>0, <1>3, <1>4, <2>1 DEF TypeOK
  <2>6. HandOf(q)' /\ AnswerOf(q)'
    BY <1>2, <1>3, <1>4, <2>5, AnswerAssumption DEF HandOf, AnswerOf
  <2> QED
    BY <1>3, <2>2, <2>3, <2>4, <2>6, ReaderStepKeeps
<1>5. CASE Goto(q, "db") /\ UNCHANGED <<got, lru>>
  <2>1. at' = [at EXCEPT ![q] = "db"]
    BY <1>5 DEF Goto
  <2>2. TypeOK'
    BY <1>0, <1>3, <1>5, <2>1, EtlTypeKept DEF TypeOK
  <2>3. \A c \in Bin : TiersOf(c)'
    BY <1>0, <1>3, <1>5 DEF TiersOf
  <2>4. \A r \in Reader \ {q} : SameReader(r)
    BY <1>0, <1>3, <1>5, <2>1 DEF SameReader, TypeOK
  <2>5. HandOf(q)' /\ AnswerOf(q)'
    BY <1>0, <1>3, <1>5, <2>1 DEF HandOf, AnswerOf, TypeOK, Missed, InFilter
  <2> QED
    BY <1>3, <2>2, <2>3, <2>4, <2>5, ReaderStepKeeps
<1> QED
  BY <1>4, <1>5 DEF ReadRedis

\* What the table says goes into the LRU or the filter.
LEMMA ReadDbKeeps ==
  ASSUME LookupInv, NEW q \in Reader, ReadDb(q)
  PROVE  LookupInv'
<1> DEFINE b == bin[q]
<1>0. TypeOK /\ PastInv /\ (\A c \in Bin : TiersOf(c)) /\ HandOf(q) /\ AnswerOf(q)
  BY LookupInvParts
<1>1. Home[q] \in Process /\ b \in Bin
  BY <1>0, WantsTyping DEF TypeOK
<1>2. Current(b) \in past[b] /\ Current(b) \in Cacheable
  BY <1>0, <1>1, CurrentIsCacheable DEF PastInv, TypeOK
<1>3. UNCHANGED <<etlVars, fallback, redis, bin, flush, past>> /\ at[q] = "db"
  BY DEF ReadDb
<1>4. CASE /\ rows[b] # {}
           /\ got' = [got EXCEPT ![q] = rows[b]]
           /\ SetLRU(q, rows[b])
           /\ Goto(q, "setRedis")
           /\ UNCHANGED bloom
  <2>0. rows[b] = Current(b)
    BY <1>4 DEF Current
  <2>1. lru' = [lru EXCEPT ![Home[q]][b] = Current(b)] /\ at' = [at EXCEPT ![q] = "setRedis"]
        /\ got' = [got EXCEPT ![q] = Current(b)]
    BY <1>4, <2>0 DEF SetLRU, Goto
  <2>2. TypeOK'
    BY <1>0, <1>1, <1>2, <1>3, <1>4, <2>1, EtlTypeKept DEF TypeOK
  <2>3. \A c \in Bin : TiersOf(c)'
    BY <1>0, <1>1, <1>2, <1>3, <1>4, <2>1 DEF TiersOf, TypeOK
  <2>4. \A r \in Reader \ {q} : SameReader(r)
    BY <1>0, <1>3, <2>1 DEF SameReader, TypeOK
  <2>5. got'[q] = Current(b) /\ bin'[q] = b
    BY <1>0, <1>3, <2>1 DEF TypeOK
  <2>6. HandOf(q)' /\ AnswerOf(q)'
    BY <1>2, <1>3, <2>5, AnswerAssumption DEF HandOf, AnswerOf
  <2> QED
    BY <1>3, <2>2, <2>3, <2>4, <2>6, ReaderStepKeeps
<1>5. CASE /\ rows[b] = {}
           /\ got' = [got EXCEPT ![q] = Unknown]
           /\ bloom' = [bloom EXCEPT ![Home[q]] = @ \cup {b}]
           /\ Goto(q, "country")
           /\ UNCHANGED lru
  <2>0. Unknown = Current(b)
    BY <1>5 DEF Current
  <2>1. at' = [at EXCEPT ![q] = "country"]
    BY <1>5 DEF Goto
  <2>2. TypeOK'
    BY <1>0, <1>1, <1>2, <1>3, <1>5, <2>0, <2>1, EtlTypeKept DEF TypeOK
  <2>3. \A c \in Bin : TiersOf(c)'
    BY <1>0, <1>1, <1>2, <1>3, <1>5, <2>0 DEF TiersOf, TypeOK
  <2>4. \A r \in Reader \ {q} : SameReader(r)
    BY <1>0, <1>3, <1>5, <2>1 DEF SameReader, TypeOK
  <2>5. got'[q] = Current(b) /\ bin'[q] = b
    BY <1>0, <1>3, <1>5, <2>0 DEF TypeOK
  <2>6. HandOf(q)' /\ AnswerOf(q)'
    BY <1>2, <1>3, <2>5, AnswerAssumption DEF HandOf, AnswerOf
  <2> QED
    BY <1>3, <2>2, <2>3, <2>4, <2>6, ReaderStepKeeps
<1>6. CASE Goto(q, "fallbackDb") /\ UNCHANGED <<got, bloom, lru>>
  <2>1. at' = [at EXCEPT ![q] = "fallbackDb"]
    BY <1>6 DEF Goto
  <2>2. TypeOK'
    BY <1>0, <1>3, <1>6, <2>1, EtlTypeKept DEF TypeOK
  <2>3. \A c \in Bin : TiersOf(c)'
    BY <1>0, <1>3, <1>6 DEF TiersOf
  <2>4. \A r \in Reader \ {q} : SameReader(r)
    BY <1>0, <1>3, <1>6, <2>1 DEF SameReader, TypeOK
  <2>5. HandOf(q)' /\ AnswerOf(q)'
    BY <1>0, <1>3, <1>6, <2>1 DEF HandOf, AnswerOf, TypeOK, Missed, InFilter
  <2> QED
    BY <1>3, <2>2, <2>3, <2>4, <2>5, ReaderStepKeeps
<1> QED
  BY <1>4, <1>5, <1>6 DEF ReadDb

\* Redis holds what it held, or what the reader has in its hand.
LEMMA WriteRedisKeeps ==
  ASSUME TypeOK, NEW q \in Reader, HandOf(q), AnswerOf(q), at[q] \in {"setRedis", "setFallback"},
         WriteRedis(q), \A c \in Bin : TiersOf(c)
  PROVE  /\ redis' \in [Bin -> Cacheable \cup {None}]
         /\ \A c \in Bin : redis'[c] \in past[c] \cup {None}
         /\ got[q] \in past[bin[q]] /\ got[q] \in Cacheable /\ bin[q] \in Bin
<1>1. got[q] \in past[bin[q]] /\ got[q] \in Cacheable /\ bin[q] \in Bin
  BY DEF HandOf, AnswerOf, TypeOK
<1>2. CASE redis' = [redis EXCEPT ![bin[q]] = got[q]]
  BY <1>1, <1>2 DEF TypeOK, TiersOf
<1>3. CASE UNCHANGED redis
  BY <1>1, <1>3 DEF TypeOK, TiersOf
<1> QED
  BY <1>1, <1>2, <1>3 DEF WriteRedis

\* A reader writes what it has read, however long ago.
LEMMA SetRedisKeeps ==
  ASSUME LookupInv, NEW q \in Reader, SetRedis(q)
  PROVE  LookupInv'
<1>0. TypeOK /\ (\A c \in Bin : TiersOf(c)) /\ HandOf(q) /\ AnswerOf(q)
  BY LookupInvParts
<1>1. /\ UNCHANGED <<etlVars, bloom, lru, fallback, bin, got, flush, past>>
      /\ at[q] = "setRedis" /\ at' = [at EXCEPT ![q] = "country"] /\ WriteRedis(q)
  BY DEF SetRedis, Goto
<1>2. /\ redis' \in [Bin -> Cacheable \cup {None}]
      /\ \A c \in Bin : redis'[c] \in past[c] \cup {None}
      /\ got[q] \in Cacheable
  BY <1>0, <1>1, WriteRedisKeeps
<1>3. TypeOK'
  BY <1>0, <1>1, <1>2, EtlTypeKept DEF TypeOK
<1>4. \A c \in Bin : TiersOf(c)'
  BY <1>0, <1>1, <1>2 DEF TiersOf
<1>5. \A r \in Reader \ {q} : SameReader(r)
  BY <1>0, <1>1 DEF SameReader, TypeOK
<1>6. HandOf(q)' /\ AnswerOf(q)'
  BY <1>0, <1>1, <1>2 DEF HandOf, AnswerOf, Missed, InFilter
<1> QED
  BY <1>1, <1>3, <1>4, <1>5, <1>6, ReaderStepKeeps

\* The country query drops everything when it fails.
LEMMA ReadCountryKeeps ==
  ASSUME LookupInv, NEW q \in Reader, ReadCountry(q)
  PROVE  LookupInv'
<1>0. TypeOK /\ (\A c \in Bin : TiersOf(c)) /\ HandOf(q) /\ AnswerOf(q)
  BY LookupInvParts
<1>1. /\ UNCHANGED <<etlVars, bloom, lru, fallback, redis, bin, flush, past>> /\ at[q] = "country"
      /\ \/ got' = [got EXCEPT ![q] = got[q]] /\ at' = [at EXCEPT ![q] = "idle"]
         \/ got' = [got EXCEPT ![q] = None] /\ at' = [at EXCEPT ![q] = "fallbackDb"]
  BY DEF ReadCountry, cacheVars, Reply, Goto
<1>2. TypeOK'
  BY <1>0, <1>1, EtlTypeKept DEF TypeOK
<1>3. \A c \in Bin : TiersOf(c)'
  BY <1>0, <1>1 DEF TiersOf
<1>4. \A r \in Reader \ {q} : SameReader(r)
  BY <1>0, <1>1 DEF SameReader, TypeOK
<1>5. at'[q] \in {"idle", "fallbackDb"} /\ got'[q] \in {got[q], None}
  BY <1>0, <1>1 DEF TypeOK
<1>6. HandOf(q)' /\ AnswerOf(q)'
  BY <1>0, <1>1, <1>5, AnswerAssumption DEF HandOf, AnswerOf, Missed, InFilter
<1> QED
  BY <1>1, <1>2, <1>3, <1>4, <1>6, ReaderStepKeeps

\* The fallback reads the table itself.
LEMMA FallbackDbKeeps ==
  ASSUME LookupInv, NEW q \in Reader, FallbackDb(q)
  PROVE  LookupInv'
<1>0. TypeOK /\ PastInv /\ (\A c \in Bin : TiersOf(c))
  BY LookupInvParts
<1>1. bin[q] \in Bin /\ Current(bin[q]) \in past[bin[q]] /\ Current(bin[q]) \in Cacheable
  BY <1>0, CurrentIsCacheable DEF PastInv, TypeOK
<1>2. /\ UNCHANGED <<etlVars, bloom, lru, fallback, redis, bin, flush, past>>
      /\ \/ got' = [got EXCEPT ![q] = Current(bin[q])] /\ at' = [at EXCEPT ![q] = "setFallback"]
         \/ got' = [got EXCEPT ![q] = Error] /\ at' = [at EXCEPT ![q] = "idle"]
  BY DEF FallbackDb, cacheVars, Reply, Goto
<1>3. TypeOK'
  BY <1>0, <1>1, <1>2, EtlTypeKept DEF TypeOK
<1>4. \A c \in Bin : TiersOf(c)'
  BY <1>0, <1>2 DEF TiersOf
<1>5. \A r \in Reader \ {q} : SameReader(r)
  BY <1>0, <1>2 DEF SameReader, TypeOK
<1>6. \/ at'[q] = "setFallback" /\ got'[q] = Current(bin[q])
      \/ at'[q] = "idle" /\ got'[q] = Error
  BY <1>0, <1>2 DEF TypeOK
<1>7. HandOf(q)' /\ AnswerOf(q)'
  BY <1>1, <1>2, <1>6, AnswerAssumption DEF HandOf, AnswerOf
<1> QED
  BY <1>2, <1>3, <1>4, <1>5, <1>7, ReaderStepKeeps

\* It fills two caches with what it read.
LEMMA SetFallbackKeeps ==
  ASSUME LookupInv, NEW q \in Reader, SetFallback(q)
  PROVE  LookupInv'
<1> DEFINE b == bin[q]
<1>0. TypeOK /\ (\A c \in Bin : TiersOf(c)) /\ HandOf(q) /\ AnswerOf(q)
  BY LookupInvParts
<1>1. /\ UNCHANGED <<etlVars, bloom, lru, bin, flush, past>>
      /\ at[q] = "setFallback" /\ WriteRedis(q)
      /\ fallback' = [fallback EXCEPT ![Home[q]][b] = got[q]]
      /\ got' = [got EXCEPT ![q] = got[q]] /\ at' = [at EXCEPT ![q] = "idle"]
  BY DEF SetFallback, Reply, Goto
<1>2. /\ redis' \in [Bin -> Cacheable \cup {None}]
      /\ \A c \in Bin : redis'[c] \in past[c] \cup {None}
      /\ got[q] \in past[b] /\ got[q] \in Cacheable /\ b \in Bin
  BY <1>0, <1>1, WriteRedisKeeps
<1>3. Home[q] \in Process
  BY WantsTyping
<1>4. fallback' \in [Process -> [Bin -> Cacheable \cup {None}]]
  BY <1>0, <1>1, <1>2, <1>3 DEF TypeOK
<1>5. TypeOK'
  BY <1>0, <1>1, <1>2, <1>4, EtlTypeKept DEF TypeOK
<1>6. \A c \in Bin, p \in Process : fallback'[p][c] \in past[c] \cup {None}
  BY <1>0, <1>1, <1>2, <1>3 DEF TypeOK, TiersOf
<1>7. \A c \in Bin : TiersOf(c)'
  BY <1>0, <1>1, <1>2, <1>6 DEF TiersOf
<1>8. \A r \in Reader \ {q} : SameReader(r)
  BY <1>0, <1>1 DEF SameReader, TypeOK
<1>9. at'[q] = "idle" /\ got'[q] = got[q]
  BY <1>0, <1>1 DEF TypeOK
<1>10. HandOf(q)' /\ AnswerOf(q)'
  BY <1>0, <1>1, <1>9 DEF HandOf, AnswerOf, Missed, InFilter
<1> QED
  BY <1>1, <1>5, <1>7, <1>8, <1>10, ReaderStepKeeps

-----------------------------------------------------------------------------
(* Steps that take entries out of the caches.                              *)

\* When no reader moves, what is cached only has to become less.
LEMMA FewerKeeps ==
  ASSUME LookupInv, TypeOK', Fewer, UNCHANGED <<etlVars, past, readerVars>>
  PROVE  LookupInv'
<1>1. PastInv /\ (\A q \in Reader : HandOf(q) /\ AnswerOf(q)) /\ (\A b \in Bin : TiersOf(b))
  BY LookupInvParts
<1>2. \A q \in Reader : HandOf(q)' /\ AnswerOf(q)'
  BY <1>1, SameReaderKeeps DEF SameReader, readerVars
<1> QED
  BY <1>1, <1>2, PastKept, FewerKeepsTiers, LookupInvAgain

\* clearCache.
LEMMA ClearingKeeps ==
  ASSUME LookupInv, NEW p \in Process, ClearLocal(p) \/ ClearRedis(p)
  PROVE  LookupInv'
<1>0. TypeOK
  BY LookupInvParts
<1>1. TypeOK'
  <2>1. CASE ClearLocal(p)
    BY <1>0, <2>1, EtlTypeKept DEF TypeOK, ClearLocal, readerVars
  <2>2. CASE ClearRedis(p)
    BY <1>0, <2>2, EtlTypeKept DEF TypeOK, ClearRedis, readerVars
  <2> QED
    BY <2>1, <2>2
<1>2. Fewer
  <2>1. CASE ClearLocal(p)
    BY <1>0, <2>1 DEF ClearLocal, Fewer, TypeOK
  <2>2. CASE ClearRedis(p)
    BY <1>0, <2>2 DEF ClearRedis, Fewer, TypeOK
  <2> QED
    BY <2>1, <2>2
<1>3. UNCHANGED <<etlVars, past, readerVars>>
  BY DEF ClearLocal, ClearRedis
<1> QED
  BY <1>1, <1>2, <1>3, FewerKeeps

\* Expiry and eviction.
LEMMA ExpireKeeps ==
  ASSUME LookupInv, Expire
  PROVE  LookupInv'
<1>0. TypeOK
  BY LookupInvParts
<1>1. ASSUME NEW p \in Process, NEW b \in Bin, ExpireLocal(p, b) PROVE LookupInv'
  <2>1. TypeOK'
    BY <1>0, <1>1, EtlTypeKept DEF TypeOK, ExpireLocal, readerVars
  <2>2. Fewer
    BY <1>0, <1>1 DEF ExpireLocal, Fewer, TypeOK
  <2> QED
    BY <1>1, <2>1, <2>2, FewerKeeps DEF ExpireLocal
<1>2. ASSUME NEW p \in Process, NEW b \in Bin, ExpireFallback(p, b) PROVE LookupInv'
  <2>1. TypeOK'
    BY <1>0, <1>2, EtlTypeKept DEF TypeOK, ExpireFallback, readerVars
  <2>2. Fewer
    BY <1>0, <1>2 DEF ExpireFallback, Fewer, TypeOK
  <2> QED
    BY <1>2, <2>1, <2>2, FewerKeeps DEF ExpireFallback
<1>3. ASSUME NEW b \in Bin, ExpireRedis(b) PROVE LookupInv'
  <2>1. TypeOK'
    BY <1>0, <1>3, EtlTypeKept DEF TypeOK, ExpireRedis, readerVars
  <2>2. Fewer
    BY <1>0, <1>3 DEF ExpireRedis, Fewer, TypeOK
  <2> QED
    BY <1>3, <2>1, <2>2, FewerKeeps DEF ExpireRedis
<1> QED
  BY <1>1, <1>2, <1>3 DEF Expire

\* The readers of a process that restarts begin anew.
LEMMA RestartKeeps ==
  ASSUME LookupInv, NEW p \in Process, Restart(p)
  PROVE  LookupInv'
<1>0. TypeOK /\ PastInv /\ (\A q \in Reader : HandOf(q) /\ AnswerOf(q)) /\ (\A b \in Bin : TiersOf(b))
  BY LookupInvParts
<1>1. TypeOK'
  BY <1>0, EtlTypeKept DEF TypeOK, Restart
<1>2. Fewer /\ UNCHANGED <<etlVars, past, bin>>
  BY <1>0 DEF Restart, Fewer, TypeOK
<1>3. ASSUME NEW q \in Reader PROVE HandOf(q)' /\ AnswerOf(q)'
  <2>1. CASE Home[q] = p
    BY <2>1, AnswerAssumption DEF Restart, HandOf, AnswerOf
  <2>2. CASE Home[q] # p
    <3>1. SameReader(q)
      BY <2>2 DEF Restart, SameReader
    <3> QED
      BY <1>0, <1>2, <3>1, SameReaderKeeps
  <2> QED
    BY <2>1, <2>2
<1> QED
  BY <1>0, <1>1, <1>2, <1>3, PastKept, FewerKeepsTiers, LookupInvAgain

-----------------------------------------------------------------------------
\* The table changes under the caches, and the history grows with it.
LEMMA TableStepKeeps ==
  ASSUME LookupInv, TableStep
  PROVE  LookupInv'
<1>0. TypeOK /\ PastInv /\ (\A q \in Reader : HandOf(q) /\ AnswerOf(q)) /\ (\A b \in Bin : TiersOf(b))
  BY LookupInvParts
<1>1. EtlTypeOK'
  BY <1>0, EtlTyping DEF TypeOK, TableStep
<1>2. TypeOK'
  BY <1>0, <1>1 DEF TypeOK, TableStep, cacheVars, readerVars
<1>3. past' = [b \in Bin |-> past[b] \cup {Current(b)'}]
  BY DEF TableStep, Current
<1>4. \A b \in Bin : Current(b)' \in Cacheable
  <2> SUFFICES ASSUME NEW b \in Bin PROVE Current(b)' \in Cacheable
    OBVIOUS
  <2>1. CASE rows'[b] = {}
    BY <2>1 DEF Current, Cacheable
  <2>2. CASE rows'[b] # {}
    <3>1. PICK v \in rows'[b] : TRUE
      BY <2>2
    <3>2. rows'[b] \in SUBSET Version /\ v \in Version /\ rows'[b] = rows'[b] \cup {v}
      BY <1>1, <3>1 DEF EtlTypeOK
    <3>3. rows'[b] \in Content
      <4>1. ASSUME NEW W \in SUBSET Version, NEW u \in Version, W = W \cup {u}
            PROVE  W \in Content
        BY <4>1 DEF Content
      <4> QED
        BY <3>2, <4>1
    <3>4. Current(b)' = rows'[b]
      BY <2>2 DEF Current
    <3> QED
      BY <3>3, <3>4 DEF Cacheable
  <2> QED
    BY <2>1, <2>2
<1>5. PastInv'
  BY <1>0, <1>3, <1>4 DEF PastInv
<1>6. \A b \in Bin : past[b] \subseteq past'[b]
  BY <1>3
<1>7. Missed \subseteq Missed'
  BY <1>6 DEF Missed
<1>8. UNCHANGED <<bloom, lru, fallback, redis, at, bin, got>>
  BY DEF TableStep, cacheVars, readerVars
<1>9. ASSUME NEW q \in Reader PROVE HandOf(q)' /\ AnswerOf(q)'
  <2>1. bin[q] \in Bin
    BY <1>0 DEF TypeOK
  <2>2. got[q] = Null => InFilter(bin[q], Missed')
    BY <1>0, <1>7, FilterGrows DEF AnswerOf
  <2> QED
    BY <1>0, <1>6, <1>8, <2>1, <2>2 DEF HandOf, AnswerOf, InFilter
<1>10. ASSUME NEW b \in Bin PROVE TiersOf(b)'
  BY <1>0, <1>6, <1>8 DEF TiersOf
<1> QED
  BY <1>2, <1>5, <1>9, <1>10, LookupInvAgain

\* Every step keeps the invariant.
LEMMA LookupNextKeeps == LookupInv /\ [Next]_vars => LookupInv'
<1> SUFFICES ASSUME LookupInv, [Next]_vars PROVE LookupInv'
  OBVIOUS
<1>1. ASSUME NEW q \in Reader, LookupStep(q) \/ \E b \in Wants[q] : Lookup(q, b) \/ LookupBatch(q, b)
      PROVE  LookupInv'
  BY <1>1, ReadRedisKeeps, ReadDbKeeps, SetRedisKeeps, ReadCountryKeeps, FallbackDbKeeps, SetFallbackKeeps,
     LookupKeeps, LookupBatchKeeps DEF LookupStep
<1>2. ASSUME NEW p \in Process, ClearLocal(p) \/ ClearRedis(p) \/ Restart(p) PROVE LookupInv'
  BY <1>2, ClearingKeeps, RestartKeeps
<1>3. CASE UNCHANGED vars
  <2>1. TypeOK /\ UNCHANGED <<etlVars, past, bloom, lru, fallback, redis, at, bin, got, flush>>
    BY <1>3, LookupInvParts DEF vars, cacheVars, readerVars
  <2>2. TypeOK'
    BY <2>1, EtlTypeKept DEF TypeOK
  <2>3. Fewer
    BY <2>1 DEF Fewer
  <2> QED
    BY <2>1, <2>2, <2>3, FewerKeeps DEF readerVars
<1> QED
  BY <1>1, <1>2, <1>3, ExpireKeeps, TableStepKeeps DEF Next

-----------------------------------------------------------------------------
\* The state of table and caches stays well-formed: bin.ts and load.ts.
THEOREM LookupTypeCorrect == Spec => []TypeOK
<1>1. LookupInv => TypeOK
  BY DEF LookupInv
<1> QED
  BY <1>1, InitLookupInv, LookupNextKeeps, PTL DEF Spec

\* No tier of BINService.lookup and no answer of it tells of a BIN what the table
\* never said of it, whatever expires, restarts, fails or is loaded meanwhile.
THEOREM LookupsMakeNothingUp == Spec => []NothingMadeUp
<1>1. LookupInv => NothingMadeUp
  BY DEF LookupInv
<1> QED
  BY <1>1, InitLookupInv, LookupNextKeeps, PTL DEF Spec

\* What loadRecords reports as loaded is in the table until a rollback deletes
\* it, and what rollback-version.ts has deleted comes back only by another run of
\* the same records.
THEOREM TableFollowsEveryRun == Spec => []TableFollowsRuns
<1>1. Init => EtlInv
  BY EtlInitInv DEF Init
<1>2. ASSUME EtlInv, UNCHANGED etlVars PROVE EtlInv'
  <2>1. EtlTypeOK'
    BY <1>2, EtlTypeKept DEF EtlInv
  <2>2. \A l \in Load : RunOf(l)
    BY <1>2 DEF EtlInv
  <2> QED
    BY <1>2, <2>1, <2>2, RowsKept DEF etlVars, RunOf
<1>3. [Next]_vars => EtlNext \/ UNCHANGED etlVars
  BY DEF Next, LookupStep, ReadRedis, ReadDb, SetRedis, ReadCountry, FallbackDb, SetFallback, Lookup, LookupBatch,
         ClearLocal, ClearRedis, Restart, Expire, ExpireLocal, ExpireFallback, ExpireRedis, TableStep, vars
<1>4. EtlInv /\ [Next]_vars => EtlInv'
  BY <1>2, <1>3, EtlNextKeeps
<1> QED
  BY <1>1, <1>4, EtlInvImpliesTableFollowsRuns, PTL DEF Spec

-----------------------------------------------------------------------------
(* Numbers and sums. The theorems on well-founded relations give induction *)
(* for a set of numbers, which says what a sum over a set of any size is.  *)

\* A set of numbers that is not empty has a least one.
LEMMA LeastNumber ==
  ASSUME NEW S \in SUBSET Nat, S # {}
  PROVE  \E n \in S : \A m \in S : n <= m
<1> DEFINE R == {p \in Nat \X Nat : p[1] < p[2]}
<1>1. IsWellFoundedOn(R, Nat)
  BY NatLessThanWellFounded DEF OpToRel
<1> HIDE DEF R
<1>2. PICK n \in S : \A m \in S : <<m, n>> \notin R
  BY <1>1, WFMin
<1>3. \A m \in S : ~(m < n)
  BY <1>2 DEF R
<1> QED
  BY <1>3

\* Induction on numbers, for a set.
LEMMA NumberInduction ==
  ASSUME NEW S, 0 \in S, \A n \in Nat : n \in S => n + 1 \in S
  PROVE  Nat \subseteq S
<1> SUFFICES ASSUME Nat \ S # {} PROVE FALSE
  OBVIOUS
<1>1. PICK n \in Nat \ S : \A m \in Nat \ S : n <= m
  BY LeastNumber
<1>2. n # 0 /\ n - 1 \in Nat
  BY <1>1
<1>3. n - 1 \in S
  BY <1>1, <1>2
<1> QED
  BY <1>1, <1>2, <1>3

OneOf(s) == CHOOSE x \in s : TRUE

\* A sum adds one element after the other.
LEMMA SumIsFold ==
  ASSUME NEW S, IsFiniteSet(S), NEW fun, \A x \in S : fun[x] \in Int
  PROVE  \E sum \in [SUBSET S -> Int] :
           /\ \A s \in SUBSET S :
                sum[s] = IF s = {} THEN 0 ELSE fun[OneOf(s)] + sum[s \ {OneOf(s)}]
           /\ SumFunctionOnSet(fun, S) = sum[S]
<1> DEFINE D(n) == {s \in SUBSET S : Cardinality(s) <= n}
           Folds(g, n) == \A s \in D(n) :
                            g[s] = IF s = {} THEN 0 ELSE fun[OneOf(s)] + g[s \ {OneOf(s)}]
           N == {n \in Nat : \E g \in [D(n) -> Int] : Folds(g, n)}
<1>1. \A s \in SUBSET S : IsFiniteSet(s) /\ Cardinality(s) \in Nat
  BY FS_Subset, FS_CardinalityType
<1>2. \A s \in SUBSET S : s # {} =>
        OneOf(s) \in s /\ Cardinality(s \ {OneOf(s)}) = Cardinality(s) - 1
  BY <1>1, FS_RemoveElement DEF OneOf
<1>3. 0 \in N
  <2>1. \A s \in D(0) : s = {}
    BY <1>1, FS_EmptySet
  <2>2. [s \in D(0) |-> 0] \in [D(0) -> Int] /\ Folds([s \in D(0) |-> 0], 0)
    BY <2>1
  <2> QED
    BY <2>2
<1>4. ASSUME NEW n \in Nat, n \in N PROVE n + 1 \in N
  <2>1. PICK g \in [D(n) -> Int] : Folds(g, n)
    BY <1>4
  <2> DEFINE h == [s \in D(n + 1) |-> IF s = {} THEN 0 ELSE fun[OneOf(s)] + g[s \ {OneOf(s)}]]
  <2>2. \A s \in D(n + 1) : s # {} => s \ {OneOf(s)} \in D(n) /\ fun[OneOf(s)] \in Int
    BY <1>1, <1>2
  <2>3. h \in [D(n + 1) -> Int]
    BY <2>2
  <2>4. \A s \in D(n) : s \in D(n + 1) /\ h[s] = g[s]
    BY <1>1, <2>1
  <2>5. Folds(h, n + 1)
    BY <2>2, <2>4
  <2> HIDE DEF h
  <2>6. \E f \in [D(n + 1) -> Int] : Folds(f, n + 1)
    <3> HIDE DEF D
    <3> QED
      BY <2>3, <2>5
  <2>7. n + 1 \in Nat
    OBVIOUS
  <2> HIDE DEF Folds, D
  <2> QED
    BY <2>6, <2>7
<1>5. PICK n \in Nat : n = Cardinality(S)
  BY <1>1
<1>6. n \in N
  <2> HIDE DEF N
  <2> QED
    BY <1>3, <1>4, NumberInduction
<1>7. D(n) = SUBSET S
  BY <1>5, FS_Subset, <1>1
<1> DEFINE Eq(g) == g = [s \in SUBSET S |->
                            IF s = {} THEN 0 ELSE fun[OneOf(s)] + g[s \ {OneOf(s)}]]
<1>8. PICK g \in [SUBSET S -> Int] : Eq(g)
  <2>1. PICK g \in [D(n) -> Int] : Folds(g, n)
    BY <1>6
  <2> QED
    BY <1>7, <2>1
<1> DEFINE sum == CHOOSE iter : Eq(iter)
<1>9. SumFunctionOnSet(fun, S) = sum[S]
  BY DEF SumFunctionOnSet, FoldFunctionOnSet, MapThenFoldSet, OneOf
<1>10. Eq(sum)
  BY <1>8
<1> HIDE DEF sum
<1>11. \A s \in SUBSET S : sum[s] = g[s]
  <2> DEFINE M == {k \in Nat : \A s \in D(k) : sum[s] = g[s]}
  <2>1. 0 \in M
    <3>1. \A s \in D(0) : s = {}
      BY <1>1, FS_EmptySet
    <3> QED
      BY <3>1, <1>8, <1>10
  <2>2. ASSUME NEW k \in Nat, k \in M PROVE k + 1 \in M
    <3>1. ASSUME NEW s \in D(k + 1) PROVE sum[s] = g[s]
      <4>1. s # {} => s \ {OneOf(s)} \in D(k)
        BY <1>1, <1>2
      <4>2. s # {} => sum[s \ {OneOf(s)}] = g[s \ {OneOf(s)}]
        BY <4>1, <2>2
      <4> QED
        BY <4>2, <1>8, <1>10
    <3> QED
      BY <3>1
  <2>3. n \in M
    <3> HIDE DEF M
    <3> QED
      BY <2>1, <2>2, NumberInduction
  <2> QED
    BY <2>3, <1>7
<1>12. sum \in [SUBSET S -> Int]
  BY <1>8, <1>10, <1>11
<1> QED
  BY <1>9, <1>10, <1>12

\* One number, and two.
LEMMA SumOfOne ==
  ASSUME NEW fun, NEW x, fun[x] \in Int
  PROVE  SumFunctionOnSet(fun, {x}) = fun[x]
<1>1. PICK sum \in [SUBSET {x} -> Int] :
        /\ \A s \in SUBSET {x} :
             sum[s] = IF s = {} THEN 0 ELSE fun[OneOf(s)] + sum[s \ {OneOf(s)}]
        /\ SumFunctionOnSet(fun, {x}) = sum[{x}]
  BY SumIsFold, FS_Singleton
<1>2. OneOf({x}) = x /\ {x} \ {x} = {}
  BY DEF OneOf
<1>3. sum[{}] = 0
  BY <1>1
<1>4. sum[{x}] = fun[x] + sum[{}]
  <2>1. {x} \in SUBSET {x} /\ {x} # {}
    OBVIOUS
  <2>2. sum[{x}] = fun[OneOf({x})] + sum[{x} \ {OneOf({x})}]
    BY <1>1, <2>1
  <2> QED
    BY <1>2, <2>2
<1> QED
  BY <1>1, <1>3, <1>4

LEMMA SumOfTwo ==
  ASSUME NEW fun, NEW x, NEW y, x # y, fun[x] \in Int, fun[y] \in Int
  PROVE  SumFunctionOnSet(fun, {x, y}) = fun[x] + fun[y]
<1>0. IsFiniteSet({x, y})
  <2>1. {x, y} = {x} \cup {y} /\ IsFiniteSet({x})
    BY FS_Singleton
  <2>2. IsFiniteSet({x} \cup {y})
    BY <2>1, FS_AddElement
  <2> QED
    BY <2>1, <2>2
<1>1. PICK sum \in [SUBSET {x, y} -> Int] :
        /\ \A s \in SUBSET {x, y} :
             sum[s] = IF s = {} THEN 0 ELSE fun[OneOf(s)] + sum[s \ {OneOf(s)}]
        /\ SumFunctionOnSet(fun, {x, y}) = sum[{x, y}]
  BY <1>0, SumIsFold
<1>2. sum[{}] = 0 /\ sum[{x}] = fun[x] /\ sum[{y}] = fun[y]
  <2>1. sum[{}] = 0
    BY <1>1
  <2>2. ASSUME NEW z \in {x, y} PROVE sum[{z}] = fun[z]
    <3>1. OneOf({z}) = z /\ {z} \ {z} = {}
      BY DEF OneOf
    <3>2. {z} \in SUBSET {x, y} /\ {z} # {}
      OBVIOUS
    <3>3. sum[{z}] = fun[OneOf({z})] + sum[{z} \ {OneOf({z})}]
      BY <1>1, <3>2
    <3> QED
      <4>1. fun[z] \in Int
        OBVIOUS
      <4>2. sum[{z}] = fun[z] + sum[{}]
        BY <3>1, <3>3
      <4> QED
        BY <2>1, <4>1, <4>2
  <2> QED
    BY <2>1, <2>2
<1>3. OneOf({x, y}) \in {x, y} /\ {x, y} \ {x} = {y} /\ {x, y} \ {y} = {x}
  BY DEF OneOf
<1> QED
  BY <1>1, <1>2, <1>3

-----------------------------------------------------------------------------
(* Merging: what the scores decide about rows of which each is a source's   *)
(* only one. FieldConfidence is bounded from the tables, and a sum has one  *)
(* or two terms.                                                            *)

\* Of one row a source at most, one comes first.
LEMMA FirstIsARow ==
  ASSUME NEW given, given # {}, \A r \in given : r.source \in Source, OnePerSource(given)
  PROVE  First(given) \in given
<1> DEFINE P == {Priority[r.source] : r \in given}
<1>1. \A s \in Source : Priority[s] \in Nat /\ \A t \in Source : Priority[s] = Priority[t] => s = t
  BY DEF Source, Priority
<1>2. P \in SUBSET Nat /\ P # {}
  BY <1>1
<1>3. PICK n \in P : \A m \in P : n <= m
  BY <1>2, LeastNumber
<1>4. PICK r \in given : n = Priority[r.source]
  BY <1>3
<1>5. ASSUME NEW q \in given \ {r} PROVE Before(r, q)
  <2>1. Priority[r.source] <= Priority[q.source]
    BY <1>3, <1>4
  <2>2. r.source # q.source
    BY <1>5 DEF OnePerSource
  <2>3. Priority[r.source] < Priority[q.source]
    BY <1>1, <2>1, <2>2
  <2> QED
    BY <2>3 DEF Before
<1> QED
  BY <1>4, <1>5 DEF First

\* Three sources give two rows, or three.
LEMMA TwoRowsOrThree ==
  ASSUME NEW given, \A r \in given : r.source \in Source, OnePerSource(given),
         NEW a \in given, NEW b \in given, a # b
  PROVE  \/ given = {a, b} /\ Cardinality(given) = 2
         \/ \E c \in given : c # a /\ c # b /\ given = {a, b, c} /\ Cardinality(given) = 3
<1>1. IsFiniteSet({a}) /\ Cardinality({a}) = 1
  BY FS_Singleton
<1>2. IsFiniteSet({a} \cup {b}) /\ Cardinality({a} \cup {b}) = 2
  <2>1. b \notin {a}
    OBVIOUS
  <2>2. Cardinality({a} \cup {b}) = Cardinality({a}) + 1 /\ IsFiniteSet({a} \cup {b})
    BY <1>1, <2>1, FS_AddElement
  <2> QED
    BY ONLY <1>1, <2>2
<1>3. CASE given = {a, b}
  <2>1. {a, b} = {a} \cup {b}
    OBVIOUS
  <2> QED
    BY <1>2, <1>3, <2>1
<1>4. CASE given # {a, b}
  <2>1. PICK c \in given : c # a /\ c # b
    BY <1>4
  <2>2. a.source # b.source /\ a.source # c.source /\ b.source # c.source
    BY <2>1 DEF OnePerSource
  <2>3. \A r \in given : r.source \in {a.source, b.source, c.source}
    BY <2>2 DEF Source
  <2>4. given = {a, b, c}
    BY <2>3 DEF OnePerSource
  <2>5. Cardinality(({a} \cup {b}) \cup {c}) = 3
    <3>1. c \notin {a} \cup {b}
      BY <2>1
    <3>2. Cardinality(({a} \cup {b}) \cup {c}) = Cardinality({a} \cup {b}) + 1
      BY <1>2, <3>1, FS_AddElement
    <3> QED
      BY ONLY <1>2, <3>2
  <2>6. {a, b, c} = ({a} \cup {b}) \cup {c}
    OBVIOUS
  <2> QED
    BY <2>1, <2>4, <2>5, <2>6
<1> QED
  BY <1>3, <1>4

\* What the tables make of one source, and of two.
LEMMA ConfidenceBounds ==
  ASSUME NEW f \in Field, NEW s \in Source, NEW t \in Source, s # t
  PROVE  /\ FieldConfidence(f, s, 2) \in Nat /\ FieldConfidence(f, s, 3) \in Nat
         /\ FieldConfidence(f, s, 2) <= 19476
         /\ 16400 <= FieldConfidence(f, s, 3) /\ FieldConfidence(f, s, 3) <= 21640
         /\ FieldConfidence(f, s, 3) + FieldConfidence(f, t, 3) <= 40740
<1> DEFINE C(g, u) == 18 * FieldReliability(g, u) + 20 * SourceWeight[u]
<1>1. C(f, "binlist") <= 2164 /\ C(f, "binlist") >= 1840
  BY DEF FieldReliability, SourceWeight, Field
<1>2. C(f, "venelinkochev") <= 1910 /\ C(f, "venelinkochev") >= 1640
  BY DEF FieldReliability, SourceWeight, Field
<1>3. C(f, "aderyabin") <= 1856 /\ C(f, "aderyabin") >= 1640
  BY DEF FieldReliability, SourceWeight, Field
<1>4. C(f, s) \in Int /\ C(f, t) \in Int
  BY DEF FieldReliability, SourceWeight, Source
<1>5. SourceCountFactor(2) = 9 /\ SourceCountFactor(3) = 10
  BY DEF SourceCountFactor
<1>6. /\ FieldConfidence(f, s, 2) = C(f, s) * 9
      /\ FieldConfidence(f, s, 3) = C(f, s) * 10
      /\ FieldConfidence(f, t, 3) = C(f, t) * 10
  BY <1>5 DEF FieldConfidence
<1>7. C(f, s) <= 2164 /\ C(f, s) >= 1640 /\ C(f, s) + C(f, t) <= 4074
  <2> HIDE DEF C
  <2> QED
    BY <1>1, <1>2, <1>3, <1>4 DEF Source
<1>8. ASSUME NEW x \in Int, NEW y \in Int, x <= 2164, x >= 1640, x + y <= 4074
      PROVE  /\ x * 9 \in Nat /\ x * 10 \in Nat /\ x * 9 <= 19476
             /\ 16400 <= x * 10 /\ x * 10 <= 21640 /\ x * 10 + y * 10 <= 40740
  BY <1>8
<1> HIDE DEF C
<1> QED
  BY <1>4, <1>6, <1>7, <1>8
\* No source is so much better than the two others.
LEMMA ConfidenceOfTwo ==
  ASSUME NEW f \in Field, NEW s \in Source, NEW t \in Source, NEW u \in Source,
         s # t, s # u, t # u
  PROVE  2 * FieldConfidence(f, u, 3) - 6700
           <= FieldConfidence(f, s, 3) + FieldConfidence(f, t, 3)
<1> DEFINE C(g, w) == 18 * FieldReliability(g, w) + 20 * SourceWeight[w]
<1>1. /\ f = "country" =>
            C(f, "binlist") = 2164 /\ C(f, "venelinkochev") = 1910 /\ C(f, "aderyabin") = 1856
      /\ f = "issuer" =>
            C(f, "binlist") = 2020 /\ C(f, "venelinkochev") = 1730 /\ C(f, "aderyabin") = 1640
      /\ f \notin {"country", "issuer"} =>
            C(f, "binlist") = 1840 /\ C(f, "venelinkochev") = 1640 /\ C(f, "aderyabin") = 1640
  BY DEF FieldReliability, SourceWeight
<1>2. C(f, s) \in Int /\ C(f, t) \in Int /\ C(f, u) \in Int
  BY DEF FieldReliability, SourceWeight, Source
<1>3. SourceCountFactor(3) = 10
  BY DEF SourceCountFactor
<1>4. \A w \in {s, t, u} : FieldConfidence(f, w, 3) = C(f, w) * 10
  BY <1>3 DEF FieldConfidence
<1> HIDE DEF C
<1>5. 2 * C(f, u) - 670 <= C(f, s) + C(f, t)
  BY <1>1, <1>2, SMT DEF Source
<1> QED
  BY <1>2, <1>4, <1>5, SMT

\* What the lemmas on scores are about.
Rows(given) == given # {} /\ (\A r \in given : r.source \in Source) /\ OnePerSource(given)

\* The score of a value that one row gives, and of one that two of three give.
LEMMA ScoreOfOne ==
  ASSUME NEW given, Rows(given), NEW f \in Field, NEW v, NEW a \in given, Giving(given, f, v) = {a},
         Cardinality(given) \in {2, 3}
  PROVE  /\ FieldConfidence(f, a.source, Cardinality(given)) \in Nat
         /\ Score(given, f, v) = 7 * Cardinality(given) * FieldConfidence(f, a.source, Cardinality(given)) + 90000
<1> DEFINE fun == [r \in given |-> FieldConfidence(f, r.source, Cardinality(given))]
<1>1. PICK s \in Source, t \in Source : s = a.source /\ s # t
  BY DEF Source, Rows
<1>2. FieldConfidence(f, a.source, Cardinality(given)) \in Nat
  <2>1. FieldConfidence(f, a.source, 2) \in Nat /\ FieldConfidence(f, a.source, 3) \in Nat
    BY <1>1, ConfidenceBounds
  <2> QED
    BY <2>1
<1>3. fun[a] \in Int /\ fun[a] = FieldConfidence(f, a.source, Cardinality(given))
  BY <1>2
<1>4. SumFunctionOnSet(fun, {a}) = fun[a]
  <2> HIDE DEF fun
  <2> QED
    BY <1>3, SumOfOne
<1>5. Confidence(given, f, v) = FieldConfidence(f, a.source, Cardinality(given))
  BY <1>3, <1>4 DEF Confidence
<1>6. Cardinality(Giving(given, f, v)) = 1
  BY FS_Singleton
<1> QED
  BY <1>2, <1>5, <1>6 DEF Score

\* The score of a value that two of three rows give, with confidences x and y.
TwoOfThree(x, y) == 21 * (x + y) + 360000

LEMMA ScoreOfTwo ==
  ASSUME NEW given, Rows(given), NEW f \in Field, NEW v, NEW a \in given, NEW b \in given, a # b,
         Giving(given, f, v) = {a, b}, Cardinality(given) = 3,
         NEW x \in Nat, x = FieldConfidence(f, a.source, 3),
         NEW y \in Nat, y = FieldConfidence(f, b.source, 3)
  PROVE  /\ Cardinality(Giving(given, f, v)) = 2
         /\ Score(given, f, v) = TwoOfThree(x, y)
         /\ x + y <= 40740
<1> DEFINE fun == [r \in given |-> FieldConfidence(f, r.source, Cardinality(given))]
<1>1. a.source \in Source /\ b.source \in Source /\ a.source # b.source
  BY DEF Rows, OnePerSource
<1>2. x + y <= 40740
  BY <1>1, ConfidenceBounds
<1>3. fun[a] = x /\ fun[b] = y
  OBVIOUS
<1>4. SumFunctionOnSet(fun, {a, b}) = x + y
  <2> HIDE DEF fun
  <2> QED
    <3>1. fun[a] \in Int /\ fun[b] \in Int
      BY <1>3
    <3>2. SumFunctionOnSet(fun, {a, b}) = fun[a] + fun[b]
      BY <3>1, SumOfTwo
    <3> QED
      BY <1>3, <3>2
<1>5. Confidence(given, f, v) = x + y
  BY <1>4 DEF Confidence
<1>6. Cardinality(Giving(given, f, v)) = 2
  <2>1. {a, b} = {a} \cup {b} /\ IsFiniteSet({a}) /\ Cardinality({a}) = 1 /\ b \notin {a}
    BY FS_Singleton
  <2>2. Cardinality({a} \cup {b}) = Cardinality({a}) + 1
    BY <2>1, FS_AddElement
  <2> QED
    BY <2>1, <2>2
<1>7. Score(given, f, v) = TwoOfThree(x, y)
  BY <1>5, <1>6, SMT DEF Score, TwoOfThree
<1> QED
  BY <1>2, <1>6, <1>7, SMT

\* A value that not every row gives is rows by one, or by two of three.
LEMMA GiversOfOutvoted ==
  ASSUME NEW given, Rows(given), NEW f \in Field, NEW a \in given, NEW b \in given,
         a.record[f] # b.record[f]
  PROVE  \/ Giving(given, f, a.record[f]) = {a} /\ Cardinality(given) \in {2, 3}
         \/ /\ Cardinality(given) = 3
            /\ \E c \in given : c # a /\ Giving(given, f, a.record[f]) = {a, c}
<1>1. a # b
  OBVIOUS
<1>2. CASE given = {a, b} /\ Cardinality(given) = 2
  BY <1>2 DEF Giving
<1>3. ASSUME NEW c \in given, c # a, c # b, given = {a, b, c}, Cardinality(given) = 3
      PROVE  \/ Giving(given, f, a.record[f]) = {a}
             \/ Giving(given, f, a.record[f]) = {a, c}
  BY <1>3 DEF Giving
<1> QED
  BY <1>1, <1>2, <1>3, TwoRowsOrThree DEF Rows

\* Its score stays below seven tenths, whatever it is.
LEMMA OutvotedScore ==
  ASSUME NEW given, Rows(given), NEW f \in Field, NEW a \in given, NEW b \in given,
         a.record[f] # b.record[f]
  PROVE  /\ Score(given, f, a.record[f]) \in Int
         /\ Cardinality(Giving(given, f, a.record[f])) \in {1, 2}
         /\ ~ScoreReaches(given, f, a.record[f], 70)
<1> DEFINE v == a.record[f]
<1>1. CASE Giving(given, f, v) = {a} /\ Cardinality(given) \in {2, 3}
  <2>1. PICK n \in {2, 3} : n = Cardinality(given)
    BY <1>1
  <2>2. PICK t \in Source : a.source \in Source /\ t # a.source
    BY DEF Rows, Source
  <2>3. PICK x \in Nat : x = FieldConfidence(f, a.source, n)
    BY <2>1, <2>2, ConfidenceBounds
  <2>4. n = 2 => x <= 19476
    BY <2>2, <2>3, ConfidenceBounds
  <2>5. n = 3 => x <= 21640
    BY <2>2, <2>3, ConfidenceBounds
  <2>6. Score(given, f, v) = 7 * n * x + 90000 /\ Cardinality(Giving(given, f, v)) = 1
    <3> HIDE DEF v
    <3>1. Cardinality(given) \in {2, 3} /\ Giving(given, f, v) = {a}
      BY <1>1
    <3>2. Score(given, f, v)
               = 7 * Cardinality(given) * FieldConfidence(f, a.source, Cardinality(given)) + 90000
      BY <3>1, ScoreOfOne
    <3>3. Cardinality(Giving(given, f, v)) = 1
      BY <3>1, FS_Singleton
    <3> QED
      BY <2>1, <2>3, <3>2, <3>3
  <2>7. 7 * n * x + 90000 \in Int /\ ~(7 * n * x + 90000 >= 210000 * 1 * n)
    BY <2>4, <2>5
  <2> QED
    BY <2>1, <2>6, <2>7 DEF ScoreReaches
<1>2. ASSUME NEW c \in given, c # a, Giving(given, f, v) = {a, c}, Cardinality(given) = 3
      PROVE  /\ Score(given, f, v) \in Int
             /\ Cardinality(Giving(given, f, v)) = 2
             /\ ~ScoreReaches(given, f, v, 70)
  <2>1. PICK x \in Nat, y \in Nat :
          x = FieldConfidence(f, a.source, 3) /\ y = FieldConfidence(f, c.source, 3)
    <3>1. a.source \in Source /\ c.source \in Source /\ a.source # c.source
      BY <1>2 DEF Rows, OnePerSource
    <3> QED
      BY <3>1, ConfidenceBounds
  <2>2. /\ Cardinality(Giving(given, f, v)) = 2
        /\ Score(given, f, v) = TwoOfThree(x, y) /\ x + y <= 40740
    <3>1. Giving(given, f, v) = {a, c} /\ Cardinality(given) = 3 /\ a # c
      BY <1>2
    <3> HIDE DEF v
    <3> QED
      BY ONLY <2>1, <3>1, Rows(given), ScoreOfTwo, SMT
  <2>3. TwoOfThree(x, y) \in Int /\ ~(TwoOfThree(x, y) >= 3000 * 70 * 2 * 3)
    BY <2>2, SMT DEF TwoOfThree
  <2> QED
    BY <1>2, <2>2, <2>3, SMT DEF ScoreReaches
<1>3. \/ Giving(given, f, v) = {a} /\ Cardinality(given) \in {2, 3}
      \/ Cardinality(given) = 3 /\ \E c \in given : c # a /\ Giving(given, f, v) = {a, c}
  BY GiversOfOutvoted
<1>4. CASE Cardinality(given) = 3 /\ \E c \in given : c # a /\ Giving(given, f, v) = {a, c}
  <2>1. PICK c \in given : c # a /\ Giving(given, f, v) = {a, c}
    BY <1>4
  <2>2. Score(given, f, v) \in Int /\ Cardinality(Giving(given, f, v)) = 2
          /\ ~ScoreReaches(given, f, v, 70)
    BY <1>2, <1>4, <2>1
  <2> QED
    BY <2>2
<1> QED
  BY <1>1, <1>3, <1>4

\* Among values with one giver or two some value has the best average score.
LEMMA BestOfThree ==
  ASSUME NEW s \in Int, NEW t \in Int, NEW u \in Int, NEW g \in {1, 2}, NEW h \in {1, 2},
         NEW k \in {1, 2}
  PROVE  \/ s * h >= t * g /\ s * k >= u * g
         \/ t * g >= s * h /\ t * k >= u * h
         \/ u * g >= s * k /\ u * h >= t * k
<1> DEFINE W(x, y) == IF y = 1 THEN 2 * x ELSE x
<1>1. ASSUME NEW x \in Int, NEW y \in {1, 2}, NEW z \in Int, NEW w \in {1, 2}
      PROVE  W(x, y) >= W(z, w) => x * w >= z * y
  <2>1. CASE y = 1 /\ w = 1
    BY <2>1
  <2>2. CASE y = 1 /\ w = 2
    BY <2>2
  <2>3. CASE y = 2 /\ w = 1
    BY <2>3
  <2>4. CASE y = 2 /\ w = 2
    BY <2>4
  <2> QED
    BY <2>1, <2>2, <2>3, <2>4
<1>2. W(s, g) \in Int /\ W(t, h) \in Int /\ W(u, k) \in Int
  OBVIOUS
<1> HIDE DEF W
<1>3. \/ W(s, g) >= W(t, h) /\ W(s, g) >= W(u, k)
      \/ W(t, h) >= W(s, g) /\ W(t, h) >= W(u, k)
      \/ W(u, k) >= W(s, g) /\ W(u, k) >= W(t, h)
  BY <1>2
<1> QED
  BY <1>1, <1>3

\* When the rows disagree one of their values has the best score, and the
\* first row that has it gives it.
LEMMA ValueIsGiven ==
  ASSUME NEW given, Rows(given), NEW f \in Field, \E r, q \in given : r.record[f] # q.record[f]
  PROVE  \E r \in Best(given, f) : AggregateValue(given, f) = r.record[f]
<1> DEFINE s(r) == Score(given, f, r.record[f])
           g(r) == Cardinality(Giving(given, f, r.record[f]))
<1>1. ASSUME NEW r \in given PROVE s(r) \in Int /\ g(r) \in {1, 2}
  <2>1. PICK q \in given : r.record[f] # q.record[f]
    OBVIOUS
  <2> QED
    BY <2>1, OutvotedScore
<1>2. Best(given, f) = {r \in given : \A q \in given : s(r) * g(q) >= s(q) * g(r)}
  BY DEF Best
<1> HIDE DEF s, g
<1>3. PICK a \in given, b \in given : a # b
  OBVIOUS
<1>4. Best(given, f) # {}
  <2>0. ASSUME NEW r \in given, NEW q \in given
        PROVE  s(r) * g(q) \in Int /\ s(r) * g(r) >= s(r) * g(r)
    BY <1>1
  <2>1. CASE given = {a, b}
    <3>1. \/ s(a) * g(b) >= s(b) * g(a)
          \/ s(b) * g(a) >= s(a) * g(b)
      BY <1>1, BestOfThree
    <3> QED
      BY <1>2, <2>0, <2>1, <3>1
  <2>2. ASSUME NEW c \in given, given = {a, b, c} PROVE Best(given, f) # {}
    <3>1. \/ s(a) * g(b) >= s(b) * g(a) /\ s(a) * g(c) >= s(c) * g(a)
          \/ s(b) * g(a) >= s(a) * g(b) /\ s(b) * g(c) >= s(c) * g(b)
          \/ s(c) * g(a) >= s(a) * g(c) /\ s(c) * g(b) >= s(b) * g(c)
      BY <1>1, BestOfThree
    <3> QED
      BY <1>2, <2>0, <2>2, <3>1
  <2> QED
    BY <1>3, <2>1, <2>2, TwoRowsOrThree DEF Rows
<1>5. First(Best(given, f)) \in Best(given, f)
  <2>1. Best(given, f) \subseteq given
    BY <1>2
  <2>2. (\A r \in Best(given, f) : r.source \in Source) /\ OnePerSource(Best(given, f))
    BY <2>1 DEF Rows, OnePerSource
  <2> QED
    BY <1>4, <2>2, FirstIsARow
<1> QED
  BY <1>5 DEF AggregateValue

\* Rows that disagree about a field put it in the queue.
LEMMA DisagreementNeedsReview ==
  ASSUME NEW given, Rows(given), NEW f \in Field, \E r, q \in given : r.record[f] # q.record[f]
  PROVE  RequiresManualReview(given, f)
<1>1. PICK a \in Best(given, f) : AggregateValue(given, f) = a.record[f]
  BY ValueIsGiven
<1>2. a \in given
  BY DEF Best
<1>3. PICK b \in given : a.record[f] # b.record[f]
  BY <1>2
<1>4. ~ScoreReaches(given, f, a.record[f], 70)
  BY <1>2, <1>3, OutvotedScore
<1> QED
  BY <1>1, <1>4 DEF RequiresManualReview

\* The value two of three rows give is the merged one.
LEMMA MajorityIsMerged ==
  ASSUME NEW given, Rows(given), NEW f \in Field, NEW r \in given, NEW q \in given, r # q,
         Cardinality(given) = 3,
         r.record[f] = q.record[f], \A a \in given : a.record[f] # Missing
  PROVE  MergeRecordList(given)[f] = r.record[f]
<1> DEFINE v == r.record[f]
<1>1. PICK w \in given : w # r /\ w # q /\ given = {r, q, w}
  BY TwoRowsOrThree DEF Rows
<1>2. CASE w.record[f] = v
  <2>1. \A a \in given : a.record[f] = v
    BY <1>1, <1>2
  <2>2. ~InConflict(given, f)
    BY <2>1 DEF InConflict
  <2>3. First(given) \in given
    BY FirstIsARow DEF Rows
  <2> QED
    BY <2>1, <2>2, <2>3 DEF MergeRecordList
<1>3. CASE w.record[f] # v
  <2>1. Giving(given, f, v) = {r, q} /\ Giving(given, f, w.record[f]) = {w}
    BY <1>1, <1>3 DEF Giving
  <2>2. PICK x \in Nat, y \in Nat, z \in Nat :
          /\ x = FieldConfidence(f, r.source, 3) /\ y = FieldConfidence(f, q.source, 3)
          /\ z = FieldConfidence(f, w.source, 3)
          /\ 2 * z - 6700 <= x + y
    <3>1. /\ r.source \in Source /\ q.source \in Source /\ w.source \in Source
          /\ r.source # q.source /\ r.source # w.source /\ q.source # w.source
      BY <1>1 DEF Rows, OnePerSource
    <3>2. \A s \in {r.source, q.source, w.source} : FieldConfidence(f, s, 3) \in Nat
      BY <3>1, ConfidenceBounds
    <3>3. 2 * FieldConfidence(f, w.source, 3) - 6700
            <= FieldConfidence(f, r.source, 3) + FieldConfidence(f, q.source, 3)
      BY <3>1, ConfidenceOfTwo
    <3> QED
      BY <3>2, <3>3
  <2>3. /\ Cardinality(Giving(given, f, v)) = 2
        /\ Score(given, f, v) = TwoOfThree(x, y) /\ x + y <= 40740
    <3> HIDE DEF v
    <3>1. Giving(given, f, v) = {r, q}
      BY <2>1
    <3>2. x = FieldConfidence(f, r.source, 3) /\ y = FieldConfidence(f, q.source, 3)
      BY <2>2
    <3>3. Cardinality(given) = 3 /\ r # q
      OBVIOUS
    <3> QED
      BY ONLY <3>1, <3>2, <3>3, Rows(given), ScoreOfTwo, SMT
  <2>4. Cardinality(Giving(given, f, w.record[f])) = 1
    BY <2>1, FS_Singleton
  <2>5. Score(given, f, w.record[f]) = 21 * z + 90000
    <3>1. Cardinality(given) \in {2, 3}
      OBVIOUS
    <3>2. Score(given, f, w.record[f]) =
            7 * Cardinality(given) * FieldConfidence(f, w.source, Cardinality(given)) + 90000
      BY <2>1, <3>1, ScoreOfOne
    <3> QED
      BY <2>2, <3>2, SMT
  <2>6. w \notin Best(given, f)
    <3>1. ~((21 * z + 90000) * 2 >= (TwoOfThree(x, y)) * 1)
      BY <2>2, SMT DEF TwoOfThree
    <3> QED
      BY <2>3, <2>4, <2>5, <3>1, SMT DEF Best
  <2>7. AggregateValue(given, f) = v
    <3>1. PICK a \in Best(given, f) : AggregateValue(given, f) = a.record[f]
      BY <1>1, <1>3, ValueIsGiven
    <3>2. a \in given
      BY DEF Best
    <3> QED
      BY <1>1, <2>6, <3>1, <3>2
  <2>8. ~ScoreReaches(given, f, v, 80)
    <3>1. TwoOfThree(x, y) \in Int /\ ~(TwoOfThree(x, y) >= 3000 * 80 * 2 * 3)
      BY <2>3, SMT DEF TwoOfThree
    <3> QED
      BY <2>3, <3>1, SMT DEF ScoreReaches
  <2>9. ResolvedValue(given, f) = v
    BY <2>7, <2>8 DEF ResolvedValue
  <2>10. InConflict(given, f)
    BY <1>1, <1>3 DEF InConflict
  <2> QED
    BY <2>9, <2>10 DEF MergeRecordList
<1> QED
  BY <1>2, <1>3

-----------------------------------------------------------------------------
(* The pipeline. enrichWithBinlist comes to the BINs in an order that       *)
(* follows from what is read, so that the BINs a run has come to are the    *)
(* first ones, and those of two runs are the same.                          *)

\* BINs that come before all the others.
Segment(V, S) == V \subseteq Listed(S) /\ \A b \in V, c \in Listed(S) \ V : Earlier(b, c, S)

\* The pipeline's order of BINs.
LEMMA ListedIsFinite ==
  ASSUME NEW S
  PROVE  IsFiniteSet(Listed(S))
<1>1. Bins \in Surjection(DOMAIN Bins, AnyBin)
  BY PipelineAssumption DEF Surjection, AnyBin, Range
<1>2. IsFiniteSet(DOMAIN Bins)
  <2>1. DOMAIN Bins = 1..Len(Bins) /\ Len(Bins) \in Nat
    BY PipelineAssumption
  <2> QED
    BY <2>1, FS_Interval
<1>3. IsFiniteSet(AnyBin)
  BY <1>1, <1>2, FS_Surjection
<1> QED
  BY <1>3, FS_Subset DEF Listed

LEMMA PlaceOfBin ==
  ASSUME NEW b \in AnyBin
  PROVE  Place(b) \in Nat /\ Bins[Place(b)] = b
<1>1. DOMAIN Bins \subseteq Nat
  BY PipelineAssumption
<1>2. \E i \in DOMAIN Bins : Bins[i] = b
  BY DEF AnyBin, Range
<1> QED
  BY <1>1, <1>2 DEF Place

LEMMA ListerOfBin ==
  ASSUME NEW S \in SUBSET Source, NEW b \in Listed(S)
  PROVE  Lister(b, S) \in Source
<1> DEFINE T == {s \in S : ValidRows(b, {s}) # {}}
           P == {Priority[s] : s \in T}
<1>1. \A s \in Source : Priority[s] \in Nat
  BY DEF Source, Priority
<1>2. PICK r \in ValidRows(b, S) : TRUE
  BY DEF Listed
<1>3. PICK s \in S : r \in ValidRows(b, {s})
  BY <1>2 DEF RowsOf, ValidRows
<1>4. P \in SUBSET Nat /\ P # {}
  BY <1>1, <1>3
<1>5. PICK n \in P : \A m \in P : n <= m
  BY <1>4, LeastNumber
<1>6. PICK l \in T : n = Priority[l]
  BY <1>5
<1>7. /\ l \in S /\ ValidRows(b, {l}) # {}
      /\ \A t \in S : ValidRows(b, {t}) # {} => Priority[l] <= Priority[t]
  BY <1>5, <1>6
<1> QED
  BY <1>7 DEF Lister

LEMMA EarlierIsAnOrder ==
  ASSUME NEW S \in SUBSET Source, NEW b \in Listed(S), NEW c \in Listed(S),
         b # c
  PROVE  Earlier(b, c, S) <=> ~Earlier(c, b, S)
<1>1. Lister(b, S) \in Source /\ Lister(c, S) \in Source
  BY ListerOfBin
<1>2. \A s, t \in Source : /\ Priority[s] \in Nat
                           /\ Priority[s] = Priority[t] => s = t
  BY DEF Source, Priority
<1>3. Place(b) \in Nat /\ Place(c) \in Nat /\ Place(b) # Place(c)
  BY PlaceOfBin DEF Listed
<1> QED
  BY <1>1, <1>2, <1>3 DEF Earlier

\* One of some BINs comes before the others.
LEMMA OneIsFirst ==
  ASSUME NEW S \in SUBSET Source, NEW T \in SUBSET Listed(S), T # {}
  PROVE  \E b \in T : \A c \in T \ {b} : Earlier(b, c, S)
<1> DEFINE P == {Priority[Lister(b, S)] : b \in T}
<1>1. \A b \in T : Lister(b, S) \in Source /\ Priority[Lister(b, S)] \in Nat
  BY ListerOfBin DEF Source, Priority
<1>2. PICK n \in P : \A m \in P : n <= m
  <2>1. P \in SUBSET Nat /\ P # {}
    BY <1>1
  <2> QED
    BY <2>1, LeastNumber
<1> DEFINE Q == {Place(b) : b \in {c \in T : Priority[Lister(c, S)] = n}}
<1>3. Q \in SUBSET Nat /\ Q # {}
  BY <1>2, PlaceOfBin DEF Listed
<1>4. PICK i \in Q : \A j \in Q : i <= j
  BY <1>3, LeastNumber
<1>5. PICK b \in T : Priority[Lister(b, S)] = n /\ Place(b) = i
  BY <1>4
<1>6. ASSUME NEW c \in T \ {b} PROVE Earlier(b, c, S)
  <2>1. n <= Priority[Lister(c, S)]
    BY <1>2
  <2>2. CASE Priority[Lister(c, S)] = n
    <3>1. i <= Place(c)
      BY <1>4, <2>2
    <3>2. Place(b) # Place(c) /\ Place(b) \in Nat /\ Place(c) \in Nat
      BY PlaceOfBin DEF Listed
    <3>3. Lister(b, S) = Lister(c, S)
      BY <1>1, <1>5, <2>2 DEF Source, Priority
    <3> QED
      BY <1>5, <3>1, <3>2, <3>3 DEF Earlier
  <2>3. CASE Priority[Lister(c, S)] # n
    BY <1>1, <1>5, <2>1, <2>3 DEF Earlier
  <2> QED
    BY <2>2, <2>3
<1> QED
  BY <1>5, <1>6

\* What is left is come to in that order.
LEMMA NextBinIsFirst ==
  ASSUME read \in SUBSET Source, remaining \in SUBSET Listed(read), remaining # {}
  PROVE  NextBin \in remaining /\ \A c \in remaining \ {NextBin} : Earlier(NextBin, c, read)
<1>1. \E b \in remaining : \A c \in remaining \ {b} : Earlier(b, c, read)
  BY OneIsFirst
<1> QED
  BY <1>1 DEF NextBin

LEMMA SegmentGrows ==
  ASSUME read \in SUBSET Source, remaining \in SUBSET Listed(read), remaining # {},
         Segment(Listed(read) \ remaining, read)
  PROVE  /\ Segment(Listed(read) \ (remaining \ {NextBin}), read)
         /\ Cardinality(Listed(read) \ (remaining \ {NextBin})) = Cardinality(Listed(read) \ remaining) + 1
<1>1. NextBin \in remaining /\ \A c \in remaining \ {NextBin} : Earlier(NextBin, c, read)
  BY NextBinIsFirst
<1>2. Listed(read) \ (remaining \ {NextBin}) = (Listed(read) \ remaining) \cup {NextBin}
  BY <1>1
<1>3. NextBin \notin Listed(read) \ remaining /\ IsFiniteSet(Listed(read) \ remaining)
  BY <1>1, ListedIsFinite, FS_Subset
<1>4. Cardinality((Listed(read) \ remaining) \cup {NextBin}) = Cardinality(Listed(read) \ remaining) + 1
  BY <1>3, FS_AddElement
<1>5. Segment((Listed(read) \ remaining) \cup {NextBin}, read)
  BY <1>1 DEF Segment
<1> QED
  BY <1>2, <1>4, <1>5

\* Two runs that are over come to the same BINs.
Whole(V, S) == Cardinality(V) <= Limit /\ (V = Listed(S) \/ Cardinality(V) = Limit)

LEMMA SegmentsAgree ==
  ASSUME NEW S \in SUBSET Source, NEW V, NEW W,
         Segment(V, S), Segment(W, S), Whole(V, S), Whole(W, S)
  PROVE  V = W
<1>1. V \subseteq Listed(S) /\ W \subseteq Listed(S)
  BY DEF Segment
<1>2. IsFiniteSet(V) /\ IsFiniteSet(W)
  BY <1>1, ListedIsFinite, FS_Subset
<1>3. Cardinality(V) \in Nat /\ Cardinality(W) \in Nat /\ Limit \in Nat
  BY <1>2, FS_CardinalityType, PipelineAssumption
<1>4. V \subseteq W \/ W \subseteq V
  <2> SUFFICES ASSUME NEW b \in V, b \notin W, NEW c \in W, c \notin V PROVE FALSE
    OBVIOUS
  <2>1. Earlier(b, c, S) /\ Earlier(c, b, S) /\ b # c
    BY <1>1 DEF Segment
  <2> QED
    BY <1>1, <2>1, EarlierIsAnOrder
<1>5. CASE V \subseteq W
  <2>1. Cardinality(V) <= Cardinality(W) /\ (Cardinality(V) = Cardinality(W) => V = W)
    BY <1>2, <1>5, FS_Subset
  <2>2. CASE V = Listed(S)
    BY <1>1, <1>5, <2>2
  <2>3. CASE Cardinality(V) = Limit
    BY <1>3, <2>1, <2>3 DEF Whole
  <2> QED
    BY <2>2, <2>3 DEF Whole
<1>6. CASE W \subseteq V
  <2>1. Cardinality(W) <= Cardinality(V) /\ (Cardinality(V) = Cardinality(W) => V = W)
    BY <1>2, <1>6, FS_Subset
  <2>2. CASE W = Listed(S)
    BY <1>1, <1>6, <2>2
  <2>3. CASE Cardinality(W) = Limit
    BY <1>3, <2>1, <2>3 DEF Whole
  <2> QED
    BY <2>2, <2>3 DEF Whole
<1> QED
  BY <1>4, <1>5, <1>6

\* A BIN's record before it is completed.
Base(b, S) == MergeRecordList(ValidRows(b, S))

\* A record completed from an answer.
Completed(r, data) ==
  IF data \in {NoData, Failed, Unasked} THEN r
  ELSE [f \in Field |-> IF f \in DOMAIN data /\ r[f] = Missing THEN data[f] ELSE r[f]]

\* The BINs that have been come to.
Done == Listed(read) \ remaining

\* Everything is of its kind.
PipelineTypes ==
  /\ files \in [Source -> [AnyBin -> Seq(RawRecord)]]
  /\ pc \in {"idle", "extract", "merge", "enrich", "write", "load"}
  /\ mode \in Mode /\ tried \in Nat /\ read \in SUBSET Source /\ torn \in BOOLEAN
  /\ attempted \in Nat /\ attempted <= Limit
  /\ answer \in Answers \cup {NoData, Failed}
  /\ cache \in [AnyBin -> Answers \cup {Unasked, NoData}]

\* What the run has made of the records it has merged.
RecordsSoFar ==
  /\ DOMAIN records = Listed(read) /\ remaining \subseteq Listed(read) /\ Segment(Done, read)
  /\ \A b \in Listed(read), f \in Field :
       f \in ReviewedFields(ValidRows(b, read)) => <<b, f>> \in review
  /\ \A b \in remaining : records[b] = Base(b, read)
  /\ \A b \in Done : cache[b] # Unasked /\ records[b] = Completed(Base(b, read), cache[b])

\* The run that is under way: which BINs it has come to, in which order, and
\* what their records and the queue are.
RunUnderWay ==
  /\ pc \in {"idle", "extract", "merge"} => attempted = 0
  /\ pc \in {"enrich", "write", "load"} => RecordsSoFar
  /\ pc \in {"enrich", "write"} => mode # "plain"
  /\ pc = "enrich" => Cardinality(Done) = attempted
  /\ pc = "write" => remaining # {} /\ Cardinality(Done) + 1 = attempted /\ cache[NextBin] = Unasked
  /\ pc = "load" => IF mode = "plain" THEN Done = {} ELSE Whole(Done, read)

\* What the run before loaded, in terms of the cache file.
RunBefore ==
  ~torn => /\ last.read \in SUBSET Source
           /\ DOMAIN last.records = Listed(last.read)
           /\ \E V \in SUBSET Listed(last.read) :
                /\ Segment(V, last.read)
                /\ IF last.mode = "plain" THEN V = {} ELSE Whole(V, last.read)
                /\ \A b \in V : cache[b] # Unasked
                /\ \A b \in Listed(last.read) :
                     last.records[b] = IF b \in V THEN Completed(Base(b, last.read), cache[b])
                                       ELSE Base(b, last.read)

PipelineInv == PipelineTypes /\ RunUnderWay /\ RunBefore

\* The sources do not change, nor what follows from them.
LEMMA SourcesStay ==
  ASSUME files' = files
  PROVE  /\ \A b, S : ValidRows(b, S)' = ValidRows(b, S)
         /\ \A S : Listed(S)' = Listed(S)
         /\ \A b, S : Base(b, S)' = Base(b, S)
         /\ \A V, S : Segment(V, S)' = Segment(V, S)
         /\ \A V, S : Whole(V, S)' = Whole(V, S)
         /\ UNCHANGED <<read, remaining>> => NextBin' = NextBin
<1>1. \A b, S : ValidRows(b, S)' = ValidRows(b, S)
  BY DEF RowsOf, ValidRows
<1>2. \A S : Listed(S)' = Listed(S)
  BY <1>1 DEF Listed
<1>3. \A b, S : Base(b, S)' = Base(b, S)
  BY <1>1 DEF Base
<1>4. \A b, S : Lister(b, S)' = Lister(b, S)
  BY <1>1 DEF Lister
<1>5. \A b, c, S : Earlier(b, c, S)' = Earlier(b, c, S)
  BY <1>4 DEF Earlier
<1>6. \A V, S : Segment(V, S)' = Segment(V, S)
  BY <1>2, <1>5 DEF Segment
<1>7. \A V, S : Whole(V, S)' = Whole(V, S)
  BY <1>2 DEF Whole
<1>8. UNCHANGED <<read, remaining>> => NextBin' = NextBin
  BY <1>5 DEF NextBin
<1> QED
  BY <1>1, <1>2, <1>3, <1>6, <1>7, <1>8

\* What the run before loaded stays told by the cache file as long as no
\* answer in it changes.
LEMMA RunBeforeStays ==
  ASSUME RunBefore, files' = files, last' = last, torn' = torn,
         \A b \in AnyBin : cache[b] # Unasked => cache'[b] = cache[b]
  PROVE  RunBefore'
<1> SUFFICES ASSUME ~torn PROVE RunBefore'
  BY DEF RunBefore
<1> DEFINE Told(V, c) ==
      /\ Segment(V, last.read)
      /\ IF last.mode = "plain" THEN V = {} ELSE Whole(V, last.read)
      /\ \A b \in V : c[b] # Unasked
      /\ \A b \in Listed(last.read) :
           last.records[b] = IF b \in V THEN Completed(Base(b, last.read), c[b])
                             ELSE Base(b, last.read)
<1>1. /\ last.read \in SUBSET Source /\ DOMAIN last.records = Listed(last.read)
      /\ \E V \in SUBSET Listed(last.read) : Told(V, cache)
  BY DEF RunBefore
<1>2. PICK V \in SUBSET Listed(last.read) : Told(V, cache)
  BY <1>1
<1>3. \A b \in V : b \in AnyBin /\ cache[b] # Unasked /\ cache'[b] = cache[b]
  BY <1>2 DEF Listed
<1>4. Told(V, cache')
  BY <1>2, <1>3
<1>5. /\ \A S : Listed(S)' = Listed(S)
      /\ \A b, S : Base(b, S)' = Base(b, S)
      /\ \A W, S : Segment(W, S)' = Segment(W, S)
      /\ \A W, S : Whole(W, S)' = Whole(W, S)
  BY SourcesStay
<1> DEFINE l == last'
<1>6. l.read \in SUBSET Source /\ DOMAIN l.records = Listed(l.read)
  BY <1>1
<1>7. /\ V \in SUBSET Listed(l.read) /\ Segment(V, l.read)
      /\ IF l.mode = "plain" THEN V = {} ELSE Whole(V, l.read)
      /\ \A b \in V : cache'[b] # Unasked
      /\ \A b \in Listed(l.read) :
           l.records[b] = IF b \in V THEN Completed(Base(b, l.read), cache'[b])
                          ELSE Base(b, l.read)
  BY <1>4
<1> HIDE DEF Told
<1> QED
  BY <1>5, <1>6, <1>7 DEF RunBefore

\* Between runs, and before the sources are merged.
LEMMA NoRunUnderWay ==
  ASSUME pc \in {"idle", "extract", "merge"}, attempted = 0
  PROVE  RunUnderWay
BY DEF RunUnderWay

LEMMA PipelineStart == PipelineInit => PipelineInv
<1> SUFFICES ASSUME PipelineInit PROVE PipelineInv
  OBVIOUS
<1>1. PipelineTypes
  <2>1. files \in [Source -> [AnyBin -> Seq(RawRecord)]] /\ 0 <= Limit
    BY PipelineAssumption DEF PipelineInit
  <2>2. cache \in [AnyBin -> Answers \cup {Unasked, NoData}]
    BY DEF PipelineInit
  <2> QED
    BY <2>1, <2>2 DEF PipelineInit, PipelineTypes, Mode
<1>2. RunUnderWay
  BY NoRunUnderWay DEF PipelineInit
<1>3. Listed({}) = {}
  BY DEF Listed, RowsOf, ValidRows
<1>4. last.read = {} /\ last.mode = "plain" /\ DOMAIN last.records = {}
  BY DEF PipelineInit, NoRun, NoRecords
<1>5. Segment({}, {})
  BY <1>3 DEF Segment
<1>6. RunBefore
  BY <1>3, <1>4, <1>5 DEF RunBefore
<1> QED
  BY <1>1, <1>2, <1>6 DEF PipelineInv

\* Each action keeps the types.
LEMMA PipelineTyping ==
  ASSUME PipelineTypes, RunUnderWay, [PipelineNext]_pipelineVars
  PROVE  PipelineTypes'
<1> USE DEF PipelineTypes
<1>1. CASE StartRun
  BY <1>1 DEF StartRun
<1>2. CASE Extract
  <2>1. read' \in SUBSET Source
    <3>1. tried' \in 1..3
      BY <1>2 DEF Extract, Sources
    <3>2. Sources[tried'] \in Source
      BY <3>1 DEF Source, Sources
    <3> QED
      BY <1>2, <3>2 DEF Extract
  <2>2. pc' \in {"merge", "extract"} /\ tried' \in Nat
    BY <1>2 DEF Extract
  <2> QED
    BY <1>2, <2>1, <2>2 DEF Extract, pastRuns
<1>3. CASE MergeRecords
  BY <1>3 DEF MergeRecords, pastRuns
<1>4. CASE End /\ UNCHANGED <<files, torn, cache>>
  BY <1>4, PipelineAssumption DEF End, Mode
<1>5. CASE NothingToLoad \/ EnrichOnly \/ HandToLoad
  BY <1>4, <1>5 DEF NothingToLoad, EnrichOnly, HandToLoad, pastRuns
<1>6. CASE UseCached
  <2>1. attempted' \in Nat /\ attempted' <= Limit
    BY <1>6, PipelineAssumption DEF UseCached
  <2> QED
    BY <1>6, <2>1 DEF UseCached, pastRuns
<1>7. CASE FetchBinlist
  <2>1. attempted' \in Nat /\ attempted' <= Limit
    BY <1>7, PipelineAssumption DEF FetchBinlist
  <2> QED
    BY <1>7, <2>1 DEF FetchBinlist
<1>8. CASE SafeWriteCache
  BY <1>8 DEF SafeWriteCache, pastRuns
<1>9. CASE WriteFails
  BY <1>9 DEF WriteFails, pastRuns
<1>10. CASE EndEnrichment
  BY <1>10 DEF EndEnrichment, pastRuns
<1>11. CASE Crash
  <2>1. CASE UNCHANGED <<cache, torn>>
    BY <1>4, <1>11, <2>1 DEF Crash
  <2>2. CASE cache' = [b \in AnyBin |-> Unasked] /\ torn' = TRUE
    BY <1>11, <2>2, PipelineAssumption DEF Crash, End, Mode
  <2> QED
    BY <1>11, <2>1, <2>2 DEF Crash
<1>12. CASE UNCHANGED pipelineVars
  BY <1>12 DEF pipelineVars
<1> QED
  BY <1>1, <1>2, <1>3, <1>5, <1>6, <1>7, <1>8, <1>9, <1>10, <1>11, <1>12 DEF PipelineNext

\* Merging: every BIN listed has its merged record and is still to come to.
LEMMA MergeKeeps ==
  ASSUME PipelineTypes, RunUnderWay, MergeRecords
  PROVE  RunUnderWay'
<1>1. /\ \A b, S : ValidRows(b, S)' = ValidRows(b, S)
      /\ \A S : Listed(S)' = Listed(S)
      /\ \A b, S : Base(b, S)' = Base(b, S)
      /\ \A V, S : Segment(V, S)' = Segment(V, S)
  BY SourcesStay DEF MergeRecords
<1>2. read' = read /\ mode' = mode /\ attempted' = 0 /\ pc' \in {"enrich", "load"}
  BY DEF MergeRecords, RunUnderWay
<1>3. remaining' = Listed(read) /\ Done' = {}
  BY <1>1, <1>2 DEF MergeRecords, Done
<1>4. DOMAIN records' = Listed(read)' /\ Segment(Done, read)'
  <2>1. Segment({}, read)
    BY DEF Segment
  <2> QED
    BY <1>1, <1>2, <1>3, <2>1 DEF MergeRecords
<1>5. \A b \in Listed(read), f \in Field :
        f \in ReviewedFields(ValidRows(b, read)) => <<b, f>> \in review'
  BY DEF MergeRecords
<1>6. \A b \in remaining' : records'[b] = Base(b, read)
  BY <1>3 DEF MergeRecords, Base
<1>7. pc' = IF mode = "plain" THEN "load" ELSE "enrich"
  BY DEF MergeRecords
<1>8. Cardinality({}) = 0
  BY FS_EmptySet
<1>9. (\A b \in Listed(read), f \in Field :
        f \in ReviewedFields(ValidRows(b, read)) => <<b, f>> \in review)'
  BY <1>1, <1>2, <1>5
<1>10. (\A b \in remaining : records[b] = Base(b, read))'
  BY <1>1, <1>2, <1>6
<1>11. RecordsSoFar'
  <2>1. (\A b \in Done : cache[b] # Unasked /\ records[b] = Completed(Base(b, read), cache[b]))'
    BY <1>3
  <2>2. (remaining \subseteq Listed(read))'
    BY <1>1, <1>2, <1>3
  <2> QED
    BY <1>4, <1>9, <1>10, <2>1, <2>2 DEF RecordsSoFar
<1> QED
  BY <1>2, <1>3, <1>7, <1>8, <1>11 DEF RunUnderWay

\* Taking an answer for the next BIN.
LEMMA AnswerTaken ==
  ASSUME PipelineTypes, RecordsSoFar, remaining # {},
         NEW data \in Answers \cup {NoData, Failed}, ApplyMissing(NextBin, data),
         remaining' = remaining \ {NextBin}, UNCHANGED <<files, read, review>>,
         NEW kept \in Answers \cup {NoData}, cache' = [cache EXCEPT ![NextBin] = kept],
         kept = IF data = Failed THEN NoData ELSE data
  PROVE  RecordsSoFar' /\ Cardinality(Done)' = Cardinality(Done) + 1
<1> DEFINE n == NextBin
<1>0. read \in SUBSET Source /\ remaining \in SUBSET Listed(read) /\ Segment(Listed(read) \ remaining, read)
  BY DEF PipelineTypes, RecordsSoFar, Done
<1>1. n \in remaining
  BY <1>0, NextBinIsFirst
<1>2. /\ \A b, S : ValidRows(b, S)' = ValidRows(b, S)
      /\ \A S : Listed(S)' = Listed(S)
      /\ \A b, S : Base(b, S)' = Base(b, S)
      /\ \A V, S : Segment(V, S)' = Segment(V, S)
  BY SourcesStay
<1>3. Done' = Listed(read) \ (remaining \ {n}) /\ Done = Listed(read) \ remaining
  BY <1>2 DEF Done
<1>4. Segment(Done', read) /\ Cardinality(Done') = Cardinality(Done) + 1
  BY <1>0, <1>3, SegmentGrows
<1> HIDE DEF n
<1>5. records[n] = Base(n, read) /\ DOMAIN records = Listed(read)
  BY <1>1 DEF RecordsSoFar
<1>6. n \in AnyBin /\ cache \in [AnyBin -> Answers \cup {Unasked, NoData}]
  BY <1>0, <1>1 DEF Listed, PipelineTypes
<1>7. cache'[n] = kept /\ \A b \in AnyBin \ {n} : cache'[b] = cache[b]
  BY <1>6 DEF n
<1>8. kept # Unasked /\ (data \notin {NoData, Failed} => data \notin {NoData, Failed, Unasked})
  BY PipelineAssumption
<1>9. DOMAIN records' = Listed(read) /\ \A b \in Listed(read) \ {n} : records'[b] = records[b]
  BY <1>5 DEF ApplyMissing, n
<1>10. records'[n] = Completed(Base(n, read), kept)
  <2>1. CASE data \in {NoData, Failed}
    BY <1>5, <2>1 DEF ApplyMissing, Completed
  <2>2. CASE data \notin {NoData, Failed}
    <3>1. records'[n] = [f \in Field |->
             IF f \in DOMAIN data /\ records[n][f] = Missing THEN data[f] ELSE records[n][f]]
      BY <1>0, <1>1, <1>5, <2>2 DEF ApplyMissing, n
    <3>2. kept = data
      BY <2>2
    <3> QED
      BY <1>5, <1>8, <2>2, <3>1, <3>2 DEF Completed
  <2> QED
    BY <2>1, <2>2
<1>11. ASSUME NEW b \in Done'
       PROVE  cache'[b] # Unasked /\ records'[b] = Completed(Base(b, read), cache'[b])
  <2>1. CASE b = n
    BY <1>7, <1>8, <1>10, <2>1
  <2>2. CASE b # n
    <3>1. b \in Done /\ b \in Listed(read) /\ b \in AnyBin
      BY <1>3, <2>2 DEF Listed
    <3>2. cache[b] # Unasked /\ records[b] = Completed(Base(b, read), cache[b])
      BY <3>1 DEF RecordsSoFar
    <3>3. cache'[b] = cache[b] /\ records'[b] = records[b]
      BY <1>7, <1>9, <2>2, <3>1
    <3> QED
      BY <3>2, <3>3
  <2> QED
    BY <2>1, <2>2
<1>12. ASSUME NEW b \in remaining' PROVE records'[b] = Base(b, read)
  <2>1. b \in remaining /\ b # n /\ b \in Listed(read)
    BY <1>0 DEF n
  <2> QED
    BY <1>9, <2>1 DEF RecordsSoFar
<1>13. remaining' \subseteq Listed(read)
  BY <1>0
<1>14. (\A b \in Listed(read), f \in Field :
         f \in ReviewedFields(ValidRows(b, read)) => <<b, f>> \in review)'
  BY <1>2 DEF RecordsSoFar
<1>15. (\A b \in Done : cache[b] # Unasked /\ records[b] = Completed(Base(b, read), cache[b]))'
  BY <1>2, <1>11
<1>16. (\A b \in remaining : records[b] = Base(b, read))'
  BY <1>2, <1>12
<1>17. (DOMAIN records = Listed(read) /\ remaining \subseteq Listed(read) /\ Segment(Done, read))'
  BY <1>2, <1>4, <1>9, <1>13
<1> QED
  BY <1>4, <1>14, <1>15, <1>16, <1>17 DEF RecordsSoFar

\* Steps that leave the records and the cache file alone.
LEMMA RecordsStay ==
  ASSUME RecordsSoFar, UNCHANGED <<files, read, review, records, remaining, cache>>
  PROVE  RecordsSoFar' /\ Done' = Done /\ NextBin' = NextBin
<1>1. /\ \A b, S : ValidRows(b, S)' = ValidRows(b, S)
      /\ \A S : Listed(S)' = Listed(S)
      /\ \A b, S : Base(b, S)' = Base(b, S)
      /\ \A V, S : Segment(V, S)' = Segment(V, S)
      /\ NextBin' = NextBin
  BY SourcesStay
<1>2. Done' = Done
  BY <1>1 DEF Done
<1> QED
  BY <1>1, <1>2 DEF RecordsSoFar

\* Each action keeps what is said of the run under way.
LEMMA RunUnderWayStays ==
  ASSUME PipelineTypes, RunUnderWay, [PipelineNext]_pipelineVars
  PROVE  RunUnderWay'
<1>1. CASE StartRun
  BY <1>1, NoRunUnderWay DEF StartRun, RunUnderWay
<1>2. CASE Extract
  <2>1. attempted' = 0 /\ pc' \in {"extract", "merge"}
    BY <1>2 DEF Extract, RunUnderWay
  <2> QED
    BY <2>1 DEF RunUnderWay
<1>3. CASE MergeRecords
  BY <1>3, MergeKeeps
<1>4. CASE End
  BY <1>4 DEF End, RunUnderWay
<1>5. CASE NothingToLoad \/ EnrichOnly \/ HandToLoad \/ Crash
  BY <1>4, <1>5 DEF NothingToLoad, EnrichOnly, HandToLoad, Crash
<1>6. CASE UseCached
  <2>1. RecordsSoFar /\ mode # "plain" /\ Cardinality(Done) = attempted /\ remaining # {}
    BY <1>6 DEF UseCached, RunUnderWay
  <2>2. NextBin \in AnyBin
    BY <2>1, NextBinIsFirst DEF RecordsSoFar, PipelineTypes, Listed
  <2>3. PICK data \in Answers \cup {NoData} : data = cache[NextBin]
    BY <1>6, <2>2 DEF UseCached, PipelineTypes
  <2>4. data # Failed \/ NoData = Failed
    BY PipelineAssumption
  <2>5. cache' = [cache EXCEPT ![NextBin] = data]
    BY <1>6, <2>2, <2>3 DEF UseCached, PipelineTypes
  <2>6. /\ ApplyMissing(NextBin, data) /\ remaining' = remaining \ {NextBin}
        /\ UNCHANGED <<files, read, review>>
    BY <1>6, <2>3 DEF UseCached
  <2>7. RecordsSoFar' /\ Cardinality(Done)' = Cardinality(Done) + 1
    BY <2>1, <2>3, <2>4, <2>5, <2>6, AnswerTaken
  <2> QED
    BY <1>6, <2>1, <2>7 DEF UseCached, RunUnderWay
<1>7. CASE FetchBinlist
  <2>1. RecordsSoFar /\ mode # "plain" /\ Cardinality(Done) = attempted /\ remaining # {}
    BY <1>7 DEF FetchBinlist, RunUnderWay
  <2>2. RecordsSoFar' /\ Done' = Done /\ NextBin' = NextBin
    BY <1>7, <2>1, RecordsStay DEF FetchBinlist
  <2> QED
    BY <1>7, <2>1, <2>2 DEF FetchBinlist, RunUnderWay
<1>8. CASE SafeWriteCache
  <2>1. RecordsSoFar /\ mode # "plain" /\ Cardinality(Done) + 1 = attempted /\ remaining # {}
    BY <1>8 DEF SafeWriteCache, RunUnderWay
  <2>2. PICK kept \in Answers \cup {NoData} : kept = IF answer = Failed THEN NoData ELSE answer
    BY DEF PipelineTypes
  <2>3. /\ ApplyMissing(NextBin, answer) /\ remaining' = remaining \ {NextBin}
        /\ UNCHANGED <<files, read, review>>
        /\ cache' = [cache EXCEPT ![NextBin] = kept]
    BY <1>8, <2>2 DEF SafeWriteCache
  <2>4. RecordsSoFar' /\ Cardinality(Done)' = Cardinality(Done) + 1
    BY <2>1, <2>2, <2>3, AnswerTaken DEF PipelineTypes
  <2> QED
    BY <1>8, <2>1, <2>4 DEF SafeWriteCache, RunUnderWay
<1>9. CASE WriteFails
  <2>1. RecordsSoFar /\ mode # "plain" /\ Cardinality(Done) + 1 = attempted /\ remaining # {} /\ cache[NextBin] = Unasked
    BY <1>9 DEF WriteFails, RunUnderWay
  <2>2. RecordsSoFar' /\ Done' = Done /\ NextBin' = NextBin
    BY <1>9, <2>1, RecordsStay DEF WriteFails
  <2> QED
    BY <1>9, <2>1, <2>2 DEF WriteFails, RunUnderWay
<1>10. CASE EndEnrichment
  <2>1. RecordsSoFar /\ mode = "enrich" /\ Cardinality(Done) = attempted
        /\ (remaining = {} \/ attempted = Limit)
    BY <1>10 DEF EndEnrichment, EnrichmentIsOver, RunUnderWay
  <2>2. RecordsSoFar' /\ Done' = Done /\ NextBin' = NextBin
    BY <1>10, <2>1, RecordsStay DEF EndEnrichment
  <2>3. Whole(Done, read)
    BY <2>1 DEF Whole, Done, PipelineTypes
  <2>4. Whole(Done, read)'
    BY <1>10, <2>2, <2>3, SourcesStay DEF EndEnrichment
  <2> QED
    BY <1>10, <2>1, <2>2, <2>4 DEF EndEnrichment, RunUnderWay
<1>11. CASE UNCHANGED pipelineVars
  <2>1. RecordsSoFar => RecordsSoFar'
    BY <1>11, RecordsStay DEF pipelineVars
  <2>2. Done' = Done /\ Whole(Done, read)' = Whole(Done, read) /\ NextBin' = NextBin
    BY <1>11, SourcesStay DEF pipelineVars, Done
  <2> QED
    BY <1>11, <2>1, <2>2 DEF pipelineVars, RunUnderWay
<1> QED
  BY <1>1, <1>2, <1>3, <1>5, <1>6, <1>7, <1>8, <1>9, <1>10, <1>11 DEF PipelineNext

\* Handing the records over: they are what the next run is compared with.
LEMMA LoadedIsTold ==
  ASSUME PipelineTypes, RunUnderWay, HandToLoad
  PROVE  RunBefore'
<1>1. /\ last'.read = read /\ last'.mode = mode /\ last'.records = records
      /\ UNCHANGED <<files, cache>> /\ pc = "load"
  BY DEF HandToLoad
<1>2. RecordsSoFar /\ IF mode = "plain" THEN Done = {} ELSE Whole(Done, read)
  BY <1>1 DEF RunUnderWay
<1> DEFINE l == last'  V == Done
<1>3. /\ V \in SUBSET Listed(l.read) /\ Segment(V, l.read)
      /\ IF l.mode = "plain" THEN V = {} ELSE Whole(V, l.read)
      /\ \A b \in V : cache'[b] # Unasked
      /\ \A b \in Listed(l.read) :
           l.records[b] = IF b \in V THEN Completed(Base(b, l.read), cache'[b])
                          ELSE Base(b, l.read)
  BY <1>1, <1>2 DEF RecordsSoFar, Done
<1>4. l.read \in SUBSET Source /\ DOMAIN l.records = Listed(l.read)
  BY <1>1, <1>2 DEF RecordsSoFar, PipelineTypes
<1> HIDE DEF V
<1>5. /\ \A S : Listed(S)' = Listed(S)
      /\ \A b, S : Base(b, S)' = Base(b, S)
      /\ \A W, S : Segment(W, S)' = Segment(W, S)
      /\ \A W, S : Whole(W, S)' = Whole(W, S)
  BY <1>1, SourcesStay
<1> QED
  BY <1>3, <1>4, <1>5 DEF RunBefore

LEMMA RunBeforeKept ==
  ASSUME PipelineTypes, RunUnderWay, RunBefore, [PipelineNext]_pipelineVars
  PROVE  RunBefore'
<1>1. CASE UNCHANGED <<files, cache, torn, last>>
  BY <1>1, RunBeforeStays
<1>2. CASE HandToLoad
  BY <1>2, LoadedIsTold
<1>3. CASE SafeWriteCache
  <2>1. RecordsSoFar /\ remaining # {} /\ cache[NextBin] = Unasked
    BY <1>3 DEF SafeWriteCache, RunUnderWay
  <2> QED
    BY <1>3, <2>1, RunBeforeStays DEF SafeWriteCache, pastRuns, PipelineTypes
<1>4. CASE Crash
  <2>1. CASE UNCHANGED <<cache, torn>>
    BY <1>1, <1>4, <2>1 DEF Crash
  <2>2. CASE torn' = TRUE
    BY <2>2 DEF RunBefore
  <2> QED
    BY <1>4, <2>1, <2>2 DEF Crash
<1>5. CASE StartRun \/ Extract \/ MergeRecords \/ NothingToLoad \/ UseCached \/ FetchBinlist
             \/ WriteFails \/ EndEnrichment \/ EnrichOnly \/ UNCHANGED pipelineVars
  BY <1>1, <1>5 DEF StartRun, Extract, MergeRecords, NothingToLoad, UseCached, FetchBinlist,
       WriteFails, EndEnrichment, EnrichOnly, pipelineVars, pastRuns
<1> QED
  BY <1>2, <1>3, <1>4, <1>5 DEF PipelineNext

\* The invariant of the pipeline.
THEOREM PipelineInvariant == PipelineSpec => []PipelineInv
<1>1. PipelineInit => PipelineInv
  BY PipelineStart
<1>2. PipelineInv /\ [PipelineNext]_pipelineVars => PipelineInv'
  BY PipelineTyping, RunUnderWayStays, RunBeforeKept DEF PipelineInv
<1> QED
  BY <1>1, <1>2, PTL DEF PipelineSpec

\* The rows of a BIN that is listed.
LEMMA RowsOfListed ==
  ASSUME NEW S \in SUBSET Source, NEW b \in Listed(S), OnePerSource(ValidRows(b, S))
  PROVE  Rows(ValidRows(b, S))
BY DEF Rows, Listed, RowsOf, ValidRows

LEMMA ReviewedInInv == PipelineInv => DisagreementIsReviewed
<1> SUFFICES ASSUME PipelineInv, pc = "load", NEW b \in DOMAIN records,
                    OnePerSource(ValidRows(b, read)), NEW f \in Field,
                    NEW r \in ValidRows(b, read), NEW q \in ValidRows(b, read),
                    Missing # r.record[f], r.record[f] # q.record[f], q.record[f] # Missing
             PROVE  <<b, f>> \in review
  BY DEF DisagreementIsReviewed
<1> DEFINE given == ValidRows(b, read)
<1>1. RecordsSoFar /\ read \in SUBSET Source
  BY DEF PipelineInv, RunUnderWay, PipelineTypes
<1>2. b \in Listed(read)
  BY <1>1 DEF RecordsSoFar
<1>3. Rows(given)
  BY <1>1, <1>2, RowsOfListed
<1>4. r \in given /\ q \in given
  OBVIOUS
<1> HIDE DEF given
<1>5. RequiresManualReview(given, f)
  BY <1>3, <1>4, DisagreementNeedsReview
<1>6. InConflict(given, f)
  BY <1>4 DEF InConflict
<1>7. f \in ReviewedFields(given)
  BY <1>5, <1>6 DEF ReviewedFields
<1> QED
  BY <1>1, <1>2, <1>7 DEF RecordsSoFar, given

\* No disagreement of two sources is ever loaded without being in the queue for
\* manual review, whatever the sources list and whichever of them are read.
THEOREM DisagreementsAreReviewed == PipelineSpec => []DisagreementIsReviewed
BY PipelineInvariant, ReviewedInInv, PTL

LEMMA MajorityInInv == PipelineInv => MajorityOutvotes
<1> SUFFICES ASSUME PipelineInv, pc = "load", NEW b \in DOMAIN records,
                    OnePerSource(ValidRows(b, read)),
                    \A s \in Source : \E r \in ValidRows(b, read) : r.source = s,
                    NEW f \in Field, \A r \in ValidRows(b, read) : r.record[f] # Missing,
                    NEW r \in ValidRows(b, read), NEW q \in ValidRows(b, read), r # q,
                    r.record[f] = q.record[f]
             PROVE  records[b][f] = r.record[f]
  BY DEF MajorityOutvotes
<1> DEFINE given == ValidRows(b, read)
<1>1. RecordsSoFar /\ read \in SUBSET Source
  BY DEF PipelineInv, RunUnderWay, PipelineTypes
<1>2. b \in Listed(read)
  BY <1>1 DEF RecordsSoFar
<1>3. Rows(given)
  BY <1>1, <1>2, RowsOfListed
<1>4. /\ r \in given /\ q \in given /\ r # q /\ r.record[f] = q.record[f]
      /\ \A a \in given : a.record[f] # Missing
      /\ \A s \in Source : \E a \in given : a.source = s
  OBVIOUS
<1> HIDE DEF given
<1>5. Cardinality(given) = 3
  <2>1. PICK s \in Source : s # r.source /\ s # q.source
    BY DEF Source
  <2>2. PICK a \in given : a # r /\ a # q
    BY <1>4, <2>1
  <2> QED
    BY <1>3, <1>4, <2>2, TwoRowsOrThree DEF Rows
<1>6. MergeRecordList(given)[f] = r.record[f]
  BY <1>3, <1>4, <1>5, MajorityIsMerged
<1>7. Base(b, read)[f] = r.record[f] /\ r.record[f] # Missing
  BY <1>4, <1>6 DEF Base, given
<1>8. records[b] = Base(b, read) \/ records[b] = Completed(Base(b, read), cache[b])
  BY <1>1, <1>2 DEF RecordsSoFar, Done
<1> QED
  BY <1>7, <1>8 DEF Completed

\* Two sources that agree always outvote the third.
THEOREM MajoritiesOutvote == PipelineSpec => []MajorityOutvotes
BY PipelineInvariant, MajorityInInv, PTL

\* Two runs in a row over the same sources.
LEMMA LaterRunStep ==
  ASSUME PipelineInv, [PipelineNext]_pipelineVars,
         last' # last, ~torn, last'.read = last.read,
         last.mode = "plain" \/ last'.mode = "enrich",
         NEW b \in DOMAIN last.records, NEW f \in Field, last.records[b][f] # Missing
  PROVE  last'.records[b][f] = last.records[b][f]
<1>1. HandToLoad
  BY DEF PipelineNext, pipelineVars, pastRuns, StartRun, Extract, MergeRecords, NothingToLoad, UseCached,
         FetchBinlist, SafeWriteCache, WriteFails, EndEnrichment, EnrichOnly, Crash
<1>2. last'.read = read /\ last'.mode = mode /\ last'.records = records /\ pc = "load"
  BY <1>1 DEF HandToLoad
<1>3. RecordsSoFar /\ IF mode = "plain" THEN Done = {} ELSE Whole(Done, read)
  BY <1>2 DEF PipelineInv, RunUnderWay
<1>4. /\ read \in SUBSET Source
      /\ DOMAIN last.records = Listed(read)
      /\ \E V \in SUBSET Listed(read) :
           /\ Segment(V, read)
           /\ IF last.mode = "plain" THEN V = {} ELSE Whole(V, read)
           /\ \A c \in Listed(read) :
                last.records[c] = IF c \in V THEN Completed(Base(c, read), cache[c])
                                  ELSE Base(c, read)
  BY <1>2 DEF PipelineInv, RunBefore
<1>5. PICK V \in SUBSET Listed(read) :
        /\ Segment(V, read)
        /\ IF last.mode = "plain" THEN V = {} ELSE Whole(V, read)
        /\ last.records[b] = IF b \in V THEN Completed(Base(b, read), cache[b]) ELSE Base(b, read)
  BY <1>4
<1>6. records[b] = IF b \in Done THEN Completed(Base(b, read), cache[b]) ELSE Base(b, read)
  BY <1>3, <1>4 DEF RecordsSoFar, Done
<1>7. CASE last.mode = "plain"
  <2>1. last.records[b] = Base(b, read)
    BY <1>5, <1>7
  <2> QED
    BY <1>2, <1>6, <2>1 DEF Completed
<1>8. CASE last.mode # "plain"
  <2>1. Whole(V, read) /\ Whole(Done, read) /\ Segment(V, read) /\ Segment(Done, read)
    BY <1>2, <1>3, <1>5, <1>8 DEF RecordsSoFar
  <2>2. V = Done
    BY <1>4, <2>1, SegmentsAgree
  <2> QED
    BY <1>2, <1>5, <1>6, <2>2
<1> QED
  BY <1>7, <1>8

\* A later run never takes back what an earlier one loaded from the same
\* sources, for every limit, every answer and any number of runs and crashes.
THEOREM LaterRunsKeep == PipelineSpec => LaterRunKeeps
<1>1. PipelineInv /\ [PipelineNext]_pipelineVars =>
        [last' # last /\ ~torn /\ last'.read = last.read
           /\ (last.mode = "plain" \/ last'.mode = "enrich") =>
         \A b \in DOMAIN last.records, f \in Field :
           last.records[b][f] # Missing => last'.records[b][f] = last.records[b][f]]_pipelineVars
  BY LaterRunStep
<1> QED
  BY <1>1, PipelineInvariant, PTL DEF PipelineSpec, LaterRunKeeps

-----------------------------------------------------------------------------
(* Data quality: a trend compares points of the history with later ones, each *)
(* of which says what the table was like on its day.                          *)

QualitySpec == QualityInit /\ [][QualityNext]_qualityVars

Items(q) == {q[i] : i \in DOMAIN q}
IsList(q) == q \in Seq(Items(q))

\* A point tells of the table on its day.
Tells(p) ==
  /\ p.date \in Nat /\ p.date <= now
  /\ \E full \in BOOLEAN : p.metrics = calculateOverallQuality(full) /\ <<p.date, full>> \in seen

IsHistory(q) ==
  /\ IsList(q) /\ \A i \in DOMAIN q : Tells(q[i])
  /\ \A i, j \in DOMAIN q : i <= j => q[i].date <= q[j].date

\* The state of the calculator, without what an response says.
Kept ==
  /\ now \in Nat /\ filled \in BOOLEAN /\ <<now, filled>> \in seen
  /\ IsHistory(history)
  /\ requests = [r \in Request |-> requests[r]]
  /\ \A r \in Request : requests[r] # NoMetrics =>
       \E full \in BOOLEAN : /\ requests[r].metrics = calculateOverallQuality(full)
                             /\ <<now, full>> \in seen

QualityInv == Kept /\ TrendIsNotInvented

LEMMA ListIs ==
  ASSUME NEW q, IsList(q)
  PROVE  /\ Len(q) \in Nat /\ DOMAIN q = 1..Len(q) /\ q = [i \in 1..Len(q) |-> q[i]]
BY DEF IsList

LEMMA ListMade ==
  ASSUME NEW n \in Nat, NEW q, q = [i \in 1..n |-> q[i]]
  PROVE  IsList(q) /\ Len(q) = n /\ DOMAIN q = 1..n
<1>1. DOMAIN q = 1..n
  OBVIOUS
<1>2. \A i \in 1..n : q[i] \in Items(q)
  BY <1>1 DEF Items
<1>3. q \in [1..n -> Items(q)]
  BY <1>1, <1>2
<1>4. q \in Seq(Items(q))
  BY <1>3
<1> QED
  BY <1>1, <1>4 DEF IsList

LEMMA OneMore ==
  ASSUME NEW q, IsList(q), NEW x
  PROVE  /\ Append(q, x) = q \o <<x>> /\ q \o <<>> = q
         /\ IsList(q \o <<x>>) /\ Len(q \o <<x>>) = Len(q) + 1
         /\ \A i \in 1..(Len(q) + 1) : (q \o <<x>>)[i] = IF i <= Len(q) THEN q[i] ELSE x
<1> DEFINE S == Items(q) \cup {x}
<1>1. PICK n \in Nat : n = Len(q)
  BY ListIs
<1>2. q \in Seq(S)
  <2>1. \A i \in 1..n : q[i] \in S
    BY ListIs, <1>1 DEF Items
  <2> HIDE DEF S
  <2>2. q \in [1..n -> S]
    BY ListIs, <1>1, <2>1
  <2> QED
    BY <2>2
<1>3. x \in S
  OBVIOUS
<1> HIDE DEF S
<1>4. <<x>> \in Seq(S) /\ Len(<<x>>) = 1 /\ <<x>>[1] = x
  BY <1>3
<1>5. q \o <<x>> \in Seq(S) /\ Len(q \o <<x>>) = n + 1
  BY <1>1, <1>2, <1>4
<1>6. \A i \in 1..(n + 1) : (q \o <<x>>)[i] = IF i <= n THEN q[i] ELSE x
  BY <1>1, <1>2, <1>4
<1>7. q \o <<x>> = [i \in 1..(n + 1) |-> (q \o <<x>>)[i]] /\ n + 1 \in Nat
  BY <1>5
<1>8. IsList(q \o <<x>>)
  BY <1>7, ListMade
<1>9. Append(q, x) = q \o <<x>> /\ q \o <<>> = q
  BY <1>2, <1>3
<1> QED
  BY <1>1, <1>5, <1>6, <1>8, <1>9

LEMMA NoPoints == IsList(<<>>) /\ Len(<<>>) = 0 /\ DOMAIN <<>> = {}
<1>1. <<>> \in Seq(Items(<<>>))
  OBVIOUS
<1> QED
  BY <1>1 DEF IsList

\* A point that is not older than those of a history makes it longer.
LEMMA LongerHistory ==
  ASSUME NEW x, IsHistory(x), NEW p, Tells(p), \A i \in DOMAIN x : x[i].date <= p.date
  PROVE  /\ IsHistory(x \o <<p>>)
         /\ \A i \in DOMAIN (x \o <<p>>) : (i \in DOMAIN x /\ (x \o <<p>>)[i] = x[i]) \/ (x \o <<p>>)[i] = p
<1>1. PICK n \in Nat : n = Len(x) /\ DOMAIN x = 1..n
  BY ListIs DEF IsHistory
<1> DEFINE y == x \o <<p>>
<1>2. IsList(y) /\ Len(y) = n + 1 /\ \A i \in 1..(n + 1) : y[i] = IF i <= n THEN x[i] ELSE p
  BY <1>1, OneMore DEF IsHistory
<1> HIDE DEF y
<1>3. DOMAIN y = 1..(n + 1)
  BY <1>2, ListIs
<1>4. \A i \in DOMAIN y : (i \in DOMAIN x /\ y[i] = x[i]) \/ (i = n + 1 /\ y[i] = p)
  <2> TAKE i \in DOMAIN y
  <2>1. i \in 1..(n + 1)
    BY ONLY <1>3
  <2>2. y[i] = IF i <= n THEN x[i] ELSE p
    BY ONLY <1>2, <2>1
  <2>3. CASE i <= n
    <3>1. i \in 1..n
      BY <2>1, <2>3
    <3>2. y[i] = x[i]
      BY ONLY <2>2, <2>3
    <3>3. i \in DOMAIN x
      BY ONLY <1>1, <3>1
    <3> QED
      BY ONLY <3>2, <3>3
  <2>4. CASE ~(i <= n)
    <3>1. i = n + 1
      BY <2>1, <2>4
    <3> QED
      BY ONLY <2>2, <2>4, <3>1
  <2> QED
    BY ONLY <2>3, <2>4
<1>5. \A i \in DOMAIN y : Tells(y[i])
  BY <1>4 DEF IsHistory
<1>6. \A i, j \in DOMAIN y : i <= j => y[i].date <= y[j].date
  <2> SUFFICES ASSUME NEW i \in DOMAIN y, NEW j \in DOMAIN y, i <= j PROVE y[i].date <= y[j].date
    OBVIOUS
  <2>1. CASE j = n + 1 /\ y[j] = p
    <3>1. p.date <= p.date
      BY DEF Tells
    <3> QED
      BY <1>4, <2>1, <3>1
  <2>2. CASE j \in DOMAIN x /\ y[j] = x[j]
    <3>1. i \in DOMAIN x /\ y[i] = x[i]
      BY <1>1, <1>3, <1>4, <2>2
    <3> QED
      BY <2>2, <3>1 DEF IsHistory
  <2> QED
    BY <1>4, <2>1, <2>2
<1>7. IsHistory(y)
  BY <1>2, <1>5, <1>6 DEF IsHistory
<1> QED
  BY <1>4, <1>7 DEF y

\* A function on the numbers up to m that is defined by its value before.
Computes(g, m, D, first, next) ==
  g \in [0..m -> D] /\ g[0] = first /\ \A j \in 1..m : g[j] = next[j][g[j - 1]]

LEMMA RecursionIsThere ==
  ASSUME NEW m \in Nat, NEW D, NEW first, NEW next, first \in D, next \in [1..m -> [D -> D]]
  PROVE  \E g : Computes(g, m, D, first, next)
<1> DEFINE Follows(g, k) == g[0] = first /\ \A j \in 1..k : g[j] = next[j][g[j - 1]]
           N == {k \in Nat : k <= m => \E g \in [0..k -> D] : Follows(g, k)}
<1>1. 0 \in N
  <2> DEFINE g == [j \in 0..0 |-> first]
  <2>1. g \in [0..0 -> D] /\ g[0] = first /\ 1..0 = {}
    OBVIOUS
  <2> HIDE DEF g
  <2> QED
    BY <2>1
<1>2. ASSUME NEW k \in Nat, k \in N PROVE k + 1 \in N
  <2> SUFFICES ASSUME k + 1 <= m PROVE \E g \in [0..(k + 1) -> D] : Follows(g, k + 1)
    OBVIOUS
  <2>1. PICK g \in [0..k -> D] : Follows(g, k)
    BY <1>2
  <2> DEFINE h == [j \in 0..(k + 1) |-> IF j = k + 1 THEN next[k + 1][g[k]] ELSE g[j]]
  <2>2. next[k + 1] \in [D -> D] /\ g[k] \in D
    OBVIOUS
  <2>3. next[k + 1][g[k]] \in D
    BY <2>2
  <2>4. h \in [0..(k + 1) -> D]
    BY <2>3
  <2>5. h[k + 1] = next[k + 1][g[k]] /\ \A j \in 0..k : h[j] = g[j]
    OBVIOUS
  <2> HIDE DEF h
  <2>6. Follows(h, k + 1)
    <3>1. h[0] = first
      BY <2>1, <2>5
    <3>2. \A j \in 1..(k + 1) : h[j] = next[j][h[j - 1]]
      <4> TAKE j \in 1..(k + 1)
      <4>1. CASE j = k + 1
        BY <2>5, <4>1
      <4>2. CASE j # k + 1
        <5>1. j \in 1..k /\ j \in 0..k /\ j - 1 \in 0..k
          BY <4>2
        <5>2. g[j] = next[j][g[j - 1]]
          BY <2>1, <5>1
        <5> QED
          BY <2>5, <5>1, <5>2
      <4> QED
        BY <4>1, <4>2
    <3> QED
      BY <3>1, <3>2
  <2> HIDE DEF Follows
  <2> QED
    BY <2>4, <2>6
<1>3. m \in N
  <2> HIDE DEF N
  <2> QED
    BY <1>1, <1>2, NumberInduction
<1> QED
  BY <1>3 DEF Computes

-----------------------------------------------------------------------------
\* The points of a period are points of the history, in its order, and not
\* older than the period.
LEMMA WithinIsHistory ==
  ASSUME NEW points, IsHistory(points), NEW period
  PROVE  /\ IsHistory(Within(points, period))
         /\ \A i \in DOMAIN Within(points, period) :
              Within(points, period)[i].date >= now - Days[period]
<1>1. PICK m \in Nat : m = Len(points) /\ DOMAIN points = 1..m
  BY ListIs DEF IsHistory
<1> DEFINE D == Seq(Items(points))
           In(j) == points[j].date >= now - Days[period]
           more(x, j) == x \o (IF points[j].date >= now - Days[period] THEN <<points[j]>> ELSE <<>>)
           next == [j \in 1..m |-> [x \in D |-> more(x, j)]]
           Eq(g) == g = [i \in 0..m |-> IF i = 0 THEN <<>> ELSE more(g[i - 1], i)]
           upTo == CHOOSE g : Eq(g)
<1>2. \A x \in D, j \in 1..m : more(x, j) \in D
  <2> TAKE x \in D, j \in 1..m
  <2>1. points[j] \in Items(points)
    BY <1>1 DEF Items
  <2> HIDE DEF D
  <2>2. x \o <<points[j]>> \in D /\ x \o <<>> \in D
    BY <2>1 DEF D
  <2> QED
    BY <2>2
<1>3. \E g : Eq(g)
  <2>1. next \in [1..m -> [D -> D]] /\ <<>> \in D
    <3> HIDE DEF more
    <3>1. <<>> \in D
      OBVIOUS
    <3> HIDE DEF D
    <3> QED
      BY <1>2, <3>1
  <2>2. \A j \in 1..m, x \in D : next[j][x] = more(x, j)
    BY DEF D
  <2> HIDE DEF next, more, D
  <2>7. \E g : Computes(g, m, D, <<>>, next)
    BY <2>1, RecursionIsThere
  <2>3. PICK g \in [0..m -> D] : g[0] = <<>> /\ \A j \in 1..m : g[j] = next[j][g[j - 1]]
    BY <2>7 DEF Computes
  <2>4. \A j \in 0..m : g[j] = IF j = 0 THEN <<>> ELSE more(g[j - 1], j)
    <3> TAKE j \in 0..m
    <3>1. CASE j = 0
      BY <2>3, <3>1
    <3>2. CASE j # 0
      <4>1. j \in 1..m /\ j - 1 \in 0..m
        BY <3>2
      <4> QED
        BY <2>2, <2>3, <3>2, <4>1
    <3> QED
      BY <3>1, <3>2
  <2>5. g = [j \in 0..m |-> g[j]]
    OBVIOUS
  <2>6. [j \in 0..m |-> g[j]] = [i \in 0..m |-> IF i = 0 THEN <<>> ELSE more(g[i - 1], i)]
    BY <2>4
  <2> QED
    BY <2>5, <2>6
<1>4. Eq(upTo)
  <2> HIDE DEF Eq
  <2> QED
    BY <1>3
<1>5. Within(points, period) = upTo[m]
  BY <1>1 DEF Within
<1> HIDE DEF upTo, next, D
<1>6. upTo[0] = <<>> /\ \A j \in 1..m : upTo[j] = more(upTo[j - 1], j)
  <2> HIDE DEF more
  <2>1. \A j \in 0..m : upTo[j] = IF j = 0 THEN <<>> ELSE more(upTo[j - 1], j)
    BY <1>4
  <2> QED
    BY <2>1
<1> DEFINE Good(k) == /\ IsHistory(upTo[k])
                      /\ \A i \in DOMAIN upTo[k] : /\ upTo[k][i].date >= now - Days[period]
                                                   /\ k > 0 /\ upTo[k][i].date <= points[k].date
           N == {k \in Nat : k <= m => Good(k)}
<1>7. 0 \in N
  <2>1. Good(0)
    BY <1>6, NoPoints DEF IsHistory
  <2> HIDE DEF Good
  <2> QED
    BY <2>1
<1>8. ASSUME NEW k \in Nat, k + 1 <= m, Good(k) PROVE Good(k + 1)
  <2> DEFINE x == upTo[k]  p == points[k + 1]
  <2>1. k + 1 \in 1..m /\ (k + 1) - 1 = k
    BY <1>8
  <2>2. Tells(p)
    BY <1>1, <2>1 DEF IsHistory
  <2>3. IsHistory(x) /\ \A i \in DOMAIN x : x[i].date >= now - Days[period] /\ k > 0 /\ x[i].date <= points[k].date
    BY <1>8
  <2>4. \A i \in DOMAIN x : x[i].date <= p.date
    <3> TAKE i \in DOMAIN x
    <3>1. k \in 1..m /\ k <= k + 1
      BY <1>8, <2>3
    <3>2. points[k].date <= p.date
      BY <1>1, <2>1, <3>1 DEF IsHistory
    <3>3. x[i].date \in Nat /\ points[k].date \in Nat /\ p.date \in Nat
      BY <1>1, <2>2, <2>3, <3>1 DEF IsHistory, Tells
    <3> QED
      BY <2>3, <3>2, <3>3
  <2>5. upTo[k + 1] = IF p.date >= now - Days[period] THEN x \o <<p>> ELSE x \o <<>>
    <3> HIDE DEF more
    <3>1. upTo[k + 1] = more(upTo[k], k + 1)
      BY ONLY <1>6, <2>1
    <3> QED
      BY <3>1 DEF more
  <2>7. IsList(x)
    BY <2>3 DEF IsHistory
  <2> HIDE DEF x, p, more
  <2>8. CASE ~(p.date >= now - Days[period])
    <3>1. upTo[k + 1] = x
      BY <2>5, <2>7, <2>8, OneMore
    <3>2. k + 1 > 0
      OBVIOUS
    <3> QED
      BY <2>3, <2>4, <3>1, <3>2 DEF p
  <2>9. CASE p.date >= now - Days[period]
    <3> DEFINE y == x \o <<p>>
    <3>1. upTo[k + 1] = y
      BY <2>5, <2>9
    <3>2. /\ IsHistory(y)
          /\ \A i \in DOMAIN y : (i \in DOMAIN x /\ y[i] = x[i]) \/ y[i] = p
      BY <2>2, <2>3, <2>4, LongerHistory
    <3> HIDE DEF y
    <3>3. \A i \in DOMAIN y : y[i].date >= now - Days[period] /\ y[i].date <= p.date
      <4>1. p.date <= p.date
        BY <2>2 DEF Tells
      <4> QED
        BY <2>3, <2>4, <2>9, <3>2, <4>1
    <3>4. k + 1 > 0
      OBVIOUS
    <3> QED
      BY <3>1, <3>2, <3>3, <3>4 DEF p
  <2> QED
    BY <2>8, <2>9
<1>9. m \in N
  <2>1. \A k \in Nat : k \in N => k + 1 \in N
    <3> SUFFICES ASSUME NEW k \in Nat, k \in N PROVE k + 1 \in N
      OBVIOUS
    <3>1. k + 1 <= m => Good(k + 1)
      BY <1>8
    <3> HIDE DEF Good
    <3> QED
      BY <3>1
  <2> HIDE DEF N
  <2> QED
    BY <1>7, <2>1, NumberInduction
<1>10. Good(m)
  <2> HIDE DEF Good
  <2> QED
    BY <1>9
<1> QED
  BY <1>5, <1>10

-----------------------------------------------------------------------------
\* What lies between two bounds in every point adds up to as many times these.
LEMMA TotalIsBetween ==
  ASSUME NEW q, IsList(q), NEW m, NEW lo \in Nat, NEW hi \in Nat,
         \A i \in DOMAIN q : q[i].metrics[m] \in Nat /\ lo <= q[i].metrics[m] /\ q[i].metrics[m] <= hi
  PROVE  /\ Total(q, m) \in Nat
         /\ lo * Len(q) <= Total(q, m) /\ Total(q, m) <= hi * Len(q)
<1>1. PICK n \in Nat : n = Len(q) /\ DOMAIN q = 1..n
  BY ListIs
<1> DEFINE next == [j \in 1..n |-> [x \in Nat |-> x + q[j].metrics[m]]]
           Eq(g) == g = [i \in 0..n |-> IF i = 0 THEN 0 ELSE g[i - 1] + q[i].metrics[m]]
           upTo == CHOOSE g : Eq(g)
<1>2. \A j \in 1..n : q[j].metrics[m] \in Nat /\ lo <= q[j].metrics[m] /\ q[j].metrics[m] <= hi
  BY <1>1
<1>3. \E g : Eq(g)
  <2>1. next \in [1..n -> [Nat -> Nat]] /\ 0 \in Nat
    BY <1>2
  <2>2. \A j \in 1..n, x \in Nat : next[j][x] = x + q[j].metrics[m]
    OBVIOUS
  <2> HIDE DEF next
  <2>7. \E g : Computes(g, n, Nat, 0, next)
    BY <2>1, RecursionIsThere
  <2>3. PICK g \in [0..n -> Nat] : g[0] = 0 /\ \A j \in 1..n : g[j] = next[j][g[j - 1]]
    BY <2>7 DEF Computes
  <2>4. \A j \in 0..n : g[j] = IF j = 0 THEN 0 ELSE g[j - 1] + q[j].metrics[m]
    <3> TAKE j \in 0..n
    <3>1. CASE j = 0
      BY ONLY <2>3, <3>1
    <3>2. CASE j # 0
      <4>1. j \in 1..n /\ j - 1 \in 0..n
        BY ONLY <1>1, j \in 0..n, <3>2
      <4>2. g[j] = next[j][g[j - 1]] /\ g[j - 1] \in Nat
        BY ONLY <2>3, <4>1
      <4> QED
        BY ONLY <2>2, <3>2, <4>1, <4>2
    <3> QED
      BY ONLY <3>1, <3>2
  <2>5. g = [j \in 0..n |-> g[j]]
    BY ONLY g \in [0..n -> Nat]
  <2>6. [j \in 0..n |-> g[j]] = [i \in 0..n |-> IF i = 0 THEN 0 ELSE g[i - 1] + q[i].metrics[m]]
    BY ONLY <2>4
  <2> QED
    BY <2>5, <2>6
<1>4. Eq(upTo)
  <2> HIDE DEF Eq
  <2> QED
    BY <1>3
<1>5. Total(q, m) = upTo[n]
  BY <1>1 DEF Total
<1> HIDE DEF upTo, next
<1>6. upTo[0] = 0 /\ \A j \in 1..n : upTo[j] = upTo[j - 1] + q[j].metrics[m]
  <2>1. \A j \in 0..n : upTo[j] = IF j = 0 THEN 0 ELSE upTo[j - 1] + q[j].metrics[m]
    BY ONLY <1>4
  <2> QED
    BY ONLY <1>1, <2>1
<1> DEFINE Good(k) == upTo[k] \in Nat /\ lo * k <= upTo[k] /\ upTo[k] <= hi * k
           N == {k \in Nat : k <= n => Good(k)}
<1>7. 0 \in N
  BY <1>6
<1>8. ASSUME NEW k \in Nat, k + 1 <= n, Good(k) PROVE Good(k + 1)
  <2>1. k + 1 \in 1..n /\ (k + 1) - 1 = k
    BY ONLY <1>1, <1>8
  <2>2. PICK x : x = q[k + 1].metrics[m]
    OBVIOUS
  <2>3. x \in Nat /\ lo <= x /\ x <= hi
    BY ONLY <1>2, <2>1, <2>2
  <2>4. upTo[k + 1] = upTo[k] + x
    BY ONLY <1>6, <2>1, <2>2
  <2>5. lo * (k + 1) = lo * k + lo /\ hi * (k + 1) = hi * k + hi
    BY ONLY lo \in Nat, hi \in Nat, k \in Nat
  <2>6. lo * k \in Nat /\ hi * k \in Nat
    BY ONLY lo \in Nat, hi \in Nat, k \in Nat
  <2> QED
    BY ONLY <1>8, lo \in Nat, hi \in Nat, <2>3, <2>4, <2>5, <2>6
<1>9. n \in N
  <2>1. \A k \in Nat : k \in N => k + 1 \in N
    <3> SUFFICES ASSUME NEW k \in Nat, k \in N PROVE k + 1 \in N
      OBVIOUS
    <3>1. k + 1 <= n => Good(k + 1)
      BY <1>8
    <3> HIDE DEF Good
    <3> QED
      BY <3>1
  <2> HIDE DEF N
  <2> QED
    BY <1>7, <2>1, NumberInduction
<1> QED
  BY <1>1, <1>5, <1>9

LEMMA PartOfList ==
  ASSUME NEW q, IsList(q), NEW from \in Nat \ {0}, NEW to \in Nat, from <= to + 1, to <= Len(q)
  PROVE  LET p == SubSeq(q, from, to)
         IN  /\ IsList(p) /\ Len(p) = to + 1 - from
             /\ \A i \in DOMAIN p : i + from - 1 \in from..to /\ i + from - 1 \in DOMAIN q /\ p[i] = q[i + from - 1]
<1>1. PICK n \in Nat : n = Len(q) /\ DOMAIN q = 1..n
  BY ListIs
<1> DEFINE p == SubSeq(q, from, to)
           k == to + 1 - from
<1>2. k \in Nat
  OBVIOUS
<1>3. p = [i \in 1..k |-> q[i + from - 1]]
  BY DEF IsList
<1> HIDE DEF k, p
<1>4. p = [i \in 1..k |-> p[i]]
  BY <1>3
<1>5. IsList(p) /\ Len(p) = k /\ DOMAIN p = 1..k
  BY <1>2, <1>4, ListMade
<1>6. \A i \in DOMAIN p : i + from - 1 \in from..to /\ i + from - 1 \in DOMAIN q /\ p[i] = q[i + from - 1]
  BY <1>1, <1>3, <1>5 DEF k
<1> QED
  BY <1>5, <1>6 DEF k, p

-----------------------------------------------------------------------------
\* A later point says the opposite of an earlier one, which was as "before" says.
Went(q, before) ==
  \E i, j \in DOMAIN q : /\ i <= j /\ q[i].metrics = calculateOverallQuality(before)
                         /\ q[j].metrics = calculateOverallQuality(~before)

\* The arithmetic of a trend: n points before, of which the average is at most
\* that of the k after, and at least.
LEMMA NotDegrading ==
  ASSUME NEW n \in Nat, NEW k \in Nat, NEW before \in Nat, NEW after \in Nat, NEW v \in Nat,
         before <= v * n, v * k <= after
  PROVE  calculateTrend([change |-> after * n - before * k, of |-> before * k]) # "degrading"
<1>1. before * k <= (v * n) * k /\ (v * k) * n <= after * n /\ (v * n) * k = (v * k) * n
  OBVIOUS
<1>2. PICK a \in Nat, b \in Nat : a = after * n /\ b = before * k
  OBVIOUS
<1>3. b <= a
  BY <1>1, <1>2
<1>4. ~(100 * (a - b) < -b)
  BY ONLY a \in Nat, b \in Nat, <1>3
<1> QED
  BY <1>2, <1>4 DEF calculateTrend

LEMMA NotImproving ==
  ASSUME NEW n \in Nat, NEW k \in Nat, NEW before \in Nat, NEW after \in Nat, NEW v \in Nat,
         v * n <= before, after <= v * k
  PROVE  calculateTrend([change |-> after * n - before * k, of |-> before * k]) # "improving"
<1>1. (v * n) * k <= before * k /\ after * n <= (v * k) * n /\ (v * n) * k = (v * k) * n
  OBVIOUS
<1>2. PICK a \in Nat, b \in Nat : a = after * n /\ b = before * k
  OBVIOUS
<1>3. a <= b
  BY <1>1, <1>2
<1>4. ~(100 * (a - b) > b)
  BY ONLY a \in Nat, b \in Nat, <1>3
<1> QED
  BY <1>2, <1>4 DEF calculateTrend

LEMMA TrendIsOne ==
  ASSUME NEW move PROVE calculateTrend(move) \in {"stable", "improving", "degrading"}
BY DEF calculateTrend

LEMMA TrendOfHistory ==
  ASSUME NEW q, IsHistory(q), NEW m \in Metric
  PROVE  LET trend == calculateTrend(Moves(q)[m])
         IN  /\ m # "completeness" => trend = "stable"
             /\ m = "completeness" /\ trend = "degrading" => Went(q, TRUE)
             /\ m = "completeness" /\ trend = "improving" => Went(q, FALSE)
<1>1. PICK z \in Nat : z = Len(q) /\ DOMAIN q = 1..z
  BY ListIs DEF IsHistory
<1>2. PICK n \in Nat, k \in Nat : n = z \div 2 /\ k = z - n
  OBVIOUS
<1> DEFINE early == SubSeq(q, 1, n)  later == SubSeq(q, n + 1, z)
           before == Total(early, m)  after == Total(later, m)
           move == [change |-> after * n - before * k, of |-> before * k]
           value(full) == calculateOverallQuality(full)[m]
<1>3. Moves(q)[m] = move
  BY <1>1, <1>2 DEF Moves
<1>4. n <= z /\ z = n + k
  BY <1>2
<1>5. /\ IsList(early) /\ Len(early) = n /\ \A i \in DOMAIN early : i \in 1..n /\ i \in DOMAIN q /\ early[i] = q[i]
  <2>1. 1 \in Nat \ {0} /\ 1 <= n + 1 /\ n <= Len(q) /\ IsList(q) /\ n + 1 - 1 = n
    BY <1>1, <1>4 DEF IsHistory
  <2>2. \A i \in DOMAIN q : i + 1 - 1 = i
    BY <1>1
  <2> HIDE DEF early
  <2>3. /\ IsList(early) /\ Len(early) = n + 1 - 1
        /\ \A i \in DOMAIN early : i + 1 - 1 \in 1..n /\ i + 1 - 1 \in DOMAIN q /\ early[i] = q[i + 1 - 1]
    BY <2>1, PartOfList DEF early
  <2>4. DOMAIN early = 1..n
    BY <2>1, <2>3, ListIs
  <2>5. \A i \in 1..n : i + 1 - 1 = i
    OBVIOUS
  <2> QED
    BY <2>1, <2>3, <2>4, <2>5
<1>6. /\ IsList(later) /\ Len(later) = k
      /\ \A i \in DOMAIN later : i + n \in (n + 1)..z /\ i + n \in DOMAIN q /\ later[i] = q[i + n]
  <2>1. n + 1 \in Nat \ {0} /\ n + 1 <= z + 1 /\ z <= Len(q) /\ IsList(q) /\ z + 1 - (n + 1) = k
    BY <1>1, <1>4 DEF IsHistory
  <2> HIDE DEF later
  <2>3. /\ IsList(later) /\ Len(later) = z + 1 - (n + 1)
        /\ \A i \in DOMAIN later : i + (n + 1) - 1 \in (n + 1)..z /\ i + (n + 1) - 1 \in DOMAIN q /\ later[i] = q[i + (n + 1) - 1]
    BY <2>1, PartOfList DEF later
  <2>4. DOMAIN later = 1..k
    BY <2>1, <2>3, ListIs
  <2>5. \A i \in 1..k : i + (n + 1) - 1 = i + n
    OBVIOUS
  <2> QED
    BY <2>1, <2>3, <2>4, <2>5
<1>7. \A i \in DOMAIN q : \E full \in BOOLEAN : q[i].metrics = calculateOverallQuality(full)
  BY DEF IsHistory, Tells
<1> HIDE DEF early, later
\* Every total lies between bounds on the points of its half.
<1>8. ASSUME NEW lo \in Nat, NEW hi \in Nat,
             \A i \in 1..n : \A full \in BOOLEAN : q[i].metrics = calculateOverallQuality(full) =>
               value(full) \in Nat /\ lo <= value(full) /\ value(full) <= hi
      PROVE  before \in Nat /\ lo * n <= before /\ before <= hi * n
  <2>1. \A i \in DOMAIN early : early[i].metrics[m] \in Nat /\ lo <= early[i].metrics[m] /\ early[i].metrics[m] <= hi
    <3> TAKE i \in DOMAIN early
    <3>1. i \in 1..n /\ i \in DOMAIN q /\ early[i] = q[i]
      BY ONLY <1>5, i \in DOMAIN early
    <3>2. PICK full \in BOOLEAN : q[i].metrics = calculateOverallQuality(full)
      BY ONLY <1>7, <3>1
    <3>3. early[i].metrics[m] = value(full)
      BY ONLY <3>1, <3>2
    <3> HIDE DEF value
    <3>4. value(full) \in Nat /\ lo <= value(full) /\ value(full) <= hi
      BY ONLY <1>8, <3>1, <3>2
    <3> QED
      BY ONLY <3>3, <3>4
  <2> QED
    BY <1>5, <2>1, TotalIsBetween
<1>9. ASSUME NEW lo \in Nat, NEW hi \in Nat,
             \A i \in (n + 1)..z : \A full \in BOOLEAN : q[i].metrics = calculateOverallQuality(full) =>
               value(full) \in Nat /\ lo <= value(full) /\ value(full) <= hi
      PROVE  after \in Nat /\ lo * k <= after /\ after <= hi * k
  <2>1. \A i \in DOMAIN later : later[i].metrics[m] \in Nat /\ lo <= later[i].metrics[m] /\ later[i].metrics[m] <= hi
    <3> TAKE i \in DOMAIN later
    <3>1. i + n \in (n + 1)..z /\ i + n \in DOMAIN q /\ later[i] = q[i + n]
      BY ONLY <1>6, i \in DOMAIN later
    <3>2. PICK full \in BOOLEAN : q[i + n].metrics = calculateOverallQuality(full)
      BY ONLY <1>7, <3>1
    <3>3. later[i].metrics[m] = value(full)
      BY ONLY <3>1, <3>2
    <3> HIDE DEF value
    <3>4. value(full) \in Nat /\ lo <= value(full) /\ value(full) <= hi
      BY ONLY <1>9, <3>1, <3>2
    <3> QED
      BY ONLY <3>3, <3>4
  <2> QED
    BY <1>6, <2>1, TotalIsBetween
<1>10. \A i \in 1..n, j \in (n + 1)..z : i \in DOMAIN q /\ j \in DOMAIN q /\ i <= j
  BY <1>1, <1>4
<1> HIDE DEF before, after
<1>11. CASE m # "completeness"
  <2>1. PICK v \in Nat : \A full \in BOOLEAN : value(full) = v
    BY <1>11 DEF calculateOverallQuality, Metric
  <2> HIDE DEF value
  <2>6. \A full \in BOOLEAN : value(full) \in Nat /\ v <= value(full) /\ value(full) <= v
    BY <2>1
  <2>2. before \in Nat /\ v * n <= before /\ before <= v * n
    BY <1>8, <2>6
  <2>3. after \in Nat /\ v * k <= after /\ after <= v * k
    BY <1>9, <2>6
  <2>4. calculateTrend(move) # "degrading"
    BY ONLY n \in Nat, k \in Nat, v \in Nat, <2>2, <2>3, NotDegrading
  <2>5. calculateTrend(move) # "improving"
    BY ONLY n \in Nat, k \in Nat, v \in Nat, <2>2, <2>3, NotImproving
  <2> QED
    BY <1>3, <1>11, <2>4, <2>5, TrendIsOne
<1>12. CASE m = "completeness"
  <2>1. value(TRUE) = 100 /\ value(FALSE) = 0
    BY <1>12 DEF calculateOverallQuality
  <2> HIDE DEF value
  <2>2. \A full \in BOOLEAN : value(full) \in Nat /\ 0 <= value(full) /\ value(full) <= 100
    <3> SUFFICES ASSUME NEW full \in BOOLEAN PROVE value(full) = 0 \/ value(full) = 100
      OBVIOUS
    <3>1. CASE full = TRUE
      BY <2>1, <3>1
    <3>2. CASE full = FALSE
      BY <2>1, <3>2
    <3> QED
      BY <3>1, <3>2
  <2>3. before \in Nat /\ 0 * n <= before /\ before <= 100 * n
    BY <1>8, <2>2
  <2>4. after \in Nat /\ 0 * k <= after /\ after <= 100 * k
    BY <1>9, <2>2
  <2> DEFINE Says(i, full) == q[i].metrics = calculateOverallQuality(full)
  <2>7. ASSUME NEW S, \A i \in S : ~Says(i, TRUE)
        PROVE  \A i \in S : \A full \in BOOLEAN : Says(i, full) => value(full) \in Nat /\ 0 <= value(full) /\ value(full) <= 0
    <3> SUFFICES ASSUME NEW i \in S, NEW full \in BOOLEAN, Says(i, full) PROVE value(full) = 0
      OBVIOUS
    <3> HIDE DEF Says
    <3>1. CASE full = TRUE
      BY <2>7, <3>1
    <3>2. CASE full = FALSE
      BY <2>1, <3>2
    <3> QED
      BY <3>1, <3>2
  <2>8. ASSUME NEW S, \A i \in S : ~Says(i, FALSE)
        PROVE  \A i \in S : \A full \in BOOLEAN : Says(i, full) => value(full) \in Nat /\ 100 <= value(full) /\ value(full) <= 100
    <3> SUFFICES ASSUME NEW i \in S, NEW full \in BOOLEAN, Says(i, full) PROVE value(full) = 100
      OBVIOUS
    <3> HIDE DEF Says
    <3>1. CASE full = TRUE
      BY <2>1, <3>1
    <3>2. CASE full = FALSE
      BY <2>8, <3>2
    <3> QED
      BY <3>1, <3>2
  <2>5. ASSUME calculateTrend(move) = "degrading" PROVE Went(q, TRUE)
    <3>1. \E i \in 1..n : Says(i, TRUE)
      <4> SUFFICES ASSUME \A i \in 1..n : ~Says(i, TRUE) PROVE FALSE
        OBVIOUS
      <4>1. \A i \in 1..n : \A full \in BOOLEAN : Says(i, full) => value(full) \in Nat /\ 0 <= value(full) /\ value(full) <= 0
        BY <2>7
      <4>2. before <= 0 * n
        BY <1>8, <4>1
      <4> QED
        BY ONLY n \in Nat, k \in Nat, <2>3, <2>4, <2>5, <4>2, NotDegrading
    <3>2. \E j \in (n + 1)..z : Says(j, FALSE)
      <4> SUFFICES ASSUME \A j \in (n + 1)..z : ~Says(j, FALSE) PROVE FALSE
        OBVIOUS
      <4>1. \A i \in (n + 1)..z : \A full \in BOOLEAN : Says(i, full) => value(full) \in Nat /\ 100 <= value(full) /\ value(full) <= 100
        BY <2>8
      <4>2. 100 * k <= after
        BY <1>9, <4>1
      <4> QED
        BY ONLY n \in Nat, k \in Nat, <2>3, <2>4, <2>5, <4>2, NotDegrading
    <3> QED
      BY <1>10, <3>1, <3>2 DEF Went
  <2>6. ASSUME calculateTrend(move) = "improving" PROVE Went(q, FALSE)
    <3>1. \E i \in 1..n : Says(i, FALSE)
      <4> SUFFICES ASSUME \A i \in 1..n : ~Says(i, FALSE) PROVE FALSE
        OBVIOUS
      <4>1. \A i \in 1..n : \A full \in BOOLEAN : Says(i, full) => value(full) \in Nat /\ 100 <= value(full) /\ value(full) <= 100
        BY <2>8
      <4>2. 100 * n <= before
        BY <1>8, <4>1
      <4> QED
        BY ONLY n \in Nat, k \in Nat, <2>3, <2>4, <2>6, <4>2, NotImproving
    <3>2. \E j \in (n + 1)..z : Says(j, TRUE)
      <4> SUFFICES ASSUME \A j \in (n + 1)..z : ~Says(j, TRUE) PROVE FALSE
        OBVIOUS
      <4>1. \A i \in (n + 1)..z : \A full \in BOOLEAN : Says(i, full) => value(full) \in Nat /\ 0 <= value(full) /\ value(full) <= 0
        BY <2>7
      <4>2. after <= 0 * k
        BY <1>9, <4>1
      <4> QED
        BY ONLY n \in Nat, k \in Nat, <2>3, <2>4, <2>6, <4>2, NotImproving
    <3> QED
      BY <1>10, <3>1, <3>2 DEF Went
  <2> HIDE DEF move
  <2> QED
    BY <1>3, <1>12, <2>5, <2>6
<1> QED
  BY <1>11, <1>12

-----------------------------------------------------------------------------
\* What an analysis of a history says is so.
Fair(a) ==
  LET moved(before) ==
        \E d, e \in 0..now :
          d <= e /\ <<d, before>> \in seen /\ <<e, ~before>> \in seen /\ d >= now - Days[a.period]
  IN  /\ a.trends["completeness"] = "degrading" => moved(TRUE)
      /\ a.trends["completeness"] = "improving" => moved(FALSE)
      /\ \A m \in Metric \ {"completeness"} : a.trends[m] = "stable"

LEMMA TrendIsFair == TrendIsNotInvented <=> (response # NoMetrics => \A a \in response.analyses : Fair(a))
BY DEF TrendIsNotInvented, Fair

LEMMA EmptyHistory == IsHistory(<<>>)
BY NoPoints DEF IsHistory

LEMMA AnalysisIsFair ==
  ASSUME NEW q, IsHistory(q), now \in Nat, NEW period
  PROVE  Fair(analyzeTrends(q, period))
<1> DEFINE data == IF Len(Within(q, period)) < 2 THEN <<>> ELSE Within(q, period)
           trends == [m \in Metric |-> calculateTrend(Moves(data)[m])]
           a == analyzeTrends(q, period)
<1>1. a.period = period /\ a.trends = trends
  BY DEF analyzeTrends
<1>2. IsHistory(data) /\ \A i \in DOMAIN data : data[i].date >= now - Days[period]
  <2>1. IsHistory(<<>>) /\ DOMAIN <<>> = {}
    BY EmptyHistory, NoPoints
  <2>2. /\ IsHistory(Within(q, period))
        /\ \A i \in DOMAIN Within(q, period) : Within(q, period)[i].date >= now - Days[period]
    BY WithinIsHistory
  <2>3. data = <<>> \/ data = Within(q, period)
    OBVIOUS
  <2> HIDE DEF data
  <2> QED
    BY <2>1, <2>2, <2>3
<1> HIDE DEF data, a
<1>3. ASSUME NEW before \in BOOLEAN, Went(data, before)
      PROVE  \E d, e \in 0..now :
               d <= e /\ <<d, before>> \in seen /\ <<e, ~before>> \in seen /\ d >= now - Days[period]
  <2>1. PICK i \in DOMAIN data, j \in DOMAIN data :
          /\ i <= j /\ data[i].metrics = calculateOverallQuality(before)
          /\ data[j].metrics = calculateOverallQuality(~before)
    BY <1>3 DEF Went
  <2>2. data[i].date \in 0..now /\ data[j].date \in 0..now
    BY <1>2 DEF IsHistory, Tells
  <2>3. data[i].date <= data[j].date /\ data[i].date >= now - Days[period]
    BY <1>2, <2>1 DEF IsHistory
  <2>4. ASSUME NEW h \in DOMAIN data, NEW full \in BOOLEAN, data[h].metrics = calculateOverallQuality(full)
        PROVE  <<data[h].date, full>> \in seen
    <3>1. PICK was \in BOOLEAN : data[h].metrics = calculateOverallQuality(was) /\ <<data[h].date, was>> \in seen
      BY <1>2 DEF IsHistory, Tells
    <3>2. calculateOverallQuality(was).completeness = calculateOverallQuality(full).completeness
      BY <2>4, <3>1
    <3>3. was = full
      BY <3>2 DEF calculateOverallQuality
    <3> QED
      BY <3>1, <3>3
  <2>5. <<data[i].date, before>> \in seen /\ <<data[j].date, ~before>> \in seen
    BY <2>1, <2>4
  <2> QED
    BY <2>2, <2>3, <2>5
<1>4. ASSUME NEW m \in Metric
      PROVE  /\ m # "completeness" => trends[m] = "stable"
             /\ m = "completeness" /\ trends[m] = "degrading" => Went(data, TRUE)
             /\ m = "completeness" /\ trends[m] = "improving" => Went(data, FALSE)
  <2>1. trends[m] = calculateTrend(Moves(data)[m])
    OBVIOUS
  <2> QED
    BY <1>2, <2>1, TrendOfHistory
<1>5. "completeness" \in Metric
  BY DEF Metric
<1> HIDE DEF trends
<1>6. trends["completeness"] = "degrading" => Went(data, TRUE)
  BY <1>4, <1>5
<1>7. trends["completeness"] = "improving" => Went(data, FALSE)
  BY <1>4, <1>5
<1>8. \A m \in Metric \ {"completeness"} : trends[m] = "stable"
  BY <1>4
<1>9. Fair(a)
  BY <1>1, <1>3, <1>6, <1>7, <1>8 DEF Fair
<1> QED
  BY <1>9 DEF a

-----------------------------------------------------------------------------
LEMMA HistoryStays ==
  ASSUME NEW q, IsHistory(q), seen \subseteq seen', now \in Nat, now' \in Nat, now <= now'
  PROVE  IsHistory(q)'
<1>1. \A i \in DOMAIN q : Tells(q[i])'
  <2> TAKE i \in DOMAIN q
  <2>1. Tells(q[i])
    BY DEF IsHistory
  <2> QED
    BY <2>1 DEF Tells
<1> QED
  BY <1>1 DEF IsHistory, IsList, Items

LEMMA FairStays ==
  ASSUME NEW a, Fair(a), UNCHANGED <<now, seen>> PROVE Fair(a)'
BY DEF Fair

LEMMA QualityInvIs == QualityInv <=> Kept /\ (response # NoMetrics => \A a \in response.analyses : Fair(a))
BY TrendIsFair DEF QualityInv, Kept

LEMMA QualityInvThen ==
  ASSUME Kept', response' # NoMetrics => \A a \in response'.analyses : Fair(a)' PROVE QualityInv'
<1>1. TrendIsNotInvented'
  BY DEF TrendIsNotInvented, Fair
<1> QED
  BY <1>1 DEF QualityInv, Kept

LEMMA QualityStart == QualityInit => QualityInv
<1> SUFFICES ASSUME QualityInit PROVE QualityInv
  OBVIOUS
<1>1. now = 0 /\ filled \in BOOLEAN /\ history = <<>> /\ response = NoMetrics /\ seen = {<<0, filled>>}
      /\ requests = [r \in Request |-> NoMetrics]
  BY DEF QualityInit
<1> QED
  BY <1>1, EmptyHistory, QualityInvIs DEF Kept

LEMMA QualityQuery ==
  ASSUME QualityInv, NEW r \in Request, NEW for, Query(r, for) PROVE QualityInv'
<1>1. /\ UNCHANGED <<now, filled, history, seen>> /\ response' = NoMetrics
      /\ requests' = [requests EXCEPT ![r] = [for |-> for, metrics |-> calculateOverallQuality(filled)]]
  BY DEF Query
<1>2. Kept
  BY QualityInvIs
<1>3. IsHistory(history)'
  BY <1>1, <1>2, HistoryStays DEF Kept
<1>4. Kept'
  BY <1>1, <1>2, <1>3 DEF Kept
<1> QED
  BY <1>1, <1>4, QualityInvThen

LEMMA QualityCollected ==
  ASSUME QualityInv, NEW r \in Request, collectMetrics(r) PROVE QualityInv'
<1>1. Kept
  BY QualityInvIs
<1>2. PICK full \in BOOLEAN : /\ requests[r].metrics = calculateOverallQuality(full)
                              /\ <<now, full>> \in seen
  BY <1>1 DEF Kept, collectMetrics
<1> DEFINE p == [date |-> now, metrics |-> requests[r].metrics]
           all == Append(history, p)
           points == Within(all, "90d")
           analysis == analyzeTrends(points, "30d")
<1>3. UNCHANGED <<now, filled, seen>> /\ requests' = [requests EXCEPT ![r] = NoMetrics]
  BY DEF collectMetrics
<1>4. history' = points
  BY DEF collectMetrics
<1>5. response'.analyses = {analysis}
  BY DEF collectMetrics
<1>6. Tells(p)
  BY <1>1, <1>2 DEF Tells, Kept
<1>7. \A i \in DOMAIN history : history[i].date <= p.date
  BY <1>1 DEF Kept, IsHistory, Tells
<1>8. IsHistory(all)
  <2>1. all = history \o <<p>>
    BY <1>1, OneMore DEF Kept, IsHistory
  <2>2. IsHistory(history)
    BY <1>1 DEF Kept
  <2> HIDE DEF all, p
  <2>3. IsHistory(history \o <<p>>)
    BY <1>6, <1>7, <2>2, LongerHistory
  <2> QED
    BY <2>1, <2>3
<1> HIDE DEF all
<1>9. IsHistory(points)
  BY <1>8, WithinIsHistory
<1> HIDE DEF points
<1>10. Fair(analysis)
  BY <1>1, <1>9, AnalysisIsFair DEF Kept
<1> HIDE DEF analysis, p
<1>11. PICK q : q = points
  OBVIOUS
<1>12. PICK a : a = analysis
  OBVIOUS
<1>13. IsHistory(history)'
  <2>1. IsHistory(q)'
    BY <1>1, <1>3, <1>9, <1>11, HistoryStays DEF Kept
  <2>2. history' = q
    BY <1>4, <1>11
  <2> QED
    BY <2>1, <2>2
<1>14. Fair(a)'
  BY <1>3, <1>10, <1>12, FairStays
<1>15. \A b \in response'.analyses : Fair(b)'
  <2>1. response'.analyses = {a}
    BY <1>5, <1>12
  <2> QED
    BY <1>14, <2>1
<1>16. Kept'
  BY <1>1, <1>3, <1>13 DEF Kept
<1> QED
  BY <1>15, <1>16, QualityInvThen

LEMMA QualityDashboard ==
  ASSUME QualityInv, getDashboardData PROVE QualityInv'
<1>1. Kept
  BY QualityInvIs
<1>2. UNCHANGED <<now, filled, history, seen>>
  BY DEF getDashboardData
<1>3. PICK metrics : response' = DashboardOf(metrics)
  BY DEF getDashboardData
<1>4. response'.analyses = {analyzeTrends(history, period) : period \in Period}
  BY <1>3 DEF DashboardOf
<1>5. \A b \in response'.analyses : Fair(b)'
  <2> SUFFICES ASSUME NEW b \in response'.analyses PROVE Fair(b)'
    OBVIOUS
  <2>1. PICK a : a = b
    OBVIOUS
  <2>2. PICK period \in Period : a = analyzeTrends(history, period)
    BY <1>4, <2>1
  <2>3. Fair(a)
    BY <1>1, <2>2, AnalysisIsFair DEF Kept
  <2>4. Fair(a)'
    BY <1>2, <2>3, FairStays
  <2> QED
    BY <2>1, <2>4
<1>6. IsHistory(history)'
  BY <1>1, <1>2, HistoryStays DEF Kept
<1>7. \/ UNCHANGED requests
      \/ \E r \in Request : requests' = [requests EXCEPT ![r] = NoMetrics]
  BY DEF getDashboardData
<1>8. Kept'
  BY <1>1, <1>2, <1>6, <1>7 DEF Kept
<1> QED
  BY <1>5, <1>8, QualityInvThen

LEMMA QualityTable ==
  ASSUME QualityInv, TableChanges PROVE QualityInv'
<1>1. /\ filled' = ~filled /\ seen' = seen \cup {<<now, filled'>>} /\ response' = NoMetrics
      /\ UNCHANGED <<now, history, requests>>
  BY DEF TableChanges
<1>2. Kept
  BY QualityInvIs
<1>3. IsHistory(history)'
  BY <1>1, <1>2, HistoryStays DEF Kept
<1>4. Kept'
  BY <1>1, <1>2, <1>3 DEF Kept
<1> QED
  BY <1>1, <1>4, QualityInvThen

LEMMA QualityTick ==
  ASSUME QualityInv, Tick PROVE QualityInv'
<1>1. /\ now' = now + 1 /\ seen' = seen \cup {<<now', filled>>} /\ response' = NoMetrics
      /\ UNCHANGED <<filled, history, requests>> /\ \A r \in Request : requests[r] = NoMetrics
  BY DEF Tick
<1>2. Kept
  BY QualityInvIs
<1>3. IsHistory(history)'
  BY <1>1, <1>2, HistoryStays DEF Kept
<1>4. Kept'
  BY <1>1, <1>2, <1>3 DEF Kept
<1> QED
  BY <1>1, <1>4, QualityInvThen

LEMMA QualityStutters ==
  ASSUME QualityInv, UNCHANGED qualityVars PROVE QualityInv'
<1>1. UNCHANGED <<now, filled, history, requests, response, seen>>
  BY DEF qualityVars
<1>2. IsHistory(history)'
  BY <1>1, HistoryStays DEF QualityInv, Kept
<1>3. Kept'
  BY <1>1, <1>2, QualityInvIs DEF Kept
<1>4. response' # NoMetrics => \A b \in response'.analyses : Fair(b)'
  BY <1>1, QualityInvIs, FairStays
<1> QED
  BY <1>3, <1>4, QualityInvThen

\* A trend tells of what has happened in its period, whatever the order in which
\* the answers come (trendAnalyzer.ts, calculateTrend and calculatePeriodTrend).
THEOREM TrendsAreNotInvented == QualitySpec => []TrendIsNotInvented
<1>1. QualityInit => QualityInv
  BY QualityStart
<1>2. QualityInv /\ [QualityNext]_qualityVars => QualityInv'
  BY QualityQuery, QualityCollected, QualityDashboard, QualityTable, QualityTick, QualityStutters
  DEF QualityNext
<1>3. QualityInv => TrendIsNotInvented
  BY DEF QualityInv
<1> QED
  BY <1>1, <1>2, <1>3, PTL DEF QualitySpec

=============================================================================
