----------------------------- MODULE BinLookup -----------------------------
(***************************************************************************)
(* BINService.lookup (src/services/bin.ts) through OptimizedCacheManager   *)
(* (src/services/advancedCaching/optimizedCache.ts): Bloom filter, LRU,    *)
(* Redis, database, and the fallback with a cache of its own, in several   *)
(* server processes, while EtlLoad changes the table under it.             *)
(*                                                                         *)
(* A lookup answers a row's content, Unknown (a result made up for a BIN   *)
(* that has no row), Null or Error (which lookupBatch turns into null).    *)
(***************************************************************************)
EXTENDS EtlLoad

CONSTANTS
  Process,
  Reader,       \* callers that look BINs up again and again
  Home,         \* Home[q]: the process serving reader q
  Wants,        \* Wants[q]: the BINs it asks for
  Bits,         \* Bits[b]: the bits of a Bloom filter that adding b sets
  None, Unknown, Null, Error

\* A row says something of at least one version.
Content == {V \cup {v} : V \in SUBSET Version, v \in Version}
Cacheable == Content \cup {Unknown}

ASSUME ReaderAssumption ==
  /\ Home \in [Reader -> Process]
  /\ Wants \in [Reader -> {B \cup {b} : B \in SUBSET Bin, b \in Bin}]

\* What is no row's content cannot be taken for one.
ASSUME AnswerAssumption ==
  /\ None \notin Cacheable /\ Null \notin Cacheable /\ Error \notin Cacheable
  /\ None # Null /\ Error # Null

VARIABLES
  bloom,      \* bloom[p]: BINs added to the filter of process p as missing
  lru,        \* OptimizedCacheManager.lruCache of each process
  fallback,   \* lookupCache of each process
  redis,      \* the "lookup:" keys
  at,         \* where each reader is
  bin,        \* the BIN it looks up
  got,        \* what it has read, and once it is idle what it was answered
  flush,      \* where clearCache of each process is
  past        \* past[b]: what the table has said of b so far (history)

cacheVars == <<bloom, lru, fallback, redis>>
readerVars == <<at, bin, got>>
vars == <<etlVars, cacheVars, readerVars, flush, past>>

\* What the database says of b.
Current(b) == IF rows[b] = {} THEN Unknown ELSE rows[b]

TypeOK ==
  /\ EtlTypeOK
  /\ bloom \in [Process -> SUBSET Bin]
  /\ lru \in [Process -> [Bin -> Cacheable \cup {None}]]
  /\ fallback \in [Process -> [Bin -> Cacheable \cup {None}]]
  /\ redis \in [Bin -> Cacheable \cup {None}]
  /\ at \in [Reader -> {"idle", "redis", "db", "setRedis", "country", "fallbackDb", "setFallback"}]
  /\ bin \in [Reader -> Bin]
  /\ got \in [Reader -> Cacheable \cup {None, Null, Error}]
  /\ flush \in [Process -> {"idle", "redis"}]

Init ==
  /\ EtlInit
  /\ bloom = [p \in Process |-> {}]
  /\ lru = [p \in Process |-> [b \in Bin |-> None]]
  /\ fallback = [p \in Process |-> [b \in Bin |-> None]]
  /\ redis = [b \in Bin |-> None]
  /\ at = [q \in Reader |-> "idle"]
  /\ bin = [q \in Reader |-> CHOOSE b \in Wants[q] : TRUE]
  /\ got = [q \in Reader |-> None]
  /\ flush = [p \in Process |-> "idle"]
  /\ past = [b \in Bin |-> {Current(b)}]

-----------------------------------------------------------------------------
\* The bits of b may all have been set by other BINs.
InFilter(b, added) == Bits[b] \subseteq UNION {Bits[c] : c \in added}

Goto(q, l) == at' = [at EXCEPT ![q] = l]
SetLRU(q, v) == lru' = [lru EXCEPT ![Home[q]][bin[q]] = v]

Reply(q, v) ==
  /\ got' = [got EXCEPT ![q] = v]
  /\ Goto(q, "idle")

\* Tiers 1 and 2 run without an await.  A BIN the filter has answers null.
Lookup(q, b) ==
  LET p == Home[q] IN
  /\ at[q] = "idle"
  /\ bin' = [bin EXCEPT ![q] = b]
  /\ IF InFilter(b, bloom[p])
       THEN Reply(q, Null)
       ELSE /\ got' = [got EXCEPT ![q] = lru[p][b]]
            /\ Goto(q, IF lru[p][b] # None THEN "country" ELSE "redis")
  /\ UNCHANGED <<etlVars, cacheVars, flush, past>>

\* lookupBatch asks the fallback's cache first.
LookupBatch(q, b) ==
  /\ at[q] = "idle"
  /\ fallback[Home[q]][b] # None
  /\ bin' = [bin EXCEPT ![q] = b]
  /\ Reply(q, fallback[Home[q]][b])
  /\ UNCHANGED <<etlVars, cacheVars, flush, past>>

\* Tier 3.  A Redis that fails is a miss.
ReadRedis(q) ==
  /\ at[q] = "redis"
  /\ \/ /\ redis[bin[q]] # None
        /\ got' = [got EXCEPT ![q] = redis[bin[q]]]
        /\ SetLRU(q, redis[bin[q]])
        /\ Goto(q, "country")
     \/ /\ redis[bin[q]] = None \/ "redis" \in Faults
        /\ Goto(q, "db")
        /\ UNCHANGED <<got, lru>>
  /\ UNCHANGED <<etlVars, bloom, fallback, redis, bin, flush, past>>

\* Mutant of ReadDb: a failing query is taken for a missing BIN.
ReadDbMissing(q) ==
  /\ at[q] = "db"
  /\ \/ /\ rows[bin[q]] # {}
        /\ got' = [got EXCEPT ![q] = rows[bin[q]]]
        /\ SetLRU(q, rows[bin[q]])
        /\ Goto(q, "setRedis")
        /\ UNCHANGED bloom
     \/ /\ rows[bin[q]] = {} \/ "db" \in Faults
        /\ got' = [got EXCEPT ![q] = Unknown]
        /\ bloom' = [bloom EXCEPT ![Home[q]] = @ \cup {bin[q]}]
        /\ Goto(q, "country")
        /\ UNCHANGED lru
  /\ UNCHANGED <<etlVars, fallback, redis, bin, flush, past>>

\* Tier 4.  A BIN without a row goes into the Bloom filter; a failing query
\* sends lookup to its fallback.
ReadDb(q) ==
  /\ at[q] = "db"
  /\ \/ /\ rows[bin[q]] # {}
        /\ got' = [got EXCEPT ![q] = rows[bin[q]]]
        /\ SetLRU(q, rows[bin[q]])
        /\ Goto(q, "setRedis")
        /\ UNCHANGED bloom
     \/ /\ rows[bin[q]] = {}
        /\ got' = [got EXCEPT ![q] = Unknown]
        /\ bloom' = [bloom EXCEPT ![Home[q]] = @ \cup {bin[q]}]
        /\ Goto(q, "country")
        /\ UNCHANGED lru
     \/ /\ "db" \in Faults
        /\ Goto(q, "fallbackDb")
        /\ UNCHANGED <<got, bloom, lru>>
  /\ UNCHANGED <<etlVars, fallback, redis, bin, flush, past>>

WriteRedis(q) ==
  \/ redis' = [redis EXCEPT ![bin[q]] = got[q]]
  \/ "redis" \in Faults /\ UNCHANGED redis

SetRedis(q) ==
  /\ at[q] = "setRedis"
  /\ WriteRedis(q)
  /\ Goto(q, "country")
  /\ UNCHANGED <<etlVars, bloom, lru, fallback, bin, got, flush, past>>

\* The country query.  When it fails, everything read is dropped.
ReadCountry(q) ==
  /\ at[q] = "country"
  /\ \/ Reply(q, got[q])
     \/ /\ "db" \in Faults
        /\ got' = [got EXCEPT ![q] = None]
        /\ Goto(q, "fallbackDb")
  /\ UNCHANGED <<etlVars, cacheVars, bin, flush, past>>

\* The fallback reads the table once more; a second failure is thrown.
FallbackDb(q) ==
  /\ at[q] = "fallbackDb"
  /\ \/ /\ got' = [got EXCEPT ![q] = Current(bin[q])]
        /\ Goto(q, "setFallback")
     \/ "db" \in Faults /\ Reply(q, Error)
  /\ UNCHANGED <<etlVars, cacheVars, bin, flush, past>>

\* It caches its result in both caches, a made-up one too.
SetFallback(q) ==
  /\ at[q] = "setFallback"
  /\ fallback' = [fallback EXCEPT ![Home[q]][bin[q]] = got[q]]
  /\ WriteRedis(q)
  /\ Reply(q, got[q])
  /\ UNCHANGED <<etlVars, bloom, lru, bin, flush, past>>

-----------------------------------------------------------------------------
\* clearCache: lookupCache, then the Redis keys (KEYS and DEL as one step).
ClearLocal(p) ==
  /\ flush[p] = "idle"
  /\ fallback' = [fallback EXCEPT ![p] = [b \in Bin |-> None]]
  /\ flush' = [flush EXCEPT ![p] = "redis"]
  /\ UNCHANGED <<etlVars, bloom, lru, redis, readerVars, past>>

ClearRedis(p) ==
  /\ flush[p] = "redis"
  /\ \/ redis' = [b \in Bin |-> None]
     \/ "redis" \in Faults /\ UNCHANGED redis
  /\ flush' = [flush EXCEPT ![p] = "idle"]
  /\ UNCHANGED <<etlVars, bloom, lru, fallback, readerVars, past>>

\* An entry's 24 hours pass, or the cache is full and it is evicted.
ExpireLocal(p, b) ==
  /\ lru[p][b] # None
  /\ lru' = [lru EXCEPT ![p][b] = None]
  /\ UNCHANGED <<etlVars, bloom, fallback, redis, readerVars, flush, past>>

ExpireFallback(p, b) ==
  /\ fallback[p][b] # None
  /\ fallback' = [fallback EXCEPT ![p][b] = None]
  /\ UNCHANGED <<etlVars, bloom, lru, redis, readerVars, flush, past>>

\* Mutant of ExpireRedis: keys are set without a TTL.
NeverExpireRedis(b) ==
  /\ redis[b] # None
  /\ UNCHANGED vars

ExpireRedis(b) ==
  /\ redis[b] # None
  /\ redis' = [redis EXCEPT ![b] = None]
  /\ UNCHANGED <<etlVars, bloom, lru, fallback, readerVars, flush, past>>

\* A process restarts with empty caches: no code saves the Bloom filter.
Restart(p) ==
  /\ "restart" \in Faults
  /\ bloom' = [bloom EXCEPT ![p] = {}]
  /\ lru' = [lru EXCEPT ![p] = [b \in Bin |-> None]]
  /\ fallback' = [fallback EXCEPT ![p] = [b \in Bin |-> None]]
  /\ at' = [q \in Reader |-> IF Home[q] = p THEN "idle" ELSE at[q]]
  /\ got' = [q \in Reader |-> IF Home[q] = p THEN None ELSE got[q]]
  /\ flush' = [flush EXCEPT ![p] = "idle"]
  /\ UNCHANGED <<etlVars, redis, bin, past>>

-----------------------------------------------------------------------------
LookupStep(q) ==
  ReadRedis(q) \/ ReadDb(q) \/ SetRedis(q) \/ ReadCountry(q)
  \/ FallbackDb(q) \/ SetFallback(q)

Expire ==
  \/ \E p \in Process, b \in Bin : ExpireLocal(p, b) \/ ExpireFallback(p, b)
  \/ \E b \in Bin : ExpireRedis(b)

TableStep ==
  /\ EtlNext
  /\ past' = [b \in Bin |-> past[b] \cup {IF rows'[b] = {} THEN Unknown ELSE rows'[b]}]
  /\ UNCHANGED <<cacheVars, readerVars, flush>>

Next ==
  \/ \E q \in Reader : LookupStep(q) \/ \E b \in Wants[q] : Lookup(q, b) \/ LookupBatch(q, b)
  \/ \E p \in Process : ClearLocal(p) \/ ClearRedis(p) \/ Restart(p)
  \/ Expire
  \/ TableStep

Spec == Init /\ [][Next]_vars

\* The event loop resumes lookups and flushes; every cached entry outlives its
\* TTL some day.
Fairness ==
  /\ \A q \in Reader : WF_vars(LookupStep(q))
  /\ \A p \in Process, b \in Bin : WF_vars(ExpireLocal(p, b)) /\ WF_vars(ExpireFallback(p, b))
  /\ \A b \in Bin : WF_vars(ExpireRedis(b))

FairSpec == Spec /\ Fairness

-----------------------------------------------------------------------------
\* No cache makes anything up: what a tier holds of a BIN is what the table said
\* of that very BIN at some time, a BIN in a Bloom filter once had no row, and a
\* lookup answers what the table said of its BIN at some time, null only if BINs
\* without a row at some time have set all of its bits.
NothingMadeUp ==
  /\ \A b \in Bin :
       /\ redis[b] \in past[b] \cup {None}
       /\ \A p \in Process :
            /\ lru[p][b] \in past[b] \cup {None}
            /\ fallback[p][b] \in past[b] \cup {None}
            /\ b \in bloom[p] => Unknown \in past[b]
  /\ \A q \in Reader :
       /\ got[q] \in Cacheable => got[q] \in past[bin[q]]
       /\ got[q] = Null => InFilter(bin[q], {b \in Bin : Unknown \in past[b]})

\* Stale entries die out: once the table stops changing, Redis and the LRUs agree
\* with it for ever after, however the processes fill them from each other.  (A
\* Bloom filter keeps a BIN that was loaded since until its process restarts.)
StaleEntriesDie ==
  <>[][UNCHANGED rows]_vars =>
    <>[](\A b \in Bin : redis[b] \in {None, Current(b)}
           /\ \A p \in Process : lru[p][b] \in {None, Current(b)})
=============================================================================
