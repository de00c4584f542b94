------------------------------ MODULE CardDedup ------------------------------
(***************************************************************************)
(* The card generation paths the HTTP controllers and the job queue use:   *)
(* generateAndSaveFromBIN, generateAndSaveMultipleFromBIN and              *)
(* generateAndSave999CardsWithCVV (src/services/cardGeneration.ts) with    *)
(* CardDeduplicationService (src/services/cardDeduplication.ts): a local   *)
(* LRU cache per process, one Redis, one generated_cards table.            *)
(*                                                                         *)
(* A request fills slots, one card each.  The slots of a batch are checked *)
(* concurrently (Promise.all); each await is a step.                       *)
(***************************************************************************)
EXTENDS Naturals

CONSTANTS
  Request, Slot, Card, Process,
  Kind,        \* Kind[r]: "single", "batch" or "all999"
  Owner,       \* Owner[s]: the request slot s belongs to
  Home,        \* Home[r]: the process serving request r
  MaxRetries,  \* regenerations of a single card, 3 in the code
  Faults,      \* subset of {"db", "cache", "evict"}
  NoRequest, NoCard

ASSUME KindAssumption == Kind \in [Request -> {"single", "batch", "all999"}]
ASSUME OwnerAssumption == Owner \in [Slot -> Request]
\* A single request fills one slot.
ASSUME SingleAssumption ==
  \A s, t \in Slot : Owner[s] = Owner[t] /\ Kind[Owner[s]] = "single" => s = t
ASSUME HomeAssumption == Home \in [Request -> Process]
ASSUME MaxRetriesAssumption == MaxRetries \in Nat
ASSUME SentinelAssumption == NoRequest \notin Request /\ NoCard \notin Card

VARIABLES
  rows,    \* generated_cards: rows[c] is the request that inserted c
  lru,     \* lru[p][c]: what process p has cached about c
  keys,    \* cards with a "dedup:" key in Redis
  at,      \* where the check of each slot is
  cand,    \* the card in each slot
  tries,   \* regenerations of a single request
  phase    \* where each request is

vars == <<rows, lru, keys, at, cand, tries, phase>>

SlotsOf(r) == {s \in Slot : Owner[s] = r}
Resolved == {"fresh", "duplicate"}

TypeOK ==
  /\ rows \in [Card -> Request \cup {NoRequest}]
  /\ lru \in [Process -> [Card -> {"none", "exists", "missing"}]]
  /\ keys \subseteq Card
  /\ at \in [Slot -> {"draw", "local", "redis", "db", "setKey"} \cup Resolved]
  /\ cand \in [Slot -> Card \cup {NoCard}]
  /\ tries \in [Request -> 0..MaxRetries]
  /\ phase \in [Request -> {"checking", "storing", "markKey", "returned", "failed"}]
  /\ \A s \in Slot : at[s] # "draw" => cand[s] \in Card

Init ==
  /\ rows = [c \in Card |-> NoRequest]
  /\ lru = [p \in Process |-> [c \in Card |-> "none"]]
  /\ keys = {}
  /\ at = [s \in Slot |-> "draw"]
  /\ cand = [s \in Slot |-> NoCard]
  /\ tries = [r \in Request |-> 0]
  /\ phase = [r \in Request |-> "checking"]

-----------------------------------------------------------------------------
(* Drawing and checking.                                                   *)

\* generateFromBIN fills a slot.
Draw(s) ==
  /\ phase[Owner[s]] = "checking"
  /\ Kind[Owner[s]] # "all999"
  /\ at[s] = "draw"
  /\ \E c \in Card : cand' = [cand EXCEPT ![s] = c]
  /\ at' = [at EXCEPT ![s] = "local"]
  /\ UNCHANGED <<rows, lru, keys, tries, phase>>

\* generate999CardsWithCVV: the cards of a BIN, unchecked.
DrawAll(r) ==
  /\ phase[r] = "checking"
  /\ Kind[r] = "all999"
  /\ \E f \in [SlotsOf(r) -> Card] :
       cand' = [s \in Slot |-> IF s \in SlotsOf(r) THEN f[s] ELSE cand[s]]
  /\ at' = [s \in Slot |-> IF s \in SlotsOf(r) THEN "fresh" ELSE at[s]]
  /\ phase' = [phase EXCEPT ![r] = "storing"]
  /\ UNCHANGED <<rows, lru, keys, tries>>

\* What a "duplicate" answer does: a single request draws again until its
\* attempts are used up, then throws; a batch drops the slot.
AnswerDuplicate(s) ==
  LET r == Owner[s] IN
  IF Kind[r] = "single"
    THEN IF tries[r] < MaxRetries
           THEN /\ tries' = [tries EXCEPT ![r] = @ + 1]
                /\ at' = [at EXCEPT ![s] = "draw"]
                /\ UNCHANGED phase
           ELSE /\ phase' = [phase EXCEPT ![r] = "failed"]
                /\ at' = [at EXCEPT ![s] = "duplicate"]
                /\ UNCHANGED tries
    ELSE at' = [at EXCEPT ![s] = "duplicate"] /\ UNCHANGED <<tries, phase>>

AnswerFresh(s) ==
  /\ at' = [at EXCEPT ![s] = "fresh"]
  /\ UNCHANGED <<tries, phase>>

\* Level 1: a positive or negative entry of the LRU cache decides.
CheckLocal(s) ==
  LET entry == lru[Home[Owner[s]]][cand[s]] IN
  /\ at[s] = "local"
  /\ \A t \in SlotsOf(Owner[s]) : at[t] # "draw"
  /\ CASE entry = "exists"  -> AnswerDuplicate(s)
       [] entry = "missing" -> AnswerFresh(s)
       [] entry = "none"    -> /\ at' = [at EXCEPT ![s] = "redis"]
                               /\ UNCHANGED <<tries, phase>>
  /\ UNCHANGED <<rows, lru, keys, cand>>

\* Level 2: any key means duplicate; an absent or failing Redis is skipped.
CheckRedis(s) ==
  /\ at[s] = "redis"
  /\ \/ cand[s] \in keys /\ AnswerDuplicate(s)
     \/ /\ cand[s] \notin keys \/ "cache" \in Faults
        /\ at' = [at EXCEPT ![s] = "db"]
        /\ UNCHANGED <<tries, phase>>
  /\ UNCHANGED <<rows, lru, keys, cand>>

CacheLocally(r, c, entry) == lru' = [lru EXCEPT ![Home[r]][c] = entry]

\* Level 3.  A failing query counts as "not a duplicate" and caches nothing.
CheckDb(s) ==
  /\ at[s] = "db"
  /\ \/ /\ rows[cand[s]] # NoRequest
        /\ CacheLocally(Owner[s], cand[s], "exists")
        /\ AnswerDuplicate(s)
     \/ /\ rows[cand[s]] = NoRequest
        /\ at' = [at EXCEPT ![s] = "setKey"]
        /\ UNCHANGED <<lru, tries, phase>>
     \/ "db" \in Faults /\ AnswerFresh(s) /\ UNCHANGED lru
  /\ UNCHANGED <<rows, keys, cand>>

WriteKey(c) ==
  \/ keys' = keys \cup {c}
  \/ "cache" \in Faults /\ UNCHANGED keys

\* A card found NOT to exist gets the Redis key that later reads as duplicate.
SetKey(s) ==
  /\ at[s] = "setKey"
  /\ WriteKey(cand[s])
  /\ CacheLocally(Owner[s], cand[s], "missing")
  /\ AnswerFresh(s)
  /\ UNCHANGED <<rows, cand>>

-----------------------------------------------------------------------------
(* Storing.                                                                *)

\* All checks are answered.
Checked(r) ==
  /\ phase[r] = "checking"
  /\ Kind[r] # "all999"
  /\ \A s \in SlotsOf(r) : at[s] \in Resolved
  /\ phase' = [phase EXCEPT ![r] = "storing"]
  /\ UNCHANGED <<rows, lru, keys, at, cand, tries>>

\* Mutant of StoreSingle: the card is marked also when the INSERT failed.
StoreSingleMarksAnyway(r, s) ==
  /\ phase[r] = "storing"
  /\ Kind[r] = "single"
  /\ Owner[s] = r
  /\ phase' = [phase EXCEPT ![r] = "markKey"]
  /\ \/ /\ rows[cand[s]] = NoRequest
        /\ rows' = [rows EXCEPT ![cand[s]] = r]
     \/ "db" \in Faults /\ UNCHANGED rows
  /\ UNCHANGED <<lru, keys, at, cand, tries>>

\* GeneratedCardModel.create: a refused or failing INSERT is logged and the
\* card is returned all the same.
StoreSingle(r, s) ==
  /\ phase[r] = "storing"
  /\ Kind[r] = "single"
  /\ Owner[s] = r
  /\ \/ /\ rows[cand[s]] = NoRequest
        /\ rows' = [rows EXCEPT ![cand[s]] = r]
        /\ phase' = [phase EXCEPT ![r] = "markKey"]
     \/ /\ rows[cand[s]] # NoRequest
        /\ phase' = [phase EXCEPT ![r] = "returned"]
        /\ UNCHANGED rows
     \/ /\ "db" \in Faults
        /\ \/ UNCHANGED rows
           \/ /\ rows[cand[s]] = NoRequest      \* committed, the answer lost
              /\ rows' = [rows EXCEPT ![cand[s]] = r]
        /\ phase' = [phase EXCEPT ![r] = "returned"]
  /\ UNCHANGED <<lru, keys, at, cand, tries>>

\* GeneratedCardModel.createBatch: PostgreSQL parses at most one ON CONFLICT
\* clause and the statement has two, so it always throws; the callers log the
\* error and return the cards.
StoreBatch(r) ==
  /\ phase[r] = "storing"
  /\ Kind[r] = "batch"
  /\ phase' = [phase EXCEPT ![r] = "returned"]
  /\ UNCHANGED <<rows, lru, keys, at, cand, tries>>

StoreAll999(r) ==
  /\ phase[r] = "storing"
  /\ Kind[r] = "all999"
  /\ phase' = [phase EXCEPT ![r] = "returned"]
  /\ UNCHANGED <<rows, lru, keys, at, cand, tries>>

\* markAsGenerated: the key, then the local entry.
MarkAsGenerated(r, s) ==
  /\ phase[r] = "markKey"
  /\ Owner[s] = r
  /\ WriteKey(cand[s])
  /\ CacheLocally(r, cand[s], "exists")
  /\ phase' = [phase EXCEPT ![r] = "returned"]
  /\ UNCHANGED <<rows, at, cand, tries>>

-----------------------------------------------------------------------------
(* The environment: LRU eviction or expiry, Redis expiry.                  *)

EvictLocal(p, c) ==
  /\ "evict" \in Faults
  /\ lru[p][c] # "none"
  /\ lru' = [lru EXCEPT ![p][c] = "none"]
  /\ UNCHANGED <<rows, keys, at, cand, tries, phase>>

ExpireKey(c) ==
  /\ "cache" \in Faults
  /\ c \in keys
  /\ keys' = keys \ {c}
  /\ UNCHANGED <<rows, lru, at, cand, tries, phase>>

RequestStep(r) ==
  \/ DrawAll(r) \/ Checked(r) \/ StoreBatch(r) \/ StoreAll999(r)
  \/ \E s \in SlotsOf(r) :
       Draw(s) \/ CheckLocal(s) \/ CheckRedis(s) \/ CheckDb(s) \/ SetKey(s)
       \/ StoreSingle(r, s) \/ MarkAsGenerated(r, s)

Next ==
  \/ \E r \in Request : RequestStep(r)
  \/ \E p \in Process, c \in Card : EvictLocal(p, c)
  \/ \E c \in Card : ExpireKey(c)

Spec == Init /\ [][Next]_vars

-----------------------------------------------------------------------------
\* A positive local entry is always true: the card is stored.  (A negative one
\* may be stale: another request stored the card since.)
LocalHitIsTrue ==
  \A p \in Process, c \in Card : lru[p][c] = "exists" => rows[c] # NoRequest
=============================================================================
