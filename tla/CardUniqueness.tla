--------------------------- MODULE CardUniqueness ---------------------------
(***************************************************************************)
(* Card generation with the uniqueness guarantee: concurrent calls of      *)
(* CardGenerationService.generateWithUniqueness (src/services/             *)
(* cardGeneration.ts), each running the layers of UniquenessService        *)
(* (src/services/uniquenessService.ts) against one PostgreSQL database     *)
(* (the functions of migration 007) and one Redis.                         *)
(*                                                                         *)
(* Every await of the code is a step of its own, because any other request *)
(* of this or another process may run there.  A card stands for the triple *)
(* (number, expiry, cvv) and for its SHA-256 hash.                         *)
(***************************************************************************)
EXTENDS Naturals

CONSTANTS
  Request,      \* calls of generateWithUniqueness
  Card,         \* the cards generateFromBIN can produce
  Conn,         \* pooled database connections
  Process,      \* server processes
  Home,         \* Home[x]: the process of a request or of a connection
  MaxRetries,   \* maxRetries, 10 in the code
  Faults,       \* what the environment may do in this instance
  NoRequest,
  NoCard

\* "db": a query fails, before or after taking effect; "cache": Redis fails,
\* is absent or drops a key; "lease": reserved_until passes while a request
\* still runs; "recycle": the pool closes a connection and its session locks
\* go with it; "crash": a process dies.
FaultKinds == {"db", "cache", "lease", "recycle", "crash"}

ASSUME NoRequestAssumption == NoRequest \notin Request
ASSUME NoCardAssumption == NoCard \notin Card
ASSUME HomeAssumption == Home \in [Request \cup Conn -> Process]
ASSUME MaxRetriesAssumption == MaxRetries \in Nat
ASSUME FaultsAssumption == Faults \subseteq FaultKinds
\* Cards and the two other outcomes of a request are different things.
ASSUME OutcomeAssumption == "pending" \notin Card /\ "failed" \notin Card

VARIABLES
  stored,    \* generated_cards: stored[c] is the request whose INSERT made the row
  row,       \* card_uniqueness_pool: no row, a live row or an expired one
  holder,    \* the request whose reservation the pool row records
  locks,     \* session advisory locks: how often connection n holds card c's lock
  cached,    \* cards with a "uniqueness:" key in Redis
  pc,        \* where each request is
  cand,      \* its candidate card
  pass,      \* first or second run of checkUniqueness for this candidate
  attempts   \* candidates tried

dbVars == <<stored, row, holder, locks>>
vars == <<stored, row, holder, locks, cached, pc, cand, pass, attempts>>

\* Locations at which a request believes it holds a reservation.
ReservedAt == {"cacheReservation", "create", "markCached",
               "returnRelease", "throwRelease"}
UncacheAt == {"returnUncache", "throwUncache"}
Ended == {"returned", "failed", "crashed"}
Location == {"generate", "checkCache", "checkPool", "checkDb", "reserve"}
            \cup ReservedAt \cup UncacheAt \cup Ended

TypeOK ==
  /\ stored \in [Card -> Request \cup {NoRequest}]
  /\ row \in [Card -> {"absent", "live", "expired"}]
  /\ holder \in [Card -> Request \cup {NoRequest}]
  /\ locks \in [Conn -> [Card -> Nat]]
  /\ cached \subseteq Card
  /\ pc \in [Request -> Location]
  /\ cand \in [Request -> Card \cup {NoCard}]
  /\ pass \in [Request -> 1..2]
  /\ attempts \in [Request -> 0..MaxRetries]
  /\ \A r \in Request : cand[r] = NoCard => pc[r] \in {"generate", "failed", "crashed"}

Init ==
  /\ stored = [c \in Card |-> NoRequest]
  /\ row = [c \in Card |-> "absent"]
  /\ holder = [c \in Card |-> NoRequest]
  /\ locks = [n \in Conn |-> [c \in Card |-> 0]]
  /\ cached = {}
  /\ pc = [r \in Request |-> "generate"]
  /\ cand = [r \in Request |-> NoCard]
  /\ pass = [r \in Request |-> 1]
  /\ attempts = [r \in Request |-> 0]

-----------------------------------------------------------------------------
Goto(r, l) == pc' = [pc EXCEPT ![r] = l]

Unlocked == [c \in Card |-> 0]
\* Any connection of the pool of r's process may run a query of r.
ConnOf(r) == {n \in Conn : Home[n] = Home[r]}

\* A connection ends: PostgreSQL drops the session's advisory locks.
Disconnect(N) == locks' = [n \in Conn |-> IF n \in N THEN Unlocked ELSE locks[n]]

-----------------------------------------------------------------------------
(* One attempt of the retry loop.                                          *)

\* attempts++; generateFromBIN draws a random number and cvv.
Generate(r) ==
  /\ pc[r] = "generate"
  /\ attempts[r] < MaxRetries
  /\ \E c \in Card : cand' = [cand EXCEPT ![r] = c]
  /\ attempts' = [attempts EXCEPT ![r] = @ + 1]
  /\ pass' = [pass EXCEPT ![r] = 1]
  /\ Goto(r, "checkCache")
  /\ UNCHANGED <<dbVars, cached>>

\* The loop ends without a card: the call throws.
GiveUp(r) ==
  /\ pc[r] = "generate"
  /\ attempts[r] >= MaxRetries
  /\ Goto(r, "failed")
  /\ UNCHANGED <<dbVars, cached, cand, pass, attempts>>

\* Layer 5.  A Redis that is absent or fails lets the candidate through.
CheckCache(r) ==
  /\ pc[r] = "checkCache"
  /\ \/ cand[r] \in cached /\ Goto(r, "generate")
     \/ (cand[r] \notin cached \/ "cache" \in Faults) /\ Goto(r, "checkPool")
  /\ UNCHANGED <<dbVars, cached, cand, pass, attempts>>

\* Layer 3 (the Bloom filter of layer 4 never decides).  A failing query lets
\* the candidate through.
CheckPool(r) ==
  /\ pc[r] = "checkPool"
  /\ \/ row[cand[r]] = "live" /\ Goto(r, "generate")
     \/ (row[cand[r]] # "live" \/ "db" \in Faults) /\ Goto(r, "checkDb")
  /\ UNCHANGED <<dbVars, cached, cand, pass, attempts>>

\* Layer 2.  Here a failing query counts as "not unique".  checkAndReserve
\* checks, then calls reserveCardHash, which runs the whole check again.
CheckDb(r) ==
  /\ pc[r] = "checkDb"
  /\ \/ /\ stored[cand[r]] # NoRequest \/ "db" \in Faults
        /\ Goto(r, "generate")
        /\ UNCHANGED pass
     \/ /\ stored[cand[r]] = NoRequest
        /\ IF pass[r] = 1
             THEN Goto(r, "checkCache") /\ pass' = [pass EXCEPT ![r] = 2]
             ELSE Goto(r, "reserve") /\ UNCHANGED pass
  /\ UNCHANGED <<dbVars, cached, cand, attempts>>

\* Mutant of Grantable: the pool is not looked at
GrantableLockOnly(n, c) ==
  /\ \A m \in Conn \ {n} : locks[m][c] = 0
  /\ stored[c] = NoRequest

\* Mutant of Grantable: generated_cards is not looked at
GrantableIgnoresStored(n, c) ==
  /\ \A m \in Conn \ {n} : locks[m][c] = 0
  /\ row[c] # "live"

\* reserve_card_hash grants only when the advisory lock is free or already
\* held by this very session, and neither a live pool row nor a card exists.
Grantable(n, c) ==
  /\ \A m \in Conn \ {n} : locks[m][c] = 0
  /\ row[c] # "live"
  /\ stored[c] = NoRequest

RecordReservation(r) ==
  /\ row' = [row EXCEPT ![cand[r]] = "live"]
  /\ holder' = [holder EXCEPT ![cand[r]] = r]

\* The SQL function is one step: the lock serialises it against itself.  When
\* granted it keeps the session lock; when refused it leaves the lock as it was.
Reserve(r, n) ==
  /\ pc[r] = "reserve"
  /\ n \in ConnOf(r)
  /\ IF Grantable(n, cand[r])
       THEN /\ RecordReservation(r)
            /\ locks' = [locks EXCEPT ![n][cand[r]] = @ + 1]
            /\ Goto(r, "cacheReservation")
       ELSE /\ UNCHANGED <<row, holder, locks>>
            /\ Goto(r, "generate")
  /\ UNCHANGED <<stored, cached, cand, pass, attempts>>

\* The query throws and checkAndReserveCardHash reports "not unique".  The
\* connection broke; the reservation may have been recorded before.
ReserveFault(r, n) ==
  /\ "db" \in Faults
  /\ pc[r] = "reserve"
  /\ n \in ConnOf(r)
  /\ \/ Grantable(n, cand[r]) /\ RecordReservation(r)
     \/ UNCHANGED <<row, holder>>
  /\ Disconnect({n})
  /\ Goto(r, "generate")
  /\ UNCHANGED <<stored, cached, cand, pass, attempts>>

\* SETEX, whose failure is swallowed.
WriteCache(r) ==
  \/ cached' = cached \cup {cand[r]}
  \/ "cache" \in Faults /\ UNCHANGED cached

CacheReservation(r) ==
  /\ pc[r] = "cacheReservation"
  /\ WriteCache(r)
  /\ Goto(r, "create")
  /\ UNCHANGED <<dbVars, cand, pass, attempts>>

-----------------------------------------------------------------------------
(* Saving the card.                                                        *)

\* Mutant of Create: a refused INSERT counts as saved
CreateSwallowsDuplicate(r) ==
  /\ pc[r] = "create"
  /\ Goto(r, "markCached")
  /\ IF stored[cand[r]] = NoRequest
       THEN stored' = [stored EXCEPT ![cand[r]] = r]
       ELSE UNCHANGED stored
  /\ UNCHANGED <<row, holder, locks, cached, cand, pass, attempts>>

\* INSERT INTO generated_cards: the unique index refuses a second row.
Create(r) ==
  /\ pc[r] = "create"
  /\ IF stored[cand[r]] = NoRequest
       THEN stored' = [stored EXCEPT ![cand[r]] = r] /\ Goto(r, "markCached")
       ELSE UNCHANGED stored /\ Goto(r, "throwRelease")
  /\ UNCHANGED <<row, holder, locks, cached, cand, pass, attempts>>

\* The INSERT throws for another reason; it may have committed.
CreateFault(r, n) ==
  /\ "db" \in Faults
  /\ pc[r] = "create"
  /\ n \in ConnOf(r)
  /\ \/ /\ stored[cand[r]] = NoRequest
        /\ stored' = [stored EXCEPT ![cand[r]] = r]
     \/ UNCHANGED stored
  /\ Disconnect({n})
  /\ Goto(r, "throwRelease")
  /\ UNCHANGED <<row, holder, cached, cand, pass, attempts>>

\* markAsGenerated: the key is written again, with the longer TTL ...
MarkCached(r) ==
  /\ pc[r] = "markCached"
  /\ WriteCache(r)
  /\ Goto(r, "returnRelease")
  /\ UNCHANGED <<dbVars, cand, pass, attempts>>

\* ... then releaseCardHash, also run when saving failed.  release_card_hash
\* deletes the pool row whoever reserved it, and unlocks in the session of
\* whichever pooled connection runs it.
EraseReservation(r) ==
  /\ row' = [row EXCEPT ![cand[r]] = "absent"]
  /\ holder' = [holder EXCEPT ![cand[r]] = NoRequest]

Release(r, n) ==
  /\ pc[r] \in {"returnRelease", "throwRelease"}
  /\ n \in ConnOf(r)
  /\ EraseReservation(r)
  /\ locks' = [locks EXCEPT ![n][cand[r]] = IF @ > 0 THEN @ - 1 ELSE 0]
  /\ Goto(r, IF pc[r] = "returnRelease" THEN "returnUncache" ELSE "throwUncache")
  /\ UNCHANGED <<stored, cached, cand, pass, attempts>>

\* A failing release is swallowed and the Redis key is left alone.
ReleaseFault(r, n) ==
  /\ "db" \in Faults
  /\ pc[r] \in {"returnRelease", "throwRelease"}
  /\ n \in ConnOf(r)
  /\ EraseReservation(r) \/ UNCHANGED <<row, holder>>
  /\ Disconnect({n})
  /\ Goto(r, IF pc[r] = "returnRelease" THEN "returned" ELSE "failed")
  /\ UNCHANGED <<stored, cached, cand, pass, attempts>>

\* releaseCardHash removes the Redis key, the one markAsGenerated just wrote.
Uncache(r) ==
  /\ pc[r] \in UncacheAt
  /\ \/ cached' = cached \ {cand[r]}
     \/ "cache" \in Faults /\ UNCHANGED cached
  /\ Goto(r, IF pc[r] = "returnUncache" THEN "returned" ELSE "failed")
  /\ UNCHANGED <<dbVars, cand, pass, attempts>>

-----------------------------------------------------------------------------
(* The environment.                                                        *)

\* reserved_until passes.
LeaseExpires(c) ==
  /\ "lease" \in Faults
  /\ row[c] = "live"
  /\ row' = [row EXCEPT ![c] = "expired"]
  /\ UNCHANGED <<stored, holder, locks, cached, pc, cand, pass, attempts>>

\* cleanup_expired_reservations deletes the expired rows and no lock.
CleanupExpired ==
  /\ \E c \in Card : row[c] = "expired"
  /\ row' = [c \in Card |-> IF row[c] = "expired" THEN "absent" ELSE row[c]]
  /\ holder' = [c \in Card |-> IF row[c] = "expired" THEN NoRequest ELSE holder[c]]
  /\ UNCHANGED <<stored, locks, cached, pc, cand, pass, attempts>>

CacheExpires(c) ==
  /\ "cache" \in Faults
  /\ c \in cached
  /\ cached' = cached \ {c}
  /\ UNCHANGED <<dbVars, pc, cand, pass, attempts>>

Recycle(n) ==
  /\ "recycle" \in Faults
  /\ locks[n] # Unlocked
  /\ Disconnect({n})
  /\ UNCHANGED <<stored, row, holder, cached, pc, cand, pass, attempts>>

\* A process dies with its requests and connections; rows and keys survive.
Crash(p) ==
  /\ "crash" \in Faults
  /\ \E r \in Request : Home[r] = p /\ pc[r] \notin Ended
  /\ pc' = [r \in Request |->
              IF Home[r] = p /\ pc[r] \notin Ended THEN "crashed" ELSE pc[r]]
  /\ Disconnect({n \in Conn : Home[n] = p})
  /\ UNCHANGED <<stored, row, holder, cached, cand, pass, attempts>>

-----------------------------------------------------------------------------
RequestStep(r) ==
  \/ Generate(r) \/ GiveUp(r)
  \/ CheckCache(r) \/ CheckPool(r) \/ CheckDb(r)
  \/ CacheReservation(r) \/ Create(r) \/ MarkCached(r) \/ Uncache(r)
  \/ \E n \in Conn : Reserve(r, n) \/ ReserveFault(r, n) \/ CreateFault(r, n)
                     \/ Release(r, n) \/ ReleaseFault(r, n)

Environment ==
  \/ \E c \in Card : LeaseExpires(c) \/ CacheExpires(c)
  \/ CleanupExpired
  \/ \E n \in Conn : Recycle(n)
  \/ \E p \in Process : Crash(p)

Next == (\E r \in Request : RequestStep(r)) \/ Environment

Spec == Init /\ [][Next]_vars

-----------------------------------------------------------------------------
(* What generation promises: the abstract registry, seen through this map. *)

Outcome == [r \in Request |->
              CASE pc[r] = "returned" -> cand[r]
                [] pc[r] \in {"failed", "crashed"} -> "failed"
                [] OTHER -> "pending"]

Registry == INSTANCE CardRegistry WITH owner <- stored, outcome <- Outcome

\* Generation implements the registry: a returned card is a stored row made by
\* this very request, no request stores two cards, and a stored card is never
\* handed out again, whatever the layers, the leases and the failures do.
RegistryRefined == Registry!RegistrySpec

\* A request that believes it holds a reservation is the one recorded in the
\* live pool row of its candidate: no two requests work on the same card, and
\* no release removes the reservation of another.  Leases must not run out.
ReservationBacked ==
  \A r \in Request : pc[r] \in ReservedAt =>
    row[cand[r]] = "live" /\ holder[cand[r]] = r

\* While a request is about to INSERT its candidate nobody has stored that card,
\* however stale the checks that led there are: with leases that do not run out
\* the unique index never has to refuse a row.
FreshUntilCreate ==
  \A r \in Request :
    pc[r] \in {"cacheReservation", "create"} => stored[cand[r]] = NoRequest
=============================================================================
