------------------------------- MODULE Platform -------------------------------
(***************************************************************************)
(* Parts of the platform that share no state but the clock, each with      *)
(* parameters of its own, and what each of them guarantees.                *)
(***************************************************************************)
EXTENDS Integers, Sequences, FiniteSets

CONSTANTS
  None,
  Tenant, MainTenant, MainSlug, Slugs, Emails, Permissions, Updates, TenantRequest, Needs,
  AccessTokenTime, TenantWindow, MaxRequests, MaxUsers, MaxTokens, TenantTime, \* tenants
  Connection, Operation, KindOf, UserOf,                         \* row security
  Conflicts, Decisions, DaysOld, MaxItems, ReviewTime,           \* review queue
  Session, Methods, Addresses, Factors, Policies, Events, Behaviours, Hours,
  SessionAge, MaxLength, TrustTime,                              \* zero trust
  GatewayId, Configs, PassingRequest, Arrivals, GatewayWindow, ResponseAge, MaxGateways, GatewayTime, \* gateways
  Load, Lines, Names, Numbers, PageLimit, MaxPageLimit, MaxLoads, \* test cards
  Calculation, Reader, Today, Bin, DayLength, DayTime, TodayTime, BinTime, MaxCards,
  StatisticsTime,                                                \* card statistics
  ServedRequest, Handler, MaxRetries,                            \* start and shutdown
  LimitedRequest, User, Tier, PointsOf(_), Path, Routes, DefaultPoints, DefaultDuration,
  BlockDuration, Second, MaxCacheSize, FailPolicy, LimitTime,    \* rate limiting
  Holder, Proofs, Patterns, Platforms, PatternHours, PatternAge, MaxProofs, MaxPatterns, IdentityTime, \* identity
  GoldenBin, Sources, Entries, WeightOf(_), Modes, MinRecords, SampleSize, MaxProcesses \* golden set

VARIABLES
  now,
  tenants, users, tokens, requests, windows, ended,              \* tenants
  sessionWide, owner, context, stage,                            \* row security
  resolutions, queue,                                            \* review queue
  contexts, policies, sessions, patterns, accesses, analyses,    \* zero trust
  gateways, objects, passing,                                    \* gateways
  slugs, cards, loads, reader,                                   \* test cards
  made, inserting, daily, kept, calculations, readers, overlapped,\* card statistics
  starting, attempt, redisClient, limiterStore, jobQueue, pool, io, accepting, served, handlers, exit,
  cut,                                                           \* start and shutdown
  tiers, client, records, limiterCache, limited, promised,       \* rate limiting
  proofs, devices, behaviour, answers,                           \* identity
  listings, table, goldenSet, sample, notes, baseline, report, comparison, processed \* golden set

Tenancy == INSTANCE Tenants WITH
  Request <- TenantRequest, WindowMs <- TenantWindow, MaxTime <- TenantTime

Rows == INSTANCE RowSecurity WITH Client <- Connection

Review == INSTANCE ReviewQueue WITH Values <- Decisions, MaxTime <- ReviewTime

Trust == INSTANCE ZeroTrust WITH MaxAge <- SessionAge, MaxTime <- TrustTime

Gates == INSTANCE Gateways WITH
  Request <- PassingRequest, WindowMs <- GatewayWindow, MaxAge <- ResponseAge, MaxTime <- GatewayTime,
  Requests <- Arrivals, requests <- passing

Tests == INSTANCE TestCards WITH
  Run <- Load, Limit <- PageLimit, MaxLimit <- MaxPageLimit, MaxRuns <- MaxLoads, gateways <- slugs, runs <- loads

Statistics == INSTANCE CardStatistics WITH
  cards <- made, rows <- daily, cache <- kept, MaxTime <- StatisticsTime

Server == INSTANCE ServerLifecycle WITH
  stage <- starting, requests <- served, Request <- ServedRequest

Limits == INSTANCE RateLimiting WITH
  Request <- LimitedRequest, MaxTime <- LimitTime, requests <- limited

Identities == INSTANCE Identity WITH
  Session <- Holder, Behaviours <- Patterns, Hours <- PatternHours, MaxAge <- PatternAge,
  MaxLength <- MaxPatterns, MaxTime <- IdentityTime

Golden == INSTANCE GoldenSet WITH Bin <- GoldenBin, rows <- listings, processes <- processed

\* An operation has a kind and a user, and none of them stands for nobody.
ASSUME OperationsAssumption ==
  /\ None \notin Operation
  /\ KindOf \in [Operation -> Rows!Kinds]
  /\ DOMAIN UserOf = Operation

\* What stands for an item that was cleared is no item.
ReviewItem ==
  [status : {"pending", "in-progress"} \cup Review!Settled, priority : {"low", "medium", "high", "critical"},
   createdAt : Nat, resolvedAt : Nat \cup {None}]
ASSUME ClearedAssumption == None \notin ReviewItem

\* The gateways have had finitely many requests.
ASSUME PassingAssumption == IsFiniteSet(PassingRequest)

\* The two other keys of the cache are no days.
ASSUME KeysAssumption == Today # Bin /\ {Today, Bin} \cap Statistics!Day = {}

\* What a client asks for is a number of cards (cards.ts).
ASSUME PagesAssumption == PageLimit \in Nat \ {0} /\ MaxPageLimit \in Nat \ {0}

\* What a client hands in as a proof (zeroTrust.ts).
ASSUME ProofsAssumption == Proofs \subseteq [type : DOMAIN Identities!Weights, sound : BOOLEAN, confidence : Int]

\* The rows of the sources come one after the other, and their sources weigh
\* something (verificationProtocol.ts).
ASSUME SourcesAssumption ==
  \A l \in Sources : l \in Seq({l[i] : i \in DOMAIN l}) /\ \A i \in DOMAIN l : WeightOf(l[i].source) \in Nat

\* Points are counted and windows last (rateLimit.ts and its routes), and what
\* stands for no record and no promise is none.
Limit == [points : Nat, duration : Nat \ {0}]
LimitRecord == [consumed : Nat, began : Nat, expires : Nat]
Promise == [come : Nat, began : Nat]
ASSUME LimitsAssumption ==
  /\ Second \in Nat \ {0} /\ BlockDuration \in Nat \ {0}
  /\ DefaultPoints \in Nat /\ DefaultDuration \in Nat \ {0}
  /\ \A t \in Tier : PointsOf(t) \in Nat
  /\ \A a \in Routes : a.path \in Path /\ (a.points # None => a.points \in Nat /\ a.duration \in Nat \ {0})
ASSUME NoRecordAssumption == None \notin LimitRecord /\ None \notin Promise

-----------------------------------------------------------------------------
\* A request is served only to a user of the tenant whose id it was validated
\* with, with that user's rights, and not once the tenant is terminated
\* (tenantAuth.ts).
ServedAsItsUser == Tenancy!ServedAsItsUser

\* A query that has a user never runs as another one (rls.ts, connection.ts).
QueryRunsAsItsUser == Rows!QueryRunsAsItsUser

\* What somebody still has to decide is not cleared (manualReviewQueue.ts).
OpenIsKept == Review!OpenIsKept

\* An active session has a context (zeroTrust.ts).
ActiveHasContext == Trust!ActiveHasContext

\* A gateway's metrics add up (secureGateways.ts).
EveryRequestIsCounted == Gates!EveryRequestIsCounted

\* A load that is done has loaded every card of the file (testCardsETL.ts).
DoneIsLoaded == Tests!DoneIsLoaded

\* A client that turns pages misses no card (testCard.ts, cards.ts).
PagesMissNothing == Tests!PagesMissNothing

\* The cached row of a day is the row (cardStatistics.ts).
CachedRowIsTheRow == Statistics!CachedRowIsTheRow

\* An exit with 0 has closed the queue and the pool (index.ts).
ExitIsClean == Server!ExitIsClean

\* Whoever comes back after Retry-After is not refused by the same record
\* (rateLimit.ts).
RetryAfterHolds == Limits!RetryAfterHolds

\* A session has trust exactly as long as it has a proof that is not refused
\* (zeroTrust.ts).
TrustIsEarned == Identities!TrustIsEarned

\* What is golden is what most sources agree on (verificationProtocol.ts,
\* generate-from-sources.ts).
GoldenIsAgreed == Golden!GoldenIsAgreed

\* The two scripts that judge by the golden set do not contradict each other
\* (accuracyFramework.ts, validate.ts).
MeasuresAgree == Golden!MeasuresAgree
=============================================================================
