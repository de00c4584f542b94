----------------------------- MODULE RateLimiting ----------------------------
(***************************************************************************)
(* rateLimit.ts: a request is counted in Redis under its user and path by  *)
(* the limiter of its route, or, where the route does not say, of the      *)
(* user's tier. Limiters of one path share a record, whatever their points *)
(* and windows are. The counting is rate-limiter-flexible's: whoever goes  *)
(* past the points first has the record rewritten to end a minute later.   *)
(***************************************************************************)
EXTENDS Integers, Sequences, SequencesExt

CONSTANTS
  Request,
  User,
  Tier,
  PointsOf(_),   \* getRateLimitByTier
  Path,
  Routes,        \* the options of the routes: [path, points, duration], points None for the tier's
  DefaultPoints, DefaultDuration, BlockDuration, \* in seconds
  Second,        \* steps of the clock
  MaxCacheSize,
  FailPolicy,    \* "open" or "closed"
  MaxTime,       \* bound of the model
  None

VARIABLES
  now,
  tiers,        \* None for who is known by the address only
  client,       \* whether there is a Redis client
  records,      \* in Redis, by user and path: the points consumed, when the key began and when it expires
  limiterCache, \* keys of limiters, oldest first
  requests,
  promised      \* when whoever was refused may come again

limitVars == <<now, tiers, client, records, limiterCache, requests, promised>>

Key == User \X Path
Idle == [at |-> "none"]

\* Everything is of its kind.
TypeOK ==
  /\ now \in 0..MaxTime /\ tiers \in [User -> Tier \cup {None}] /\ client \in BOOLEAN
  /\ \A k \in Key : records[k] # None => records[k].consumed > 0 /\ records[k].expires > now
  /\ Len(limiterCache) <= MaxCacheSize
  /\ \A r \in Request : requests[r].at \in {"none", "consuming", "blocking", "passed", "refused", "unavailable"}
  /\ \A k \in Key : promised[k] # None => promised[k].come \in Nat

Init ==
  /\ now = 0 /\ tiers \in [User -> Tier \cup {None}] /\ client \in BOOLEAN
  /\ records = [k \in Key |-> None] /\ limiterCache = <<>>
  /\ requests = [r \in Request |-> Idle] /\ promised = [k \in Key |-> None]

-----------------------------------------------------------------------------
\* Points and seconds of a route for a user, who may be unknown: the limiter of
\* the whole API comes before the authentication.
Limit(route, user) ==
  IF route.points # None THEN [points |-> route.points, duration |-> route.duration]
  ELSE IF tiers[user] = None THEN [points |-> DefaultPoints, duration |-> DefaultDuration]
  ELSE [points |-> PointsOf(tiers[user]), duration |-> 60]

\* A limiter that is not in the cache is made; past the size the oldest goes,
\* which loses nothing, for the counts are in Redis.
Cached(limit) ==
  IF limit \in ToSet(limiterCache) THEN limiterCache
  ELSE LET more == Append(limiterCache, limit)
       IN  IF Len(more) > MaxCacheSize THEN Tail(more) ELSE more

\* Without a client the policy decides.
Receive(r, user, route) ==
  /\ requests[r].at = "none"
  /\ IF ~client
       THEN /\ requests' = [requests EXCEPT ![r] = [at |-> IF FailPolicy = "closed" THEN "unavailable" ELSE "passed"]]
            /\ UNCHANGED limiterCache
       ELSE /\ requests' = [requests EXCEPT ![r] = [at |-> "consuming", key |-> <<user, route.path>>,
                                                    limit |-> Limit(route, user)]]
            /\ limiterCache' = Cached(Limit(route, user))
  /\ UNCHANGED <<now, tiers, client, records, promised>>

\* Mutant of RetryAfter: the rest of a second is not waited for.
RetryAfterFloor(expires) == (expires - now) \div Second

\* The header's whole seconds.
RetryAfter(expires) == (expires - now + Second - 1) \div Second

\* What is told while another request of the key is still to rewrite the record
\* is no promise.
Refuse(r, record) ==
  /\ requests' = [requests EXCEPT ![r] = [at |-> "refused"]]
  /\ LET k == requests[r].key
         come == now + RetryAfter(record.expires) * Second
     IN  promised' = IF \E q \in Request \ {r} : requests[q].at = "blocking" /\ requests[q].key = k THEN promised
                     ELSE [promised EXCEPT ![k] = [come |-> come, began |-> record.began]]

\* Redis counts the request in the record, or in a new one that expires after the
\* limiter's duration.
Consume(r) ==
  /\ requests[r].at = "consuming"
  /\ LET k == requests[r].key
         limit == requests[r].limit
         record == IF records[k] = None THEN [consumed |-> 1, began |-> now, expires |-> now + limit.duration * Second]
                   ELSE [records[k] EXCEPT !.consumed = @ + 1]
     IN  /\ records' = [records EXCEPT ![k] = record]
         /\ \/ /\ record.consumed <= limit.points
               /\ requests' = [requests EXCEPT ![r] = [at |-> "passed"]] /\ UNCHANGED promised
            \/ /\ record.consumed = limit.points + 1
               /\ requests' = [requests EXCEPT ![r].at = "blocking"] /\ UNCHANGED promised
            \/ record.consumed > limit.points + 1 /\ Refuse(r, record)
  /\ UNCHANGED <<now, tiers, client, limiterCache>>

\* The first refused request rewrites the record.
Block(r) ==
  /\ requests[r].at = "blocking"
  /\ LET k == requests[r].key
         record == [consumed |-> requests[r].limit.points + 1, expires |-> now + BlockDuration * Second,
                    began |-> IF records[k] = None THEN now ELSE records[k].began]
     IN  records' = [records EXCEPT ![k] = record] /\ Refuse(r, record)
  /\ UNCHANGED <<now, tiers, client, limiterCache>>

\* An error of Redis lets the request pass, with whatever policy.
ConsumeFails(r) ==
  /\ requests[r].at \in {"consuming", "blocking"}
  /\ requests' = [requests EXCEPT ![r] = [at |-> "passed"]]
  /\ UNCHANGED <<now, tiers, client, records, limiterCache, promised>>

\* The user is given another tier.
ChangeTier(u, t) ==
  /\ tiers[u] \notin {t, None} /\ tiers' = [tiers EXCEPT ![u] = t]
  /\ UNCHANGED <<now, client, records, limiterCache, requests, promised>>

Tick ==
  /\ now < MaxTime /\ now' = now + 1
  /\ records' = [k \in Key |-> IF records[k] # None /\ records[k].expires <= now' THEN None ELSE records[k]]
  /\ UNCHANGED <<tiers, client, limiterCache, requests, promised>>

Next ==
  \/ \E r \in Request :
       \/ \E u \in User, route \in Routes : Receive(r, u, route)
       \/ Consume(r)
       \/ Block(r)
       \/ ConsumeFails(r)
  \/ \E u \in User, t \in Tier : ChangeTier(u, t)
  \/ Tick

-----------------------------------------------------------------------------
(* Properties *)

\* The record that refuses a client is gone after the seconds of Retry-After,
\* whatever others do in between on that path and however long the limiter's
\* own window is, unless several limiters, or those of several tiers, share the
\* record: one with more points rewrites it once more.
RetryAfterHolds ==
  \A k \in Key :
    /\ \A a, b \in Routes : a.path = k[2] /\ b.path = k[2] => a = b /\ a.points # None
    /\ records[k] # None /\ promised[k] # None /\ records[k].began = promised[k].began
    => records[k].expires <= promised[k].come

=============================================================================
