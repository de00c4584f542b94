--------------------------- MODULE ServerLifecycle ---------------------------
(***************************************************************************)
(* The API process from startServer to process.exit: what is connected in  *)
(* which order, the requests and probes served in between, and the handler *)
(* that every signal, and an exception nobody catches, starts once more.   *)
(* A call of PostgreSQL or Redis may fail at any time.                     *)
(***************************************************************************)
EXTENDS Integers, Sequences

CONSTANTS
  Request,    \* HTTP requests, each of which may query more than once
  Handler,    \* runs of gracefulShutdown
  MaxRetries  \* Database.maxRetries

VARIABLES
  stage,        \* of startServer
  attempt,      \* of Database.connect
  redisClient,  \* 0 stands for null, 1 and 2 for the first and the second client made
  limiterStore, \* the client of rateLimiter, or 0
  jobQueue,     \* "none", "open" or "closing"
  pool,         \* "open", "ending" or "ended"
  io, accepting,
  requests,
  handlers,
  exit, cut     \* how the process ended, with 0 "graceful", and the requests whose query ran then

lifecycleVars == <<stage, attempt, redisClient, limiterStore, jobQueue, pool, io, accepting,
                   requests, handlers, exit, cut>>

Steps == <<"validate", "connect", "schema", "limiter", "redis", "queue", "services", "seed", "listen">>

\* Everything is of its kind.
TypeOK ==
  /\ stage \in {Steps[i] : i \in DOMAIN Steps} \cup {"running"} /\ attempt \in 1..MaxRetries
  /\ redisClient \in 0..2 /\ limiterStore \in 0..1
  /\ jobQueue \in {"none", "open", "closing"} /\ pool \in {"open", "ending", "ended"}
  /\ io \in BOOLEAN /\ accepting \in BOOLEAN
  /\ requests \in [Request -> {"none", "waiting", "querying", "checking", "answered", "refused"}]
  /\ handlers \in [Handler -> {"none", "websocket", "queue", "queueClosing", "pool", "poolEnding", "limiter", "ended"}]
  /\ exit \in {"none", "signal", "graceful", "failed"} /\ cut \subseteq Request

Init ==
  /\ stage = "validate" /\ attempt = 1 /\ redisClient = 0 /\ limiterStore = 0
  /\ jobQueue = "none" /\ pool = "open" /\ io = FALSE /\ accepting = FALSE
  /\ requests = [r \in Request |-> "none"] /\ handlers = [h \in Handler |-> "none"]
  /\ exit = "none" /\ cut = {}

Exit(code) ==
  /\ exit' = code
  /\ cut' = {r \in Request : requests[r] \in {"querying", "checking"}}

-----------------------------------------------------------------------------
(* startServer *)

At(s) == stage = s /\ exit = "none"
Goes(s) == stage' = s /\ UNCHANGED <<exit, cut>>
GoesOrExits(s) == Goes(s) \/ (Exit("failed") /\ UNCHANGED stage)

ValidateConfig ==
  /\ At("validate") /\ GoesOrExits("connect")
  /\ UNCHANGED <<attempt, redisClient, limiterStore, jobQueue, pool, io, accepting, requests, handlers>>

\* Mutant of Connect: after the last failure the attempts begin anew.
ConnectForever ==
  /\ At("connect")
  /\ \/ Goes("schema") /\ UNCHANGED attempt
     \/ attempt' = (attempt % MaxRetries) + 1 /\ UNCHANGED <<stage, exit, cut>>
  /\ UNCHANGED <<redisClient, limiterStore, jobQueue, pool, io, accepting, requests, handlers>>

\* After a failure it is tried again a second, then two seconds later.
Connect ==
  /\ At("connect")
  /\ \/ Goes("schema") /\ UNCHANGED attempt
     \/ attempt < MaxRetries /\ attempt' = attempt + 1 /\ UNCHANGED <<stage, exit, cut>>
     \/ attempt = MaxRetries /\ Exit("failed") /\ UNCHANGED <<stage, attempt>>
  /\ UNCHANGED <<redisClient, limiterStore, jobQueue, pool, io, accepting, requests, handlers>>

\* The schema and the seed of countries may fail; the filter and the uniqueness
\* service look at the database and Redis and come up without them.
Database(s, next) ==
  /\ At(s) /\ GoesOrExits(next)
  /\ UNCHANGED <<attempt, redisClient, limiterStore, jobQueue, pool, io, accepting, requests, handlers>>
Services ==
  /\ At("services") /\ Goes("seed")
  /\ UNCHANGED <<attempt, redisClient, limiterStore, jobQueue, pool, io, accepting, requests, handlers>>

\* A new client, also where there is one already; that one stays connected. With
\* clusters a single instance is tried when the cluster is not reached.
InitializeRedis(client) == redisClient' \in {0, client}

\* The limiter keeps the first client, or is left out.
InitializeRateLimiter ==
  /\ At("limiter") /\ Goes("redis")
  /\ InitializeRedis(1) /\ limiterStore' = redisClient'
  /\ UNCHANGED <<attempt, jobQueue, pool, io, accepting, requests, handlers>>

InitializeRedisAgain ==
  /\ At("redis") /\ Goes("queue")
  /\ InitializeRedis(2)
  /\ UNCHANGED <<attempt, limiterStore, jobQueue, pool, io, accepting, requests, handlers>>

InitializeJobQueue ==
  /\ At("queue") /\ Goes("services")
  /\ IF redisClient = 0 THEN UNCHANGED jobQueue ELSE jobQueue' \in {"none", "open"}
  /\ UNCHANGED <<attempt, redisClient, limiterStore, pool, io, accepting, requests, handlers>>

\* The sockets are attached, the port is asked for and the handlers are there. A
\* port that is taken is an exception nobody catches.
Listen ==
  /\ At("listen") /\ Goes("running")
  /\ io' = TRUE
  /\ \/ accepting' = TRUE /\ UNCHANGED handlers
     \/ \E h \in Handler : handlers' = [handlers EXCEPT ![h] = "websocket"] /\ UNCHANGED accepting
  /\ UNCHANGED <<attempt, redisClient, limiterStore, jobQueue, pool, requests>>

-----------------------------------------------------------------------------
(* Requests and probes *)

Running == stage = "running" /\ exit = "none"
Becomes(r, s) == requests' = [requests EXCEPT ![r] = s]
server == <<stage, attempt, redisClient, limiterStore, jobQueue, pool, io, accepting>>

\* Connections that are open go on bringing requests when no new one is accepted.
Arrive(r) ==
  /\ Running /\ requests[r] = "none"
  /\ accepting \/ \E q \in Request : requests[q] # "none"
  /\ Becomes(r, "waiting")
  /\ UNCHANGED <<server, handlers, exit, cut>>

\* A pool that is ending gives no more connections. A probe has its query and its
\* ping at once and is answered when both have ended.
BeginQuery(r, kind) ==
  /\ Running /\ requests[r] = "waiting"
  /\ Becomes(r, IF pool = "open" THEN kind ELSE "refused")
  /\ UNCHANGED <<server, handlers, exit, cut>>

\* The handler goes on to another query or ends. Queries that hang are ended
\* after thirty seconds.
EndQuery(r) ==
  /\ Running
  /\ \/ requests[r] = "querying" /\ \E s \in {"waiting", "answered", "refused"} : Becomes(r, s)
     \/ requests[r] = "checking" /\ \E s \in {"answered", "refused"} :
          (s = "answered" => redisClient # 0) /\ Becomes(r, s)
  /\ UNCHANGED <<server, handlers, exit, cut>>

-----------------------------------------------------------------------------
(* gracefulShutdown *)

\* Before there are handlers a signal ends the process.
Signal(h) ==
  /\ exit = "none" /\ handlers[h] = "none"
  /\ IF stage = "running" THEN handlers' = [handlers EXCEPT ![h] = "websocket"] /\ UNCHANGED <<exit, cut>>
     ELSE Exit("signal") /\ UNCHANGED handlers
  /\ UNCHANGED <<server, requests>>

Reaches(h, s) == handlers' = [handlers EXCEPT ![h] = s]
Handles(h, s) == exit = "none" /\ handlers[h] = s

\* Closing the sockets, for which nobody waits, closes the HTTP server.
CloseWebSocket(h) ==
  /\ Handles(h, "websocket") /\ Reaches(h, "queue")
  /\ io' = FALSE /\ accepting' = (accepting /\ ~io)
  /\ UNCHANGED <<stage, attempt, redisClient, limiterStore, jobQueue, pool, requests, exit, cut>>

\* Whoever closes a queue that is closing waits for the same end.
CloseJobQueue(h) ==
  /\ Handles(h, "queue")
  /\ IF jobQueue = "none" THEN Reaches(h, "pool") /\ UNCHANGED jobQueue
     ELSE Reaches(h, "queueClosing") /\ jobQueue' = "closing"
  /\ UNCHANGED <<stage, attempt, redisClient, limiterStore, pool, io, accepting, requests, exit, cut>>

\* Closing may fail.
JobQueueClosed(h) ==
  /\ Handles(h, "queueClosing")
  /\ \/ Reaches(h, "pool") /\ jobQueue' = "none" /\ UNCHANGED <<exit, cut>>
     \/ Exit("failed") /\ UNCHANGED <<handlers, jobQueue>>
  /\ UNCHANGED <<stage, attempt, redisClient, limiterStore, pool, io, accepting, requests>>

\* A pool can be ended once.
Disconnect(h) ==
  /\ Handles(h, "pool")
  /\ IF pool = "open" THEN pool' = "ending" /\ Reaches(h, "poolEnding") /\ UNCHANGED <<exit, cut>>
     ELSE Exit("failed") /\ UNCHANGED <<pool, handlers>>
  /\ UNCHANGED <<stage, attempt, redisClient, limiterStore, jobQueue, io, accepting, requests>>

\* Mutant of Disconnected: nobody waits for the queries that run.
DisconnectedAtOnce(h) ==
  /\ Handles(h, "poolEnding") /\ Reaches(h, "limiter")
  /\ pool' = "ended"
  /\ UNCHANGED <<stage, attempt, redisClient, limiterStore, jobQueue, io, accepting, requests, exit, cut>>

\* pool.end resolves when the last connection is back and closed.
Disconnected(h) ==
  /\ Handles(h, "poolEnding") /\ Reaches(h, "limiter")
  /\ \A r \in Request : requests[r] \notin {"querying", "checking"}
  /\ pool' = "ended"
  /\ UNCHANGED <<stage, attempt, redisClient, limiterStore, jobQueue, io, accepting, requests, exit, cut>>

CleanupRateLimiter(h) ==
  /\ Handles(h, "limiter") /\ Reaches(h, "ended")
  /\ limiterStore' = 0 /\ Exit("graceful")
  /\ UNCHANGED <<stage, attempt, redisClient, jobQueue, pool, io, accepting, requests>>

-----------------------------------------------------------------------------
Starts ==
  \/ ValidateConfig
  \/ Connect
  \/ Database("schema", "limiter")
  \/ Database("seed", "listen")
  \/ Services
  \/ InitializeRateLimiter
  \/ InitializeRedisAgain
  \/ InitializeJobQueue
  \/ Listen

Handling ==
  \E h \in Handler :
    \/ CloseWebSocket(h)
    \/ CloseJobQueue(h)
    \/ JobQueueClosed(h)
    \/ Disconnect(h)
    \/ Disconnected(h)
    \/ CleanupRateLimiter(h)

Querying == \E r \in Request : EndQuery(r)

Next ==
  \/ Starts
  \/ Handling
  \/ Querying
  \/ \E r \in Request : Arrive(r)
  \/ \E r \in Request, kind \in {"querying", "checking"} : BeginQuery(r, kind)
  \/ \E h \in Handler : Signal(h)

\* What goes on by itself: requests may wait for anything, and then query again
\* and again.
Fairness == WF_lifecycleVars(Starts \/ Querying) /\ WF_lifecycleVars(Handling)

-----------------------------------------------------------------------------
(* Properties *)

\* However many signals come, and whatever they interrupt, a process that exits
\* with 0 has closed its queue and its pool and has cut no query off.
ExitIsClean == exit = "graceful" => jobQueue = "none" /\ pool = "ended" /\ cut = {}

\* A start ends in a server or an exit, and a handler that was started once or
\* more in an exit, though requests may go on for ever.
StartAndStopEnd ==
  /\ <>(Running \/ exit # "none")
  /\ \A h \in Handler : handlers[h] # "none" ~> exit # "none"

=============================================================================
