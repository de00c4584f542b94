------------------------------- MODULE Gateways --------------------------------
(***************************************************************************)
(* secureGateways: requests pass a gateway's rate limit, authentication    *)
(* and cache and are forwarded, which takes a while. Creating a gateway    *)
(* with the id of another replaces it, though requests that are on their   *)
(* way stay with the old one. Policies and removal are left out: nobody    *)
(* adds a policy to a gateway or removes one.                              *)
(***************************************************************************)
EXTENDS Integers, Sequences, FiniteSets

CONSTANTS
  GatewayId,
  Configs,  \* [limited, max, auth]: the rate limit, and is a token required?
  Request,  \* numbered in the order they come
  Requests, \* what they may be: [ip, key, get, token]; the key is method, path and query
  WindowMs, \* 1 minute
  MaxAge,   \* of a cached response, 5 minutes
  MaxGateways, MaxTime, \* bounds of the model: gateways created, the clock
  None

VARIABLES
  now,
  gateways, \* the gateway each id stands for
  objects,  \* every gateway there has been
  requests

gatewayVars == <<now, gateways, objects, requests>>

\* Its caches and metrics: total, successful and failed requests.
NewGateway(config) == [config |-> config, limiters |-> <<>>, cache |-> <<>>,
                       total |-> 0, successful |-> 0, failed |-> 0]

\* Everything is of its kind.
TypeOK ==
  /\ now \in 0..MaxTime
  /\ gateways \in [GatewayId -> (DOMAIN objects) \cup {None}]
  /\ \A o \in DOMAIN objects :
       /\ {objects[o].total, objects[o].successful, objects[o].failed} \subseteq Nat
       /\ \A ip \in DOMAIN objects[o].limiters : objects[o].limiters[ip].count \in Nat \ {0}
       /\ \A k \in DOMAIN objects[o].cache : objects[o].cache[k] \in 0..now
  /\ \A r \in Request :
       requests[r].stage \in {"new", "authenticating", "forwarded", "cached", "answered", "error", "unknown"}

Init ==
  /\ now = 0
  /\ gateways = [g \in GatewayId |-> None]
  /\ objects = <<>>
  /\ requests = [r \in Request |-> [stage |-> "new", at |-> None, what |-> None]]

CreateGateway(g, config) ==
  /\ Len(objects) < MaxGateways
  /\ objects' = Append(objects, NewGateway(config))
  /\ gateways' = [gateways EXCEPT ![g] = Len(objects) + 1]
  /\ UNCHANGED <<now, requests>>

-----------------------------------------------------------------------------
With(f, k, v) == [x \in DOMAIN f \cup {k} |-> IF x = k THEN v ELSE f[x]]
Goes(r, stage, o, what) == requests' = [requests EXCEPT ![r] = [stage |-> stage, at |-> o, what |-> what]]

\* checkRateLimit: is the request let through, and the counters after it
Expired(object, ip) == ip \notin DOMAIN object.limiters \/ now > object.limiters[ip].resetTime
WithinLimit(object, ip) == Expired(object, ip) \/ object.limiters[ip].count < object.config.max
Counted(object, ip) ==
  IF ~WithinLimit(object, ip) THEN object.limiters
  ELSE With(object.limiters, ip,
            IF Expired(object, ip) THEN [count |-> 1, resetTime |-> now + WindowMs]
            ELSE [object.limiters[ip] EXCEPT !.count = @ + 1])

isCacheValid(at) == now - at < MaxAge

\* Mutant of LookUp: an answer from the cache is not counted.
LookUpUncounted(r, o, object, what) ==
  IF what.key \in DOMAIN object.cache /\ isCacheValid(object.cache[what.key])
  THEN objects' = [objects EXCEPT ![o] = object] /\ Goes(r, "cached", o, what)
  ELSE objects' = [objects EXCEPT ![o] = object] /\ Goes(r, "forwarded", o, what)

\* The cache is looked at, whoever asks, and the request is forwarded.
LookUp(r, o, object, what) ==
  IF what.key \in DOMAIN object.cache /\ isCacheValid(object.cache[what.key])
  THEN objects' = [objects EXCEPT ![o] = [object EXCEPT !.successful = @ + 1]] /\ Goes(r, "cached", o, what)
  ELSE objects' = [objects EXCEPT ![o] = object] /\ Goes(r, "forwarded", o, what)

\* An error: it is counted and answered with status 500.
Failed(r, o, object, what) ==
  objects' = [objects EXCEPT ![o] = [object EXCEPT !.failed = @ + 1]] /\ Goes(r, "error", o, what)

\* POST /gateway/:gatewayId/process, up to the first await
ProcessRequest(r, g, what) ==
  /\ requests[r].stage = "new" /\ \A q \in 1..(r - 1) : requests[q].stage # "new"
  /\ IF gateways[g] = None THEN Goes(r, "unknown", None, what) /\ UNCHANGED objects
     ELSE LET o == gateways[g]
              begun == [objects[o] EXCEPT !.total = @ + 1]
              counted == [begun EXCEPT !.limiters = Counted(begun, what.ip)]
              limited == begun.config.limited
              through == IF limited THEN counted ELSE begun
          IN  IF limited /\ ~WithinLimit(begun, what.ip) THEN Failed(r, o, begun, what)
              ELSE IF begun.config.auth
              THEN objects' = [objects EXCEPT ![o] = through] /\ Goes(r, "authenticating", o, what)
              ELSE LookUp(r, o, through, what)
  /\ UNCHANGED <<now, gateways>>

\* authenticate: a header of the right form is all that is asked for.
Authenticate(r) ==
  /\ requests[r].stage = "authenticating"
  /\ LET o == requests[r].at
         what == requests[r].what
     IN  IF what.token THEN LookUp(r, o, objects[o], what) ELSE Failed(r, o, objects[o], what)
  /\ UNCHANGED <<now, gateways>>

\* forwardRequest answers, always with status 200.
Answered(r) ==
  /\ requests[r].stage = "forwarded"
  /\ LET o == requests[r].at
         what == requests[r].what
     IN  /\ objects' = [objects EXCEPT
              ![o].cache = IF what.get THEN With(@, what.key, now) ELSE @,
              ![o].successful = @ + 1]
         /\ Goes(r, "answered", o, what)
  /\ UNCHANGED <<now, gateways>>

\* Every five minutes, of the gateways an id stands for
Cleanup ==
  /\ objects' = [o \in DOMAIN objects |->
       IF \A g \in GatewayId : gateways[g] # o THEN objects[o]
       ELSE LET kept == {ip \in DOMAIN objects[o].limiters : ~Expired(objects[o], ip)}
                valid == {k \in DOMAIN objects[o].cache : isCacheValid(objects[o].cache[k])}
            IN  [objects[o] EXCEPT !.limiters = [ip \in kept |-> @[ip]],
                                   !.cache = [k \in valid |-> @[k]]]]
  /\ UNCHANGED <<now, gateways, requests>>

Tick ==
  /\ now < MaxTime
  /\ now' = now + 1
  /\ UNCHANGED <<gateways, objects, requests>>

Next ==
  \/ \E g \in GatewayId, config \in Configs : CreateGateway(g, config)
  \/ \E r \in Request, g \in GatewayId, what \in Requests : ProcessRequest(r, g, what)
  \/ \E r \in Request : Authenticate(r)
  \/ \E r \in Request : Answered(r)
  \/ Cleanup
  \/ Tick

-----------------------------------------------------------------------------
(* Properties *)

\* The metrics of a gateway add up at any time: what it began and has neither
\* answered nor failed is on its way, under whichever id the gateway was
\* replaced since, and however the requests overtake each other.
EveryRequestIsCounted ==
  \A o \in DOMAIN objects :
    objects[o].total - objects[o].successful - objects[o].failed
      = Cardinality({r \in Request : requests[r].at = o /\ requests[r].stage \in {"authenticating", "forwarded"}})

=============================================================================
