--------------------------- MODULE ThreatResponse ----------------------------
(***************************************************************************)
(* What follows a detection result: securityOrchestrator hands it to       *)
(* mlThreatCorrelation, which may find it correlated with others, and to   *)
(* automatedResponse, whose responses run their actions at once or after a *)
(* delay, and may be rolled back. A call works through a list of what it   *)
(* has still to do; calls one task has made overtake each other wherever   *)
(* the code awaits, other tasks and timers run when none is under way.     *)
(***************************************************************************)
EXTENDS Integers, Sequences, FiniteSets, SequencesExt, FiniteSetsExt, Functions

CONSTANTS
  Results,    \* the detection results there may be
  ResponseIds, AddedResponses, \* which default responses there are, and those of addResponse
  RuleIds,    \* which correlation rules
  Minutes,    \* in a unit of time
  Latest,     \* 1000: the newest results are the only ones ever found
  Delay,      \* the delay of a delayed response
  CleanEvery, \* 1 hour
  BlockFor,   \* 24 hours
  KeepFor,    \* 7 days
  MaxCalls, MaxRollbacks, MaxTime,
              \* bounds of the model: after the last call nothing new comes in
  None

VARIABLES
  now,
  cleaned,    \* has the hourly cleanup of this moment run?
  log,        \* the detection results so far, in order
  runs,       \* history: how many times a response has been carried out
  handled,    \* history: how many threats were handed over
  calls,      \* what each call has still to do, <<>> when it has ended
  timers,     \* delayed responses
  responses,
  correlations,
  entities,   \* what is known of addresses and users, with the highest risk
  executions,
  ipBlocks, accountLocks, rateLimiters,
  incidents   \* the events handed to the SIEM framework, two alike being one

vars == <<now, cleaned, log, runs, handled, calls, timers, responses, correlations, entities,
          executions, ipBlocks, accountLocks, rateLimiters, incidents>>

Call == 1..MaxCalls
Ip == {r.ip : r \in Results}
UserId == {r.userId : r \in Results}
NoTime == -1
NoRecord == [active |-> FALSE, expiresAt |-> 0, by |-> <<0, None>>]

\* The default responses; how often and how fast a threat has to come back
\* (occurrenceThreshold, timeWindowMinutes) is written down but never asked.
DefaultResponses == {
  [id |-> "account_takeover_immediate", type |-> "account_takeover", conf |-> 80, risk |-> 85,
   actions |-> <<"lock_account", "log_out_sessions", "notify_security", "require_mfa">>, delayed |-> FALSE],
  [id |-> "card_testing_response", type |-> "card_testing", conf |-> 70, risk |-> 75,
   actions |-> <<"block_ip", "rate_limit", "captcha_challenge", "notify_security">>, delayed |-> TRUE],
  [id |-> "api_abuse_response", type |-> "unauthorized_api_access", conf |-> 75, risk |-> 70,
   actions |-> <<"disable_api_key", "rate_limit", "notify_security", "create_ticket">>, delayed |-> TRUE],
  [id |-> "data_exfiltration_response", type |-> "data_exfiltration", conf |-> 85, risk |-> 90,
   actions |-> <<"quarantine_user", "log_out_sessions", "block_ip", "notify_security", "create_ticket">>,
   delayed |-> FALSE],
  [id |-> "bot_detection_response", type |-> "malicious_bot", conf |-> 60, risk |-> 50,
   actions |-> <<"captcha_challenge", "rate_limit", "block_country">>, delayed |-> TRUE],
  [id |-> "credential_stuffing_response", type |-> "credential_stuffing", conf |-> 80, risk |-> 80,
   actions |-> <<"block_ip", "rate_limit", "notify_security", "captcha_challenge">>, delayed |-> FALSE] }

\* initializeAutomatedResponse of the orchestrator
GeographicResponse ==
  [id |-> "geographic_anomaly_response", type |-> "anomalous_behavior", conf |-> 70, risk |-> 60,
   actions |-> <<"require_mfa", "notify_security">>, delayed |-> TRUE]

\* The correlation rules that are always there and that of the orchestrator:
\* no condition weighs more than a half, so heavy is empty in all of them.
DefaultRules == {
  [id |-> "coordinated_attack_ip", heavy |-> {}, min |-> 3, minutes |-> 30, severity |-> 70, answers |-> TRUE],
  [id |-> "distributed_attack_campaign", heavy |-> {}, min |-> 5, minutes |-> 60, severity |-> 60, answers |-> FALSE],
  [id |-> "user_behavior_anomaly", heavy |-> {}, min |-> 2, minutes |-> 120, severity |-> 80, answers |-> TRUE],
  [id |-> "temporal_attack_pattern", heavy |-> {}, min |-> 5, minutes |-> 240, severity |-> 60, answers |-> FALSE],
  [id |-> "multi_stage_attack", heavy |-> {}, min |-> 3, minutes |-> 180, severity |-> 65, answers |-> TRUE] }

InitialResponses == {p \in DefaultResponses \cup {GeographicResponse} : p.id \in ResponseIds}
Rules == {r \in DefaultRules : r.id \in RuleIds}

\* Everything is of its kind.
TypeOK ==
  /\ now \in 0..MaxTime /\ cleaned \in BOOLEAN
  /\ \A i \in DOMAIN log : log[i].result \in Results /\ log[i].at \in 0..now
  /\ handled \in 0..MaxCalls /\ DOMAIN calls = Call
  /\ responses \subseteq InitialResponses \cup AddedResponses
  /\ \A e \in DOMAIN executions :
       executions[e].status \in {"pending", "executed", "failed", "rollback"}
  /\ DOMAIN ipBlocks = Ip /\ DOMAIN accountLocks = UserId
  /\ \A ip \in Ip : ipBlocks[ip].active => ipBlocks[ip].by \in DOMAIN executions
  /\ rateLimiters \subseteq Ip

Init ==
  /\ now = 0 /\ cleaned = TRUE /\ log = <<>> /\ timers = {}
  /\ runs = 0 /\ handled = 0 /\ calls = [c \in Call |-> <<>>]
  /\ responses = InitialResponses
  /\ correlations = {} /\ entities = {} /\ executions = [e \in {} |-> NoTime]
  /\ ipBlocks = [ip \in Ip |-> NoRecord]
  /\ accountLocks = [u \in UserId |-> NoRecord]
  /\ rateLimiters = {} /\ incidents = {}

-----------------------------------------------------------------------------
(* Detection results, entities and correlation *)

\* Call c goes on with work.
GoesOn(c, work) == calls' = [calls EXCEPT ![c] = work \o Tail(@)]

\* No promise is left to settle: other tasks and timers may run.
Quiet == \A c \in Call : calls[c] = <<>>

Doing(c, what) == calls[c] # <<>> /\ Head(calls[c]).do = what

\* A detection result is there.
Detect(r) ==
  /\ Quiet /\ handled < MaxCalls
  /\ \A i \in DOMAIN log : log[i].result # r
  /\ log' = Append(log, [result |-> r, at |-> now])
  /\ UNCHANGED <<now, cleaned, runs, handled, calls, timers, responses, correlations, entities,
                 executions, ipBlocks, accountLocks, rateLimiters, incidents>>

\* The n newest, those of one moment in the order they came.
getDetectionResults(n) ==
  {i \in DOMAIN log :
     Cardinality({j \in DOMAIN log : log[j].at > log[i].at \/ (log[j].at = log[i].at /\ j < i)}) < n}

\* Only a condition that weighs more than a half is ever decisive.
evaluateCondition(rule, t, new) ==
  /\ "ipAddress" \in rule.heavy => t.ip = new.ip
  /\ "userId" \in rule.heavy => t.userId = new.userId
  /\ "threatType" \in rule.heavy => {t.type, new.type} \subseteq rule.types

findRelatedThreats(rule, i) ==
  {j \in getDetectionResults(Latest) \ {i} :
     /\ log[j].at >= now - rule.minutes \div Minutes
     /\ evaluateCondition(rule, log[j].result, log[i].result)}

\* Severity in tenths of the number of threats; confidence is all or nothing,
\* for it holds the new threat against itself.
calculateCorrelationScore(rule, related, i) ==
  LET all == related \cup {i}
      risk(j) == log[j].result.riskScore
  IN  [confident |-> evaluateCondition(rule, log[i].result, log[i].result),
       severe |-> 6 * MapThenSumSet(risk, all)
                    + 4 * Max({risk(j) : j \in all}) * Cardinality(all)
                  >= 10 * rule.severity * Cardinality(all)]
\* evaluateRule
Correlated(rule, i) ==
  LET related == findRelatedThreats(rule, i)
      score == calculateCorrelationScore(rule, related, i)
  IN  /\ Cardinality(related) >= rule.min - 1
      /\ score.confident /\ score.severe

\* identifyPatterns, extractIndicators and extractRelatedEntities of a
\* correlation of the threats all, in the order of their times.
identifyPatterns(all) ==
  LET order == SetToSortSeq(all, LAMBDA a, b : log[a].at < log[b].at \/ (log[a].at = log[b].at /\ a < b))
  IN  {p \in {"increasing_severity", "multi_vector"} :
        IF p = "multi_vector" THEN Cardinality({log[j].result.type : j \in all}) >= 2
        ELSE /\ Len(order) >= 3
             /\ \A k \in 2..Len(order) :
                  log[order[k]].result.riskScore > log[order[k - 1]].result.riskScore}

extractIndicators(all) ==
  {n \in ({"repeated_ip"} \X Ip) \cup ({"affected_user"} \X UserId) :
     /\ n[2] # None
     /\ Cardinality({j \in all : n[2] = IF n[1] = "repeated_ip" THEN log[j].result.ip
                                        ELSE log[j].result.userId}) >= 2}

\* processSecurityEvent("new_threat", ...), handled by handleThreatDetected;
\* one task may call it for several threats before any promise settles.
ProcessSecurityEvent(c, i) ==
  /\ c = handled + 1
  /\ \A d \in Call : calls[d] # <<>> => Doing(d, "entities")
  /\ now + Delay <= MaxTime
  /\ handled' = handled + 1
  /\ calls' = [calls EXCEPT ![c] =
       <<[do |-> "entities", of |-> i]>> \o
       SetToSeq({[do |-> "correlate", of |-> i, rule |-> r] : r \in Rules}) \o
       (IF log[i].result.confidence >= 80 \/ log[i].result.riskScore >= 80
        THEN <<[do |-> "answer", of |-> i]>> ELSE <<>>) \o
       <<[do |-> "report", of |-> i]>>]
  /\ UNCHANGED <<now, cleaned, log, runs, timers, responses, correlations, entities,
                 executions, ipBlocks, accountLocks, rateLimiters, incidents>>

\* updateEntities
UpdateEntities(c) ==
  /\ Doing(c, "entities")
  /\ LET r == log[Head(calls[c]).of].result
         named == {v \in {<<"ip", r.ip>>, <<"user", r.userId>>} : v[2] # None}
         known(v) == {e \in entities : e.is = v}
     IN  entities' = {e \in entities : e.is \notin named} \cup
           {[is |-> v, seen |-> log[Head(calls[c]).of].at,
             riskScore |-> Max({r.riskScore} \cup {e.riskScore : e \in known(v)})] : v \in named}
  /\ GoesOn(c, <<>>)
  /\ UNCHANGED <<now, cleaned, log, runs, handled, timers, responses, correlations, executions,
                 ipBlocks, accountLocks, rateLimiters, incidents>>

\* evaluateRule and handleCorrelation: a rule that triggers responses has all
\* the threats it correlates answered, the new one last.
Correlate(c) ==
  /\ Doing(c, "correlate")
  /\ LET i == Head(calls[c]).of
         rule == Head(calls[c]).rule
         related == findRelatedThreats(rule, i)
     IN  IF Correlated(rule, i)
         THEN /\ correlations' = correlations \cup
                   {[rule |-> rule.id, threats |-> related \cup {i}, at |-> now,
                     patterns |-> identifyPatterns(related \cup {i}),
                     indicators |-> extractIndicators(related \cup {i})]}
              /\ incidents' = incidents \cup {<<"correlation", rule.id>>}
              /\ GoesOn(c, IF rule.answers
                           THEN [k \in 1..(Cardinality(related) + 1) |->
                                   [do |-> "answer", of |-> Append(SetToSeq(related), i)[k]]]
                           ELSE <<>>)
         ELSE /\ GoesOn(c, <<>>)
              /\ UNCHANGED <<correlations, incidents>>
  /\ UNCHANGED <<now, cleaned, log, runs, handled, timers, responses, entities, executions,
                 ipBlocks, accountLocks, rateLimiters>>

-----------------------------------------------------------------------------
(* Responses *)

findMatchingResponses(r) ==
  {p \in responses : p.type = r.type /\ r.confidence >= p.conf /\ r.riskScore >= p.risk}

\* processThreatDetection: a threat that is no longer among the newest is not
\* found; one that was answered before is answered again.
ProcessThreatDetection(c) ==
  /\ Doing(c, "answer")
  /\ LET i == Head(calls[c]).of
     IN  GoesOn(c, IF i \in getDetectionResults(Latest)
                   THEN SetToSeq({[do |-> "respond", of |-> i, response |-> p] :
                                    p \in findMatchingResponses(log[i].result)})
                   ELSE <<>>)
  /\ UNCHANGED <<now, cleaned, log, runs, handled, timers, responses, correlations, entities,
                 executions, ipBlocks, accountLocks, rateLimiters, incidents>>

\* executeResponse: its actions one after the other, then the report to SIEM.
ExecuteResponse(response, i, run) ==
  [k \in DOMAIN response.actions |->
     [do |-> "act", of |-> i, response |-> response, action |-> response.actions[k], run |-> run]]
  \o <<[do |-> "log", of |-> i, response |-> response]>>

\* scheduleResponse
ScheduleResponse(c) ==
  /\ Doing(c, "respond")
  /\ LET i == Head(calls[c]).of
         p == Head(calls[c]).response
     IN  IF p.delayed
         THEN /\ timers' = timers \cup {[at |-> now + Delay, of |-> i, response |-> p]}
              /\ GoesOn(c, <<>>) /\ UNCHANGED runs
         ELSE /\ GoesOn(c, ExecuteResponse(p, i, runs + 1))
              /\ runs' = runs + 1 /\ UNCHANGED timers
  /\ UNCHANGED <<now, cleaned, log, handled, responses, correlations, entities, executions,
                 ipBlocks, accountLocks, rateLimiters, incidents>>

\* A delayed response runs as it was when it was scheduled, removed or not.
TimerFires(t) ==
  /\ t.at <= now /\ Quiet
  /\ timers' = timers \ {t}
  /\ calls' = [calls EXCEPT ![1] = ExecuteResponse(t.response, t.of, runs + 1)]
  /\ runs' = runs + 1
  /\ UNCHANGED <<now, cleaned, log, handled, responses, correlations, entities, executions,
                 ipBlocks, accountLocks, rateLimiters, incidents>>

\* executeAction: a new execution is pending and its action done; one of
\* BLOCK_IP and LOCK_ACCOUNT overwrites what was known of the address or the
\* account, and an account without a name cannot be locked.  NOTIFY_SECURITY
\* describes the first response there is to the type of the threat, and fails
\* without an event when there is none any more.
ExecuteAction(c) ==
  /\ Doing(c, "act")
  /\ LET item == Head(calls[c])
         r == log[item.of].result
         e == <<item.run, item.action>>
         record == [active |-> TRUE, expiresAt |-> now + BlockFor, by |-> e]
         locks == item.action = "lock_account" /\ r.userId # None
         notifies == item.action = "notify_security" /\ \E p \in responses : p.type = r.type
     IN  /\ executions' = [d \in DOMAIN executions \cup {e} |->
              IF d \in DOMAIN executions THEN executions[d]
              ELSE [action |-> item.action, of |-> item.of, response |-> item.response.id,
                    status |-> "pending", executedAt |-> NoTime]]
         /\ ipBlocks' = IF item.action = "block_ip" THEN [ipBlocks EXCEPT ![r.ip] = record]
                        ELSE ipBlocks
         /\ accountLocks' = IF locks THEN [accountLocks EXCEPT ![r.userId] = record]
                            ELSE accountLocks
         /\ rateLimiters' = rateLimiters \cup (IF item.action = "rate_limit" THEN {r.ip} ELSE {})
         /\ incidents' = incidents \cup
              (IF notifies THEN {<<"notify", item.of>>} ELSE {})
         /\ GoesOn(c, <<[do |-> "settle", execution |-> e,
                         failed |-> \/ item.action = "lock_account" /\ ~locks
                                    \/ item.action = "notify_security" /\ ~notifies]>>)
  /\ UNCHANGED <<now, cleaned, log, runs, handled, timers, responses, correlations, entities>>

\* Mutant of Settle: an action that fails ends the response.
SettleStops(c) ==
  /\ Doing(c, "settle")
  /\ LET item == Head(calls[c])
     IN  /\ executions' = IF item.failed
                          THEN [executions EXCEPT ![item.execution].status = "failed"]
                          ELSE [executions EXCEPT ![item.execution].status = "executed",
                                                  ![item.execution].executedAt = now]
         /\ calls' = [calls EXCEPT ![c] =
              IF item.failed THEN SelectSeq(Tail(@), LAMBDA w : w.do # "act") ELSE Tail(@)]
  /\ UNCHANGED <<now, cleaned, log, runs, handled, timers, responses, correlations, entities,
                 ipBlocks, accountLocks, rateLimiters, incidents>>

\* The action's promise settles. A failed execution has no time.
Settle(c) ==
  /\ Doing(c, "settle")
  /\ LET item == Head(calls[c])
     IN  executions' = IF item.failed
                       THEN [executions EXCEPT ![item.execution].status = "failed"]
                       ELSE [executions EXCEPT ![item.execution].status = "executed",
                                               ![item.execution].executedAt = now]
  /\ GoesOn(c, <<>>)
  /\ UNCHANGED <<now, cleaned, log, runs, handled, timers, responses, correlations, entities,
                 ipBlocks, accountLocks, rateLimiters, incidents>>

\* logResponseToSIEM, and the event that ends handleThreatDetected
Report(c) ==
  /\ Doing(c, "log") \/ Doing(c, "report")
  /\ incidents' = incidents \cup {<<Head(calls[c]).do, Head(calls[c]).of>>}
  /\ GoesOn(c, <<>>)
  /\ UNCHANGED <<now, cleaned, log, runs, handled, timers, responses, correlations, entities,
                 executions, ipBlocks, accountLocks, rateLimiters>>

\* rollbackExecution: other actions than these two are not taken back but
\* their execution is called rolled back all the same.
RollbackExecution(e) ==
  /\ Quiet
  /\ executions[e].status = "executed"
  /\ Cardinality({d \in DOMAIN executions : executions[d].status = "rollback"}) < MaxRollbacks
  /\ LET r == log[executions[e].of].result
     IN  /\ ipBlocks' = IF executions[e].action = "block_ip"
                        THEN [ipBlocks EXCEPT ![r.ip].active = FALSE] ELSE ipBlocks
         /\ accountLocks' = IF executions[e].action = "lock_account"
                            THEN [accountLocks EXCEPT ![r.userId].active = FALSE] ELSE accountLocks
  /\ executions' = [executions EXCEPT ![e].status = "rollback"]
  /\ UNCHANGED <<now, cleaned, log, runs, handled, calls, timers, responses, correlations, entities,
                 rateLimiters, incidents>>

AddResponse(p) ==
  /\ Quiet /\ handled < MaxCalls
  /\ p \in AddedResponses \ responses
  /\ responses' = responses \cup {p}
  /\ UNCHANGED <<now, cleaned, log, runs, handled, calls, timers, correlations, entities, executions,
                 ipBlocks, accountLocks, rateLimiters, incidents>>

RemoveResponse(p) ==
  /\ Quiet /\ handled < MaxCalls
  /\ p \in responses
  /\ responses' = responses \ {p}
  /\ UNCHANGED <<now, cleaned, log, runs, handled, calls, timers, correlations, entities, executions,
                 ipBlocks, accountLocks, rateLimiters, incidents>>

-----------------------------------------------------------------------------
(* Time *)

Expired(records) ==
  [k \in DOMAIN records |->
     IF records[k].expiresAt < now THEN [records[k] EXCEPT !.active = FALSE] ELSE records[k]]

\* Mutant of Cleanup: executions are kept for less time than blocks last.
CleanupHalfway ==
  /\ ~cleaned /\ Quiet
  /\ cleaned' = TRUE
  /\ ipBlocks' = Expired(ipBlocks) /\ accountLocks' = Expired(accountLocks)
  /\ executions' = Restrict(executions, {e \in DOMAIN executions : executions[e].executedAt = now})
  /\ correlations' = {k \in correlations : k.at >= now - KeepFor}
  /\ entities' = {e \in entities : e.seen >= now - BlockFor}
  /\ UNCHANGED <<now, log, runs, handled, calls, timers, responses, rateLimiters, incidents>>

\* The hourly timers: cleanupExpiredBlocks and cleanupOldExecutions, which
\* never finds a failed execution, and cleanupOldCorrelations.
Cleanup ==
  /\ ~cleaned /\ Quiet
  /\ cleaned' = TRUE
  /\ ipBlocks' = Expired(ipBlocks) /\ accountLocks' = Expired(accountLocks)
  /\ executions' = Restrict(executions,
       {e \in DOMAIN executions : \/ executions[e].executedAt = NoTime
                                  \/ executions[e].executedAt >= now - KeepFor})
  /\ correlations' = {k \in correlations : k.at >= now - KeepFor}
  /\ entities' = {e \in entities : e.seen >= now - BlockFor}
  /\ UNCHANGED <<now, log, runs, handled, calls, timers, responses, rateLimiters, incidents>>

Tick ==
  /\ now < MaxTime /\ cleaned
  /\ Quiet
  /\ \A t \in timers : t.at > now
  /\ now' = now + 1
  /\ cleaned' = (now' % CleanEvery # 0)
  /\ UNCHANGED <<log, runs, handled, calls, timers, responses, correlations, entities, executions,
                 ipBlocks, accountLocks, rateLimiters, incidents>>

Step(c) ==
  \/ UpdateEntities(c)
  \/ Correlate(c)
  \/ ProcessThreatDetection(c)
  \/ ScheduleResponse(c)
  \/ ExecuteAction(c)
  \/ Settle(c)
  \/ Report(c)

Next ==
  \/ \E r \in Results : Detect(r)
  \/ \E c \in Call, i \in DOMAIN log : ProcessSecurityEvent(c, i)
  \/ \E c \in Call : Step(c)
  \/ \E t \in timers : TimerFires(t)
  \/ \E e \in DOMAIN executions : RollbackExecution(e)
  \/ \E p \in AddedResponses : AddResponse(p)
  \/ \E p \in responses : RemoveResponse(p)
  \/ Cleanup
  \/ Tick

\* What a running process does by itself: promises settle, timers fire and
\* time goes on.
Proceeds ==
  \/ \E c \in Call : Step(c)
  \/ \E t \in timers : TimerFires(t)
  \/ Cleanup
  \/ Tick

-----------------------------------------------------------------------------
(* Properties *)

\* An address or account that is shut out can be let in again: the execution
\* that shut it out is still to be found and has not been rolled back, so the
\* hourly cleanups never forget it before the block itself has ended.
BlockCanBeUndone ==
  \A b \in Range(ipBlocks) \cup Range(accountLocks) :
    b.active => /\ b.by \in DOMAIN executions
                /\ executions[b.by].status \in {"pending", "executed"}

\* Every response a threat is to get is worked through to its last action,
\* though an action before it fails, the response is removed while it is
\* delayed, or other calls come between.  No action is left pending, none fails
\* but the lock of an account without a name and the notification of a response
\* that is gone, and a notification that does not fail has its event.
Wanted(p, i) ==
  \/ \E c \in Call : calls[c] # <<>> /\ Head(calls[c]).do = "respond"
                             /\ Head(calls[c]).of = i /\ Head(calls[c]).response = p
  \/ \E t \in timers : t.of = i /\ t.response = p

CarriedOut(p, i) ==
  \A a \in ToSet(p.actions) : \E e \in DOMAIN executions :
    /\ executions[e].action = a /\ executions[e].of = i /\ executions[e].response = p.id
    /\ executions[e].status # "pending"
    /\ executions[e].status = "failed" =>
         \/ a = "lock_account" /\ log[i].result.userId = None
         \/ a = "notify_security"
    /\ executions[e].status # "failed" /\ a = "notify_security" => <<"notify", i>> \in incidents

ResponsesAreCarriedOut ==
  \A p \in InitialResponses \cup AddedResponses, i \in 1..Cardinality(Results) :
    Wanted(p, i) ~> CarriedOut(p, i)

=============================================================================
