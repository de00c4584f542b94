------------------------------- MODULE ZeroTrust ------------------------------
(***************************************************************************)
(* The routes of zeroTrust.ts: contexts, whose access is decided by their  *)
(* risk and the policies, and the sessions kept beside them, with what     *)
(* users do in them. Two managers hold the two, and only the routes relate *)
(* them: contexts are never cleaned up, sessions are after a day.          *)
(***************************************************************************)
EXTENDS Integers, Sequences, FiniteSets, FiniteSetsExt, SequencesExt, Functions

CONSTANTS
  Session,    \* the ids clients give
  Methods,    \* of verification, "mfa" among them
  Addresses,
  Factors,    \* what assessRisk may draw by lot
  Policies,   \* the bodies of POST /policies
  Events,     \* [type, riskScore]: what clients report
  Behaviours, \* [type, data]
  Hours,      \* of the day
  MaxAge,     \* of a session nothing happens in, 24 hours
  MaxLength, MaxTime, \* bounds of the model: of every list, the clock
  None

VARIABLES
  now,
  contexts,  \* the authentication context of each session that has one
  policies,  \* by id
  sessions,  \* the sessions of behavioralAnalytics
  patterns,  \* recorded behaviour
  accesses,  \* the accesses recorded for each session, those of forgotten ones too
  analyses

vars == <<now, contexts, policies, sessions, patterns, accesses, analyses>>

Cap(x, most) == IF x < most THEN x ELSE most
Distance(a, b) == IF a < b THEN b - a ELSE a - b

\* Everything is of its kind.
TypeOK ==
  /\ now \in 0..MaxTime
  /\ DOMAIN contexts \cup DOMAIN sessions \cup DOMAIN accesses \cup DOMAIN analyses \subseteq Session
  /\ \A s \in DOMAIN contexts : contexts[s].method \in Methods /\ contexts[s].riskScore \in 0..100
  /\ \A s \in DOMAIN sessions :
       /\ sessions[s].isActive \in BOOLEAN /\ sessions[s].riskScore \in 0..100
       /\ sessions[s].startTime \in 0..now /\ sessions[s].lastActivity \in 0..now
  /\ \A p \in DOMAIN patterns : patterns[p].at \in 0..now /\ patterns[p].riskScore \in 0..100
  /\ \A s \in DOMAIN accesses : ToSet(accesses[s]) \subseteq 0..100

\* initializeDefaultPolicies
Policy(id, priority, operator, value, action) ==
  [id |-> id, enabled |-> TRUE, priority |-> priority, type |-> "risk", operator |-> operator,
   value |-> value, actions |-> {action}]
DefaultPolicies ==
  {Policy("high-risk-block", 1, "greater_than", 80, "deny"),
   Policy("medium-risk-mfa", 2, "greater_than", 40, "require_mfa")}

Init ==
  /\ now = 0
  /\ contexts = <<>>
  /\ policies = DefaultPolicies
  /\ sessions = <<>> /\ patterns = <<>> /\ accesses = <<>> /\ analyses = <<>>

-----------------------------------------------------------------------------
(* Contexts *)

With(f, k, v) == [x \in DOMAIN f \cup {k} |-> IF x = k THEN v ELSE f[x]]

calculateRiskScore(f) ==
  Cap((IF f.unknownDevice THEN 30 ELSE 0) + (IF f.unusualLocation THEN 25 ELSE 0)
      + (IF f.unusualTime THEN 20 ELSE 0) + Cap(f.failedAttempts * 10, 30) + f.suspicionScore, 100)

\* The first condition of a policy; only those about risk are ever met.
evaluateCondition(policy, risk) ==
  /\ policy.type = "risk"
  /\ \/ policy.operator = "greater_than" /\ risk > policy.value
     \/ policy.operator = "less_than" /\ risk < policy.value
     \/ policy.operator = "equals" /\ risk = policy.value

\* A policy added without conditions has no type, and one added without actions
\* has none: the evaluation throws where it needs them.
CanBeEvaluated(context) ==
  \A p \in policies : p.enabled =>
    p.type # None /\ (evaluateCondition(p, context.riskScore) => p.actions # None)

\* evaluatePolicies: the order of the policies decides only the reason given.
Allowed(context) ==
  \A p \in policies : p.enabled /\ evaluateCondition(p, context.riskScore) =>
    /\ "deny" \notin p.actions
    /\ "require_mfa" \in p.actions => context.method = "mfa"

\* addEvent: what happened in a session, whether it has ended or not
AddEvent(list, s, type, risk) ==
  IF s \notin DOMAIN list THEN list
  ELSE [list EXCEPT
          ![s].events = Append(@, [type |-> type, riskScore |-> risk]),
          ![s].lastActivity = now,
          ![s].riskScore = IF type = "suspicious" \/ risk > 50 THEN Cap(@ + risk, 100) ELSE @]

\* createSession
NewSession(s, ip) ==
  AddEvent(With(sessions, s, [isActive |-> TRUE, riskScore |-> 0, startTime |-> now,
                              lastActivity |-> now, ipAddress |-> ip, events |-> <<>>]),
           s, "login", 0)

\* POST /context: a session of that id is replaced.
CreateContext(s, method, ip, factors) ==
  /\ contexts' = With(contexts, s, [method |-> method, riskScore |-> calculateRiskScore(factors)])
  /\ sessions' = NewSession(s, ip)
  /\ UNCHANGED <<now, policies, patterns, accesses, analyses>>

\* PUT /context/:sessionId
UpdateContext(s, method, factors) ==
  /\ s \in DOMAIN contexts
  /\ contexts' = With(contexts, s, [method |-> method, riskScore |-> calculateRiskScore(factors)])
  /\ sessions' = IF s \in DOMAIN sessions /\ sessions[s].isActive
                 THEN [sessions EXCEPT ![s].lastActivity = now] ELSE sessions
  /\ UNCHANGED <<now, policies, patterns, accesses, analyses>>

calculateAccessRisk(method, sensitive, slow, success) ==
  Cap((IF success THEN 0 ELSE 40) + (IF method \in {"DELETE", "PUT"} THEN 15 ELSE 0)
      + 20 * sensitive + (IF slow THEN 10 ELSE 0), 100)

\* POST /context/:sessionId/evaluate, whose own path and method are recorded
EvaluateAccess(s) ==
  /\ s \in DOMAIN contexts /\ CanBeEvaluated(contexts[s])
  /\ LET list == IF s \in DOMAIN accesses THEN accesses[s] ELSE <<>>
     IN  /\ Len(list) < MaxLength
         /\ accesses' = With(accesses, s,
              Append(list, calculateAccessRisk("POST", 0, FALSE, Allowed(contexts[s]))))
  /\ UNCHANGED <<now, contexts, policies, sessions, patterns, analyses>>

\* Mutant of RemoveContext: the session goes on.
RemoveContextOnly(s) ==
  /\ s \in DOMAIN contexts
  /\ contexts' = Restrict(contexts, DOMAIN contexts \ {s})
  /\ UNCHANGED <<now, policies, sessions, patterns, accesses, analyses>>

\* DELETE /context/:sessionId: the session ends.
RemoveContext(s) ==
  /\ s \in DOMAIN contexts
  /\ contexts' = Restrict(contexts, DOMAIN contexts \ {s})
  /\ sessions' = IF s \in DOMAIN sessions
                 THEN AddEvent([sessions EXCEPT ![s].isActive = FALSE], s, "logout", 0)
                 ELSE sessions
  /\ UNCHANGED <<now, policies, patterns, accesses, analyses>>

\* POST and DELETE /policies: one of the same id is replaced.
AddPolicy(p) ==
  /\ policies' = {q \in policies : q.id # p.id} \cup {p}
  /\ UNCHANGED <<now, contexts, sessions, patterns, accesses, analyses>>
RemovePolicy(id) ==
  /\ \E p \in policies : p.id = id
  /\ policies' = {p \in policies : p.id # id}
  /\ UNCHANGED <<now, contexts, sessions, patterns, accesses, analyses>>

-----------------------------------------------------------------------------
(* Behaviour, against the baseline every user has: typing 60 and 15 of       *)
(* deviation, the mouse 100 and 30, logins 5 and 2, sessions of 480.         *)

Deviates(x, mean, deviation, times) == Distance(x, mean) > times * deviation

analyzeTypingPattern(speed) ==
  IF Deviates(speed, 60, 15, 2) THEN 30 ELSE IF Deviates(speed, 60, 15, 1) THEN 15 ELSE 0
analyzeMousePattern(movements) ==
  IF Deviates(movements, 100, 30, 2) THEN 25 ELSE IF Deviates(movements, 100, 30, 1) THEN 10 ELSE 0
analyzeNavigationPattern(data) ==
  IF data.suspicious THEN 40 ELSE IF data.frequency > 9 THEN 20 ELSE 0
analyzeTimingPattern(duration, hour) ==
  IF hour \notin {8, 9, 10, 11, 14, 15, 16, 17, 18} THEN 35 ELSE IF duration > 720 THEN 25 ELSE 0

calculatePatternRisk(s, b, hour) ==
  IF s \notin DOMAIN sessions THEN 0
  ELSE CASE b.type = "typing" -> analyzeTypingPattern(b.data)
         [] b.type = "mouse" -> analyzeMousePattern(b.data)
         [] b.type = "navigation" -> analyzeNavigationPattern(b.data)
         [] b.type = "timing" -> analyzeTimingPattern(b.data, hour)

\* POST /behavior/pattern, for whatever session
RecordBehavior(s, b, hour) ==
  /\ Len(patterns) < MaxLength
  /\ patterns' = Append(patterns, [session |-> s, riskScore |-> calculatePatternRisk(s, b, hour), at |-> now])
  /\ UNCHANGED <<now, contexts, policies, sessions, accesses, analyses>>

\* POST /behavior/event
RecordEvent(s, e) ==
  /\ s \in DOMAIN sessions => Len(sessions[s].events) < MaxLength
  /\ sessions' = AddEvent(sessions, s, e.type, e.riskScore)
  /\ UNCHANGED <<now, contexts, policies, patterns, accesses, analyses>>

Total(list) == FoldSeq(LAMBDA x, y : x + y, 0, list)

\* detectAnomalies: a session twice as long as usual, an address that no
\* client has, more than five errors
detectAnomalies(session) ==
  (IF now - session.startTime > 960 THEN {"medium"} ELSE {})
  \cup (IF session.ipAddress \in {"192.168.1.999", "10.0.0.999"} THEN {"high"} ELSE {})
  \cup (IF Len(SelectSeq(session.events, LAMBDA e : e.type = "error")) > 5 THEN {"critical"} ELSE {})

generateRecommendations(sum, count, anomalies) ==
  (IF sum > 70 * count THEN {"end the session", "authenticate again"}
   ELSE IF sum > 50 * count THEN {"ask for two factors", "watch"}
   ELSE IF sum > 30 * count THEN {"restrict", "record"} ELSE {})
  \cup (IF "critical" \in anomalies THEN {"lock the account"} ELSE {})

\* POST /behavior/analyze/:sessionId; an error without a session
AnalyzeBehavior(s) ==
  /\ s \in DOMAIN sessions
  /\ LET risks(list) == [i \in DOMAIN list |-> list[i].riskScore]
         all == risks(sessions[s].events)
                \o risks(SelectSeq(patterns, LAMBDA p : p.session = s))
                \o (IF s \in DOMAIN accesses THEN accesses[s] ELSE <<>>)
     IN  analyses' = With(analyses, s,
           generateRecommendations(Total(all), Len(all), detectAnomalies(sessions[s])))
  /\ UNCHANGED <<now, contexts, policies, sessions, patterns, accesses>>

\* POST /cleanup, which nothing calls by itself
Cleanup ==
  /\ LET old == {s \in DOMAIN sessions : now - sessions[s].lastActivity > MaxAge}
     IN  /\ sessions' = Restrict(sessions, DOMAIN sessions \ old)
         /\ analyses' = Restrict(analyses, DOMAIN analyses \ old)
         /\ accesses' = Restrict(accesses, DOMAIN accesses \ old)
  /\ patterns' = SelectSeq(patterns, LAMBDA p : now - p.at <= MaxAge)
  /\ UNCHANGED <<now, contexts, policies>>

Tick ==
  /\ now < MaxTime
  /\ now' = now + 1
  /\ UNCHANGED <<contexts, policies, sessions, patterns, accesses, analyses>>

Next ==
  \/ \E s \in Session, m \in Methods, ip \in Addresses, f \in Factors : CreateContext(s, m, ip, f)
  \/ \E s \in Session, m \in Methods, f \in Factors : UpdateContext(s, m, f)
  \/ \E s \in Session : EvaluateAccess(s)
  \/ \E s \in Session : RemoveContext(s)
  \/ \E p \in Policies : AddPolicy(p)
  \/ \E p \in Policies \cup DefaultPolicies : RemovePolicy(p.id)
  \/ \E s \in Session, b \in Behaviours, hour \in Hours : RecordBehavior(s, b, hour)
  \/ \E s \in Session, e \in Events : RecordEvent(s, e)
  \/ \E s \in Session : AnalyzeBehavior(s)
  \/ Cleanup
  \/ Tick

-----------------------------------------------------------------------------
(* Properties *)

\* Every session that counts as active belongs to a context, however contexts
\* are replaced, removed and made again and sessions are forgotten in between.
ActiveHasContext ==
  \A s \in DOMAIN sessions : sessions[s].isActive => s \in DOMAIN contexts

=============================================================================
