--------------------------- MODULE ThreatDetection ---------------------------
(***************************************************************************)
(* behavioralThreatDetection.ts and the middleware that feeds it: security *)
(* events become patterns, rules and a timer make threats of patterns, and *)
(* every threat and every tracked action leaves a detection result. One    *)
(* unit of time is the 30 seconds between two analyses. Numbers are kept   *)
(* in hundredths where the code divides.                                   *)
(***************************************************************************)
EXTENDS Integers, Sequences, FiniteSets, SequencesExt, FiniteSetsExt

CONSTANTS
  User,       \* the users events name
  Events,     \* what recordSecurityEvent may be called with
  Requests,   \* the requests the middleware may see the end of
  Recent,     \* 5 minutes: the age below which a pattern is analysed again
  CleanEvery, \* 5 minutes: the time between two cleanups
  MaxAge,     \* 1 day: what cleanupOldData keeps
  Hour,
  MaxResults, \* 5000
  MaxThreats, MaxTime, \* bounds of the model
  NoUser

Default == "default"
Status == {"detected", "contained", "resolved"}

Score(n) == IF n > 100 THEN 100 ELSE n
Least(a, b) == IF a < b THEN a ELSE b
Distance(a, b) == IF a > b THEN a - b ELSE b - a

\* What a list has at some of its places, in its order.
Nth(places, k) == CHOOSE i \in places : Cardinality({j \in places : j <= i}) = k
Kept(list, places) == [k \in 1..Cardinality(places) |-> list[Nth(places, k)]]

VARIABLES
  now, due,   \* the time, and the timers that have come due and not run yet
  patterns,   \* patterns recorded and not cleaned up, in the order of the Map
  threats,    \* all threats made; a removed one stays with kept = FALSE
  results,    \* detectionResults
  profiles,   \* the users of baselineProfiles
  volume,     \* dataAccess.volume.mean: one object, shared by all profiles
  made        \* history: how many patterns and actions there have been

vars == <<now, due, patterns, threats, results, profiles, volume, made>>

\* Everything is of its kind and the results stay within their limit.
TypeOK ==
  /\ now \in 0..MaxTime /\ due \subseteq {"analysis", "cleanup"}
  /\ \A i \in DOMAIN patterns : patterns[i].riskScore \in 0..100
  /\ \A i \in DOMAIN threats : threats[i].riskScore \in 0..100 /\ threats[i].status \in Status
  /\ Len(results) <= MaxResults
  /\ profiles \subseteq User \cup {Default} /\ Default \in profiles
  /\ volume \in Nat /\ made \in Nat

Init ==
  /\ now = 0 /\ due = {}
  /\ patterns = <<>> /\ threats = <<>> /\ results = <<>>
  /\ profiles = {Default} /\ volume = 100
  /\ made = 0

-----------------------------------------------------------------------------
(* Rules *)

\* The default rules: the conditions an event has to meet, of how many of
\* them at least count must be met, and what is then done with the threat.
\* unusual-access-001 asks for three of its two conditions.
Rules == <<
  [type |-> "suspicious_login", conditions |-> {"location", "device", "time"},
   count |-> 3, actions |-> {"alert", "escalate"}],
  [type |-> "brute_force", conditions |-> {"failed_count", "time_window"},
   count |-> 1, actions |-> {"block", "escalate"}],
  [type |-> "unusual_access_pattern", conditions |-> {"deviation", "frequency"},
   count |-> 3, actions |-> {"alert", "log"}] >>

\* Deviation in hundredths: a login count and a data volume count for at most
\* three each, and no profile ever learns an hour of access.
calculatePatternDeviation(data, mean) ==
    (IF data.loginCount = 0 THEN 0 ELSE Least(Distance(data.loginCount, 3) * 100, 300))
  + (IF data.timed THEN 200 ELSE 0)
  + (IF data.dataVolume = 0 THEN 0 ELSE Least((Distance(data.dataVolume, mean) * 100) \div 30, 300))

calculatePatternRiskScore(data, mean) ==
  LET base == Score((calculatePatternDeviation(data, mean) * 25) \div 100)
  IN  Score(base + (IF data.suspicious THEN 20 ELSE 0)
                 + (IF data.failedAttempts > 3 THEN 30 ELSE 0)
                 + (IF data.unusualLocation THEN 25 ELSE 0)
                 + (IF data.unknownDevice THEN 20 ELSE 0))

determineSeverityFromScore(score) ==
  IF score >= 80 THEN "critical" ELSE IF score >= 60 THEN "high"
  ELSE IF score >= 40 THEN "medium" ELSE "low"

\* A threat is named by its place in threats. kind says what made it.
Threat(type, kind, pattern) ==
  [type |-> type, from |-> kind, pattern |-> pattern.id, user |-> pattern.user,
   riskScore |-> pattern.riskScore, severity |-> determineSeverityFromScore(pattern.riskScore),
   confidence |-> Least(pattern.deviation \div 3, 100),
   status |-> "detected", createdAt |-> now, resolvedAt |-> 0, kept |-> TRUE]

evaluateRule(rule, data) == rule.conditions \cap data.meets

\* evaluateDetectionRules and executeRuleActions of the first rule of the
\* threat's type: of the actions only escalate writes to the threat.
createThreatFromRule(rule, pattern) ==
  [Threat(rule.type, "rule", pattern) EXCEPT
     !.severity = IF "escalate" \in rule.actions THEN "critical" ELSE @,
     !.confidence = (Cardinality(evaluateRule(rule, pattern.data)) * 100)
                       \div Cardinality(rule.conditions)]

evaluateDetectionRules(pattern) ==
  LET hit == Kept(Rules, {i \in DOMAIN Rules : Cardinality(evaluateRule(Rules[i], pattern.data)) >= Rules[i].count})
  IN  [i \in DOMAIN hit |-> createThreatFromRule(hit[i], pattern)]

-----------------------------------------------------------------------------
(* Detection results *)

\* The results with one more at the end; the oldest goes when there are too many.
Push(list, result) ==
  LET longer == Append(list, result)
  IN  IF Len(longer) > MaxResults THEN Tail(longer) ELSE longer

\* Mutant of addDetectionResult: results are told apart by score and time.
addDetectionResultOnce(list, id, t) ==
  IF \E i \in DOMAIN list : list[i].riskScore = t.riskScore /\ list[i].at = t.createdAt THEN list
  ELSE Push(list, [id |-> <<"threat", id>>, riskScore |-> t.riskScore, at |-> t.createdAt,
                   requiresEscalation |-> t.severity = "critical" \/ t.riskScore >= 80])

\* The result keeps the score and the severity the threat has when it is made.
addDetectionResult(list, id, t) ==
  IF \E i \in DOMAIN list : list[i].id = <<"threat", id>> THEN list
  ELSE Push(list, [id |-> <<"threat", id>>, riskScore |-> t.riskScore, at |-> t.createdAt,
                   requiresEscalation |-> t.severity = "critical" \/ t.riskScore >= 80])

\* The results after those of the new threats ts, one after the other.
Reported(ts) ==
  LET list[k \in 0..Len(ts)] ==
        IF k = 0 THEN results ELSE addDetectionResult(list[k - 1], Len(threats) + k, ts[k])
  IN  list[Len(ts)]

Make(ts) ==
  /\ Len(threats) + Len(ts) <= MaxThreats
  /\ threats' = threats \o ts
  /\ results' = Reported(ts)

\* recordSecurityEvent: the pattern is kept and the rules are asked at once.
RecordSecurityEvent(data) ==
  /\ due = {} /\ made < MaxThreats
  /\ LET pattern == [id |-> made + 1, user |-> data.userId, data |-> data, at |-> now,
                     deviation |-> calculatePatternDeviation(data, volume),
                     riskScore |-> calculatePatternRiskScore(data, volume)]
     IN  /\ patterns' = Append(patterns, pattern)
         /\ Make(evaluateDetectionRules(pattern))
  /\ made' = made + 1
  /\ UNCHANGED <<now, due, profiles, volume>>

\* The risk of a request, by its answer's status, its time and its kind.
calculateActionRiskScore(action) ==
  Score(10 + (IF action.suspicious THEN 60 ELSE 0)
           + (CASE action.status >= 500 -> 30 [] action.status \in 400..499 -> 20 [] OTHER -> 0)
           + (IF action.slow THEN 10 ELSE 0)
           + (IF action.type \in {"data_access", "card_lookup"} THEN 10 ELSE 0))

\* The kind of a request by its path, as trackBehavior asks it.
determineActionType(req) ==
  CASE req.path = "/auth/" /\ req.method = "POST" -> "login"
    [] req.path = "/logout" -> "logout"
    [] req.path \in {"/bin/", "/card/"} -> "card_lookup"
    [] req.path = "/iban/" -> "iban_validate"
    [] req.path = "/transaction/" -> "transaction"
    [] req.path \in {"/admin/", "/sensitive/"} -> "data_access"
    [] OTHER -> "api_call"

\* trackUserAction: a result without a threat.
trackUserAction(action) ==
  /\ results' = Push(results,
       [id |-> <<"action", made + 1>>, riskScore |-> calculateActionRiskScore(action),
        at |-> now, requiresEscalation |-> calculateActionRiskScore(action) >= 80])
  /\ made' = made + 1

\* trackBehavior, trackCardLookup, trackHighValueOperation: the answer to a
\* request is sent. Nothing is tracked without a user.
TrackBehavior(req, type) ==
  /\ due = {} /\ made < MaxThreats
  /\ req.user # NoUser
  /\ type \in {determineActionType(req), "card_lookup", "api_call"}
  /\ trackUserAction([type |-> type, status |-> req.status, slow |-> req.slow, suspicious |-> FALSE])
  /\ UNCHANGED <<now, due, patterns, threats, profiles, volume>>

\* trackLoginAttempt: with or without a user.
TrackLoginAttempt(req) ==
  /\ due = {} /\ made < MaxThreats
  /\ trackUserAction([type |-> "login", status |-> req.status, slow |-> req.slow, suspicious |-> FALSE])
  /\ UNCHANGED <<now, due, patterns, threats, profiles, volume>>

\* detectAPIAbuse: before the request is served, so it has no status.
DetectAPIAbuse(req) ==
  /\ due = {} /\ made < MaxThreats
  /\ req.suspicious
  /\ trackUserAction([type |-> "api_call", status |-> 0, slow |-> FALSE, suspicious |-> TRUE])
  /\ UNCHANGED <<now, due, patterns, threats, profiles, volume>>

-----------------------------------------------------------------------------
(* Timers *)

\* setInterval of the analysis and, every CleanEvery, of the cleanup.
Tick ==
  /\ due = {} /\ now < MaxTime
  /\ now' = now + 1
  /\ due' = {"analysis"} \cup (IF now' % CleanEvery = 0 THEN {"cleanup"} ELSE {})
  /\ UNCHANGED <<patterns, threats, results, profiles, volume, made>>

recentPatterns == Kept(patterns, {i \in DOMAIN patterns : now - patterns[i].at < Recent})

\* A tenth of each new volume; one mean for all users, for the copy made for
\* a user shares the default profile's dataAccess.
updateBaseline(mean, p) ==
  IF p.user = NoUser \/ p.data.dataVolume = 0 THEN mean
  ELSE (mean * 9 + p.data.dataVolume) \div 10

\* The profiles of the users that recent patterns name, and the one mean.
UpdateBaselines ==
  /\ volume' = FoldLeft(updateBaseline, volume, recentPatterns)
  /\ profiles' = profiles \cup ({recentPatterns[i].user : i \in DOMAIN recentPatterns} \ {NoUser})

updateThreatScores(ts) ==
  [i \in DOMAIN ts |->
     IF ts[i].kept /\ ts[i].status = "detected"
     THEN [ts[i] EXCEPT !.riskScore =
             Score((@ * Least(now - ts[i].createdAt, 2 * Hour)) \div Hour)]
     ELSE ts[i]]

\* performContinuousAnalysis: every recent pattern of a high risk makes a
\* threat again, whether or not it has made one before. There are never any
\* indicators to evaluate. The bound on threats leaves the last out.
PerformContinuousAnalysis ==
  /\ "analysis" \in due
  /\ LET risky == {i \in DOMAIN recentPatterns : recentPatterns[i].riskScore > 70}
         ts == [i \in 1..Least(Cardinality(risky), MaxThreats - Len(threats)) |->
                  Threat("anomalous_behavior", "pattern", recentPatterns[Nth(risky, i)])]
     IN  /\ threats' = updateThreatScores(threats \o ts)
         /\ results' = Reported(ts)
  /\ UpdateBaselines
  /\ due' = due \ {"analysis"}
  /\ UNCHANGED <<now, patterns, made>>

\* cleanupOldData
CleanupOldData ==
  /\ due = {"cleanup"}
  /\ patterns' = Kept(patterns, {i \in DOMAIN patterns : now - patterns[i].at <= MaxAge})
  /\ threats' = [i \in DOMAIN threats |->
       [threats[i] EXCEPT !.kept =
          @ /\ ~(threats[i].status = "resolved" /\ now - threats[i].resolvedAt > MaxAge)]]
  /\ results' = Kept(results, {k \in DOMAIN results : results[k].at >= now - MaxAge})
  /\ due' = {}
  /\ UNCHANGED <<now, profiles, volume, made>>

\* updateThreatStatus: any status after any other.
UpdateThreatStatus(i, status) ==
  /\ due = {} /\ threats[i].kept
  /\ threats' = [threats EXCEPT ![i].status = status,
                   ![i].resolvedAt = IF status = "resolved" THEN now ELSE @]
  /\ UNCHANGED <<now, due, patterns, results, profiles, volume, made>>

Next ==
  \/ \E data \in Events : RecordSecurityEvent(data)
  \/ \E req \in Requests : \/ \E type \in {determineActionType(req), "card_lookup", "api_call"} :
                                 TrackBehavior(req, type)
                           \/ TrackLoginAttempt(req)
                           \/ DetectAPIAbuse(req)
  \/ Tick
  \/ PerformContinuousAnalysis
  \/ CleanupOldData
  \/ \E i \in DOMAIN threats, status \in Status : UpdateThreatStatus(i, status)

-----------------------------------------------------------------------------
(* Properties *)

\* A threat less than MaxAge old has a detection result, exactly one of its
\* own, unless as many newer results as are kept have pushed it out; so
\* correlation and response, which only see results, can find it.
ThreatsAreReported ==
  \A i \in DOMAIN threats :
    LET own == {k \in DOMAIN results : results[k].id = <<"threat", i>>}
    IN  /\ Cardinality(own) <= 1
        /\ own = {} => \/ now - threats[i].createdAt > MaxAge
                       \/ Len(results) = MaxResults

=============================================================================
