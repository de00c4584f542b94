----------------------------- MODULE DataQuality -----------------------------
(***************************************************************************)
(* The quality of the BIN table as the API and two scripts report it: the  *)
(* calculator, of whose four metrics only the completeness depends on the  *)
(* table, the history the trends are taken from, the anomalies and alerts. *)
(* Metrics are in percent. A query that fails ends its request and leaves  *)
(* no trace; nobody starts the monitor's timer.                            *)
(***************************************************************************)
EXTENDS Integers, Sequences, FiniteSets

CONSTANTS
  Request,
  Days,      \* of the periods "30d", "60d" and "90d"; the history goes back as far as the last
  MaxPoints, MaxTime,
  NoMetrics

VARIABLES
  now,
  filled,      \* does the table have rows?
  history,     \* of the trend analyzer: [date, metrics]
  lastMetrics,
  requests,    \* what those that wait for the statistics are for, and what these say
  response,      \* of the step just taken, if it answers
  seen         \* history: the days on which the table had rows, and had none

qualityVars == <<now, filled, history, lastMetrics, requests, response, seen>>

Metric == {"accuracy", "completeness", "freshness", "consistency"}
Period == {"30d", "60d", "90d"}

calculateOverallQuality(full) ==
  [accuracy |-> 95, completeness |-> IF full THEN 100 ELSE 0, freshness |-> 95, consistency |-> 90]

overallScore(m) == (40 * m.accuracy + 20 * (m.completeness + m.freshness + m.consistency)) \div 100

QualityTypeOK ==
  /\ filled \in BOOLEAN /\ Len(history) <= MaxPoints
  /\ \A i \in 1..Len(history) - 1 : history[i].date <= history[i + 1].date
  /\ lastMetrics # NoMetrics => \E i \in DOMAIN history : lastMetrics = history[i].metrics
  /\ \A r \in Request : requests[r] # NoMetrics => requests[r].for \in {"collection", "dashboard"}
  /\ seen \subseteq (0..now) \X BOOLEAN

QualityInit ==
  /\ now = 0 /\ filled \in BOOLEAN /\ history = <<>> /\ lastMetrics = NoMetrics
  /\ requests = [r \in Request |-> NoMetrics] /\ response = NoMetrics /\ seen = {<<0, filled>>}

-----------------------------------------------------------------------------
(* Trends *)

\* Mutant of Within: all points that are left.
WithinAny(points, period) == points

Within(points, period) ==
  LET upTo[i \in 0..Len(points)] ==
        IF i = 0 THEN <<>>
        ELSE upTo[i - 1] \o (IF points[i].date >= now - Days[period] THEN <<points[i]>> ELSE <<>>)
  IN  upTo[Len(points)]

Total(points, m) ==
  LET upTo[i \in 0..Len(points)] == IF i = 0 THEN 0 ELSE upTo[i - 1] + points[i].metrics[m]
  IN  upTo[Len(points)]

\* By how much the average of the later half is above that of the earlier one,
\* and the latter, both times the same divisor.
Moves(data) ==
  LET half == Len(data) \div 2
      move(m) == LET before == Total(SubSeq(data, 1, half), m)
                     after == Total(SubSeq(data, half + 1, Len(data)), m)
                 IN  [change |-> after * half - before * (Len(data) - half), of |-> before * (Len(data) - half)]
  IN  [m \in Metric |-> move(m)]

\* More than one percent; an average of 0 is never left.
calculateTrend(move) ==
  CASE move.of = 0 -> "stable"
    [] move.of # 0 /\ 100 * move.change > move.of -> "improving"
    [] move.of # 0 /\ 100 * move.change < -move.of -> "degrading"
    [] OTHER -> "stable"

\* "degrading significantly".
Fallen(moves) == {m \in Metric : 100 * moves[m].change < -5 * moves[m].of}

\* An average of n times 0.95 is less than 0.95, as doubles add up.
Undershoots(n) == n = 3 \/ n \in 12..38

determineOverallTrend(trends) ==
  LET improving == Cardinality({m \in Metric : trends[m] = "improving"})
      degrading == Cardinality({m \in Metric : trends[m] = "degrading"})
  IN  IF improving > degrading THEN "improving" ELSE IF degrading > improving THEN "degrading" ELSE "stable"

Watched == {"accuracy", "completeness"}

identifyCriticalIssues(data, moves) ==
  LET later == SubSeq(data, Len(data) \div 2 + 1, Len(data))
      low(m, percent) == Total(later, m) < percent * Len(later)
  IN  (IF low("accuracy", 95) \/ Undershoots(Len(later)) THEN {<<"low", "accuracy">>} ELSE {})
        \cup (IF low("completeness", 90) THEN {<<"low", "completeness">>} ELSE {})
        \cup (IF low("freshness", 80) THEN {<<"low", "freshness">>} ELSE {})
        \cup {<<"degrading", m>> : m \in Watched \cap Fallen(moves)}

generateRecommendations(trends, issues) ==
  {m \in Metric \ {"consistency"} : trends[m] = "degrading"} \cup (IF issues = {} THEN {} ELSE {"critical"})

analyzeTrends(points, period) ==
  LET data == IF Len(Within(points, period)) < 2 THEN <<>> ELSE Within(points, period)
      moves == Moves(data)
      trends == [m \in Metric |-> calculateTrend(moves[m])]
      issues == identifyCriticalIssues(data, moves)
  IN  [period |-> period, trends |-> trends, overallTrend |-> determineOverallTrend(trends),
       fallen |-> Fallen(moves),
       recommendations |-> IF data = <<>> THEN {"collect"} ELSE generateRecommendations(trends, issues),
       issues |-> IF data = <<>> THEN {<<"insufficient", "data">>} ELSE issues]

-----------------------------------------------------------------------------
(* Anomalies and alerts *)

Critical == [accuracy |-> 90, completeness |-> 85, freshness |-> 70, consistency |-> 80]
Warning == [accuracy |-> 95, completeness |-> 90]

\* Without an analysis its fallen metrics are none.
detectAnomalies(metrics, fallen) ==
  {<<m, "critical">> : m \in {m \in Watched : metrics[m] < Critical[m]}}
    \cup {<<m, "high">> : m \in {m \in Watched : Critical[m] <= metrics[m] /\ metrics[m] < Warning[m]}}
    \cup {<<m, "high">> : m \in {m \in Metric \ Watched : metrics[m] < Critical[m]}}
    \cup {<<m, "high", "trend">> : m \in Watched \cap fallen}

generateAlerts(metrics, analysis, anomalies) ==
  anomalies
    \cup (IF overallScore(metrics) < 85 THEN {<<"score", "high">>} ELSE {})
    \cup (IF analysis.overallTrend = "degrading" THEN {<<"trend", "medium">>} ELSE {})

-----------------------------------------------------------------------------
(* Requests *)

\* The statistics are read; a dashboard asks for them only before the first
\* collection.
Query(r, for) ==
  /\ requests[r] = NoMetrics /\ (for = "dashboard" => lastMetrics = NoMetrics)
  /\ requests' = [requests EXCEPT ![r] = [for |-> for, metrics |-> calculateOverallQuality(filled)]]
  /\ response' = NoMetrics /\ UNCHANGED <<now, filled, history, lastMetrics, seen>>

\* The endpoints for metrics, trends, anomalies and alerts collect alike, and
\* answer with a part of the result. That for trends takes a period, and tells
\* of the last 30 days.
collectMetrics(r) ==
  /\ requests[r] # NoMetrics /\ requests[r].for = "collection" /\ Len(history) < MaxPoints
  /\ LET metrics == requests[r].metrics
         points == Within(Append(history, [date |-> now, metrics |-> metrics]), "90d")
         analysis == analyzeTrends(points, "30d")
         anomalies == detectAnomalies(metrics, analysis.fallen)
     IN  /\ history' = points /\ lastMetrics' = metrics
         /\ response' = [analyses |-> {analysis}, anomalies |-> anomalies,
                       alerts |-> generateAlerts(metrics, analysis, anomalies)]
  /\ requests' = [requests EXCEPT ![r] = NoMetrics]
  /\ UNCHANGED <<now, filled, seen>>

\* With the metrics of the last collection, however long ago; the anomalies
\* among the trends are none of its own.
DashboardOf(metrics) ==
  LET anomalies == detectAnomalies(metrics, {})
  IN  [analyses |-> {analyzeTrends(history, p) : p \in Period}, anomalies |-> anomalies,
       alerts |-> generateAlerts(metrics, analyzeTrends(history, "30d"), anomalies)]

getDashboardData ==
  /\ \/ lastMetrics # NoMetrics /\ response' = DashboardOf(lastMetrics) /\ UNCHANGED requests
     \/ \E r \in Request :
          /\ requests[r] # NoMetrics /\ requests[r].for = "dashboard"
          /\ response' = DashboardOf(requests[r].metrics) /\ requests' = [requests EXCEPT ![r] = NoMetrics]
  /\ UNCHANGED <<now, filled, history, lastMetrics, seen>>

\* A load into an empty table, or rollbacks of all that was loaded.
TableChanges ==
  /\ filled' = ~filled /\ seen' = seen \cup {<<now, filled'>>} /\ response' = NoMetrics
  /\ UNCHANGED <<now, history, lastMetrics, requests>>

\* Days are long: a query takes less than 30 seconds.
Tick ==
  /\ now < MaxTime /\ \A r \in Request : requests[r] = NoMetrics
  /\ now' = now + 1 /\ response' = NoMetrics /\ seen' = seen \cup {<<now', filled>>}
  /\ UNCHANGED <<filled, history, lastMetrics, requests>>

QualityNext ==
  \/ \E r \in Request, for \in {"collection", "dashboard"} : Query(r, for)
  \/ \E r \in Request : collectMetrics(r)
  \/ getDashboardData
  \/ TableChanges
  \/ Tick

-----------------------------------------------------------------------------
(* Properties *)

\* A trend tells of what has happened in its period, however late the answers
\* come and in whichever order: the data have become less complete only if the
\* table was full on a day of the period and empty on that day or a later one,
\* and the same for more complete; the other metrics do not move.
TrendIsNotInvented ==
  response # NoMetrics => \A a \in response.analyses :
    LET moved(before) ==
          \E d, e \in 0..now : d <= e /\ <<d, before>> \in seen /\ <<e, ~before>> \in seen /\ d >= now - Days[a.period]
    IN  /\ a.trends["completeness"] = "degrading" => moved(TRUE)
        /\ a.trends["completeness"] = "improving" => moved(FALSE)
        /\ \A m \in Metric \ {"completeness"} : a.trends[m] = "stable"

=============================================================================
