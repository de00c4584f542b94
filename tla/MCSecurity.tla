----------------------------- MODULE MCSecurity ------------------------------
(* Small instances of the parts of src/security that share no state in one  *)
(* run: component says which of them moves, the others stay as they began.  *)
EXTENDS Security

VARIABLES
  component,
  created, events, activeIncidents, escalations                      \* siem

detection == <<due, patterns, threats, results, profiles, volume, made>>
response == <<cleaned, log, runs, handled, calls, timers, responses, correlations, entities,
              executions, ipBlocks, accountLocks, rateLimiters, incidents>>
siem == <<created, events, activeIncidents, escalations>>

vars == <<component, now, detection, response, siem>>

\* Two events, of a suspicious user whose pattern is risky without meeting a
\* rule, and of nobody who meets the brute force rule.
Event(logins, data, suspicious, meets) ==
  [userId |-> IF logins = 0 THEN "u" ELSE "none", loginCount |-> logins, timed |-> FALSE,
   dataVolume |-> data, suspicious |-> suspicious, failedAttempts |-> 0,
   unusualLocation |-> FALSE, unknownDevice |-> FALSE, meets |-> meets]

DetectedEvents == {Event(9, 0, FALSE, {"failed_count"}), Event(0, 400, TRUE, {})}
SeenRequests ==
  {[path |-> "/auth/", method |-> "POST", user |-> "u", status |-> 401, slow |-> FALSE, suspicious |-> TRUE],
   [path |-> "/x", method |-> "GET", user |-> "none", status |-> 200, slow |-> TRUE, suspicious |-> FALSE]}

\* A threat of an address that a default response answers with a delay, and
\* one of nobody that an added response answers at once and fails on.
Result(type, risk, ip, user) ==
  [type |-> type, confidence |-> 100, riskScore |-> risk, ip |-> ip, userId |-> user]
LockResponse ==
  [id |-> "lock", type |-> "anomalous_behavior", conf |-> 70, risk |-> 60,
   actions |-> <<"lock_account", "block_ip">>, delayed |-> FALSE]

ThreatResults == {Result("anomalous_behavior", 100, "ip", "none"), Result("malicious_bot", 50, "none", "u")}
LockResponses == {LockResponse}

\* Critical events, which are escalated twice, and others that never are.
Framework == INSTANCE Siem WITH
  made <- created, timers <- escalations,
  Kinds <- {<<"authentication", "critical">>, <<"anomalous_behavior", "medium">>},
  OlderThan <- 0, MaxEvents <- 2, MaxTime <- 1

Init ==
  /\ component \in {"detection", "response", "siem"}
  /\ Detection!Init /\ Response!Init /\ Framework!Init

Next ==
  \/ /\ component = "detection" /\ Detection!Next
     /\ UNCHANGED <<component, response, siem>>
  \/ /\ component = "response" /\ Response!Next
     /\ UNCHANGED <<component, detection, siem>>
  \/ /\ component = "siem" /\ Framework!Next
     /\ UNCHANGED <<component, detection, response>>

\* The process whose part moves goes on by itself.
Proceeds ==
  \/ component = "response" /\ Response!Proceeds /\ UNCHANGED <<component, detection, siem>>
  \/ component = "siem" /\ Framework!Proceeds /\ UNCHANGED <<component, detection, response>>

Spec == Init /\ [][Next]_vars /\ WF_vars(Proceeds)

\* Everything is of its kind in the part that moves.
Types ==
  /\ component = "detection" => Detection!TypeOK
  /\ component = "response" => Response!TypeOK
  /\ component = "siem" => Framework!TypeOK
ResponsesAreCarriedOut == Response!ResponsesAreCarriedOut
ManagementIsTold == Framework!ManagementIsTold
=============================================================================
