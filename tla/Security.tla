------------------------------- MODULE Security -------------------------------
(***************************************************************************)
(* The parts of src/security that detect threats and that answer them,     *)
(* each with parameters of its own, and what they guarantee.               *)
(***************************************************************************)
EXTENDS Integers, Sequences, FiniteSets

CONSTANTS
  \* detection
  DetectedUser, Events, Requests, Recent, DetectionCleanEvery, MaxAge, Hour, MaxResults, MaxThreats,
  DetectionTime, NoUser,
  \* response
  Results, ResponseIds, AddedResponses, RuleIds, Minutes, Latest, Delay, ResponseCleanEvery,
  BlockFor, KeepFor, MaxCalls, MaxRollbacks, ResponseTime, None

VARIABLES
  now,
  due, patterns, threats, results, profiles, volume, made,
  cleaned, log, runs, handled, calls, timers, responses, correlations, entities,
  executions, ipBlocks, accountLocks, rateLimiters, incidents

Detection == INSTANCE ThreatDetection WITH
  User <- DetectedUser, CleanEvery <- DetectionCleanEvery, MaxTime <- DetectionTime

Response == INSTANCE ThreatResponse WITH CleanEvery <- ResponseCleanEvery, MaxTime <- ResponseTime

\* Some results are kept, for some time (behavioralThreatDetection.ts: 5000, and
\* a day).
ASSUME ResultsAssumption == MaxResults \in Nat \ {0} /\ MaxAge \in Nat /\ MaxThreats \in Nat

\* Executions are kept for longer than blocks last: 7 days and 24 hours
\* (automatedResponse.ts).
ASSUME KeepingAssumption == BlockFor \in Nat /\ KeepFor \in Nat /\ BlockFor <= KeepFor
ASSUME CallsAssumption == MaxCalls \in Nat \ {0}

\* What is added is a finite number of responses of some actions each.
ASSUME AddedAssumption ==
  IsFiniteSet(AddedResponses) /\ \A p \in AddedResponses : p.actions \in Seq(STRING)

-----------------------------------------------------------------------------
\* A threat that is not old has one result of its own, unless newer ones have
\* pushed it out (behavioralThreatDetection.ts).
ThreatsAreReported == Detection!ThreatsAreReported

\* An address or account that is shut out can be let in again
\* (automatedResponse.ts, rollbackExecution and the hourly cleanups).
BlockCanBeUndone == Response!BlockCanBeUndone
=============================================================================
