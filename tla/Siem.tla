-------------------------------- MODULE Siem ---------------------------------
(***************************************************************************)
(* siemFramework.ts: security events and the incidents still active, kept  *)
(* in two maps, escalated by timers set when an event is created and by    *)
(* thresholds, updated by whoever works on them, and cleaned up when old.  *)
(* One unit of time is the five minutes before the second escalation.      *)
(***************************************************************************)
EXTENDS Integers, Sequences, FiniteSets, FiniteSetsExt, Functions, TLC

CONSTANTS
  Kinds,      \* the categories and severities of the events there may be
  OlderThan,  \* the age from which cleanupOldEvents forgets what is resolved
  MaxEvents, MaxTime \* bounds of the model

IncidentStatus == {"new", "investigating", "in_progress", "escalated", "resolved", "false_positive"}
Severity == {"low", "medium", "high", "critical"}
Id == 1..MaxEvents

VARIABLES
  now,
  made,            \* how many events there have been
  events,
  activeIncidents, \* with what was last copied there
  timers           \* escalations to come

vars == <<now, made, events, activeIncidents, timers>>

Event == [category : {k[1] : k \in Kinds}, severity : Severity, status : IncidentStatus,
          timestamp : 0..MaxTime, level : 0..2, assigned : BOOLEAN]

\* Everything is of its kind; the second map never knows an event the first
\* does not.
TypeOK ==
  /\ now \in 0..MaxTime /\ made \in 0..MaxEvents
  /\ DOMAIN events \subseteq 1..made /\ Range(events) \subseteq Event
  /\ DOMAIN activeIncidents = DOMAIN events /\ Range(activeIncidents) \subseteq Event
  /\ timers \subseteq [event : Id, level : 1..2, at : Nat]

Init ==
  /\ now = 0 /\ made = 0
  /\ events = [e \in {} |-> 0] /\ activeIncidents = [e \in {} |-> 0]
  /\ timers = {}

-----------------------------------------------------------------------------

\* The default thresholds and policies. The other thresholds only log.
AlertThresholds(category, severity) ==
  CASE category = "authentication" /\ severity = "critical" ->
         [maxCount |-> 1, window |-> 1, action |-> "escalate"]
    [] category = "rate_limit" /\ severity = "high" ->
         [maxCount |-> 10, window |-> 0, action |-> "block"]
    [] category = "anomalous_behavior" /\ severity = "medium" ->
         [maxCount |-> 5, window |-> 2, action |-> "alert"]
    [] OTHER -> [maxCount |-> 1, window |-> 0, action |-> "none"]

\* The delays of the levels to which an event is escalated.
EscalationPolicies(category, severity) ==
  IF category = "authentication" /\ severity = "critical" THEN <<0, 1>> ELSE <<>>

\* escalateEvent: the other map is not told.
Escalated(map, id, level) ==
  [map EXCEPT ![id].status = "escalated", ![id].level = level]

\* checkAlertThresholds: an event that comes within the window of enough
\* others of its kind is escalated to the first level at once.
checkAlertThresholds(map, id) ==
  LET e == map[id]
      threshold == AlertThresholds(e.category, e.severity)
      recent == {k \in DOMAIN map : /\ map[k].category = e.category
                                    /\ map[k].severity = e.severity
                                    /\ map[k].timestamp >= now - threshold.window}
  IN  IF /\ threshold.action = "escalate"
         /\ Cardinality(recent) >= threshold.maxCount
         /\ EscalationPolicies(e.category, e.severity) # <<>>
      THEN Escalated(map, id, 1) ELSE map

\* createEvent, with its timers.
CreateEvent(category, severity) ==
  /\ made < MaxEvents /\ now < MaxTime
  /\ made' = made + 1
  /\ LET e == [category |-> category, severity |-> severity, status |-> "new",
               timestamp |-> now, level |-> 0, assigned |-> FALSE]
         levels == EscalationPolicies(category, severity)
     IN  /\ events' = checkAlertThresholds(events @@ made' :> e, made')
         /\ activeIncidents' = activeIncidents @@ made' :> e
         /\ timers' = timers \cup
              {[event |-> made', level |-> l, at |-> now + levels[l]] : l \in DOMAIN levels}
  /\ UNCHANGED now

\* updateEvent with a status: any, after any other. Both maps get the event.
UpdateStatus(id, status) ==
  /\ events' = [events EXCEPT ![id].status = status]
  /\ activeIncidents' = IF id \in DOMAIN activeIncidents
                        THEN [activeIncidents EXCEPT ![id] = events'[id]]
                        ELSE activeIncidents
  /\ UNCHANGED <<now, made, timers>>

\* updateEvent without one.
UpdateAssignee(id) ==
  /\ ~events[id].assigned
  /\ events' = [events EXCEPT ![id].assigned = TRUE]
  /\ UNCHANGED <<now, made, activeIncidents, timers>>

\* Mutant of EscalationTimer: what is escalated is not escalated again.
EscalationTimerOpen(t) ==
  /\ t.at <= now /\ \A u \in timers : u.event = t.event => t.level <= u.level
  /\ timers' = timers \ {t}
  /\ events' = IF t.event \in DOMAIN events /\ events[t.event].status \notin {"resolved", "escalated"}
               THEN Escalated(events, t.event, t.level) ELSE events
  /\ UNCHANGED <<now, made, activeIncidents>>

\* A timer of checkEscalationRequirements: whoever has resolved the event by
\* now has stopped it, whoever has called it a false positive has not.
EscalationTimer(t) ==
  /\ t.at <= now /\ \A u \in timers : u.event = t.event => t.level <= u.level
  /\ timers' = timers \ {t}
  /\ events' = IF t.event \in DOMAIN events /\ events[t.event].status # "resolved"
               THEN Escalated(events, t.event, t.level) ELSE events
  /\ UNCHANGED <<now, made, activeIncidents>>

\* cleanupOldEvents
CleanupOldEvents ==
  /\ LET old == {id \in DOMAIN events : /\ events[id].timestamp < now - OlderThan
                                        /\ events[id].status = "resolved"}
     IN  /\ old # {}
         /\ events' = Restrict(events, DOMAIN events \ old)
         /\ activeIncidents' = Restrict(activeIncidents, DOMAIN activeIncidents \ old)
  /\ UNCHANGED <<now, made, timers>>

Tick ==
  /\ now < MaxTime /\ \A t \in timers : t.at > now
  /\ now' = now + 1
  /\ UNCHANGED <<made, events, activeIncidents, timers>>

Next ==
  \/ \E k \in Kinds : CreateEvent(k[1], k[2])
  \/ \E id \in DOMAIN events : \/ \E status \in IncidentStatus : UpdateStatus(id, status)
                               \/ UpdateAssignee(id)
  \/ \E t \in timers : EscalationTimer(t)
  \/ CleanupOldEvents
  \/ Tick

\* What a running process does by itself: timers fire and time goes on.
Proceeds == (\E t \in timers : EscalationTimer(t)) \/ Tick

-----------------------------------------------------------------------------
(* Properties *)

\* "Critical incident unresolved - escalating to management": an event with an
\* escalation outstanding comes to the second level, unless it is resolved
\* when the time has come; a false positive is told to management all the same.
ManagementIsTold ==
  \A id \in Id :
    (\E t \in timers : t.event = id)
      ~> (id \in DOMAIN events => events[id].level = 2 \/ events[id].status = "resolved")

=============================================================================
