-------------------------------- MODULE WorkPlan -------------------------------
(***************************************************************************)
(* The report analysis tool (src/analysis): Markdown reports are parsed    *)
(* one after the other, their pending items and metrics merged into gaps,  *)
(* the gaps made into the tasks of three phases, and the phases given      *)
(* their lengths, once by WBSGenerator and once by TimelineCalculator.     *)
(* Gaps never have dependencies of their own, so the only ones are those   *)
(* that calculateDependencies adds.                                        *)
(***************************************************************************)
EXTENDS Integers, Sequences, FiniteSets, FiniteSetsExt, SequencesExt

CONSTANT Files \* the lists of reports the tool may be started with, each a sequence of
               \* lines: headers, pending items and rows of metrics; what an item says
               \* and what a metric is called are the sets of their words

VARIABLES
  stage,
  files,   \* yet to parse
  reports, \* parsed
  gaps, phases,
  ends     \* the days on which the phases end, of the timeline

planVars == <<stage, files, reports, gaps, phases, ends>>

Priorities == <<"CRITICAL", "HIGH", "MEDIUM", "LOW">>
Rank(priority) == CHOOSE i \in 1..4 : Priorities[i] = priority

isHigherPriority(p, q) == Rank(p) < Rank(q)

\* Everything is of its kind.
TypeOK ==
  /\ stage \in {"parsing", "gaps", "phases", "done"}
  /\ \A i \in DOMAIN gaps : gaps[i].priority \in ToSet(Priorities) /\ gaps[i].days \in {5, 7, 14, 28}
  /\ \A p \in DOMAIN phases : ToSet(phases[p].tasks) \subseteq ToSet(gaps) /\ phases[p].duration \in Nat
  /\ \A i \in DOMAIN ends : ends[i] \in Nat

Init ==
  /\ stage = "parsing" /\ files \in Files
  /\ reports = <<>> /\ gaps = <<>> /\ phases = <<>> /\ ends = <<>>

-----------------------------------------------------------------------------
(* Reading the reports *)

\* The first of these words that the description has decides, in either case:
\* equal descriptions are equally urgent.
PriorityOf(words) ==
  LET found == SelectSeq(<<"CRITICAL", "HIGH", "LOW">>, LAMBDA w : w \in words)
  IN  IF found = <<>> THEN "MEDIUM" ELSE Head(found)

\* Items are of the category of the header above them and are numbered from 1 in
\* each report; a metric is taken from its first row.
ParseLine(report, line) ==
  CASE line.kind = "header" -> [report EXCEPT !.category = line.name]
    [] line.kind = "pending" ->
         [report EXCEPT !.items = Append(@,
            [id |-> <<"pending", Len(@) + 1>>, description |-> line.description,
             category |-> report.category, priority |-> PriorityOf(line.description)])]
    [] line.kind = "metric" /\ \A i \in DOMAIN report.metrics : report.metrics[i].name # line.name ->
         [report EXCEPT !.metrics = Append(@, line)]
    [] OTHER -> report

\* A file that cannot be read is left out.
ParseReport ==
  /\ stage = "parsing" /\ files # <<>>
  /\ files' = Tail(files)
  /\ \/ reports' = Append(reports,
          FoldLeft(ParseLine, [category |-> "General", items |-> <<>>, metrics |-> <<>>], Head(files)))
     \/ UNCHANGED reports
  /\ UNCHANGED <<stage, gaps, phases, ends>>

-----------------------------------------------------------------------------
(* Gaps *)

\* A JavaScript Map: a key keeps its place when its value is replaced, which
\* Replaces decides.
Keyed(list, key(_), Replaces(_, _)) ==
  FoldLeft(LAMBDA map, x :
      LET same == {i \in DOMAIN map : key(map[i]) = key(x)}
      IN  IF same = {} THEN Append(map, x)
          ELSE [i \in DOMAIN map |-> IF i \in same /\ Replaces(x, map[i]) THEN x ELSE map[i]],
    <<>>, list)

\* Mutant of MoreUrgent: of two equal titles the first is kept.
FirstFound(a, b) == FALSE

MoreUrgent(a, b) == isHigherPriority(a.priority, b.priority)

All(list, F(_)) == FlattenSeq([i \in DOMAIN list |-> F(list[i])])

extractPendingItems == Keyed(All(reports, LAMBDA r : r.items), LAMBDA i : i.description, MoreUrgent)

\* The last report decides, unless only an earlier one has measured the metric.
mergeMetrics ==
  Keyed(All(reports, LAMBDA r : r.metrics), LAMBDA m : m.name, LAMBDA new, old : new.measured \/ ~old.measured)

estimateEffort(priority, category) ==
  CASE category = "Security" -> IF priority = "CRITICAL" THEN 7 ELSE 14
    [] category = "Testing" -> IF priority = "HIGH" THEN 14 ELSE 28
    [] category = "Performance" -> 14
    [] category = "Documentation" -> 5
    [] OTHER -> CASE priority = "CRITICAL" -> 7 [] priority = "LOW" -> 5 [] OTHER -> 14

\* The last case rates the gap by its share of the target.
PriorityOfMetric(m, category) ==
  CASE category = "Security" -> "CRITICAL"
    [] category \in {"Testing", "Production Readiness"} -> "HIGH"
    [] category = "Performance" -> "MEDIUM"
    [] OTHER -> IF (m.target - m.current) * 100 > 50 * m.target THEN "HIGH"
                ELSE IF (m.target - m.current) * 100 > 25 * m.target THEN "MEDIUM" ELSE "LOW"

\* The words a category is known by; a name that has words of two is of the first.
Categories ==
  << [name |-> "Testing", words |-> {"test", "coverage"}],
     [name |-> "Security", words |-> {"security", "owasp"}],
     [name |-> "Performance", words |-> {"performance"}],
     [name |-> "Data Quality", words |-> {"data", "quality"}],
     [name |-> "Production Readiness", words |-> {"production", "readiness"}] >>

determineCategory(name) ==
  LET found == SelectSeq(Categories, LAMBDA c : c.words \cap name # {})
  IN  IF found = <<>> THEN "General" ELSE Head(found).name

GapOfMetric(m) ==
  LET category == determineCategory(m.name)
      priority == PriorityOfMetric(m, category)
  IN  [id |-> <<"metric", m.name>>, title |-> {"improve"} \cup m.name, category |-> category,
       priority |-> priority, days |-> estimateEffort(priority, category)]

\* An item may ask for what a metric asks for as well: `Improve ...`.
GapOfItem(i) ==
  [id |-> i.id, title |-> i.description, category |-> i.category, priority |-> i.priority,
   days |-> estimateEffort(i.priority, i.category)]

deduplicateGaps(found) == Keyed(found, LAMBDA g : g.title, MoreUrgent)

AnalyzeGaps ==
  /\ stage = "parsing" /\ files = <<>>
  /\ stage' = "gaps"
  /\ LET short == SelectSeq(mergeMetrics, LAMBDA m : m.current < m.target)
         found == [i \in DOMAIN short |-> GapOfMetric(short[i])]
                    \o [i \in DOMAIN extractPendingItems |-> GapOfItem(extractPendingItems[i])]
     IN  gaps' = deduplicateGaps(found)
  /\ UNCHANGED <<files, reports, phases, ends>>

-----------------------------------------------------------------------------
(* Phases *)

With(list, Test(_)) == SelectSeq(list, LAMBDA t : Test(t))
Only(list, priority) == SelectSeq(list, LAMBDA t : t.priority = priority)
AtMost(list, n) == SubSeq(list, 1, Min({n, Len(list)}))
After(list, n) == SubSeq(list, n + 1, Len(list))

\* Critical tasks that are no security tasks have two places.
PhaseTasks(tasks) ==
  LET critical == Only(tasks, "CRITICAL")
      high == Only(tasks, "HIGH")
      medium == Only(tasks, "MEDIUM")
  IN  << With(critical, LAMBDA t : t.category = "Security")
           \o AtMost(With(critical, LAMBDA t : t.category # "Security"), 2),
         With(high, LAMBDA t : t.category = "Testing") \o With(high, LAMBDA t : t.category # "Testing")
           \o AtMost(medium, 5),
         After(medium, 5) \o Only(tasks, "LOW") >>

First(list, Test(_)) == SelectInSeq(list, Test)

\* Security tasks are done one after the other, and testing after the first
\* critical one. Tasks are known by their ids: dependencies and taskMap have the
\* last task of an id, findIndex the first.
calculateDependencies(tasks, id) ==
  LET task == tasks[SelectLastInSeq(tasks, LAMBDA t : t.id = id)]
      security == With(tasks, LAMBDA t : t.category = "Security")
      index == First(security, LAMBDA t : t.id = id)
      critical == With(security, LAMBDA t : t.priority = "CRITICAL")
  IN  (IF task.category = "Security" /\ index > 1 THEN {security[index - 1].id} ELSE {})
        \cup (IF task.category = "Testing" /\ critical # <<>> THEN {Head(critical).id} ELSE {})

RECURSIVE durationWithDeps(_, _, _)
durationWithDeps(tasks, id, visited) ==
  IF id \in visited THEN 0
  ELSE Max({0} \cup {durationWithDeps(tasks, d, visited \cup {id}) : d \in calculateDependencies(tasks, id)})
         + tasks[SelectLastInSeq(tasks, LAMBDA t : t.id = id)].days

calculatePhaseDuration(tasks) ==
  Max({0} \cup {durationWithDeps(tasks, t.id, {}) : t \in ToSet(tasks)})

sortTasksByPriority(tasks) == All(Priorities, LAMBDA p : Only(tasks, p))

BuildPhases ==
  /\ stage = "gaps"
  /\ stage' = "phases"
  /\ phases' = [p \in 1..3 |-> [tasks |-> sortTasksByPriority(PhaseTasks(gaps)[p]),
                                duration |-> calculatePhaseDuration(PhaseTasks(gaps)[p])]]
  /\ UNCHANGED <<files, reports, gaps, ends>>

\* Of tasks that do not depend on any other the longest path is the first of
\* them: TimelineCalculator does not ask for calculateDependencies.
timelineDuration(tasks) == IF tasks = <<>> THEN 0 ELSE Head(tasks).days

CalculateTimeline ==
  /\ stage = "phases"
  /\ stage' = "done"
  /\ ends' = [p \in 1..3 |-> MapThenSumSet(LAMBDA q : timelineDuration(phases[q].tasks), 1..p)]
  /\ UNCHANGED <<files, reports, gaps, phases>>

Next ==
  \/ ParseReport
  \/ AnalyzeGaps
  \/ BuildPhases
  \/ CalculateTimeline

-----------------------------------------------------------------------------
(* Properties *)

Planned == UNION {ToSet(phases[p].tasks) : p \in DOMAIN phases}

\* A pending item of any report is planned once, and at least as urgent as the
\* report has it, also where a metric asks for the same. Only an item that is
\* critical and that some report has outside Security can be in no phase, and
\* only when two critical tasks outside Security are planned.
EveryItemIsPlanned ==
  stage \in {"phases", "done"} =>
    LET items == UNION {ToSet(reports[r].items) : r \in DOMAIN reports} IN
    \A item \in items :
      LET same == {t \in Planned : t.title = item.description}
          others == {t \in ToSet(phases[1].tasks) : t.category # "Security"}
      IN  IF same = {}
          THEN /\ item.priority = "CRITICAL" /\ Cardinality(others) = 2
               /\ \E i \in items : i.description = item.description /\ i.category # "Security"
          ELSE Cardinality(same) = 1 /\ \A t \in same : ~isHigherPriority(item.priority, t.priority)

\* WBSGenerator lets a phase last as long as its security tasks one after the
\* other and as long as any other of its tasks, and TimelineCalculator gives it
\* no more days than that (fewer, where tasks depend on each other), if no two of
\* its tasks have the same id: the items of every report are numbered from 1, so
\* two reports can share ids, and then tasks are taken for each other.
ChainsFit ==
  \A p \in DOMAIN phases :
    LET tasks == ToSet(phases[p].tasks)
        security == {t \in tasks : t.category = "Security"}
    IN  (\A t, u \in tasks : t.id = u.id => t = u) =>
          /\ phases[p].duration >= MapThenSumSet(LAMBDA t : t.days, security)
          /\ \A t \in tasks : phases[p].duration >= t.days
          /\ phases[p].duration <= MapThenSumSet(LAMBDA t : t.days, tasks)
          /\ p \in DOMAIN ends => ends[p] - (IF p = 1 THEN 0 ELSE ends[p - 1]) <= phases[p].duration

\* Nothing that a report asks for is lost but as said above, and the phases of
\* the work breakdown last long enough for the chains of their tasks.
PlanIsComplete == EveryItemIsPlanned /\ ChainsFit

=============================================================================
