------------------------------ MODULE GoldenSet ------------------------------
(***************************************************************************)
(* The golden set and what is measured with it: the scripts that write the *)
(* file of verified BINs from the sources or from the table, that draw a   *)
(* sample for people to verify, that measure the accuracy of lookups and   *)
(* that compare the file with the table. Each is a process of its own; the *)
(* ETL may change the table while they run. Confidences, which nothing     *)
(* decides by, and what is only logged are left out.                       *)
(***************************************************************************)
EXTENDS Integers, Sequences, FiniteSets, FiniteSetsExt, SequencesExt

CONSTANTS
  Bin,
  Sources,     \* the rows of the sources, in the order they are read: [source, bin] and the fields
  Entries,     \* what the table may say of a BIN
  WeightOf(_), \* SOURCE_WEIGHTS
  Modes,       \* --mode of generate-from-sources
  MinRecords,  \* --min
  SampleSize,  \* --count
  MaxProcesses,
  None

VARIABLES
  rows,        \* of the sources
  table,       \* bins
  goldenSet,   \* golden-set.json
  sample, notes, \* the BINs of the two files for people
  baseline,    \* the measurement, and its report
  report,      \* accuracy-report.json
  comparison,  \* of validate.ts
  processes    \* how many were started

goldenVars == <<rows, table, goldenSet, sample, notes, baseline, report, comparison, processes>>

Field == {"country", "network", "issuer", "type"}
Idle == [at |-> "none", exact |-> FALSE]

\* Everything is of its kind.
TypeOK ==
  /\ rows \in Sources /\ table \in [Bin -> Entries \cup {None}]
  /\ goldenSet # None => DOMAIN goldenSet.records \subseteq Bin
  /\ sample \subseteq Bin /\ notes \subseteq Bin
  /\ \A run \in {baseline, comparison} : run.at \in {"none", "running", "done"}
  /\ report # None => report.gaps \subseteq Field

Init ==
  /\ rows \in Sources /\ table \in [Bin -> Entries \cup {None}]
  /\ goldenSet = None /\ sample = {} /\ notes = {}
  /\ baseline = Idle /\ report = None /\ comparison = Idle /\ processes = 0

Start == processes < MaxProcesses /\ processes' = processes + 1

-----------------------------------------------------------------------------
(* Generating *)

RowsOf(b) == {i \in DOMAIN rows : rows[i].bin = b}

Values(b, f) == {i \in RowsOf(b) : rows[i][f] # None}

\* The value most rows agree on; of several the one whose sources weigh more, of
\* these the one that comes first. Its sources are the rows that give it.
Giving(b, f, v) == {i \in RowsOf(b) : rows[i][f] = v}
Backing(b, f, i) == Giving(b, f, rows[i][f])
Weight(S) == SumFunctionOnSet([i \in S |-> WeightOf(rows[i].source)], S)
GoesBefore(b, f, i, j) ==
  LET S == Backing(b, f, i)
      T == Backing(b, f, j)
  IN  \/ Cardinality(S) > Cardinality(T)
      \/ Cardinality(S) = Cardinality(T) /\ Weight(S) > Weight(T)
      \/ Cardinality(S) = Cardinality(T) /\ Weight(S) = Weight(T) /\ i <= j
Best(b, f) == CHOOSE i \in Values(b, f) : \A j \in Values(b, f) : GoesBefore(b, f, i, j)
VerifyField(b, f) ==
  IF Values(b, f) = {} THEN None
  ELSE [value |-> rows[Best(b, f)][f], sources |-> Backing(b, f, Best(b, f))]

Verified(b) == [f \in Field |-> VerifyField(b, f)]

Backed(field) == field # None /\ Cardinality(field.sources) >= 2

\* Mutant of Admitted: one of the two core fields is enough.
AdmittedEither(mode, v) ==
  CASE mode = "all"   -> \A f \in Field : Backed(v[f])
    [] mode = "core"  -> Backed(v["country"]) \/ Backed(v["network"])
    [] mode = "loose" -> \E f \in Field : Backed(v[f])
    [] OTHER          -> TRUE

\* A mode that is none of the three asks for nothing.
Admitted(mode, v) ==
  CASE mode = "all"   -> \A f \in Field : Backed(v[f])
    [] mode = "core"  -> Backed(v["country"]) /\ Backed(v["network"])
    [] mode = "loose" -> \E f \in Field : Backed(v[f])
    [] OTHER          -> TRUE

Agreed(mode) ==
  {b \in Bin : /\ Cardinality(RowsOf(b)) >= 2
               /\ Verified(b)["country"] # None /\ Verified(b)["network"] # None
               /\ Admitted(mode, Verified(b))}

\* With --fill=manual the BINs of a single row make up the number, those read
\* first before the others.
Filled(agreed) ==
  LET single == {i \in DOMAIN rows : Cardinality(RowsOf(rows[i].bin)) = 1}
      needed == Max({MinRecords - Cardinality(agreed), 0})
  IN  {rows[i].bin : i \in {i \in single : Cardinality({j \in single : j <= i}) <= needed}}

AutoFilled(b) ==
  LET i == CHOOSE i \in RowsOf(b) : TRUE
      default == [country |-> "XX", network |-> "OTHER", issuer |-> None, type |-> None]
      of(f) == IF rows[i][f] = None THEN default[f] ELSE rows[i][f]
  IN  [f \in Field |-> IF of(f) = None THEN None ELSE [value |-> of(f), sources |-> {i}]]

GenerateFromSources(mode, fill) ==
  LET agreed == Agreed(mode)
      filled == IF fill THEN Filled(agreed) ELSE {}
  IN  /\ Start
      /\ goldenSet' = [mode |-> mode, records |-> [b \in agreed \cup filled |->
           IF b \in agreed THEN [fields |-> Verified(b), method |-> "cross-source"]
           ELSE [fields |-> AutoFilled(b), method |-> "manual"]]]
      /\ UNCHANGED <<rows, table, sample, notes, baseline, report, comparison>>

\* generate.ts wants two active rows of a BIN, which is the table's primary key:
\* it writes a file without records.
GenerateFromTable ==
  /\ Start
  /\ goldenSet' = [mode |-> "table", records |-> [b \in {} |-> None]]
  /\ UNCHANGED <<rows, table, sample, notes, baseline, report, comparison>>

\* The list of the sample, then the notes, which fail at a record that lacks one
\* of the fields that are optional. The shuffle may put any BINs first.
Sample ==
  /\ Start /\ goldenSet # None /\ DOMAIN goldenSet.records # {}
  /\ \E S \in kSubset(Min({SampleSize, Cardinality(DOMAIN goldenSet.records)}), DOMAIN goldenSet.records) :
       /\ sample' = S
       /\ IF \A b \in S, f \in Field : goldenSet.records[b].fields[f] # None THEN notes' = S ELSE UNCHANGED notes
  /\ UNCHANGED <<rows, table, goldenSet, baseline, report, comparison>>

-----------------------------------------------------------------------------
(* Measuring: exact is history, has the table stayed as it was since the run *)
(* began, and did every answer come from it?                                 *)

Exactly(run, b, row) == run.exact /\ row = table[b]

BeginBaseline ==
  /\ Start /\ baseline.at # "running" /\ goldenSet # None /\ DOMAIN goldenSet.records # {}
  /\ baseline' = [at |-> "running", records |-> goldenSet.records, exact |-> TRUE, answers |-> [b \in {} |-> None]]
  /\ UNCHANGED <<rows, table, goldenSet, sample, notes, report, comparison>>

\* A lookup that fails has no result; a cache may answer with an earlier row.
LookUp(b) ==
  /\ baseline.at = "running" /\ b \in DOMAIN baseline.records \ DOMAIN baseline.answers
  /\ \E row \in Entries \cup {None} :
       baseline' = [baseline EXCEPT !.answers = [c \in DOMAIN @ \cup {b} |-> IF c = b THEN row ELSE @[c]],
                                    !.exact = Exactly(baseline, b, row)]
  /\ UNCHANGED <<rows, table, goldenSet, sample, notes, report, comparison, processes>>

Counted(records) == {c \in (DOMAIN records) \X Field : records[c[1]].fields[c[2]] # None}

Correct(records, answers) ==
  {c \in Counted(records) :
     answers[c[1]] # None /\ records[c[1]].fields[c[2]].value = answers[c[1]][c[2]]}

Target == [country |-> 99, network |-> 99, issuer |-> 95, type |-> 95]

\* Fields whose accuracy, in percent, is below its target; 0 where none is counted.
identifyAccuracyGaps(counted, correct) ==
  {f \in Field :
     LET total == Cardinality({c \in counted : c[2] = f})
     IN  total = 0 \/ 100 * Cardinality({c \in correct : c[2] = f}) < Target[f] * total}

EndBaseline ==
  /\ baseline.at = "running" /\ DOMAIN baseline.answers = DOMAIN baseline.records
  /\ LET counted == Counted(baseline.records)
         correct == Correct(baseline.records, baseline.answers)
     IN  baseline' = [at |-> "done", records |-> baseline.records, exact |-> baseline.exact,
                      counted |-> counted, correct |-> correct, gaps |-> identifyAccuracyGaps(counted, correct)]
  /\ UNCHANGED <<rows, table, goldenSet, sample, notes, report, comparison, processes>>

\* A process that has measured nothing itself, as this one, reports the baseline.
GenerateReport ==
  /\ Start /\ baseline.at = "done"
  /\ report' = [counted |-> baseline.counted, correct |-> baseline.correct, gaps |-> baseline.gaps]
  /\ UNCHANGED <<rows, table, goldenSet, sample, notes, baseline, comparison>>

-----------------------------------------------------------------------------
(* Comparing *)

BeginComparison ==
  /\ Start /\ comparison.at # "running" /\ goldenSet # None
  /\ comparison' = [at |-> "running", records |-> goldenSet.records, exact |-> TRUE,
                     left |-> DOMAIN goldenSet.records, matched |-> {}, mismatched |-> {}]
  /\ UNCHANGED <<rows, table, goldenSet, sample, notes, baseline, report>>

\* levenshteinDistance fills the matrix from its first row and column.
Distance(s, t) ==
  LET d[i \in 0..Len(s), j \in 0..Len(t)] ==
        IF i = 0 THEN j
        ELSE IF j = 0 THEN i
        ELSE IF s[i] = t[j] THEN d[i - 1, j - 1]
        ELSE 1 + Min({d[i - 1, j - 1], d[i - 1, j], d[i, j - 1]})
  IN  d[Len(s), Len(t)]

Similar(s, t) ==
  LET longer == Max({Len(s), Len(t)}) IN 5 * (longer - Distance(s, t)) >= 4 * longer

Same(f, expected, actual) == expected = actual \/ (f = "issuer" /\ Similar(actual, expected))

\* The fields of a record that are compared in turn: the first that is missing
\* is an error, which ends the record but keeps what was counted.
Compared(fields) ==
  {"country", "network"} \cup (IF fields["issuer"] = None THEN {}
                               ELSE IF fields["type"] = None THEN {"issuer"} ELSE {"issuer", "type"})

\* Mutant of Matching: the first field that differs ends the record.
MatchingUntil(fields, row) ==
  LET order == <<"country", "network", "issuer", "type">>
  IN  {order[i] : i \in {i \in DOMAIN order :
         \A j \in 1..i : order[j] \in Compared(fields) /\ Same(order[j], fields[order[j]].value, row[order[j]])}}

Matching(fields, row) == {f \in Compared(fields) : Same(f, fields[f].value, row[f])}

\* A BIN the table does not have, or one whose query fails, is passed over.
CompareRecord(b) ==
  /\ comparison.at = "running" /\ b \in comparison.left
  /\ \E row \in {table[b], None} :
       LET fields == comparison.records[b].fields
           matching == IF row = None THEN {} ELSE Matching(fields, row)
           compared == IF row = None THEN {} ELSE Compared(fields)
       IN  comparison' = [comparison EXCEPT !.left = @ \ {b}, !.exact = Exactly(comparison, b, row),
                            !.matched = @ \cup ({b} \X matching),
                            !.mismatched = @ \cup ({b} \X (compared \ matching))]
  /\ UNCHANGED <<rows, table, goldenSet, sample, notes, baseline, report, processes>>

EndComparison ==
  /\ comparison.at = "running" /\ comparison.left = {}
  /\ comparison' = [comparison EXCEPT !.at = "done"]
  /\ UNCHANGED <<rows, table, goldenSet, sample, notes, baseline, report, processes>>

-----------------------------------------------------------------------------
\* A load, or a rollback.
TableChanges(b, row) ==
  /\ table[b] # row /\ table' = [table EXCEPT ![b] = row]
  /\ baseline' = [baseline EXCEPT !.exact = FALSE] /\ comparison' = [comparison EXCEPT !.exact = FALSE]
  /\ UNCHANGED <<rows, goldenSet, sample, notes, report, processes>>

Next ==
  \/ \E mode \in Modes, fill \in BOOLEAN : GenerateFromSources(mode, fill)
  \/ GenerateFromTable
  \/ Sample
  \/ BeginBaseline
  \/ EndBaseline
  \/ GenerateReport
  \/ BeginComparison
  \/ EndComparison
  \/ \E b \in Bin : LookUp(b) \/ CompareRecord(b)
  \/ \E b \in Bin, row \in Entries \cup {None} : TableChanges(b, row)

-----------------------------------------------------------------------------
(* Properties *)

\* "require >= 2 sources for country+network", or for all fields: such a value
\* is one that two sources give and no more give any other, as long as no source
\* lists a BIN twice. A source that does counts as two.
GoldenIsAgreed ==
  /\ goldenSet # None /\ goldenSet.mode \in {"core", "all"}
  /\ \A i, j \in DOMAIN rows : rows[i].source = rows[j].source /\ rows[i].bin = rows[j].bin => i = j
  => \A b \in DOMAIN goldenSet.records :
       goldenSet.records[b].method = "cross-source" =>
         \A f \in IF goldenSet.mode = "core" THEN {"country", "network"} ELSE Field :
           LET giving(v) == Cardinality({rows[i].source : i \in Giving(b, f, v)})
               value == goldenSet.records[b].fields[f].value
           IN  giving(value) >= 2 /\ \A i \in Values(b, f) : giving(rows[i][f]) <= giving(value)

\* Two scripts that judge the same records by the same table do not contradict
\* each other: what the baseline finds correct the comparison finds matching, and
\* what the comparison finds different the baseline finds wrong; but the
\* comparison gives up a record at a field that is missing.
MeasuresAgree ==
  /\ baseline.at = "done" /\ comparison.at = "done" /\ baseline.exact /\ comparison.exact
  /\ baseline.records = comparison.records
  => /\ comparison.mismatched \cap baseline.correct = {}
     /\ \A c \in baseline.correct :
          Compared(baseline.records[c[1]].fields) = Field => c \in comparison.matched

=============================================================================
