------------------------------ MODULE EtlMerge ------------------------------
(***************************************************************************)
(* How one BIN's records are made into one: normalize.ts makes the records *)
(* of the sources comparable, merge.ts sorts them by source and, field by  *)
(* field, takes the primary record's value or, when the sources disagree,  *)
(* the value that conflictResolver.ts and confidenceScorer.ts score best.  *)
(*                                                                         *)
(* The scores are the code's, in integers: a confidence is counted in      *)
(* 1/30000, a score of a value that k of n records give in 1/(300000 k n). *)
(***************************************************************************)
EXTENDS Integers, Sequences, FiniteSets, Functions

CONSTANTS
  Code,      \* country codes
  Issuer,
  BankCode,
  Missing    \* no value: null, undefined or the empty string

\* The enabled sources, the best first.
Source == {"binlist", "venelinkochev", "aderyabin"}
Sources == <<"binlist", "venelinkochev", "aderyabin">>
Priority == [binlist |-> 1, venelinkochev |-> 2, aderyabin |-> 3]

\* A country's name is written as the ISO list has it or in another way.
CountryName == [of : Code, spelt : {"iso", "other"}]

RawRecord == [countryCode : Code \cup {Missing}, country : CountryName \cup {Missing},
              issuer : Issuer \cup {Missing}, bankCode : BankCode \cup {Missing}]

\* One field for each way a field is treated. The extractors of the enabled
\* sources fill no url, phone or city: url stands for these.
Field == {"countryCode", "country", "issuer", "bankCode", "url"}

\* A missing bank code or url is undefined, which merge.ts counts as a value.
MissingIsAValue == {"bankCode", "url"}

-----------------------------------------------------------------------------
\* normalize.ts

\* A code that is not given is looked up by the country's name.
NormalizeRecord(r) ==
  [countryCode |-> IF r.countryCode = Missing /\ r.country # Missing
                   THEN IF r.country.spelt = "iso" THEN r.country.of ELSE Missing
                   ELSE r.countryCode,
   country |-> r.country, issuer |-> r.issuer, bankCode |-> r.bankCode, url |-> Missing]

ValidateNormalized(r) == r.countryCode # Missing

\* A row is a record with the source and the line of it that gave it.

\* The confidence of a row: the points of its source and of its fields.
CalculateConfidence(row) ==
  LET points(f, n) == IF row.record[f] = Missing THEN 0 ELSE n
  IN  points("countryCode", 10) + points("country", 5) + points("issuer", 10)
        + 35 - 5 * Priority[row.source]

-----------------------------------------------------------------------------
\* confidenceScorer.ts

\* Hundredths; fields and sources the table does not list have 80.
FieldReliability(f, s) ==
  CASE f = "country" -> [binlist |-> 98, venelinkochev |-> 95, aderyabin |-> 92][s]
    [] f = "issuer"  -> [binlist |-> 90, venelinkochev |-> 85, aderyabin |-> 80][s]
    [] OTHER         -> 80

\* Tenths.
SourceWeight == [binlist |-> 20, venelinkochev |-> 10, aderyabin |-> 10]
SourceCountFactor(n) == IF n = 1 THEN 7 ELSE IF n = 2 THEN 9 ELSE 10

FieldConfidence(f, s, n) ==
  (18 * FieldReliability(f, s) + 20 * SourceWeight[s]) * SourceCountFactor(n)

Giving(rows, f, v) == {r \in rows : r.record[f] = v}

\* The confidences of the rows that give v, added up.
Confidence(rows, f, v) ==
  SumFunctionOnSet([r \in rows |-> FieldConfidence(f, r.source, Cardinality(rows))],
                   Giving(rows, f, v))

\* Mutant of Score: the agreement is left out.
ScoreNoAgreement(rows, f, v) == 10 * Cardinality(rows) * Confidence(rows, f, v)

\* Seven tenths the average confidence, three tenths the agreement.
Score(rows, f, v) ==
  LET k == Cardinality(Giving(rows, f, v))
  IN  7 * Cardinality(rows) * Confidence(rows, f, v) + 90000 * k * k

\* Whether the score of v is at least p hundredths.
ScoreReaches(rows, f, v, p) ==
  Score(rows, f, v) >= 3000 * p * Cardinality(Giving(rows, f, v)) * Cardinality(rows)

\* The order of one BIN's rows (mergeRecords in merge.ts): by source, then
\* by confidence; the sort is stable.
Before(r, q) ==
  LET c == CalculateConfidence(r)  d == CalculateConfidence(q)
  IN  \/ Priority[r.source] < Priority[q.source]
      \/ r.source = q.source /\ (c > d \/ (c = d /\ r.line < q.line))

First(rows) == CHOOSE r \in rows : \A q \in rows \ {r} : Before(r, q)

\* The rows whose value has the best score.
Best(rows, f) ==
  LET score(r) == Score(rows, f, r.record[f])
      givers(r) == Cardinality(Giving(rows, f, r.record[f]))
  IN  {r \in rows : \A q \in rows : score(r) * givers(q) >= score(q) * givers(r)}

\* The value with the best score; of equal ones, the one met first.
AggregateValue(rows, f) == First(Best(rows, f)).record[f]

-----------------------------------------------------------------------------
\* conflictResolver.ts

\* Mutant of RequiresManualReview: the threshold is 0.6.
RequiresManualReviewBelow60(rows, f) == ~ScoreReaches(rows, f, AggregateValue(rows, f), 60)

RequiresManualReview(rows, f) == ~ScoreReaches(rows, f, AggregateValue(rows, f), 70)

\* Every record's recency is 0, which "most recent" reads as unknown: it
\* takes the first row's value.
ResolvedValue(rows, f) ==
  LET value == AggregateValue(rows, f)
      first == First(rows).record[f]
      recent == ScoreReaches(rows, f, value, 80) /\ ~ScoreReaches(rows, f, value, 90)
  IN  IF recent \/ (RequiresManualReview(rows, f) /\ value = Missing) THEN first ELSE value

-----------------------------------------------------------------------------
\* merge.ts

InConflict(rows, f) ==
  \E r, q \in rows :
    /\ r.record[f] # q.record[f]
    /\ f \in MissingIsAValue \/ Missing \notin {r.record[f], q.record[f]}

MergeRecordList(rows) ==
  [f \in Field |-> IF InConflict(rows, f) THEN ResolvedValue(rows, f) ELSE First(rows).record[f]]

\* The fields mergeRecordList puts in the queue for manual review.
ReviewedFields(rows) == {f \in Field : InConflict(rows, f) /\ RequiresManualReview(rows, f)}
=============================================================================
