---------------------------- MODULE EtlPipeline ----------------------------
(***************************************************************************)
(* Runs of scripts/etl/etl.ts, one after the other: each extracts what     *)
(* sources it finds, merges their records (EtlMerge), may complete some of *)
(* them from binlist.net (enrich-binlist.ts) and hands them to             *)
(* loadRecords (EtlLoad). A run is a process of its own: what survives it  *)
(* is the cache file of binlist.net's answers and what was loaded.         *)
(***************************************************************************)
EXTENDS EtlMerge

CONSTANTS
  Bins,       \* the BINs in the order every source lists them
  Listings,   \* what the sources may list: sequences of raw records by source and BIN
  Answers,    \* what binlist.net may know of a BIN
  Limit,      \* --enrich-limit
  MaxRuns,
  Unasked, NoData, Failed

AnyBin == Range(Bins)

ASSUME PipelineAssumption ==
  /\ Bins \in Seq(AnyBin) /\ IsInjective(Bins)
  /\ Listings \subseteq [Source -> [AnyBin -> Seq(RawRecord)]]
  /\ \A a \in Answers : DOMAIN a = {"country", "issuer", "url"}
  /\ Unasked \notin Answers \cup {NoData} /\ Failed \notin Answers
  /\ Limit \in Nat \ {0} /\ MaxRuns \in Nat

VARIABLES
  files,      \* what the sources list
  pc,         \* where the run is; "idle" between runs
  mode,       \* no enrichment, --enrich=binlist, or with --enrich-only
  tried,      \* how many sources the run has come to
  read,       \* those it could read
  records,    \* merged.valid: a record for every BIN listed
  remaining,  \* the BINs enrichWithBinlist has still to come to
  attempted,
  answer,     \* binlist.net's answer on the way to the cache file
  review,     \* the queue for manual review
  cache,      \* the cache file
  \* History
  runs, torn, last

pipelineVars == <<files, pc, mode, tried, read, records, remaining, attempted, answer, review,
                  cache, runs, torn, last>>

Mode == {"plain", "enrich", "only"}
Merged == [Field -> Code \cup CountryName \cup Issuer \cup BankCode \cup {Missing}
                      \cup UNION {Range(a) : a \in Answers}]
NoRecords == [b \in {} |-> Missing]
NoRun == [mode |-> "plain", read |-> {}, records |-> NoRecords]

\* Everything is of its kind and attempts stay within the limit.
PipelineTypeOK ==
  /\ pc \in {"idle", "extract", "merge", "enrich", "write", "load"}
  /\ mode \in Mode
  /\ tried \in 0..Len(Sources)
  /\ read \subseteq Source
  /\ DOMAIN records \subseteq AnyBin
  /\ \A b \in DOMAIN records : records[b] \in Merged /\ records[b].countryCode # Missing
  /\ remaining \subseteq DOMAIN records
  /\ attempted \in 0..Limit
  /\ answer \in Answers \cup {NoData, Failed}
  /\ review \subseteq AnyBin \X Field
  /\ cache \in [AnyBin -> Answers \cup {Unasked, NoData}]
  /\ runs \in 0..MaxRuns
  /\ torn \in BOOLEAN

PipelineInit ==
  /\ files \in Listings
  /\ pc = "idle" /\ mode = "plain" /\ tried = 0 /\ read = {}
  /\ records = NoRecords /\ remaining = {} /\ attempted = 0 /\ answer = NoData
  /\ review = {}
  /\ cache = [b \in AnyBin |-> Unasked]
  /\ runs = 0 /\ torn = FALSE /\ last = NoRun

pastRuns == <<runs, torn, last>>

\* The process ends, and with it what it had in memory.
End ==
  /\ pc' = "idle" /\ mode' = "plain" /\ tried' = 0 /\ read' = {}
  /\ records' = NoRecords /\ remaining' = {} /\ attempted' = 0 /\ answer' = NoData
  /\ review' = {}

-----------------------------------------------------------------------------

StartRun ==
  /\ pc = "idle" /\ runs < MaxRuns
  /\ runs' = runs + 1
  /\ pc' = "extract" /\ mode' \in Mode
  /\ UNCHANGED <<files, tried, read, records, remaining, attempted, answer, review, cache,
                 torn, last>>

\* The next source of SOURCE_CONFIGS: its file is read, or it is not there
\* or cannot be parsed, which leaves the run without its records.
Extract ==
  /\ pc = "extract" /\ tried < Len(Sources)
  /\ tried' = tried + 1
  /\ read' \in {read, read \cup {Sources[tried']}}
  /\ pc' = IF tried' = Len(Sources) THEN "merge" ELSE "extract"
  /\ UNCHANGED <<files, mode, records, remaining, attempted, answer, review, cache, pastRuns>>

\* The rows of b in the sources S.
RowsOf(b, S) ==
  UNION {{[source |-> s, line |-> i, record |-> NormalizeRecord(files[s][b][i])] :
            i \in DOMAIN files[s][b]} : s \in S}

ValidRows(b, S) == {row \in RowsOf(b, S) : ValidateNormalized(row.record)}

Listed(S) == {b \in AnyBin : ValidRows(b, S) # {}}

\* The order of binMap, that of the first source that lists each BIN.
Lister(b, S) ==
  CHOOSE s \in S : /\ ValidRows(b, {s}) # {}
                   /\ \A t \in S : ValidRows(b, {t}) # {} => Priority[s] <= Priority[t]
Place(b) == CHOOSE i \in DOMAIN Bins : Bins[i] = b

Earlier(b, c, S) ==
  \/ Priority[Lister(b, S)] < Priority[Lister(c, S)]
  \/ Lister(b, S) = Lister(c, S) /\ Place(b) < Place(c)

\* mergeRecords and validateMerged, which rejects none of them. The counts
\* and the exit code of the run are left out.
MergeRecords ==
  /\ pc = "merge" /\ Listed(read) # {}
  /\ records' = [b \in Listed(read) |-> MergeRecordList(ValidRows(b, read))]
  /\ review' = {e \in Listed(read) \X Field : e[2] \in ReviewedFields(ValidRows(e[1], read))}
  /\ remaining' = Listed(read)
  /\ pc' = IF mode = "plain" THEN "load" ELSE "enrich"
  /\ UNCHANGED <<files, mode, tried, read, attempted, answer, cache, pastRuns>>

\* A run without a record neither asks nor loads anything.
NothingToLoad ==
  /\ pc = "merge" /\ Listed(read) = {}
  /\ End
  /\ UNCHANGED <<files, cache, pastRuns>>

\* The record enrichWithBinlist is at.
NextBin == CHOOSE b \in remaining : \A c \in remaining \ {b} : Earlier(b, c, read)

\* Mutant of ApplyMissing: what is there is taken from binlist.net as well.
ApplyAll(b, data) ==
  records' = IF data \in {NoData, Failed} THEN records
             ELSE [records EXCEPT ![b] = [f \in Field |-> IF f \in DOMAIN data THEN data[f] ELSE @[f]]]

\* Only what is missing is taken from binlist.net.
ApplyMissing(b, data) ==
  records' = IF data \in {NoData, Failed} THEN records
             ELSE [records EXCEPT ![b] = [f \in Field |->
                    IF f \in DOMAIN data /\ @[f] = Missing THEN data[f] ELSE @[f]]]

\* enrichWithBinlist comes to a record. shouldEnrich holds of every one, as
\* no enabled source has its url. An answer in the cache file is used,
\* whether it has data or not, and counts as an attempt.
UseCached ==
  /\ pc = "enrich" /\ remaining # {} /\ attempted < Limit
  /\ cache[NextBin] # Unasked
  /\ ApplyMissing(NextBin, cache[NextBin])
  /\ remaining' = remaining \ {NextBin} /\ attempted' = attempted + 1
  /\ UNCHANGED <<files, pc, mode, tried, read, answer, review, cache, pastRuns>>

\* fetchBinlist: what is known of the BIN, nothing (404), or an error.
FetchBinlist ==
  /\ pc = "enrich" /\ remaining # {} /\ attempted < Limit
  /\ cache[NextBin] = Unasked
  /\ answer' \in Answers \cup {NoData, Failed}
  /\ attempted' = attempted + 1
  /\ pc' = "write"
  /\ UNCHANGED <<files, mode, tried, read, records, remaining, review, cache, runs, torn, last>>

\* safeWriteCache: an error is stored as an answer without data.
SafeWriteCache ==
  /\ pc = "write"
  /\ cache' = [cache EXCEPT ![NextBin] = IF answer = Failed THEN NoData ELSE answer]
  /\ ApplyMissing(NextBin, answer)
  /\ remaining' = remaining \ {NextBin}
  /\ pc' = "enrich"
  /\ UNCHANGED <<files, mode, tried, read, attempted, answer, review, pastRuns>>

\* The file cannot be written: the answer is dropped and stored as an error.
WriteFails ==
  /\ pc = "write" /\ answer # Failed
  /\ answer' = Failed
  /\ UNCHANGED <<files, pc, mode, tried, read, records, remaining, attempted, review, cache, pastRuns>>

EnrichmentIsOver == pc = "enrich" /\ (remaining = {} \/ attempted = Limit)

\* enrichWithBinlist returns, and the records go on to loadRecords.
EndEnrichment ==
  /\ EnrichmentIsOver /\ mode = "enrich"
  /\ pc' = "load"
  /\ UNCHANGED <<files, mode, tried, read, records, remaining, attempted, answer, review, cache, pastRuns>>

\* With --enrich-only the run ends here.
EnrichOnly ==
  /\ EnrichmentIsOver /\ mode = "only"
  /\ End
  /\ UNCHANGED <<files, cache, pastRuns>>

\* The records are handed to loadRecords, and the API's cache is flushed.
HandToLoad ==
  /\ pc = "load"
  /\ End
  /\ last' = [mode |-> mode, read |-> read, records |-> records]
  /\ UNCHANGED <<files, cache, runs, torn>>

\* The process dies or, when an error could not be stored either, ends. A
\* file it was writing may be cut short: it is then read as an empty one.
Crash ==
  /\ pc # "idle"
  /\ End
  /\ \/ UNCHANGED <<cache, torn>>
     \/ pc = "write" /\ cache' = [b \in AnyBin |-> Unasked] /\ torn' = TRUE
  /\ UNCHANGED <<files, runs, last>>

PipelineNext ==
  \/ StartRun \/ Extract \/ MergeRecords \/ NothingToLoad
  \/ UseCached \/ FetchBinlist \/ SafeWriteCache \/ WriteFails
  \/ EndEnrichment \/ EnrichOnly \/ HandToLoad \/ Crash

PipelineSpec == PipelineInit /\ [][PipelineNext]_pipelineVars

-----------------------------------------------------------------------------

OnePerSource(rows) == \A r, q \in rows : r.source = q.source => r = q

\* What two sources disagree about never goes on to the table unseen: as long
\* as each lists a BIN once, every field they give different values for is in
\* the queue for manual review, however the scores fall.
DisagreementIsReviewed ==
  pc = "load" => \A b \in DOMAIN records :
    LET rows == ValidRows(b, read)
    IN  OnePerSource(rows) =>
          \A f \in Field, r, q \in rows :
            Missing # r.record[f] /\ r.record[f] # q.record[f] /\ q.record[f] # Missing
              => <<b, f>> \in review

\* Two sources outvote the third, whichever it is and however much better it
\* is rated: the value they agree on is the record's.
MajorityOutvotes ==
  pc = "load" => \A b \in DOMAIN records :
    LET rows == ValidRows(b, read)
    IN  OnePerSource(rows) /\ (\A s \in Source : \E r \in rows : r.source = s) =>
          \A f \in Field :
            (\A r \in rows : r.record[f] # Missing) =>
              \A r, q \in rows :
                r # q /\ r.record[f] = q.record[f] => records[b][f] = r.record[f]

\* What a run has loaded the next run over the same sources does not take
\* back, although it begins anew from the sources, may meet errors and comes
\* to no more BINs than the limit: it comes to the same ones, and finds the
\* answers in the cache file, as long as that was not cut short.
LaterRunKeeps ==
  [][last' # last /\ ~torn /\ last'.read = last.read
       /\ (last.mode = "plain" \/ last'.mode = "enrich") =>
     \A b \in DOMAIN last.records, f \in Field :
       last.records[b][f] # Missing => last'.records[b][f] = last.records[b][f]]_pipelineVars
=============================================================================
