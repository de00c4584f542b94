---------------------------- MODULE CardStatistics ---------------------------
(***************************************************************************)
(* The daily rows of card_generation_statistics, the script that computes  *)
(* them from generated_cards, and the requests for statistics, which keep  *)
(* what they read in Redis: a day's row for an hour, the numbers of today  *)
(* for five minutes, those of a BIN for fifteen. The audit table the users *)
(* and response times are read from has no writer, so it is left out.      *)
(***************************************************************************)
EXTENDS Integers, FiniteSetsExt

CONSTANTS
  Calculation, \* runs of card-statistics-aggregator.ts
  Reader,      \* clients, who may ask again and again
  Today, Bin,  \* the keys realtime:today and bin:<bin>
  DayLength, DayTime, TodayTime, BinTime, \* a day, and how long each key is kept
  MaxCards,    \* bound of the model: cards of one day
  MaxTime,     \* bound of the model
  None

VARIABLES
  now,
  cards,        \* the rows of generated_cards by generation_date
  inserting,    \* the days of cards whose INSERT has begun and not ended
  rows,         \* card_generation_statistics
  cache,        \* statisticsCacheService
  calculations,
  readers,
  overlapped    \* the days of which two calculations have run at once

statisticsVars == <<now, cards, inserting, rows, cache, calculations, readers, overlapped>>

Day == 0..(MaxTime \div DayLength)
Key == Day \cup {Today, Bin}

\* The day of CURRENT_DATE and of setHours(0, 0, 0, 0).
today == now \div DayLength

Idle == [stage |-> "idle", key |-> Today, data |-> None]
Working == {"reading", "writing", "clearing", "clearingToday"}

\* Everything is of its kind.
TypeOK ==
  /\ now \in 0..MaxTime /\ cards \in [Day -> 0..MaxCards] /\ inserting \subseteq Day
  /\ rows \in [Day -> 0..MaxCards \cup {None}]
  /\ \A k \in Key : cache[k] # None => cache[k].data \in Nat /\ cache[k].left \in Nat
  /\ \A c \in Calculation : calculations[c].stage \in {"new", "done"} \cup Working
  /\ \A r \in Reader : readers[r].stage \in {"idle", "missed", "found"}
  /\ overlapped \subseteq Day

Init ==
  /\ now = 0 /\ cards = [d \in Day |-> 0] /\ inserting = {} /\ overlapped = {}
  /\ rows = [d \in Day |-> None] /\ cache = [k \in Key |-> None]
  /\ calculations = [c \in Calculation |-> [stage |-> "new", day |-> 0, total |-> 0]]
  /\ readers = [r \in Reader |-> Idle]

-----------------------------------------------------------------------------
(* Cards *)

\* generation_date is the day on which the transaction begins, not that on
\* which the row can be seen.
BeginInsert ==
  /\ today \notin inserting /\ cards[today] < MaxCards
  /\ inserting' = inserting \cup {today}
  /\ UNCHANGED <<now, cards, rows, cache, calculations, readers, overlapped>>

EndInsert(d) ==
  /\ d \in inserting
  /\ inserting' = inserting \ {d}
  /\ \/ cards' = [cards EXCEPT ![d] = @ + 1]
     \/ UNCHANGED cards
  /\ UNCHANGED <<now, rows, cache, calculations, readers, overlapped>>

-----------------------------------------------------------------------------
(* The script *)

Goes(c, stage) == calculations' = [calculations EXCEPT ![c].stage = stage]

\* Mutant of FindByDate: every run calculates, as with the option force.
FindByDateForced(c, d) ==
  /\ calculations[c].stage = "new"
  /\ calculations' = [calculations EXCEPT ![c] = [stage |-> "reading", day |-> d, total |-> 0]]
  /\ overlapped' = overlapped \cup {e \in {d} : \E o \in Calculation \ {c} :
                     calculations[o].stage \in Working /\ calculations[o].day = d}
  /\ UNCHANGED <<now, cards, inserting, rows, cache, readers>>

\* The day is yesterday or the script's argument; a day that has a row is left.
FindByDate(c, d) ==
  /\ calculations[c].stage = "new"
  /\ IF rows[d] # None THEN Goes(c, "done") /\ UNCHANGED overlapped
     ELSE /\ calculations' = [calculations EXCEPT ![c] = [stage |-> "reading", day |-> d, total |-> 0]]
          /\ overlapped' = overlapped \cup {e \in {d} : \E o \in Calculation \ {c} :
                             calculations[o].stage \in Working /\ calculations[o].day = d}
  /\ UNCHANGED <<now, cards, inserting, rows, cache, readers>>

ReadCards(c) ==
  /\ calculations[c].stage = "reading"
  /\ calculations' = [calculations EXCEPT ![c].stage = "writing", ![c].total = cards[calculations[c].day]]
  /\ UNCHANGED <<now, cards, inserting, rows, cache, readers, overlapped>>

\* INSERT ... ON CONFLICT (date) DO UPDATE
Upsert(c) ==
  /\ calculations[c].stage = "writing"
  /\ rows' = [rows EXCEPT ![calculations[c].day] = calculations[c].total]
  /\ Goes(c, "clearing")
  /\ UNCHANGED <<now, cards, inserting, cache, readers, overlapped>>

\* The two keys are deleted, or Redis has failed, which is only logged.
ClearCache(c) ==
  \E k \in {calculations[c].day, Today} :
    /\ calculations[c].stage = IF k = Today THEN "clearingToday" ELSE "clearing"
    /\ cache' \in {cache, [cache EXCEPT ![k] = None]}
    /\ Goes(c, IF k = Today THEN "done" ELSE "clearingToday")
    /\ UNCHANGED <<now, cards, inserting, rows, readers, overlapped>>

\* A query throws and the script exits.
CalculationFails(c) ==
  /\ calculations[c].stage \in {"reading", "writing"}
  /\ Goes(c, "done")
  /\ UNCHANGED <<now, cards, inserting, rows, cache, readers, overlapped>>

-----------------------------------------------------------------------------
(* The requests *)

\* The cache answers the request, or it does not have the key or fails.
Get(r, k) ==
  /\ readers[r].stage = "idle"
  /\ \/ cache[k] # None /\ UNCHANGED readers
     \/ readers' = [readers EXCEPT ![r] = [stage |-> "missed", key |-> k, data |-> None]]
  /\ UNCHANGED <<now, cards, inserting, rows, cache, calculations, overlapped>>

CardsOfBin == MapThenSumSet(LAMBDA d : cards[d], Day)

\* What each key stands for.
Source(k) ==
  CASE k = Today -> cards[today]
    [] k = Bin -> CardsOfBin
    [] OTHER -> rows[k]

\* A day that has no row is answered with 404 and not cached.
Find(r) ==
  /\ readers[r].stage = "missed"
  /\ LET data == Source(readers[r].key)
     IN  readers' = [readers EXCEPT ![r] =
           IF data = None THEN Idle ELSE [stage |-> "found", key |-> readers[r].key, data |-> data]]
  /\ UNCHANGED <<now, cards, inserting, rows, cache, calculations, overlapped>>

TimeOf(k) == CASE k = Today -> TodayTime [] k = Bin -> BinTime [] OTHER -> DayTime

\* The answer is stored, or Redis has failed.
Set(r) ==
  /\ readers[r].stage = "found"
  /\ readers' = [readers EXCEPT ![r] = Idle]
  /\ LET k == readers[r].key
     IN  cache' \in {cache, [cache EXCEPT ![k] = [data |-> readers[r].data, left |-> TimeOf(k)]]}
  /\ UNCHANGED <<now, cards, inserting, rows, calculations, overlapped>>

\* Keys whose time is up are gone.
Tick ==
  /\ now < MaxTime
  /\ now' = now + 1
  /\ cache' = [k \in Key |-> IF cache[k] = None \/ cache[k].left <= 1 THEN None
                             ELSE [cache[k] EXCEPT !.left = @ - 1]]
  /\ UNCHANGED <<cards, inserting, rows, calculations, readers, overlapped>>

Next ==
  \/ BeginInsert
  \/ \E d \in Day : EndInsert(d)
  \/ \E c \in Calculation :
       \/ \E d \in 0..today : FindByDate(c, d)
       \/ ReadCards(c)
       \/ Upsert(c)
       \/ ClearCache(c)
       \/ CalculationFails(c)
  \/ \E r \in Reader :
       \/ \E k \in Key : Get(r, k)
       \/ Find(r)
       \/ Set(r)
  \/ Tick

-----------------------------------------------------------------------------
(* Properties *)

\* A day's row is cached for an hour although the key is deleted before a
\* reader that is slow may store what it read, or not at all when Redis fails:
\* the cache and the row are nevertheless the same, because a row is written
\* once, unless two calculations of that day overlap.
CachedRowIsTheRow ==
  \A d \in Day \ overlapped :
    /\ cache[d] # None => cache[d].data = rows[d]
    /\ \A r \in Reader : readers[r].stage = "found" /\ readers[r].key = d => readers[r].data = rows[d]

=============================================================================
