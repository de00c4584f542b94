------------------------------- MODULE TestCards ------------------------------
(***************************************************************************)
(* The test cards of payment gateways: testCardsETL reads them out of a    *)
(* Markdown file and loads gateway after gateway without a transaction,    *)
(* while clients page through the table with GET /cards/test-cards, which  *)
(* asks for the number of cards and for the page in two queries at once.   *)
(***************************************************************************)
EXTENDS Integers, Sequences, FiniteSets, FiniteSetsExt, SequencesExt

CONSTANTS
  Run,      \* of the ETL
  Lines,    \* of readme.md: headers, table rows and others
  Names,    \* the slugs in the order of the gateways' names
  Numbers,  \* the masked card numbers in their order
  Limit,    \* what a client asks for at a time
  MaxLimit, \* 100
  MaxRuns   \* bound of the model: how often a run that failed is started again

VARIABLES
  gateways, \* the slugs of card_gateways
  cards,    \* the rows of test_cards
  runs,
  reader    \* a client that pages through everything

vars == <<gateways, cards, runs, reader>>

\* Everything is of its kind.
TypeOK ==
  /\ gateways \subseteq ToSet(Names)
  /\ \A c \in cards : c.slug \in gateways /\ c.pan \in ToSet(Numbers)
  /\ \A r \in Run :
       /\ runs[r].left \subseteq DOMAIN Lines
       /\ runs[r].stage \in {"ready", "finding", "creating", "loading", "done", "failed"}
  /\ reader.stage \in {"new", "ready", "counted", "fetched", "done"}
  /\ reader.offset \in Nat /\ reader.seen \subseteq cards

Init ==
  /\ gateways = {} /\ cards = {}
  /\ runs = [r \in Run |-> [stage |-> "ready", slug |-> "", left |-> {}, started |-> 0]]
  /\ reader = [stage |-> "new", offset |-> 0, total |-> 0, count |-> 0,
               seen |-> {}, began |-> {}, torn |-> FALSE]

-----------------------------------------------------------------------------
(* Reading the file *)

\* The first six digits and the last four remain, and none of a short number;
\* the length always does.
maskPAN(pan) ==
  IF pan.length <= 10 THEN [first |-> "", length |-> pan.length, last |-> ""]
  ELSE [first |-> pan.first, length |-> pan.length, last |-> pan.last]

\* parseTableRow: rows of two and three columns have no expected result; those
\* of one are left out, as are headers and separators.
IsCard(line) == line.kind = "row" /\ line.columns >= 2
parseTableRow(line, slug) ==
  [slug |-> slug, pan |-> maskPAN(line.pan),
   result |-> IF line.columns >= 4 THEN line.result ELSE "none"]

\* parseMarkdown: every row belongs to the last header before it.
HeaderOf(i) ==
  LET headers == {j \in 1..i : Lines[j].kind = "gateway"}
  IN  IF headers = {} THEN "" ELSE Lines[Max(headers)].slug
CardAt(i) == parseTableRow(Lines[i], HeaderOf(i))

\* The lines that hold a card.
Parsed == {i \in DOMAIN Lines : IsCard(Lines[i])}

-----------------------------------------------------------------------------
(* Loading it *)

Moves(r, stage, slug, left) ==
  runs' = [runs EXCEPT ![r] = [stage |-> stage, slug |-> slug, left |-> left, started |-> @.started]]
Fails(r) == Moves(r, "failed", "", {})

\* run: after a failure it can be started again, from the beginning. The gateway
\* that comes up first is the first one.
Start(r) ==
  /\ runs[r].stage \in {"ready", "failed"} /\ runs[r].started < MaxRuns
  /\ runs' = [runs EXCEPT ![r] =
       IF Parsed = {} THEN [stage |-> "done", slug |-> "", left |-> {}, started |-> @.started + 1]
       ELSE [stage |-> "finding", slug |-> HeaderOf(Min(Parsed)), left |-> Parsed, started |-> @.started + 1]]
  /\ UNCHANGED <<gateways, cards, reader>>

\* findBySlug
FindGateway(r) ==
  /\ runs[r].stage = "finding"
  /\ Moves(r, IF runs[r].slug \in gateways THEN "loading" ELSE "creating", runs[r].slug, runs[r].left)
  /\ UNCHANGED <<gateways, cards, reader>>

\* Another run may have created it since: the slug is unique, and the run fails.
CreateGateway(r) ==
  /\ runs[r].stage = "creating"
  /\ LET slug == runs[r].slug
     IN  IF slug \in gateways THEN Fails(r) /\ UNCHANGED gateways
         ELSE Moves(r, "loading", slug, runs[r].left) /\ gateways' = gateways \cup {slug}
  /\ UNCHANGED <<cards, reader>>

\* The cards of each gateway together: when none of them is left the next
\* gateway is the one of the first line that is.
OfGateway(slug, left) == {i \in left : HeaderOf(i) = slug}
Goes(r, left) ==
  IF left = {} THEN Moves(r, "done", "", left)
  ELSE IF OfGateway(runs[r].slug, left) # {} THEN Moves(r, "loading", runs[r].slug, left)
  ELSE Moves(r, "finding", HeaderOf(Min(left)), left)

Taken(card) == \E c \in cards : c.slug = card.slug /\ c.pan = card.pan

\* Mutant of CreateCard: a duplicate ends the list of its gateway.
CreateCardOrEnd(r) ==
  /\ runs[r].stage = "loading"
  /\ LET left == runs[r].left
         own == OfGateway(runs[r].slug, left)
         card == CardAt(Min(own))
     IN  IF Taken(card) THEN Goes(r, left \ own) /\ UNCHANGED cards
         ELSE Goes(r, left \ {Min(own)}) /\ cards' = cards \cup {card}
  /\ UNCHANGED <<gateways, reader>>

\* bulkCreate: a card whose masked number the gateway has is skipped, whatever
\* it is a test of.
CreateCard(r) ==
  /\ runs[r].stage = "loading"
  /\ LET left == runs[r].left
         line == Min(OfGateway(runs[r].slug, left))
     IN  /\ cards' = IF Taken(CardAt(line)) THEN cards ELSE cards \cup {CardAt(line)}
         /\ Goes(r, left \ {line})
  /\ UNCHANGED <<gateways, reader>>

\* Any other error ends the run; what it loaded stays.
LoadFails(r) ==
  /\ runs[r].stage \in {"finding", "creating", "loading"}
  /\ Fails(r)
  /\ UNCHANGED <<gateways, cards, reader>>

-----------------------------------------------------------------------------
(* Reading the table *)

PageSize == IF Limit < MaxLimit THEN Limit ELSE MaxLimit

\* The place of a row in the order of search: by the gateway's name, and the
\* number, which together are unique.
Index(list, x) == CHOOSE i \in DOMAIN list : list[i] = x
Before(a, b) ==
  \/ Index(Names, a.slug) < Index(Names, b.slug)
  \/ a.slug = b.slug /\ Index(Numbers, a.pan) < Index(Numbers, b.pan)
Rank(c) == Cardinality({d \in cards : d = c \/ Before(d, c)})

\* LIMIT and OFFSET
Page == {c \in cards : reader.offset < Rank(c) /\ Rank(c) <= reader.offset + PageSize}

Begin ==
  /\ reader.stage = "new"
  /\ reader' = [reader EXCEPT !.stage = "ready", !.began = cards]
  /\ UNCHANGED <<gateways, cards, runs>>

\* Promise.all: whichever query comes first; torn is history: did the number of
\* rows change between the two?
SearchFirst ==
  /\ reader.stage = "ready"
  /\ \/ reader' = [reader EXCEPT !.stage = "counted", !.total = Cardinality(cards), !.count = Cardinality(cards)]
     \/ reader' = [reader EXCEPT !.stage = "fetched", !.seen = @ \cup Page, !.count = Cardinality(cards)]
  /\ UNCHANGED <<gateways, cards, runs>>

\* Mutant of HasMore: the last card of the last page is forgotten.
HasMoreShort(total) == total > reader.offset + PageSize + 1

HasMore(total) == total > reader.offset + PageSize

\* The other one, and the client goes on to the next page if there is more.
SearchSecond ==
  /\ reader.stage \in {"counted", "fetched"}
  /\ LET total == IF reader.stage = "counted" THEN reader.total ELSE Cardinality(cards)
     IN  reader' = [reader EXCEPT
           !.stage = IF HasMore(total) THEN "ready" ELSE "done",
           !.seen = IF reader.stage = "counted" THEN @ \cup Page ELSE @,
           !.offset = IF HasMore(total) THEN @ + PageSize ELSE @,
           !.total = 0, !.count = 0,
           !.torn = @ \/ Cardinality(cards) # reader.count]
  /\ UNCHANGED <<gateways, cards, runs>>

Next ==
  \/ \E r \in Run :
       \/ Start(r)
       \/ FindGateway(r)
       \/ CreateGateway(r)
       \/ CreateCard(r)
       \/ LoadFails(r)
  \/ Begin
  \/ SearchFirst
  \/ SearchSecond

-----------------------------------------------------------------------------
(* Properties *)

\* Once a run has come to its end every card of the file is in the table under
\* its gateway and masked number, whatever runs before it or beside it loaded,
\* skipped and failed on.
DoneIsLoaded ==
  (\E r \in Run : runs[r].stage = "done") => \A i \in Parsed : Taken(CardAt(i))

\* A client that turns pages while the table grows may see a card twice but
\* misses none that was there when it began, as long as no card is added
\* between the two queries of one page.
PagesMissNothing ==
  reader.stage = "done" /\ ~reader.torn => reader.began \subseteq reader.seen

=============================================================================
