--------------------------- MODULE PipelineProofs ---------------------------
(***************************************************************************)
(* Theorems about Pipeline, for every set of adapter events, every meaning *)
(* of normalize and jaroWinkler and every bound.                           *)
(*                                                                         *)
(* The committing step is described once, by what it does to each table:   *)
(* ProcessEffect, then NewEvents, NewBooks, NewCanon, NewAliases and       *)
(* NewAccepted.  From these each part of the inductive invariant IInv is   *)
(* shown to survive it.  Every other step leaves the tables alone          *)
(* (TablesKept), and only Answers has to be looked at.                     *)
(***************************************************************************)
EXTENDS Pipeline, SequenceTheorems, FiniteSetTheorems, WellFoundedInduction,
        TLAPS

-----------------------------------------------------------------------------
(* Least and greatest members.                                             *)

\* A non-empty set of rungs has a lowest one.
LEMMA LowestRung ==
  ASSUME NEW S \in SUBSET (1..9), S # {}
  PROVE  Lowest(S) \in S
<1>1. \E i \in S : \A k \in S : i <= k
  <2> SUFFICES ASSUME \A i \in S : \E k \in S : ~(i <= k) PROVE FALSE
    OBVIOUS
  <2>1. \A k \in S : k >= 1 OBVIOUS
  <2>2. \A k \in S : k >= 2 BY <2>1
  <2>3. \A k \in S : k >= 3 BY <2>2
  <2>4. \A k \in S : k >= 4 BY <2>3
  <2>5. \A k \in S : k >= 5 BY <2>4
  <2>6. \A k \in S : k >= 6 BY <2>5
  <2>7. \A k \in S : k >= 7 BY <2>6
  <2>8. \A k \in S : k >= 8 BY <2>7
  <2>9. \A k \in S : k >= 9 BY <2>8
  <2>10. \A k \in S : k >= 10 BY <2>9
  <2>11. PICK i \in S : TRUE OBVIOUS
  <2> QED BY <2>10, <2>11
<1> QED BY <1>1 DEF Lowest

\* The only member of a set is its lowest.
LEMMA LowestOnly ==
  ASSUME NEW b \in Nat
  PROVE  Lowest({b}) = b
BY DEF Lowest

\* A bounded set of naturals that is not empty has a greatest member: the
\* intervals from 1 that cover it have a least one, as strict inclusion of
\* finite sets is well founded, and its end is the greatest member.
LEMMA Greatest ==
  ASSUME NEW n \in Nat, NEW S \in SUBSET (1..n), S # {}
  PROVE  \E a \in S : \A x \in S : x <= a
<1> DEFINE T == {1..k : k \in {k \in 0..n : S \subseteq 1..k}}
<1>1. IsWellFoundedOn(StrictSubsetOrdering(1..n), FiniteSubsetsOf(1..n))
  BY FS_StrictSubsetOrderingWellFounded
<1>2. T \subseteq FiniteSubsetsOf(1..n)
  <2>1. ASSUME NEW k \in 0..n PROVE IsFiniteSet(1..k) /\ 1..k \in SUBSET (1..n)
    BY FS_Interval
  <2> QED BY <2>1 DEF FiniteSubsetsOf
<1>3. (1..n) \in T
  OBVIOUS
<1>4. PICK U \in T : \A V \in T : ~ (<<V, U>> \in StrictSubsetOrdering(1..n))
  <2> HIDE DEF T
  <2> QED BY <1>1, <1>2, <1>3, WFMin
<1>5. PICK k \in 0..n : U = 1..k /\ S \subseteq 1..k
  BY <1>4
<1>6. k # 0
  <2>1. PICK x \in S : TRUE OBVIOUS
  <2> QED BY <1>5, <2>1
<1>7. k \in S
  <2>1. SUFFICES ASSUME k \notin S PROVE FALSE
    OBVIOUS
  <2>2. S \subseteq 1..(k - 1)
    BY <1>5, <2>1
  <2>3. 1..(k - 1) \in T
    BY <1>5, <1>6, <2>2
  <2>4. <<1..(k - 1), U>> \in StrictSubsetOrdering(1..n)
    <3>1. 1..(k - 1) \subseteq 1..k /\ 1..k \subseteq 1..n
      BY <1>5, <1>6
    <3>2. k \in 1..k /\ k \notin 1..(k - 1)
      BY <1>5, <1>6
    <3> QED BY <1>5, <3>1, <3>2, Zenon DEF StrictSubsetOrdering
  <2> QED BY <1>4, <2>3, <2>4
<1> QED BY <1>5, <1>7

-----------------------------------------------------------------------------
(* resolveBook.                                                            *)

\* Both ladders have nine rungs, named by fields of the evidence.
LEMMA Rungs ==
  /\ DOMAIN LookupOrder = 1..9 /\ \A i \in 1..9 : LookupOrder[i] \in Field
  /\ DOMAIN Ladder = 1..9 /\ \A i \in 1..9 : Points[i] \in 0..100
BY DEF LookupOrder, Ladder, Points, Field, Column, AliasField

\* Every identifier is looked up.
LEMMA Looked ==
  ASSUME NEW f \in Field \ {"title", "author_sort"}
  PROVE  \E i \in 1..9 : LookupOrder[i] = f
<1> USE DEF LookupOrder
<1>1. CASE f = "calibre_id" BY <1>1
<1>2. CASE f = "file_hash" BY <1>2
<1>3. CASE f = "epub_id" BY <1>3
<1>4. CASE f = "goodreads_id" BY <1>4
<1>5. CASE f = "isbn13" BY <1>5
<1>6. CASE f = "isbn10" BY <1>6
<1>7. CASE f = "asin" BY <1>7
<1>8. CASE f = "koreader_doc_hash" BY <1>8
<1>9. CASE f = "moon_key" BY <1>9
<1> QED
  BY <1>1, <1>2, <1>3, <1>4, <1>5, <1>6, <1>7, <1>8, <1>9
     DEF Field, Column, AliasField

\* No title is.
LEMMA NoTitle ==
  ASSUME NEW i \in 1..9
  PROVE  LookupOrder[i] \in Field \ {"title", "author_sort"}
BY DEF LookupOrder, Field, Column, AliasField

\* A lookup by an identifier has at most one answer, and it is a book.
LEMMA MatchingOne ==
  ASSUME TypeOK, OneBookPerIdentifier, NEW ev \in Evidence,
         NEW f \in Field \ {"title", "author_sort"}, Matching(f, ev) # {}
  PROVE  \E b \in Book : Matching(f, ev) = {b}
<1>1. Present(f, ev)
  BY DEF Matching
<1>2. ev[f] \in Value
  BY <1>1 DEF Present, Evidence
<1>3. CASE f \in AliasField
  <2>1. aliases[<<f, ev[f]>>] \in 0..Len(books)
    BY <1>2, <1>3 DEF TypeOK
  <2>2. Matching(f, ev) = {aliases[<<f, ev[f]>>]} \ {0}
    BY <1>1, <1>3 DEF Matching
  <2>3. aliases[<<f, ev[f]>>] # 0 /\ Len(books) \in Nat
    BY <2>2, LenProperties DEF TypeOK
  <2>4. aliases[<<f, ev[f]>>] \in Book
    BY <2>1, <2>3, LenProperties DEF TypeOK, Book
  <2> QED BY <2>2, <2>3, <2>4
<1>4. CASE f \notin AliasField
  <2>1. Matching(f, ev) = {b \in Book : books[b][f] = ev[f]}
    BY <1>1, <1>4 DEF Matching
  <2>2. PICK b \in Book : books[b][f] = ev[f]
    BY <2>1
  <2>3. f \in Column \ {"title", "author_sort"}
    BY <1>4 DEF Field
  <2>4. \A c \in Book : books[c][f] = ev[f] => c = b
    BY <1>1, <2>2, <2>3 DEF OneBookPerIdentifier, Present
  <2> QED BY <2>1, <2>2, <2>4
<1> QED BY <1>3, <1>4

\* findBookByEvidence returns a book that carries one of the identifiers, or
\* 0 when no book carries any.
LEMMA FindBookFinds ==
  ASSUME TypeOK, OneBookPerIdentifier, NEW ev \in Evidence
  PROVE  \/ /\ FindBook(ev) = 0
            /\ \A f \in Field \ {"title", "author_sort"} : Matching(f, ev) = {}
         \/ /\ FindBook(ev) \in Book
            /\ \E f \in Field \ {"title", "author_sort"} :
                 FindBook(ev) \in Matching(f, ev)
<1> DEFINE hits == {i \in DOMAIN LookupOrder :
                      Matching(LookupOrder[i], ev) # {}}
<1>1. hits \in SUBSET (1..9)
  BY Rungs
<1>2. CASE hits = {}
  <2>1. FindBook(ev) = 0
    BY <1>2 DEF FindBook
  <2>2. \A i \in 1..9 : Matching(LookupOrder[i], ev) = {}
    BY <1>2, Rungs
  <2> QED BY <2>1, <2>2, Looked
<1>3. CASE hits # {}
  <2> DEFINE f == LookupOrder[Lowest(hits)]
  <2>1. Lowest(hits) \in hits
    BY <1>1, <1>3, LowestRung
  <2>2. f \in Field \ {"title", "author_sort"} /\ Matching(f, ev) # {}
    BY <2>1, <1>1, NoTitle
  <2>3. FindBook(ev) = Lowest(Matching(f, ev))
    BY <1>3 DEF FindBook
  <2> HIDE DEF f, hits
  <2>4. PICK b \in Book : Matching(f, ev) = {b}
    BY <2>2, MatchingOne
  <2>5. b \in Nat
    BY LenProperties DEF Book, TypeOK
  <2>6. FindBook(ev) = b
    BY <2>3, <2>4, <2>5, LowestOnly
  <2> QED BY <2>2, <2>4, <2>6
<1> QED BY <1>2, <1>3

\* A confidence is a percentage.
LEMMA ConfidenceType ==
  ASSUME NEW ev
  PROVE  Confidence(ev) \in 0..100
<1>1. EvidenceQuality(ev) \in 0..100
  <2> DEFINE rungs == {i \in DOMAIN Ladder : Present(Ladder[i], ev)}
  <2>1. rungs \in SUBSET (1..9)
    BY Rungs
  <2>2. rungs # {} => Points[Lowest(rungs)] \in 0..100
    BY <2>1, LowestRung, Rungs
  <2> HIDE DEF rungs
  <2>3. rungs = {} => EvidenceQuality(ev) \in {40, 20, 0}
    BY DEF EvidenceQuality, rungs
  <2>4. rungs # {} => EvidenceQuality(ev) = Points[Lowest(rungs)]
    BY DEF EvidenceQuality, rungs
  <2> QED BY <2>2, <2>3, <2>4
<1>2. ASSUME NEW stored PROVE Score(ev, stored) \in 0..100
  <2>1. Agreeing(ev, stored) \in SUBSET (1..9)
    BY Rungs DEF Agreeing
  <2>2. Agreeing(ev, stored) # {} =>
          Points[Lowest(Agreeing(ev, stored))] \in 0..100
    BY <2>1, LowestRung, Rungs
  <2>3. Agreeing(ev, stored) = {} => Score(ev, stored) \in {55, 30, 0}
    BY DEF Score
  <2>4. Agreeing(ev, stored) # {} =>
          Score(ev, stored) = Points[Lowest(Agreeing(ev, stored))]
    BY DEF Score
  <2> QED BY <2>2, <2>3, <2>4
<1> QED BY <1>1, <1>2 DEF Confidence

-----------------------------------------------------------------------------
(* The committing step, table by table.                                    *)

Taken == Head(ingest)                       \* the call that is processed
In == Normalized(calls[Taken].event)        \* its event
NewRow == EventRowOf(Taken, In)             \* the row it becomes

\* Normalisation leaves an event whose every field a table can hold.
LEMMA NormalizedType ==
  ASSUME NEW in \in AdapterEvent
  PROVE  /\ Normalized(in).evidence = in.evidence
         /\ Normalized(in).evidence \in Evidence
         /\ Normalized(in).source \in Source
         /\ Normalized(in).percent \in Int
         /\ Normalized(in).pages \in Nat \cup {Nil}
         /\ Normalized(in).locator \in LocationType
         /\ Normalized(in).status \in ReadStatus
<1>1. in.locator = "" \/ in.locator \in LocationType
  BY DEF AdapterEvent
<1>2. in.status = "" \/ in.status \in ReadStatus
  BY DEF AdapterEvent
<1>3. in.percent \in Int
  BY DEF AdapterEvent
<1>4. /\ in.evidence \in Evidence /\ in.source \in Source
      /\ in.pages \in Nat \cup {Nil}
  BY DEF AdapterEvent
<1>5. /\ Normalized(in).evidence = in.evidence
      /\ Normalized(in).source = in.source
      /\ Normalized(in).pages = in.pages
      /\ Normalized(in).percent = IF in.percent > 100 THEN 100 ELSE in.percent
      /\ Normalized(in).locator = IF in.locator = "" THEN "raw" ELSE in.locator
      /\ Normalized(in).status = IF in.status = "" THEN "unknown" ELSE in.status
  BY DEF Normalized, AdapterEvent
<1>6. "raw" \in LocationType /\ "unknown" \in ReadStatus
  BY DEF LocationType, ReadStatus
<1>7. Normalized(in).percent \in Int
  <2>1. CASE in.percent > 100
    <3>1. Normalized(in).percent = 100 BY <1>5, <2>1, Zenon
    <3> QED BY <3>1
  <2>2. CASE ~(in.percent > 100) BY <1>3, <1>5, <2>2
  <2> QED BY <2>1, <2>2
<1>8. Normalized(in).locator \in LocationType
  BY <1>1, <1>5, <1>6
<1>9. Normalized(in).status \in ReadStatus
  BY <1>2, <1>5, <1>6
<1> QED BY <1>3, <1>4, <1>5, <1>7, <1>8, <1>9

\* What Head(ingest) names, when there is something to take.
LEMMA TakenType ==
  ASSUME TypeOK, ingest # <<>>
  PROVE  /\ Taken \in Call
         /\ Taken \in Nat
         /\ calls[Taken] \in CallRecord
         /\ calls[Taken].event \in Input
         /\ calls[Taken].event \in AdapterEvent
         /\ Tail(ingest) \in Seq(Call)
<1>1. ingest \in Seq(Call) /\ calls \in Seq(CallRecord)
  BY DEF TypeOK
<1>2. Taken \in Call /\ Tail(ingest) \in Seq(Call)
  BY <1>1, HeadTailProperties DEF Taken
<1>3. Call = 1..Len(calls) /\ Len(calls) \in Nat
  BY <1>1, LenProperties DEF Call
<1>4. calls[Taken] \in CallRecord
  BY <1>1, <1>2, <1>3, ElementOfSeq
<1>5. calls[Taken].event \in Input
  BY <1>4 DEF CallRecord
<1> QED BY <1>2, <1>3, <1>4, <1>5, PipelineAssumption

\* The id resolveBook returns: a book, or the id of the next one.
LEMMA BookIDType ==
  ASSUME TypeOK, OneBookPerIdentifier, NEW ev \in Evidence
  PROVE  /\ BookID(ev) \in 1..(Len(books) + 1)
         /\ FindBook(ev) # 0 => BookID(ev) = FindBook(ev) /\ BookID(ev) \in Book
         /\ FindBook(ev) = 0 => BookID(ev) = Len(books) + 1 /\ BookID(ev) \notin Book
         /\ Book = 1..Len(books)
         /\ Len(books) \in Nat
<1>1. Book = 1..Len(books) /\ Len(books) \in Nat
  BY LenProperties DEF TypeOK, Book
<1>2. FindBook(ev) = 0 \/ FindBook(ev) \in Book
  BY FindBookFinds
<1> QED BY <1>1, <1>2 DEF BookID

\* The row of the new event fits its table, repeats the event, and is in
\* conflict exactly if the event is suspicious.
LEMMA NewRowType ==
  ASSUME IInv, ingest # <<>>
  PROVE  /\ NewRow \in EventRow
         /\ NewRow.call = Taken
         /\ NewRow.book = BookID(In.evidence)
         /\ NewRow.source = In.source /\ NewRow.percent = In.percent
         /\ NewRow.pages = In.pages /\ NewRow.locator = In.locator
         /\ NewRow.status = In.status
         /\ NewRow.confidence = Confidence(In.evidence)
         /\ NewRow.conflict = IF Suspicious(In)
                              THEN canon[NewRow.book].event ELSE 0
         /\ Suspicious(In) => NewRow.conflict \in Event /\ NewRow.book \in Book
<1>1. TypeOK /\ OneBookPerIdentifier /\ CanonCopies
  BY DEF IInv
<1>2. Taken \in Nat /\ calls[Taken].event \in AdapterEvent
  BY <1>1, TakenType
<1>3. /\ In.evidence \in Evidence /\ In.source \in Source
      /\ In.percent \in Int /\ In.pages \in Nat \cup {Nil}
      /\ In.locator \in LocationType /\ In.status \in ReadStatus
  BY <1>2, NormalizedType DEF In
<1>4. BookID(In.evidence) \in Nat
  BY <1>1, <1>3, BookIDType
<1>5. Confidence(In.evidence) \in 0..100
  BY ConfidenceType
<1>6. /\ NewRow.call = Taken
      /\ NewRow.book = BookID(In.evidence)
      /\ NewRow.source = In.source /\ NewRow.percent = In.percent
      /\ NewRow.pages = In.pages /\ NewRow.locator = In.locator
      /\ NewRow.status = In.status
      /\ NewRow.confidence = Confidence(In.evidence)
      /\ NewRow.conflict = IF Suspicious(In)
                           THEN canon[NewRow.book].event ELSE 0
      /\ NewRow.writeback \in {"none", "queued", "blocked_by_conflict"}
  BY DEF NewRow, EventRowOf
<1>7. Suspicious(In) => canon[NewRow.book].event \in Event /\ NewRow.book \in Book
  <2>1. SUFFICES ASSUME Suspicious(In)
                 PROVE  canon[NewRow.book].event \in Event /\ NewRow.book \in Book
    OBVIOUS
  <2>2. NewRow.book \in DOMAIN canon
    BY <1>6, <2>1 DEF Suspicious
  <2>3. NewRow.book \in Book
    BY <1>1, <2>2 DEF TypeOK
  <2>4. canon[NewRow.book].event \in AcceptedBefore(NewRow.book, Len(events) + 1)
    BY <1>1, <2>3 DEF CanonCopies
  <2> QED BY <2>3, <2>4 DEF AcceptedBefore
<1>8. Event \subseteq Nat
  BY <1>1, LenProperties DEF TypeOK, Event
<1>9. NewRow.conflict \in Nat
  <2>1. CASE Suspicious(In) BY <1>6, <1>7, <1>8, <2>1
  <2>2. CASE ~Suspicious(In) BY <1>6, <2>2
  <2> QED BY <2>1, <2>2
<1>10. NewRow \in EventRow
  BY <1>2, <1>3, <1>4, <1>5, <1>6, <1>9 DEF NewRow, EventRowOf, EventRow
<1> QED BY <1>6, <1>7, <1>10

\* What a committing run of process does to every variable.
LEMMA ProcessEffect ==
  ASSUME IInv, Process
  PROVE  /\ ingest # <<>> /\ ingest' = Tail(ingest)
         /\ calls' = [calls EXCEPT ![Taken].result = "ok"]
         /\ events' = Append(events, NewRow)
         /\ IF FindBook(In.evidence) = 0
            THEN /\ books' = Append(books, [f \in Column |-> In.evidence[f]])
                 /\ aliases' = InsertBookAliases(NewRow.book, In.evidence)
            ELSE books' = books /\ aliases' = aliases
         /\ IF Suspicious(In) THEN canon' = canon
            ELSE canon' = [x \in DOMAIN canon \cup {NewRow.book} |->
                             IF x = NewRow.book
                             THEN CanonRowOf(Len(events) + 1, NewRow)
                             ELSE canon[x]]
         /\ loop' = loop /\ faults' = faults
<1>1. ingest # <<>> /\ ingest' = Tail(ingest)
  BY DEF Process, Answer
<1>2. calls' = [calls EXCEPT ![Taken].result = "ok"]
  BY DEF Process, Answer, Taken
<1>3. events' = Append(events, NewRow)
  BY DEF Process, NewRow, Taken, In
<1>4. NewRow.book = BookID(In.evidence)
  BY <1>1, NewRowType
<1>5. IF FindBook(In.evidence) = 0
      THEN /\ books' = Append(books, [f \in Column |-> In.evidence[f]])
           /\ aliases' = InsertBookAliases(NewRow.book, In.evidence)
      ELSE books' = books /\ aliases' = aliases
  <2>1. CreateBook(In.evidence)
    BY DEF Process, Taken, In
  <2> QED BY <1>4, <2>1 DEF CreateBook
<1>6. ~AutoResolved(In, Confidence(In.evidence))
  BY DEF AutoResolved, CanAutoResolve
<1>7. CanonRowOf(Len(events) + 1, In) = CanonRowOf(Len(events) + 1, NewRow)
  <2>1. /\ NewRow.source = In.source /\ NewRow.percent = In.percent
        /\ NewRow.pages = In.pages /\ NewRow.locator = In.locator
        /\ NewRow.status = In.status
    BY <1>1, NewRowType
  <2> QED BY <2>1, Zenon DEF CanonRowOf
<1>8. IF Suspicious(In) THEN canon' = canon
      ELSE UpsertCanonical(NewRow.book, CanonRowOf(Len(events) + 1, NewRow))
  <2>1. IF Suspicious(In) /\ ~AutoResolved(In, Confidence(In.evidence))
        THEN UNCHANGED canon
        ELSE UpsertCanonical(BookID(In.evidence),
                             CanonRowOf(Len(events) + 1, In))
    BY DEF Process, Taken, In
  <2> QED BY <1>4, <1>6, <1>7, <2>1
<1>9. IF Suspicious(In) THEN canon' = canon
      ELSE canon' = [x \in DOMAIN canon \cup {NewRow.book} |->
                       IF x = NewRow.book
                       THEN CanonRowOf(Len(events) + 1, NewRow)
                       ELSE canon[x]]
  BY <1>8, Zenon DEF UpsertCanonical
<1>10. loop' = loop /\ faults' = faults
  BY DEF Process
<1> QED BY <1>1, <1>2, <1>3, <1>5, <1>9, <1>10

\* The calls after an answer: the same calls, one result filled in.
LEMMA AnsweredCalls ==
  ASSUME TypeOK, ingest # <<>>, NEW r \in {"ok", "error"}, Answer(Taken, r)
  PROVE  /\ calls' \in Seq(CallRecord)
         /\ ingest' \in Seq(Call')
         /\ Call' = Call
         /\ \A n \in Call : /\ calls'[n].event = calls[n].event
                            /\ calls'[n].phase = calls[n].phase
                            /\ calls'[n].result =
                                 IF n = Taken THEN r ELSE calls[n].result
         /\ Len(ingest') = Len(ingest) - 1
         /\ \A i \in DOMAIN ingest' : /\ i + 1 \in DOMAIN ingest
                                      /\ ingest'[i] = ingest[i + 1]
         /\ 1 \in DOMAIN ingest /\ ingest[1] = Taken
<1>1. calls \in Seq(CallRecord) /\ ingest \in Seq(Call)
  BY DEF TypeOK
<1>2. Taken \in Call /\ calls[Taken] \in CallRecord
  BY TakenType
<1>3. Call = 1..Len(calls) /\ Len(calls) \in Nat
  BY <1>1, LenProperties DEF Call
<1> DEFINE c == [calls[Taken] EXCEPT !.result = r]
<1>4. c \in CallRecord
  BY <1>2 DEF CallRecord
<1>5. calls' = [calls EXCEPT ![Taken] = c] /\ ingest' = Tail(ingest)
  BY DEF Answer
<1>6. /\ c.event = calls[Taken].event /\ c.phase = calls[Taken].phase
      /\ c.result = r
  BY <1>2 DEF CallRecord
<1> HIDE DEF c
<1>7. /\ calls' \in Seq(CallRecord) /\ Len(calls') = Len(calls)
      /\ \A j \in 1..Len(calls) : calls'[j] = IF j = Taken THEN c ELSE calls[j]
  BY <1>1, <1>2, <1>3, <1>4, <1>5, ExceptSeq
<1>8. Call' = Call
  BY <1>3, <1>7, LenProperties DEF Call
<1>9. /\ ingest' \in Seq(Call) /\ Len(ingest') = Len(ingest) - 1
      /\ \A i \in 1..Len(ingest') : ingest'[i] = ingest[i + 1]
  BY <1>1, <1>5, HeadTailProperties
<1>10. DOMAIN ingest = 1..Len(ingest) /\ DOMAIN ingest' = 1..Len(ingest')
       /\ Len(ingest) \in Nat \ {0}
  BY <1>1, <1>9, LenProperties, EmptySeq
<1>11. ingest[1] = Taken
  BY <1>1, <1>10 DEF Taken
<1>12. \A n \in Call : /\ calls'[n].event = calls[n].event
                       /\ calls'[n].phase = calls[n].phase
                       /\ calls'[n].result =
                            IF n = Taken THEN r ELSE calls[n].result
  BY <1>3, <1>6, <1>7
<1>13. \A i \in DOMAIN ingest' : /\ i + 1 \in DOMAIN ingest
                                 /\ ingest'[i] = ingest[i + 1]
  BY <1>9, <1>10
<1>14. ingest' \in Seq(Call')
  BY <1>8, <1>9
<1> QED BY <1>7, <1>8, <1>9, <1>10, <1>11, <1>12, <1>13, <1>14

\* The events after the commit: the old ones and the new row.
LEMMA NewEvents ==
  ASSUME IInv, Process
  PROVE  /\ events' \in Seq(EventRow)
         /\ Len(events) \in Nat
         /\ Event = 1..Len(events)
         /\ Event' = 1..(Len(events) + 1)
         /\ Len(events') = Len(events) + 1
         /\ \A e \in Event : events'[e] = events[e]
         /\ events'[Len(events) + 1] = NewRow
<1>1. events \in Seq(EventRow)
  BY DEF IInv, TypeOK
<1>2. NewRow \in EventRow /\ events' = Append(events, NewRow)
  BY ProcessEffect, NewRowType
<1>3. Event = 1..Len(events) /\ Len(events) \in Nat
  BY <1>1, LenProperties DEF Event
<1>4. /\ events' \in Seq(EventRow) /\ Len(events') = Len(events) + 1
      /\ \A e \in 1..Len(events) : events'[e] = events[e]
      /\ events'[Len(events) + 1] = NewRow
  BY <1>1, <1>2, AppendProperties
<1>5. Event' = 1..Len(events')
  BY <1>4, LenProperties DEF Event
<1> QED BY <1>3, <1>4, <1>5

\* The books after the commit: the old ones, and the event's.
LEMMA NewBooks ==
  ASSUME IInv, Process
  PROVE  /\ books' \in Seq([Column -> Value \cup {Absent}])
         /\ Len(books) \in Nat
         /\ Book = 1..Len(books)
         /\ Book' = 1..Len(books')
         /\ Book' = Book \cup {NewRow.book}
         /\ Len(books) <= Len(books')
         /\ \A b \in Book : books'[b] = books[b]
         /\ FindBook(In.evidence) = 0 =>
              /\ NewRow.book = Len(books) + 1
              /\ NewRow.book \notin Book
              /\ books'[NewRow.book] = [f \in Column |-> In.evidence[f]]
         /\ FindBook(In.evidence) # 0 =>
              NewRow.book \in Book /\ NewRow.book = FindBook(In.evidence)
<1>1. /\ books \in Seq([Column -> Value \cup {Absent}])
      /\ TypeOK /\ OneBookPerIdentifier
  BY DEF IInv, TypeOK
<1>2. In.evidence \in Evidence
  BY <1>1, ProcessEffect, TakenType, NormalizedType DEF In
<1>3. NewRow.book = BookID(In.evidence)
  BY ProcessEffect, NewRowType
<1>4. Book = 1..Len(books) /\ Len(books) \in Nat
  BY <1>1, LenProperties DEF Book
<1>5. CASE FindBook(In.evidence) = 0
  <2> DEFINE row == [f \in Column |-> In.evidence[f]]
  <2>1. row \in [Column -> Value \cup {Absent}]
    BY <1>2 DEF Evidence, Field
  <2>2. books' = Append(books, row)
    BY <1>5, ProcessEffect
  <2> HIDE DEF row
  <2>3. /\ books' \in Seq([Column -> Value \cup {Absent}])
        /\ Len(books') = Len(books) + 1
        /\ \A b \in 1..Len(books) : books'[b] = books[b]
        /\ books'[Len(books) + 1] = row
    BY <1>1, <2>1, <2>2, AppendProperties
  <2>4. Book' = 1..Len(books')
    BY <2>3, LenProperties DEF Book
  <2>5. NewRow.book = Len(books) + 1
    BY <1>3, <1>5 DEF BookID
  <2>6. Book' = Book \cup {NewRow.book}
    BY <1>4, <2>3, <2>4, <2>5
  <2>7. NewRow.book \notin Book
    BY <1>4, <2>5
  <2> QED BY <1>4, <1>5, <2>3, <2>4, <2>5, <2>6, <2>7 DEF row
<1>6. CASE FindBook(In.evidence) # 0
  <2>1. books' = books
    BY <1>6, ProcessEffect
  <2>2. NewRow.book \in Book /\ NewRow.book = FindBook(In.evidence)
    BY <1>1, <1>2, <1>3, <1>6, BookIDType
  <2>3. Book' = Book
    BY <2>1 DEF Book
  <2> QED BY <1>1, <1>4, <1>6, <2>1, <2>2, <2>3
<1> QED BY <1>5, <1>6

\* The canonical rows after the commit: at most the event's book has a new
\* one, and it has one exactly if the event is accepted.
LEMMA NewCanon ==
  ASSUME IInv, Process
  PROVE  /\ DOMAIN canon = Book
         /\ DOMAIN canon' = Book'
         /\ \A x \in Book : x # NewRow.book \/ Suspicious(In) =>
              canon'[x] = canon[x]
         /\ ~Suspicious(In) =>
              canon'[NewRow.book] = CanonRowOf(Len(events) + 1, NewRow)
         /\ Suspicious(In) => Book' = Book
         /\ Suspicious(In) <=> NewRow.conflict # 0
<1>1. DOMAIN canon = Book
  BY DEF IInv, TypeOK
<1>2. Suspicious(In) => NewRow.conflict \in Event /\ NewRow.book \in Book
  BY ProcessEffect, NewRowType
<1>3. ~Suspicious(In) => NewRow.conflict = 0
  BY ProcessEffect, NewRowType
<1>4. 0 \notin Event
  BY NewEvents
<1>5. Book' = Book \cup {NewRow.book}
  BY NewBooks
<1>6. CASE Suspicious(In)
  BY <1>1, <1>2, <1>4, <1>5, <1>6, ProcessEffect
<1>7. CASE ~Suspicious(In)
  <2>1. canon' = [x \in DOMAIN canon \cup {NewRow.book} |->
                    IF x = NewRow.book
                    THEN CanonRowOf(Len(events) + 1, NewRow) ELSE canon[x]]
    BY <1>7, ProcessEffect
  <2> QED BY <1>1, <1>3, <1>5, <1>7, <2>1
<1> QED BY <1>6, <1>7

\* The aliases after the commit: a key keeps its book, and a new book gets
\* the keys of its evidence that were free.
LEMMA NewAliases ==
  ASSUME IInv, Process
  PROVE  /\ aliases' \in [AliasField \X Value -> 0..Len(books')]
         /\ \A k \in AliasField \X Value :
              aliases[k] # 0 => aliases'[k] = aliases[k]
         /\ FindBook(In.evidence) = 0 =>
              \A k \in AliasField : Present(k, In.evidence) =>
                aliases'[<<k, In.evidence[k]>>] = NewRow.book
<1>1. TypeOK /\ OneBookPerIdentifier
  BY DEF IInv
<1>2. aliases \in [AliasField \X Value -> 0..Len(books)]
  BY <1>1 DEF TypeOK
<1>3. In.evidence \in Evidence
  BY <1>1, ProcessEffect, TakenType, NormalizedType DEF In
<1>4. Len(books) \in Nat /\ Len(books') \in Nat /\ Len(books) <= Len(books')
  BY NewBooks, LenProperties
<1>5. CASE FindBook(In.evidence) = 0
  <2>1. aliases' = [k \in AliasField \X Value |->
                      IF In.evidence[k[1]] = k[2] /\ aliases[k] = 0
                      THEN NewRow.book ELSE aliases[k]]
    BY <1>5, ProcessEffect, Zenon DEF InsertBookAliases
  <2>2. NewRow.book \in 0..Len(books')
    BY <1>4, <1>5, NewBooks
  <2>3. aliases' \in [AliasField \X Value -> 0..Len(books')]
    BY <1>2, <1>4, <2>1, <2>2
  <2>4. ASSUME NEW k \in AliasField, Present(k, In.evidence)
        PROVE  aliases'[<<k, In.evidence[k]>>] = NewRow.book
    <3>1. In.evidence[k] \in Value
      BY <1>3, <2>4 DEF Evidence, Field, Present
    <3>2. Matching(k, In.evidence) = {}
      BY <1>1, <1>3, <1>5, NewBooks, FindBookFinds
         DEF Field, AliasField
    <3>3. aliases[<<k, In.evidence[k]>>] = 0
      BY <2>4, <3>2 DEF Matching
    <3> QED BY <2>1, <3>1, <3>3
  <2> QED BY <2>1, <2>3, <2>4
<1>6. CASE FindBook(In.evidence) # 0
  <2>1. aliases' = aliases
    BY <1>6, ProcessEffect
  <2>2. aliases \in [AliasField \X Value -> 0..Len(books')]
    BY <1>2, <1>4
  <2> QED BY <1>6, <2>1, <2>2
<1> QED BY <1>5, <1>6

-----------------------------------------------------------------------------
(* The committing step preserves each part of the invariant.               *)

\* The tables keep their types.
LEMMA ProcessType ==
  ASSUME IInv, Process
  PROVE  TypeOK'
<1>1. TypeOK
  BY DEF IInv
<1>2. Answer(Taken, "ok") /\ ingest # <<>>
  BY DEF Process, Taken
<1>3. calls' \in Seq(CallRecord) /\ ingest' \in Seq(Call')
  BY <1>1, <1>2, AnsweredCalls
<1>4. loop' \in {"running", "stopping", "stopped"} /\ faults' \in 0..MaxFaults
  BY <1>1, ProcessEffect DEF TypeOK
<1>5. CanonRowOf(Len(events) + 1, NewRow) \in CanonRow
  <2>1. NewRow \in EventRow /\ Len(events) + 1 \in Nat
    BY ProcessEffect, NewRowType, NewEvents
  <2> QED BY <2>1 DEF EventRow, CanonRowOf, CanonRow
<1>6. DOMAIN canon' = Book' /\ \A b \in Book' : canon'[b] \in CanonRow
  <2>1. \A b \in Book : canon[b] \in CanonRow
    BY <1>1 DEF TypeOK
  <2>2. ASSUME NEW b \in Book' PROVE canon'[b] \in CanonRow
    <3>1. CASE b = NewRow.book /\ ~Suspicious(In)
      BY <1>5, <3>1, NewCanon
    <3>2. CASE b # NewRow.book \/ Suspicious(In)
      <4>1. b \in Book
        BY <3>2, NewBooks, NewCanon
      <4> QED BY <2>1, <3>2, <4>1, NewCanon
    <3> QED BY <3>1, <3>2
  <2> QED BY <2>2, NewCanon
<1>7. /\ books' \in Seq([Column -> Value \cup {Absent}])
      /\ aliases' \in [AliasField \X Value -> 0..Len(books')]
      /\ events' \in Seq(EventRow)
  BY NewBooks, NewAliases, NewEvents
<1> QED BY <1>3, <1>4, <1>6, <1>7 DEF TypeOK

\* The new event answers its call, and no other event or call does.
LEMMA ProcessAnswers ==
  ASSUME IInv, Process
  PROVE  Answers'
<1>1. TypeOK /\ Answers
  BY DEF IInv
<1>2. Answer(Taken, "ok") /\ ingest # <<>>
  BY DEF Process, Taken
<1>3. Taken \in Call /\ calls[Taken].result = "none"
      /\ calls[Taken].phase # "sending"
  BY <1>1, <1>2, AnsweredCalls, TakenType DEF Answers
<1>4. \A e \in Event : events[e].call # Taken
  BY <1>1, <1>3 DEF Answers
<1>5. NewRow.call = Taken /\ NewRow.book \in Book'
  BY <1>2, NewRowType, NewBooks
<1> DEFINE last == Len(events) + 1
<1>6. /\ Event' = Event \cup {last} /\ last \notin Event
      /\ \A e \in Event : events'[e] = events[e]
      /\ events'[last] = NewRow
  BY NewEvents
<1> HIDE DEF last
<1>7. /\ Call' = Call
      /\ \A n \in Call : /\ calls'[n].event = calls[n].event
                         /\ calls'[n].phase = calls[n].phase
                         /\ calls'[n].result =
                              IF n = Taken THEN "ok" ELSE calls[n].result
  BY <1>1, <1>2, AnsweredCalls
<1>8. /\ \A i \in DOMAIN ingest' : i + 1 \in DOMAIN ingest
                                   /\ ingest'[i] = ingest[i + 1]
      /\ 1 \in DOMAIN ingest /\ ingest[1] = Taken
      /\ DOMAIN ingest' = 1..Len(ingest') /\ Len(ingest') \in Nat
      /\ \A i \in DOMAIN ingest : ingest[i] \in Call
  <2>1. ingest \in Seq(Call) /\ ingest' \in Seq(Call')
    BY <1>1, <1>2, AnsweredCalls DEF TypeOK
  <2> QED BY <1>1, <1>2, <2>1, AnsweredCalls, LenProperties, ElementOfSeq
<1>9. \A i, j \in DOMAIN ingest' : ingest'[i] = ingest'[j] => i = j
  BY <1>1, <1>8 DEF Answers
<1>10. \A i \in DOMAIN ingest' : ingest'[i] # Taken
  BY <1>1, <1>8 DEF Answers
<1>11. \A i \in DOMAIN ingest' : /\ calls'[ingest'[i]].phase # "sending"
                                 /\ calls'[ingest'[i]].result = "none"
  BY <1>1, <1>7, <1>8, <1>10 DEF Answers
<1>12. ASSUME NEW n \in Call'
       PROVE  /\ calls'[n].result = "ok" <=>
                   \E e \in Event' : events'[e].call = n
              /\ calls'[n].phase = "sending" => calls'[n].result = "none"
              /\ calls'[n].phase \in {"ok", "error"} =>
                   calls'[n].phase = calls'[n].result
  <2>1. CASE n = Taken
    BY <1>1, <1>3, <1>5, <1>6, <1>7, <2>1 DEF Answers
  <2>2. CASE n # Taken
    <3>1. (\E e \in Event' : events'[e].call = n) <=>
            \E e \in Event : events[e].call = n
      BY <1>5, <1>6, <2>2
    <3> QED BY <1>1, <1>7, <2>2, <3>1 DEF Answers
  <2> QED BY <2>1, <2>2
<1>13. \A e \in Event' : events'[e].call \in Call' /\ events'[e].book \in Book'
  <2>1. \A e \in Event : events[e].call \in Call /\ events[e].book \in Book
    BY <1>1 DEF Answers
  <2> QED BY <1>3, <1>5, <1>6, <1>7, <2>1, NewBooks
<1>14. \A e, f \in Event' : events'[e].call = events'[f].call => e = f
  <2>1. \A e, f \in Event : events[e].call = events[f].call => e = f
    BY <1>1 DEF Answers
  <2> QED BY <1>4, <1>5, <1>6, <2>1
<1> QED BY <1>9, <1>11, <1>12, <1>13, <1>14 DEF Answers

\* The accepted events before an event do not change; the new event joins
\* those of its book if it is in no conflict.
LEMMA NewAccepted ==
  ASSUME IInv, Process
  PROVE  /\ \A b : \A e \in 1..(Len(events) + 1) :
              AcceptedBefore(b, e)' = AcceptedBefore(b, e)
         /\ \A b : AcceptedBefore(b, Len(events) + 1)' =
              AcceptedBefore(b, Len(events) + 1) \cup
              (IF b = NewRow.book /\ ~Suspicious(In)
               THEN {Len(events) + 1} ELSE {})
<1> DEFINE last == Len(events) + 1
<1>1. /\ Len(events) \in Nat /\ Len(events') = last
      /\ Event = 1..Len(events) /\ Event' = 1..last
      /\ \A e \in Event : events'[e] = events[e]
      /\ events'[last] = NewRow
  BY NewEvents
<1>2. Suspicious(In) <=> NewRow.conflict # 0
  BY NewCanon
<1> HIDE DEF last
<1>3. last \in Nat /\ last = Len(events) + 1
  BY <1>1 DEF last
<1>4. ASSUME NEW b, NEW e \in 1..last
      PROVE  AcceptedBefore(b, e)' = AcceptedBefore(b, e)
  BY <1>1, <1>3 DEF AcceptedBefore
<1>5. ASSUME NEW b
      PROVE  AcceptedBefore(b, Len(events) + 1)' =
               AcceptedBefore(b, last) \cup
               (IF b = NewRow.book /\ ~Suspicious(In) THEN {last} ELSE {})
  <2>1. AcceptedBefore(b, Len(events) + 1)' =
          {a \in 1..last : a < last + 1 /\ events'[a].book = b
                           /\ events'[a].conflict = 0}
    BY <1>1, Zenon DEF AcceptedBefore
  <2>2. AcceptedBefore(b, last) =
          {a \in 1..Len(events) : a < last /\ events[a].book = b
                                  /\ events[a].conflict = 0}
    BY <1>1 DEF AcceptedBefore
  <2> QED BY <1>1, <1>2, <1>3, <2>1, <2>2
<1> QED BY <1>1, <1>4, <1>5 DEF last

\* The canonical row of the event's book copies the new event if that is
\* accepted; the others copy what they did.
LEMMA ProcessCanon ==
  ASSUME IInv, Process
  PROVE  CanonCopies'
<1> DEFINE last == Len(events) + 1
<1>1. /\ Len(events) \in Nat /\ Len(events') = last
      /\ Event = 1..Len(events) /\ Event' = 1..last
      /\ \A e \in Event : events'[e] = events[e]
      /\ events'[last] = NewRow
  BY NewEvents
<1>2. SUFFICES ASSUME NEW b \in Book'
      PROVE  LET a == canon'[b].event
                 now == AcceptedBefore(b, Len(events) + 1)' IN
             /\ a \in now
             /\ \A x \in now : x <= a
             /\ canon'[b] = CanonRowOf(a, events'[a])
  BY DEF CanonCopies, CanonRowOf
<1> DEFINE before == AcceptedBefore(b, last)
           now == AcceptedBefore(b, Len(events) + 1)'
<1>3. now = before \cup
              (IF b = NewRow.book /\ ~Suspicious(In) THEN {last} ELSE {})
  BY NewAccepted
<1>4. \A a \in before : a \in Event /\ a < last
  BY <1>1 DEF AcceptedBefore
<1>5. CASE b = NewRow.book /\ ~Suspicious(In)
  <2>1. canon'[b] = CanonRowOf(last, NewRow)
    BY <1>5, NewCanon
  <2>2. canon'[b].event = last
    BY <2>1 DEF CanonRowOf
  <2>3. last \in now /\ \A x \in now : x <= last
    BY <1>1, <1>3, <1>4, <1>5
  <2> HIDE DEF last, now
  <2> QED BY <1>1, <2>1, <2>2, <2>3 DEF now
<1>6. CASE b # NewRow.book \/ Suspicious(In)
  <2>1. b \in Book
    BY <1>2, <1>6, NewBooks, NewCanon
  <2>2. canon'[b] = canon[b]
    BY <1>6, <2>1, NewCanon
  <2>3. now = before
    BY <1>3, <1>6
  <2>4. /\ canon[b].event \in before
        /\ \A x \in before : x <= canon[b].event
        /\ canon[b] = CanonRowOf(canon[b].event, events[canon[b].event])
    BY <2>1 DEF IInv, CanonCopies
  <2>5. events'[canon[b].event] = events[canon[b].event]
    BY <1>1, <1>4, <2>4
  <2> HIDE DEF before, now
  <2> QED BY <2>2, <2>3, <2>4, <2>5 DEF now
<1> QED BY <1>5, <1>6

\* The newest of a set of naturals is the one no other exceeds.
LEMMA LatestIs ==
  ASSUME NEW S \in SUBSET Nat, NEW a \in S, \A x \in S : x <= a
  PROVE  Latest(S) = a
<1>1. Latest(S) \in S /\ \A x \in S : x <= Latest(S)
  BY DEF Latest
<1>2. Latest(S) \in Nat /\ a \in Nat /\ Latest(S) <= a /\ a <= Latest(S)
  BY <1>1
<1> QED BY <1>2

\* detectSuspiciousJump reads these fields and no others, so a canonical row
\* and the event it copies are as good as each other.
LEMMA DetectReads ==
  ASSUME NEW c, NEW d, NEW e, NEW f,
         c.percent = d.percent, c.pages = d.pages, c.locator = d.locator,
         e.source = f.source, e.percent = f.percent, e.pages = f.pages,
         e.locator = f.locator, e.status = f.status,
         e.confidence = f.confidence
  PROVE  DetectSuspiciousJump(c, e) <=> DetectSuspiciousJump(d, f)
<1>1. BackwardJump(c, e) <=> BackwardJump(d, f)
  BY Zenon DEF BackwardJump
<1>2. FinishedEarly(c, e) <=> FinishedEarly(d, f)
  BY Zenon DEF FinishedEarly
<1>3. PageCountChanged(c, e) <=> PageCountChanged(d, f)
  BY Zenon DEF PageCountChanged
<1>4. LowConfidence(e) <=> LowConfidence(f)
  BY Zenon DEF LowConfidence
<1>5. LocatorChanged(c, e) <=> LocatorChanged(d, f)
  BY Zenon DEF LocatorChanged
<1> QED BY <1>1, <1>2, <1>3, <1>4, <1>5, Zenon DEF DetectSuspiciousJump

\* The new event is judged against the canonical row of its book, which
\* copies the newest accepted event; no older judgement changes.
LEMMA ProcessJudged ==
  ASSUME IInv, Process
  PROVE  Judged'
<1> DEFINE last == Len(events) + 1
<1>1. /\ Len(events) \in Nat
      /\ Event = 1..Len(events) /\ Event' = 1..last
      /\ \A e \in Event : events'[e] = events[e]
      /\ events'[last] = NewRow
  BY NewEvents
<1>2. SUFFICES ASSUME NEW e \in Event', NEW b, b = events'[e].book,
                      NEW S, S = AcceptedBefore(b, e)'
      PROVE  events'[e].conflict =
               IF S # {} /\ DetectSuspiciousJump(events'[Latest(S)], events'[e])
               THEN Latest(S) ELSE 0
  BY Zenon DEF Judged, AcceptedBefore
<1>3. S = AcceptedBefore(b, e)
  BY <1>1, <1>2, NewAccepted
<1>4. S \in SUBSET Event /\ S \in SUBSET Nat
  BY <1>1, <1>3 DEF AcceptedBefore
<1>5. CASE e # last
  <2>1. e \in Event /\ b = events[e].book /\ events'[e] = events[e]
    BY <1>1, <1>2, <1>5
  <2>2. events[e].conflict =
          IF S # {} /\ DetectSuspiciousJump(events[Latest(S)], events[e])
          THEN Latest(S) ELSE 0
    BY <1>3, <2>1, Zenon DEF IInv, Judged
  <2>3. CASE S = {}
    BY <2>1, <2>2, <2>3
  <2>4. CASE S # {}
    <3>1. PICK x \in S : TRUE
      BY <2>4
    <3>2. CASE Latest(S) \in S
      <4>1. events'[Latest(S)] = events[Latest(S)]
        BY <1>1, <1>4, <3>2
      <4> QED BY <2>1, <2>2, <4>1
    <3>3. Latest(S) \in S
      <4>1. S \in SUBSET (1..Len(events))
        BY <1>1, <1>4
      <4>2. \E a \in S : \A y \in S : y <= a
        BY <1>1, <4>1, <3>1, Greatest
      <4> QED BY <4>2 DEF Latest
    <3> QED BY <3>2, <3>3
  <2> QED BY <2>3, <2>4
<1>6. CASE e = last
  <2>1. b = NewRow.book /\ events'[e] = NewRow /\ S = AcceptedBefore(b, last)
    BY <1>1, <1>2, <1>3, <1>6
  <2>2. NewRow.conflict = IF Suspicious(In) THEN canon[b].event ELSE 0
    BY <2>1, ProcessEffect, NewRowType
  <2>3. b = BookID(In.evidence)
    BY <2>1, ProcessEffect, NewRowType
  <2>4. Suspicious(In) <=>
          b \in Book /\ DetectSuspiciousJump(canon[b], ProgressEvent(In))
    BY <2>3, NewCanon, Zenon DEF Suspicious
  <2> HIDE DEF last
  <2>5. CASE b \notin Book
    <3>1. S = {}
      BY <2>1, <2>5 DEF IInv, Answers, AcceptedBefore
    <3> QED BY <2>1, <2>2, <2>4, <2>5, <3>1
  <2>6. CASE b \in Book
    <3> DEFINE a == canon[b].event
    <3>1. /\ a \in S /\ \A x \in S : x <= a
          /\ canon[b] = CanonRowOf(a, events[a])
      BY <2>1, <2>6 DEF IInv, CanonCopies, last
    <3> HIDE DEF a
    <3>2. Latest(S) = a
      BY <1>4, <3>1, LatestIs
    <3>3. events'[a] = events[a]
      BY <1>1, <1>4, <3>1
    <3>4. DetectSuspiciousJump(canon[b], ProgressEvent(In)) <=>
            DetectSuspiciousJump(events[a], NewRow)
      <4>1. /\ canon[b].percent = events[a].percent
            /\ canon[b].pages = events[a].pages
            /\ canon[b].locator = events[a].locator
        BY <3>1 DEF CanonRowOf
      <4>2. /\ NewRow.source = In.source /\ NewRow.percent = In.percent
            /\ NewRow.pages = In.pages /\ NewRow.locator = In.locator
            /\ NewRow.status = In.status
            /\ NewRow.confidence = Confidence(In.evidence)
        BY ProcessEffect, NewRowType
      <4> DEFINE p == ProgressEvent(In)
      <4>3. /\ p.source = NewRow.source /\ p.percent = NewRow.percent
            /\ p.pages = NewRow.pages /\ p.locator = NewRow.locator
            /\ p.status = NewRow.status /\ p.confidence = NewRow.confidence
        BY <4>2 DEF ProgressEvent
      <4> HIDE DEF p
      <4>4. DetectSuspiciousJump(canon[b], p) <=>
              DetectSuspiciousJump(events[a], NewRow)
        BY <4>1, <4>3, DetectReads
      <4> QED BY <4>4 DEF p
    <3>5. S # {}
      BY <3>1
    <3>6. canon[b].event = a
      BY DEF a
    <3> QED BY <2>1, <2>2, <2>4, <2>6, <3>2, <3>3, <3>4, <3>5, <3>6, Zenon
  <2> QED BY <2>5, <2>6
<1> QED BY <1>5, <1>6

\* A book is only created when none carries any identifier of the evidence.
LEMMA ProcessBooks ==
  ASSUME IInv, Process
  PROVE  OneBookPerIdentifier'
<1>1. TypeOK /\ OneBookPerIdentifier
  BY DEF IInv
<1>2. In.evidence \in Evidence
  BY <1>1, ProcessEffect, TakenType, NormalizedType DEF In
<1>3. SUFFICES ASSUME NEW f \in Column \ {"title", "author_sort"},
                      NEW b \in Book', NEW c \in Book',
                      books'[b][f] = books'[c][f], books'[b][f] # Absent
               PROVE  b = c
  BY DEF OneBookPerIdentifier
<1>4. /\ Book' = Book \cup {NewRow.book}
      /\ \A x \in Book : books'[x] = books[x]
      /\ FindBook(In.evidence) # 0 => NewRow.book \in Book
      /\ FindBook(In.evidence) = 0 =>
           books'[NewRow.book] = [g \in Column |-> In.evidence[g]]
  BY NewBooks
<1>5. CASE b \in Book /\ c \in Book
  BY <1>1, <1>3, <1>4, <1>5 DEF OneBookPerIdentifier
<1>6. CASE b \notin Book \/ c \notin Book
  <2>1. FindBook(In.evidence) = 0
    BY <1>3, <1>4, <1>6
  <2>2. Matching(f, In.evidence) = {}
    BY <1>1, <1>2, <2>1, NewBooks, FindBookFinds, LenProperties
       DEF Field, Column
  <2>3. f \notin AliasField
    BY DEF Column, AliasField
  <2>4. In.evidence[f] # Absent =>
          \A x \in Book : books[x][f] # In.evidence[f]
    BY <2>2, <2>3 DEF Matching, Present
  <2>5. books'[NewRow.book][f] = In.evidence[f]
    BY <1>4, <2>1
  <2> QED BY <1>3, <1>4, <1>6, <2>4, <2>5
<1> QED BY <1>5, <1>6

\* A key that comes alone is looked up, and entered if no book was found.
LEMMA ProcessKeys ==
  ASSUME IInv, Process
  PROVE  KeysKnown'
<1>1. TypeOK /\ OneBookPerIdentifier /\ KeysKnown /\ Answers
  BY DEF IInv
<1>2. Answer(Taken, "ok") /\ ingest # <<>>
  BY DEF Process, Taken
<1>3. /\ Taken \in Call /\ calls[Taken].event \in AdapterEvent
      /\ In.evidence = calls[Taken].event.evidence
      /\ In.evidence \in Evidence
  BY <1>1, <1>2, TakenType, NormalizedType DEF In
<1>4. \A n \in Call : /\ calls'[n].event = calls[n].event
                      /\ calls[n].event \in AdapterEvent
  <2>1. calls \in Seq(CallRecord)
    BY <1>1 DEF TypeOK
  <2>2. ASSUME NEW n \in Call PROVE calls[n].event \in AdapterEvent
    <3>1. calls[n] \in CallRecord
      BY <2>1, ElementOfSeq, LenProperties DEF Call
    <3> QED BY <3>1, PipelineAssumption DEF CallRecord
  <2> QED BY <1>1, <1>2, <2>2, AnsweredCalls
<1>5. SUFFICES ASSUME NEW e \in Event', NEW k \in AliasField,
                      NEW ev, ev = calls'[events'[e].call].event.evidence,
                      \A f \in Field : Present(f, ev) <=> f = k
               PROVE  aliases'[<<k, ev[k]>>] = events'[e].book
  BY Zenon DEF KeysKnown, EvidenceOf, OnlyKey, Present
<1>6. k \in Field /\ Present(k, ev)
  BY <1>5 DEF Field
<1>7. \A v \in Value :
        aliases[<<k, v>>] # 0 => aliases'[<<k, v>>] = aliases[<<k, v>>]
  BY NewAliases
<1>8. /\ Event' = Event \cup {Len(events) + 1}
      /\ \A x \in Event : events'[x] = events[x]
      /\ events'[Len(events) + 1] = NewRow
  BY NewEvents
<1>9. CASE e \in Event
  <2>1. events'[e] = events[e] /\ events[e].call \in Call
        /\ events[e].book \in Book
    BY <1>1, <1>8, <1>9 DEF Answers
  <2>2. ev = EvidenceOf(e) /\ ev \in Evidence
    BY <1>4, <1>5, <2>1 DEF EvidenceOf, AdapterEvent
  <2>3. ev[k] \in Value
    BY <1>6, <2>2 DEF Evidence, Present
  <2>4. OnlyKey(k, ev)
    BY <1>5 DEF OnlyKey
  <2>5. aliases[<<k, ev[k]>>] = events[e].book
    BY <1>1, <1>9, <2>2, <2>4 DEF KeysKnown
  <2>6. events[e].book # 0
    BY <2>1, NewBooks
  <2> QED BY <1>7, <2>1, <2>3, <2>5, <2>6
<1>10. CASE e = Len(events) + 1
  <2>1. events'[e] = NewRow /\ NewRow.call = Taken
    BY <1>2, <1>8, <1>10, NewRowType
  <2>2. ev = In.evidence
    BY <1>3, <1>4, <1>5, <2>1
  <2>3. ev[k] \in Value
    BY <1>3, <1>6, <2>2 DEF Evidence, Present
  <2>4. CASE FindBook(In.evidence) = 0
    BY <1>6, <2>1, <2>2, <2>4, NewAliases
  <2>5. CASE FindBook(In.evidence) # 0
    <3>1. PICK f \in Field : FindBook(ev) \in Matching(f, ev)
      BY <1>1, <1>3, <2>2, <2>5, FindBookFinds
    <3>2. f = k
      BY <1>5, <3>1 DEF Matching
    <3>3. Matching(k, ev) = {aliases[<<k, ev[k]>>]} \ {0}
      BY <1>6 DEF Matching
    <3>4. FindBook(ev) = aliases[<<k, ev[k]>>] /\ FindBook(ev) # 0
      BY <3>1, <3>2, <3>3
    <3>5. NewRow.book = FindBook(ev)
      BY <2>2, <2>5, NewBooks
    <3> QED BY <1>7, <2>1, <2>3, <3>4, <3>5
  <2> QED BY <2>4, <2>5
<1> QED BY <1>8, <1>9, <1>10

-----------------------------------------------------------------------------
(* The other steps leave the tables alone.                                 *)

\* What is said of the tables stays true while the tables and the events of
\* the calls stay as they are.
LEMMA TablesKept ==
  ASSUME IInv, UNCHANGED <<books, aliases, events, canon>>,
         Call \subseteq Call', \A n \in Call : calls'[n].event = calls[n].event
  PROVE  CanonCopies' /\ Judged' /\ OneBookPerIdentifier' /\ KeysKnown'
<1>1. Event' = Event /\ Book' = Book
  BY DEF Event, Book
<1>2. CanonCopies'
  BY <1>1, Zenon DEF IInv, CanonCopies, AcceptedBefore, CanonRowOf
<1>3. Judged'
  BY <1>1, Zenon DEF IInv, Judged, AcceptedBefore
<1>4. OneBookPerIdentifier'
  BY <1>1 DEF IInv, OneBookPerIdentifier
<1>5. KeysKnown'
  <2>1. \A e \in Event : calls'[events[e].call].event = calls[events[e].call].event
    BY DEF IInv, Answers
  <2> QED BY <1>1, <2>1, Zenon DEF IInv, KeysKnown, EvidenceOf, OnlyKey
<1> QED BY <1>2, <1>3, <1>4, <1>5

\* The calls after one of them moves on to phase p.
LEMMA MovedCall ==
  ASSUME TypeOK, NEW n \in Call, NEW p \in Phase,
         calls' = [calls EXCEPT ![n].phase = p]
  PROVE  /\ calls' \in Seq(CallRecord)
         /\ Call' = Call
         /\ \A m \in Call : /\ calls'[m].event = calls[m].event
                            /\ calls'[m].result = calls[m].result
                            /\ calls'[m].phase =
                                 IF m = n THEN p ELSE calls[m].phase
<1>1. calls \in Seq(CallRecord)
  BY DEF TypeOK
<1>2. Call = 1..Len(calls) /\ Len(calls) \in Nat
  BY <1>1, LenProperties DEF Call
<1>3. calls[n] \in CallRecord
  BY <1>1, <1>2, ElementOfSeq
<1> DEFINE c == [calls[n] EXCEPT !.phase = p]
<1>4. c \in CallRecord
  BY <1>3 DEF CallRecord
<1>5. /\ c.event = calls[n].event /\ c.result = calls[n].result /\ c.phase = p
  BY <1>3 DEF CallRecord
<1>6. calls' = [calls EXCEPT ![n] = c]
  OBVIOUS
<1> HIDE DEF c
<1>7. /\ calls' \in Seq(CallRecord) /\ Len(calls') = Len(calls)
      /\ \A m \in 1..Len(calls) : calls'[m] = IF m = n THEN c ELSE calls[m]
  BY <1>1, <1>2, <1>4, <1>6, ExceptSeq
<1>8. Call' = Call
  BY <1>2, <1>7, LenProperties DEF Call
<1> QED BY <1>2, <1>5, <1>7, <1>8

\* A new call has no event yet.
LEMMA SubmitKeeps ==
  ASSUME IInv, NEW in \in Input, Submit(in)
  PROVE  IInv'
<1>1. TypeOK /\ Answers
  BY DEF IInv
<1> DEFINE c == [event |-> in, phase |-> "sending", result |-> "none"]
<1>2. calls \in Seq(CallRecord) /\ c \in CallRecord /\ calls' = Append(calls, c)
  BY <1>1 DEF Submit, TypeOK, CallRecord, Phase
<1>3. c.phase = "sending" /\ c.result = "none"
  OBVIOUS
<1> HIDE DEF c
<1>4. /\ calls' \in Seq(CallRecord) /\ Len(calls') = Len(calls) + 1
      /\ \A n \in 1..Len(calls) : calls'[n] = calls[n]
      /\ calls'[Len(calls) + 1] = c
  BY <1>2, AppendProperties
<1>5. Call = 1..Len(calls) /\ Call' = 1..Len(calls') /\ Len(calls) \in Nat
  BY <1>2, <1>4, LenProperties DEF Call
<1>6. /\ Call \subseteq Call' /\ Len(calls) + 1 \notin Call
      /\ Call' = Call \cup {Len(calls) + 1}
      /\ \A n \in Call : calls'[n] = calls[n]
  BY <1>4, <1>5
<1>7. UNCHANGED <<ingest, loop, books, aliases, events, canon, faults>>
  BY DEF Submit
<1>8. ingest \in Seq(Call')
  BY <1>1, <1>6, SeqMonotonic DEF TypeOK
<1>9. TypeOK'
  BY <1>1, <1>4, <1>7, <1>8 DEF TypeOK, Book
<1>10. Event' = Event /\ Book' = Book
  BY <1>7 DEF Event, Book
<1>11. \A i \in DOMAIN ingest : ingest[i] \in Call
  BY <1>1, ElementOfSeq, LenProperties DEF TypeOK
<1>12. Answers'
  BY <1>1, <1>3, <1>4, <1>6, <1>7, <1>10, <1>11 DEF Answers
<1> QED BY <1>6, <1>7, <1>9, <1>12, TablesKept DEF IInv

\* A call enters the channel once: it was not there while it was sending.
LEMMA SendKeeps ==
  ASSUME IInv, NEW n \in Call, Send(n)
  PROVE  IInv'
<1>1. TypeOK /\ Answers
  BY DEF IInv
<1>2. /\ calls[n].phase = "sending"
      /\ ingest' = Append(ingest, n)
      /\ calls' = [calls EXCEPT ![n].phase = "waiting"]
      /\ UNCHANGED <<loop, books, aliases, events, canon, faults>>
  BY DEF Send
<1>3. /\ calls' \in Seq(CallRecord) /\ Call' = Call
      /\ \A m \in Call : /\ calls'[m].event = calls[m].event
                         /\ calls'[m].result = calls[m].result
                         /\ calls'[m].phase =
                              IF m = n THEN "waiting" ELSE calls[m].phase
  BY <1>1, <1>2, MovedCall DEF Phase
<1>4. ingest \in Seq(Call)
  BY <1>1 DEF TypeOK
<1>5. /\ ingest' \in Seq(Call) /\ Len(ingest') = Len(ingest) + 1
      /\ \A i \in 1..Len(ingest) : ingest'[i] = ingest[i]
      /\ ingest'[Len(ingest) + 1] = n
  BY <1>2, <1>4, AppendProperties
<1>6. /\ DOMAIN ingest = 1..Len(ingest) /\ DOMAIN ingest' = 1..Len(ingest')
      /\ Len(ingest) \in Nat
  BY <1>4, <1>5, LenProperties
<1>7. \A i \in DOMAIN ingest : ingest[i] # n /\ ingest[i] \in Call
  BY <1>1, <1>2, <1>4, <1>6, ElementOfSeq DEF Answers
<1>8. TypeOK'
  BY <1>1, <1>2, <1>3, <1>5 DEF TypeOK, Book
<1>9. Event' = Event /\ Book' = Book
  BY <1>2 DEF Event, Book
<1>10. \A i, j \in DOMAIN ingest' : ingest'[i] = ingest'[j] => i = j
  BY <1>1, <1>5, <1>6, <1>7 DEF Answers
<1>11. \A i \in DOMAIN ingest' : /\ calls'[ingest'[i]].phase # "sending"
                                 /\ calls'[ingest'[i]].result = "none"
  <2>1. ASSUME NEW i \in DOMAIN ingest'
        PROVE  \/ ingest'[i] = n
               \/ i \in DOMAIN ingest /\ ingest'[i] = ingest[i]
    BY <1>5, <1>6
  <2> QED BY <1>1, <1>2, <1>3, <1>7, <2>1 DEF Answers
<1>12. Answers'
  BY <1>1, <1>2, <1>3, <1>9, <1>10, <1>11 DEF Answers
<1> QED BY <1>2, <1>3, <1>8, <1>12, TablesKept DEF IInv

\* A call returns what it was answered, or gives up; neither stores anything.
LEMMA ReturnKeeps ==
  ASSUME IInv, NEW n \in Call, Return(n) \/ TimeOut(n)
  PROVE  IInv'
<1>1. TypeOK /\ Answers
  BY DEF IInv
<1>2. calls \in Seq(CallRecord) /\ calls[n] \in CallRecord
  BY <1>1, ElementOfSeq, LenProperties DEF TypeOK, Call
<1>3. PICK p \in {"ok", "error", "timeout"} :
        /\ calls' = [calls EXCEPT ![n].phase = p]
        /\ p # "timeout" => p = calls[n].result
  BY <1>2 DEF Return, TimeOut, CallRecord
<1>4. UNCHANGED <<ingest, loop, books, aliases, events, canon, faults>>
  BY DEF Return, TimeOut
<1>5. /\ calls' \in Seq(CallRecord) /\ Call' = Call
      /\ \A m \in Call : /\ calls'[m].event = calls[m].event
                         /\ calls'[m].result = calls[m].result
                         /\ calls'[m].phase =
                              IF m = n THEN p ELSE calls[m].phase
  <2>1. p \in Phase
    BY DEF Phase
  <2> QED BY <1>1, <1>3, <2>1, MovedCall
<1>6. TypeOK'
  BY <1>1, <1>4, <1>5 DEF TypeOK, Book
<1>7. Event' = Event /\ Book' = Book
  BY <1>4 DEF Event, Book
<1>8. \A i \in DOMAIN ingest : ingest[i] \in Call
  BY <1>1, ElementOfSeq, LenProperties DEF TypeOK
<1>9. Answers'
  BY <1>1, <1>3, <1>4, <1>5, <1>7, <1>8 DEF Answers
<1> QED BY <1>4, <1>5, <1>6, <1>9, TablesKept DEF IInv

\* A refused or rolled back event is answered with an error and not stored.
LEMMA FailKeeps ==
  ASSUME IInv, Reject \/ RollBack
  PROVE  IInv'
<1>1. TypeOK /\ Answers
  BY DEF IInv
<1>2. /\ ingest # <<>> /\ Answer(Taken, "error")
      /\ UNCHANGED <<loop, books, aliases, events, canon>>
  BY DEF Reject, RollBack, Taken
<1>3. faults' \in 0..MaxFaults
  BY <1>1, PipelineAssumption DEF TypeOK, Reject, RollBack
<1>4. /\ calls' \in Seq(CallRecord) /\ ingest' \in Seq(Call') /\ Call' = Call
      /\ \A n \in Call : /\ calls'[n].event = calls[n].event
                         /\ calls'[n].phase = calls[n].phase
                         /\ calls'[n].result =
                              IF n = Taken THEN "error" ELSE calls[n].result
      /\ \A i \in DOMAIN ingest' : /\ i + 1 \in DOMAIN ingest
                                   /\ ingest'[i] = ingest[i + 1]
      /\ 1 \in DOMAIN ingest /\ ingest[1] = Taken
  BY <1>1, <1>2, AnsweredCalls
<1>5. /\ Taken \in Call /\ calls[Taken].result = "none"
      /\ calls[Taken].phase # "sending"
  BY <1>1, <1>2, <1>4, TakenType DEF Answers
<1>6. \A e \in Event : events[e].call # Taken
  BY <1>1, <1>5 DEF Answers
<1>7. /\ \A i \in DOMAIN ingest : ingest[i] \in Call
      /\ DOMAIN ingest' \subseteq Nat \ {0}
  <2>1. ingest \in Seq(Call)
    BY <1>1 DEF TypeOK
  <2>2. \A i \in DOMAIN ingest : ingest[i] \in Call
    BY <2>1, ElementOfSeq, LenProperties
  <2>3. DOMAIN ingest' = 1..Len(ingest') /\ Len(ingest') \in Nat
    BY <1>4, LenProperties
  <2> QED BY <2>2, <2>3
<1>8. TypeOK'
  BY <1>1, <1>2, <1>3, <1>4 DEF TypeOK, Book
<1>9. Event' = Event /\ Book' = Book
  BY <1>2 DEF Event, Book
<1>10. \A i, j \in DOMAIN ingest' : ingest'[i] = ingest'[j] => i = j
  BY <1>1, <1>4, <1>7 DEF Answers
<1>11. \A i \in DOMAIN ingest' : ingest'[i] # Taken
  BY <1>1, <1>4, <1>7 DEF Answers
<1>12. \A i \in DOMAIN ingest' : /\ calls'[ingest'[i]].phase # "sending"
                                 /\ calls'[ingest'[i]].result = "none"
  BY <1>1, <1>4, <1>7, <1>11 DEF Answers
<1>13. \A n \in Call' :
         /\ calls'[n].result = "ok" <=> \E e \in Event' : events'[e].call = n
         /\ calls'[n].phase = "sending" => calls'[n].result = "none"
         /\ calls'[n].phase \in {"ok", "error"} =>
              calls'[n].phase = calls'[n].result
  BY <1>1, <1>2, <1>4, <1>5, <1>6, <1>9 DEF Answers
<1>14. Answers'
  BY <1>1, <1>2, <1>4, <1>9, <1>10, <1>12, <1>13 DEF Answers
<1> QED BY <1>2, <1>4, <1>8, <1>14, TablesKept DEF IInv

\* A new process finds the tables as they were, and an empty channel.
LEMMA RestartKeeps ==
  ASSUME IInv, Restart
  PROVE  IInv'
<1>1. TypeOK /\ Answers
  BY DEF IInv
<1>2. /\ loop' = "running" /\ ingest' = <<>>
      /\ calls' = [n \in Call |->
                     IF calls[n].phase \in {"sending", "waiting"}
                     THEN [calls[n] EXCEPT !.phase = "lost"] ELSE calls[n]]
      /\ UNCHANGED <<books, aliases, events, canon>>
  BY DEF Restart
<1>3. faults' \in 0..MaxFaults
  BY <1>1, PipelineAssumption DEF TypeOK, Restart
<1>4. calls \in Seq(CallRecord) /\ Call = 1..Len(calls) /\ Len(calls) \in Nat
  BY <1>1, LenProperties DEF TypeOK, Call
<1>5. \A n \in Call : calls[n] \in CallRecord
  BY <1>4, ElementOfSeq
<1>6. \A n \in Call :
        /\ calls'[n] \in CallRecord
        /\ calls'[n].event = calls[n].event
        /\ calls'[n].result = calls[n].result
        /\ calls'[n].phase = IF calls[n].phase \in {"sending", "waiting"}
                             THEN "lost" ELSE calls[n].phase
  <2> SUFFICES ASSUME NEW n \in Call
               PROVE  /\ calls'[n] \in CallRecord
                      /\ calls'[n].event = calls[n].event
                      /\ calls'[n].result = calls[n].result
                      /\ calls'[n].phase =
                           IF calls[n].phase \in {"sending", "waiting"}
                           THEN "lost" ELSE calls[n].phase
    OBVIOUS
  <2> DEFINE c == [calls[n] EXCEPT !.phase = "lost"]
  <2>1. /\ c \in CallRecord /\ c.event = calls[n].event
        /\ c.result = calls[n].result /\ c.phase = "lost"
    BY <1>5 DEF CallRecord, Phase
  <2>2. calls'[n] = IF calls[n].phase \in {"sending", "waiting"}
                    THEN c ELSE calls[n]
    BY <1>2
  <2> HIDE DEF c
  <2> QED BY <1>5, <2>1, <2>2
<1>7. DOMAIN calls' = 1..Len(calls) /\ calls' = [n \in 1..Len(calls) |-> calls'[n]]
  BY <1>2, <1>4
<1>8. calls' \in Seq(CallRecord)
  <2>1. calls' \in [1..Len(calls) -> CallRecord]
    BY <1>4, <1>6, <1>7
  <2> QED BY <1>4, <2>1, SeqDef
<1>9. Call' = Call
  BY <1>4, <1>7 DEF Call
<1>10. TypeOK'
  BY <1>1, <1>2, <1>3, <1>8, EmptySeq DEF TypeOK, Book
<1>11. Event' = Event /\ Book' = Book
  BY <1>2 DEF Event, Book
<1>12. DOMAIN ingest' = {}
  BY <1>2
<1>13. Answers'
  BY <1>1, <1>2, <1>6, <1>9, <1>11, <1>12 DEF Answers
<1> QED BY <1>2, <1>6, <1>9, <1>10, <1>13, TablesKept DEF IInv

\* Stopping the loop, and doing nothing, leaves calls and tables alone.
LEMMA StopKeeps ==
  ASSUME IInv, Cancel \/ Stop \/ UNCHANGED vars
  PROVE  IInv'
<1>1. TypeOK /\ Answers
  BY DEF IInv
<1>2. /\ UNCHANGED <<calls, ingest, books, aliases, events, canon>>
      /\ loop' \in {"running", "stopping", "stopped"} /\ faults' \in 0..MaxFaults
  BY <1>1, PipelineAssumption DEF TypeOK, Cancel, Stop, vars
<1>3. Event' = Event /\ Book' = Book /\ Call' = Call
  BY <1>2 DEF Event, Book, Call
<1>4. TypeOK'
  BY <1>1, <1>2, <1>3 DEF TypeOK
<1>5. Answers'
  BY <1>1, <1>2, <1>3 DEF Answers
<1> QED BY <1>2, <1>3, <1>4, <1>5, TablesKept DEF IInv

-----------------------------------------------------------------------------
(* The theorems.                                                           *)

\* A new database is empty, and nobody has called.
LEMMA InitIInv == Init => IInv
<1> SUFFICES ASSUME Init PROVE IInv
  OBVIOUS
<1>1. /\ calls = <<>> /\ ingest = <<>> /\ loop = "running" /\ books = <<>>
      /\ aliases = [k \in AliasField \X Value |-> 0]
      /\ events = <<>> /\ canon = [b \in {} |-> {}] /\ faults = 0
  BY DEF Init
<1>2. Call = {} /\ Event = {} /\ Book = {} /\ DOMAIN ingest = {}
  BY <1>1 DEF Call, Event, Book
<1>3. TypeOK
  BY <1>1, <1>2, EmptySeq, PipelineAssumption DEF TypeOK
<1>4. Answers
  BY <1>2 DEF Answers
<1>5. CanonCopies /\ Judged /\ OneBookPerIdentifier /\ KeysKnown
  BY <1>2 DEF CanonCopies, Judged, OneBookPerIdentifier, KeysKnown
<1> QED BY <1>3, <1>4, <1>5 DEF IInv

\* Every step preserves the invariant.
LEMMA NextIInv == IInv /\ [Next]_vars => IInv'
<1> SUFFICES ASSUME IInv, [Next]_vars PROVE IInv'
  OBVIOUS
<1>1. ASSUME NEW in \in Input, Submit(in) PROVE IInv'
  BY <1>1, SubmitKeeps
<1>2. ASSUME NEW n \in Call, Send(n) PROVE IInv'
  BY <1>2, SendKeeps
<1>3. ASSUME NEW n \in Call, Return(n) \/ TimeOut(n) PROVE IInv'
  BY <1>3, ReturnKeeps
<1>4. CASE Process
  BY <1>4, ProcessType, ProcessAnswers, ProcessCanon, ProcessJudged,
     ProcessBooks, ProcessKeys DEF IInv
<1>5. CASE Reject \/ RollBack
  BY <1>5, FailKeeps
<1>6. CASE Restart
  BY <1>6, RestartKeeps
<1>7. CASE Cancel \/ Stop \/ UNCHANGED vars
  BY <1>7, StopKeeps
<1> QED BY <1>1, <1>2, <1>3, <1>4, <1>5, <1>6, <1>7 DEF Next, Run

\* The strengthening on which the other theorems rest holds of every run of
\* the pipeline.
THEOREM Inductive == Spec => []IInv
<1>1. Init => IInv
  BY InitIInv
<1>2. IInv /\ [Next]_vars => IInv'
  BY NextIInv
<1> QED BY <1>1, <1>2, PTL DEF Spec

\* Rows, calls and the channel always have their types.
THEOREM TypeCorrect == Spec => []TypeOK
<1>1. IInv => TypeOK
  BY DEF IInv
<1> QED BY <1>1, Inductive, PTL

\* What Submit returns is the truth about the database.
THEOREM AnswersTrue == Spec => []AnsweredTruly
<1>1. IInv => AnsweredTruly
  BY DEF IInv, Answers, AnsweredTruly
<1> QED BY <1>1, Inductive, PTL

\* Each event was judged against the newest accepted event of its book.
THEOREM JudgedAgainstLatest == Spec => []Judged
<1>1. IInv => Judged
  BY DEF IInv
<1> QED BY <1>1, Inductive, PTL

\* The canonical progress of a book is its newest accepted event.
THEOREM CanonicalCorrect == Spec => []CanonicalIsLatest
<1>1. ASSUME IInv, NEW b \in Book
      PROVE  LET accepted == AcceptedBefore(b, Len(events) + 1) IN
             /\ accepted # {}
             /\ canon[b] = CanonRowOf(Latest(accepted), events[Latest(accepted)])
  <2> DEFINE S == AcceptedBefore(b, Len(events) + 1)
             a == canon[b].event
  <2>1. a \in S /\ (\A x \in S : x <= a) /\ canon[b] = CanonRowOf(a, events[a])
    BY <1>1 DEF IInv, CanonCopies
  <2>2. S \in SUBSET Nat
    BY <1>1, LenProperties DEF IInv, TypeOK, AcceptedBefore, Event
  <2> HIDE DEF S, a
  <2>3. Latest(S) = a
    BY <2>1, <2>2, LatestIs
  <2>4. S # {} /\ canon[b] = CanonRowOf(Latest(S), events[Latest(S)])
    BY <2>1, <2>3
  <2> QED BY <2>4 DEF S
<1>2. IInv => CanonicalIsLatest
  BY <1>1 DEF CanonicalIsLatest
<1> QED BY <1>2, Inductive, PTL

\* No identifier is carried by two books.
THEOREM IdentifiersUnique == Spec => []OneBookPerIdentifier
<1>1. IInv => OneBookPerIdentifier
  BY DEF IInv
<1> QED BY <1>1, Inductive, PTL

\* The events that carry nothing but one key are all of one book.
THEOREM KeysStay == Spec => []KeyStaysWithBook
<1>1. ASSUME IInv, NEW e \in Event, NEW f \in Event, NEW k \in AliasField,
             EvidenceOf(e) = EvidenceOf(f),
             \A g \in Field : Present(g, EvidenceOf(e)) <=> g = k
      PROVE  events[e].book = events[f].book
  <2>1. OnlyKey(k, EvidenceOf(e)) /\ OnlyKey(k, EvidenceOf(f))
    BY <1>1, Zenon DEF OnlyKey
  <2>2. /\ aliases[<<k, EvidenceOf(e)[k]>>] = events[e].book
        /\ aliases[<<k, EvidenceOf(f)[k]>>] = events[f].book
    BY <1>1, <2>1, Zenon DEF IInv, KeysKnown
  <2> QED BY <1>1, <2>2
<1>2. IInv => KeyStaysWithBook
  BY <1>1, Zenon DEF KeyStaysWithBook
<1> QED BY <1>2, Inductive, PTL

\* An accepted event is no backward jump from the canonical row.
LEMMA AcceptedStep ==
  ASSUME IInv, Process, NEW b \in Book, b = NewRow.book, ~Suspicious(In),
         canon[b].percent # Nil, canon'[b].percent # Nil,
         canon[b].percent - canon'[b].percent > 10
  PROVE  canon'[b].status \in {"abandoned", "not_started"}
<1>1. b = BookID(In.evidence) /\ In.percent = NewRow.percent
      /\ In.status = NewRow.status
  BY ProcessEffect, NewRowType
<1>2. canon'[b] = CanonRowOf(Len(events) + 1, NewRow)
  BY NewCanon
<1>3. canon'[b].percent = In.percent /\ canon'[b].status = In.status
  BY <1>1, <1>2 DEF CanonRowOf
<1>4. ~DetectSuspiciousJump(canon[b], ProgressEvent(In))
  BY <1>1, NewCanon, Zenon DEF Suspicious
<1>5. ~BackwardJump(canon[b], ProgressEvent(In))
  BY <1>4 DEF DetectSuspiciousJump
<1>6. /\ ProgressEvent(In).percent = In.percent
      /\ ProgressEvent(In).status = In.status
  BY DEF ProgressEvent
<1>7. DropsByMoreThanTen(canon[b].percent, In.percent)
  BY <1>3 DEF DropsByMoreThanTen
<1> QED BY <1>3, <1>5, <1>6, <1>7 DEF BackwardJump

\* Progress never falls by more than ten points in one step, unless the
\* reader abandons or restarts the book.
THEOREM NeverBackslides == Spec => NoBackslide
<1>1. ASSUME IInv, [Next]_vars, NEW b \in Book,
             canon[b].percent # Nil, canon'[b].percent # Nil,
             canon[b].percent - canon'[b].percent > 10
      PROVE  canon'[b].status \in {"abandoned", "not_started"}
  <2>1. canon[b].percent \in Int
    <3>1. canon[b] \in CanonRow
      BY <1>1 DEF IInv, TypeOK
    <3> QED BY <3>1 DEF CanonRow
  <2>2. CASE Process
    <3>1. CASE b = NewRow.book /\ ~Suspicious(In)
      BY <1>1, <2>2, <3>1, AcceptedStep
    <3>2. CASE b # NewRow.book \/ Suspicious(In)
      <4>1. canon'[b] = canon[b]
        BY <1>1, <2>2, <3>2, NewCanon
      <4> QED BY <1>1, <2>1, <4>1
    <3> QED BY <3>1, <3>2
  <2>3. CASE ~Process
    <3>1. canon' = canon
      BY <1>1, <2>3 DEF Next, Run, Submit, Send, Return, TimeOut, Reject,
         RollBack, Cancel, Stop, Restart, vars
    <3> QED BY <1>1, <2>1, <3>1
  <2> QED BY <2>2, <2>3
<1>2. IInv /\ [Next]_vars =>
        [\A b \in Book :
           canon[b].percent # Nil /\ canon'[b].percent # Nil
           /\ canon[b].percent - canon'[b].percent > 10
             => canon'[b].status \in {"abandoned", "not_started"}]_vars
  BY <1>1
<1>3. Spec => []IInv
  BY Inductive
<1> QED BY <1>2, <1>3, PTL DEF Spec, NoBackslide

-----------------------------------------------------------------------------
(* ChooseWinner, for events of any times.                                  *)

Timed(ev) == ev.deviceTS \in Int /\ ev.receivedAt \in Int

Tied(a, b) == /\ Precedence(a.source) = Precedence(b.source)
              /\ effectiveTime(a) = effectiveTime(b)

LEMMA RankAndTime ==
  ASSUME NEW a, Timed(a)
  PROVE  Precedence(a.source) \in Int /\ effectiveTime(a) \in Int
<1>1. Precedence(a.source) \in {1, 2, 3, 4, 5, 99}
  BY DEF Precedence
<1>2. effectiveTime(a) \in Int
  BY DEF Timed, effectiveTime
<1> QED
  BY <1>1, <1>2

\* The winner of a conflict does not depend on the order in which the events
\* are compared, unless two of them are tied in source rank and time; of two
\* that are tied the second one wins (engine.go, ChooseWinner).
THEOREM WinnerInAnyOrder ==
  ASSUME NEW a, NEW b, NEW c, Timed(a), Timed(b), Timed(c)
  PROVE  /\ Tied(a, b) => ChooseWinner(a, b) = b
         /\ ~Tied(a, b) => ChooseWinner(a, b) = ChooseWinner(b, a)
         /\ ~(Tied(a, b) \/ Tied(b, c) \/ Tied(a, c)) =>
              ChooseWinner(ChooseWinner(a, b), c) =
                ChooseWinner(a, ChooseWinner(b, c))
<1> DEFINE over(p, q) ==
      \/ Precedence(p.source) < Precedence(q.source)
      \/ /\ Precedence(p.source) = Precedence(q.source)
         /\ effectiveTime(p) > effectiveTime(q)
<1>1. \A p, q \in {a, b, c} : ChooseWinner(p, q) = IF over(p, q) THEN p ELSE q
  BY DEF ChooseWinner
<1>2. \A p \in {a, b, c} : /\ Precedence(p.source) \in Int
                           /\ effectiveTime(p) \in Int
  BY RankAndTime
<1>3. Tied(a, b) => ~over(a, b)
  BY <1>2 DEF Tied
<1>4. ~Tied(a, b) => (over(a, b) <=> ~over(b, a))
  BY <1>2 DEF Tied
<1>5. ~(Tied(a, b) \/ Tied(b, c) \/ Tied(a, c)) =>
        /\ over(a, b) /\ over(b, c) => over(a, c)
        /\ ~over(a, b) /\ ~over(b, c) => ~over(a, c)
  BY <1>2, SMTT(30) DEF Tied
<1> HIDE DEF over
<1>6. ASSUME ~(Tied(a, b) \/ Tied(b, c) \/ Tied(a, c))
      PROVE  ChooseWinner(ChooseWinner(a, b), c) =
               ChooseWinner(a, ChooseWinner(b, c))
  <2>1. CASE over(a, b) /\ over(b, c)
    BY <1>1, <1>5, <1>6, <2>1
  <2>2. CASE over(a, b) /\ ~over(b, c)
    BY <1>1, <2>2
  <2>3. CASE ~over(a, b) /\ over(b, c)
    BY <1>1, <2>3
  <2>4. CASE ~over(a, b) /\ ~over(b, c)
    BY <1>1, <1>5, <1>6, <2>4
  <2> QED
    BY <2>1, <2>2, <2>3, <2>4
<1> QED
  BY <1>1, <1>3, <1>4, <1>6
=============================================================================
