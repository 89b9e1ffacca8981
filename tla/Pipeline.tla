------------------------------ MODULE Pipeline ------------------------------
(***************************************************************************)
(* internal/core: adapters submit progress events over a bounded channel   *)
(* and wait; one goroutine takes them off and runs each through a single   *)
(* SQLite transaction that resolves the book, records the event, raises a  *)
(* conflict or moves the canonical progress, and enqueues write-backs.     *)
(*                                                                         *)
(* A call of Submit is a number, in the order of the calls.  The database  *)
(* has one connection and the transaction holds its write lock from the    *)
(* start, so process is one step; it either commits or leaves no trace.    *)
(***************************************************************************)
EXTENDS Resolver, Conflicts

CONSTANTS Input,         \* the adapter events of the instance
          MaxCalls,      \* bound: calls of Submit
          QueueCap,      \* capacity of the ingest channel: 256
          MaxFaults      \* bound: failing transactions, stops and crashes

\* What an adapter submits: AdapterEvent, without the locator text, which is
\* only copied.  dated: the device sent a time.  "" is an unset string.
AdapterEvent ==
  [evidence : Evidence, source : Source, dated : BOOLEAN,
   percent : Int, pages : Nat \cup {Nil},
   locator : LocationType \cup {""}, status : ReadStatus \cup {""}]

ASSUME PipelineAssumption ==
  /\ Input \subseteq AdapterEvent
  /\ MaxCalls \in Nat
  /\ QueueCap \in Nat \ {0}
  /\ MaxFaults \in Nat

VARIABLES
  calls,      \* per call of Submit: its event, where it is, its result
  ingest,     \* the channel: calls waiting to be taken
  loop,       \* Run: "running", "stopping" (its context is done), "stopped"
  books,      \* rows of books, by id: the evidence columns
  aliases,    \* rows of book_aliases: the book of a key, or 0
  events,     \* rows of progress_events, by id, see EventRow
  canon,      \* rows of canonical_progress, by book id
  faults      \* faults so far (bound)

vars == <<calls, ingest, loop, books, aliases, events, canon, faults>>

\* sending: in the first select of Submit; waiting: in the second; then what
\* it returned.  A call whose process died is lost.
Phase == {"sending", "waiting", "ok", "error", "timeout", "lost"}

\* result: what Run left in the call's one-place channel.
CallRecord == [event : Input, phase : Phase, result : {"none", "ok", "error"}]

\* call is a history of where the event came from.  conflict: event_a_id of
\* the conflict the event raised, or 0.  writeback: the rows of sync_outbox
\* the transaction inserted for it.
EventRow ==
  [call : Nat, book : Nat, source : Source, percent : Int,
   pages : Nat \cup {Nil}, locator : LocationType, status : ReadStatus,
   confidence : 0..100, conflict : Nat,
   writeback : {"none", "queued", "blocked_by_conflict"}]

CanonRow ==
  [event : Nat, source : Source, percent : Int, pages : Nat \cup {Nil},
   locator : LocationType, status : ReadStatus]

Call == DOMAIN calls
Book == DOMAIN books
Event == DOMAIN events

-----------------------------------------------------------------------------
(* Submit.                                                                 *)

Submit(in) ==
  /\ Len(calls) < MaxCalls
  /\ calls' = Append(calls, [event |-> in, phase |-> "sending",
                             result |-> "none"])
  /\ UNCHANGED <<ingest, loop, books, aliases, events, canon, faults>>

Send(n) ==
  /\ calls[n].phase = "sending"
  /\ Len(ingest) < QueueCap
  /\ ingest' = Append(ingest, n)
  /\ calls' = [calls EXCEPT ![n].phase = "waiting"]
  /\ UNCHANGED <<loop, books, aliases, events, canon, faults>>

Return(n) ==
  /\ calls[n].phase = "waiting"
  /\ calls[n].result # "none"
  /\ calls' = [calls EXCEPT ![n].phase = calls[n].result]
  /\ UNCHANGED <<ingest, loop, books, aliases, events, canon, faults>>

\* KOReader and Moon give Submit ten seconds; the others wait until the
\* service's context ends, and Run's with it.
HasDeadline(n) == calls[n].event.source \in {"koreader", "moon"}

\* ctx.Done in either select, even if the result is already there.
TimeOut(n) ==
  /\ calls[n].phase \in {"sending", "waiting"}
  /\ HasDeadline(n) \/ loop # "running"
  /\ calls' = [calls EXCEPT ![n].phase = "timeout"]
  /\ UNCHANGED <<ingest, loop, books, aliases, events, canon, faults>>

-----------------------------------------------------------------------------
(* validateEvent, normalizeEvent.                                          *)

Valid(in) == in.percent = Nil \/ in.percent \in 0..101

NormalizedButLocator(in) ==            \* Mutant of Normalized
  [in EXCEPT !.percent = IF @ > 100 THEN 100 ELSE @,
             !.status = IF @ = "" THEN "unknown" ELSE @]

Normalized(in) ==
  [in EXCEPT !.percent = IF @ > 100 THEN 100 ELSE @,
             !.locator = IF @ = "" THEN "raw" ELSE @,
             !.status = IF @ = "" THEN "unknown" ELSE @]

-----------------------------------------------------------------------------
(* resolveBook.                                                            *)

\* findBookByEvidence tries these in order; titles are not looked up.
LookupOrder == <<"calibre_id", "file_hash", "epub_id", "goodreads_id",
                 "isbn13", "isbn10", "asin",
                 "koreader_doc_hash", "moon_key">>

\* The books that carry the evidence's value of field f.
Matching(f, ev) ==
  IF ~Present(f, ev) THEN {}
  ELSE IF f \in AliasField THEN {aliases[<<f, ev[f]>>]} \ {0}
  ELSE {b \in Book : books[b][f] = ev[f]}

FindWithoutAliases(ev) ==              \* Mutant of FindBook
  LET hits == {i \in 1..7 : Matching(LookupOrder[i], ev) # {}} IN
  IF hits = {} THEN 0 ELSE Lowest(Matching(LookupOrder[Lowest(hits)], ev))

FindWithoutISBN(ev) ==                 \* Mutant of FindBook: no isbn13
  LET hits == {i \in {1, 2, 3, 4, 7, 8, 9} :
                 Matching(LookupOrder[i], ev) # {}} IN
  IF hits = {} THEN 0 ELSE Lowest(Matching(LookupOrder[Lowest(hits)], ev))

FindBook(ev) ==
  LET hits == {i \in DOMAIN LookupOrder : Matching(LookupOrder[i], ev) # {}} IN
  IF hits = {} THEN 0 ELSE Lowest(Matching(LookupOrder[Lowest(hits)], ev))

\* The keys of book_aliases are not columns of books and come back empty.
LoadBookEvidence(b) ==
  [f \in Field |-> IF f \in Column THEN books[b][f] ELSE Absent]

\* INSERT OR IGNORE: a key that is taken keeps its book.
InsertBookAliases(b, ev) ==
  [k \in AliasField \X Value |->
     IF ev[k[1]] = k[2] /\ aliases[k] = 0 THEN b ELSE aliases[k]]

-----------------------------------------------------------------------------
(* process.                                                                *)

CanonRowOf(e, ev) ==
  [event |-> e, source |-> ev.source, percent |-> ev.percent,
   pages |-> ev.pages, locator |-> ev.locator, status |-> ev.status]

AutoResolvedPlausible(ev, confidence) ==  \* Mutant of AutoResolved
  CanAutoResolve(ev.dated, confidence >= 80, TRUE,
                 WritebackEnabled(confidence), TRUE)

\* PlausibleMovement is the constant false in the code.
AutoResolved(ev, confidence) ==
  CanAutoResolve(ev.dated, confidence >= 80, FALSE,
                 WritebackEnabled(confidence), TRUE)

AnswerSuccessOnly(n, result) ==        \* Mutant of Answer
  /\ ingest' = Tail(ingest)
  /\ calls' = IF result = "ok" THEN [calls EXCEPT ![n].result = result]
              ELSE calls

\* Run takes the call off the channel and leaves the result for it.
Answer(n, result) ==
  /\ ingest' = Tail(ingest)
  /\ calls' = [calls EXCEPT ![n].result = result]

UpsertCanonicalKeepingEvent(b, row) == \* Mutant of UpsertCanonical
  canon' = [x \in DOMAIN canon \cup {b} |->
              IF x # b THEN canon[x]
              ELSE IF b \in DOMAIN canon
                   THEN [row EXCEPT !.event = canon[b].event]
              ELSE row]

UpsertCanonical(b, row) ==
  canon' = [x \in DOMAIN canon \cup {b} |-> IF x = b THEN row ELSE canon[x]]

\* The two results of resolveBook.
BookID(ev) == IF FindBook(ev) = 0 THEN Len(books) + 1 ELSE FindBook(ev)

Confidence(ev) ==
  IF FindBook(ev) = 0 THEN EvidenceQuality(ev)
  ELSE Score(ev, LoadBookEvidence(FindBook(ev)))

ProgressEvent(ev) ==
  [source |-> ev.source, percent |-> ev.percent, pages |-> ev.pages,
   locator |-> ev.locator, status |-> ev.status,
   confidence |-> Confidence(ev.evidence)]

Suspicious(ev) ==
  LET b == BookID(ev.evidence) IN
  b \in DOMAIN canon /\ DetectSuspiciousJump(canon[b], ProgressEvent(ev))

\* What insertEvent, insertConflict and the two enqueues insert for call n.
EventRowOf(n, ev) ==
  [call |-> n, book |-> BookID(ev.evidence), source |-> ev.source,
   percent |-> ev.percent, pages |-> ev.pages, locator |-> ev.locator,
   status |-> ev.status, confidence |-> Confidence(ev.evidence),
   conflict |-> IF Suspicious(ev) THEN canon[BookID(ev.evidence)].event ELSE 0,
   writeback |-> IF Suspicious(ev) THEN "blocked_by_conflict"
                 ELSE IF WritebackEnabled(Confidence(ev.evidence)) THEN "queued"
                 ELSE "none"]

CreateBook(ev) ==
  IF FindBook(ev) = 0
  THEN /\ books' = Append(books, [f \in Column |-> ev[f]])
       /\ aliases' = InsertBookAliases(BookID(ev), ev)
  ELSE UNCHANGED <<books, aliases>>

\* The committing run of process for the call at the head of the channel.
Process ==
  LET n == Head(ingest)
      ev == Normalized(calls[n].event) IN
  /\ loop = "running" /\ ingest # <<>>
  /\ Valid(calls[n].event)
  /\ CreateBook(ev.evidence)
  /\ events' = Append(events, EventRowOf(n, ev))
  /\ IF Suspicious(ev) /\ ~AutoResolved(ev, Confidence(ev.evidence))
     THEN UNCHANGED canon
     ELSE UpsertCanonical(BookID(ev.evidence), CanonRowOf(Len(events) + 1, ev))
  /\ Answer(n, "ok")
  /\ UNCHANGED <<loop, faults>>

\* validateEvent refuses the event.
Reject ==
  /\ loop # "stopped" /\ ingest # <<>>
  /\ ~Valid(calls[Head(ingest)].event)
  /\ Answer(Head(ingest), "error")
  /\ UNCHANGED <<loop, books, aliases, events, canon, faults>>

RollBackUnreported ==                  \* Mutant of RollBack
  /\ loop # "stopped" /\ ingest # <<>>
  /\ Valid(calls[Head(ingest)].event)
  /\ loop = "running" => faults < MaxFaults
  /\ faults' = IF loop = "running" THEN faults + 1 ELSE faults
  /\ Answer(Head(ingest), "ok")
  /\ UNCHANGED <<loop, books, aliases, events, canon>>

\* A statement fails, or the commit: the deferred Rollback undoes the rest.
\* Once the context is done BeginTx always fails.
RollBack ==
  /\ loop # "stopped" /\ ingest # <<>>
  /\ Valid(calls[Head(ingest)].event)
  /\ loop = "running" => faults < MaxFaults
  /\ faults' = IF loop = "running" THEN faults + 1 ELSE faults
  /\ Answer(Head(ingest), "error")
  /\ UNCHANGED <<loop, books, aliases, events, canon>>

\* The service is told to stop.
Cancel ==
  /\ loop = "running" /\ faults < MaxFaults
  /\ loop' = "stopping"
  /\ faults' = faults + 1
  /\ UNCHANGED <<calls, ingest, books, aliases, events, canon>>

\* Run returns and leaves what is in the channel.
Stop ==
  /\ loop = "stopping"
  /\ loop' = "stopped"
  /\ UNCHANGED <<calls, ingest, books, aliases, events, canon, faults>>

\* The process ends, stopped or killed, and a new one starts.
Restart ==
  /\ loop = "running" => faults < MaxFaults
  /\ faults' = IF loop = "running" THEN faults + 1 ELSE faults
  /\ loop' = "running"
  /\ ingest' = <<>>
  /\ calls' = [n \in Call |->
       IF calls[n].phase \in {"sending", "waiting"}
       THEN [calls[n] EXCEPT !.phase = "lost"] ELSE calls[n]]
  /\ UNCHANGED <<books, aliases, events, canon>>

-----------------------------------------------------------------------------
Init ==
  /\ calls = <<>>
  /\ ingest = <<>>
  /\ loop = "running"
  /\ books = <<>>
  /\ aliases = [k \in AliasField \X Value |-> 0]
  /\ events = <<>>
  /\ canon = [b \in {} |-> {}]
  /\ faults = 0

Run == Process \/ Reject \/ RollBack

Next ==
  \/ \E in \in Input : Submit(in)
  \/ \E n \in Call : Send(n) \/ Return(n) \/ TimeOut(n)
  \/ Run
  \/ Cancel
  \/ Stop
  \/ Restart

Spec == Init /\ [][Next]_vars

\* The goroutines of Run and of the callers go on, timers fire, and a service
\* told to stop stops; nobody has to submit, and nothing has to fail.
Fairness ==
  /\ WF_vars(Run)
  /\ WF_vars(Stop)
  /\ \A n \in 1..MaxCalls :
       WF_vars(n \in Call /\ (Send(n) \/ Return(n)))
       /\ WF_vars(n \in Call /\ TimeOut(n))

FairSpec == Spec /\ Fairness

-----------------------------------------------------------------------------
(* Properties.                                                             *)

\* Rows, calls and the channel have the shape of their tables and structs.
TypeOK ==
  /\ calls \in Seq(CallRecord)
  /\ ingest \in Seq(Call)
  /\ loop \in {"running", "stopping", "stopped"}
  /\ books \in Seq([Column -> Value \cup {Absent}])
  /\ aliases \in [AliasField \X Value -> 0..Len(books)]
  /\ events \in Seq(EventRow)
  /\ DOMAIN canon = Book /\ \A b \in Book : canon[b] \in CanonRow
  /\ faults \in 0..MaxFaults

\* What Submit returns is the truth about the database, whatever times out,
\* fails, stops or restarts in between: nil means the event is stored once,
\* an error from the pipeline that it is not; after a timeout either may be.
AnsweredTruly ==
  /\ \A e, f \in Event : events[e].call = events[f].call => e = f
  /\ \A n \in Call :
       /\ calls[n].phase = "ok" => \E e \in Event : events[e].call = n
       /\ calls[n].phase = "error" => \A e \in Event : events[e].call # n

\* The accepted events of a book, of those before e.
AcceptedBefore(b, e) ==
  {a \in Event : a < e /\ events[a].book = b /\ events[a].conflict = 0}

Latest(S) == CHOOSE a \in S : \A x \in S : x <= a

\* Each event was judged against the newest accepted event of its book, and
\* against nothing else: it is in conflict with exactly that event if it is
\* suspicious next to it, and with none otherwise.
Judged ==
  \A e \in Event :
    LET earlier == AcceptedBefore(events[e].book, e)
        last == Latest(earlier) IN
    events[e].conflict =
      IF earlier # {} /\ DetectSuspiciousJump(events[last], events[e])
      THEN last ELSE 0

\* The canonical progress of a book is its newest accepted event, in every
\* column: no suspicious event and no half of another event is in it.
CanonicalIsLatest ==
  \A b \in Book :
    LET accepted == AcceptedBefore(b, Len(events) + 1) IN
    /\ accepted # {}
    /\ canon[b] = CanonRowOf(Latest(accepted), events[Latest(accepted)])

\* A lookup never has to choose: an identifier belongs to one book.  Nothing
\* but the order of lookups, and one writer, keeps isbn10 and epub_id so.
OneBookPerIdentifier ==
  \A f \in Column \ {"title", "author_sort"} : \A b, c \in Book :
    books[b][f] = books[c][f] /\ books[b][f] # Absent => b = c

EvidenceOf(e) == calls[events[e].call].event.evidence

\* A KOReader document or a Moon+ key stays with the book it first named, as
\* its events carry nothing else; a reader's progress is never split.
KeyStaysWithBook ==
  \A e, f \in Event : \A k \in AliasField :
    /\ EvidenceOf(e) = EvidenceOf(f)
    /\ \A g \in Field : Present(g, EvidenceOf(e)) <=> g = k
    => events[e].book = events[f].book

\* Progress never falls by more than ten points in one step unless the reader
\* abandons or restarts the book.  (In two steps it can: an event without a
\* percentage clears the one to compare with.)
NoBackslide ==
  [][\A b \in Book :
       canon[b].percent # Nil /\ canon'[b].percent # Nil
       /\ canon[b].percent - canon'[b].percent > 10
         => canon'[b].status \in {"abandoned", "not_started"}]_vars

\* Every call of Submit comes to an end, however full the channel and however
\* dead the loop.
EveryCallReturns ==
  \A n \in 1..MaxCalls :
    (n \in Call /\ calls[n].phase \in {"sending", "waiting"})
      ~> (n \in Call /\ calls[n].phase \notin {"sending", "waiting"})

\* resolver.go:13, "koreader_doc_hash -> 70", and moon_key -> 65: an event
\* with a key that found its book by that key scores at least that much.
KeyScoresAsLadder ==
  \A e \in Event : \A i \in {8, 9} :
    Present(Ladder[i], EvidenceOf(e)) => events[e].confidence >= Points[i]

-----------------------------------------------------------------------------
(* What makes the safety properties inductive.                             *)

\* An event is stored for exactly the calls answered with nil, once; what
\* waits in the channel waits there once and is unanswered, although the
\* caller may have given up.
Answers ==
  /\ \A i, j \in DOMAIN ingest : ingest[i] = ingest[j] => i = j
  /\ \A i \in DOMAIN ingest : /\ calls[ingest[i]].phase # "sending"
                              /\ calls[ingest[i]].result = "none"
  /\ \A n \in Call :
       /\ calls[n].result = "ok" <=> \E e \in Event : events[e].call = n
       /\ calls[n].phase = "sending" => calls[n].result = "none"
       /\ calls[n].phase \in {"ok", "error"} => calls[n].phase = calls[n].result
  /\ \A e \in Event : events[e].call \in Call /\ events[e].book \in Book
  /\ \A e, f \in Event : events[e].call = events[f].call => e = f

\* The event of a canonical row is the newest accepted one of its book, and
\* the row is a copy of it.
CanonCopies ==
  \A b \in Book :
    LET a == canon[b].event IN
    /\ a \in AcceptedBefore(b, Len(events) + 1)
    /\ \A x \in AcceptedBefore(b, Len(events) + 1) : x <= a
    /\ canon[b] = CanonRowOf(a, events[a])

OnlyKey(k, ev) == \A f \in Field : Present(f, ev) <=> f = k

\* A key that came alone is known, as a key of the book of its event.
KeysKnown ==
  \A e \in Event : \A k \in AliasField :
    OnlyKey(k, EvidenceOf(e)) =>
      aliases[<<k, EvidenceOf(e)[k]>>] = events[e].book

\* The inductive invariant of the proofs.
IInv ==
  /\ TypeOK
  /\ Answers
  /\ CanonCopies
  /\ Judged
  /\ OneBookPerIdentifier
  /\ KeysKnown
=============================================================================
