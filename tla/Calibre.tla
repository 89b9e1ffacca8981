------------------------------ MODULE Calibre ------------------------------
(***************************************************************************)
(* internal/adapters/calibre: progress is written to and read from custom  *)
(* columns of a Calibre library, one calibredb process per field.  Three   *)
(* goroutines run: the outbox worker that calls WriteProgress, the drainer *)
(* of the queue that fills up while the Calibre GUI is open, and the       *)
(* poller that reads the whole library back when metadata.db has changed.  *)
(* The user, Calibre and its plugins edit the library at any time.         *)
(*                                                                         *)
(* calibredb is external: it sets one field, unless the column is missing, *)
(* the GUI runs or something goes wrong.  A value in the library is the    *)
(* number of the job that wrote it, Edited for the user's own, or 0.       *)
(***************************************************************************)
EXTENDS Naturals, Sequences, FiniteSets

CONSTANTS Book,
          Payloads,    \* the write-backs in the order of their outbox rows
          Fields,      \* bound: the required columns the instance keeps
          MaxFaults,   \* bound: failing commands, restarts
          MaxEdits     \* bound: edits of the user and his opening the GUI

Nil == 1001
Edited == Len(Payloads) + 1
Job == 1..Len(Payloads)

Locators == {"", "percent", "page", "raw", "koreader_xpointer",
             "moon_position", "epub_cfi"}
Statuses == {"", "not_started", "reading", "finished", "abandoned", "unknown"}

\* identified: the payload has a calibre_id.  Percentages are in tenths.
WritePayload ==
  [book : Book, identified : BOOLEAN, tenths : 0..1000, locator : Locators,
   status : Statuses, positioned : BOOLEAN]

\* applyWrite's order.
WriteOrder == <<"progress", "mode", "status", "position", "source", "synced">>

ASSUME CalibreAssumption ==
  /\ Payloads \in Seq(WritePayload)
  /\ Fields \subseteq {WriteOrder[i] : i \in DOMAIN WriteOrder}
  /\ "progress" \in Fields
  /\ MaxFaults \in Nat /\ MaxEdits \in Nat

VARIABLES
  health,    \* "disabled" until Start
  ready,     \* calibredb and a library are known
  gui,       \* a process of calibreGUIProcessNames runs
  columns,   \* the required columns that exist
  library,   \* library[b][f]
  fresh,     \* metadata.db is newer than lastMtime
  recent,    \* books whose debounce mark is younger than WriteDelay
  queue,     \* writeQueue
  writer,    \* WriteProgress: where it is
  drainer,   \* drainWriteQueue: its queue, and the field it is at
  poll,      \* doPoll: where it is and what it has read
  answers,   \* history: the last answer of WriteProgress, per job
  written,   \* history: jobs with a completed applyWrite
  torn,      \* history: books with a failed or an overlapped applyWrite
  seen,      \* history: what was last submitted of a book
  faults, edits   \* so far (bounds)

files == <<columns, library, fresh>>
histories == <<answers, written, torn, seen>>
bounds == <<faults, edits>>
vars == <<health, ready, gui, files, recent, queue, writer, drainer, poll,
          histories, bounds>>

\* The required columns that are not there, as places in WriteOrder: they are
\* created in this order too, before two columns that nothing writes.
MissingColumns == {i \in DOMAIN WriteOrder : WriteOrder[i] \in Fields \ columns}

BookOf(j) == Payloads[j].book

\* What is written of a job, as places in WriteOrder; last_position only when
\* there is one.
FieldsOf(j) ==
  {i \in DOMAIN WriteOrder :
     /\ WriteOrder[i] \in Fields
     /\ WriteOrder[i] = "position" => Payloads[j].positioned}

LastField(j, at) == \A i \in FieldsOf(j) : i <= at

NextField(j, at, next) ==
  /\ next \in FieldsOf(j) /\ next > at
  /\ \A i \in FieldsOf(j) : i > at => next <= i

\* pc "gui": marked, and about to ask for the GUI; at: the next field, and the
\* first one is always progress.
Idle == [pc |-> "idle", job |-> 0, at |-> 1]
Resting == [hand |-> <<>>, at |-> 0]
Unread == [f \in {} |-> 0]
NoPoll == [pc |-> "idle", todo |-> {}, got |-> [b \in Book |-> Unread]]

Fault == faults < MaxFaults /\ faults' = faults + 1

-----------------------------------------------------------------------------
(* What is written, and what is read back.                                 *)

\* The progress column holds whole per cents, rounded half up.
Progress(x) ==
  CASE x = 0 -> Nil
    [] x = Edited -> 60
    [] OTHER -> (Payloads[x].tenths + 5) \div 10

Mode(x) ==
  IF x = 0 THEN "" ELSE IF Payloads[x].locator = "" THEN "percent"
  ELSE Payloads[x].locator

Status(x) == IF x = 0 THEN "" ELSE Payloads[x].status

\* What the columns progress, mode, status and last_position amount to.
PercentOf(progress, mode) ==
  IF progress = Nil \/ mode = "page" THEN Nil
  ELSE IF mode = "percent" \/ progress > 0 THEN progress ELSE Nil

PageOf(progress, mode) == IF mode = "page" THEN progress ELSE Nil

StatusOrUnknown(status) == IF status = "" THEN "unknown" ELSE status

\* read.go.
ParseOPFEvent(progress, mode, status, position) ==
  [percent |-> PercentOf(progress, mode), page |-> PageOf(progress, mode),
   status |-> StatusOrUnknown(status), locator |-> mode,
   position |-> position]

BuildEventNoZero(progress, mode, status, position) ==  \* Mutant of BuildEvent
  [percent |-> IF progress = 0 THEN Nil ELSE PercentOf(progress, mode),
   page |-> PageOf(progress, mode), status |-> StatusOrUnknown(status),
   locator |-> IF mode = "" THEN "percent" ELSE mode, position |-> position]

\* The same in the package opf, which the poller does not use.
BuildEvent(progress, mode, status, position) ==
  [percent |-> PercentOf(progress, mode), page |-> PageOf(progress, mode),
   status |-> StatusOrUnknown(status),
   locator |-> IF mode = "" THEN "percent" ELSE mode, position |-> position]

HasProgress(event) ==
  \/ event.percent # Nil \/ event.page # Nil
  \/ event.status \notin {"unknown", "not_started"}

\* A column outside Fields is empty.
Cell(row, f) == IF f \in Fields THEN row[f] ELSE 0

ReadBook(row) ==
  ParseOPFEvent(Progress(Cell(row, "progress")), Mode(Cell(row, "mode")),
                Status(Cell(row, "status")), Cell(row, "position"))

-----------------------------------------------------------------------------
(* Start, the world, columns.                                              *)

\* findCalibredb and discoverLibraries.
Start ==
  /\ health = "disabled"
  /\ \/ ready' = TRUE /\ health' = "ok"
     \/ ready' = FALSE /\ health' = "needs_user_action"
  /\ UNCHANGED <<gui, files, recent, queue, writer, drainer, poll, histories,
                 bounds>>

OpenGUI ==
  /\ ~gui /\ edits < MaxEdits
  /\ gui' = TRUE /\ edits' = edits + 1
  /\ UNCHANGED <<health, ready, files, recent, queue, writer, drainer, poll,
                 histories, faults>>

CloseGUI ==
  /\ gui' = FALSE /\ gui
  /\ UNCHANGED <<health, ready, files, recent, queue, writer, drainer, poll,
                 histories, bounds>>

\* The user, or the Goodreads Sync plugin.
Edit(b) ==
  /\ edits < MaxEdits /\ edits' = edits + 1
  /\ "progress" \in columns
  /\ library' = [library EXCEPT ![b]["progress"] = Edited]
  /\ fresh' = TRUE
  /\ UNCHANGED <<health, ready, gui, columns, recent, queue, writer, drainer,
                 poll, histories, faults>>

\* CreateCustomColumns of package repair, like EnsureColumns, adds the first
\* missing one and goes on until one fails.
CreateColumn ==
  /\ ~gui
  /\ \E first \in MissingColumns :
       /\ \A i \in MissingColumns : first <= i
       /\ columns' = columns \cup {WriteOrder[first]}
  /\ fresh' = TRUE
  /\ UNCHANGED <<health, ready, gui, library, recent, queue, writer, drainer,
                 poll, histories, bounds>>

ColumnExists(f) == f \in columns

\* WriteDelay, ten seconds.
DelayPasses(b) ==
  /\ b \in recent
  /\ recent' = recent \ {b}
  /\ UNCHANGED <<health, ready, gui, files, queue, writer, drainer, poll,
                 histories, bounds>>

-----------------------------------------------------------------------------
(* WriteProgress.                                                          *)

Answer(j, what) == answers' = [answers EXCEPT ![j] = what]

\* The outbox asks in the order of its rows, one at a time, and again after an
\* error, when younger rows may have gone before.
Asked(j) ==
  /\ writer.pc = "idle" /\ answers[j] \in {"none", "error"}
  /\ \A k \in Job : k < j => answers[k] # "none"

NotReady(j) ==
  /\ Asked(j) /\ ~ready
  /\ Answer(j, "error")
  /\ UNCHANGED <<health, ready, gui, files, recent, queue, writer, drainer,
                 poll, written, torn, seen, bounds>>

Debounced(b) == b \in recent

\* Within WriteDelay of the last one: nil, and nothing else.
Debounce(j) ==
  /\ Asked(j) /\ ready /\ Debounced(BookOf(j))
  /\ Answer(j, "dropped")
  /\ UNCHANGED <<health, ready, gui, files, recent, queue, writer, drainer,
                 poll, written, torn, seen, bounds>>

Mark(j) ==
  /\ Asked(j) /\ ready /\ ~Debounced(BookOf(j))
  /\ recent' = recent \cup {BookOf(j)}
  /\ writer' = [pc |-> "gui", job |-> j, at |-> 1]
  /\ Answer(j, "busy")
  /\ UNCHANGED <<health, ready, gui, files, queue, drainer, poll, written,
                 torn, seen, bounds>>

\* tasklist says that a GUI runs.
QueueWrite ==
  /\ writer.pc = "gui" /\ gui
  /\ queue' = Append(queue, writer.job)
  /\ writer' = Idle
  /\ Answer(writer.job, "queued")
  /\ UNCHANGED <<health, ready, gui, files, recent, drainer, poll, written,
                 torn, seen, bounds>>

\* No GUI, or tasklist cannot be run.
BeginWrite ==
  /\ writer.pc = "gui"
  /\ IF gui THEN Fault ELSE UNCHANGED faults
  /\ IF Payloads[writer.job].identified
     THEN writer' = [writer EXCEPT !.pc = "write"] /\ UNCHANGED answers
     ELSE writer' = Idle /\ Answer(writer.job, "error")
  /\ UNCHANGED <<health, ready, gui, files, recent, queue, drainer, poll,
                 written, torn, seen, edits>>

Writing == IF writer.pc = "write" THEN {writer.job} ELSE {}
Draining == IF drainer.at > 0 THEN {Head(drainer.hand)} ELSE {}

\* setCustomField: a process of its own, and a transaction of its own.  torn:
\* the other goroutine is writing the same book.
SetField(j, at, other) ==
  /\ ~gui /\ ColumnExists(WriteOrder[at])
  /\ library' = [library EXCEPT ![BookOf(j)][WriteOrder[at]] = j]
  /\ fresh' = TRUE
  /\ torn' = torn \cup {BookOf(k) : k \in {o \in other : BookOf(o) = BookOf(j)}}
  /\ UNCHANGED <<columns, faults>>

FieldRefused(j, at) ==
  /\ (~gui /\ ColumnExists(WriteOrder[at])) => faults < MaxFaults
  /\ faults' = IF ~gui /\ ColumnExists(WriteOrder[at]) THEN faults + 1
               ELSE faults
  /\ torn' = IF at > 1 THEN torn \cup {BookOf(j)} ELSE torn
  /\ UNCHANGED files

WriteField ==
  /\ writer.pc = "write"
  /\ SetField(writer.job, writer.at, Draining)
  /\ IF LastField(writer.job, writer.at)
     THEN /\ writer' = Idle
          /\ Answer(writer.job, "written")
          /\ written' = written \cup {writer.job}
     ELSE /\ \E next \in FieldsOf(writer.job) :
               /\ NextField(writer.job, writer.at, next)
               /\ writer' = [writer EXCEPT !.at = next]
          /\ UNCHANGED <<answers, written>>
  /\ UNCHANGED <<health, ready, gui, recent, queue, drainer, poll, seen, edits>>

\* Mutant of WriteFails: the error of set_custom is ignored.
WriteFailsQuietly ==
  /\ writer.pc = "write" /\ faults < MaxFaults /\ faults' = faults + 1
  /\ IF LastField(writer.job, writer.at)
     THEN /\ writer' = Idle
          /\ Answer(writer.job, "written")
          /\ written' = written \cup {writer.job}
     ELSE /\ \E next \in FieldsOf(writer.job) :
               /\ NextField(writer.job, writer.at, next)
               /\ writer' = [writer EXCEPT !.at = next]
          /\ UNCHANGED <<answers, written>>
  /\ UNCHANGED <<health, ready, gui, files, recent, queue, drainer, poll, torn,
                 seen, edits>>

\* The first field that fails ends applyWrite; what is set stays set, and so
\* does the debounce mark.
WriteFails ==
  /\ writer.pc = "write"
  /\ FieldRefused(writer.job, writer.at)
  /\ writer' = Idle
  /\ Answer(writer.job, "error")
  /\ UNCHANGED <<health, ready, gui, recent, queue, drainer, poll, written,
                 seen, edits>>

-----------------------------------------------------------------------------
(* writeQueueLoop and drainWriteQueue.                                     *)

TakeQueue ==
  /\ drainer.hand = <<>> /\ queue # <<>>
  /\ IF gui THEN Fault ELSE UNCHANGED faults
  /\ drainer' = [hand |-> queue, at |-> 0]
  /\ queue' = <<>>
  /\ UNCHANGED <<health, ready, gui, files, recent, writer, poll, histories,
                 edits>>

BeginDrain ==
  /\ drainer.hand # <<>> /\ drainer.at = 0
  /\ Payloads[Head(drainer.hand)].identified
  /\ drainer' = [drainer EXCEPT !.at = 1]
  /\ UNCHANGED <<health, ready, gui, files, recent, queue, writer, poll,
                 histories, bounds>>

DrainField ==
  LET j == Head(drainer.hand) IN
  /\ drainer.at > 0
  /\ SetField(j, drainer.at, Writing)
  /\ IF LastField(j, drainer.at)
     THEN /\ drainer' = [hand |-> Tail(drainer.hand), at |-> 0]
          /\ written' = written \cup {j}
     ELSE /\ \E next \in FieldsOf(j) :
               /\ NextField(j, drainer.at, next)
               /\ drainer' = [drainer EXCEPT !.at = next]
          /\ UNCHANGED written
  /\ UNCHANGED <<health, ready, gui, recent, queue, writer, poll, answers,
                 seen, edits>>

\* Mutant of Requeue: what fails is logged and forgotten.
RequeueNever(j) == UNCHANGED queue /\ drainer' = [hand |-> Tail(drainer.hand),
                                                  at |-> 0]

\* Mutant of Requeue: the first failure puts the whole hand back and returns.
RequeueAll(j) == queue' = drainer.hand \o queue /\ drainer' = Resting

\* Mutant of Requeue: the next job goes on at the field of this one.
RequeueInPlace(j) ==
  /\ queue' = Append(queue, j)
  /\ drainer' = [drainer EXCEPT !.hand = Tail(@)]

\* The job goes behind what was queued meanwhile, and the loop goes on.
Requeue(j) ==
  /\ queue' = Append(queue, j)
  /\ drainer' = [hand |-> Tail(drainer.hand), at |-> 0]

DrainFails ==
  LET j == Head(drainer.hand) IN
  /\ drainer.hand # <<>>
  /\ IF drainer.at > 0 THEN FieldRefused(j, drainer.at)
     ELSE ~Payloads[j].identified /\ UNCHANGED <<files, torn, faults>>
  /\ Requeue(j)
  /\ UNCHANGED <<health, ready, gui, recent, writer, poll, answers, written,
                 seen, edits>>

-----------------------------------------------------------------------------
(* doPoll.                                                                 *)

StatFails ==
  /\ ready /\ poll.pc = "idle" /\ Fault
  /\ health' = "degraded"
  /\ UNCHANGED <<ready, gui, files, recent, queue, writer, drainer, poll,
                 histories, edits>>

\* lastMtime is set before the library is read.
Stat ==
  /\ ready /\ poll.pc = "idle" /\ fresh
  /\ fresh' = FALSE
  /\ poll' = [NoPoll EXCEPT !.pc = "read", !.todo = Book]
  /\ UNCHANGED <<health, ready, gui, columns, library, recent, queue, writer,
                 drainer, histories, bounds>>

\* calibredb list fails: that change of the library is not read any more.
ListFails ==
  /\ poll.pc = "read" /\ poll.todo = Book /\ Fault
  /\ poll' = NoPoll
  /\ UNCHANGED <<health, ready, gui, files, recent, queue, writer, drainer,
                 histories, edits>>

\* show_metadata, a process for each book.
ReadProgress(b) ==
  /\ b \in poll.todo
  /\ poll' = [poll EXCEPT !.todo = @ \ {b}, !.got[b] = library[b]]
  /\ UNCHANGED <<health, ready, gui, files, recent, queue, writer, drainer,
                 histories, bounds>>

\* A book that cannot be read is skipped.
SkipBook(b) ==
  /\ b \in poll.todo /\ Fault
  /\ poll' = [poll EXCEPT !.todo = @ \ {b}]
  /\ UNCHANGED <<health, ready, gui, files, recent, queue, writer, drainer,
                 histories, edits>>

\* Mutant of SubmitAll: lastMtime is the library's at the end of the poll.
SubmitAllThenStat ==
  /\ poll.pc = "read" /\ poll.todo = {}
  /\ seen' = [b \in Book |->
       IF poll.got[b] # Unread /\ HasProgress(ReadBook(poll.got[b]))
       THEN ReadBook(poll.got[b]) ELSE seen[b]]
  /\ poll' = NoPoll
  /\ fresh' = FALSE
  /\ UNCHANGED <<health, ready, gui, columns, library, recent, queue, writer,
                 drainer, answers, written, torn, bounds>>

\* Submit for each book with progress; an error is only logged.
SubmitAll ==
  /\ poll.pc = "read" /\ poll.todo = {}
  /\ \E refused \in SUBSET Book :
       /\ IF refused = {} THEN UNCHANGED faults ELSE Fault
       /\ seen' = [b \in Book |->
            IF b \notin refused /\ poll.got[b] # Unread
               /\ HasProgress(ReadBook(poll.got[b]))
            THEN ReadBook(poll.got[b]) ELSE seen[b]]
  /\ poll' = NoPoll
  /\ UNCHANGED <<health, ready, gui, files, recent, queue, writer, drainer,
                 answers, written, torn, edits>>

-----------------------------------------------------------------------------
\* The process ends and starts again: queue, recent and lastMtime are lost.
Restart ==
  /\ Fault
  /\ health' = "disabled" /\ ready' = FALSE
  /\ recent' = {} /\ queue' = <<>> /\ writer' = Idle /\ drainer' = Resting
  /\ poll' = NoPoll /\ fresh' = TRUE
  /\ answers' = [j \in Job |->
       IF answers[j] = "busy" \/ (answers[j] = "queued" /\ j \notin written)
       THEN "lost" ELSE answers[j]]
  /\ torn' = torn \cup {BookOf(j) : j \in Writing \cup Draining}
  /\ UNCHANGED <<gui, columns, library, written, seen, edits>>

Init ==
  /\ health = "disabled" /\ ready = FALSE /\ gui = FALSE
  /\ columns = {}
  /\ library = [b \in Book |-> [f \in Fields |-> 0]]
  /\ fresh = TRUE
  /\ recent = {} /\ queue = <<>>
  /\ writer = Idle /\ drainer = Resting /\ poll = NoPoll
  /\ answers = [j \in Job |-> "none"] /\ written = {} /\ torn = {}
  /\ seen = [b \in Book |-> ReadBook([f \in Fields |-> 0])]
  /\ faults = 0 /\ edits = 0

World == OpenGUI \/ CloseGUI \/ CreateColumn \/ \E b \in Book : Edit(b)

WriteProgress ==
  \/ \E j \in Job : NotReady(j) \/ Debounce(j) \/ Mark(j)
  \/ QueueWrite
  \/ BeginWrite
  \/ WriteField
  \/ WriteFails

DrainStep == TakeQueue \/ BeginDrain \/ DrainField \/ DrainFails

Poll ==
  \/ StatFails
  \/ Stat
  \/ ListFails
  \/ \E b \in Book : ReadProgress(b) \/ SkipBook(b)
  \/ SubmitAll

Next ==
  \/ Start
  \/ World
  \/ \E b \in Book : DelayPasses(b)
  \/ WriteProgress
  \/ DrainStep
  \/ Poll
  \/ Restart

\* The drainer's loop goes on, a tick every thirty seconds.
Spec == Init /\ [][Next]_vars /\ WF_vars(DrainStep)

-----------------------------------------------------------------------------
(* Properties.                                                             *)

Cells == {Unread} \cup [Fields -> 0..Edited]

\* The goroutines and the columns are where the code can bring them.
TypeOK ==
  /\ health \in {"disabled", "ok", "needs_user_action", "degraded"}
  /\ {ready, gui, fresh} \subseteq BOOLEAN
  /\ columns \in SUBSET Fields
  /\ library \in [Book -> [Fields -> 0..Edited]]
  /\ recent \in SUBSET Book
  /\ queue \in Seq(Job) /\ drainer \in [hand : Seq(Job), at : 0..6]
  /\ writer \in [pc : {"idle", "gui", "write"}, job : {0} \cup Job, at : 1..6]
  /\ drainer.hand = <<>> => drainer.at = 0
  /\ poll \in [pc : {"idle", "read"}, todo : SUBSET Book, got : [Book -> Cells]]
  /\ answers \in [Job -> {"none", "busy", "error", "dropped", "queued",
                          "written", "lost"}]
  /\ written \in SUBSET Job /\ torn \in SUBSET Book
  /\ faults \in 0..MaxFaults /\ edits \in 0..MaxEdits

\* What is in the queue and in the drainer's hand, and where a job stands there.
Handled == drainer.hand \o queue
Places(j) == {i \in 1..Len(Handled) : Handled[i] = j}
Waiting(j) == Places(j) # {}

\* What the outbox was told is kept: a job answered nil because of the GUI is
\* in the queue or in the drainer's hand once, until it is written or the
\* process ends, however often it fails.
AcknowledgedIsAccounted ==
  \A j \in Job :
    /\ answers[j] = "queued" =>
         IF j \in written THEN ~Waiting(j) ELSE Cardinality(Places(j)) = 1
    /\ Waiting(j) => answers[j] = "queued"

\* A job stands in line once, and exactly as long as it is answered and not
\* written; the writer's job never does.
QueueInv ==
  /\ \A i, k \in 1..Len(Handled) : Handled[i] = Handled[k] => i = k
  /\ \A j \in Job : Waiting(j) <=> (answers[j] = "queued" /\ j \notin written)
  /\ \A j \in written : answers[j] \in {"queued", "written"}
  /\ writer.pc # "idle" => writer.job \in Job /\ answers[writer.job] = "busy"

\* The writes of a book that are under way: the job and its next field.
WriterOn(b) ==
  {h \in {<<writer.job, writer.at>>} : writer.pc = "write" /\ BookOf(h[1]) = b}
DrainerOn(b) ==
  IF drainer.at = 0 THEN {}
  ELSE {h \in {<<Head(drainer.hand), drainer.at>>} : BookOf(h[1]) = b}

\* At most one write under way is past its first field; what that one has set
\* so far is in the row, but for the reader's own progress; and with none past
\* the first field the row is that of one job.
RowSound(row, hands) ==
  /\ \A g, h \in hands : g[2] > 1 /\ h[2] > 1 => g = h
  /\ \A h \in hands : \A i \in FieldsOf(h[1]) :
       i < h[2] => \/ row[WriteOrder[i]] = h[1]
                   \/ i = 1 /\ row["progress"] = Edited
  /\ (\A h \in hands : h[2] = 1) =>
       \A j \in Job : row["progress"] = j =>
         \A i \in FieldsOf(j) : row[WriteOrder[i]] = j

LibraryInv ==
  /\ writer.pc = "write" => writer.at \in FieldsOf(writer.job)
  /\ writer.pc # "write" => writer.at = 1
  /\ drainer.at > 0 => drainer.at \in FieldsOf(Head(drainer.hand))
  /\ \A b \in Book \ torn : RowSound(library[b], WriterOn(b) \cup DrainerOn(b))

\* What the poll has read since metadata.db last changed is what is there.
PollInv ==
  /\ health = "disabled" => ~ready
  /\ poll.pc = "idle" => poll.todo = {}
  /\ faults = 0 =>
       /\ ~ready => fresh /\ poll.pc = "idle"
       /\ ~fresh /\ poll.pc = "read" =>
            \A b \in Book \ poll.todo : poll.got[b] = library[b]
       /\ ~fresh /\ poll.pc = "idle" =>
            \A b \in Book : HasProgress(ReadBook(library[b])) =>
                              seen[b] = ReadBook(library[b])

\* The inductive invariant.
CalibreInv == TypeOK /\ QueueInv /\ LibraryInv /\ PollInv

\* The row is that of a job, and read as it: at most half a per cent off, as a
\* page if the locator says so, and with its status.
RowIsOf(row, j) ==
  LET read == ReadBook(row)
      told == IF Payloads[j].locator = "page" THEN read.page ELSE read.percent
  IN /\ \A i \in FieldsOf(j) : row[WriteOrder[i]] = j
     /\ "status" \in Fields =>
          read.status = StatusOrUnknown(Payloads[j].status)
     /\ "mode" \in Fields =>
          /\ told # Nil => 10 * told <= Payloads[j].tenths + 5
                           /\ 10 * told + 4 >= Payloads[j].tenths
          /\ told = Nil => Payloads[j].tenths < 5

\* A book whose writes never overlapped nor failed midway has all columns of
\* one job, and the poller reads that job's progress back.
WrittenIsWhole ==
  \A b \in Book, j \in Job :
    /\ library[b]["progress"] = j /\ b \notin torn
    /\ b \notin {BookOf(k) : k \in Writing \cup Draining}
    => RowIsOf(library[b], j)

\* Nothing that the library says is missed: when metadata.db has not changed
\* since the last poll, the pipeline has seen what each book says, however
\* writes, edits and the poll's reads were mixed.
PollSound ==
  (ready /\ poll.pc = "idle" /\ ~fresh /\ faults = 0) =>
    \A b \in Book : HasProgress(ReadBook(library[b])) =>
                      seen[b] = ReadBook(library[b])

\* A write that waits for the GUI is made once the GUI is gone, whatever
\* other jobs in the queue can never be written.
QueueDrains ==
  \A j \in Job : (Waiting(j) /\ Payloads[j].identified) ~>
                   (~Waiting(j) \/ gui \/ MissingColumns # {})

\* adapter.go:46: "WriteProgress writes the canonical progress for the given
\* book."  When it has answered nil and nothing is under way, the job, or a
\* later one of the book, is written.
NilMeansWritten ==
  \A j \in Job :
    /\ answers[j] \in {"queued", "dropped", "written"}
    /\ \A k \in Job : BookOf(k) = BookOf(j) => ~Waiting(k) /\ writer.job # k
    => \E k \in written : k >= j /\ BookOf(k) = BookOf(j)

\* The parser of read.go and the one of package opf, which the tests of the
\* columns use, agree on whatever progress the library holds, under any mode
\* and status that its user may choose, except for the locator without a mode.
ParsersAgree ==
  \A b \in Book, mode \in {"", "percent", "page", "raw"},
     status \in {"", "not_started", "finished"} :
    LET progress == Progress(library[b]["progress"])
        read == ParseOPFEvent(progress, mode, status, 0)
        opf == BuildEvent(progress, mode, status, 0) IN
    /\ HasProgress(read) = HasProgress(opf)
    /\ read.percent = opf.percent /\ read.page = opf.page
    /\ read.status = opf.status /\ read.position = opf.position
    /\ read.locator # opf.locator => mode = ""

Bridge == INSTANCE Goodreads

\* Whatever percentage of a book the poll submits, for the bridge's gates to
\* compare with what the Goodreads plugin reports next: they and the conflict
\* engine do not contradict each other.
GatesAgreeWithEngine ==
  [][\A b \in Book :
       LET percent == seen'[b].percent
       IN seen'[b] # seen[b] =>
            Bridge!GatesAgree(IF percent = Nil THEN Bridge!Nil ELSE percent)]_vars
=============================================================================
