---------------------------- MODULE CalibreProofs ----------------------------
(***************************************************************************)
(* Theorems about Calibre, for every list of write-backs, every choice of  *)
(* the columns, any books and any faults and edits.  CalibreInv is         *)
(* inductive: its four parts are shown one after the other, each by the    *)
(* actions that can disturb it.                                            *)
(***************************************************************************)
EXTENDS Calibre, SequenceTheorems, FiniteSetTheorems, TLAPS

-----------------------------------------------------------------------------
(* Jobs and their fields.                                                  *)

LEMMA Jobs ==
  /\ Edited \in Nat \ {0} /\ 0 \in 0..Edited /\ Edited \in 0..Edited
  /\ Job \subseteq 0..Edited /\ 0 \notin Job /\ Edited \notin Job
  /\ \A j \in Job : Payloads[j] \in WritePayload /\ BookOf(j) \in Book
<1>1. Payloads \in Seq(WritePayload) /\ Len(Payloads) \in Nat
  BY CalibreAssumption, LenProperties
<1>2. \A j \in Job : Payloads[j] \in WritePayload
  BY <1>1, ElementOfSeq DEF Job
<1> QED
  BY <1>1, <1>2 DEF Job, Edited, BookOf, WritePayload

\* The places of WriteOrder, and that no two of them are the same field.
LEMMA Places6 ==
  /\ DOMAIN WriteOrder = 1..6
  /\ WriteOrder[1] = "progress"
  /\ \A i, k \in 1..6 : WriteOrder[i] = WriteOrder[k] => i = k
<1>1. /\ WriteOrder[1] = "progress" /\ WriteOrder[2] = "mode"
      /\ WriteOrder[3] = "status" /\ WriteOrder[4] = "position"
      /\ WriteOrder[5] = "source" /\ WriteOrder[6] = "synced"
  BY DEF WriteOrder
<1>2. DOMAIN WriteOrder = 1..6
  BY DEF WriteOrder
<1>3. \A i \in 1..6 : i = 1 \/ i = 2 \/ i = 3 \/ i = 4 \/ i = 5 \/ i = 6
  OBVIOUS
<1>4. \A i, k \in 1..6 : WriteOrder[i] = WriteOrder[k] => i = k
  BY <1>1, <1>3
<1> QED
  BY <1>1, <1>2, <1>4

\* Progress is the first field of every job.
LEMMA Fields6 ==
  ASSUME NEW j \in Job
  PROVE  /\ FieldsOf(j) \subseteq 1..6
         /\ \A i \in FieldsOf(j) : WriteOrder[i] \in Fields
         /\ 1 \in FieldsOf(j)
BY Places6, CalibreAssumption DEF FieldsOf

-----------------------------------------------------------------------------
(* The steps, in groups by what they change.                               *)

\* Neither a goroutine moves nor anything of the library changes.
Aside ==
  \/ Start \/ OpenGUI \/ CloseGUI \/ \E b \in Book : DelayPasses(b)
  \/ StatFails \/ CreateColumn

\* WriteProgress answers at once, or begins, or queues.
Asking ==
  \/ \E j \in Job : NotReady(j) \/ Debounce(j) \/ Mark(j)
  \/ QueueWrite \/ BeginWrite

\* The poll, up to its end.
Reading ==
  \/ Stat \/ ListFails
  \/ \E b \in Book : ReadProgress(b) \/ SkipBook(b)

LEMMA NextGroups ==
  ASSUME [Next]_vars
  PROVE  \/ Aside \/ \E b \in Book : Edit(b)
         \/ Asking \/ WriteField \/ WriteFails
         \/ TakeQueue \/ BeginDrain \/ DrainField \/ DrainFails
         \/ Reading \/ SubmitAll \/ Restart
         \/ UNCHANGED vars
BY DEF Next, World, WriteProgress, DrainStep, Poll, Aside, Asking, Reading

LEMMA AsideFrame ==
  ASSUME Aside
  PROVE  /\ UNCHANGED <<library, queue, writer, drainer, poll, histories>>
         /\ fresh' \in {fresh, TRUE}
         /\ faults' = faults \/ faults' = faults + 1
BY DEF Aside, Start, OpenGUI, CloseGUI, DelayPasses, StatFails, CreateColumn,
       Fault, files, histories, bounds

LEMMA AskingFrame ==
  ASSUME Asking
  PROVE  /\ UNCHANGED <<health, ready, files, drainer, poll, written, torn,
                        seen, edits>>
         /\ faults' = faults \/ faults' = faults + 1
BY DEF Asking, NotReady, Debounce, Mark, QueueWrite, BeginWrite, Fault, files,
       bounds

LEMMA ReadingFrame ==
  ASSUME Reading
  PROVE  /\ UNCHANGED <<health, ready, columns, library, queue, writer,
                        drainer, histories, edits>>
         /\ faults' = faults \/ faults' = faults + 1
BY DEF Reading, Stat, ListFails, ReadProgress, SkipBook, Fault, files,
       histories, bounds

-----------------------------------------------------------------------------
(* Types.                                                                  *)

\* One cell of the library is set.
LEMMA CellSet ==
  ASSUME NEW lib \in [Book -> [Fields -> 0..Edited]], NEW b \in Book,
         NEW f \in Fields, NEW x \in 0..Edited
  PROVE  LET new == [lib EXCEPT ![b][f] = x]
         IN /\ new \in [Book -> [Fields -> 0..Edited]]
            /\ \A c \in Book, g \in Fields :
                 new[c][g] = IF c = b /\ g = f THEN x ELSE lib[c][g]
            /\ \A c \in Book : c # b => new[c] = lib[c]
OBVIOUS

LEMMA TypeInit == Init => TypeOK
<1> SUFFICES ASSUME Init PROVE TypeOK
  OBVIOUS
<1>1. library \in [Book -> [Fields -> 0..Edited]]
  BY Jobs DEF Init
<1>2. queue \in Seq(Job) /\ drainer \in [hand : Seq(Job), at : 0..6]
      /\ (drainer.hand = <<>> => drainer.at = 0)
  <2>1. <<>> \in Seq(Job)
    OBVIOUS
  <2> QED
    BY <2>1 DEF Init, Resting
<1>3. writer \in [pc : {"idle", "gui", "write"}, job : {0} \cup Job, at : 1..6]
  BY DEF Init, Idle
<1>4. poll \in [pc : {"idle", "read"}, todo : SUBSET Book, got : [Book -> Cells]]
  BY DEF Init, NoPoll, Cells
<1>5. faults \in 0..MaxFaults /\ edits \in 0..MaxEdits
  BY CalibreAssumption DEF Init
<1> QED
  BY <1>1, <1>2, <1>3, <1>4, <1>5 DEF Init, TypeOK

\* The counters stay in their bounds, and no step counts backwards.
LEMMA BoundsNext ==
  ASSUME TypeOK, [Next]_vars
  PROVE  /\ faults' \in 0..MaxFaults /\ edits' \in 0..MaxEdits
         /\ faults' = faults \/ faults' = faults + 1
<1>0. /\ MaxFaults \in Nat /\ MaxEdits \in Nat
      /\ faults \in 0..MaxFaults /\ edits \in 0..MaxEdits
  BY CalibreAssumption DEF TypeOK
<1> DEFINE Counted ==
      /\ \/ faults' = faults
         \/ faults < MaxFaults /\ faults' = faults + 1
      /\ \/ edits' = edits
         \/ edits < MaxEdits /\ edits' = edits + 1
<1>1. ASSUME Aside PROVE Counted
  BY <1>1 DEF Aside, Start, OpenGUI, CloseGUI, DelayPasses, StatFails,
              CreateColumn, Fault, bounds
<1>2. ASSUME NEW b \in Book, Edit(b) PROVE Counted
  BY <1>2 DEF Edit
<1>3. ASSUME Asking PROVE Counted
  BY <1>3 DEF Asking, NotReady, Debounce, Mark, QueueWrite, BeginWrite, Fault,
              bounds
<1>4. ASSUME WriteField \/ DrainField PROVE Counted
  BY <1>4 DEF WriteField, DrainField, SetField
<1>5. ASSUME WriteFails \/ DrainFails PROVE Counted
  <2>1. ASSUME NEW j, NEW at, FieldRefused(j, at)
        PROVE  faults' = faults \/ (faults < MaxFaults /\ faults' = faults + 1)
    BY <2>1 DEF FieldRefused
  <2> QED
    BY <1>5, <2>1 DEF WriteFails, DrainFails
<1>6. ASSUME TakeQueue \/ BeginDrain \/ SubmitAll \/ Restart PROVE Counted
  BY <1>6 DEF TakeQueue, BeginDrain, SubmitAll, Restart, Fault, bounds
<1>7. ASSUME Reading PROVE Counted
  BY <1>7 DEF Reading, Stat, ListFails, ReadProgress, SkipBook, Fault, bounds
<1>8. ASSUME UNCHANGED vars PROVE Counted
  BY <1>8 DEF vars, bounds
<1>9. Counted
  BY <1>1, <1>2, <1>3, <1>4, <1>5, <1>6, <1>7, <1>8, NextGroups
<1> QED
  BY <1>0, <1>9

\* Whatever moves, a goroutine is at one of its places.
WriterType == writer \in [pc : {"idle", "gui", "write"}, job : {0} \cup Job,
                          at : 1..6]
QueueType == /\ queue \in Seq(Job) /\ drainer \in [hand : Seq(Job), at : 0..6]
             /\ drainer.hand = <<>> => drainer.at = 0
AnswersType == answers \in [Job -> {"none", "busy", "error", "dropped",
                                    "queued", "written", "lost"}]
LibraryType == /\ columns \in SUBSET Fields
               /\ library \in [Book -> [Fields -> 0..Edited]]
PollType == poll \in [pc : {"idle", "read"}, todo : SUBSET Book,
                      got : [Book -> Cells]]

LEMMA HeadOfHand ==
  ASSUME TypeOK, drainer.hand # <<>>
  PROVE  /\ Head(drainer.hand) \in Job
         /\ Tail(drainer.hand) \in Seq(Job)
BY HeadTailProperties DEF TypeOK

\* One field of a job is set.
LEMMA SetEffect ==
  ASSUME TypeOK, NEW j \in Job, NEW at \in 1..6, NEW other, SetField(j, at, other)
  PROVE  /\ LibraryType' /\ fresh' = TRUE /\ WriteOrder[at] \in Fields
         /\ \A c \in Book, g \in Fields :
              library'[c][g] = IF c = BookOf(j) /\ g = WriteOrder[at] THEN j
                               ELSE library[c][g]
         /\ \A c \in Book : c # BookOf(j) => library'[c] = library[c]
         /\ torn' \in SUBSET Book /\ torn \subseteq torn'
         /\ torn' \subseteq torn \cup {BookOf(j)}
         /\ (\E o \in other : BookOf(o) = BookOf(j)) => BookOf(j) \in torn'
<1> DEFINE f == WriteOrder[at]
           c == BookOf(j)
           new == [library EXCEPT ![c][f] = j]
<1>0. f \in Fields /\ c \in Book /\ j \in 0..Edited
  BY Jobs DEF SetField, ColumnExists, TypeOK
<1>1. library' = new /\ fresh' = TRUE /\ columns' = columns
      /\ torn' = torn \cup {BookOf(k) : k \in {o \in other : BookOf(o) = c}}
  BY DEF SetField
<1>2. torn \in SUBSET Book /\ columns \in SUBSET Fields
      /\ library \in [Book -> [Fields -> 0..Edited]]
  BY DEF TypeOK
<1>3. /\ torn' \in SUBSET Book /\ torn \subseteq torn'
      /\ torn' \subseteq torn \cup {c}
      /\ (\E o \in other : BookOf(o) = c) => c \in torn'
  BY <1>0, <1>1, <1>2
<1> HIDE DEF f, c
<1>4. /\ library' \in [Book -> [Fields -> 0..Edited]]
      /\ \A d \in Book, g \in Fields :
           library'[d][g] = IF d = c /\ g = f THEN j ELSE library[d][g]
      /\ \A d \in Book : d # c => library'[d] = library[d]
  BY <1>0, <1>1, <1>2, CellSet
<1>5. LibraryType'
  BY <1>1, <1>2, <1>4 DEF LibraryType
<1> QED
  BY <1>0, <1>1, <1>3, <1>4, <1>5 DEF f, c

\* One field is refused.
LEMMA RefusedEffect ==
  ASSUME TypeOK, NEW j \in Job, NEW at \in 1..6, FieldRefused(j, at)
  PROVE  /\ UNCHANGED files
         /\ torn' = IF at > 1 THEN torn \cup {BookOf(j)} ELSE torn
         /\ torn' \in SUBSET Book
BY Jobs DEF FieldRefused, TypeOK

\* The writer goes on or is done.
LEMMA WriterTypeNext ==
  ASSUME TypeOK, QueueInv, LibraryInv, [Next]_vars
  PROVE  WriterType'
<1>0. WriterType
  BY DEF TypeOK, WriterType
<1>1. Idle \in [pc : {"idle", "gui", "write"}, job : {0} \cup Job, at : 1..6]
  BY DEF Idle
<1>2. CASE Asking
  <2>1. CASE \E j \in Job : Mark(j)
    <3>1. PICK j \in Job : writer' = [pc |-> "gui", job |-> j, at |-> 1]
      BY <2>1 DEF Mark
    <3> QED
      BY <3>1 DEF WriterType
  <2>2. CASE BeginWrite
    <3>1. \/ writer' = [writer EXCEPT !.pc = "write"]
          \/ writer' = Idle
      BY <2>2 DEF BeginWrite
    <3> QED
      BY <1>0, <1>1, <3>1 DEF WriterType
  <2>3. CASE QueueWrite \/ \E j \in Job : NotReady(j) \/ Debounce(j)
    <3>1. writer' = Idle \/ writer' = writer
      BY <2>3 DEF QueueWrite, NotReady, Debounce
    <3> QED
      BY <1>0, <1>1, <3>1 DEF WriterType
  <2> QED
    BY <1>2, <2>1, <2>2, <2>3 DEF Asking
<1>3. CASE WriteField
  <2>1. writer.job \in Job
    BY <1>3 DEF WriteField, QueueInv
  <2>2. \/ writer' = Idle
        \/ \E next \in FieldsOf(writer.job) :
             writer' = [writer EXCEPT !.at = next]
    BY <1>3 DEF WriteField
  <2>3. FieldsOf(writer.job) \subseteq 1..6
    BY <2>1, Fields6
  <2> QED
    BY <1>0, <1>1, <2>2, <2>3 DEF WriterType
<1>4. CASE WriteFails \/ Restart
  BY <1>1, <1>4 DEF WriteFails, Restart, WriterType
<1>5. CASE Aside \/ Reading \/ UNCHANGED vars
  <2>1. writer' = writer
    BY <1>5, AsideFrame, ReadingFrame DEF vars
  <2> QED
    BY <1>0, <2>1 DEF WriterType
<1>6. CASE \/ \E b \in Book : Edit(b)
           \/ TakeQueue \/ BeginDrain \/ DrainField \/ DrainFails \/ SubmitAll
  <2>1. writer' = writer
    BY <1>6 DEF Edit, TakeQueue, BeginDrain, DrainField, DrainFails, SubmitAll
  <2> QED
    BY <1>0, <2>1 DEF WriterType
<1> QED
  BY <1>2, <1>3, <1>4, <1>5, <1>6, NextGroups
\* The drainer goes on, is done with a job, or puts it back.
LEMMA QueueTypeNext ==
  ASSUME TypeOK, QueueInv, LibraryInv, [Next]_vars
  PROVE  QueueType'
<1>0. QueueType
  BY DEF TypeOK, QueueType
<1>1. CASE QueueWrite
  <2>1. writer.job \in Job /\ queue' = Append(queue, writer.job)
        /\ drainer' = drainer
    BY <1>1 DEF QueueWrite, QueueInv
  <2>2. queue' \in Seq(Job)
    BY <1>0, <2>1, AppendProperties DEF QueueType
  <2> QED
    BY <1>0, <2>1, <2>2 DEF QueueType
<1>2. CASE TakeQueue
  <2>1. /\ queue' = <<>> /\ drainer' = [hand |-> queue, at |-> 0]
    BY <1>2 DEF TakeQueue
  <2> QED
    BY <1>0, <2>1 DEF QueueType
<1>3. CASE BeginDrain
  <2>1. drainer' = [drainer EXCEPT !.at = 1] /\ queue' = queue
        /\ drainer.hand # <<>>
    BY <1>3 DEF BeginDrain
  <2> QED
    BY <1>0, <2>1 DEF QueueType
<1>4. CASE DrainField
  <2> DEFINE j == Head(drainer.hand)
  <2>1. drainer.hand # <<>>
    BY <1>0, <1>4 DEF DrainField, QueueType
  <2>2. j \in Job /\ Tail(drainer.hand) \in Seq(Job) /\ FieldsOf(j) \subseteq 1..6
    BY <2>1, HeadOfHand, Fields6
  <2>3. queue' = queue
        /\ \/ drainer' = [hand |-> Tail(drainer.hand), at |-> 0]
           \/ \E next \in FieldsOf(j) : drainer' = [drainer EXCEPT !.at = next]
    BY <1>4 DEF DrainField
  <2> HIDE DEF j
  <2>4. CASE drainer' = [hand |-> Tail(drainer.hand), at |-> 0]
    BY <1>0, <2>2, <2>3, <2>4 DEF QueueType
  <2>5. ASSUME NEW next \in FieldsOf(j), drainer' = [drainer EXCEPT !.at = next]
        PROVE  QueueType'
    BY <1>0, <2>1, <2>2, <2>3, <2>5 DEF QueueType
  <2> QED
    BY <2>3, <2>4, <2>5
<1>5. CASE DrainFails
  <2>1. drainer.hand # <<>> /\ Requeue(Head(drainer.hand))
    BY <1>5 DEF DrainFails
  <2>2. Head(drainer.hand) \in Job /\ Tail(drainer.hand) \in Seq(Job)
    BY <2>1, HeadOfHand
  <2>3. queue' = Append(queue, Head(drainer.hand))
        /\ drainer' = [hand |-> Tail(drainer.hand), at |-> 0]
    BY <2>1 DEF Requeue
  <2>4. queue' \in Seq(Job)
    BY <1>0, <2>2, <2>3, AppendProperties DEF QueueType
  <2> QED
    BY <2>2, <2>3, <2>4 DEF QueueType
<1>6. CASE Restart
  <2>1. <<>> \in Seq(Job)
    OBVIOUS
  <2>2. queue' = <<>> /\ drainer' = [hand |-> <<>>, at |-> 0]
    BY <1>6 DEF Restart, Resting
  <2> QED
    BY <2>1, <2>2 DEF QueueType
<1>7. CASE Asking /\ ~QueueWrite
  <2>1. queue' = queue /\ drainer' = drainer
    BY <1>7 DEF Asking, NotReady, Debounce, Mark, BeginWrite
  <2> QED
    BY <1>0, <2>1 DEF QueueType
<1>8. CASE \/ Aside \/ Reading \/ UNCHANGED vars
           \/ \E b \in Book : Edit(b)
           \/ WriteField \/ WriteFails \/ SubmitAll
  <2>1. queue' = queue /\ drainer' = drainer
    BY <1>8, AsideFrame, ReadingFrame
       DEF vars, Edit, WriteField, WriteFails, SubmitAll
  <2> QED
    BY <1>0, <2>1 DEF QueueType
<1> QED
  BY <1>1, <1>2, <1>3, <1>4, <1>5, <1>6, <1>7, <1>8, NextGroups

\* What WriteProgress last answered is one of its answers.
LEMMA AnswersTypeNext ==
  ASSUME TypeOK, QueueInv, [Next]_vars
  PROVE  AnswersType' /\ written' \in SUBSET Job
<1> DEFINE What == {"none", "busy", "error", "dropped", "queued", "written",
                    "lost"}
<1>0. answers \in [Job -> What] /\ written \in SUBSET Job
  BY DEF TypeOK
<1>1. ASSUME NEW j, NEW what \in What, Answer(j, what)
      PROVE  answers' \in [Job -> What]
  BY <1>0, <1>1 DEF Answer
<1>2. CASE Asking
  <2>1. answers' = answers \/ \E j : \E what \in What : Answer(j, what)
    BY <1>2 DEF Asking, NotReady, Debounce, Mark, QueueWrite, BeginWrite
  <2> QED
    BY <1>0, <1>1, <1>2, <2>1, AskingFrame DEF AnswersType
<1>3. CASE WriteField \/ WriteFails
  <2>1. answers' = answers \/ \E j : \E what \in What : Answer(j, what)
    BY <1>3 DEF WriteField, WriteFails
  <2>2. written' = written \/ written' = written \cup {writer.job}
    BY <1>3 DEF WriteField, WriteFails
  <2>3. writer.job \in Job
    BY <1>3 DEF WriteField, WriteFails, QueueInv
  <2> QED
    BY <1>0, <1>1, <2>1, <2>2, <2>3 DEF AnswersType
<1>4. CASE DrainField
  <2>1. answers' = answers
        /\ (written' = written \/ written' = written \cup {Head(drainer.hand)})
    BY <1>4 DEF DrainField
  <2>2. Head(drainer.hand) \in Job
    BY <1>4, HeadOfHand DEF DrainField, TypeOK
  <2> QED
    BY <1>0, <2>1, <2>2 DEF AnswersType
<1>5. CASE Restart
  BY <1>0, <1>5 DEF Restart, AnswersType
<1>6. CASE \/ Aside \/ Reading \/ UNCHANGED vars
           \/ \E b \in Book : Edit(b)
           \/ TakeQueue \/ BeginDrain \/ DrainFails \/ SubmitAll
  <2>1. answers' = answers /\ written' = written
    BY <1>6, AsideFrame, ReadingFrame
       DEF vars, histories, Edit, TakeQueue, BeginDrain, DrainFails, SubmitAll
  <2> QED
    BY <1>0, <2>1 DEF AnswersType
<1> QED
  BY <1>2, <1>3, <1>4, <1>5, <1>6, NextGroups

\* The library holds jobs and the reader's edits only.
LEMMA LibraryTypeNext ==
  ASSUME TypeOK, QueueInv, LibraryInv, [Next]_vars
  PROVE  LibraryType' /\ torn' \in SUBSET Book
<1>0. LibraryType /\ torn \in SUBSET Book
  BY DEF TypeOK, LibraryType
<1>1. CASE CreateColumn
  <2>1. PICK first \in MissingColumns : columns' = columns \cup {WriteOrder[first]}
    BY <1>1 DEF CreateColumn
  <2>2. library' = library /\ torn' = torn
    BY <1>1 DEF CreateColumn, histories
  <2> QED
    BY <1>0, <2>1, <2>2 DEF LibraryType, MissingColumns
<1>2. ASSUME NEW b \in Book, Edit(b) PROVE LibraryType' /\ torn' \in SUBSET Book
  <2>1. /\ library' = [library EXCEPT ![b]["progress"] = Edited]
        /\ columns' = columns /\ torn' = torn
    BY <1>2 DEF Edit, histories
  <2>2. library' \in [Book -> [Fields -> 0..Edited]]
    BY <1>0, <2>1, CellSet, Jobs, CalibreAssumption DEF LibraryType
  <2> QED
    BY <1>0, <2>1, <2>2 DEF LibraryType
<1>3. CASE WriteField
  <2>1. writer.job \in Job /\ writer.at \in 1..6
        /\ SetField(writer.job, writer.at, Draining)
    BY <1>3 DEF WriteField, QueueInv, TypeOK
  <2> QED
    BY <2>1, SetEffect
<1>4. CASE DrainField
  <2>1. /\ drainer.hand # <<>> /\ drainer.at \in 1..6
        /\ SetField(Head(drainer.hand), drainer.at, Writing)
    BY <1>4 DEF DrainField, TypeOK
  <2> QED
    BY <2>1, HeadOfHand, SetEffect
<1>5. CASE WriteFails
  <2>1. writer.job \in Job /\ writer.at \in 1..6
        /\ FieldRefused(writer.job, writer.at)
    BY <1>5 DEF WriteFails, QueueInv, TypeOK
  <2> QED
    BY <1>0, <2>1, RefusedEffect DEF files, LibraryType
<1>6. CASE DrainFails
  <2>1. Head(drainer.hand) \in Job
    BY <1>6, HeadOfHand DEF DrainFails
  <2>2. CASE drainer.at > 0
    <3>1. drainer.at \in 1..6 /\ FieldRefused(Head(drainer.hand), drainer.at)
      BY <1>6, <2>2 DEF DrainFails, TypeOK
    <3> QED
      BY <1>0, <2>1, <3>1, RefusedEffect DEF files, LibraryType
  <2>3. CASE ~(drainer.at > 0)
    BY <1>0, <1>6, <2>3 DEF DrainFails, files, LibraryType
  <2> QED
    BY <2>2, <2>3
<1>7. CASE Restart
  <2>1. /\ UNCHANGED <<columns, library>>
        /\ torn' = torn \cup {BookOf(j) : j \in Writing \cup Draining}
    BY <1>7 DEF Restart
  <2>2. Writing \cup Draining \subseteq Job
    BY HeadOfHand DEF Writing, Draining, QueueInv, TypeOK
  <2> QED
    BY <1>0, <2>1, <2>2, Jobs DEF LibraryType
<1>8. CASE \/ (Aside /\ ~CreateColumn) \/ Asking \/ Reading \/ UNCHANGED vars
           \/ TakeQueue \/ BeginDrain \/ SubmitAll
  <2>1. columns' = columns /\ library' = library /\ torn' = torn
    BY <1>8, AskingFrame, ReadingFrame
       DEF vars, histories, files, TakeQueue, BeginDrain, SubmitAll, Aside,
           Start, OpenGUI, CloseGUI, DelayPasses, StatFails
  <2> QED
    BY <1>0, <2>1 DEF LibraryType
<1> QED
  BY <1>1, <1>2, <1>3, <1>4, <1>5, <1>6, <1>7, <1>8, NextGroups DEF Aside

\* What the poll has read are rows of the library.
LEMMA PollTypeNext ==
  ASSUME TypeOK, [Next]_vars
  PROVE  PollType'
<1>0. PollType /\ library \in [Book -> [Fields -> 0..Edited]]
  BY DEF TypeOK, PollType
<1>1. NoPoll \in [pc : {"idle", "read"}, todo : SUBSET Book, got : [Book -> Cells]]
  BY DEF NoPoll, Cells
<1>2. CASE Reading
  <2>1. CASE Stat
    BY <1>1, <2>1 DEF Stat, PollType
  <2>2. CASE ListFails
    BY <1>1, <2>2 DEF ListFails, PollType
  <2>3. ASSUME NEW b \in Book, ReadProgress(b) PROVE PollType'
    <3>1. poll' = [poll EXCEPT !.todo = @ \ {b}, !.got[b] = library[b]]
      BY <2>3 DEF ReadProgress
    <3>2. library[b] \in Cells
      BY <1>0 DEF Cells
    <3> QED
      BY <1>0, <3>1, <3>2 DEF PollType
  <2>4. ASSUME NEW b \in Book, SkipBook(b) PROVE PollType'
    BY <1>0, <2>4 DEF SkipBook, PollType
  <2> QED
    BY <1>2, <2>1, <2>2, <2>3, <2>4 DEF Reading
<1>3. CASE SubmitAll \/ Restart
  BY <1>1, <1>3 DEF SubmitAll, Restart, PollType
<1>4. CASE \/ Aside \/ Asking \/ UNCHANGED vars
           \/ \E b \in Book : Edit(b)
           \/ WriteField \/ WriteFails
           \/ TakeQueue \/ BeginDrain \/ DrainField \/ DrainFails
  <2>1. poll' = poll
    BY <1>4, AsideFrame, AskingFrame
       DEF vars, Edit, WriteField, WriteFails, TakeQueue, BeginDrain,
           DrainField, DrainFails
  <2> QED
    BY <1>0, <2>1 DEF PollType
<1> QED
  BY <1>2, <1>3, <1>4, NextGroups

\* The health, the flags and the debounce marks.
LEMMA FlagsNext ==
  ASSUME TypeOK, QueueInv, [Next]_vars
  PROVE  /\ health' \in {"disabled", "ok", "needs_user_action", "degraded"}
         /\ {ready', gui', fresh'} \subseteq BOOLEAN
         /\ recent' \in SUBSET Book
<1> USE DEF TypeOK
<1>1. CASE Aside
  BY <1>1 DEF Aside, Start, OpenGUI, CloseGUI, DelayPasses, StatFails,
              CreateColumn, files, histories, bounds
<1>2. CASE Asking
  BY <1>2, Jobs DEF Asking, NotReady, Debounce, Mark, QueueWrite, BeginWrite,
                    files, bounds
<1>3. CASE WriteField \/ DrainField
  BY <1>3 DEF WriteField, DrainField, SetField
<1>4. CASE WriteFails
  BY <1>4 DEF WriteFails, FieldRefused, files
<1>5. CASE DrainFails
  BY <1>5 DEF DrainFails, FieldRefused, files
<1>6. CASE Reading
  BY <1>6 DEF Reading, Stat, ListFails, ReadProgress, SkipBook, files, bounds
<1>7. CASE TakeQueue \/ BeginDrain \/ SubmitAll \/ Restart
  BY <1>7 DEF TakeQueue, BeginDrain, SubmitAll, Restart, files, bounds
<1>8. CASE UNCHANGED vars \/ \E b \in Book : Edit(b)
  BY <1>8 DEF vars, files, Edit
<1> QED
  BY <1>1, <1>2, <1>3, <1>4, <1>5, <1>6, <1>7, <1>8, NextGroups

LEMMA TypeNext ==
  ASSUME TypeOK, QueueInv, LibraryInv, [Next]_vars
  PROVE  TypeOK'
<1>1. WriterType' /\ QueueType' /\ AnswersType' /\ LibraryType' /\ PollType'
  BY WriterTypeNext, QueueTypeNext, AnswersTypeNext, LibraryTypeNext,
     PollTypeNext
<1>2. written' \in SUBSET Job /\ torn' \in SUBSET Book
  BY AnswersTypeNext, LibraryTypeNext
<1>3. faults' \in 0..MaxFaults /\ edits' \in 0..MaxEdits
  BY BoundsNext
<1>4. /\ health' \in {"disabled", "ok", "needs_user_action", "degraded"}
      /\ {ready', gui', fresh'} \subseteq BOOLEAN
      /\ recent' \in SUBSET Book
  BY FlagsNext
<1> QED
  BY <1>1, <1>2, <1>3, <1>4
     DEF TypeOK, WriterType, QueueType, AnswersType, LibraryType, PollType
-----------------------------------------------------------------------------
(* The line of jobs: the drainer's hand and the queue behind it.           *)

Once(s) == \A i, k \in 1..Len(s) : s[i] = s[k] => i = k
Stands(j, s) == \E i \in 1..Len(s) : s[i] = j

LEMMA LineAppend ==
  ASSUME NEW s \in Seq(Job), NEW j \in Job, Once(s), ~Stands(j, s)
  PROVE  /\ Once(Append(s, j))
         /\ \A k \in Job : Stands(k, Append(s, j)) <=> Stands(k, s) \/ k = j
<1> DEFINE t == Append(s, j)
<1>1. /\ Len(t) = Len(s) + 1 /\ t[Len(s) + 1] = j
      /\ \A i \in 1..Len(s) : t[i] = s[i]
  BY AppendProperties
<1>2. Len(s) \in Nat
  BY LenProperties
<1> HIDE DEF t
<1>3. Once(t)
  BY <1>1, <1>2 DEF Once, Stands
<1>4. ASSUME NEW k \in Job PROVE Stands(k, t) <=> Stands(k, s) \/ k = j
  BY <1>1, <1>2 DEF Stands
<1> QED
  BY <1>3, <1>4 DEF t

LEMMA LineTail ==
  ASSUME NEW s \in Seq(Job), s # <<>>, Once(s)
  PROVE  /\ Once(Tail(s)) /\ Tail(s) \in Seq(Job) /\ Head(s) \in Job
         /\ Stands(Head(s), s)
         /\ \A k \in Job : Stands(k, Tail(s)) <=> Stands(k, s) /\ k # Head(s)
<1> DEFINE t == Tail(s)
<1>1. /\ Len(t) = Len(s) - 1 /\ t \in Seq(Job) /\ Head(s) \in Job
      /\ \A i \in 1..Len(t) : t[i] = s[i + 1]
  BY HeadTailProperties
<1>2. Len(s) \in Nat \ {0} /\ Head(s) = s[1]
  BY EmptySeq
<1> HIDE DEF t
<1>3. Once(t)
  BY <1>1, <1>2 DEF Once
<1>4. ASSUME NEW k \in Job PROVE Stands(k, t) <=> Stands(k, s) /\ k # Head(s)
  <2>1. ASSUME NEW i \in 1..Len(t), t[i] = k
        PROVE  Stands(k, s) /\ k # Head(s)
    <3>1. i + 1 \in 1..Len(s) /\ s[i + 1] = k
      BY <1>1, <1>2, <2>1
    <3> QED
      BY <1>2, <3>1 DEF Once, Stands
  <2>2. ASSUME NEW i \in 1..Len(s), s[i] = k, k # Head(s) PROVE Stands(k, t)
    <3>1. i - 1 \in 1..Len(t) /\ t[i - 1] = k
      BY <1>1, <1>2, <2>2
    <3> QED
      BY <3>1 DEF Stands
  <2> QED
    BY <2>1, <2>2 DEF Stands
<1>5. Stands(Head(s), s)
  BY <1>2 DEF Stands
<1> QED
  BY <1>1, <1>3, <1>4, <1>5 DEF t

\* What the steps of the drainer and of WriteProgress do to the line.
LEMMA LineType == ASSUME TypeOK PROVE Handled \in Seq(Job)
BY ConcatProperties DEF Handled, TypeOK

LEMMA AppendedLine ==
  ASSUME NEW h \in Seq(Job), NEW q \in Seq(Job), NEW j \in Job
  PROVE  h \o Append(q, j) = Append(h \o q, j)
<1>1. /\ Append(q, j) \in Seq(Job) /\ h \o q \in Seq(Job)
      /\ Len(h) \in Nat /\ Len(q) \in Nat
      /\ Len(Append(q, j)) = Len(q) + 1 /\ Append(q, j)[Len(q) + 1] = j
      /\ \A i \in 1..Len(q) : Append(q, j)[i] = q[i]
  BY AppendProperties, ConcatProperties, LenProperties
<1>2. /\ Len(h \o q) = Len(h) + Len(q)
      /\ \A i \in 1..Len(h) + Len(q) :
           (h \o q)[i] = IF i <= Len(h) THEN h[i] ELSE q[i - Len(h)]
  BY ConcatProperties
<1>3. /\ h \o Append(q, j) \in Seq(Job)
      /\ Len(h \o Append(q, j)) = Len(h) + Len(q) + 1
      /\ \A i \in 1..Len(h) + Len(q) + 1 :
           (h \o Append(q, j))[i] = IF i <= Len(h) THEN h[i]
                                    ELSE Append(q, j)[i - Len(h)]
  BY <1>1, ConcatProperties
<1>4. /\ Append(h \o q, j) \in Seq(Job)
      /\ Len(Append(h \o q, j)) = Len(h) + Len(q) + 1
      /\ Append(h \o q, j)[Len(h) + Len(q) + 1] = j
      /\ \A i \in 1..Len(h) + Len(q) : Append(h \o q, j)[i] = (h \o q)[i]
  BY <1>1, <1>2, AppendProperties
<1>5. ASSUME NEW i \in 1..Len(h) + Len(q) + 1
      PROVE  (h \o Append(q, j))[i] = Append(h \o q, j)[i]
  <2>1. CASE i <= Len(h)
    BY <1>1, <1>2, <1>3, <1>4, <2>1
  <2>2. CASE i > Len(h) /\ i <= Len(h) + Len(q)
    <3>1. i - Len(h) \in 1..Len(q)
      BY <1>1, <2>2
    <3> QED
      BY <1>1, <1>2, <1>3, <1>4, <2>2, <3>1
  <2>3. CASE i = Len(h) + Len(q) + 1
    BY <1>1, <1>3, <1>4, <2>3
  <2> QED
    BY <1>1, <2>1, <2>2, <2>3
<1> QED
  BY <1>3, <1>4, <1>5, SeqEqual

LEMMA TailOfLine ==
  ASSUME NEW h \in Seq(Job), NEW q \in Seq(Job), h # <<>>
  PROVE  /\ h \o q # <<>> /\ Head(h \o q) = Head(h)
         /\ Tail(h) \o q = Tail(h \o q)
<1>1. /\ Tail(h) \in Seq(Job) /\ Len(Tail(h)) = Len(h) - 1
      /\ Len(h) \in Nat \ {0} /\ Len(q) \in Nat
      /\ \A i \in 1..Len(Tail(h)) : Tail(h)[i] = h[i + 1]
  BY HeadTailProperties, EmptySeq, LenProperties
<1>2. /\ h \o q \in Seq(Job) /\ Len(h \o q) = Len(h) + Len(q)
      /\ \A i \in 1..Len(h) + Len(q) :
           (h \o q)[i] = IF i <= Len(h) THEN h[i] ELSE q[i - Len(h)]
  BY ConcatProperties
<1>3. h \o q # <<>>
  BY <1>1, <1>2
<1>4. Head(h \o q) = Head(h)
  BY <1>1, <1>2
<1>5. /\ Tail(h \o q) \in Seq(Job) /\ Len(Tail(h \o q)) = Len(h) + Len(q) - 1
      /\ \A i \in 1..Len(h) + Len(q) - 1 : Tail(h \o q)[i] = (h \o q)[i + 1]
  BY <1>2, <1>3, HeadTailProperties
<1>6. /\ Tail(h) \o q \in Seq(Job) /\ Len(Tail(h) \o q) = Len(h) + Len(q) - 1
      /\ \A i \in 1..Len(h) + Len(q) - 1 :
           (Tail(h) \o q)[i] = IF i <= Len(h) - 1 THEN Tail(h)[i]
                               ELSE q[i - (Len(h) - 1)]
  BY <1>1, ConcatProperties
<1>7. ASSUME NEW i \in 1..Len(h) + Len(q) - 1
      PROVE  (Tail(h) \o q)[i] = Tail(h \o q)[i]
  <2>1. Tail(h \o q)[i] = (h \o q)[i + 1] /\ i + 1 \in 1..Len(h) + Len(q)
    BY <1>1, <1>5
  <2>2. CASE i <= Len(h) - 1
    BY <1>1, <1>2, <1>6, <2>1, <2>2
  <2>3. CASE i > Len(h) - 1
    <3>1. i - (Len(h) - 1) = i + 1 - Len(h)
      BY <1>1
    <3> QED
      BY <1>1, <1>2, <1>6, <2>1, <2>3, <3>1
  <2> QED
    BY <1>1, <2>2, <2>3
<1> QED
  BY <1>3, <1>4, <1>5, <1>6, <1>7, SeqEqual
LEMMA LineKept ==
  ASSUME TypeOK, UNCHANGED <<queue, drainer>> PROVE Handled' = Handled
BY DEF Handled

LEMMA LineTaken ==
  ASSUME TypeOK, TakeQueue PROVE Handled' = Handled
<1>1. /\ drainer.hand = <<>> /\ drainer'.hand = queue /\ queue' = <<>>
      /\ queue \in Seq(Job)
  BY DEF TakeQueue, TypeOK
<1> QED
  BY <1>1, ConcatEmptySeq DEF Handled

LEMMA LineBegun ==
  ASSUME TypeOK, BeginDrain PROVE Handled' = Handled
BY DEF BeginDrain, Handled, TypeOK

LEMMA LineRequeued ==
  ASSUME TypeOK, DrainFails
  PROVE  /\ Handled # <<>> /\ Head(Handled) = Head(drainer.hand)
         /\ Handled' = Append(Tail(Handled), Head(Handled))
<1>1. /\ drainer.hand # <<>> /\ drainer.hand \in Seq(Job) /\ queue \in Seq(Job)
      /\ Head(drainer.hand) \in Job /\ Tail(drainer.hand) \in Seq(Job)
  BY HeadOfHand DEF DrainFails, TypeOK
<1>2. /\ queue' = Append(queue, Head(drainer.hand))
      /\ drainer'.hand = Tail(drainer.hand)
  BY DEF DrainFails, Requeue
<1>3. Handled' = Append(Tail(drainer.hand) \o queue, Head(drainer.hand))
  <2>1. Tail(drainer.hand) \o Append(queue, Head(drainer.hand)) =
          Append(Tail(drainer.hand) \o queue, Head(drainer.hand))
    BY <1>1, AppendedLine
  <2> QED
    BY <1>2, <2>1 DEF Handled
<1>4. /\ Handled # <<>> /\ Head(Handled) = Head(drainer.hand)
      /\ Tail(drainer.hand) \o queue = Tail(Handled)
  BY <1>1, TailOfLine DEF Handled
<1> QED
  BY <1>3, <1>4

\* A step of the drainer at a field: the job is done, or goes on.
LEMMA LineDrained ==
  ASSUME TypeOK, DrainField
  PROVE  /\ Handled # <<>> /\ Head(Handled) = Head(drainer.hand)
         /\ \/ /\ written' = written \cup {Head(drainer.hand)}
               /\ Handled' = Tail(Handled) /\ drainer'.at = 0
            \/ /\ written' = written /\ Handled' = Handled
<1>1. /\ drainer.hand # <<>> /\ drainer.hand \in Seq(Job) /\ queue \in Seq(Job)
  BY DEF DrainField, TypeOK
<1>2. /\ Handled # <<>> /\ Head(Handled) = Head(drainer.hand)
      /\ Tail(drainer.hand) \o queue = Tail(Handled)
  BY <1>1, TailOfLine DEF Handled
<1>3. queue' = queue
      /\ \/ /\ drainer' = [hand |-> Tail(drainer.hand), at |-> 0]
            /\ written' = written \cup {Head(drainer.hand)}
         \/ /\ \E next : drainer' = [drainer EXCEPT !.at = next]
            /\ written' = written
  BY DEF DrainField
<1>4. drainer \in [hand : Seq(Job), at : 0..6]
  BY DEF TypeOK
<1>5. CASE /\ drainer' = [hand |-> Tail(drainer.hand), at |-> 0]
           /\ written' = written \cup {Head(drainer.hand)}
  <2>1. drainer'.hand = Tail(drainer.hand) /\ drainer'.at = 0
    BY <1>5
  <2> QED
    BY <1>2, <1>3, <1>5, <2>1 DEF Handled
<1>6. CASE /\ \E next : drainer' = [drainer EXCEPT !.at = next]
           /\ written' = written
  <2>1. drainer'.hand = drainer.hand
    BY <1>4, <1>6
  <2> QED
    BY <1>2, <1>3, <1>6, <2>1 DEF Handled
<1> QED
  BY <1>3, <1>5, <1>6

\* An answer is the answer of one job.
LEMMA AnsweredOne ==
  ASSUME TypeOK, NEW j \in Job, NEW what, Answer(j, what)
  PROVE  \A k \in Job : answers'[k] = IF k = j THEN what ELSE answers[k]
BY DEF Answer, TypeOK

\* QueueInv by what it says of the line.
WriterBusy == writer.pc # "idle" =>
                writer.job \in Job /\ answers[writer.job] = "busy"
Accounted ==
  /\ Once(Handled)
  /\ \A j \in Job : Stands(j, Handled) <=> answers[j] = "queued" /\ j \notin written
  /\ \A j \in written : answers[j] \in {"queued", "written"}

LEMMA QueueInvParts == QueueInv <=> Accounted /\ WriterBusy
<1>1. \A j \in Job : Waiting(j) <=> Stands(j, Handled)
  BY DEF Waiting, Places, Stands
<1> QED
  BY <1>1 DEF QueueInv, Accounted, WriterBusy, Once

\* A job whose write is not acknowledged is answered anew.
LEMMA AnsweredAside ==
  ASSUME TypeOK, Accounted, NEW j \in Job, NEW what, Answer(j, what),
         answers[j] \notin {"queued", "written"}, what # "queued",
         Handled' = Handled,
         \/ written' = written
         \/ written' = written \cup {j} /\ what = "written"
  PROVE  Accounted'
<1>1. \A k \in Job : answers'[k] = IF k = j THEN what ELSE answers[k]
  BY AnsweredOne
<1>2. j \notin written /\ written \subseteq Job
  BY DEF Accounted, TypeOK
<1> QED
  BY <1>1, <1>2 DEF Accounted

\* The jobs in line are those that are answered and not written.
LEMMA AccountedNext ==
  ASSUME TypeOK, QueueInv, [Next]_vars
  PROVE  Accounted'
<1>0. Accounted /\ WriterBusy /\ Handled \in Seq(Job) /\ written \subseteq Job
  BY QueueInvParts, LineType DEF TypeOK
<1>1. CASE QueueWrite
  <2> DEFINE j == writer.job
  <2>1. /\ j \in Job /\ answers[j] = "busy" /\ Answer(j, "queued")
        /\ queue' = Append(queue, j) /\ drainer' = drainer
        /\ written' = written
    BY <1>0, <1>1 DEF QueueWrite, WriterBusy
  <2>2. Handled' = Append(Handled, j)
    BY <2>1, AppendedLine DEF Handled, TypeOK
  <2> HIDE DEF j
  <2>3. \A k \in Job : answers'[k] = IF k = j THEN "queued" ELSE answers[k]
    BY <2>1, AnsweredOne
  <2>4. ~Stands(j, Handled) /\ j \notin written
    BY <1>0, <2>1 DEF Accounted
  <2>5. /\ Once(Handled')
        /\ \A k \in Job : Stands(k, Handled') <=> Stands(k, Handled) \/ k = j
    BY <1>0, <2>1, <2>2, <2>4, LineAppend DEF Accounted
  <2> QED
    BY <1>0, <2>1, <2>3, <2>4, <2>5 DEF Accounted
<1>2. CASE Asking /\ ~QueueWrite
  <2>1. UNCHANGED <<queue, drainer, written>>
    BY <1>2 DEF Asking, NotReady, Debounce, Mark, BeginWrite
  <2>2. \/ answers' = answers
        \/ \E j \in Job : \E what \in {"error", "dropped", "busy"} :
             /\ Answer(j, what)
             /\ answers[j] \in {"none", "error", "busy"}
    <3>1. ASSUME NEW j \in Job, NotReady(j) \/ Debounce(j) \/ Mark(j)
          PROVE  \E what \in {"error", "dropped", "busy"} :
                   Answer(j, what) /\ answers[j] \in {"none", "error", "busy"}
      BY <3>1 DEF NotReady, Debounce, Mark, Asked
    <3>2. CASE BeginWrite
      BY <1>0, <3>2 DEF BeginWrite, WriterBusy
    <3> QED
      BY <1>2, <3>1, <3>2 DEF Asking
  <2>3. Handled' = Handled
    BY <2>1, LineKept
  <2> QED
    BY <1>0, <2>1, <2>2, <2>3, AnsweredAside DEF Accounted
<1>3. CASE WriteField \/ WriteFails
  <2> DEFINE j == writer.job
  <2>1. /\ j \in Job /\ answers[j] = "busy" /\ UNCHANGED <<queue, drainer>>
        /\ \/ UNCHANGED <<answers, written>>
           \/ Answer(j, "written") /\ written' = written \cup {j}
           \/ Answer(j, "error") /\ written' = written
    BY <1>0, <1>3 DEF WriteField, WriteFails, WriterBusy
  <2>2. Handled' = Handled
    BY <2>1, LineKept
  <2> HIDE DEF j
  <2>3. CASE UNCHANGED <<answers, written>>
    BY <1>0, <2>2, <2>3 DEF Accounted
  <2> QED
    BY <1>0, <2>1, <2>2, <2>3, AnsweredAside
<1>4. CASE TakeQueue \/ BeginDrain
  <2>1. Handled' = Handled /\ answers' = answers /\ written' = written
    BY <1>4, LineTaken, LineBegun DEF TakeQueue, BeginDrain, histories
  <2> QED
    BY <1>0, <2>1 DEF Accounted
<1>5. CASE DrainField
  <2> DEFINE j == Head(Handled)
  <2>1. answers' = answers
    BY <1>5 DEF DrainField
  <2>2. /\ Handled # <<>>
        /\ \/ written' = written \cup {j} /\ Handled' = Tail(Handled)
           \/ written' = written /\ Handled' = Handled
    BY <1>5, LineDrained
  <2>3. CASE written' = written /\ Handled' = Handled
    BY <1>0, <2>1, <2>3 DEF Accounted
  <2>4. CASE written' = written \cup {j} /\ Handled' = Tail(Handled)
    <3>1. /\ Once(Handled') /\ j \in Job /\ Stands(j, Handled)
          /\ \A k \in Job : Stands(k, Handled') <=> Stands(k, Handled) /\ k # j
      BY <1>0, <2>2, <2>4, LineTail DEF Accounted
    <3> HIDE DEF j
    <3> QED
      BY <1>0, <2>1, <2>4, <3>1 DEF Accounted
  <2> QED
    BY <2>2, <2>3, <2>4
<1>6. CASE DrainFails
  <2> DEFINE j == Head(Handled)
  <2>1. answers' = answers /\ written' = written
    BY <1>6 DEF DrainFails
  <2>2. Handled # <<>> /\ Handled' = Append(Tail(Handled), j)
    BY <1>6, LineRequeued
  <2>3. /\ Once(Tail(Handled)) /\ Tail(Handled) \in Seq(Job) /\ j \in Job
        /\ Stands(j, Handled)
        /\ \A k \in Job : Stands(k, Tail(Handled)) <=> Stands(k, Handled) /\ k # j
    BY <1>0, <2>2, LineTail DEF Accounted
  <2> HIDE DEF j
  <2>4. /\ Once(Handled')
        /\ \A k \in Job : Stands(k, Handled') <=> Stands(k, Tail(Handled)) \/ k = j
    BY <2>2, <2>3, LineAppend
  <2>5. \A k \in Job : Stands(k, Handled') <=> Stands(k, Handled)
    BY <2>3, <2>4
  <2> QED
    BY <1>0, <2>1, <2>4, <2>5 DEF Accounted
<1>7. CASE Restart
  <2>1. /\ Handled' = <<>> /\ written' = written
        /\ \A k \in Job :
             answers'[k] = IF \/ answers[k] = "busy"
                              \/ answers[k] = "queued" /\ k \notin written
                           THEN "lost" ELSE answers[k]
    BY <1>7, ConcatEmptySeq, EmptySeq DEF Restart, Resting, Handled
  <2>2. Once(Handled') /\ \A k \in Job : ~Stands(k, Handled')
    BY <2>1 DEF Once, Stands
  <2> QED
    BY <1>0, <2>1, <2>2 DEF Accounted
<1>8. CASE \/ Aside \/ Reading \/ UNCHANGED vars
           \/ \E b \in Book : Edit(b)
           \/ SubmitAll
  <2>1. UNCHANGED <<queue, drainer, answers, written>>
    BY <1>8, AsideFrame, ReadingFrame DEF vars, histories, Edit, SubmitAll
  <2>2. Handled' = Handled
    BY <2>1, LineKept
  <2> QED
    BY <1>0, <2>1, <2>2 DEF Accounted
<1> QED
  BY <1>1, <1>2, <1>3, <1>4, <1>5, <1>6, <1>7, <1>8, NextGroups
\* The writer's job is the one that WriteProgress has not answered.
LEMMA WriterBusyNext ==
  ASSUME TypeOK, QueueInv, [Next]_vars
  PROVE  WriterBusy'
<1>0. WriterBusy /\ WriterType
  BY QueueInvParts DEF TypeOK, WriterType
<1>1. CASE Asking
  <2>1. ASSUME NEW j \in Job, NotReady(j) \/ Debounce(j) PROVE WriterBusy'
    BY <2>1 DEF NotReady, Debounce, Asked, WriterBusy
  <2>2. ASSUME NEW j \in Job, Mark(j) PROVE WriterBusy'
    <3>1. writer' = [pc |-> "gui", job |-> j, at |-> 1] /\ Answer(j, "busy")
      BY <2>2 DEF Mark
    <3>2. answers'[j] = "busy"
      BY <3>1, AnsweredOne
    <3> QED
      BY <3>1, <3>2 DEF WriterBusy
  <2>3. CASE QueueWrite
    BY <2>3 DEF QueueWrite, WriterBusy, Idle
  <2>4. CASE BeginWrite
    <3>1. \/ writer' = Idle
          \/ /\ writer' = [writer EXCEPT !.pc = "write"] /\ answers' = answers
             /\ writer.pc # "idle"
      BY <2>4 DEF BeginWrite
    <3> QED
      BY <1>0, <3>1 DEF WriterBusy, WriterType, Idle
  <2> QED
    BY <1>1, <2>1, <2>2, <2>3, <2>4 DEF Asking
<1>2. CASE WriteField \/ WriteFails
  <2>1. \/ writer' = Idle
        \/ /\ \E next : writer' = [writer EXCEPT !.at = next]
           /\ answers' = answers
    BY <1>2 DEF WriteField, WriteFails
  <2> QED
    BY <1>0, <2>1 DEF WriterBusy, WriterType, Idle
<1>3. CASE Restart
  BY <1>3 DEF Restart, WriterBusy, Idle
<1>4. CASE \/ Aside \/ Reading \/ UNCHANGED vars
           \/ \E b \in Book : Edit(b)
           \/ SubmitAll \/ TakeQueue \/ BeginDrain \/ DrainField \/ DrainFails
  <2>1. writer' = writer /\ answers' = answers
    BY <1>4, AsideFrame, ReadingFrame
       DEF vars, histories, Edit, SubmitAll, TakeQueue, BeginDrain,
           DrainField, DrainFails
  <2> QED
    BY <1>0, <2>1 DEF WriterBusy
<1> QED
  BY <1>1, <1>2, <1>3, <1>4, NextGroups

LEMMA QueueInvNext ==
  ASSUME TypeOK, QueueInv, [Next]_vars
  PROVE  QueueInv'
BY AccountedNext, WriterBusyNext, QueueInvParts, PTL
-----------------------------------------------------------------------------
(* The rows of the library.                                                *)

Row == [Fields -> 0..Edited]

\* A write ends, or is begun, before its first field is set.
LEMMA RowFewer ==
  ASSUME NEW row \in Row, NEW H, NEW G, RowSound(row, H), G \subseteq H,
         \A h \in H \ G : h[2] = 1
  PROVE  RowSound(row, G)
BY DEF RowSound

LEMMA RowBegun ==
  ASSUME NEW row \in Row, NEW H, NEW j \in Job, RowSound(row, H)
  PROVE  RowSound(row, H \cup {<<j, 1>>})
BY Fields6 DEF RowSound

\* The reader edits the progress.
LEMMA RowEdited ==
  ASSUME NEW row \in Row, NEW new \in Row, NEW H, RowSound(row, H),
         \A h \in H : h[1] \in Job,
         \A g \in Fields : new[g] = IF g = "progress" THEN Edited ELSE row[g]
  PROVE  RowSound(new, H)
<1>1. new["progress"] = Edited
  BY CalibreAssumption
<1>2. ASSUME NEW h \in H, NEW i \in FieldsOf(h[1]), i < h[2],
             ~(i = 1)
      PROVE  new[WriteOrder[i]] = h[1]
  <2>1. i \in 1..6 /\ WriteOrder[i] \in Fields /\ WriteOrder[i] # "progress"
    BY <1>2, Fields6, Places6
  <2> QED
    BY <1>2, <2>1 DEF RowSound
<1>3. ASSUME NEW h \in H, NEW i \in FieldsOf(h[1]), i < h[2]
      PROVE  \/ new[WriteOrder[i]] = h[1]
             \/ i = 1 /\ new["progress"] = Edited
  BY <1>1, <1>2, <1>3
<1>4. \A j \in Job : new["progress"] # j
  BY <1>1, Jobs
<1> QED
  BY <1>3, <1>4 DEF RowSound

\* The only write under way sets a field and goes on, or was at its last one.
LEMMA RowSet ==
  ASSUME NEW row \in Row, NEW new \in Row, NEW j \in Job, NEW at \in FieldsOf(j),
         RowSound(row, {<<j, at>>}),
         \A g \in Fields : new[g] = IF g = WriteOrder[at] THEN j ELSE row[g]
  PROVE  /\ \A next \in FieldsOf(j) :
              NextField(j, at, next) => RowSound(new, {<<j, next>>})
         /\ LastField(j, at) => RowSound(new, {})
<1>1. /\ FieldsOf(j) \subseteq 1..6 /\ 1 \in FieldsOf(j)
      /\ \A i \in FieldsOf(j) : WriteOrder[i] \in Fields
      /\ WriteOrder[1] = "progress"
  BY Fields6, Places6
<1>2. ASSUME NEW i \in FieldsOf(j), i <= at
      PROVE  \/ new[WriteOrder[i]] = j
             \/ i = 1 /\ new["progress"] = Edited
  <2>1. CASE i = at
    BY <1>1, <2>1
  <2>2. CASE i < at
    <3>1. WriteOrder[i] # WriteOrder[at]
      BY <1>1, <2>2, Places6
    <3>2. new[WriteOrder[i]] = row[WriteOrder[i]]
      BY <1>1, <3>1
    <3>3. \/ row[WriteOrder[i]] = j
          \/ i = 1 /\ row["progress"] = Edited
      BY <2>2 DEF RowSound
    <3> QED
      BY <1>1, <3>2, <3>3
  <2> QED
    BY <1>1, <1>2, <2>1, <2>2
<1>3. ASSUME NEW next \in FieldsOf(j), NextField(j, at, next)
      PROVE  RowSound(new, {<<j, next>>})
  <2>1. next > 1 /\ \A i \in FieldsOf(j) : i < next => i <= at
    BY <1>1, <1>3 DEF NextField
  <2> QED
    BY <1>2, <2>1 DEF RowSound
<1>4. ASSUME LastField(j, at) PROVE RowSound(new, {})
  <2>1. ASSUME NEW k \in Job, new["progress"] = k,
               NEW i \in FieldsOf(k)
        PROVE  new[WriteOrder[i]] = k
    <3>1. new[WriteOrder[1]] = j \/ new["progress"] = Edited
      BY <1>1, <1>2, <1>4 DEF LastField
    <3>2. k = j
      BY <1>1, <2>1, <3>1, Jobs
    <3>3. i <= at
      BY <1>4, <3>2 DEF LastField
    <3>4. new[WriteOrder[i]] = j \/ new["progress"] = Edited
      BY <1>2, <3>2, <3>3
    <3> QED
      BY <2>1, <3>2, <3>4, Jobs
  <2> QED
    BY <2>1 DEF RowSound
<1> QED
  BY <1>3, <1>4
-----------------------------------------------------------------------------
(* LibraryInv, step by step.                                               *)

HandsOn(b) == WriterOn(b) \cup DrainerOn(b)
WriterStands ==
  /\ writer.pc = "write" => writer.at \in FieldsOf(writer.job)
  /\ writer.pc # "write" => writer.at = 1
DrainerStands == drainer.at > 0 => drainer.at \in FieldsOf(Head(drainer.hand))
Standing == WriterStands /\ DrainerStands
Rows == \A b \in Book \ torn : RowSound(library[b], HandsOn(b))

LEMMA LibraryInvParts == LibraryInv <=> Standing /\ Rows
BY DEF LibraryInv, Standing, WriterStands, DrainerStands, Rows, HandsOn

\* Each goroutine stands at a field of its job.
LEMMA StandingNext ==
  ASSUME TypeOK, QueueInv, LibraryInv, [Next]_vars
  PROVE  Standing'
<1>0. Standing /\ WriterType /\ drainer \in [hand : Seq(Job), at : 0..6]
      /\ (writer.pc # "idle" => writer.job \in Job)
  BY LibraryInvParts DEF TypeOK, WriterType, QueueInv
<1>1. CASE Asking
  <2>1. drainer' = drainer
    BY <1>1, AskingFrame
  <2>2. ASSUME NEW j \in Job, Mark(j) PROVE WriterStands'
    BY <2>2 DEF Mark, WriterStands
  <2>3. ASSUME BeginWrite PROVE WriterStands'
    <3>1. \/ writer' = Idle
          \/ writer' = [writer EXCEPT !.pc = "write"]
      BY <2>3 DEF BeginWrite
    <3>2. writer.at = 1 /\ writer.job \in Job
      BY <1>0, <2>3 DEF BeginWrite, Standing, WriterStands, DrainerStands
    <3> QED
      BY <1>0, <3>1, <3>2, Fields6 DEF WriterType, Idle, WriterStands
  <2>4. ASSUME QueueWrite PROVE WriterStands'
    BY <2>4 DEF QueueWrite, Idle, WriterStands
  <2>5. ASSUME NEW j \in Job, NotReady(j) \/ Debounce(j) PROVE WriterStands'
    BY <1>0, <2>5 DEF NotReady, Debounce, Standing, WriterStands, DrainerStands
  <2>6. WriterStands'
    BY <1>1, <2>2, <2>3, <2>4, <2>5 DEF Asking
  <2>7. DrainerStands'
    BY <1>0, <2>1 DEF Standing, WriterStands, DrainerStands
  <2> QED
    BY <2>6, <2>7 DEF Standing
<1>2. CASE WriteField \/ WriteFails
  <2>1. drainer' = drainer
        /\ \/ writer' = Idle
           \/ \E next \in FieldsOf(writer.job) :
                writer' = [writer EXCEPT !.at = next] /\ writer.pc = "write"
    BY <1>2 DEF WriteField, WriteFails
  <2> QED
    BY <1>0, <2>1 DEF WriterType, Idle, Standing, WriterStands, DrainerStands
<1>3. CASE TakeQueue \/ BeginDrain \/ DrainField \/ DrainFails
  <2>1. writer' = writer
    BY <1>3 DEF TakeQueue, BeginDrain, DrainField, DrainFails
  <2>2. ASSUME TakeQueue PROVE DrainerStands'
    BY <2>2 DEF TakeQueue, DrainerStands
  <2>3. ASSUME BeginDrain PROVE DrainerStands'
    <3>1. drainer' = [drainer EXCEPT !.at = 1] /\ drainer.hand # <<>>
      BY <2>3 DEF BeginDrain
    <3>2. drainer'.hand = drainer.hand /\ drainer'.at = 1
          /\ Head(drainer.hand) \in Job
      BY <1>0, <3>1, HeadOfHand
    <3>3. 1 \in FieldsOf(Head(drainer.hand))
      BY <3>2, Fields6
    <3> QED
      BY <3>2, <3>3 DEF DrainerStands
  <2>4. ASSUME DrainField PROVE DrainerStands'
    <3>1. \/ drainer' = [hand |-> Tail(drainer.hand), at |-> 0]
          \/ \E next \in FieldsOf(Head(drainer.hand)) :
               drainer' = [drainer EXCEPT !.at = next]
      BY <2>4 DEF DrainField
    <3>2. ASSUME drainer' = [hand |-> Tail(drainer.hand), at |-> 0]
          PROVE  DrainerStands'
      <4>1. drainer'.at = 0
        BY <3>2
      <4> QED
        BY <4>1 DEF DrainerStands
    <3>3. ASSUME NEW next \in FieldsOf(Head(drainer.hand)),
                 drainer' = [drainer EXCEPT !.at = next]
          PROVE  DrainerStands'
      <4>1. drainer'.hand = drainer.hand /\ drainer'.at = next
        BY <1>0, <3>3
      <4> QED
        BY <4>1, <3>3 DEF DrainerStands
    <3> QED
      BY <3>1, <3>2, <3>3
  <2>5. ASSUME DrainFails PROVE DrainerStands'
    <3>1. drainer'.at = 0
      BY <2>5 DEF DrainFails, Requeue
    <3> QED
      BY <3>1 DEF DrainerStands
  <2>6. WriterStands'
    BY <1>0, <2>1 DEF Standing, WriterStands, DrainerStands
  <2>7. DrainerStands'
    BY <1>3, <2>2, <2>3, <2>4, <2>5
  <2> QED
    BY <2>6, <2>7 DEF Standing
<1>4. CASE Restart
  BY <1>4 DEF Restart, Idle, Resting, Standing, WriterStands, DrainerStands
<1>5. CASE \/ Aside \/ Reading \/ UNCHANGED vars
           \/ \E b \in Book : Edit(b)
           \/ SubmitAll
  <2>1. writer' = writer /\ drainer' = drainer
    BY <1>5, AsideFrame, ReadingFrame DEF vars, Edit, SubmitAll
  <2> QED
    BY <1>0, <2>1 DEF Standing, WriterStands, DrainerStands
<1> QED
  BY <1>1, <1>2, <1>3, <1>4, <1>5, NextGroups
\* A book's writes under way are of jobs.
LEMMA HandsType ==
  ASSUME TypeOK, QueueInv, LibraryInv, NEW b \in Book, NEW h \in HandsOn(b)
  PROVE  h[1] \in Job /\ BookOf(h[1]) = b /\ h[2] \in FieldsOf(h[1])
<1>1. CASE h \in WriterOn(b)
  BY <1>1 DEF WriterOn, QueueInv, LibraryInv
<1>2. CASE h \in DrainerOn(b)
  <2>1. /\ drainer.at \in 0..6 /\ drainer.at # 0 /\ drainer.hand # <<>>
        /\ h = <<Head(drainer.hand), drainer.at>> /\ BookOf(h[1]) = b
    BY <1>2 DEF DrainerOn, TypeOK
  <2> QED
    BY <2>1, HeadOfHand DEF LibraryInv
<1> QED
  BY <1>1, <1>2 DEF HandsOn

\* No row changes, and what is no longer under way had not set a field, or its
\* book is torn.
LEMMA RowsFewer ==
  ASSUME TypeOK, LibraryInv, library' = library, torn \subseteq torn',
         \A b \in Book \ torn' :
           /\ HandsOn(b)' \subseteq HandsOn(b)
           /\ \A h \in HandsOn(b) \ HandsOn(b)' : h[2] = 1
  PROVE  Rows'
<1> SUFFICES ASSUME NEW b \in Book \ torn'
             PROVE  RowSound(library[b], HandsOn(b)')
  BY DEF Rows
<1>1. library[b] \in Row /\ RowSound(library[b], HandsOn(b))
  BY LibraryInvParts DEF Rows, Row, TypeOK
<1> DEFINE H == HandsOn(b)
           G == HandsOn(b)'
<1>2. G \subseteq H /\ \A h \in H \ G : h[2] = 1
  OBVIOUS
<1>3. RowSound(library[b], H)
  BY <1>1
<1> HIDE DEF H, G
<1>4. RowSound(library[b], G)
  BY <1>1, <1>2, <1>3, RowFewer
<1> QED
  BY <1>4 DEF G

\* A write is begun.
LEMMA RowsBegun ==
  ASSUME TypeOK, LibraryInv, library' = library, torn' = torn, NEW j \in Job,
         \A b \in Book : \/ HandsOn(b)' = HandsOn(b)
                         \/ HandsOn(b)' = HandsOn(b) \cup {<<j, 1>>}
  PROVE  Rows'
<1> SUFFICES ASSUME NEW b \in Book \ torn
             PROVE  RowSound(library[b], HandsOn(b)')
  BY DEF Rows
<1>1. library[b] \in Row /\ RowSound(library[b], HandsOn(b))
  BY LibraryInvParts DEF Rows, Row, TypeOK
<1>2. RowSound(library[b], HandsOn(b) \cup {<<j, 1>>})
  BY <1>1, RowBegun
<1> QED
  BY <1>1, <1>2

\* A field of a job is set and the write goes on, or ends with its last field.
LEMMA RowsSet ==
  ASSUME TypeOK, QueueInv, LibraryInv, NEW j \in Job, NEW at \in FieldsOf(j),
         NEW next \in FieldsOf(j),
         <<j, at>> \in HandsOn(BookOf(j)),
         LibraryType',
         \A c \in Book, g \in Fields :
           library'[c][g] = IF c = BookOf(j) /\ g = WriteOrder[at] THEN j
                            ELSE library[c][g],
         \A c \in Book : c # BookOf(j) =>
           library'[c] = library[c] /\ HandsOn(c)' = HandsOn(c),
         torn \subseteq torn',
         BookOf(j) \notin torn' => HandsOn(BookOf(j)) = {<<j, at>>},
         BookOf(j) \notin torn' =>
           \/ NextField(j, at, next) /\ HandsOn(BookOf(j))' = {<<j, next>>}
           \/ LastField(j, at) /\ HandsOn(BookOf(j))' = {}
  PROVE  Rows'
<1> SUFFICES ASSUME NEW b \in Book \ torn'
             PROVE  RowSound(library'[b], HandsOn(b)')
  BY DEF Rows
<1>1. library[b] \in Row /\ RowSound(library[b], HandsOn(b))
  BY LibraryInvParts DEF Rows, Row, TypeOK
<1>2. CASE b # BookOf(j)
  BY <1>1, <1>2
<1>3. CASE b = BookOf(j)
  <2>1. library'[b] \in Row
    BY DEF LibraryType, Row
  <2>2. \A g \in Fields :
          library'[b][g] = IF g = WriteOrder[at] THEN j ELSE library[b][g]
    BY <1>3
  <2>3. RowSound(library[b], {<<j, at>>})
    BY <1>1, <1>3
  <2>4. /\ NextField(j, at, next) => RowSound(library'[b], {<<j, next>>})
        /\ LastField(j, at) => RowSound(library'[b], {})
    BY <1>1, <2>1, <2>2, <2>3, RowSet
  <2>5. \/ NextField(j, at, next) /\ HandsOn(b)' = {<<j, next>>}
        \/ LastField(j, at) /\ HandsOn(b)' = {}
    BY <1>3
  <2> QED
    BY <2>4, <2>5
<1> QED
  BY <1>2, <1>3
\* The writer sets a field of its job.
LEMMA RowsWriteField ==
  ASSUME TypeOK, QueueInv, LibraryInv, WriteField
  PROVE  Rows'
<1>0. PICK j \in Job, at \in 1..6, b \in Book :
        j = writer.job /\ at = writer.at /\ b = BookOf(j)
  BY Jobs DEF WriteField, QueueInv, TypeOK
<1>1. /\ writer.pc = "write" /\ at \in FieldsOf(j)
      /\ SetField(j, at, Draining) /\ drainer' = drainer
  BY <1>0 DEF WriteField, LibraryInv
<1>2. /\ LibraryType'
      /\ \A c \in Book, g \in Fields :
           library'[c][g] = IF c = b /\ g = WriteOrder[at] THEN j
                            ELSE library[c][g]
      /\ \A c \in Book : c # b => library'[c] = library[c]
      /\ torn \subseteq torn'
      /\ (\E o \in Draining : BookOf(o) = b) => b \in torn'
  <2>1. PICK other : other = Draining
    OBVIOUS
  <2>2. SetField(j, at, other)
    BY <1>1, <2>1
  <2>3. /\ LibraryType'
        /\ \A c \in Book, g \in Fields :
             library'[c][g] = IF c = BookOf(j) /\ g = WriteOrder[at] THEN j
                              ELSE library[c][g]
        /\ \A c \in Book : c # BookOf(j) => library'[c] = library[c]
        /\ torn \subseteq torn'
        /\ (\E o \in other : BookOf(o) = BookOf(j)) => BookOf(j) \in torn'
    BY <2>2, SetEffect
  <2> QED
    BY <1>0, <2>1, <2>3
<1>3. \A c : WriterOn(c) = IF c = b THEN {<<j, at>>} ELSE {}
  BY <1>0, <1>1 DEF WriterOn
<1>4. \A c : DrainerOn(c)' = DrainerOn(c)
  BY <1>0, <1>1 DEF DrainerOn
<1>5. b \notin torn' => DrainerOn(b) = {}
  BY <1>0, <1>2 DEF DrainerOn, Draining, TypeOK
<1>6. PICK next \in FieldsOf(j) :
        \/ /\ NextField(j, at, next)
           /\ \A c : WriterOn(c)' = IF c = b THEN {<<j, next>>} ELSE {}
        \/ /\ LastField(j, at)
           /\ \A c : WriterOn(c)' = {}
  <2>1. CASE LastField(j, at)
    <3>1. writer'.pc = "idle"
      BY <1>0, <2>1 DEF WriteField, Idle
    <3>2. \A c : WriterOn(c)' = {}
      BY <3>1 DEF WriterOn
    <3> QED
      BY <1>1, <2>1, <3>2
  <2>2. CASE ~LastField(j, at)
    <3>1. PICK next \in FieldsOf(j) : /\ NextField(j, at, next)
                                      /\ writer' = [writer EXCEPT !.at = next]
      BY <1>0, <2>2 DEF WriteField
    <3>2. writer'.pc = "write" /\ writer'.job = j /\ writer'.at = next
      BY <1>0, <1>1, <3>1 DEF TypeOK
    <3>3. \A c : WriterOn(c)' = IF c = b THEN {<<j, next>>} ELSE {}
      BY <1>0, <3>2 DEF WriterOn
    <3> QED
      BY <3>1, <3>3
  <2> QED
    BY <2>1, <2>2
<1>7. \A c \in Book : c # b => HandsOn(c)' = HandsOn(c)
  BY <1>3, <1>4, <1>6 DEF HandsOn
<1>8. <<j, at>> \in HandsOn(b)
  BY <1>3 DEF HandsOn
<1>9. b \notin torn' =>
        /\ HandsOn(b) = {<<j, at>>}
        /\ \/ NextField(j, at, next) /\ HandsOn(b)' = {<<j, next>>}
           \/ LastField(j, at) /\ HandsOn(b)' = {}
  BY <1>3, <1>4, <1>5, <1>6 DEF HandsOn
<1>10. /\ <<j, at>> \in HandsOn(BookOf(j))
       /\ \A c \in Book : c # BookOf(j) =>
            library'[c] = library[c] /\ HandsOn(c)' = HandsOn(c)
       /\ \A c \in Book, g \in Fields :
            library'[c][g] = IF c = BookOf(j) /\ g = WriteOrder[at] THEN j
                             ELSE library[c][g]
  BY <1>0, <1>2, <1>7, <1>8
<1>11. /\ BookOf(j) \notin torn' => HandsOn(BookOf(j)) = {<<j, at>>}
       /\ BookOf(j) \notin torn' =>
            \/ NextField(j, at, next) /\ HandsOn(BookOf(j))' = {<<j, next>>}
            \/ LastField(j, at) /\ HandsOn(BookOf(j))' = {}
  BY <1>0, <1>9
<1> QED
  BY <1>1, <1>2, <1>10, <1>11, RowsSet

\* The drainer sets a field of its job.
LEMMA RowsDrainField ==
  ASSUME TypeOK, QueueInv, LibraryInv, DrainField
  PROVE  Rows'
<1>0. PICK j \in Job, at \in 1..6, b \in Book :
        j = Head(drainer.hand) /\ at = drainer.at /\ b = BookOf(j)
  BY HeadOfHand, Jobs DEF DrainField, TypeOK
<1>1. /\ drainer.at > 0 /\ at \in FieldsOf(j)
      /\ SetField(j, at, Writing) /\ writer' = writer
  BY <1>0 DEF DrainField, LibraryInv
<1>2. /\ LibraryType'
      /\ \A c \in Book, g \in Fields :
           library'[c][g] = IF c = b /\ g = WriteOrder[at] THEN j
                            ELSE library[c][g]
      /\ \A c \in Book : c # b => library'[c] = library[c]
      /\ torn \subseteq torn'
      /\ (\E o \in Writing : BookOf(o) = b) => b \in torn'
  <2>1. PICK other : other = Writing
    OBVIOUS
  <2>2. SetField(j, at, other)
    BY <1>1, <2>1
  <2>3. /\ LibraryType'
        /\ \A c \in Book, g \in Fields :
             library'[c][g] = IF c = BookOf(j) /\ g = WriteOrder[at] THEN j
                              ELSE library[c][g]
        /\ \A c \in Book : c # BookOf(j) => library'[c] = library[c]
        /\ torn \subseteq torn'
        /\ (\E o \in other : BookOf(o) = BookOf(j)) => BookOf(j) \in torn'
    BY <2>2, SetEffect
  <2> QED
    BY <1>0, <2>1, <2>3
<1>3. \A c : DrainerOn(c) = IF c = b THEN {<<j, at>>} ELSE {}
  BY <1>0, <1>1 DEF DrainerOn
<1>4. \A c : WriterOn(c)' = WriterOn(c)
  BY <1>0, <1>1 DEF WriterOn
<1>5. b \notin torn' => WriterOn(b) = {}
  BY <1>0, <1>2 DEF WriterOn, Writing
<1>6. PICK next \in FieldsOf(j) :
        \/ /\ NextField(j, at, next)
           /\ \A c : DrainerOn(c)' = IF c = b THEN {<<j, next>>} ELSE {}
        \/ /\ LastField(j, at)
           /\ \A c : DrainerOn(c)' = {}
  <2>1. CASE LastField(j, at)
    <3>1. drainer'.at = 0
      BY <1>0, <2>1 DEF DrainField
    <3>2. \A c : DrainerOn(c)' = {}
      BY <3>1 DEF DrainerOn
    <3> QED
      BY <1>1, <2>1, <3>2
  <2>2. CASE ~LastField(j, at)
    <3>1. PICK next \in FieldsOf(j) : /\ NextField(j, at, next)
                                      /\ drainer' = [drainer EXCEPT !.at = next]
      BY <1>0, <2>2 DEF DrainField
    <3>2. drainer'.hand = drainer.hand /\ drainer'.at = next /\ next # 0
      <4>1. drainer \in [hand : Seq(Job), at : 0..6] /\ next \in 1..6
        BY <1>0, Fields6 DEF TypeOK
      <4> QED
        BY <3>1, <4>1
    <3>3. \A c : DrainerOn(c)' = IF c = b THEN {<<j, next>>} ELSE {}
      BY <1>0, <3>2 DEF DrainerOn
    <3> QED
      BY <3>1, <3>3
  <2> QED
    BY <2>1, <2>2
<1>7. \A c \in Book : c # b => HandsOn(c)' = HandsOn(c)
  BY <1>3, <1>4, <1>6 DEF HandsOn
<1>8. <<j, at>> \in HandsOn(b)
  BY <1>3 DEF HandsOn
<1>9. b \notin torn' =>
        /\ HandsOn(b) = {<<j, at>>}
        /\ \/ NextField(j, at, next) /\ HandsOn(b)' = {<<j, next>>}
           \/ LastField(j, at) /\ HandsOn(b)' = {}
  BY <1>3, <1>4, <1>5, <1>6 DEF HandsOn
<1>10. /\ <<j, at>> \in HandsOn(BookOf(j))
       /\ \A c \in Book : c # BookOf(j) =>
            library'[c] = library[c] /\ HandsOn(c)' = HandsOn(c)
       /\ \A c \in Book, g \in Fields :
            library'[c][g] = IF c = BookOf(j) /\ g = WriteOrder[at] THEN j
                             ELSE library[c][g]
  BY <1>0, <1>2, <1>7, <1>8
<1>11. /\ BookOf(j) \notin torn' => HandsOn(BookOf(j)) = {<<j, at>>}
       /\ BookOf(j) \notin torn' =>
            \/ NextField(j, at, next) /\ HandsOn(BookOf(j))' = {<<j, next>>}
            \/ LastField(j, at) /\ HandsOn(BookOf(j))' = {}
  BY <1>0, <1>9
<1> QED
  BY <1>1, <1>2, <1>10, <1>11, RowsSet
\* A write is begun by either goroutine, or a field is refused.
LEMMA RowsBeginWrite ==
  ASSUME TypeOK, QueueInv, LibraryInv, BeginWrite
  PROVE  Rows'
<1>1. PICK j \in Job : j = writer.job
  BY DEF BeginWrite, QueueInv
<1>2. /\ library' = library /\ torn' = torn /\ drainer' = drainer
      /\ writer.pc = "gui" /\ writer.at = 1
      /\ writer' = Idle \/ writer' = [writer EXCEPT !.pc = "write"]
  BY DEF BeginWrite, LibraryInv, files
<1>3. \A b : DrainerOn(b)' = DrainerOn(b) /\ WriterOn(b) = {}
  BY <1>2 DEF DrainerOn, WriterOn
<1>4. \/ writer'.pc = "idle"
      \/ writer'.pc = "write" /\ writer'.job = j /\ writer'.at = 1
  BY <1>1, <1>2 DEF TypeOK, Idle
<1>5. \A b : WriterOn(b)' = {} \/ WriterOn(b)' = {<<j, 1>>}
  BY <1>4 DEF WriterOn
<1>6. \A b : \/ HandsOn(b)' = HandsOn(b)
             \/ HandsOn(b)' = HandsOn(b) \cup {<<j, 1>>}
  BY <1>3, <1>5 DEF HandsOn
<1> QED
  BY <1>2, <1>6, RowsBegun

LEMMA RowsBeginDrain ==
  ASSUME TypeOK, QueueInv, LibraryInv, BeginDrain
  PROVE  Rows'
<1>1. PICK j \in Job : j = Head(drainer.hand)
  BY HeadOfHand DEF BeginDrain
<1>2. /\ library' = library /\ torn' = torn /\ writer' = writer
      /\ drainer.at = 0 /\ drainer' = [drainer EXCEPT !.at = 1]
  BY DEF BeginDrain, files, histories
<1>3. \A b : WriterOn(b)' = WriterOn(b) /\ DrainerOn(b) = {}
  BY <1>2 DEF DrainerOn, WriterOn
<1>4. Head(drainer'.hand) = j /\ drainer'.at = 1
  BY <1>1, <1>2 DEF TypeOK
<1>5. \A b : DrainerOn(b)' = {} \/ DrainerOn(b)' = {<<j, 1>>}
  BY <1>4 DEF DrainerOn
<1>6. \A b : \/ HandsOn(b)' = HandsOn(b)
             \/ HandsOn(b)' = HandsOn(b) \cup {<<j, 1>>}
  BY <1>3, <1>5 DEF HandsOn
<1> QED
  BY <1>2, <1>6, RowsBegun

LEMMA RowsWriteFails ==
  ASSUME TypeOK, QueueInv, LibraryInv, WriteFails
  PROVE  Rows'
<1>1. PICK j \in Job, at \in 1..6 : j = writer.job /\ at = writer.at
  BY DEF WriteFails, QueueInv, TypeOK
<1>2. /\ FieldRefused(j, at) /\ writer.pc = "write" /\ writer'.pc = "idle"
      /\ drainer' = drainer
  BY <1>1 DEF WriteFails, Idle
<1>3. library' = library /\ torn \subseteq torn'
      /\ (at > 1 => BookOf(j) \in torn')
  BY <1>2, RefusedEffect DEF files
<1>4. \A b : /\ WriterOn(b)' = {} /\ DrainerOn(b)' = DrainerOn(b)
             /\ WriterOn(b) = IF BookOf(j) = b THEN {<<j, at>>} ELSE {}
  BY <1>1, <1>2 DEF WriterOn, DrainerOn
<1>5. \A b \in Book \ torn' :
        /\ HandsOn(b)' \subseteq HandsOn(b)
        /\ \A h \in HandsOn(b) \ HandsOn(b)' : h[2] = 1
  BY <1>3, <1>4 DEF HandsOn
<1> QED
  BY <1>3, <1>5, RowsFewer

LEMMA RowsDrainFails ==
  ASSUME TypeOK, QueueInv, LibraryInv, DrainFails
  PROVE  Rows'
<1>1. PICK j \in Job, at \in 0..6 : j = Head(drainer.hand) /\ at = drainer.at
  BY HeadOfHand DEF DrainFails, TypeOK
<1>2. /\ at > 0 => FieldRefused(j, at)
      /\ at = 0 => UNCHANGED <<files, torn>>
      /\ drainer'.at = 0 /\ writer' = writer
  BY <1>1 DEF DrainFails, Requeue
<1>3. library' = library /\ torn \subseteq torn'
      /\ (at > 1 => BookOf(j) \in torn')
  <2>1. CASE at = 0
    BY <1>2, <2>1 DEF files
  <2>2. CASE at # 0
    <3>1. at \in 1..6 /\ FieldRefused(j, at)
      BY <1>2, <2>2
    <3> QED
      BY <3>1, RefusedEffect DEF files
  <2> QED
    BY <2>1, <2>2
<1>4. \A b : /\ DrainerOn(b)' = {} /\ WriterOn(b)' = WriterOn(b)
             /\ \A h \in DrainerOn(b) : h[2] = at /\ BookOf(j) = b /\ at # 0
  BY <1>1, <1>2 DEF WriterOn, DrainerOn
<1>5. \A b \in Book \ torn' :
        /\ HandsOn(b)' \subseteq HandsOn(b)
        /\ \A h \in HandsOn(b) \ HandsOn(b)' : h[2] = 1
  BY <1>3, <1>4 DEF HandsOn
<1> QED
  BY <1>3, <1>5, RowsFewer

LEMMA RowsRestart ==
  ASSUME TypeOK, QueueInv, LibraryInv, Restart
  PROVE  Rows'
<1>1. /\ library' = library /\ writer'.pc = "idle" /\ drainer'.at = 0
      /\ torn' = torn \cup {BookOf(j) : j \in Writing \cup Draining}
  BY DEF Restart, Idle, Resting
<1>2. \A b : WriterOn(b)' = {} /\ DrainerOn(b)' = {}
  BY <1>1 DEF WriterOn, DrainerOn
<1>3. \A b \in Book \ torn' : WriterOn(b) = {}
  BY <1>1 DEF WriterOn, Writing
<1>4. \A b \in Book \ torn' : DrainerOn(b) = {}
  BY <1>1 DEF DrainerOn, Draining, TypeOK
<1>5. \A b \in Book \ torn' : HandsOn(b)' = {} /\ HandsOn(b) = {}
  BY <1>2, <1>3, <1>4 DEF HandsOn
<1> QED
  BY <1>1, <1>5, RowsFewer

LEMMA RowsEdit ==
  ASSUME TypeOK, QueueInv, LibraryInv, NEW a \in Book, Edit(a)
  PROVE  Rows'
<1>1. /\ library' = [library EXCEPT ![a]["progress"] = Edited]
      /\ torn' = torn /\ writer' = writer /\ drainer' = drainer
  BY DEF Edit, histories
<1>2. /\ library' \in [Book -> Row] /\ library \in [Book -> Row]
      /\ \A g \in Fields :
           library'[a][g] = IF g = "progress" THEN Edited ELSE library[a][g]
      /\ \A c \in Book : c # a => library'[c] = library[c]
  BY <1>1, CellSet, Jobs, CalibreAssumption DEF Row, TypeOK
<1>3. \A b : HandsOn(b)' = HandsOn(b)
  BY <1>1 DEF HandsOn, WriterOn, DrainerOn
<1> SUFFICES ASSUME NEW b \in Book \ torn
             PROVE  RowSound(library'[b], HandsOn(b))
  BY <1>1, <1>3 DEF Rows
<1>4. RowSound(library[b], HandsOn(b))
  BY LibraryInvParts DEF Rows
<1>5. CASE b # a
  BY <1>2, <1>4, <1>5
<1>6. CASE b = a
  <2>1. \A h \in HandsOn(b) : h[1] \in Job
    BY HandsType
  <2> QED
    BY <1>2, <1>4, <1>6, <2>1, RowEdited
<1> QED
  BY <1>5, <1>6

LEMMA RowsNext ==
  ASSUME TypeOK, QueueInv, LibraryInv, [Next]_vars
  PROVE  Rows'
<1>1. ASSUME library' = library, torn' = torn,
             \A b : HandsOn(b)' = HandsOn(b)
      PROVE  Rows'
  BY <1>1, RowsFewer
<1>2. CASE Asking /\ ~BeginWrite
  <2>1. /\ library' = library /\ torn' = torn /\ drainer' = drainer
    BY <1>2, AskingFrame DEF files
  <2>2. \/ writer' = writer
        \/ writer.pc # "write" /\ writer'.pc # "write"
    BY <1>2 DEF Asking, NotReady, Debounce, Mark, Asked, QueueWrite, Idle
  <2>3. \A b : HandsOn(b)' = HandsOn(b)
    BY <2>1, <2>2 DEF HandsOn, WriterOn, DrainerOn
  <2> QED
    BY <1>1, <2>1, <2>3
<1>3. CASE TakeQueue
  <2>1. /\ library' = library /\ torn' = torn /\ writer' = writer
        /\ drainer.at = 0 /\ drainer'.at = 0
    BY <1>3 DEF TakeQueue, files, histories, TypeOK
  <2>2. \A b : HandsOn(b)' = HandsOn(b)
    BY <2>1 DEF HandsOn, WriterOn, DrainerOn
  <2> QED
    BY <1>1, <2>1, <2>2
<1>4. CASE \/ Aside \/ Reading \/ UNCHANGED vars
           \/ SubmitAll
  <2>1. UNCHANGED <<library, torn, writer, drainer>>
    BY <1>4, AsideFrame, ReadingFrame DEF vars, files, histories, SubmitAll
  <2>2. \A b : HandsOn(b)' = HandsOn(b)
    BY <2>1 DEF HandsOn, WriterOn, DrainerOn
  <2> QED
    BY <1>1, <2>1, <2>2
<1> QED
  BY <1>2, <1>3, <1>4, RowsWriteField, RowsDrainField, RowsBeginWrite,
     RowsBeginDrain, RowsWriteFails, RowsDrainFails, RowsRestart, RowsEdit,
     NextGroups

LEMMA LibraryInvNext ==
  ASSUME TypeOK, QueueInv, LibraryInv, [Next]_vars
  PROVE  LibraryInv'
BY StandingNext, RowsNext, LibraryInvParts, PTL
-----------------------------------------------------------------------------
(* The poll.                                                               *)

\* A row has a column, so that it is never taken for a book not read.
LEMMA RowIsRead ==
  ASSUME TypeOK, NEW b \in Book PROVE library[b] # Unread
<1>1. DOMAIN library[b] = Fields /\ DOMAIN Unread = {}
  BY DEF TypeOK, Unread
<1> QED
  BY <1>1, CalibreAssumption

\* PollInv of a run without a fault so far.
PollSays ==
  /\ ~ready => fresh /\ poll.pc = "idle"
  /\ ~fresh /\ poll.pc = "read" =>
       \A b \in Book \ poll.todo : poll.got[b] = library[b]
  /\ ~fresh /\ poll.pc = "idle" =>
       \A b \in Book : HasProgress(ReadBook(library[b])) =>
                         seen[b] = ReadBook(library[b])

LEMMA PollInvNext ==
  ASSUME TypeOK, QueueInv, LibraryInv, PollInv, [Next]_vars
  PROVE  PollInv'
<1> DEFINE Flags == /\ health' = "disabled" => ~ready'
                    /\ poll'.pc = "idle" => poll'.todo = {}
<1>0. /\ health = "disabled" => ~ready
      /\ poll.pc = "idle" => poll.todo = {}
      /\ faults = 0 => PollSays
      /\ poll \in [pc : {"idle", "read"}, todo : SUBSET Book, got : [Book -> Cells]]
  BY DEF PollInv, PollSays, TypeOK
<1>1. faults' = 0 => faults = 0
  BY BoundsNext DEF TypeOK
<1>2. ASSUME NEW b \in Book, ReadProgress(b) \/ SkipBook(b)
      PROVE  /\ Flags /\ UNCHANGED <<ready, fresh, library, seen>>
             /\ b \in poll.todo /\ poll.pc = "read" /\ poll'.pc = "read"
             /\ poll'.todo = poll.todo \ {b}
             /\ SkipBook(b) => faults' = faults + 1
             /\ ReadProgress(b) => \A c \in Book :
                  poll'.got[c] = IF c = b THEN library[b] ELSE poll.got[c]
  <2>1. CASE ReadProgress(b)
    <3>1. /\ poll' = [poll EXCEPT !.todo = @ \ {b}, !.got[b] = library[b]]
          /\ b \in poll.todo /\ UNCHANGED <<health, ready, files, histories>>
      BY <2>1 DEF ReadProgress
    <3>2. /\ poll'.pc = poll.pc /\ poll'.todo = poll.todo \ {b}
          /\ \A c \in Book :
               poll'.got[c] = IF c = b THEN library[b] ELSE poll.got[c]
      BY <1>0, <3>1
    <3>3. ~SkipBook(b)
      <4>1. SkipBook(b) => faults' = faults + 1
        BY DEF SkipBook, Fault
      <4>2. faults' = faults /\ faults \in Nat
        BY <2>1, CalibreAssumption DEF ReadProgress, bounds, TypeOK
      <4> QED
        BY <4>1, <4>2
    <3> QED
      BY <1>0, <3>1, <3>2, <3>3 DEF files, histories
  <2>2. CASE SkipBook(b)
    <3>1. /\ poll' = [poll EXCEPT !.todo = @ \ {b}] /\ faults' = faults + 1
          /\ b \in poll.todo /\ UNCHANGED <<health, ready, files, histories>>
      BY <2>2 DEF SkipBook, Fault
    <3>2. poll'.pc = poll.pc /\ poll'.todo = poll.todo \ {b}
      BY <1>0, <3>1
    <3>3. ~ReadProgress(b)
      <4>1. ReadProgress(b) => faults' = faults
        BY DEF ReadProgress, bounds
      <4>2. faults \in Nat
        BY CalibreAssumption DEF TypeOK
      <4> QED
        BY <3>1, <4>1, <4>2
    <3> QED
      BY <1>0, <3>1, <3>2, <3>3 DEF files, histories
  <2> QED
    BY <1>2, <2>1, <2>2
<1>3. Flags
  <2>1. CASE Aside
    BY <1>0, <2>1 DEF Aside, Start, OpenGUI, CloseGUI, DelayPasses, StatFails,
                      CreateColumn
  <2>2. CASE Asking
    BY <1>0, <2>2, AskingFrame
  <2>3. CASE Reading
    <3>1. CASE Stat \/ ListFails
      <4>1. UNCHANGED <<health, ready>>
        BY <2>3, ReadingFrame
      <4>2. CASE Stat
        <5>1. poll'.pc = "read"
          BY <4>2 DEF Stat, NoPoll
        <5> QED
          BY <1>0, <4>1, <5>1
      <4>3. CASE ListFails
        BY <1>0, <4>1, <4>3 DEF ListFails, NoPoll
      <4> QED
        BY <3>1, <4>2, <4>3
    <3> QED
      BY <1>2, <2>3, <3>1 DEF Reading
  <2>4. CASE SubmitAll \/ Restart
    BY <1>0, <2>4 DEF SubmitAll, Restart, NoPoll
  <2>5. CASE \/ UNCHANGED vars
             \/ \E b \in Book : Edit(b)
             \/ WriteField \/ WriteFails
             \/ TakeQueue \/ BeginDrain \/ DrainField \/ DrainFails
    <3>1. UNCHANGED <<health, ready, poll>>
      BY <2>5 DEF vars, Edit, WriteField, WriteFails, TakeQueue, BeginDrain,
                  DrainField, DrainFails
    <3> QED
      BY <1>0, <3>1
  <2> QED
    BY <2>1, <2>2, <2>3, <2>4, <2>5, NextGroups
<1>4. ASSUME faults' = 0 PROVE PollSays'
  <2>0. PollSays /\ faults = 0
    BY <1>0, <1>1, <1>4
  <2>1. CASE /\ UNCHANGED <<ready, poll, seen>>
             /\ fresh' = TRUE \/ UNCHANGED <<fresh, library>>
    BY <2>0, <2>1 DEF PollSays
  <2>2. CASE Stat
    <3>1. ready /\ ready' = ready /\ poll'.pc = "read" /\ poll'.todo = Book
      BY <2>2 DEF Stat, NoPoll
    <3> QED
      BY <3>1 DEF PollSays
  <2>3. CASE ListFails \/ StatFails \/ Restart
    BY <1>4, <2>0, <2>3 DEF ListFails, StatFails, Restart, Fault
  <2>4. ASSUME NEW b \in Book, ReadProgress(b) \/ SkipBook(b) PROVE PollSays'
    <3>1. ~SkipBook(b)
      BY <1>2, <1>4, <2>0, <2>4
    <3>2. /\ UNCHANGED <<ready, fresh, library, seen>>
          /\ poll.pc = "read" /\ poll'.pc = "read"
          /\ poll'.todo = poll.todo \ {b}
          /\ \A c \in Book :
               poll'.got[c] = IF c = b THEN library[b] ELSE poll.got[c]
      BY <1>2, <2>4, <3>1
    <3> QED
      BY <2>0, <3>2 DEF PollSays
  <2>5. CASE SubmitAll
    <3>1. /\ poll.pc = "read" /\ poll.todo = {} /\ poll'.pc = "idle"
          /\ UNCHANGED <<ready, fresh, library>>
      BY <2>5 DEF SubmitAll, NoPoll, files
    <3>2. seen' = [b \in Book |->
                     IF b \notin {} /\ poll.got[b] # Unread
                        /\ HasProgress(ReadBook(poll.got[b]))
                     THEN ReadBook(poll.got[b]) ELSE seen[b]]
      <4>1. PICK refused \in SUBSET Book :
              /\ refused = {} \/ Fault
              /\ seen' = [b \in Book |->
                   IF b \notin refused /\ poll.got[b] # Unread
                      /\ HasProgress(ReadBook(poll.got[b]))
                   THEN ReadBook(poll.got[b]) ELSE seen[b]]
        BY <2>5 DEF SubmitAll
      <4>2. refused = {}
        BY <1>4, <2>0, <4>1 DEF Fault
      <4> QED
        BY <4>1, <4>2
    <3>3. ASSUME ~fresh', NEW b \in Book, HasProgress(ReadBook(library[b]))
          PROVE  seen'[b] = ReadBook(library[b])
      <4>1. poll.got[b] = library[b]
        BY <2>0, <3>1, <3>3 DEF PollSays
      <4> QED
        BY <3>2, <3>3, <4>1, RowIsRead
    <3> QED
      BY <2>0, <3>1, <3>3 DEF PollSays
  <2>6. CASE Start
    <3>1. /\ ~ready /\ fresh /\ poll.pc = "idle"
          /\ fresh' = fresh /\ poll' = poll
      BY <1>0, <2>0, <2>6 DEF Start, PollSays, files
    <3> QED
      BY <3>1, <2>0 DEF PollSays, TypeOK
  <2>7. CASE Aside /\ ~Start /\ ~StatFails
    BY <2>0, <2>1, <2>7 DEF Aside, OpenGUI, CloseGUI, DelayPasses, CreateColumn,
                            files, histories
  <2>8. CASE Asking
    BY <2>1, <2>8, AskingFrame DEF files
  <2>9. CASE \/ UNCHANGED vars
             \/ \E b \in Book : Edit(b)
             \/ WriteField \/ WriteFails
             \/ TakeQueue \/ BeginDrain \/ DrainField \/ DrainFails
    <3>1. UNCHANGED <<ready, poll, seen>>
      BY <2>9 DEF vars, histories, Edit, WriteField, WriteFails, TakeQueue,
                  BeginDrain, DrainField, DrainFails
    <3>2. fresh' = TRUE \/ UNCHANGED <<fresh, library>>
      BY <2>9 DEF vars, files, Edit, WriteField, WriteFails, TakeQueue,
                  BeginDrain, DrainField, DrainFails, SetField, FieldRefused
    <3> QED
      BY <2>1, <3>1, <3>2
  <2> QED
    BY <2>2, <2>3, <2>4, <2>5, <2>6, <2>7, <2>8, <2>9, NextGroups
       DEF Reading, Aside
<1> QED
  BY <1>3, <1>4 DEF PollInv, PollSays
-----------------------------------------------------------------------------
(* The theorems.                                                           *)

LEMMA CalibreInit == Init => CalibreInv
<1> SUFFICES ASSUME Init PROVE CalibreInv
  OBVIOUS
<1>1. TypeOK
  BY TypeInit
<1>2. QueueInv
  <2>1. Handled = <<>> /\ Len(Handled) = 0
    BY ConcatEmptySeq, EmptySeq DEF Init, Resting, Handled
  <2>2. Once(Handled) /\ \A j \in Job : ~Stands(j, Handled)
    BY <2>1 DEF Once, Stands
  <2> QED
    BY <2>2, QueueInvParts DEF Init, Accounted, WriterBusy, Idle
<1>3. LibraryInv
  <2>1. Standing
    BY DEF Init, Idle, Resting, Standing, WriterStands, DrainerStands
  <2>2. Rows
    <3>1. \A b \in Book : library[b]["progress"] = 0
      BY CalibreAssumption DEF Init
    <3>2. \A b : HandsOn(b) = {}
      BY DEF Init, Idle, Resting, HandsOn, WriterOn, DrainerOn
    <3> QED
      BY <3>1, <3>2, Jobs DEF Rows, RowSound
  <2> QED
    BY <2>1, <2>2, LibraryInvParts
<1>4. PollInv
  BY DEF Init, NoPoll, PollInv
<1> QED
  BY <1>1, <1>2, <1>3, <1>4 DEF CalibreInv

LEMMA CalibreNext == CalibreInv /\ [Next]_vars => CalibreInv'
BY TypeNext, QueueInvNext, LibraryInvNext, PollInvNext, PTL DEF CalibreInv

\* CalibreInv, which says where every job, every column and every reading of
\* the poll stands, holds in every state of the adapter.
THEOREM CalibreInductive == Spec => []CalibreInv
BY CalibreInit, CalibreNext, PTL DEF Spec

\* The goroutines and the columns stay where the code can bring them.
THEOREM TypeCorrect == Spec => []TypeOK
<1>1. CalibreInv => TypeOK
  BY DEF CalibreInv
<1> QED
  BY <1>1, CalibreInductive, PTL

\* No job that the outbox was told is queued is lost, doubled or written twice
\* from the queue, however often the drainer puts it back.
THEOREM QueueKeepsJobs == Spec => []AcknowledgedIsAccounted
<1>1. CalibreInv => AcknowledgedIsAccounted
  <2> SUFFICES ASSUME CalibreInv, NEW j \in Job
               PROVE  /\ answers[j] = "queued" =>
                           IF j \in written THEN ~Waiting(j)
                           ELSE Cardinality(Places(j)) = 1
                      /\ Waiting(j) => answers[j] = "queued"
    BY DEF AcknowledgedIsAccounted
  <2>1. Waiting(j) <=> answers[j] = "queued" /\ j \notin written
    BY DEF CalibreInv, QueueInv
  <2>2. ASSUME Waiting(j) PROVE Cardinality(Places(j)) = 1
    <3>1. PICK i : i \in Places(j)
      BY <2>2 DEF Waiting
    <3>2. \A k \in Places(j) : k = i
      BY <3>1 DEF CalibreInv, QueueInv, Places
    <3>3. Places(j) = {i}
      BY <3>1, <3>2
    <3> QED
      BY <3>3, FS_Singleton
  <2> QED
    BY <2>1, <2>2
<1> QED
  BY <1>1, CalibreInductive, PTL

\* After Stat and a poll without a fault the pipeline has seen what the library
\* says, however writes, edits and reads were mixed.
THEOREM PollMissesNothing == Spec => []PollSound
<1>1. CalibreInv => PollSound
  BY DEF CalibreInv, PollInv, PollSound
<1> QED
  BY <1>1, CalibreInductive, PTL
-----------------------------------------------------------------------------
(* What a row is read as.                                                  *)

\* A job's percentage is rounded half up to a whole per cent.
LEMMA ProgressOfJob ==
  ASSUME NEW j \in Job
  PROVE  /\ Progress(j) \in 0..100
         /\ 10 * Progress(j) <= Payloads[j].tenths + 5
         /\ 10 * Progress(j) + 4 >= Payloads[j].tenths
<1>1. j # 0 /\ j # Edited /\ Payloads[j] \in WritePayload
  BY Jobs
<1>2. Progress(j) = (Payloads[j].tenths + 5) \div 10
  BY <1>1 DEF Progress
<1>3. PICK t \in 0..1000 : t = Payloads[j].tenths
  BY <1>1 DEF WritePayload
<1>4. /\ (t + 5) \div 10 \in 0..100
      /\ 10 * ((t + 5) \div 10) <= t + 5
      /\ 10 * ((t + 5) \div 10) + 4 >= t
  OBVIOUS
<1> QED
  BY <1>2, <1>3, <1>4

\* The last whole write of a book is what the poller reads of it.
THEOREM WholeIsRead == Spec => []WrittenIsWhole
<1>1. CalibreInv => WrittenIsWhole
  <2> SUFFICES ASSUME CalibreInv, NEW b \in Book, NEW j \in Job,
                      library[b]["progress"] = j, b \notin torn,
                      b \notin {BookOf(k) : k \in Writing \cup Draining}
               PROVE  RowIsOf(library[b], j)
    BY DEF WrittenIsWhole
  <2> DEFINE read == ReadBook(library[b])
             told == IF Payloads[j].locator = "page" THEN read.page
                     ELSE read.percent
             mode == Mode(Cell(library[b], "mode"))
  <2>1. \A i \in FieldsOf(j) : library[b][WriteOrder[i]] = j
    <3>1. HandsOn(b) = {}
      <4>1. WriterOn(b) = {}
        BY DEF WriterOn, Writing
      <4>2. DrainerOn(b) = {}
        BY DEF DrainerOn, Draining, CalibreInv, TypeOK
      <4> QED
        BY <4>1, <4>2 DEF HandsOn
    <3>2. RowSound(library[b], HandsOn(b))
      BY LibraryInvParts DEF CalibreInv, Rows
    <3> QED
      BY <3>1, <3>2 DEF RowSound
  <2>2. j # 0 /\ Payloads[j] \in WritePayload
    BY Jobs
  <2>3. \A i \in {2, 3} : WriteOrder[i] \in Fields =>
                            Cell(library[b], WriteOrder[i]) = j
    <3>1. \A i \in {2, 3} : WriteOrder[i] \in Fields => i \in FieldsOf(j)
      BY DEF FieldsOf, WriteOrder
    <3> QED
      BY <2>1, <3>1 DEF Cell
  <2>4. Cell(library[b], "progress") = j
    BY CalibreAssumption DEF Cell
  <2>5. /\ read.percent = PercentOf(Progress(j), mode)
        /\ read.page = PageOf(Progress(j), mode)
        /\ read.status = StatusOrUnknown(Status(Cell(library[b], "status")))
    BY <2>4 DEF ReadBook, ParseOPFEvent
  <2> HIDE DEF read
  <2>6. "status" \in Fields =>
          read.status = StatusOrUnknown(Payloads[j].status)
    BY <2>2, <2>3, <2>5 DEF Status, WriteOrder
  <2>7. ASSUME "mode" \in Fields
        PROVE  /\ told # Nil => told = Progress(j)
               /\ told = Nil => Progress(j) = 0
    <3>1. mode = IF Payloads[j].locator = "" THEN "percent"
                 ELSE Payloads[j].locator
      <4>1. Cell(library[b], "mode") = j
        BY <2>3, <2>7 DEF WriteOrder
      <4> QED
        BY <2>2, <4>1 DEF Mode
    <3>2. Progress(j) \in 0..100 /\ Progress(j) # Nil
      BY ProgressOfJob DEF Nil
    <3> HIDE DEF mode
    <3>3. CASE Payloads[j].locator = "page"
      BY <2>5, <3>1, <3>2, <3>3 DEF PageOf
    <3>4. CASE Payloads[j].locator # "page"
      <4>1. mode # "page" /\ told = PercentOf(Progress(j), mode)
        BY <2>5, <3>1, <3>4
      <4> QED
        BY <3>2, <4>1 DEF PercentOf
    <3> QED
      BY <3>3, <3>4
  <2>8. PICK t \in 0..1000 : t = Payloads[j].tenths
    BY <2>2 DEF WritePayload
  <2>10. PICK p \in 0..100 : p = Progress(j) /\ 10 * p <= t + 5 /\ 10 * p + 4 >= t
    BY <2>8, ProgressOfJob
  <2> HIDE DEF told
  <2>9. ASSUME "mode" \in Fields
        PROVE  /\ told # Nil => 10 * told <= Payloads[j].tenths + 5
                                /\ 10 * told + 4 >= Payloads[j].tenths
               /\ told = Nil => Payloads[j].tenths < 5
    <3>1. CASE told # Nil
      <4>1. told = p
        BY <2>7, <2>9, <2>10, <3>1
      <4> QED
        BY <2>8, <2>10, <3>1, <4>1
    <3>2. CASE told = Nil
      <4>1. p = 0
        BY <2>7, <2>9, <2>10, <3>2
      <4>2. t < 5
        BY <2>10, <4>1
      <4> QED
        BY <2>8, <3>2, <4>2
    <3> QED
      BY <3>1, <3>2
  <2> QED
    BY <2>1, <2>6, <2>9 DEF told, read, RowIsOf
<1> QED
  BY <1>1, CalibreInductive, PTL

\* The two parsers agree on every progress that the library can hold.
THEOREM ParsersAgreeOnLibrary == Spec => []ParsersAgree
<1>1. ASSUME NEW progress \in Nat, NEW mode, NEW status
      PROVE  LET read == ParseOPFEvent(progress, mode, status, 0)
                 opf == BuildEvent(progress, mode, status, 0) IN
             /\ HasProgress(read) = HasProgress(opf)
             /\ read.percent = opf.percent /\ read.page = opf.page
             /\ read.status = opf.status /\ read.position = opf.position
             /\ read.locator # opf.locator => mode = ""
  <2> DEFINE read == ParseOPFEvent(progress, mode, status, 0)
             opf == BuildEvent(progress, mode, status, 0)
             percent == PercentOf(progress, mode)
             page == PageOf(progress, mode)
             told == StatusOrUnknown(status)
  <2>1. /\ read = [percent |-> percent, page |-> page, status |-> told,
                   locator |-> mode, position |-> 0]
        /\ opf = [percent |-> percent, page |-> page, status |-> told,
                  locator |-> IF mode = "" THEN "percent" ELSE mode,
                  position |-> 0]
    BY DEF ParseOPFEvent, BuildEvent
  <2> HIDE DEF read, opf, percent, page, told
  <2>2. HasProgress(read) = HasProgress(opf)
    BY <2>1 DEF HasProgress
  <2>3. /\ read.percent = opf.percent /\ read.page = opf.page
        /\ read.status = opf.status /\ read.position = opf.position
    BY <2>1
  <2>4. read.locator # opf.locator => mode = ""
    BY <2>1
  <2> QED
    BY <2>2, <2>3, <2>4 DEF read, opf
<1>2. ASSUME TypeOK, NEW b \in Book
      PROVE  Progress(library[b]["progress"]) \in Nat
  <2>1. library[b]["progress"] \in 0..Edited
    BY <1>2, CalibreAssumption DEF TypeOK
  <2>2. \/ library[b]["progress"] \in Job
        \/ library[b]["progress"] \in {0, Edited}
    BY <2>1, CalibreAssumption, LenProperties DEF Job, Edited
  <2> QED
    BY <2>2, ProgressOfJob DEF Progress, Nil
<1>3. ASSUME TypeOK PROVE ParsersAgree
  <2> SUFFICES ASSUME NEW b \in Book,
                      NEW mode \in {"", "percent", "page", "raw"},
                      NEW status \in {"", "not_started", "finished"}
               PROVE  LET progress == Progress(library[b]["progress"])
                          read == ParseOPFEvent(progress, mode, status, 0)
                          opf == BuildEvent(progress, mode, status, 0) IN
                      /\ HasProgress(read) = HasProgress(opf)
                      /\ read.percent = opf.percent /\ read.page = opf.page
                      /\ read.status = opf.status /\ read.position = opf.position
                      /\ read.locator # opf.locator => mode = ""
    BY Zenon DEF ParsersAgree
  <2>1. PICK n \in Nat : n = Progress(library[b]["progress"])
    BY <1>2, <1>3
  <2>2. LET read == ParseOPFEvent(n, mode, status, 0)
            opf == BuildEvent(n, mode, status, 0) IN
        /\ HasProgress(read) = HasProgress(opf)
        /\ read.percent = opf.percent /\ read.page = opf.page
        /\ read.status = opf.status /\ read.position = opf.position
        /\ read.locator # opf.locator => mode = ""
    BY <1>1
  <2> QED
    BY <2>1, <2>2
<1> QED
  BY <1>3, TypeCorrect, PTL
\* On a row with whatever percentage the bridge's gates and the conflict engine
\* do not contradict each other.
LEMMA GatesAgreeOn ==
  ASSUME NEW percent
  PROVE  Bridge!GatesAgree(percent)
<1> SUFFICES ASSUME NEW canon \in Bridge!GatedRow(percent),
                    NEW obs \in Bridge!Observation
             PROVE  /\ Bridge!EvaluateWriteback(canon, obs) =>
                         /\ ~Bridge!FinishedEarly(canon, Bridge!EventOf(obs))
                         /\ ~Bridge!LowConfidence(Bridge!EventOf(obs))
                    /\ Bridge!FinishedEarly(canon, Bridge!EventOf(obs)) =>
                         Bridge!DetectStaleFinished(canon, obs)
  BY DEF Bridge!GatesAgree
<1>1. /\ Bridge!EventOf(obs).source = "goodreads_bridge"
      /\ Bridge!EventOf(obs).confidence = obs.confidence
      /\ Bridge!EventOf(obs).status = "finished" => Bridge!FinishedClaim(obs)
  BY DEF Bridge!EventOf
<1>2. Bridge!FinishedEarly(canon, Bridge!EventOf(obs)) =>
        Bridge!DetectStaleFinished(canon, obs)
  BY <1>1 DEF Bridge!FinishedEarly, Bridge!DetectStaleFinished
<1>3. Bridge!EvaluateWriteback(canon, obs) =>
        ~Bridge!LowConfidence(Bridge!EventOf(obs))
  BY <1>1 DEF Bridge!EvaluateWriteback, Bridge!LowConfidence, Bridge!Observation
<1> QED
  BY <1>2, <1>3 DEF Bridge!EvaluateWriteback

\* In particular on what the poll submits.
THEOREM GatesAgreeOnPolls == Spec => GatesAgreeWithEngine
<1>1. [\A b \in Book :
         LET percent == seen'[b].percent
         IN seen'[b] # seen[b] =>
              Bridge!GatesAgree(IF percent = Nil THEN Bridge!Nil
                                ELSE percent)]_vars
  BY GatesAgreeOn
<1> QED
  BY <1>1, PTL DEF Spec, GatesAgreeWithEngine
=============================================================================
