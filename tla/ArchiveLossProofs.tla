-------------------------- MODULE ArchiveLossProofs --------------------------
(***************************************************************************)
(* Theorems about what the archive may lose, and what it says of it: every *)
(* file that can be read is archived or its loss shows, a failed upload    *)
(* has a cause, and each row is observed once.  They need more of the      *)
(* history than IInv of ArchiveProofs keeps: ArchiveInv.                   *)
(***************************************************************************)
EXTENDS ArchiveProofs

-----------------------------------------------------------------------------
(* What one step of an upload does to everything else.                     *)

\* The uploads stay where they are, and all but n as they are.
Moved(n) ==
  /\ Upload' = Upload
  /\ \A m \in Upload : /\ uploads'[m].place = uploads[m].place
                       /\ m # n => uploads'[m] = uploads[m]

\* A row keeps its bytes.
RowsStay ==
  \A k \in Key : rows[k] # Nil => rows'[k] # Nil /\ rows'[k].bytes = rows[k].bytes

LEMMA StagedMoves ==
  ASSUME NEW n \in Upload, NEW s, Staged(n, s)
  PROVE  /\ Moved(n) /\ uploads'[n].stage = s
         /\ uploads'[n].body = uploads[n].body
         /\ uploads'[n].version = uploads[n].version
BY DEF Staged, Moved

\* A probe sets version and stage.
LEMMA ProbeEffect ==
  ASSUME IInv, NEW n \in Upload, Probe(n)
  PROVE  /\ Moved(n) /\ uploads'[n].stage = "create"
         /\ uploads'[n].body = uploads[n].body
<1> DEFINE new == [uploads[n] EXCEPT !.version = NextVersion(uploads[n].place),
                                     !.stage = "create"]
<1>1. uploads[n] \in UploadRecord /\ uploads \in Seq(UploadRecord)
  BY UploadType DEF IInv, TypeOK
<1>2. new.place = uploads[n].place /\ new.body = uploads[n].body
      /\ new.stage = "create"
  BY <1>1 DEF UploadRecord
<1>3. uploads' = [uploads EXCEPT ![n] = new]
  BY DEF Probe
<1> HIDE DEF new
<1>4. DOMAIN uploads' = DOMAIN uploads
      /\ \A m \in Upload : uploads'[m] = IF m = n THEN new ELSE uploads[m]
  BY <1>1, <1>3 DEF Upload
<1> QED
  BY <1>2, <1>4 DEF Moved, Upload

\* A PUT that breaks off keeps its place and stage.
LEMMA BrokenEffect ==
  ASSUME IInv, NEW n \in Upload, BreakOff(n)
  PROVE  /\ Moved(n) /\ uploads'[n].stage = "copying"
         /\ uploads'[n].body = Broken
         /\ uploads'[n].version = uploads[n].version
<1> DEFINE new == [uploads[n] EXCEPT !.body = Broken]
<1>1. uploads[n] \in UploadRecord /\ uploads \in Seq(UploadRecord)
  BY UploadType DEF IInv, TypeOK
<1>2. new.place = uploads[n].place /\ new.body = Broken
      /\ new.stage = "copying" /\ new.version = uploads[n].version
  BY <1>1 DEF UploadRecord, BreakOff
<1>3. uploads' = [uploads EXCEPT ![n] = new]
  BY DEF BreakOff
<1> HIDE DEF new
<1>4. DOMAIN uploads' = DOMAIN uploads
      /\ \A m \in Upload : uploads'[m] = IF m = n THEN new ELSE uploads[m]
  BY <1>1, <1>3 DEF Upload
<1> QED
  BY <1>2, <1>4 DEF Moved, Upload

\* A PUT is one more upload behind the others.
LEMMA PutAppends ==
  ASSUME IInv, NEW a \in Place, NEW b \in Body \ {Broken}, Put(a, b)
  PROVE  \E l \in Upload' :
           /\ l \notin Upload /\ Upload' = Upload \cup {l}
           /\ \A m \in Upload : uploads'[m] = uploads[m]
           /\ uploads'[l].place = a /\ uploads'[l].body = b
           /\ uploads'[l].stage = "copying"
<1> DEFINE new == [place |-> a, body |-> b, version |-> 0, stage |-> "copying"]
           l == Len(uploads) + 1
<1>1. uploads \in Seq(UploadRecord)
  BY DEF IInv, TypeOK
<1>2. uploads' = Append(uploads, new)
  BY DEF Put
<1>3. new.place = a /\ new.body = b /\ new.stage = "copying"
  OBVIOUS
<1> HIDE DEF new
<1>4. /\ DOMAIN uploads' = DOMAIN uploads \cup {l} /\ l \notin DOMAIN uploads
      /\ uploads'[l] = new
      /\ \A m \in DOMAIN uploads : uploads'[m] = uploads[m]
  BY <1>1, <1>2
<1> QED
  BY <1>3, <1>4 DEF Upload

\* Every upload that is lost at a restart was in progress.
LEMMA RestartEffect ==
  ASSUME IInv, Restart
  PROVE  /\ Upload' = Upload
         /\ \A m \in Upload :
              /\ uploads'[m].place = uploads[m].place
              /\ uploads'[m].stage =
                   IF InProgress(m) THEN "lost" ELSE uploads[m].stage
<1>1. \A m \in Upload : uploads[m] \in UploadRecord
  BY UploadType DEF IInv
<1>2. Upload' = Upload
  BY DEF Restart, Upload
<1>3. ASSUME NEW m \in Upload
      PROVE  /\ uploads'[m].place = uploads[m].place
             /\ uploads'[m].stage =
                  IF InProgress(m) THEN "lost" ELSE uploads[m].stage
  <2> DEFINE lost == [uploads[m] EXCEPT !.stage = "lost"]
  <2>1. lost.place = uploads[m].place /\ lost.stage = "lost"
    BY <1>1 DEF UploadRecord
  <2>2. uploads'[m] = IF InProgress(m) THEN lost ELSE uploads[m]
    BY DEF Restart
  <2> HIDE DEF lost
  <2> QED
    BY <2>1, <2>2
<1> QED
  BY <1>2, <1>3

\* The observer marks its own row, and no other.
LEMMA ObserverExact ==
  ASSUME IInv, RowsApart, NEW n \in Upload, UnknownFormat(n) \/ MarkParsed(n)
  PROVE  /\ KeyOf(n) \in Key /\ rows[KeyOf(n)] # Nil /\ rows'[KeyOf(n)] # Nil
         /\ \A k \in Key : k # KeyOf(n) => rows'[k] = rows[k]
         /\ rows'[KeyOf(n)].bytes = rows[KeyOf(n)].bytes
         /\ UnknownFormat(n) => /\ rows'[KeyOf(n)].parseError
                                /\ rows'[KeyOf(n)].parsed = rows[KeyOf(n)].parsed
         /\ MarkParsed(n) =>
              /\ rows'[KeyOf(n)].parsed
              /\ rows'[KeyOf(n)].parseError = rows[KeyOf(n)].parseError
<1> DEFINE key == KeyOf(n)
           wrong == [rows[key] EXCEPT !.parseError = TRUE]
           right == [rows[key] EXCEPT !.parsed = TRUE]
<1>1. uploads[n].stage \in {"observe", "mark"}
  BY DEF UnknownFormat, MarkParsed
<1>2. key \in Key /\ rows[key] # Nil /\ rows[key] \in UploadRow
  <2>1. uploads[n].version # 0 /\ rows[key] # Nil
    BY <1>1 DEF IInv, Locked
  <2>2. key \in Key
    BY <2>1, UploadType DEF IInv
  <2> QED
    BY <2>1, <2>2 DEF IInv, TypeOK
<1>3. /\ wrong \in UploadRow /\ wrong.parseError
      /\ wrong.parsed = rows[key].parsed
      /\ right \in UploadRow /\ right.parsed
      /\ right.parseError = rows[key].parseError
  BY <1>2 DEF UploadRow
<1>4. ASSUME NEW row \in UploadRow, rows' = UpdateRows(key, row)
      PROVE  /\ \A k \in Key : k # key => rows'[k] = rows[k]
             /\ rows'[key] # Nil /\ rows'[key].bytes = rows[key].bytes
             /\ rows'[key].parsed = row.parsed
             /\ rows'[key].parseError = row.parseError
  <2> DEFINE new(k) == [row EXCEPT !.bytes = rows[k].bytes]
  <2>1. rows' = [k \in Key |-> IF rows[k] # Nil /\ FileOf(k) = FileOf(key)
                               THEN new(k) ELSE rows[k]]
    BY <1>4 DEF UpdateRows
  <2>2. /\ new(key) \in UploadRow /\ new(key).bytes = rows[key].bytes
        /\ new(key).parsed = row.parsed /\ new(key).parseError = row.parseError
    BY <1>2 DEF UploadRow
  <2>3. new(key) # Nil
    BY <2>2, ArchiveAssumption
  <2> HIDE DEF new, key
  <2>4. rows'[key] = new(key)
    BY <1>2, <2>1
  <2>5. \A k \in Key : k # key => rows'[k] = rows[k]
    BY <1>2, <2>1 DEF RowsApart
  <2> QED
    BY <2>2, <2>3, <2>4, <2>5
<1>5. UnknownFormat(n) => rows' = UpdateRows(key, wrong)
  BY DEF UnknownFormat
<1>6. MarkParsed(n) => rows' = UpdateRows(key, right)
  BY DEF MarkParsed
<1> HIDE DEF key, wrong, right
<1>7. CASE UnknownFormat(n)
  <2>1. ~MarkParsed(n)
    BY <1>7 DEF UnknownFormat, MarkParsed
  <2> QED
    BY <1>2, <1>3, <1>4, <1>5, <1>7, <2>1 DEF key
<1>8. CASE MarkParsed(n)
  <2>1. ~UnknownFormat(n)
    BY <1>8 DEF UnknownFormat, MarkParsed
  <2> QED
    BY <1>2, <1>3, <1>4, <1>6, <1>8, <2>1 DEF key
<1> QED
  BY <1>7, <1>8

\* A step of upload n but for a probe or a broken body: its stage moves.
Steps(n) ==
  \/ Close(n) \/ Create(n) \/ Write(n) \/ WriteManifest(n) \/ Insert(n)
  \/ Collide(n) \/ ArchiveError(n) \/ SubmitProgress(n) \/ UnknownFormat(n)
  \/ MarkParsed(n) \/ ObserverError(n)

LEMMA StepMoves ==
  ASSUME IInv, NEW n \in Upload, Steps(n)
  PROVE  /\ Moved(n)
         /\ uploads'[n].body = uploads[n].body
         /\ uploads'[n].version = uploads[n].version
         /\ tree' = tree
         /\ InProgress(n)
         /\ davHealth = "degraded" => davHealth' = "degraded"
<1>1. PICK s \in Stage : Goto(n, s)
  BY DEF Steps, Close, Create, Write, WriteManifest, Insert, Collide,
         ArchiveError, Fail, SubmitProgress, UnknownFormat, MarkParsed,
         ObserverError, Stage
<1>2. Staged(n, s)
  BY <1>1, GotoEffect DEF IInv
<1>3. tree' = tree /\ (davHealth = "degraded" => davHealth' = "degraded")
  BY DEF Steps, Close, Create, Write, WriteManifest, Insert, Collide,
         ArchiveError, Fail, SubmitProgress, UnknownFormat, MarkParsed,
         ObserverError
<1>4. InProgress(n)
  BY DEF Steps, Close, Create, Write, WriteManifest, Insert, Collide,
         ArchiveError, Archiving, SubmitProgress, UnknownFormat, MarkParsed,
         ObserverError, InProgress
<1> QED
  BY <1>2, <1>3, <1>4, StagedMoves

\* Where it moves.
LEMMA StepStage ==
  ASSUME IInv, NEW n \in Upload, Steps(n)
  PROVE  /\ uploads'[n].stage = "mark" => SubmitProgress(n)
         /\ uploads'[n].stage = "observe" => Insert(n)
         /\ uploads'[n].stage = "failed" =>
              davHealth' = "degraded" /\ (Collide(n) \/ ArchiveError(n))
         /\ uploads'[n].stage = "done" =>
              \/ uploads[n].body = Empty
              \/ uploads[n].stage \in {"observe", "mark"}
         /\ uploads'[n].stage # "lost"
<1>1. uploads \in Seq(UploadRecord) /\ n \in DOMAIN uploads
  BY DEF IInv, TypeOK, Upload
<1>2. ASSUME NEW s \in Stage, Goto(n, s) PROVE uploads'[n].stage = s
  BY <1>2, GotoEffect DEF IInv, Staged
<1>3. CASE Close(n)
  BY <1>2, <1>3 DEF Close, Stage
<1>4. CASE Create(n) \/ Write(n) \/ WriteManifest(n)
  BY <1>2, <1>4 DEF Create, Write, WriteManifest, Stage
<1>5. CASE Insert(n) \/ SubmitProgress(n)
  BY <1>2, <1>5 DEF Insert, SubmitProgress, Stage
<1>6. CASE Collide(n) \/ ArchiveError(n)
  BY <1>2, <1>6 DEF Collide, ArchiveError, Fail, Stage
<1>7. CASE UnknownFormat(n) \/ MarkParsed(n) \/ ObserverError(n)
  BY <1>2, <1>7 DEF UnknownFormat, MarkParsed, ObserverError, Stage
<1> QED
  BY <1>3, <1>4, <1>5, <1>6, <1>7 DEF Steps

\* Rows are added by Insert only, and stay.
LEMMA StepRows ==
  ASSUME IInv, RowsApart, NEW n \in Upload, Steps(n)
  PROVE  /\ RowsStay
         /\ ~Insert(n) => \A k \in Key : rows'[k] # Nil => rows[k] # Nil
<1>1. CASE Insert(n)
  BY <1>1, InsertEffect DEF RowsStay
<1>2. CASE UnknownFormat(n) \/ MarkParsed(n)
  BY <1>2, ObserverExact DEF RowsStay
<1>3. CASE ~Insert(n) /\ ~UnknownFormat(n) /\ ~MarkParsed(n)
  <2>1. rows' = rows
    BY <1>3 DEF Steps, Close, Create, Write, WriteManifest, Collide,
                ArchiveError, SubmitProgress, ObserverError
  <2> QED
    BY <2>1 DEF RowsStay
<1>4. ~(Insert(n) /\ (UnknownFormat(n) \/ MarkParsed(n)))
  BY DEF Insert, UnknownFormat, MarkParsed
<1> QED
  BY <1>1, <1>2, <1>3, <1>4, ObserverExact

-----------------------------------------------------------------------------
(* What can be read is archived, or its loss shows.                        *)

\* A step of an upload never changes what a GET answers, but for BreakOff,
\* which changes both sides.
LEMMA CurrentUpload ==
  ASSUME ArchiveInv, NEW n \in Upload, Steps(n) PROVE Current'
<1> USE DEF ArchiveInv
<1>1. /\ Moved(n) /\ uploads'[n].body = uploads[n].body
      /\ uploads'[n].version = uploads[n].version /\ tree' = tree
      /\ InProgress(n)
  BY StepMoves
<1> SUFFICES ASSUME NEW m \in Upload, InProgress(m)'
             PROVE  /\ tree'[uploads'[m].place] = uploads'[m].body
                    /\ uploads'[m].stage \in {"observe", "mark"} =>
                         rows'[KeyOf(m)'].bytes = uploads'[m].body
  BY <1>1 DEF Current, Moved
<1>2. InProgress(m) /\ uploads'[m].body = uploads[m].body /\ KeyOf(m)' = KeyOf(m)
      /\ uploads'[m].place = uploads[m].place
  BY <1>1 DEF Moved, InProgress, KeyOf
<1>3. ASSUME uploads'[m].stage \in {"observe", "mark"}
      PROVE  rows'[KeyOf(m)].bytes = uploads[m].body
  <2>1. CASE Insert(n) /\ m = n
    BY <2>1, InsertEffect
  <2>2. CASE uploads[m].stage \in {"observe", "mark"}
    <3>1. uploads[m].version # 0 /\ rows[KeyOf(m)] # Nil
      BY <2>2 DEF IInv, Locked
    <3>2. KeyOf(m) \in Key
      BY <3>1, UploadType DEF IInv
    <3> QED
      BY <1>2, <2>2, <3>1, <3>2, StepRows DEF RowsStay, Current
  <2>3. CASE m = n /\ ~Insert(n) /\ uploads[n].stage \notin {"observe", "mark"}
    BY <1>3, <2>3, StepStage DEF SubmitProgress
  <2>4. m # n => uploads'[m].stage = uploads[m].stage
    BY <1>1 DEF Moved
  <2> QED
    BY <1>3, <2>1, <2>2, <2>3, <2>4
<1> QED
  BY <1>1, <1>2, <1>3 DEF Current

\* Two uploads under way have different places.
LEMMA PlacesApart ==
  ASSUME IInv, NEW m \in Upload, NEW n \in Upload,
         InProgress(m), InProgress(n), m # n
  PROVE  uploads[m].place # uploads[n].place
BY DEF IInv, Locked

LEMMA CurrentOther ==
  ASSUME ArchiveInv, NEW n \in Upload, Probe(n) \/ BreakOff(n) PROVE Current'
<1> USE DEF ArchiveInv
<1>1. CASE Probe(n)
  <2>1. /\ Moved(n) /\ uploads'[n].stage = "create"
        /\ uploads'[n].body = uploads[n].body /\ InProgress(n)
        /\ tree' = tree /\ rows' = rows
    BY <1>1, ProbeEffect DEF Probe, InProgress
  <2>2. ASSUME NEW m \in Upload, InProgress(m)'
        PROVE  /\ tree'[uploads'[m].place] = uploads'[m].body
               /\ uploads'[m].stage \in {"observe", "mark"} =>
                    rows'[KeyOf(m)'].bytes = uploads'[m].body
    <3>1. CASE m = n
      BY <2>1, <3>1 DEF Current, Moved
    <3>2. CASE m # n
      BY <2>1, <2>2, <3>2 DEF Current, Moved, InProgress, KeyOf
    <3> QED
      BY <3>1, <3>2
  <2> QED
    BY <2>1, <2>2 DEF Current, Moved
<1>2. CASE BreakOff(n)
  <2>1. /\ Moved(n) /\ uploads'[n].stage = "copying"
        /\ uploads'[n].body = Broken /\ InProgress(n)
        /\ tree' = [tree EXCEPT ![uploads[n].place] = Broken] /\ rows' = rows
        /\ tree \in [Place -> Body \cup {Nil}]
    BY <1>2, BrokenEffect DEF BreakOff, InProgress, IInv, TypeOK
  <2>2. ASSUME NEW m \in Upload, InProgress(m)'
        PROVE  /\ tree'[uploads'[m].place] = uploads'[m].body
               /\ uploads'[m].stage \in {"observe", "mark"} =>
                    rows'[KeyOf(m)'].bytes = uploads'[m].body
    <3>0. uploads[m].place \in Place
      BY UploadType DEF IInv
    <3>1. CASE m = n
      BY <2>1, <3>0, <3>1 DEF Moved
    <3>2. CASE m # n
      <4>1. uploads'[m] = uploads[m] /\ InProgress(m) /\ KeyOf(m)' = KeyOf(m)
        BY <2>1, <2>2, <3>2 DEF Moved, InProgress, KeyOf
      <4>2. uploads[m].place # uploads[n].place
        BY <2>1, <3>2, <4>1, PlacesApart
      <4> QED
        BY <2>1, <3>0, <4>1, <4>2 DEF Current
    <3> QED
      BY <3>1, <3>2
  <2> QED
    BY <2>1, <2>2 DEF Current, Moved
<1> QED
  BY <1>1, <1>2

\* The lock keeps requests off the places of uploads under way.
LEMMA CurrentRequest ==
  ASSUME ArchiveInv, Request \/ Restart \/ UNCHANGED vars PROVE Current'
<1> USE DEF ArchiveInv
<1>0. tree \in [Place -> Body \cup {Nil}]
      /\ \A m \in Upload : uploads[m].place \in Place
  BY UploadType DEF IInv, TypeOK
<1>1. ASSUME UNCHANGED <<uploads, rows>>,
             \A m \in Upload : InProgress(m) =>
               tree'[uploads[m].place] = tree[uploads[m].place]
      PROVE  Current'
  BY <1>1 DEF Current, Upload, InProgress, KeyOf
<1>2. CASE \E u \in User : GenerateSetup(u) \/ SetupLost(u)
  BY <1>1, <1>2 DEF GenerateSetup, SetupLost
<1>3. CASE UNCHANGED vars
  BY <1>1, <1>3 DEF vars
<1>4. CASE \E a \in Place : RemoveAll(a)
  <2>1. PICK a \in Place : RemoveAll(a)
    BY <1>4
  <2>2. \A m \in Upload : InProgress(m) => uploads[m].place # a
    BY <2>1 DEF RemoveAll, Unlocked
  <2> QED
    BY <1>0, <1>1, <2>1, <2>2 DEF RemoveAll
<1>5. CASE \E a, b \in Place : Rename(a, b)
  <2>1. PICK a \in Place, b \in Place : Rename(a, b)
    BY <1>5
  <2>2. \A m \in Upload : InProgress(m) =>
          uploads[m].place # a /\ uploads[m].place # b
    BY <2>1 DEF Rename, Unlocked
  <2> QED
    BY <1>0, <1>1, <2>1, <2>2 DEF Rename
<1>6. CASE \E a \in Place : \E b \in Body \ {Broken} : Put(a, b)
  <2>1. PICK a \in Place, b \in Body \ {Broken} : Put(a, b)
    BY <1>6
  <2>2. PICK l \in Upload' :
           /\ l \notin Upload /\ Upload' = Upload \cup {l}
           /\ \A m \in Upload : uploads'[m] = uploads[m]
           /\ uploads'[l].place = a /\ uploads'[l].body = b
           /\ uploads'[l].stage = "copying"
    BY <2>1, PutAppends
  <2>3. tree' = [tree EXCEPT ![a] = b] /\ rows' = rows
        /\ \A m \in Upload : InProgress(m) => uploads[m].place # a
    BY <2>1 DEF Put, Unlocked
  <2>4. ASSUME NEW m \in Upload', InProgress(m)'
        PROVE  /\ tree'[uploads'[m].place] = uploads'[m].body
               /\ uploads'[m].stage \in {"observe", "mark"} =>
                    rows'[KeyOf(m)'].bytes = uploads'[m].body
    <3>1. CASE m = l
      BY <1>0, <2>2, <2>3, <3>1
    <3>2. CASE m \in Upload
      <4>1. uploads'[m] = uploads[m] /\ InProgress(m) /\ KeyOf(m)' = KeyOf(m)
        BY <2>2, <2>4, <3>2 DEF InProgress, KeyOf
      <4> QED
        BY <1>0, <2>3, <3>2, <4>1 DEF Current
    <3> QED
      BY <2>2, <3>1, <3>2
  <2> QED
    BY <2>4 DEF Current
<1>7. CASE Restart
  BY <1>7, RestartEffect DEF Current, InProgress
<1> QED
  BY <1>2, <1>3, <1>4, <1>5, <1>6, <1>7 DEF Request

\* What ReadableIsArchived says of one place.
Excused(a) ==
  \/ \E n \in Upload : InProgress(n) /\ uploads[n].place = a
  \/ \E k \in Key : k[1][1] = a[1] /\ rows[k] # Nil /\ rows[k].bytes = tree[a]
  \/ davHealth = "degraded"

LEMMA ExcusedIsReadable ==
  /\ ReadableIsArchived <=>
       \A a \in Place : tree[a] \notin {Nil, Empty} => Excused(a)
  /\ ReadableIsArchived' <=>
       \A a \in Place : tree'[a] \notin {Nil, Empty} => Excused(a)'
BY DEF ReadableIsArchived, Excused

\* An upload ends with its row, without a byte, or with a bad health.
LEMMA ReadableUpload ==
  ASSUME ArchiveInv, NEW n \in Upload, Steps(n) PROVE ReadableIsArchived'
<1> USE DEF ArchiveInv
<1>1. /\ Moved(n) /\ tree' = tree /\ InProgress(n)
      /\ davHealth = "degraded" => davHealth' = "degraded"
  BY StepMoves
<1>2. RowsStay
  BY StepRows
<1> SUFFICES ASSUME NEW a \in Place, tree[a] \notin {Nil, Empty}
             PROVE  Excused(a)'
  BY <1>1, ExcusedIsReadable
<1>3. Excused(a)
  BY ExcusedIsReadable
<1>4. ASSUME NEW k \in Key, k[1][1] = a[1], rows[k] # Nil, rows[k].bytes = tree[a]
      PROVE  Excused(a)'
  BY <1>1, <1>2, <1>4 DEF RowsStay, Excused
<1>5. ASSUME NEW m \in Upload, InProgress(m), uploads[m].place = a, m # n
      PROVE  Excused(a)'
  <2>1. m \in Upload' /\ uploads'[m] = uploads[m]
    BY <1>1, <1>5 DEF Moved
  <2>2. InProgress(m)' /\ uploads'[m].place = a
    BY <1>5, <2>1 DEF InProgress
  <2> QED
    BY <2>1, <2>2 DEF Excused
<1>6. ASSUME uploads[n].place = a PROVE Excused(a)'
  <2>1. CASE InProgress(n)'
    BY <1>1, <1>6, <2>1 DEF Moved, Excused
  <2>2. CASE uploads'[n].stage = "failed"
    BY <2>2, StepStage DEF Excused
  <2>3. CASE uploads'[n].stage = "done"
    <3>1. uploads[n].body = tree[a]
      BY <1>1, <1>6 DEF Current
    <3>2. uploads[n].stage \in {"observe", "mark"}
      BY <2>3, <3>1, StepStage
    <3>3. /\ uploads[n].version # 0 /\ rows[KeyOf(n)] # Nil
          /\ rows[KeyOf(n)].bytes = tree[a]
      BY <1>1, <3>1, <3>2 DEF IInv, Locked, Current
    <3>4. KeyOf(n) \in Key /\ KeyOf(n)[1][1] = a[1]
      BY <1>6, <3>3, UploadType DEF IInv, KeyOf
    <3> QED
      BY <1>4, <3>3, <3>4
  <2>4. uploads'[n].stage # "lost"
    BY StepStage
  <2> QED
    BY <2>1, <2>2, <2>3, <2>4 DEF InProgress
<1> QED
  BY <1>1, <1>3, <1>4, <1>5, <1>6 DEF Excused

LEMMA ReadableOther ==
  ASSUME ArchiveInv, NEW n \in Upload, Probe(n) \/ BreakOff(n)
  PROVE  ReadableIsArchived'
<1> USE DEF ArchiveInv
<1>0. tree \in [Place -> Body \cup {Nil}]
  BY DEF IInv, TypeOK
<1>1. /\ Moved(n) /\ InProgress(n) /\ InProgress(n)'
      /\ rows' = rows /\ davHealth' = davHealth
      /\ \A a \in Place : a # uploads[n].place => tree'[a] = tree[a]
  BY <1>0, ProbeEffect, BrokenEffect DEF Probe, BreakOff, InProgress
<1> SUFFICES ASSUME NEW a \in Place, tree'[a] \notin {Nil, Empty}
             PROVE  Excused(a)'
  BY ExcusedIsReadable
<1>2. CASE uploads[n].place = a
  BY <1>1, <1>2 DEF Moved, Excused
<1>3. CASE uploads[n].place # a
  <2>1. Excused(a) /\ tree'[a] = tree[a]
    BY <1>1, <1>3, ExcusedIsReadable
  <2>2. ASSUME NEW m \in Upload, InProgress(m), uploads[m].place = a
        PROVE  m \in Upload' /\ InProgress(m)' /\ uploads'[m].place = a
    BY <1>1, <1>3, <2>2 DEF Moved, InProgress
  <2> QED
    BY <1>1, <2>1, <2>2 DEF Excused
<1> QED
  BY <1>2, <1>3

\* A request changes what can be read only where it puts, moves or removes.
LEMMA ReadableRequest ==
  ASSUME ArchiveInv, Request \/ Restart \/ UNCHANGED vars
  PROVE  ReadableIsArchived'
<1> USE DEF ArchiveInv
<1>0. tree \in [Place -> Body \cup {Nil}]
      /\ \A m \in Upload : uploads[m].place \in Place
  BY UploadType DEF IInv, TypeOK
<1>1. ASSUME UNCHANGED <<uploads, rows, davHealth>>, NEW a \in Place, Excused(a),
             tree'[a] = tree[a]
      PROVE  Excused(a)'
  BY <1>1 DEF Excused, Upload, InProgress
<1>2. CASE UNCHANGED vars \/ \E u \in User : GenerateSetup(u) \/ SetupLost(u)
  <2>1. UNCHANGED <<uploads, rows, davHealth, tree>>
    BY <1>2 DEF GenerateSetup, SetupLost, vars
  <2> QED
    BY <1>1, <2>1, ExcusedIsReadable
<1>3. CASE \E a \in Place : RemoveAll(a)
  <2>1. PICK a \in Place : RemoveAll(a)
    BY <1>3
  <2>2. /\ tree' = [tree EXCEPT ![a] = Nil]
        /\ UNCHANGED <<uploads, rows, davHealth>>
    BY <2>1 DEF RemoveAll
  <2>3. \A c \in Place : tree'[c] \notin {Nil, Empty} => tree'[c] = tree[c]
    BY <1>0, <2>2
  <2> QED
    BY <1>1, <2>2, <2>3, ExcusedIsReadable
<1>4. CASE \E a, b \in Place : Rename(a, b)
  <2>1. PICK a \in Place, b \in Place : Rename(a, b)
    BY <1>4
  <2>2. /\ tree' = [tree EXCEPT ![b] = tree[a], ![a] = Nil]
        /\ UNCHANGED <<uploads, rows, davHealth>> /\ a # b /\ a[1] = b[1]
    BY <2>1 DEF Rename
  <2>3. \A m \in Upload : InProgress(m) => uploads[m].place # a
    BY <2>1 DEF Rename, Unlocked
  <2>4. \A c \in Place : c # b /\ tree'[c] \notin {Nil, Empty}
          => tree'[c] = tree[c]
    BY <1>0, <2>2
  <2>5. ASSUME tree'[b] \notin {Nil, Empty} PROVE Excused(b)'
    <3>1. tree'[b] = tree[a]
      BY <1>0, <2>2
    <3>2. Excused(a)
      BY <2>5, <3>1, ExcusedIsReadable
    <3>3. CASE davHealth = "degraded"
      BY <2>2, <3>3 DEF Excused
    <3>4. ASSUME NEW k \in Key, k[1][1] = a[1], rows[k] # Nil,
                 rows[k].bytes = tree[a]
          PROVE  Excused(b)'
      BY <2>2, <3>1, <3>4 DEF Excused
    <3> QED
      BY <2>3, <3>2, <3>3, <3>4 DEF Excused
  <2> QED
    BY <1>1, <2>2, <2>4, <2>5, ExcusedIsReadable
<1>5. CASE \E a \in Place : \E b \in Body \ {Broken} : Put(a, b)
  <2>1. PICK a \in Place, b \in Body \ {Broken} : Put(a, b)
    BY <1>5
  <2>2. PICK l \in Upload' :
           /\ l \notin Upload /\ Upload' = Upload \cup {l}
           /\ \A m \in Upload : uploads'[m] = uploads[m]
           /\ uploads'[l].place = a /\ uploads'[l].body = b
           /\ uploads'[l].stage = "copying"
    BY <2>1, PutAppends
  <2>3. tree' = [tree EXCEPT ![a] = b] /\ rows' = rows /\ davHealth' = davHealth
    BY <2>1 DEF Put
  <2>4. Excused(a)'
    BY <2>2 DEF Excused, InProgress
  <2>5. ASSUME NEW c \in Place, c # a, tree'[c] \notin {Nil, Empty}
        PROVE  Excused(c)'
    <3>1. tree'[c] = tree[c] /\ Excused(c)
      BY <1>0, <2>3, <2>5, ExcusedIsReadable
    <3>2. \A m \in Upload : InProgress(m) => InProgress(m)'
      BY <2>2 DEF InProgress
    <3> QED
      BY <2>2, <2>3, <3>1, <3>2 DEF Excused
  <2> QED
    BY <2>4, <2>5, ExcusedIsReadable
<1>6. CASE Restart
  BY <1>6, ExcusedIsReadable DEF Restart
<1> QED
  BY <1>2, <1>3, <1>4, <1>5, <1>6 DEF Request

-----------------------------------------------------------------------------
(* A failure has a cause.                                                  *)

\* Uploads neither vanish nor change their place.
LEMMA PlacesStay ==
  ASSUME ArchiveInv, [Next]_vars
  PROVE  \A m \in Upload : m \in Upload' /\ uploads'[m].place = uploads[m].place
<1> USE DEF ArchiveInv
<1>1. ASSUME NEW n \in Upload, ArchiveStep(n) \/ Failure(n) PROVE Moved(n)
  BY <1>1, StepMoves, ProbeEffect, BrokenEffect
     DEF ArchiveStep, Failure, Steps
<1>2. ASSUME NEW a \in Place, NEW b \in Body \ {Broken}, Put(a, b)
      PROVE  \A m \in Upload : m \in Upload' /\ uploads'[m] = uploads[m]
  BY <1>2, PutAppends
<1>3. ASSUME \/ \E u \in User : GenerateSetup(u) \/ SetupLost(u)
             \/ \E a \in Place : RemoveAll(a)
             \/ \E a, b \in Place : Rename(a, b)
             \/ UNCHANGED vars
      PROVE  uploads' = uploads
  BY <1>3 DEF GenerateSetup, SetupLost, RemoveAll, Rename, vars
<1>4. ASSUME uploads' = uploads
      PROVE  \A m \in Upload : m \in Upload' /\ uploads'[m].place = uploads[m].place
  BY <1>4 DEF Upload
<1> QED
  BY <1>1, <1>2, <1>3, <1>4, RestartEffect DEF Next, Request, Moved

\* The faults of an action that is none.
LEMMA FaultsCount ==
  ASSUME IInv, [Next]_vars
  PROVE  /\ faults \in Nat /\ faults' \in Nat /\ faults <= faults'
         /\ \A n \in Upload : ArchiveError(n) \/ ObserverError(n) \/ BreakOff(n)
              => faults' # 0
         /\ Restart => faults' # 0
<1>1. faults \in Nat /\ MaxFaults \in Nat
  BY ArchiveAssumption DEF IInv, TypeOK
<1>2. faults' = faults \/ faults' = faults + 1
  BY DEF Next, Request, GenerateSetup, SetupLost, Put, RemoveAll, Rename,
         ArchiveStep, Close, Probe, Create, Write, WriteManifest, Insert,
         Collide, UnknownFormat, SubmitProgress, MarkParsed, Failure, BreakOff,
         ArchiveError, ObserverError, Restart, Fault, vars
<1>3. ASSUME NEW n \in Upload, ArchiveError(n) \/ ObserverError(n) \/ BreakOff(n)
      PROVE  faults' = faults + 1
  BY <1>3 DEF ArchiveError, ObserverError, BreakOff, Fault
<1>4. Restart => faults' = faults + 1
  BY DEF Restart, Fault
<1> QED
  BY <1>1, <1>2, <1>3, <1>4

\* The rows of a step that inserts none.
LEMMA RowsOfUploads ==
  ASSUME ArchiveInv, [Next]_vars, NEW k \in Key, rows'[k] # Nil
  PROVE  \E m \in Upload' : uploads'[m].place = k[1]
<1> USE DEF ArchiveInv
<1>1. ASSUME rows[k] # Nil PROVE \E m \in Upload' : uploads'[m].place = k[1]
  BY <1>1, PlacesStay DEF Traced
<1>2. ASSUME NEW n \in Upload, Insert(n), rows[k] = Nil
      PROVE  \E m \in Upload' : uploads'[m].place = k[1]
  <2>1. k = KeyOf(n)
    BY <1>2, InsertEffect
  <2>2. k[1] = uploads[n].place
    BY <2>1 DEF KeyOf
  <2> QED
    BY <2>2, PlacesStay
<1>3. ASSUME NEW n \in Upload, ArchiveStep(n) \/ Failure(n), ~Insert(n)
      PROVE  rows[k] # Nil
  <2>1. CASE Probe(n) \/ BreakOff(n)
    BY <2>1 DEF Probe, BreakOff
  <2>2. CASE Steps(n)
    BY <1>3, <2>2, StepRows
  <2> QED
    BY <1>3, <2>1, <2>2 DEF ArchiveStep, Failure, Steps
<1>4. ASSUME Request \/ Restart \/ UNCHANGED vars PROVE rows[k] # Nil
  BY <1>4 DEF Request, GenerateSetup, SetupLost, Put, RemoveAll, Rename,
              Restart, vars
<1> QED
  BY <1>1, <1>2, <1>3, <1>4 DEF Next

\* Where a file is accounted for.
Accounted(f) ==
  \/ \E k \in Key : rows[k] # Nil /\ FileOf(k) = f
  \/ \E m \in Upload : Owns(m) /\ FileOf(KeyOf(m)) = f

LEMMA AccountedUpload ==
  ASSUME ArchiveInv, [Next]_vars, NEW n \in Upload, Steps(n),
         ~ArchiveError(n), ~ObserverError(n),
         NEW f \in Key, Accounted(f)
  PROVE  Accounted(f)'
<1> USE DEF ArchiveInv
<1>1. ASSUME NEW k \in Key, rows[k] # Nil, FileOf(k) = f PROVE Accounted(f)'
  <2>1. rows'[k] # Nil
    BY <1>1, StepRows DEF RowsStay
  <2>2. FileOf(k)' = f
    BY <1>1 DEF FileOf, Dir
  <2> QED
    BY <2>1, <2>2 DEF Accounted, FileOf, Dir
<1>2. /\ Moved(n) /\ uploads'[n].version = uploads[n].version
  BY StepMoves
<1>3. ASSUME NEW m \in Upload, Owns(m)', FileOf(KeyOf(m)) = f
      PROVE  Accounted(f)'
  <2>1. m \in Upload' /\ FileOf(KeyOf(m))' = f
    BY <1>2, <1>3 DEF Moved, FileOf, KeyOf, Dir
  <2> QED
    BY <1>3, <2>1 DEF Accounted
<1>4. ASSUME NEW m \in Upload, m # n, Owns(m), FileOf(KeyOf(m)) = f
      PROVE  Accounted(f)'
  BY <1>2, <1>3, <1>4 DEF Moved, Owns
<1>5. ASSUME Owns(n), FileOf(KeyOf(n)) = f PROVE Accounted(f)'
  <2>1. CASE Insert(n)
    <3>1. KeyOf(n) \in Key /\ rows'[KeyOf(n)] # Nil
      BY <2>1, InsertEffect
    <3> DEFINE key == KeyOf(n)
    <3>2. key \in Key /\ rows'[key] # Nil /\ FileOf(key) = f
      BY <1>5, <3>1
    <3> HIDE DEF key
    <3> QED
      BY <3>2 DEF Accounted, FileOf, Dir
  <2>2. CASE Write(n) \/ WriteManifest(n)
    <3>1. PICK s \in {"manifest", "insert"} : Goto(n, s)
      BY <2>2 DEF Write, WriteManifest
    <3>2. Owns(n)'
      BY <3>1, GotoEffect DEF IInv, Stage, Staged, Owns
    <3> QED
      BY <1>3, <1>5, <3>2
  <2>3. Insert(n) \/ Write(n) \/ WriteManifest(n)
    BY <1>5 DEF Steps, Owns, Close, Create, Collide, SubmitProgress,
                UnknownFormat, MarkParsed
  <2> QED
    BY <2>1, <2>2, <2>3
<1> QED
  BY <1>1, <1>4, <1>5 DEF Accounted

LEMMA TracedFiles ==
  ASSUME ArchiveInv, [Next]_vars, faults' = 0,
         NEW f \in Key, files'[f] # Nil
  PROVE  Accounted(f)'
<1> USE DEF ArchiveInv
<1>1. faults = 0 /\ ~Restart
      /\ \A n \in Upload : ~ArchiveError(n) /\ ~ObserverError(n) /\ ~BreakOff(n)
  BY FaultsCount
<1>2. files[f] # Nil => Accounted(f)
  BY <1>1 DEF Traced, Accounted
<1>3. ASSUME NEW n \in Upload, Steps(n) PROVE Accounted(f)'
  <2>1. CASE Accounted(f)
    BY <1>1, <1>3, <2>1, AccountedUpload
  <2>2. CASE files[f] = Nil
    <3>1. uploads[n].stage \in InArchive => KeyOf(n) \in Key
                                            /\ FileOf(KeyOf(n)) \in Key
      BY InArchiveKey
    <3>2. Create(n) \/ Write(n)
      BY <1>1, <1>3, <2>2
         DEF Steps, Close, WriteManifest, Insert, Collide, SubmitProgress,
             UnknownFormat, MarkParsed, disk
    <3>3. f = FileOf(KeyOf(n))
      BY <2>2, <3>2 DEF Create, Write, IInv, TypeOK
    <3>4. PICK s \in {"write", "manifest"} : Goto(n, s)
      BY <3>2 DEF Create, Write
    <3>5. Staged(n, s)
      BY <3>4, GotoEffect DEF IInv, Stage
    <3>6. n \in Upload' /\ Owns(n)' /\ FileOf(KeyOf(n))' = FileOf(KeyOf(n))
      BY <3>5 DEF Staged, Owns, FileOf, KeyOf, Dir
    <3> QED
      BY <3>3, <3>6 DEF Accounted
  <2> QED
    BY <1>2, <2>1, <2>2
<1>4. ASSUME NEW n \in Upload, Probe(n) PROVE Accounted(f)'
  <2>1. Moved(n) /\ files' = files /\ rows' = rows /\ ~Owns(n)
    BY <1>4, ProbeEffect DEF Probe, disk, Owns
  <2>2. \A m \in Upload : Owns(m) =>
          m \in Upload' /\ Owns(m)' /\ FileOf(KeyOf(m))' = FileOf(KeyOf(m))
    BY <2>1 DEF Moved, Owns, FileOf, KeyOf, Dir
  <2>3. \A k \in Key : FileOf(k)' = FileOf(k)
    BY DEF FileOf, Dir
  <2> QED
    BY <1>2, <2>1, <2>2, <2>3 DEF Accounted
<1>5. ASSUME NEW a \in Place, NEW b \in Body \ {Broken}, Put(a, b)
      PROVE  Accounted(f)'
  <2>1. \A m \in Upload : m \in Upload' /\ uploads'[m] = uploads[m]
    BY <1>5, PutAppends
  <2>2. \A m \in Upload : Owns(m) =>
          m \in Upload' /\ Owns(m)' /\ FileOf(KeyOf(m))' = FileOf(KeyOf(m))
    BY <2>1 DEF Owns, FileOf, KeyOf, Dir
  <2>3. files' = files /\ rows' = rows
    BY <1>5 DEF Put, disk
  <2> QED
    BY <1>2, <2>2, <2>3 DEF Accounted, FileOf, Dir
<1>6. ASSUME UNCHANGED <<uploads, files, rows>> PROVE Accounted(f)'
  BY <1>2, <1>6 DEF Accounted, Upload, Owns, FileOf, KeyOf, Dir
<1>7. CASE \/ \E u \in User : GenerateSetup(u) \/ SetupLost(u)
           \/ \E a \in Place : RemoveAll(a)
           \/ \E a, b \in Place : Rename(a, b)
           \/ UNCHANGED vars
  <2>1. UNCHANGED <<uploads, files, rows>>
    BY <1>7 DEF GenerateSetup, SetupLost, RemoveAll, Rename, vars, disk
  <2> QED
    BY <1>6, <2>1
<1> QED
  BY <1>1, <1>3, <1>4, <1>5, <1>7
     DEF Next, Request, ArchiveStep, Failure, Steps

\* A collision without a fault is one of two paths with one directory: the
\* file has a row or an upload of its own, and neither is of the same path.
LEMMA CollisionCause ==
  ASSUME ArchiveInv, NEW n \in Upload, Collide(n), faults = 0
  PROVE  \E m \in Upload : /\ uploads[m].place # uploads[n].place
                           /\ Dir(uploads[m].place) = Dir(uploads[n].place)
<1> USE DEF ArchiveInv
<1> DEFINE key == KeyOf(n)
<1>1. uploads[n].stage = "create" /\ files[FileOf(key)] # Nil
  BY DEF Collide, Creatable
<1>2. key \in Key /\ FileOf(key) \in Key /\ rows[key] = Nil
  BY <1>1, InArchiveKey DEF InArchive
<1>3. key[1] = uploads[n].place /\ FileOf(key) = <<Dir(uploads[n].place), key[2]>>
  BY DEF FileOf, KeyOf
<1> HIDE DEF key
<1>4. Accounted(FileOf(key))
  BY <1>1, <1>2 DEF Traced, Accounted
<1>5. ASSUME NEW k \in Key, rows[k] # Nil, FileOf(k) = FileOf(key)
      PROVE  \E m \in Upload : /\ uploads[m].place # uploads[n].place
                               /\ Dir(uploads[m].place) = Dir(uploads[n].place)
  <2>1. PICK m \in Upload : uploads[m].place = k[1]
    BY <1>5 DEF Traced
  <2>2. Dir(k[1]) = Dir(uploads[n].place) /\ k[2] = key[2]
    BY <1>3, <1>5 DEF FileOf
  <2>3. k # key
    BY <1>2, <1>5
  <2>4. k[1] # key[1]
    BY <1>2, <2>2, <2>3 DEF Key
  <2> QED
    BY <1>3, <2>1, <2>2, <2>4
<1>6. ASSUME NEW m \in Upload, Owns(m), FileOf(KeyOf(m)) = FileOf(key)
      PROVE  \E l \in Upload : /\ uploads[l].place # uploads[n].place
                               /\ Dir(uploads[l].place) = Dir(uploads[n].place)
  <2>1. m # n /\ InProgress(m) /\ InProgress(n)
    BY <1>1, <1>6 DEF Owns, InProgress
  <2>2. uploads[m].place # uploads[n].place
    BY <2>1, PlacesApart
  <2>3. Dir(uploads[m].place) = Dir(uploads[n].place)
    BY <1>3, <1>6 DEF FileOf, KeyOf
  <2> QED
    BY <2>2, <2>3
<1> QED
  BY <1>4, <1>5, <1>6 DEF Accounted

LEMMA CauseStays ==
  ASSUME ArchiveInv, [Next]_vars PROVE FailureHasACause'
<1> USE DEF ArchiveInv
<1> SUFFICES ASSUME NEW n \in Upload', uploads'[n].stage = "failed", faults' = 0
             PROVE  \E m \in Upload' :
                      /\ uploads'[m].place # uploads'[n].place
                      /\ Dir(uploads'[m].place) = Dir(uploads'[n].place)
  <2>1. \A m, l \in Upload' :
          (Dir(uploads[m].place) = Dir(uploads[l].place))' <=>
          Dir(uploads'[m].place) = Dir(uploads'[l].place)
    BY DEF Dir
  <2>2. faults' > 0 <=> faults' # 0
    BY FaultsCount
  <2> QED
    BY <2>1, <2>2 DEF FailureHasACause
<1>1. faults = 0 /\ ~Restart
      /\ \A m \in Upload : ~ArchiveError(m) /\ ~ObserverError(m) /\ ~BreakOff(m)
  BY FaultsCount
<1>2. ASSUME n \in Upload, uploads[n].stage = "failed" \/ Collide(n)
      PROVE  \E m \in Upload' :
               /\ uploads'[m].place # uploads'[n].place
               /\ Dir(uploads'[m].place) = Dir(uploads'[n].place)
  <2>1. \E m \in Upload : /\ uploads[m].place # uploads[n].place
                          /\ Dir(uploads[m].place) = Dir(uploads[n].place)
    BY <1>1, <1>2, CollisionCause DEF FailureHasACause
  <2> QED
    BY <1>2, <2>1, PlacesStay
<1>3. ASSUME NEW m \in Upload, ArchiveStep(m)
      PROVE  n \in Upload /\ (uploads[n].stage = "failed" \/ Collide(n))
  <2>1. CASE Probe(m)
    BY <2>1, ProbeEffect DEF Moved
  <2>2. CASE Steps(m)
    <3>1. Moved(m)
      BY <2>2, StepMoves
    <3>2. CASE n = m
      BY <1>1, <2>2, <3>2, StepStage
    <3> QED
      BY <3>1, <3>2 DEF Moved
  <2> QED
    BY <1>3, <2>1, <2>2 DEF ArchiveStep, Steps
<1>4. ASSUME NEW a \in Place, NEW b \in Body \ {Broken}, Put(a, b)
      PROVE  n \in Upload /\ uploads[n].stage = "failed"
  BY <1>4, PutAppends
<1>5. CASE \/ \E u \in User : GenerateSetup(u) \/ SetupLost(u)
           \/ \E a \in Place : RemoveAll(a)
           \/ \E a, b \in Place : Rename(a, b)
           \/ UNCHANGED vars
  <2>1. uploads' = uploads
    BY <1>5 DEF GenerateSetup, SetupLost, RemoveAll, Rename, vars
  <2> QED
    BY <1>2, <2>1 DEF Upload
<1> QED
  BY <1>1, <1>2, <1>3, <1>4, <1>5 DEF Next, Request, Failure

-----------------------------------------------------------------------------
(* Rows are observed once.                                                 *)

LEMMA ApartStays ==
  ASSUME ArchiveInv, [Next]_vars PROVE RowsApart'
<1> USE DEF ArchiveInv
<1>0. \A k \in Key : FileOf(k)' = FileOf(k)
  BY DEF FileOf, Dir
<1>1. ASSUME \A k \in Key : rows'[k] # Nil => rows[k] # Nil PROVE RowsApart'
  BY <1>0, <1>1 DEF RowsApart, FileOf, Dir
<1>2. ASSUME NEW n \in Upload, Insert(n) PROVE RowsApart'
  <2> DEFINE key == KeyOf(n)
  <2>1. /\ key \in Key /\ rows[key] = Nil
        /\ \A k \in Key : k # key => rows'[k] = rows[k]
    BY <1>2, InsertEffect
  <2>2. \A k \in Key : rows[k] # Nil => FileOf(k) # FileOf(key)
    BY <1>2 DEF Insert, IInv, Owned, Owns
  <2> HIDE DEF key
  <2> QED
    BY <1>0, <2>1, <2>2 DEF RowsApart, FileOf, Dir
<1>3. ASSUME NEW n \in Upload, Steps(n), ~Insert(n) PROVE RowsApart'
  BY <1>1, <1>3, StepRows
<1>4. ASSUME rows' = rows PROVE RowsApart'
  BY <1>1, <1>4
<1>5. ASSUME NEW n \in Upload, Probe(n) \/ BreakOff(n) PROVE RowsApart'
  BY <1>4, <1>5 DEF Probe, BreakOff
<1>6. CASE Request \/ Restart \/ UNCHANGED vars
  BY <1>4, <1>6 DEF Request, GenerateSetup, SetupLost, Put, RemoveAll, Rename,
                    Restart, vars
<1> QED
  BY <1>2, <1>3, <1>5, <1>6 DEF Next, ArchiveStep, Failure, Steps

Observing(n) == uploads[n].stage \in {"observe", "mark"}

\* An upload that is observed has a row.
LEMMA ObservingRow ==
  ASSUME IInv, NEW n \in Upload, Observing(n)
  PROVE  KeyOf(n) \in Key /\ rows[KeyOf(n)] # Nil /\ InProgress(n)
<1>1. uploads[n].version # 0 /\ rows[KeyOf(n)] # Nil
  BY DEF Observing, IInv, Locked
<1> QED
  BY <1>1, UploadType DEF IInv, Observing, InProgress

\* A new row is unmarked.
LEMMA InsertRow ==
  ASSUME ArchiveInv, NEW n \in Upload, Insert(n)
  PROVE  /\ ~rows'[KeyOf(n)].parsed /\ ~rows'[KeyOf(n)].parseError
         /\ submitted' = submitted /\ submitted[KeyOf(n)] = "none"
<1> USE DEF ArchiveInv
<1> DEFINE key == KeyOf(n)
           new == [bytes |-> uploads[n].body, parsed |-> FALSE,
                   parseError |-> FALSE]
<1>1. ~new.parsed /\ ~new.parseError
  OBVIOUS
<1>2. rows' = [rows EXCEPT ![key] = new] /\ submitted' = submitted
  BY DEF Insert
<1>3. key \in Key /\ rows[key] = Nil /\ rows \in [Key -> UploadRow \cup {Nil}]
  BY InsertEffect DEF IInv, TypeOK
<1> HIDE DEF new, key
<1>4. rows'[key] = new
  BY <1>2, <1>3
<1>5. submitted[key] = "none"
  BY <1>3 DEF ObservedOnce
<1> QED
  BY <1>1, <1>2, <1>4, <1>5 DEF key

\* Submit is noted at the upload's own row.
LEMMA SubmitEffect ==
  ASSUME ArchiveInv, NEW n \in Upload, SubmitProgress(n)
  PROVE  /\ rows' = rows /\ uploads'[n].stage = "mark" /\ Observing(n)
         /\ submitted'[KeyOf(n)] # "none"
         /\ \A k \in Key : k # KeyOf(n) => submitted'[k] = submitted[k]
         /\ Parse(uploads[n].place[2], rows[KeyOf(n)].bytes) # Nil
<1> USE DEF ArchiveInv
<1> DEFINE key == KeyOf(n)
<1>1. uploads[n].stage = "observe" /\ rows' = rows /\ Goto(n, "mark")
  BY DEF SubmitProgress
<1>2. key \in Key /\ rows[key] # Nil /\ submitted \in [Key -> {"none", "ok", "error"}]
  BY <1>1, ObservingRow DEF Observing, IInv, TypeOK
<1>3. PICK outcome \in {"ok", "error"} :
        submitted' = [submitted EXCEPT ![key] = outcome]
  BY DEF SubmitProgress
<1>4. uploads'[n].stage = "mark"
  BY <1>1, GotoEffect DEF IInv, Stage, Staged
<1>5. Parse(uploads[n].place[2], files[FileOf(key)]) # Nil
  BY DEF SubmitProgress, Parsed
<1> HIDE DEF key
<1>6. files[FileOf(key)] = rows[key].bytes
  BY <1>2 DEF IInv, RowHoldsItsBytes
<1>7. submitted'[key] # "none"
      /\ \A k \in Key : k # key => submitted'[k] = submitted[k]
  BY <1>2, <1>3
<1> QED
  BY <1>1, <1>4, <1>5, <1>6, <1>7 DEF key, Observing

\* What Unmarked says of one upload.
Bare(n) ==
  /\ ~rows[KeyOf(n)].parsed /\ ~rows[KeyOf(n)].parseError
  /\ submitted[KeyOf(n)] = "none" <=> uploads[n].stage = "observe"

LEMMA UnmarkedUpload ==
  ASSUME ArchiveInv, NEW n \in Upload, Steps(n) PROVE Unmarked'
<1> USE DEF ArchiveInv
<1>1. /\ Moved(n) /\ uploads'[n].version = uploads[n].version /\ InProgress(n)
  BY StepMoves
<1> SUFFICES ASSUME NEW m \in Upload, uploads'[m].stage \in {"observe", "mark"}
             PROVE  Bare(m)'
  BY <1>1 DEF Unmarked, Bare, Moved
<1>2. KeyOf(m)' = KeyOf(m)
  BY <1>1 DEF Moved, KeyOf
<1>3. CASE m = n
  <2>1. CASE Insert(n)
    <3>1. Staged(n, "observe")
      BY <2>1, InsertEffect
    <3> QED
      BY <1>2, <1>3, <2>1, <3>1, InsertRow DEF Bare, Staged
  <2>2. CASE SubmitProgress(n)
    <3>1. Bare(n)
      BY <2>2 DEF Unmarked, Bare, SubmitProgress
    <3> QED
      BY <1>2, <1>3, <2>2, <3>1, SubmitEffect DEF Bare
  <2> QED
    BY <1>3, <2>1, <2>2, StepStage
<1>4. CASE m # n
  <2>1. uploads'[m] = uploads[m] /\ Observing(m)
    BY <1>1, <1>4 DEF Moved, Observing
  <2>2. KeyOf(m) \in Key /\ rows[KeyOf(m)] # Nil /\ Bare(m) /\ InProgress(m)
    BY <2>1, ObservingRow DEF Unmarked, Bare, Observing
  <2>3. KeyOf(m) # KeyOf(n)
    BY <1>1, <1>4, <2>2, PlacesApart DEF KeyOf
  <2>4. rows'[KeyOf(m)] = rows[KeyOf(m)]
    <3>1. CASE Insert(n)
      BY <2>2, <2>3, <3>1, InsertEffect
    <3>2. CASE UnknownFormat(n) \/ MarkParsed(n)
      BY <2>2, <2>3, <3>2, ObserverExact
    <3>3. CASE ~Insert(n) /\ ~UnknownFormat(n) /\ ~MarkParsed(n)
      BY <3>3 DEF Steps, Close, Create, Write, WriteManifest, Collide,
                  ArchiveError, SubmitProgress, ObserverError
    <3> QED
      BY <3>1, <3>2, <3>3
  <2>5. submitted'[KeyOf(m)] = submitted[KeyOf(m)]
    <3>1. CASE SubmitProgress(n)
      BY <2>2, <2>3, <3>1, SubmitEffect
    <3>2. CASE ~SubmitProgress(n)
      BY <3>2 DEF Steps, Close, Create, Write, WriteManifest, Insert, Collide,
                  ArchiveError, UnknownFormat, MarkParsed, ObserverError
    <3> QED
      BY <3>1, <3>2
  <2> QED
    BY <1>2, <2>1, <2>2, <2>4, <2>5 DEF Bare
<1> QED
  BY <1>3, <1>4

LEMMA UnmarkedStays ==
  ASSUME ArchiveInv, [Next]_vars PROVE Unmarked'
<1> USE DEF ArchiveInv
<1>1. ASSUME NEW n \in Upload, Probe(n) \/ BreakOff(n) PROVE Unmarked'
  <2>1. /\ Moved(n) /\ uploads'[n].stage \in {"create", "copying"}
        /\ rows' = rows /\ submitted' = submitted
    BY <1>1, ProbeEffect, BrokenEffect DEF Probe, BreakOff
  <2>2. \A m \in Upload : uploads'[m].stage \in {"observe", "mark"}
          => uploads'[m] = uploads[m] /\ KeyOf(m)' = KeyOf(m)
    BY <2>1 DEF Moved, KeyOf
  <2> QED
    BY <2>1, <2>2 DEF Unmarked, Moved
<1>2. ASSUME NEW a \in Place, NEW b \in Body \ {Broken}, Put(a, b)
      PROVE  Unmarked'
  <2>1. rows' = rows /\ submitted' = submitted
    BY <1>2 DEF Put
  <2>2. \A m \in Upload' : uploads'[m].stage \in {"observe", "mark"}
          => m \in Upload /\ uploads'[m] = uploads[m] /\ KeyOf(m)' = KeyOf(m)
    BY <1>2, PutAppends DEF KeyOf
  <2> QED
    BY <2>1, <2>2 DEF Unmarked
<1>3. CASE \/ \E u \in User : GenerateSetup(u) \/ SetupLost(u)
           \/ \E a \in Place : RemoveAll(a)
           \/ \E a, b \in Place : Rename(a, b)
           \/ UNCHANGED vars
  <2>1. UNCHANGED <<uploads, rows, submitted>>
    BY <1>3 DEF GenerateSetup, SetupLost, RemoveAll, Rename, vars
  <2> QED
    BY <2>1 DEF Unmarked, Upload, KeyOf
<1>4. CASE Restart
  BY <1>4, RestartEffect DEF Unmarked, InProgress
<1> QED
  BY <1>1, <1>2, <1>3, <1>4, UnmarkedUpload
     DEF Next, Request, ArchiveStep, Failure, Steps

\* What ObservedOnce says of one row.
Once(k) ==
  /\ rows[k] # Nil =>
       /\ rows[k].parsed => submitted[k] # "none" /\ ~rows[k].parseError
       /\ rows[k].parseError => submitted[k] = "none"
       /\ \/ rows[k].parsed \/ rows[k].parseError \/ faults > 0
          \/ \E n \in Upload : KeyOf(n) = k /\ Observing(n)
  /\ submitted[k] # "none" =>
       rows[k] # Nil /\ Parse(k[1][2], rows[k].bytes) # Nil

LEMMA OnceIsObserved ==
  /\ ObservedOnce <=> \A k \in Key : Once(k)
  /\ ObservedOnce' <=> \A k \in Key : Once(k)'
BY DEF ObservedOnce, Once, Observing

\* A row and its Submit left alone, and its upload still observed.
LEMMA OnceStays ==
  ASSUME ArchiveInv, [Next]_vars, NEW k \in Key,
         rows'[k] = rows[k], submitted'[k] = submitted[k],
         \/ faults' # 0
         \/ \A n \in Upload : KeyOf(n) = k /\ Observing(n) =>
              n \in Upload' /\ KeyOf(n)' = k /\ Observing(n)'
  PROVE  Once(k)'
<1> USE DEF ArchiveInv
<1>1. Once(k)
  BY OnceIsObserved
<1>2. faults > 0 => faults' > 0
  BY FaultsCount
<1>3. faults' # 0 => faults' > 0
  BY FaultsCount
<1>4. (\E n \in Upload : KeyOf(n) = k /\ Observing(n)) =>
        faults' > 0 \/ \E n \in Upload' : KeyOf(n)' = k /\ Observing(n)'
  BY <1>3
<1>5. Parse(k[1][2], rows[k].bytes)' = Parse(k[1][2], rows[k].bytes)
  BY DEF Parse
<1> QED
  BY <1>1, <1>2, <1>4, <1>5 DEF Once

\* The row of the upload that steps.
LEMMA OnceOwn ==
  ASSUME ArchiveInv, [Next]_vars, NEW n \in Upload,
         \/ Insert(n) \/ SubmitProgress(n) \/ UnknownFormat(n) \/ MarkParsed(n),
         NEW k \in Key, k = KeyOf(n)
  PROVE  Once(k)'
<1> USE DEF ArchiveInv
<1>0. Steps(n)
  BY DEF Steps
<1>1. /\ n \in Upload' /\ KeyOf(n)' = k /\ k[1] = uploads[n].place
  BY <1>0, StepMoves DEF Moved, KeyOf
<1>2. Once(k)
  BY OnceIsObserved
<1>3. ASSUME rows'[k].bytes = rows[k].bytes
      PROVE  Parse(k[1][2], rows[k].bytes)' = Parse(k[1][2], rows[k].bytes)
  BY <1>3 DEF Parse
<1>4. CASE Insert(n)
  <2>1. Observing(n)'
    BY <1>4, InsertEffect DEF Staged, Observing
  <2> QED
    BY <1>1, <1>4, <2>1, InsertRow DEF Once
<1>5. CASE SubmitProgress(n)
  <2>1. Observing(n)' /\ rows' = rows /\ submitted'[k] # "none"
        /\ Parse(k[1][2], rows[k].bytes) # Nil
    BY <1>1, <1>5, SubmitEffect DEF Observing
  <2>2. ~rows[k].parsed /\ ~rows[k].parseError /\ rows[k] # Nil
    BY <1>5, SubmitEffect, ObservingRow DEF Unmarked, Observing
  <2> QED
    BY <1>1, <1>3, <2>1, <2>2 DEF Once
<1>6. CASE UnknownFormat(n)
  <2>1. rows'[k] # Nil /\ rows'[k].parseError /\ rows'[k].parsed = rows[k].parsed
    BY <1>6, ObserverExact
  <2>2. ~rows[k].parsed /\ submitted[k] = "none" /\ submitted' = submitted
    BY <1>6 DEF UnknownFormat, Unmarked
  <2> QED
    BY <2>1, <2>2 DEF Once
<1>7. CASE MarkParsed(n)
  <2>1. /\ rows'[k] # Nil /\ rows'[k].parsed /\ rows'[k].bytes = rows[k].bytes
        /\ rows'[k].parseError = rows[k].parseError
    BY <1>7, ObserverExact
  <2>2. ~rows[k].parseError /\ submitted[k] # "none" /\ submitted' = submitted
    BY <1>7 DEF MarkParsed, Unmarked
  <2> QED
    BY <1>2, <1>3, <2>1, <2>2 DEF Once
<1> QED
  BY <1>4, <1>5, <1>6, <1>7

LEMMA OnceUpload ==
  ASSUME ArchiveInv, [Next]_vars, NEW n \in Upload, Steps(n) PROVE ObservedOnce'
<1> USE DEF ArchiveInv
<1> SUFFICES ASSUME NEW k \in Key PROVE Once(k)'
  BY OnceIsObserved
<1>1. /\ Moved(n) /\ uploads'[n].version = uploads[n].version
  BY StepMoves
<1>2. ASSUME NEW m \in Upload, m # n, KeyOf(m) = k, Observing(m)
      PROVE  m \in Upload' /\ KeyOf(m)' = k /\ Observing(m)'
  BY <1>1, <1>2 DEF Moved, KeyOf, Observing
<1>3. CASE \/ Insert(n) \/ SubmitProgress(n) \/ UnknownFormat(n) \/ MarkParsed(n)
  <2>1. CASE k = KeyOf(n)
    BY <1>3, <2>1, OnceOwn
  <2>2. CASE k # KeyOf(n)
    <3>1. rows'[k] = rows[k]
      BY <1>3, <2>2, InsertEffect, ObserverExact, SubmitEffect
    <3>2. submitted'[k] = submitted[k]
      BY <1>3, <2>2, SubmitEffect DEF Insert, UnknownFormat, MarkParsed
    <3> QED
      BY <1>2, <2>2, <3>1, <3>2, OnceStays
  <2> QED
    BY <2>1, <2>2
<1>4. CASE ObserverError(n)
  BY <1>4, FaultsCount, OnceStays DEF ObserverError
<1>5. CASE \/ Close(n) \/ Create(n) \/ Write(n) \/ WriteManifest(n)
           \/ Collide(n) \/ ArchiveError(n)
  <2>1. rows' = rows /\ submitted' = submitted /\ ~Observing(n)
    BY <1>5 DEF Close, Create, Write, WriteManifest, Collide, ArchiveError,
                Archiving, Observing
  <2> QED
    BY <1>2, <2>1, OnceStays
<1> QED
  BY <1>3, <1>4, <1>5 DEF Steps

LEMMA OnceNext ==
  ASSUME ArchiveInv, [Next]_vars PROVE ObservedOnce'
<1> USE DEF ArchiveInv
<1>1. ASSUME NEW n \in Upload, Probe(n) \/ BreakOff(n) PROVE ObservedOnce'
  <2>1. Moved(n) /\ rows' = rows /\ submitted' = submitted /\ ~Observing(n)
    BY <1>1, ProbeEffect, BrokenEffect DEF Probe, BreakOff, Observing
  <2>2. \A m \in Upload : Observing(m) =>
          m \in Upload' /\ KeyOf(m)' = KeyOf(m) /\ Observing(m)'
    BY <2>1 DEF Moved, KeyOf, Observing
  <2> QED
    BY <2>1, <2>2, OnceStays, OnceIsObserved
<1>2. ASSUME NEW a \in Place, NEW b \in Body \ {Broken}, Put(a, b)
      PROVE  ObservedOnce'
  <2>1. rows' = rows /\ submitted' = submitted
    BY <1>2 DEF Put
  <2>2. \A m \in Upload : Observing(m) =>
          m \in Upload' /\ KeyOf(m)' = KeyOf(m) /\ Observing(m)'
    BY <1>2, PutAppends DEF KeyOf, Observing
  <2> QED
    BY <2>1, <2>2, OnceStays, OnceIsObserved
<1>3. CASE \/ \E u \in User : GenerateSetup(u) \/ SetupLost(u)
           \/ \E a \in Place : RemoveAll(a)
           \/ \E a, b \in Place : Rename(a, b)
           \/ UNCHANGED vars
  <2>1. UNCHANGED <<uploads, rows, submitted>>
    BY <1>3 DEF GenerateSetup, SetupLost, RemoveAll, Rename, vars
  <2>2. \A m \in Upload : Observing(m) =>
          m \in Upload' /\ KeyOf(m)' = KeyOf(m) /\ Observing(m)'
    BY <2>1 DEF Upload, KeyOf, Observing
  <2> QED
    BY <2>1, <2>2, OnceStays, OnceIsObserved
<1>4. CASE Restart
  <2>1. rows' = rows /\ submitted' = submitted /\ faults' # 0
    BY <1>4, FaultsCount DEF Restart
  <2> QED
    BY <2>1, OnceStays, OnceIsObserved
<1> QED
  BY <1>1, <1>2, <1>3, <1>4, OnceUpload
     DEF Next, Request, ArchiveStep, Failure, Steps

-----------------------------------------------------------------------------
(* ArchiveInv is inductive.                                                *)

LEMMA CurrentNext ==
  ASSUME ArchiveInv, [Next]_vars PROVE Current'
BY CurrentUpload, CurrentOther, CurrentRequest
   DEF Next, ArchiveStep, Failure, Steps

LEMMA ReadableNext ==
  ASSUME ArchiveInv, [Next]_vars PROVE ReadableIsArchived'
BY ReadableUpload, ReadableOther, ReadableRequest
   DEF Next, ArchiveStep, Failure, Steps

LEMMA TracedNext ==
  ASSUME ArchiveInv, [Next]_vars PROVE Traced'
<1>1. \A k \in Key : rows'[k] # Nil => \E m \in Upload' : uploads'[m].place = k[1]
  BY RowsOfUploads
<1>2. faults' = 0 => \A f \in Key : files'[f] # Nil => Accounted(f)'
  BY TracedFiles
<1> QED
  BY <1>1, <1>2 DEF Traced, Accounted

LEMMA LossInit == Init => ArchiveInv
<1> SUFFICES ASSUME Init PROVE ArchiveInv
  OBVIOUS
<1>1. /\ Upload = {} /\ \A k \in Key : rows[k] = Nil /\ files[k] = Nil
      /\ \A k \in Key : submitted[k] = "none"
      /\ \A a \in Place : tree[a] = Nil
  BY DEF Init, Upload
<1>2. Current /\ FailureHasACause /\ Unmarked
  BY <1>1 DEF Current, FailureHasACause, Unmarked
<1>3. ReadableIsArchived /\ Traced /\ RowsApart /\ ObservedOnce
  BY <1>1 DEF ReadableIsArchived, Traced, RowsApart, ObservedOnce
<1> QED
  BY <1>2, <1>3, InvInit DEF ArchiveInv

LEMMA LossNext == ArchiveInv /\ [Next]_vars => ArchiveInv'
<1> SUFFICES ASSUME ArchiveInv, [Next]_vars PROVE ArchiveInv'
  OBVIOUS
<1>1. IInv'
  BY InvNext DEF ArchiveInv
<1>2. Current' /\ ReadableIsArchived' /\ Traced' /\ FailureHasACause'
  BY CurrentNext, ReadableNext, TracedNext, CauseStays
<1>3. RowsApart' /\ Unmarked' /\ ObservedOnce'
  BY ApartStays, UnmarkedStays, OnceNext
<1> QED
  BY <1>1, <1>2, <1>3 DEF ArchiveInv

\* The strengthening of all that is said of the archive holds always:
\* PUT, archiveUpload and the observer keep it, and so do crashes.
THEOREM ArchiveInductive == Spec => []ArchiveInv
BY LossInit, LossNext, PTL DEF Spec

\* What a GET can read is archived, under way, empty, or its loss shows in the
\* server's health: no interleaving of uploads, crashes and failing writes
\* loses a version in silence.
THEOREM LossShows == Spec => []ReadableIsArchived
<1>1. ArchiveInv => ReadableIsArchived
  BY DEF ArchiveInv
<1> QED
  BY <1>1, ArchiveInductive, PTL

\* archiveUpload fails only after a fault, or where two paths share a directory.
THEOREM FailuresExplained == Spec => []FailureHasACause
<1>1. ArchiveInv => FailureHasACause
  BY DEF ArchiveInv
<1> QED
  BY <1>1, ArchiveInductive, PTL

\* The observer of the Moon+ adapter sees every row once, and what it submits
\* is the progress in the bytes that the row keeps.
THEOREM RowsObservedOnce == Spec => []ObservedOnce
<1>1. ArchiveInv => ObservedOnce
  BY DEF ArchiveInv
<1> QED
  BY <1>1, ArchiveInductive, PTL
=============================================================================
