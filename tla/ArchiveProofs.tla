---------------------------- MODULE ArchiveProofs ----------------------------
(***************************************************************************)
(* Theorems about Archive, for every set of users, paths and bodies, every *)
(* way of sanitising a path and every value of the bounds: the inductive   *)
(* invariant IInv, which says who owns which file, and the refinement of   *)
(* VersionStore that follows from it.                                      *)
(***************************************************************************)
EXTENDS Archive, TLAPS

-----------------------------------------------------------------------------
(* Keys and versions.                                                      *)

\* A version's file is one of the files.
LEMMA FileType ==
  ASSUME NEW k \in Key PROVE FileOf(k) \in Key /\ FileOf(k)[2] = k[2]
BY ArchiveAssumption DEF FileOf, Dir, Key, Place

\* An upload is a record.
LEMMA UploadType ==
  ASSUME TypeOK, NEW n \in Upload
  PROVE  /\ uploads[n] \in UploadRecord
         /\ uploads[n].place \in Place
         /\ uploads[n].version # 0 => KeyOf(n) \in Key /\ FileOf(KeyOf(n)) \in Key
<1>1. uploads[n] \in UploadRecord
  BY DEF TypeOK, Upload
<1>2. uploads[n].version # 0 => KeyOf(n) \in Key
  BY <1>1 DEF UploadRecord, KeyOf, Key
<1> QED
  BY <1>1, <1>2, FileType DEF UploadRecord

\* When the versions of a place have no gap, the latest is their number.
LEMMA LatestOf ==
  ASSUME NEW a, NEW l \in Nat, VersionsOf(a) = 1..l
  PROVE  LatestVersion(a) = l
<1>1. CASE l = 0
  BY <1>1 DEF LatestVersion
<1>2. CASE l # 0
  <2>1. VersionsOf(a) # {} /\ l \in VersionsOf(a)
        /\ \A w \in VersionsOf(a) : w <= l
    BY <1>2
  <2> DEFINE top == CHOOSE v \in VersionsOf(a) : \A w \in VersionsOf(a) : w <= v
  <2>2. top \in VersionsOf(a) /\ \A w \in VersionsOf(a) : w <= top
    BY <2>1
  <2>3. top \in Nat /\ top <= l /\ l <= top
    BY <2>1, <2>2
  <2>4. top = l
    BY <2>3
  <2> QED
    BY <2>1, <2>4 DEF LatestVersion
<1> QED
  BY <1>1, <1>2

\* The same, of the next state.
LEMMA LatestOfPrimed ==
  ASSUME NEW a, NEW l \in Nat, VersionsOf(a)' = 1..l
  PROVE  LatestVersion(a)' = l
<1>1. CASE l = 0
  BY <1>1 DEF LatestVersion
<1>2. CASE l # 0
  <2>1. VersionsOf(a)' # {} /\ l \in VersionsOf(a)'
        /\ \A w \in VersionsOf(a)' : w <= l
    BY <1>2
  <2> DEFINE top == CHOOSE v \in VersionsOf(a)' : \A w \in VersionsOf(a)' : w <= v
  <2>2. top \in VersionsOf(a)' /\ \A w \in VersionsOf(a)' : w <= top
    BY <2>1
  <2>3. top \in Nat /\ top <= l /\ l <= top
    BY <2>1, <2>2
  <2>4. top = l
    BY <2>3
  <2> QED
    BY <2>1, <2>4 DEF LatestVersion
<1> QED
  BY <1>1, <1>2

\* The latest version is a number.
LEMMA LatestType ==
  ASSUME IInv, NEW a \in Place
  PROVE  /\ LatestVersion(a) \in 0..MaxUploads
         /\ VersionsOf(a) = 1..LatestVersion(a)
         /\ NextVersion(a) = LatestVersion(a) + 1
<1>1. PICK l \in 0..MaxUploads : VersionsOf(a) = 1..l
  BY DEF IInv, Contiguous
<1>2. LatestVersion(a) = l
  BY <1>1, LatestOf, ArchiveAssumption
<1> QED
  BY <1>1, <1>2 DEF NextVersion

-----------------------------------------------------------------------------
(* Types.                                                                  *)

\* Only the stage of one upload changes.
Staged(n, s) ==
  /\ Upload' = Upload
  /\ \A m \in Upload : /\ uploads'[m].place = uploads[m].place
                       /\ uploads'[m].body = uploads[m].body
                       /\ uploads'[m].version = uploads[m].version
                       /\ m # n => uploads'[m] = uploads[m]
  /\ uploads'[n].stage = s

\* That is what Goto does.
LEMMA GotoEffect ==
  ASSUME TypeOK, NEW n \in Upload, NEW s \in Stage, Goto(n, s)
  PROVE  /\ Staged(n, s)
         /\ uploads' \in Seq(UploadRecord) /\ Len(uploads') = Len(uploads)
<1> DEFINE new == [uploads[n] EXCEPT !.stage = s]
<1>1. uploads[n] \in UploadRecord
  BY UploadType
<1>2. /\ new \in UploadRecord
      /\ new.place = uploads[n].place /\ new.body = uploads[n].body
      /\ new.version = uploads[n].version /\ new.stage = s
  BY <1>1 DEF UploadRecord
<1>3. uploads' = [uploads EXCEPT ![n] = new]
  BY DEF Goto
<1> HIDE DEF new
<1>4. uploads' \in Seq(UploadRecord) /\ Len(uploads') = Len(uploads)
      /\ \A m \in Upload : uploads'[m] = IF m = n THEN new ELSE uploads[m]
  BY <1>2, <1>3 DEF TypeOK, Upload
<1> QED
  BY <1>2, <1>4 DEF Staged, Upload, TypeOK

\* The observer's rows are rows.
LEMMA RowsType ==
  ASSUME TypeOK, NEW k \in Key, NEW row \in UploadRow
  PROVE  /\ UpdateRows(k, row) \in [Key -> UploadRow \cup {Nil}]
         /\ \A x \in Key :
              /\ UpdateRows(k, row)[x] # Nil <=> rows[x] # Nil
              /\ rows[x] # Nil => UpdateRows(k, row)[x].bytes = rows[x].bytes
<1> DEFINE new(x) == [row EXCEPT !.bytes = rows[x].bytes]
<1>1. ASSUME NEW x \in Key, rows[x] # Nil
      PROVE  new(x) \in UploadRow /\ new(x).bytes = rows[x].bytes /\ new(x) # Nil
  <2>1. rows[x] \in UploadRow
    BY <1>1 DEF TypeOK
  <2> QED
    BY <2>1, ArchiveAssumption DEF UploadRow
<1>2. UpdateRows(k, row) =
        [x \in Key |-> IF rows[x] # Nil /\ FileOf(x) = FileOf(k)
                        THEN new(x) ELSE rows[x]]
  BY DEF UpdateRows
<1> HIDE DEF new
<1> QED
  BY <1>1, <1>2 DEF TypeOK

-----------------------------------------------------------------------------
(* Steps that write neither files nor rows.                                *)

InArchive == {"create", "write", "manifest", "insert"}
Ended == {"done", "failed", "lost"}

\* What such a step may do to the uploads there are, and to new ones.
Quiet ==
  /\ Upload \subseteq Upload'
  /\ \A m \in Upload :
       /\ uploads'[m].place = uploads[m].place
       /\ uploads'[m].version = uploads[m].version
       /\ \/ uploads'[m] = uploads[m]
          \/ /\ uploads'[m].stage \notin InArchive \cup {"observe"}
             /\ uploads'[m].stage = "mark" => uploads[m].stage = "observe"
             /\ uploads[m].stage \in Ended => uploads'[m].stage \in Ended
  /\ \A m \in Upload' \ Upload :
       /\ uploads'[m].stage = "copying"
       /\ \A k \in Upload' \ {m} :
            k \in Upload /\ (InProgress(k) =>
                             uploads[k].place[2] # uploads'[m].place[2])

\* Such a step keeps the invariant.
LEMMA QuietStep ==
  ASSUME IInv, TypeOK', Quiet, UNCHANGED <<files, manifests, rows>>
  PROVE  IInv'
<1>1. RowHoldsItsBytes' /\ Contiguous'
  BY DEF IInv, RowHoldsItsBytes, Contiguous, VersionsOf, FileOf, Dir
<1>2. ASSUME NEW m \in Upload', uploads'[m].stage \in InArchive
      PROVE  m \in Upload /\ uploads'[m] = uploads[m]
  BY <1>2 DEF Quiet, InArchive
<1>3. Owned'
  <2> SUFFICES ASSUME NEW n \in Upload', Owns(n)' PROVE
        /\ files'[FileOf(KeyOf(n))'] # Nil
        /\ uploads'[n].stage # "write" => files'[FileOf(KeyOf(n))'] = uploads'[n].body
        /\ uploads'[n].stage = "insert" => FileOf(KeyOf(n))' \in manifests'
        /\ \A k \in Key : rows'[k] # Nil => FileOf(k) # FileOf(KeyOf(n))'
        /\ \A m \in Upload' :
             Owns(m)' /\ FileOf(KeyOf(m))' = FileOf(KeyOf(n))' => m = n
    BY DEF Owned, FileOf, Dir
  <2>1. \A m \in Upload' : Owns(m)' =>
          /\ m \in Upload /\ Owns(m) /\ uploads'[m] = uploads[m]
          /\ FileOf(KeyOf(m))' = FileOf(KeyOf(m))
    BY <1>2 DEF Owns, InArchive, FileOf, KeyOf, Dir
  <2> QED
    BY <2>1 DEF IInv, Owned
<1>4. Locked'
  <2>1. ASSUME NEW m \in Upload', NEW n \in Upload',
               InProgress(m)', InProgress(n)',
               uploads'[m].place[2] = uploads'[n].place[2]
        PROVE  m = n
    <3>1. \A k \in Upload : InProgress(k)' => InProgress(k)
      BY DEF Quiet, InProgress, Ended
    <3>2. CASE m \in Upload /\ n \in Upload
      BY <2>1, <3>1, <3>2 DEF IInv, Locked, Quiet
    <3>3. CASE m \notin Upload
      BY <2>1, <3>1, <3>3 DEF Quiet
    <3>4. CASE n \notin Upload
      BY <2>1, <3>1, <3>4 DEF Quiet
    <3> QED
      BY <3>2, <3>3, <3>4
  <2>2. ASSUME NEW n \in Upload', uploads'[n].stage \in InArchive
        PROVE  uploads'[n].version = NextVersion(uploads[n].place)'
    <3>1. n \in Upload /\ uploads'[n] = uploads[n]
      BY <1>2, <2>2
    <3>2. NextVersion(uploads[n].place)' = NextVersion(uploads[n].place)
      BY <3>1 DEF NextVersion, LatestVersion, VersionsOf
    <3> QED
      BY <2>2, <3>1, <3>2 DEF IInv, Locked, InArchive
  <2>3. ASSUME NEW n \in Upload', uploads'[n].stage \in {"observe", "mark"}
        PROVE  uploads'[n].version # 0 /\ rows'[KeyOf(n)'] # Nil
    <3>1. n \in Upload /\ uploads[n].stage \in {"observe", "mark"}
      BY <2>3 DEF Quiet, InArchive
    <3>2. KeyOf(n)' = KeyOf(n) /\ uploads'[n].version = uploads[n].version
      BY <3>1 DEF Quiet, KeyOf
    <3> QED
      BY <3>1, <3>2 DEF IInv, Locked
  <2> QED
    BY <2>1, <2>2, <2>3 DEF Locked, InArchive
<1> QED
  BY <1>1, <1>3, <1>4 DEF IInv

\* A step that moves one upload to a stage after archiving is such a step.
LEMMA StagedIsQuiet ==
  ASSUME IInv, NEW n \in Upload, NEW s \in Stage, Staged(n, s),
         s \notin InArchive \cup {"observe"},
         s = "mark" => uploads[n].stage = "observe",
         uploads[n].stage \in Ended => s \in Ended
  PROVE  Quiet
BY DEF Quiet, Staged

\* Type correctness: no request, write or fault leaves the declared shapes.
LEMMA TypeInit == Init => TypeOK
BY ArchiveAssumption DEF Init, TypeOK, Upload

\* What a request does to the uploads.
LEMMA PutEffect ==
  ASSUME TypeOK, NEW a \in Place, NEW b \in Body \ {Broken}, Put(a, b)
  PROVE  TypeOK' /\ Quiet /\ UNCHANGED <<files, manifests, rows>>
<1> DEFINE new == [place |-> a, body |-> b, version |-> 0, stage |-> "copying"]
<1>1. new \in UploadRecord
  BY DEF UploadRecord, Stage
<1>2. new.place = a /\ new.stage = "copying"
  OBVIOUS
<1>3. uploads' = Append(uploads, new) /\ Len(uploads) < MaxUploads
  BY DEF Put
<1> HIDE DEF new
<1>4. /\ uploads' \in Seq(UploadRecord) /\ Len(uploads') = Len(uploads) + 1
      /\ Upload \subseteq Upload' /\ Upload' \ Upload = {Len(uploads) + 1}
      /\ \A m \in Upload : uploads'[m] = uploads[m]
      /\ uploads'[Len(uploads) + 1] = new
  BY <1>1, <1>3, ArchiveAssumption DEF TypeOK, Upload
<1>5. Quiet
  <2>1. \A k \in Upload : InProgress(k) => uploads[k].place[2] # a[2]
    BY DEF Put, Unlocked
  <2>2. \A m \in Upload' \ Upload :
          uploads'[m] = new /\ \A k \in Upload' \ {m} : k \in Upload
    BY <1>4
  <2>3. \A m \in Upload' \ Upload :
          /\ uploads'[m].stage = "copying"
          /\ \A k \in Upload' \ {m} :
               k \in Upload /\ (InProgress(k) =>
                                uploads[k].place[2] # uploads'[m].place[2])
    BY <1>2, <2>1, <2>2
  <2>4. \A m \in Upload : /\ uploads'[m].place = uploads[m].place
                          /\ uploads'[m].version = uploads[m].version
                          /\ uploads'[m] = uploads[m]
    BY <1>4
  <2>5. Upload \subseteq Upload'
    BY <1>4
  <2> QED
    BY <2>3, <2>4, <2>5, Zenon DEF Quiet
<1>6. tree' \in [Place -> Body \cup {Nil}]
  BY DEF Put, TypeOK
<1> QED
  BY <1>3, <1>4, <1>5, <1>6, ArchiveAssumption DEF Put, TypeOK, disk

\* A body that breaks off is still a body.
LEMMA BreakOffEffect ==
  ASSUME TypeOK, NEW n \in Upload, BreakOff(n)
  PROVE  TypeOK' /\ Quiet /\ UNCHANGED <<files, manifests, rows>>
<1> USE ArchiveAssumption
<1> DEFINE new == [uploads[n] EXCEPT !.body = Broken]
<1>1. uploads[n] \in UploadRecord /\ uploads[n].place \in Place
  BY UploadType
<1>2. /\ new \in UploadRecord /\ new.place = uploads[n].place
      /\ new.version = uploads[n].version /\ new.stage = "copying"
  BY <1>1 DEF UploadRecord, BreakOff
<1>3. uploads' = [uploads EXCEPT ![n] = new]
  BY DEF BreakOff
<1> HIDE DEF new
<1>4. /\ uploads' \in Seq(UploadRecord) /\ Len(uploads') = Len(uploads)
      /\ Upload' = Upload
      /\ \A m \in Upload : uploads'[m] = IF m = n THEN new ELSE uploads[m]
  BY <1>2, <1>3 DEF TypeOK, Upload
<1>5. Quiet
  BY <1>2, <1>4 DEF Quiet, BreakOff, InArchive, Ended
<1>6. tree' \in [Place -> Body \cup {Nil}]
  BY <1>1 DEF BreakOff, TypeOK
<1>7. faults' \in 0..MaxFaults
  BY DEF BreakOff, Fault, TypeOK
<1> QED
  BY <1>4, <1>5, <1>6, <1>7 DEF BreakOff, TypeOK, disk

\* Steps that change the stage of one upload, and of health, history and
\* faults, keep every type.
LEMMA StagedType ==
  ASSUME TypeOK, NEW n \in Upload, NEW s \in Stage, Goto(n, s),
         users' = users, tree' = tree, UNCHANGED <<files, manifests, rows>>,
         davHealth' \in {"ok", "degraded"}, moonHealth' \in {"ok", "degraded"},
         submitted' \in [Key -> {"none", "ok", "error"}],
         faults' \in 0..MaxFaults
  PROVE  TypeOK' /\ Staged(n, s)
BY GotoEffect DEF TypeOK

\* Steps of an upload that write neither a file nor a row.
LEMMA QuietUpload ==
  ASSUME IInv, NEW n \in Upload,
         Close(n) \/ Collide(n) \/ SubmitProgress(n) \/ ObserverError(n)
  PROVE  IInv'
<1> USE ArchiveAssumption
<1>0. TypeOK
  BY DEF IInv
<1>1. CASE Close(n)
  <2>1. PICK s \in {"done", "probe"} : Goto(n, s)
    BY <1>1 DEF Close
  <2>2. TypeOK' /\ Staged(n, s)
    BY <1>0, <1>1, <2>1, StagedType DEF Close, disk, TypeOK, Stage
  <2>3. Quiet
    BY <1>1, <2>2, StagedIsQuiet DEF Close, InArchive, Ended, Stage
  <2> QED
    BY <1>1, <2>2, <2>3, QuietStep DEF Close, disk
<1>2. CASE Collide(n)
  <2>1. TypeOK' /\ Staged(n, "failed")
    BY <1>0, <1>2, StagedType DEF Collide, Fail, disk, TypeOK, Stage
  <2>2. Quiet
    BY <2>1, StagedIsQuiet DEF InArchive, Ended, Stage
  <2> QED
    BY <1>2, <2>1, <2>2, QuietStep DEF Collide, disk
<1>3. CASE SubmitProgress(n)
  <2>1. KeyOf(n) \in Key
    BY <1>0, <1>3, UploadType DEF SubmitProgress, IInv, Locked
  <2>2. submitted' \in [Key -> {"none", "ok", "error"}]
    BY <1>0, <1>3, <2>1 DEF SubmitProgress, TypeOK
  <2>3. TypeOK' /\ Staged(n, "mark")
    BY <1>0, <1>3, <2>2, StagedType DEF SubmitProgress, disk, TypeOK, Stage
  <2>4. Quiet
    BY <1>3, <2>3, StagedIsQuiet DEF SubmitProgress, InArchive, Ended, Stage
  <2> QED
    BY <1>3, <2>3, <2>4, QuietStep DEF SubmitProgress, disk
<1>4. CASE ObserverError(n)
  <2>1. TypeOK' /\ Staged(n, "done")
    BY <1>0, <1>4, StagedType DEF ObserverError, Fault, disk, TypeOK, Stage
  <2>2. Quiet
    BY <2>1, StagedIsQuiet DEF InArchive, Ended, Stage
  <2> QED
    BY <1>4, <2>1, <2>2, QuietStep DEF ObserverError, disk
<1> QED
  BY <1>1, <1>2, <1>3, <1>4

\* Requests and restarts.
LEMMA RequestStep ==
  ASSUME IInv, Request \/ Restart PROVE IInv'
<1> USE ArchiveAssumption
<1>0. TypeOK
  BY DEF IInv
<1>1. ASSUME NEW u \in User, GenerateSetup(u) \/ SetupLost(u) PROVE IInv'
  <2>1. TypeOK'
    BY <1>0, <1>1 DEF GenerateSetup, SetupLost, CreateUser, Fault, TypeOK, disk
  <2>2. Quiet
    BY <1>1 DEF GenerateSetup, SetupLost, Quiet, Upload
  <2> QED
    BY <1>1, <2>1, <2>2, QuietStep DEF GenerateSetup, SetupLost, disk
<1>2. ASSUME NEW a \in Place, NEW b \in Body \ {Broken}, Put(a, b) PROVE IInv'
  BY <1>0, <1>2, PutEffect, QuietStep
<1>3. ASSUME NEW a \in Place, NEW b \in Place, RemoveAll(a) \/ Rename(a, b)
      PROVE  IInv'
  <2>1. TypeOK'
    BY <1>0, <1>3 DEF RemoveAll, Rename, TypeOK, disk
  <2>2. Quiet
    BY <1>3 DEF RemoveAll, Rename, Quiet, Upload
  <2> QED
    BY <1>3, <2>1, <2>2, QuietStep DEF RemoveAll, Rename, disk
<1>4. CASE Restart
  <2> DEFINE new(m) == IF InProgress(m) THEN [uploads[m] EXCEPT !.stage = "lost"]
                       ELSE uploads[m]
  <2>1. \A m \in Upload : /\ new(m) \in UploadRecord
                          /\ new(m).place = uploads[m].place
                          /\ new(m).version = uploads[m].version
                          /\ new(m).stage \in Ended
                          /\ uploads[m].stage \in Ended => new(m) = uploads[m]
    BY <1>0, UploadType DEF UploadRecord, Stage, InProgress, Ended
  <2>2. uploads' = [m \in Upload |-> new(m)]
    BY <1>4 DEF Restart
  <2> HIDE DEF new
  <2>3. Upload = 1..Len(uploads) /\ Len(uploads) \in Nat
    BY <1>0 DEF TypeOK, Upload
  <2>4. /\ uploads' \in Seq(UploadRecord) /\ Len(uploads') = Len(uploads)
        /\ Upload' = Upload /\ \A m \in Upload : uploads'[m] = new(m)
    <3>1. uploads' \in [1..Len(uploads) -> UploadRecord]
      BY <2>1, <2>2, <2>3
    <3> QED
      BY <2>2, <2>3, <3>1 DEF Upload
  <2>5. TypeOK'
    <3>1. tree' \in [Place -> Body \cup {Nil}] /\ faults' \in 0..MaxFaults
      BY <1>0, <1>4 DEF Restart, Fault, TypeOK
    <3>2. /\ UNCHANGED <<users, files, manifests, rows, submitted>>
          /\ davHealth' = "ok" /\ moonHealth' = "ok"
      BY <1>4 DEF Restart, disk
    <3>3. Len(uploads') <= MaxUploads
      BY <1>0, <2>4 DEF TypeOK
    <3> QED
      BY <1>0, <2>4, <3>1, <3>2, <3>3 DEF TypeOK
  <2>6. Quiet
    BY <2>1, <2>4 DEF Quiet, InArchive, Ended
  <2> QED
    BY <1>4, <2>5, <2>6, QuietStep DEF Restart, disk
<1> QED
  BY <1>1, <1>2, <1>3, <1>4 DEF Request

-----------------------------------------------------------------------------
(* Steps that write a file or a row.                                       *)

\* A step that adds and removes no row leaves the versions alone.
LEMMA SameVersions ==
  ASSUME IInv, \A k \in Key : rows'[k] # Nil <=> rows[k] # Nil
  PROVE  /\ Contiguous'
         /\ \A a \in Place : /\ VersionsOf(a)' = VersionsOf(a)
                             /\ NextVersion(a)' = NextVersion(a)
<1>1. ASSUME NEW a \in Place PROVE VersionsOf(a)' = VersionsOf(a)
  <2>1. \A v \in Version : <<a, v>> \in Key
    BY DEF Key
  <2> QED
    BY <2>1 DEF VersionsOf
<1>2. ASSUME NEW a \in Place PROVE NextVersion(a)' = NextVersion(a)
  <2>1. PICK l \in 0..MaxUploads : VersionsOf(a) = 1..l
    BY DEF IInv, Contiguous
  <2>2. l \in Nat /\ VersionsOf(a)' = 1..l
    BY <1>1, <2>1, ArchiveAssumption
  <2>3. LatestVersion(a) = l
    BY <2>1, <2>2, LatestOf
  <2>4. LatestVersion(a)' = l
    BY <2>2, LatestOfPrimed
  <2> QED
    BY <2>3, <2>4 DEF NextVersion
<1>3. Contiguous'
  <2>1. \A a \in Place : \E l \in 0..MaxUploads : VersionsOf(a)' = 1..l
    BY <1>1 DEF IInv, Contiguous
  <2> QED
    BY <2>1 DEF Contiguous
<1> QED
  BY <1>1, <1>2, <1>3

\* Nor does it disturb the locks, when an upload moves on within its group of
\* stages or ends.
LEMMA LockedStep ==
  ASSUME IInv, \A k \in Key : rows'[k] # Nil <=> rows[k] # Nil,
         NEW n \in Upload, NEW s \in Stage, Staged(n, s), InProgress(n),
         s \in InArchive => uploads[n].stage \in InArchive,
         s \in {"observe", "mark"} => uploads[n].stage \in {"observe", "mark"}
  PROVE  Locked'
<1>1. ASSUME NEW l \in Upload', NEW m \in Upload',
             InProgress(l)', InProgress(m)',
             uploads'[l].place[2] = uploads'[m].place[2]
      PROVE  l = m
  <2>1. \A k \in Upload : InProgress(k)' => InProgress(k)
    BY DEF Staged, InProgress
  <2> QED
    BY <1>1, <2>1 DEF IInv, Locked, Staged
<1>2. ASSUME NEW m \in Upload', uploads'[m].stage \in InArchive
      PROVE  uploads'[m].version = NextVersion(uploads[m].place)'
  <2>1. m \in Upload /\ uploads[m].stage \in InArchive
        /\ uploads'[m].place = uploads[m].place
        /\ uploads'[m].version = uploads[m].version
    BY <1>2 DEF Staged
  <2>2. PICK b \in Place : b = uploads[m].place
    BY <2>1, UploadType DEF IInv
  <2>3. NextVersion(b)' = NextVersion(uploads[m].place)
    BY <2>2, SameVersions
  <2>4. NextVersion(uploads[m].place)' = NextVersion(b)'
    BY <2>1, <2>2 DEF NextVersion, LatestVersion, VersionsOf
  <2> QED
    BY <2>1, <2>3, <2>4 DEF IInv, Locked, InArchive
<1>3. ASSUME NEW m \in Upload', uploads'[m].stage \in {"observe", "mark"}
      PROVE  uploads'[m].version # 0 /\ rows'[KeyOf(m)'] # Nil
  <2>1. /\ m \in Upload /\ uploads[m].stage \in {"observe", "mark"}
        /\ uploads'[m].version = uploads[m].version /\ KeyOf(m)' = KeyOf(m)
    BY <1>3 DEF Staged, KeyOf
  <2>2. uploads[m].version # 0 /\ rows[KeyOf(m)] # Nil
    BY <2>1 DEF IInv, Locked
  <2>3. KeyOf(m) \in Key
    BY <2>1, <2>2, UploadType DEF IInv
  <2> QED
    BY <2>1, <2>2, <2>3
<1> QED
  BY <1>1, <1>2, <1>3 DEF Locked, InArchive

\* An upload in the archive has a key, and no row yet.
LEMMA InArchiveKey ==
  ASSUME IInv, NEW n \in Upload, uploads[n].stage \in InArchive
  PROVE  /\ KeyOf(n) \in Key /\ FileOf(KeyOf(n)) \in Key
         /\ rows[KeyOf(n)] = Nil
         /\ uploads[n].version = LatestVersion(uploads[n].place) + 1
<1>1. uploads[n] \in UploadRecord /\ uploads[n].place \in Place
  BY UploadType DEF IInv
<1>2. /\ uploads[n].version = LatestVersion(uploads[n].place) + 1
      /\ LatestVersion(uploads[n].place) \in Nat
      /\ VersionsOf(uploads[n].place) = 1..LatestVersion(uploads[n].place)
  BY <1>1, LatestType, ArchiveAssumption DEF IInv, Locked, InArchive
<1>3. KeyOf(n) \in Key /\ FileOf(KeyOf(n)) \in Key
  BY <1>2, UploadType DEF IInv
<1>4. uploads[n].version \notin VersionsOf(uploads[n].place)
  BY <1>2
<1>5. rows[KeyOf(n)] = Nil
  BY <1>3, <1>4 DEF VersionsOf, KeyOf, Key
<1> QED
  BY <1>2, <1>3, <1>5

\* A write to a file that no row has, and no other upload.
LEMMA FileStep ==
  ASSUME IInv, NEW n \in Upload, NEW s \in Stage, Staged(n, s),
         uploads[n].stage \in InArchive,
         Owns(n) \/ files[FileOf(KeyOf(n))] = Nil,
         rows' = rows, manifests \subseteq manifests',
         \A f \in Key : f # FileOf(KeyOf(n)) => files'[f] = files[f],
         s \in {"write", "manifest", "insert"} =>
           /\ files'[FileOf(KeyOf(n))] # Nil
           /\ s # "write" => files'[FileOf(KeyOf(n))] = uploads[n].body
           /\ s = "insert" => FileOf(KeyOf(n)) \in manifests'
  PROVE  RowHoldsItsBytes' /\ Owned'
<1> USE ArchiveAssumption
<1>0. TypeOK /\ KeyOf(n) \in Key /\ FileOf(KeyOf(n)) \in Key
  BY InArchiveKey DEF IInv
<1>1. ASSUME NEW k \in Key, rows[k] # Nil
      PROVE  FileOf(k) # FileOf(KeyOf(n)) /\ files[FileOf(k)] # Nil
  <2>1. rows[k].bytes \in Body /\ files[FileOf(k)] = rows[k].bytes
    BY <1>0, <1>1 DEF TypeOK, UploadRow, IInv, RowHoldsItsBytes
  <2> QED
    BY <1>1, <2>1 DEF IInv, Owned
<1>2. ASSUME NEW m \in Upload, m # n, Owns(m)
      PROVE  FileOf(KeyOf(m)) # FileOf(KeyOf(n)) /\ files[FileOf(KeyOf(m))] # Nil
  BY <1>2 DEF IInv, Owned
<1>3. RowHoldsItsBytes'
  <2> SUFFICES ASSUME NEW k \in Key, rows[k] # Nil
               PROVE  files'[FileOf(k)] = rows[k].bytes /\ FileOf(k) \in manifests'
    BY DEF RowHoldsItsBytes, FileOf, Dir
  <2>1. FileOf(k) \in Key
    BY FileType
  <2> QED
    BY <1>1, <2>1 DEF IInv, RowHoldsItsBytes
<1>4. \A m \in Upload' : m \in Upload /\ FileOf(KeyOf(m))' = FileOf(KeyOf(m))
  BY DEF Staged, FileOf, KeyOf, Dir
<1>5. \A m \in Upload' : Owns(m)' => m = n \/ (Owns(m) /\ uploads'[m] = uploads[m])
  BY DEF Staged, Owns
<1>6. \A m \in Upload : Owns(m) => FileOf(KeyOf(m)) \in Key
  BY InArchiveKey DEF Owns, InArchive
<1>7. ASSUME NEW m \in Upload', Owns(m)'
      PROVE  /\ files'[FileOf(KeyOf(m))'] # Nil
             /\ uploads'[m].stage # "write" =>
                  files'[FileOf(KeyOf(m))'] = uploads'[m].body
             /\ uploads'[m].stage = "insert" => FileOf(KeyOf(m))' \in manifests'
             /\ \A k \in Key : rows'[k] # Nil => FileOf(k) # FileOf(KeyOf(m))'
  <2>1. CASE m = n
    BY <1>1, <1>4, <1>7, <2>1 DEF Staged, Owns
  <2>2. CASE m # n
    <3>1. Owns(m) /\ uploads'[m] = uploads[m] /\ m \in Upload
      BY <1>4, <1>5, <1>7, <2>2
    <3>2. files'[FileOf(KeyOf(m))] = files[FileOf(KeyOf(m))]
      BY <1>2, <1>6, <2>2, <3>1
    <3> QED
      BY <1>4, <3>1, <3>2 DEF IInv, Owned
  <2> QED
    BY <2>1, <2>2
<1>8. ASSUME NEW l \in Upload', NEW m \in Upload', Owns(l)', Owns(m)',
             FileOf(KeyOf(l))' = FileOf(KeyOf(m))'
      PROVE  l = m
  <2>1. FileOf(KeyOf(l)) = FileOf(KeyOf(m))
    BY <1>4, <1>8
  <2>2. CASE l # n /\ m # n
    BY <1>4, <1>5, <1>8, <2>1, <2>2 DEF IInv, Owned
  <2>3. CASE l = n \/ m = n
    BY <1>2, <1>4, <1>5, <1>8, <2>1, <2>3
  <2> QED
    BY <2>2, <2>3
<1>9. Owned'
  BY <1>7, <1>8 DEF Owned, FileOf, Dir
<1> QED
  BY <1>3, <1>9

\* Probe finds the number the upload will be inserted under.
LEMMA ProbeStep ==
  ASSUME IInv, NEW n \in Upload, Probe(n) PROVE IInv'
<1> USE ArchiveAssumption
<1> DEFINE next == NextVersion(uploads[n].place)
           new == [uploads[n] EXCEPT !.version = next, !.stage = "create"]
<1>0. TypeOK /\ uploads[n] \in UploadRecord
  BY UploadType DEF IInv
<1>1. /\ new \in UploadRecord /\ new.place = uploads[n].place
      /\ new.body = uploads[n].body /\ new.version = next /\ new.stage = "create"
  BY <1>0 DEF UploadRecord, Probe, Stage
<1>2. uploads' = [uploads EXCEPT ![n] = new]
  BY <1>0 DEF Probe, TypeOK, Upload, UploadRecord
<1>3. InProgress(n) /\ UNCHANGED <<users, tree, files, manifests, rows,
                                  davHealth, moonHealth, submitted, faults>>
  BY DEF Probe, InProgress, disk
<1>4. uploads[n].place \in Place
  BY UploadType DEF IInv
<1> HIDE DEF new
<1>5. /\ uploads' \in Seq(UploadRecord) /\ Len(uploads') = Len(uploads)
      /\ Upload' = Upload
      /\ \A m \in Upload : uploads'[m] = IF m = n THEN new ELSE uploads[m]
  BY <1>0, <1>1, <1>2 DEF TypeOK, Upload
<1>6. TypeOK'
  BY <1>0, <1>3, <1>5 DEF TypeOK
<1>7. RowHoldsItsBytes' /\ Contiguous'
  <2>1. RowHoldsItsBytes'
    BY <1>3 DEF IInv, RowHoldsItsBytes, FileOf, Dir
  <2> QED
    BY <1>3, <2>1, SameVersions
<1>8. \A m \in Upload : Owns(m)' =>
        /\ Owns(m) /\ m # n /\ uploads'[m] = uploads[m]
        /\ FileOf(KeyOf(m))' = FileOf(KeyOf(m))
  BY <1>1, <1>5 DEF Owns, FileOf, KeyOf, Dir
<1>9. Owned'
  <2> SUFFICES ASSUME NEW m \in Upload', Owns(m)' PROVE
        /\ files'[FileOf(KeyOf(m))'] # Nil
        /\ uploads'[m].stage # "write" => files'[FileOf(KeyOf(m))'] = uploads'[m].body
        /\ uploads'[m].stage = "insert" => FileOf(KeyOf(m))' \in manifests'
        /\ \A k \in Key : rows'[k] # Nil => FileOf(k) # FileOf(KeyOf(m))'
        /\ \A l \in Upload' :
             Owns(l)' /\ FileOf(KeyOf(l))' = FileOf(KeyOf(m))' => l = m
    BY DEF Owned, FileOf, Dir
  <2> QED
    BY <1>3, <1>5, <1>8 DEF IInv, Owned
<1>10. Locked'
  <2>1. ASSUME NEW l \in Upload', NEW m \in Upload',
               InProgress(l)', InProgress(m)',
               uploads'[l].place[2] = uploads'[m].place[2]
        PROVE  l = m
    <3>1. \A k \in Upload : InProgress(k)' => InProgress(k)
      BY <1>3, <1>5 DEF InProgress
    <3> QED
      BY <1>1, <1>5, <2>1, <3>1 DEF IInv, Locked
  <2>2. ASSUME NEW m \in Upload', uploads'[m].stage \in InArchive
        PROVE  uploads'[m].version = NextVersion(uploads[m].place)'
    <3>1. uploads'[m].place = uploads[m].place /\ m \in Upload
      BY <1>1, <1>5, <2>2
    <3>2. NextVersion(uploads[m].place)' = NextVersion(uploads[m].place)
      BY <1>3, <3>1 DEF NextVersion, LatestVersion, VersionsOf
    <3>3. CASE m = n
      BY <1>1, <1>5, <3>2, <3>3
    <3>4. CASE m # n
      BY <1>5, <2>2, <3>1, <3>2, <3>4 DEF IInv, Locked, InArchive
    <3> QED
      BY <3>3, <3>4
  <2>3. ASSUME NEW m \in Upload', uploads'[m].stage \in {"observe", "mark"}
        PROVE  uploads'[m].version # 0 /\ rows'[KeyOf(m)'] # Nil
    <3>1. m \in Upload /\ uploads'[m] = uploads[m] /\ KeyOf(m)' = KeyOf(m)
      BY <1>1, <1>5, <2>3 DEF KeyOf
    <3> QED
      BY <1>3, <2>3, <3>1 DEF IInv, Locked
  <2> QED
    BY <2>1, <2>2, <2>3 DEF Locked, InArchive
<1> QED
  BY <1>6, <1>7, <1>9, <1>10 DEF IInv

\* Creating, filling and describing the file, and giving up.
LEMMA FileWriteStep ==
  ASSUME IInv, NEW n \in Upload,
         Create(n) \/ Write(n) \/ WriteManifest(n)
  PROVE  IInv'
<1> USE ArchiveAssumption
<1>0. TypeOK /\ uploads[n] \in UploadRecord
  BY UploadType DEF IInv
<1>1. uploads[n].stage \in InArchive /\ InProgress(n)
  BY DEF Create, Write, WriteManifest, InArchive, InProgress
<1>2. KeyOf(n) \in Key /\ FileOf(KeyOf(n)) \in Key
  BY <1>1, InArchiveKey
<1>3. PICK s \in {"write", "manifest", "insert"} : Goto(n, s)
  BY DEF Create, Write, WriteManifest
<1>4. s \in Stage /\ s \in InArchive
  BY DEF Stage, InArchive
<1>5. /\ Staged(n, s)
      /\ uploads' \in Seq(UploadRecord) /\ Len(uploads') = Len(uploads)
  BY <1>0, <1>3, <1>4, GotoEffect
<1>6. UNCHANGED <<users, tree, rows, davHealth, moonHealth, submitted, faults>>
  BY DEF Create, Write, WriteManifest
<1>7. files' \in [Key -> Body \cup {Nil}] /\ manifests' \in SUBSET Key
  BY <1>0, <1>2 DEF Create, Write, WriteManifest, TypeOK, UploadRecord
<1>8. TypeOK'
  BY <1>0, <1>5, <1>6, <1>7 DEF TypeOK
<1>9. Contiguous' /\ Locked'
  BY <1>1, <1>4, <1>5, <1>6, SameVersions, LockedStep
<1>10. RowHoldsItsBytes' /\ Owned'
  <2>1. \A f \in Key : f # FileOf(KeyOf(n)) => files'[f] = files[f]
    BY <1>0, <1>2 DEF Create, Write, WriteManifest, TypeOK
  <2>2. CASE Create(n)
    <3>1. s = "write" /\ files'[FileOf(KeyOf(n))] # Nil /\ manifests' = manifests
          /\ files[FileOf(KeyOf(n))] = Nil
      BY <1>0, <1>2, <1>5, <2>2, GotoEffect DEF Create, Creatable, TypeOK, Staged, Stage
    <3> QED
      BY <1>1, <1>4, <1>5, <1>6, <2>1, <3>1, FileStep
  <2>3. CASE Write(n)
    <3>1. s = "manifest" /\ files'[FileOf(KeyOf(n))] = uploads[n].body
          /\ manifests' = manifests /\ Owns(n)
      BY <1>0, <1>2, <1>5, <2>3, GotoEffect DEF Write, TypeOK, Staged, Stage, Owns
    <3>2. uploads[n].body # Nil
      BY <1>0 DEF UploadRecord
    <3> QED
      BY <1>1, <1>4, <1>5, <1>6, <2>1, <3>1, <3>2, FileStep
  <2>4. CASE WriteManifest(n)
    <3>1. s = "insert" /\ files' = files /\ Owns(n)
          /\ manifests' = manifests \cup {FileOf(KeyOf(n))}
      BY <1>0, <1>5, <2>4, GotoEffect DEF WriteManifest, Staged, Stage, Owns
    <3>2. files[FileOf(KeyOf(n))] # Nil /\ files[FileOf(KeyOf(n))] = uploads[n].body
      BY <2>4, <3>1 DEF IInv, Owned, WriteManifest
    <3> QED
      BY <1>1, <1>4, <1>5, <1>6, <2>1, <3>1, <3>2, FileStep
  <2> QED
    BY <2>2, <2>3, <2>4
<1> QED
  BY <1>8, <1>9, <1>10 DEF IInv

\* An error of archiveUpload, which may remove the upload's own file.
LEMMA ArchiveErrorStep ==
  ASSUME IInv, NEW n \in Upload, ArchiveError(n) PROVE IInv'
<1> USE ArchiveAssumption
<1>0. TypeOK
  BY DEF IInv
<1>1. /\ Goto(n, "failed") /\ davHealth' = "degraded" /\ InProgress(n)
      /\ faults' \in 0..MaxFaults
      /\ UNCHANGED <<users, tree, manifests, rows, moonHealth, submitted>>
  BY <1>0 DEF ArchiveError, Archiving, Fail, Fault, InProgress, TypeOK
<1>2. /\ Staged(n, "failed")
      /\ uploads' \in Seq(UploadRecord) /\ Len(uploads') = Len(uploads)
  BY <1>0, <1>1, GotoEffect DEF Stage
<1>3. CASE uploads[n].stage = "probe"
  <2>1. files' = files
    BY <1>3 DEF ArchiveError
  <2>2. TypeOK'
    BY <1>0, <1>1, <1>2, <2>1 DEF TypeOK
  <2>3. Quiet
    BY <1>2, StagedIsQuiet DEF Stage, InArchive, Ended
  <2> QED
    BY <1>1, <2>1, <2>2, <2>3, QuietStep
<1>4. CASE uploads[n].stage = "create"
  <2>1. files' = files
    BY <1>4 DEF ArchiveError
  <2>2. TypeOK'
    BY <1>0, <1>1, <1>2, <2>1 DEF TypeOK
  <2>3. Quiet
    BY <1>2, StagedIsQuiet DEF Stage, InArchive, Ended
  <2> QED
    BY <1>1, <2>1, <2>2, <2>3, QuietStep
<1>5. CASE uploads[n].stage \in {"write", "manifest", "insert"}
  <2>1. uploads[n].stage \in InArchive /\ Owns(n)
    BY <1>5 DEF InArchive, Owns
  <2>2. KeyOf(n) \in Key /\ FileOf(KeyOf(n)) \in Key
    BY <2>1, InArchiveKey
  <2>3. /\ files' \in [Key -> Body \cup {Nil}]
        /\ \A f \in Key : f # FileOf(KeyOf(n)) => files'[f] = files[f]
    BY <1>0, <2>2 DEF ArchiveError, TypeOK
  <2>4. TypeOK'
    BY <1>0, <1>1, <1>2, <2>3 DEF TypeOK
  <2>5. RowHoldsItsBytes' /\ Owned'
    BY <1>1, <1>2, <2>1, <2>3, FileStep DEF Stage
  <2>6. Contiguous' /\ Locked'
    BY <1>1, <1>2, SameVersions, LockedStep DEF Stage, InArchive
  <2> QED
    BY <2>4, <2>5, <2>6 DEF IInv
<1> QED
  BY <1>3, <1>4, <1>5 DEF ArchiveError, Archiving

\* The row of an upload appears where no row was, one version after the last.
LEMMA InsertEffect ==
  ASSUME IInv, NEW n \in Upload, Insert(n)
  PROVE  /\ TypeOK' /\ Staged(n, "observe")
         /\ KeyOf(n) \in Key /\ rows[KeyOf(n)] = Nil /\ rows'[KeyOf(n)] # Nil
         /\ rows'[KeyOf(n)].bytes = uploads[n].body
         /\ \A k \in Key : k # KeyOf(n) => rows'[k] = rows[k]
         /\ \A a \in Place : a # uploads[n].place => VersionsOf(a)' = VersionsOf(a)
         /\ VersionsOf(uploads[n].place)' = 1..uploads[n].version
<1> USE ArchiveAssumption
<1> DEFINE new == [bytes |-> uploads[n].body, parsed |-> FALSE, parseError |-> FALSE]
<1>0. TypeOK /\ uploads[n] \in UploadRecord /\ uploads[n].place \in Place
  BY UploadType DEF IInv
<1>1. uploads[n].stage \in InArchive
  BY DEF Insert, InArchive
<1>2. /\ KeyOf(n) \in Key /\ rows[KeyOf(n)] = Nil
      /\ uploads[n].version = LatestVersion(uploads[n].place) + 1
  BY <1>1, InArchiveKey
<1>3. new \in UploadRow /\ new # Nil /\ new.bytes = uploads[n].body
  <2>1. uploads[n].body \in Body
    BY <1>0 DEF UploadRecord
  <2>2. new \in UploadRow
    BY <2>1 DEF UploadRow
  <2>3. new # Nil
    BY <2>2
  <2> QED
    BY <2>2, <2>3
<1>4. rows' = [rows EXCEPT ![KeyOf(n)] = new]
  BY DEF Insert
<1> HIDE DEF new
<1>5. /\ rows' \in [Key -> UploadRow \cup {Nil}] /\ rows'[KeyOf(n)] = new
      /\ \A k \in Key : k # KeyOf(n) => rows'[k] = rows[k]
  BY <1>0, <1>2, <1>3, <1>4 DEF TypeOK
<1>6. /\ Staged(n, "observe")
      /\ uploads' \in Seq(UploadRecord) /\ Len(uploads') = Len(uploads)
  BY <1>0, GotoEffect DEF Insert, Stage
<1>7. TypeOK'
  BY <1>0, <1>5, <1>6 DEF Insert, TypeOK, disk
<1>8. ASSUME NEW a \in Place, a # uploads[n].place
      PROVE  VersionsOf(a)' = VersionsOf(a)
  <2>1. \A v \in Version : <<a, v>> \in Key /\ <<a, v>> # KeyOf(n)
    BY <1>8 DEF Key, KeyOf
  <2> QED
    BY <1>5, <2>1 DEF VersionsOf
<1>9. PICK a \in Place : a = uploads[n].place
  BY <1>0
<1>10. VersionsOf(a)' = 1..uploads[n].version
  <2>1. \A v \in Version : <<a, v>> \in Key
          /\ (<<a, v>> = KeyOf(n) <=> v = uploads[n].version)
    BY <1>9 DEF Key, KeyOf
  <2>2. \A v \in Version : rows'[<<a, v>>] # Nil
          <=> rows[<<a, v>>] # Nil \/ v = uploads[n].version
    BY <1>3, <1>5, <2>1
  <2>3. VersionsOf(a)' = VersionsOf(a) \cup {uploads[n].version}
    BY <1>0, <1>2, <2>2 DEF VersionsOf, KeyOf, Key
  <2>4. VersionsOf(a) = 1..LatestVersion(a) /\ LatestVersion(a) \in Nat
    BY LatestType
  <2> QED
    BY <1>2, <1>9, <2>3, <2>4
<1>11. VersionsOf(uploads[n].place)' = 1..uploads[n].version
  <2>1. uploads'[n].place = a
    BY <1>6, <1>9 DEF Staged
  <2>2. VersionsOf(uploads[n].place)' = VersionsOf(a)'
    BY <2>1 DEF VersionsOf
  <2> QED
    BY <1>10, <2>2
<1> QED
  BY <1>2, <1>3, <1>5, <1>6, <1>7, <1>8, <1>11

\* The row's file is the upload's own, and nobody else waits for its number.
LEMMA InsertStep ==
  ASSUME IInv, NEW n \in Upload, Insert(n) PROVE IInv'
<1> USE ArchiveAssumption
<1>0. TypeOK /\ uploads[n] \in UploadRecord /\ uploads[n].place \in Place
  BY UploadType DEF IInv
<1>1. /\ TypeOK' /\ Staged(n, "observe")
      /\ KeyOf(n) \in Key /\ rows[KeyOf(n)] = Nil /\ rows'[KeyOf(n)] # Nil
      /\ rows'[KeyOf(n)].bytes = uploads[n].body
      /\ \A k \in Key : k # KeyOf(n) => rows'[k] = rows[k]
      /\ \A a \in Place : a # uploads[n].place => VersionsOf(a)' = VersionsOf(a)
  BY InsertEffect
<1>2. files' = files /\ manifests' = manifests
  BY DEF Insert, disk
<1>3. uploads[n].stage = "insert" /\ Owns(n) /\ InProgress(n)
  BY DEF Insert, Owns, InProgress
<1>4. PICK a \in Place : a = uploads[n].place
  BY <1>0
<1>5. VersionsOf(a)' = 1..uploads[n].version
  <2>1. VersionsOf(uploads[n].place)' = 1..uploads[n].version
    BY InsertEffect
  <2>2. uploads'[n].place = a
    BY <1>1, <1>4 DEF Staged
  <2>3. VersionsOf(uploads[n].place)' = VersionsOf(a)'
    BY <2>2 DEF VersionsOf
  <2> QED
    BY <2>1, <2>3
<1>6. RowHoldsItsBytes'
  <2> SUFFICES ASSUME NEW k \in Key, rows'[k] # Nil
               PROVE  files[FileOf(k)] = rows'[k].bytes /\ FileOf(k) \in manifests
    BY <1>2 DEF RowHoldsItsBytes, FileOf, Dir
  <2>1. CASE k = KeyOf(n)
    BY <1>1, <1>3, <2>1 DEF IInv, Owned
  <2>2. CASE k # KeyOf(n)
    BY <1>1, <2>2 DEF IInv, RowHoldsItsBytes
  <2> QED
    BY <2>1, <2>2
<1>7. \A m \in Upload' : m \in Upload /\ FileOf(KeyOf(m))' = FileOf(KeyOf(m))
  BY <1>1 DEF Staged, FileOf, KeyOf, Dir
<1>12. \A m \in Upload' : KeyOf(m)' = KeyOf(m)
  BY <1>1 DEF Staged, KeyOf
<1>13. \A m \in Upload' : m # n => uploads'[m] = uploads[m]
  BY <1>1 DEF Staged
<1>11. \A m \in Upload' : Owns(m)' => Owns(m) /\ m # n
  BY <1>1 DEF Staged, Owns
<1>8. Owned'
  <2> SUFFICES ASSUME NEW m \in Upload', Owns(m)' PROVE
        /\ files'[FileOf(KeyOf(m))'] # Nil
        /\ uploads'[m].stage # "write" => files'[FileOf(KeyOf(m))'] = uploads'[m].body
        /\ uploads'[m].stage = "insert" => FileOf(KeyOf(m))' \in manifests'
        /\ \A k \in Key : rows'[k] # Nil => FileOf(k) # FileOf(KeyOf(m))'
        /\ \A l \in Upload' :
             Owns(l)' /\ FileOf(KeyOf(l))' = FileOf(KeyOf(m))' => l = m
    BY DEF Owned, FileOf, Dir
  <2>1. m \in Upload /\ Owns(m) /\ m # n /\ uploads'[m] = uploads[m]
    BY <1>7, <1>11, <1>13
  <2>2. FileOf(KeyOf(m)) # FileOf(KeyOf(n))
    BY <1>3, <2>1 DEF IInv, Owned
  <2>3. \A k \in Key : rows'[k] # Nil => FileOf(k) # FileOf(KeyOf(m))
    BY <1>1, <2>1, <2>2 DEF IInv, Owned
  <2> QED
    BY <1>2, <1>7, <1>11, <2>1, <2>3 DEF IInv, Owned
<1>9. Locked'
  <2>1. ASSUME NEW l \in Upload', NEW m \in Upload',
               InProgress(l)', InProgress(m)',
               uploads'[l].place[2] = uploads'[m].place[2]
        PROVE  l = m
    <3>1. \A k \in Upload : InProgress(k)' => InProgress(k)
      BY <1>1, <1>3 DEF Staged, InProgress
    <3> QED
      BY <1>1, <2>1, <3>1 DEF IInv, Locked, Staged
  <2>2. ASSUME NEW m \in Upload', uploads'[m].stage \in InArchive
        PROVE  uploads'[m].version = NextVersion(uploads[m].place)'
    <3>1. m \in Upload /\ m # n /\ uploads'[m] = uploads[m]
      BY <1>1, <2>2 DEF Staged, InArchive
    <3>2. PICK b \in Place : b = uploads[m].place
      BY <1>0, <3>1, UploadType
    <3>3. InProgress(m)
      BY <2>2, <3>1 DEF InArchive, InProgress
    <3>4. b # uploads[n].place
      BY <1>3, <3>1, <3>2, <3>3 DEF IInv, Locked
    <3>5. PICK l \in 0..MaxUploads : VersionsOf(b) = 1..l
      BY DEF IInv, Contiguous
    <3>6. l \in Nat /\ VersionsOf(b)' = 1..l
      BY <1>1, <3>4, <3>5
    <3>7. LatestVersion(b) = l
      BY <3>5, <3>6, LatestOf
    <3>8. LatestVersion(b)' = l
      BY <3>6, LatestOfPrimed
    <3>9. NextVersion(b)' = NextVersion(b)
      BY <3>7, <3>8 DEF NextVersion
    <3>10. NextVersion(uploads[m].place)' = NextVersion(b)'
      BY <3>1, <3>2 DEF NextVersion, LatestVersion, VersionsOf
    <3> QED
      BY <2>2, <3>1, <3>2, <3>9, <3>10 DEF IInv, Locked, InArchive
  <2>3. ASSUME NEW m \in Upload', uploads'[m].stage \in {"observe", "mark"}
        PROVE  uploads'[m].version # 0 /\ rows'[KeyOf(m)'] # Nil
    <3>1. CASE m = n
      <4>1. uploads[n].version # 0
        BY <1>1 DEF KeyOf, Key, Version
      <4>2. uploads'[n].version = uploads[n].version
        BY <1>1 DEF Staged
      <4> QED
        BY <1>1, <1>12, <3>1, <4>1, <4>2
    <3>2. CASE m # n
      <4>0. m \in Upload /\ uploads'[m] = uploads[m] /\ KeyOf(m)' = KeyOf(m)
        BY <1>7, <1>12, <1>13, <3>2
      <4>1. uploads[m].version # 0 /\ rows[KeyOf(m)] # Nil
        BY <2>3, <4>0 DEF IInv, Locked
      <4>2. KeyOf(m) \in Key
        BY <1>0, <4>0, <4>1, UploadType
      <4> QED
        BY <1>1, <4>0, <4>1, <4>2
    <3> QED
      BY <3>1, <3>2
  <2> QED
    BY <2>1, <2>2, <2>3 DEF Locked, InArchive
<1>10. Contiguous'
  <2> SUFFICES ASSUME NEW b \in Place
               PROVE  \E l \in 0..MaxUploads : VersionsOf(b)' = 1..l
    BY DEF Contiguous
  <2>1. CASE b = a
    <3>1. uploads[n].version \in 0..MaxUploads
      BY <1>0 DEF UploadRecord, Version
    <3> QED
      BY <1>5, <2>1, <3>1
  <2>2. CASE b # a
    BY <1>1, <1>4, <2>2 DEF IInv, Contiguous
  <2> QED
    BY <2>1, <2>2
<1> QED
  BY <1>1, <1>6, <1>8, <1>9, <1>10 DEF IInv

\* The observer changes the columns parsed and parse_error only.
LEMMA ObserverStep ==
  ASSUME IInv, NEW n \in Upload, UnknownFormat(n) \/ MarkParsed(n)
  PROVE  /\ IInv'
         /\ \A k \in Key : rows'[k] # Nil <=> rows[k] # Nil
         /\ UNCHANGED files
<1> USE ArchiveAssumption
<1>0. TypeOK
  BY DEF IInv
<1>1. /\ uploads[n].stage \in {"observe", "mark"} /\ InProgress(n)
      /\ Goto(n, "done") /\ moonHealth' \in {"ok", "degraded"}
      /\ UNCHANGED <<users, tree, files, manifests, davHealth, submitted, faults>>
  BY DEF UnknownFormat, MarkParsed, InProgress, disk
<1>2. KeyOf(n) \in Key /\ rows[KeyOf(n)] # Nil /\ rows[KeyOf(n)] \in UploadRow
  <2>1. uploads[n].version # 0 /\ rows[KeyOf(n)] # Nil
    BY <1>1 DEF IInv, Locked
  <2>2. KeyOf(n) \in Key
    BY <1>0, <2>1, UploadType
  <2> QED
    BY <1>0, <2>1, <2>2 DEF TypeOK
<1>3. PICK row \in UploadRow : rows' = UpdateRows(KeyOf(n), row)
  <2>1. /\ [rows[KeyOf(n)] EXCEPT !.parseError = TRUE] \in UploadRow
        /\ [rows[KeyOf(n)] EXCEPT !.parsed = TRUE] \in UploadRow
    BY <1>2 DEF UploadRow
  <2> QED
    BY <2>1 DEF UnknownFormat, MarkParsed
<1>4. /\ rows' \in [Key -> UploadRow \cup {Nil}]
      /\ \A k \in Key : /\ rows'[k] # Nil <=> rows[k] # Nil
                        /\ rows[k] # Nil => rows'[k].bytes = rows[k].bytes
  <2> DEFINE new == UpdateRows(KeyOf(n), row)
  <2>1. /\ new \in [Key -> UploadRow \cup {Nil}]
        /\ \A k \in Key : /\ new[k] # Nil <=> rows[k] # Nil
                          /\ rows[k] # Nil => new[k].bytes = rows[k].bytes
    <3> DEFINE key == KeyOf(n)
    <3>1. key \in Key
      BY <1>2
    <3> HIDE DEF key
    <3>2. /\ UpdateRows(key, row) \in [Key -> UploadRow \cup {Nil}]
          /\ \A k \in Key :
               /\ UpdateRows(key, row)[k] # Nil <=> rows[k] # Nil
               /\ rows[k] # Nil => UpdateRows(key, row)[k].bytes = rows[k].bytes
      BY <1>0, <3>1, RowsType
    <3> QED
      BY <3>2 DEF key
  <2>2. rows' = new
    BY <1>3
  <2> HIDE DEF new
  <2> QED
    BY <2>1, <2>2
<1>5. /\ Staged(n, "done")
      /\ uploads' \in Seq(UploadRecord) /\ Len(uploads') = Len(uploads)
  BY <1>0, <1>1, GotoEffect DEF Stage
<1>6. TypeOK'
  BY <1>0, <1>1, <1>4, <1>5 DEF TypeOK
<1>7. Contiguous'
  BY <1>4, SameVersions
<1>8. Locked'
  BY <1>1, <1>4, <1>5, LockedStep DEF Stage, InArchive
<1>9. RowHoldsItsBytes'
  BY <1>1, <1>4 DEF IInv, RowHoldsItsBytes, FileOf, Dir
<1>10. \A m \in Upload' : m \in Upload /\ FileOf(KeyOf(m))' = FileOf(KeyOf(m))
  BY <1>5 DEF Staged, FileOf, KeyOf, Dir
<1>11. \A m \in Upload' : Owns(m)' => Owns(m) /\ m # n
  BY <1>5 DEF Staged, Owns
<1>12. \A m \in Upload' : m # n => uploads'[m] = uploads[m]
  BY <1>5 DEF Staged
<1>13. Owned'
  <2> SUFFICES ASSUME NEW m \in Upload', Owns(m)' PROVE
        /\ files'[FileOf(KeyOf(m))'] # Nil
        /\ uploads'[m].stage # "write" => files'[FileOf(KeyOf(m))'] = uploads'[m].body
        /\ uploads'[m].stage = "insert" => FileOf(KeyOf(m))' \in manifests'
        /\ \A k \in Key : rows'[k] # Nil => FileOf(k) # FileOf(KeyOf(m))'
        /\ \A l \in Upload' :
             Owns(l)' /\ FileOf(KeyOf(l))' = FileOf(KeyOf(m))' => l = m
    BY DEF Owned, FileOf, Dir
  <2>1. m \in Upload /\ Owns(m) /\ uploads'[m] = uploads[m]
    BY <1>10, <1>11, <1>12
  <2> QED
    BY <1>1, <1>4, <1>10, <1>11, <2>1 DEF IInv, Owned
<1> QED
  BY <1>1, <1>4, <1>6, <1>7, <1>8, <1>9, <1>13 DEF IInv

-----------------------------------------------------------------------------
(* The theorems.                                                           *)

LEMMA InvInit == Init => IInv
<1> SUFFICES ASSUME Init PROVE IInv
  OBVIOUS
<1> USE ArchiveAssumption
<1>1. TypeOK /\ Upload = {} /\ \A k \in Key : rows[k] = Nil
  BY TypeInit DEF Init, Upload
<1>2. Contiguous
  <2>1. ASSUME NEW a \in Place PROVE VersionsOf(a) = 1..0
    BY <1>1 DEF VersionsOf, Key
  <2>2. 0 \in 0..MaxUploads
    OBVIOUS
  <2> QED
    BY <2>1, <2>2 DEF Contiguous
<1> QED
  BY <1>1, <1>2 DEF IInv, RowHoldsItsBytes, Owned, Locked

\* A step of an upload, whatever becomes of it.
LEMMA UploadStep ==
  ASSUME IInv, NEW n \in Upload, ArchiveStep(n) \/ Failure(n) PROVE IInv'
<1>1. CASE Close(n) \/ Collide(n) \/ SubmitProgress(n) \/ ObserverError(n)
  BY <1>1, QuietUpload
<1>2. CASE Create(n) \/ Write(n) \/ WriteManifest(n)
  BY <1>2, FileWriteStep
<1>3. CASE UnknownFormat(n) \/ MarkParsed(n)
  BY <1>3, ObserverStep
<1>4. CASE BreakOff(n)
  BY <1>4, BreakOffEffect, QuietStep DEF IInv
<1> QED
  BY <1>1, <1>2, <1>3, <1>4, ProbeStep, InsertStep, ArchiveErrorStep
     DEF ArchiveStep, Failure

LEMMA InvNext == IInv /\ [Next]_vars => IInv'
<1> SUFFICES ASSUME IInv, [Next]_vars PROVE IInv'
  OBVIOUS
<1>1. CASE Request \/ Restart
  BY <1>1, RequestStep
<1>2. ASSUME NEW n \in Upload, ArchiveStep(n) \/ Failure(n) PROVE IInv'
  BY <1>2, UploadStep
<1>3. CASE UNCHANGED vars
  <2>1. Quiet
    BY <1>3 DEF vars, Quiet, Upload
  <2>2. TypeOK'
    BY <1>3 DEF vars, disk, IInv, TypeOK, Upload
  <2> QED
    BY <1>3, <2>1, <2>2, QuietStep DEF vars, disk
<1> QED
  BY <1>1, <1>2, <1>3 DEF Next

\* Files and rows fit together at every moment: a row's file holds the bytes
\* the row was written for, one upload at a time owns a file, and a path's
\* versions have no gap (archiveUpload's exclusive create and its version
\* number, under the lock of the WebDAV handler).
THEOREM Inductive == Spec => []IInv
BY InvInit, InvNext, PTL DEF Spec

\* No crash, failed write or shared directory makes a row's file hold other
\* bytes than those it was written for.
THEOREM RowsHoldTheirBytes == Spec => []RowHoldsItsBytes
<1>1. IInv => RowHoldsItsBytes
  BY DEF IInv
<1> QED
  BY <1>1, Inductive, PTL

-----------------------------------------------------------------------------
(* The refinement of VersionStore.                                         *)

\* What a place keeps, when its versions are 1..l.
LEMMA KeptAt ==
  ASSUME NEW a \in Place, NEW l \in Nat, VersionsOf(a) = 1..l
  PROVE  Kept[a] = [v \in 1..l |-> files[FileOf(<<a, v>>)]]
BY LatestOf DEF Kept

LEMMA KeptAtPrimed ==
  ASSUME NEW a \in Place, NEW l \in Nat, VersionsOf(a)' = 1..l
  PROVE  Kept'[a] = [v \in 1..l |-> files'[FileOf(<<a, v>>)]]
<1>1. LatestVersion(a)' = l
  BY LatestOfPrimed
<1>2. Kept'[a] = [v \in 1..LatestVersion(a)' |-> files'[FileOf(<<a, v>>)]]
  BY DEF Kept, FileOf, Dir
<1> QED
  BY <1>1, <1>2

\* A step that leaves the rows' versions and their files alone keeps it all.
LEMMA KeptSame ==
  ASSUME IInv, \A a \in Place : VersionsOf(a)' = VersionsOf(a),
         \A k \in Key : rows[k] # Nil => files'[FileOf(k)] = files[FileOf(k)]
  PROVE  Kept' = Kept
<1>1. ASSUME NEW a \in Place PROVE Kept'[a] = Kept[a]
  <2>1. PICK l \in Nat : VersionsOf(a) = 1..l
    BY ArchiveAssumption DEF IInv, Contiguous
  <2>2. Kept[a] = [v \in 1..l |-> files[FileOf(<<a, v>>)]]
        /\ Kept'[a] = [v \in 1..l |-> files'[FileOf(<<a, v>>)]]
    BY <2>1, KeptAt, KeptAtPrimed
  <2>3. \A v \in 1..l : files'[FileOf(<<a, v>>)] = files[FileOf(<<a, v>>)]
    <3>1. \A v \in 1..l : <<a, v>> \in Key /\ rows[<<a, v>>] # Nil
      BY <2>1 DEF VersionsOf, Key
    <3> QED
      BY <3>1
  <2> QED
    BY <2>2, <2>3
<1>2. Kept = [a \in Place |-> Kept[a]] /\ Kept' = [a \in Place |-> Kept'[a]]
  BY DEF Kept
<1> QED
  BY <1>1, <1>2, Zenon

\* Inserting a row appends the upload's bytes to what its place keeps.
LEMMA InsertKeeps ==
  ASSUME IInv, NEW n \in Upload, Insert(n)
  PROVE  Store!Keep(uploads[n].place, uploads[n].body)
<1> USE ArchiveAssumption
<1>0. TypeOK /\ uploads[n] \in UploadRecord
  BY UploadType DEF IInv
<1>1. /\ Staged(n, "observe") /\ KeyOf(n) \in Key
      /\ \A a \in Place : a # uploads[n].place => VersionsOf(a)' = VersionsOf(a)
  BY InsertEffect
<1>2. files' = files /\ uploads[n].stage = "insert" /\ Owns(n)
  BY DEF Insert, disk, Owns
<1>3. PICK a \in Place : a = uploads[n].place
  BY UploadType DEF IInv
<1>4. PICK l \in Nat : VersionsOf(a) = 1..l
  BY DEF IInv, Contiguous
<1>5. uploads[n].version = l + 1
  <2>1. LatestVersion(a) = l
    BY <1>4, LatestOf
  <2> QED
    BY <1>2, <1>3, <2>1, InArchiveKey DEF InArchive
<1>6. VersionsOf(a)' = 1..(l + 1)
  <2>1. VersionsOf(uploads[n].place)' = 1..uploads[n].version
    BY InsertEffect
  <2>2. uploads'[n].place = a
    BY <1>1, <1>3 DEF Staged
  <2>3. VersionsOf(uploads[n].place)' = VersionsOf(a)'
    BY <2>2 DEF VersionsOf
  <2> QED
    BY <1>5, <2>1, <2>3
<1>7. files[FileOf(<<a, l + 1>>)] = uploads[n].body
  <2>1. KeyOf(n) = <<a, l + 1>>
    BY <1>3, <1>5 DEF KeyOf
  <2> QED
    BY <1>2, <2>1 DEF IInv, Owned
<1>8. Kept'[a] = Append(Kept[a], uploads[n].body)
  <2>1. Kept[a] = [v \in 1..l |-> files[FileOf(<<a, v>>)]]
    BY <1>4, KeptAt
  <2>2. Kept'[a] = [v \in 1..(l + 1) |-> files[FileOf(<<a, v>>)]]
    BY <1>2, <1>6, KeptAtPrimed
  <2>3. ASSUME NEW v \in 1..l PROVE files[FileOf(<<a, v>>)] \in Body
    <3>1. <<a, v>> \in Key /\ rows[<<a, v>>] # Nil
      BY <1>4 DEF VersionsOf, Key
    <3> QED
      BY <1>0, <3>1 DEF IInv, RowHoldsItsBytes, TypeOK, UploadRow
  <2>4. Kept[a] \in Seq(Body) /\ Len(Kept[a]) = l
    <3>1. Kept[a] \in [1..l -> Body]
      BY <2>1, <2>3
    <3> QED
      BY <3>1
  <2>5. uploads[n].body \in Body
    BY <1>0 DEF UploadRecord
  <2> QED
    BY <1>7, <2>1, <2>2, <2>4, <2>5
<1>9. ASSUME NEW b \in Place, b # a PROVE Kept'[b] = Kept[b]
  <2>1. PICK k \in Nat : VersionsOf(b) = 1..k
    BY DEF IInv, Contiguous
  <2>2. VersionsOf(b)' = 1..k
    BY <1>1, <1>3, <1>9, <2>1
  <2>3. Kept[b] = [v \in 1..k |-> files[FileOf(<<b, v>>)]]
    BY <2>1, KeptAt
  <2>4. Kept'[b] = [v \in 1..k |-> files'[FileOf(<<b, v>>)]]
    BY <2>2, KeptAtPrimed
  <2> QED
    BY <1>2, <2>3, <2>4, Zenon
<1>10. Kept' = [Kept EXCEPT ![a] = Append(@, uploads[n].body)]
  <2>1. Kept = [b \in Place |-> Kept[b]] /\ Kept' = [b \in Place |-> Kept'[b]]
    BY DEF Kept
  <2> QED
    BY <1>8, <1>9, <2>1
<1> QED
  BY <1>3, <1>10 DEF Store!Keep

\* Every step keeps one more upload at the end of a place, or nothing.
LEMMA StoreStep ==
  ASSUME IInv, [Next]_vars PROVE Store!Next \/ UNCHANGED Kept
<1> USE ArchiveAssumption
<1>1. ASSUME NEW n \in Upload, Insert(n) PROVE Store!Next
  <2>1. uploads[n].place \in Place /\ uploads[n].body \in Body
    BY UploadType DEF IInv, UploadRecord
  <2> QED
    BY <1>1, <2>1, InsertKeeps DEF Store!Next
<1>2. ASSUME UNCHANGED <<files, rows>> PROVE UNCHANGED Kept
  BY <1>2 DEF Kept, LatestVersion, VersionsOf, FileOf, Dir
<1>3. CASE Request \/ Restart \/ UNCHANGED vars
  BY <1>2, <1>3
     DEF Request, GenerateSetup, SetupLost, Put, RemoveAll, Rename, Restart,
         vars, disk
<1>4. ASSUME NEW n \in Upload,
             \/ Close(n) \/ Probe(n) \/ WriteManifest(n) \/ Collide(n)
             \/ SubmitProgress(n) \/ BreakOff(n) \/ ObserverError(n)
      PROVE  UNCHANGED Kept
  BY <1>2, <1>4
     DEF Close, Probe, WriteManifest, Collide, SubmitProgress, BreakOff,
         ObserverError, disk
<1>5. ASSUME NEW n \in Upload, Create(n) \/ Write(n) \/ ArchiveError(n)
      PROVE  UNCHANGED Kept
  <2>1. rows' = rows
    BY <1>5 DEF Create, Write, ArchiveError
  <2>2. \A a \in Place : VersionsOf(a)' = VersionsOf(a)
    BY <2>1, SameVersions
  <2>3. ASSUME NEW k \in Key, rows[k] # Nil
        PROVE  files'[FileOf(k)] = files[FileOf(k)]
    <3>1. /\ files[FileOf(k)] # Nil /\ FileOf(k) \in Key
          /\ files \in [Key -> Body \cup {Nil}]
      BY <2>3, FileType DEF IInv, RowHoldsItsBytes, TypeOK, UploadRow
    <3>2. CASE Create(n)
      BY <3>1, <3>2 DEF Create, Creatable
    <3>3. CASE Write(n)
      <4>1. FileOf(k) # FileOf(KeyOf(n))
        BY <2>3, <3>3 DEF IInv, Owned, Owns, Write
      <4> QED
        BY <3>1, <3>3, <4>1 DEF Write
    <3>4. CASE ArchiveError(n)
      <4>1. uploads[n].stage = "write" => FileOf(k) # FileOf(KeyOf(n))
        BY <2>3 DEF IInv, Owned, Owns
      <4> QED
        BY <3>1, <3>4, <4>1 DEF ArchiveError
    <3> QED
      BY <1>5, <3>2, <3>3, <3>4
  <2> QED
    BY <2>2, <2>3, KeptSame
<1>6. ASSUME NEW n \in Upload, UnknownFormat(n) \/ MarkParsed(n)
      PROVE  UNCHANGED Kept
  <2>1. /\ \A k \in Key : rows'[k] # Nil <=> rows[k] # Nil
        /\ files' = files
    BY <1>6, ObserverStep
  <2> QED
    BY <2>1, SameVersions, KeptSame
<1> QED
  BY <1>1, <1>3, <1>4, <1>5, <1>6 DEF Next, ArchiveStep, Failure

LEMMA StoreInit == Init => Store!Init
<1> SUFFICES ASSUME Init PROVE Kept = [a \in Place |-> <<>>]
  BY DEF Store!Init
<1>1. ASSUME NEW a \in Place PROVE Kept[a] = <<>>
  <2>1. VersionsOf(a) = 1..0
    BY <1>1 DEF Init, VersionsOf, Key
  <2>2. Kept[a] = [v \in 1..0 |-> files[FileOf(<<a, v>>)]]
    BY <2>1, KeptAt
  <2> QED
    BY <2>2
<1>2. Kept = [a \in Place |-> Kept[a]]
  BY DEF Kept
<1> QED
  BY <1>1, <1>2

\* The archive implements the abstract store: whatever crashes and failing
\* writes do, an upload that was kept stays where it is, and the next one comes
\* after it.
THEOREM Refinement == Spec => StoreSpec
BY StoreInit, StoreStep, Inductive, PTL DEF Spec, StoreSpec, Store!Spec
=============================================================================
