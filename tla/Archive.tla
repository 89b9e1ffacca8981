------------------------------- MODULE Archive -------------------------------
(***************************************************************************)
(* The embedded WebDAV server and the Moon+ adapter behind it: a PUT goes  *)
(* into a file tree in memory, its bytes are archived under the next       *)
(* version number of its path as a file, a manifest and a row of           *)
(* moon_uploads, and an observer parses them and submits the progress to   *)
(* the pipeline.  Files and rows are not written together: the process may *)
(* die, or one of the writes fail, between any two of them.                *)
(*                                                                         *)
(* golang.org/x/net/webdav is external.  It holds a lock on the path of a  *)
(* PUT from before the file is opened until after it is closed, whoever    *)
(* the user is.                                                            *)
(***************************************************************************)
EXTENDS Naturals, Sequences

CONSTANTS User, Path,
          Suffix,      \* Suffix[p]: "po", "an" or "other"
          Safe,        \* Safe[p]: safeRelPath, its directory on disk
          Body,        \* what may be uploaded
          Tenths,      \* Tenths[b]: percentage in a well-formed .po, in tenths
          Empty,       \* the upload without bytes
          Broken,      \* what is left of an upload that breaks off
          Nil,         \* no file, no row, no percentage
          MaxUploads,  \* bound: PUTs
          MaxFaults    \* bound: failing writes, broken uploads, crashes

Version == 1..MaxUploads
Place == User \X Path

\* bytes: the sha256 column.
UploadRow == [bytes : Body, parsed : BOOLEAN, parseError : BOOLEAN]

ASSUME ArchiveAssumption ==
  /\ MaxUploads \in Nat /\ MaxFaults \in Nat
  /\ {Empty, Broken} \subseteq Body /\ Nil \notin Body \cup UploadRow
  /\ Tenths \in [Body -> Nat \cup {Nil}]
  /\ Suffix \in [Path -> {"po", "an", "other"}]
  /\ Safe \in [Path -> Path]

VARIABLES
  users,      \* moon_users, with whether anybody was told the password
  tree,       \* the file tree in memory: what a GET answers
  uploads,    \* PUTs, in order of arrival, see UploadRecord
  files,      \* raw/<user>/<path>/<version>.bin, or Nil
  manifests,  \* the places and versions that have a <version>.json
  rows,       \* moon_uploads, by user, path and version, or Nil
  davHealth,  \* health of the WebDAV server
  moonHealth, \* health of the Moon+ adapter
  submitted,  \* history: the outcome of Submit for a row, or "none"
  faults      \* faults so far (bound)

vars == <<users, tree, uploads, files, manifests, rows, davHealth, moonHealth,
          submitted, faults>>

disk == <<files, manifests>>

Key == Place \X Version
Dir(a) == <<a[1], Safe[a[2]]>>

\* Where a PUT is: copying the body, then in archiveUpload before each of its
\* writes, then in the observer, then answered.  archived is a history.
Stage == {"copying", "probe", "create", "write", "manifest", "insert",
          "observe", "mark", "done", "failed", "lost"}

UploadRecord ==
  [place : Place, body : Body, version : Version \cup {0}, stage : Stage]

Upload == DOMAIN uploads
InProgress(n) == uploads[n].stage \notin {"done", "failed", "lost"}
Archiving(n) == uploads[n].stage \in
  {"probe", "create", "write", "manifest", "insert"}

KeyOf(n) == <<uploads[n].place, uploads[n].version>>
FileOf(k) == <<Dir(k[1]), k[2]>>

Goto(n, stage) == uploads' = [uploads EXCEPT ![n].stage = stage]

Fault == faults < MaxFaults /\ faults' = faults + 1

-----------------------------------------------------------------------------
(* Users and the tree.                                                     *)

\* The row of a user, once.
CreateUser(u, password) ==
  users[u] = "none" /\ users' = [users EXCEPT ![u] = password]

\* GenerateSetup: the user's row, and a password that only its answer and the
\* secrets store hold.
GenerateSetup(u) ==
  /\ CreateUser(u, "known")
  /\ UNCHANGED <<tree, uploads, disk, rows, davHealth, moonHealth, submitted,
                 faults>>

\* The process dies after CreateUser and before anybody has the password; a
\* second GenerateSetup is refused with ErrUserExists.
SetupLost(u) ==
  /\ Fault
  /\ CreateUser(u, "unknown")
  /\ UNCHANGED <<tree, uploads, disk, rows, davHealth, moonHealth, submitted>>

Authenticated(u) == users[u] = "known"

UnlockedAlways(p) == TRUE               \* Mutant of Unlocked

\* The lock system knows paths, not users.
Unlocked(p) == \A n \in Upload : InProgress(n) => uploads[n].place[2] # p

\* OpenFile truncates, the copy loop fills the tree's file and the buffer.
Put(a, b) ==
  /\ Len(uploads) < MaxUploads
  /\ Authenticated(a[1])
  /\ Unlocked(a[2])
  /\ uploads' = Append(uploads, [place |-> a, body |-> b, version |-> 0,
                                 stage |-> "copying"])
  /\ tree' = [tree EXCEPT ![a] = b]
  /\ UNCHANGED <<users, disk, rows, davHealth, moonHealth, submitted, faults>>

\* The client goes away: the copy ends early, without an error of Write.
BreakOff(n) ==
  /\ uploads[n].stage = "copying" /\ uploads[n].body # Empty
  /\ Fault
  /\ uploads' = [uploads EXCEPT ![n].body = Broken]
  /\ tree' = [tree EXCEPT ![uploads[n].place] = Broken]
  /\ UNCHANGED <<users, disk, rows, davHealth, moonHealth, submitted>>

\* MOVE and DELETE touch the tree only.
Rename(a, b) ==
  /\ a # b /\ a[1] = b[1] /\ Authenticated(a[1])
  /\ tree[a] # Nil
  /\ Unlocked(a[2]) /\ Unlocked(b[2])
  /\ tree' = [tree EXCEPT ![b] = tree[a], ![a] = Nil]
  /\ UNCHANGED <<users, uploads, disk, rows, davHealth, moonHealth, submitted,
                 faults>>

RemoveAll(a) ==
  /\ Authenticated(a[1]) /\ tree[a] # Nil /\ Unlocked(a[2])
  /\ tree' = [tree EXCEPT ![a] = Nil]
  /\ UNCHANGED <<users, uploads, disk, rows, davHealth, moonHealth, submitted,
                 faults>>

-----------------------------------------------------------------------------
(* Close and archiveUpload, a step per write.                              *)

\* Nothing written, nothing archived: an empty PUT only truncates.
Close(n) ==
  /\ uploads[n].stage = "copying"
  /\ Goto(n, IF uploads[n].body = Empty THEN "done" ELSE "probe")
  /\ UNCHANGED <<users, tree, disk, rows, davHealth, moonHealth, submitted,
                 faults>>

VersionsOf(a) == {v \in Version : rows[<<a, v>>] # Nil}

\* LatestVersion: 0 when nothing is recorded.
LatestVersion(a) ==
  IF VersionsOf(a) = {} THEN 0
  ELSE CHOOSE v \in VersionsOf(a) : \A w \in VersionsOf(a) : w <= v

NextVersionSkips(a) == LatestVersion(a) + 2      \* Mutant of NextVersion

NextVersion(a) == LatestVersion(a) + 1

Probe(n) ==
  /\ uploads[n].stage = "probe"
  /\ NextVersion(uploads[n].place) \in Version      \* bound
  /\ uploads' = [uploads EXCEPT ![n].version = NextVersion(uploads[n].place),
                                ![n].stage = "create"]
  /\ UNCHANGED <<users, tree, disk, rows, davHealth, moonHealth, submitted,
                 faults>>

CreatableAlways(k) == TRUE              \* Mutant of Creatable: no O_EXCL

\* O_CREATE|O_EXCL.
Creatable(k) == files[FileOf(k)] = Nil

Create(n) ==
  /\ uploads[n].stage = "create" /\ Creatable(KeyOf(n))
  /\ files' = [files EXCEPT ![FileOf(KeyOf(n))] = Empty]
  /\ Goto(n, "write")
  /\ UNCHANGED <<users, tree, manifests, rows, davHealth, moonHealth,
                 submitted, faults>>

WriteWithoutManifest(n) ==              \* Mutant of Write
  /\ uploads[n].stage = "write"
  /\ files' = [files EXCEPT ![FileOf(KeyOf(n))] = uploads[n].body]
  /\ Goto(n, "insert")
  /\ UNCHANGED <<users, tree, manifests, rows, davHealth, moonHealth,
                 submitted, faults>>

Write(n) ==
  /\ uploads[n].stage = "write"
  /\ files' = [files EXCEPT ![FileOf(KeyOf(n))] = uploads[n].body]
  /\ Goto(n, "manifest")
  /\ UNCHANGED <<users, tree, manifests, rows, davHealth, moonHealth,
                 submitted, faults>>

WriteManifest(n) ==
  /\ uploads[n].stage = "manifest"
  /\ manifests' = manifests \cup {FileOf(KeyOf(n))}
  /\ Goto(n, "insert")
  /\ UNCHANGED <<users, tree, files, rows, davHealth, moonHealth, submitted,
                 faults>>

\* UNIQUE(user_id, rel_path, version).
Insert(n) ==
  /\ uploads[n].stage = "insert" /\ rows[KeyOf(n)] = Nil
  /\ rows' = [rows EXCEPT ![KeyOf(n)] =
       [bytes |-> uploads[n].body, parsed |-> FALSE, parseError |-> FALSE]]
  /\ Goto(n, "observe")
  /\ UNCHANGED <<users, tree, disk, davHealth, moonHealth, submitted, faults>>

FailQuietly(n) ==                       \* Mutant of Fail: health forgotten
  /\ Goto(n, "failed")
  /\ UNCHANGED davHealth

\* archiveUpload returns an error: logged, and the PUT succeeds all the same.
Fail(n) ==
  /\ Goto(n, "failed")
  /\ davHealth' = "degraded"

\* The version's file exists.  (That its row exists cannot happen: locks.)
Collide(n) ==
  /\ uploads[n].stage = "create" /\ ~Creatable(KeyOf(n))
  /\ Fail(n)
  /\ UNCHANGED <<users, tree, disk, rows, moonHealth, submitted, faults>>

\* Any other error of archiveUpload: only a failed write removes its file.
ArchiveError(n) ==
  /\ Archiving(n)
  /\ Fault
  /\ Fail(n)
  /\ files' = IF uploads[n].stage = "write"
              THEN [files EXCEPT ![FileOf(KeyOf(n))] = Nil] ELSE files
  /\ UNCHANGED <<users, tree, manifests, rows, moonHealth, submitted>>

-----------------------------------------------------------------------------
(* The Moon+ adapter's observer.                                           *)

\* Parse: the percentage in tenths, or Nil for an unknown format.
Parse(p, b) ==
  IF Suffix[p] # "po" \/ Tenths[b] = Nil THEN Nil
  ELSE IF Tenths[b] > 1005 THEN Nil
  ELSE IF Tenths[b] > 1000 THEN 1000 ELSE Tenths[b]

\* readArchive, of the file the row names.
Parsed(n) == Parse(uploads[n].place[2], files[FileOf(KeyOf(n))])

UpdateRowsOfPath(k, row) ==             \* Mutant of UpdateRows
  [x \in Key |-> IF rows[x] # Nil /\ x[1] = k[1]
                 THEN [row EXCEPT !.bytes = rows[x].bytes] ELSE rows[x]]

\* UPDATE ... WHERE archive_path = ?: every row with that file.
UpdateRows(k, row) ==
  [x \in Key |-> IF rows[x] # Nil /\ FileOf(x) = FileOf(k)
                 THEN [row EXCEPT !.bytes = rows[x].bytes] ELSE rows[x]]

UnknownFormat(n) ==
  /\ uploads[n].stage = "observe" /\ Parsed(n) = Nil
  /\ moonHealth' = "degraded"
  /\ rows' = UpdateRows(KeyOf(n), [rows[KeyOf(n)] EXCEPT !.parseError = TRUE])
  /\ Goto(n, "done")
  /\ UNCHANGED <<users, tree, disk, davHealth, submitted, faults>>

\* Submit comes back with nil or an error, ten seconds at the latest; an
\* error is only logged.
SubmitProgress(n) ==
  /\ uploads[n].stage = "observe" /\ Parsed(n) # Nil
  /\ \E outcome \in {"ok", "error"} :
       submitted' = [submitted EXCEPT ![KeyOf(n)] = outcome]
  /\ Goto(n, "mark")
  /\ UNCHANGED <<users, tree, disk, rows, davHealth, moonHealth, faults>>

\* parsed = 1, whatever Submit said.
MarkParsed(n) ==
  /\ uploads[n].stage = "mark"
  /\ rows' = UpdateRows(KeyOf(n), [rows[KeyOf(n)] EXCEPT !.parsed = TRUE])
  /\ moonHealth' = "ok"
  /\ Goto(n, "done")
  /\ UNCHANGED <<users, tree, disk, davHealth, submitted, faults>>

\* The file cannot be read, a status write fails, or the observer panics and
\* fireObservers recovers.
ObserverError(n) ==
  /\ uploads[n].stage \in {"observe", "mark"}
  /\ Fault
  /\ Goto(n, "done")
  /\ UNCHANGED <<users, tree, disk, rows, davHealth, moonHealth, submitted>>

-----------------------------------------------------------------------------
\* The process ends and starts again: disk and rows stay, the tree does not.
Restart ==
  /\ Fault
  /\ tree' = [a \in Place |-> Nil]
  /\ uploads' = [n \in Upload |->
       IF InProgress(n) THEN [uploads[n] EXCEPT !.stage = "lost"]
       ELSE uploads[n]]
  /\ davHealth' = "ok" /\ moonHealth' = "ok"
  /\ UNCHANGED <<users, disk, rows, submitted>>

Init ==
  /\ users = [u \in User |-> "none"]
  /\ tree = [a \in Place |-> Nil]
  /\ uploads = <<>>
  /\ files = [f \in Key |-> Nil]
  /\ manifests = {}
  /\ rows = [k \in Key |-> Nil]
  /\ davHealth = "ok" /\ moonHealth = "ok"
  /\ submitted = [k \in Key |-> "none"]
  /\ faults = 0

Request ==
  \/ \E u \in User : GenerateSetup(u) \/ SetupLost(u)
  \/ \E a \in Place : RemoveAll(a) \/ \E b \in Body \ {Broken} : Put(a, b)
  \/ \E a, b \in Place : Rename(a, b)

ArchiveStep(n) ==
  \/ Close(n)
  \/ Probe(n)
  \/ Create(n)
  \/ Write(n)
  \/ WriteManifest(n)
  \/ Insert(n)
  \/ Collide(n)
  \/ UnknownFormat(n)
  \/ SubmitProgress(n)
  \/ MarkParsed(n)

Failure(n) == BreakOff(n) \/ ArchiveError(n) \/ ObserverError(n)

Next ==
  \/ Request
  \/ \E n \in Upload : ArchiveStep(n) \/ Failure(n)
  \/ Restart

Spec == Init /\ [][Next]_vars

-----------------------------------------------------------------------------
(* Properties.                                                             *)

\* Requests, files and rows have the shape of their structs and tables.
TypeOK ==
  /\ users \in [User -> {"none", "known", "unknown"}]
  /\ tree \in [Place -> Body \cup {Nil}]
  /\ uploads \in Seq(UploadRecord) /\ Len(uploads) <= MaxUploads
  /\ files \in [Key -> Body \cup {Nil}]
  /\ manifests \in SUBSET Key
  /\ rows \in [Key -> UploadRow \cup {Nil}]
  /\ davHealth \in {"ok", "degraded"}
  /\ moonHealth \in {"ok", "degraded"}
  /\ submitted \in [Key -> {"none", "ok", "error"}]
  /\ faults \in 0..MaxFaults

\* A row's file holds the bytes the row was written for, for ever: crashes,
\* failed writes, and paths that sanitise to one directory never make two
\* uploads share a file.
RowHoldsItsBytes ==
  \A k \in Key : rows[k] # Nil =>
    files[FileOf(k)] = rows[k].bytes /\ FileOf(k) \in manifests

\* The archive is a VersionStore.
Kept == [a \in Place |-> [v \in 1..LatestVersion(a) |-> files[FileOf(<<a, v>>)]]]
Store == INSTANCE VersionStore WITH versions <- Kept
StoreSpec == Store!Spec

\* Whatever a GET can read is archived, unless its PUT still runs, was empty,
\* or the server says it is degraded: a lost version is never a secret.
ReadableIsArchived ==
  \A a \in Place : tree[a] \notin {Nil, Empty} =>
    \/ \E n \in Upload : InProgress(n) /\ uploads[n].place = a
    \/ \E k \in Key : k[1][1] = a[1] /\ rows[k] # Nil /\ rows[k].bytes = tree[a]
    \/ davHealth = "degraded"

\* archiveUpload fails only after a fault, or when another path shares the
\* directory: the locks keep the probes of one path apart, and what an earlier
\* upload left behind never stands in the way.
FailureHasACause ==
  \A n \in Upload : uploads[n].stage = "failed" =>
    \/ faults > 0
    \/ \E m \in Upload : /\ uploads[m].place # uploads[n].place
                         /\ Dir(uploads[m].place) = Dir(uploads[n].place)

\* Every row is seen by the observer once: parsed after a Submit, or marked
\* unknown without one, unless the process died or a write failed; and what
\* was submitted is the progress in the bytes the row keeps.
ObservedOnce ==
  \A k \in Key :
    /\ rows[k] # Nil =>
         /\ rows[k].parsed => submitted[k] # "none" /\ ~rows[k].parseError
         /\ rows[k].parseError => submitted[k] = "none"
         /\ \/ rows[k].parsed \/ rows[k].parseError \/ faults > 0
            \/ \E n \in Upload : KeyOf(n) = k
                                 /\ uploads[n].stage \in {"observe", "mark"}
    /\ submitted[k] # "none" =>
         rows[k] # Nil /\ Parse(k[1][2], rows[k].bytes) # Nil

-----------------------------------------------------------------------------
(* What makes RowHoldsItsBytes and the refinement inductive.               *)

Owns(n) == uploads[n].stage \in {"write", "manifest", "insert"}

\* A file under way belongs to one upload and to no row, until the insert.
Owned ==
  \A n \in Upload : Owns(n) =>
    /\ files[FileOf(KeyOf(n))] # Nil
    /\ uploads[n].stage # "write" => files[FileOf(KeyOf(n))] = uploads[n].body
    /\ uploads[n].stage = "insert" => FileOf(KeyOf(n)) \in manifests
    /\ \A k \in Key : rows[k] # Nil => FileOf(k) # FileOf(KeyOf(n))
    /\ \A m \in Upload : Owns(m) /\ FileOf(KeyOf(m)) = FileOf(KeyOf(n)) => m = n

\* Uploads in progress have different paths, and the version an upload has
\* probed is still the next one when it inserts its row.
Locked ==
  /\ \A m, n \in Upload :
       InProgress(m) /\ InProgress(n)
       /\ uploads[m].place[2] = uploads[n].place[2] => m = n
  /\ \A n \in Upload :
       /\ uploads[n].stage \in {"create", "write", "manifest", "insert"}
            => uploads[n].version = NextVersion(uploads[n].place)
       /\ uploads[n].stage \in {"observe", "mark"}
            => uploads[n].version # 0 /\ rows[KeyOf(n)] # Nil

\* The versions of a path have no gap.
Contiguous ==
  \A a \in Place : \E l \in 0..MaxUploads : VersionsOf(a) = 1..l

\* The inductive invariant of the proofs.
IInv == TypeOK /\ RowHoldsItsBytes /\ Owned /\ Locked /\ Contiguous

-----------------------------------------------------------------------------
(* What makes the other three properties inductive beside IInv.            *)

\* While a PUT is under way a GET answers with its bytes, and so does its row.
Current ==
  \A n \in Upload : InProgress(n) =>
    /\ tree[uploads[n].place] = uploads[n].body
    /\ uploads[n].stage \in {"observe", "mark"} =>
         rows[KeyOf(n)].bytes = uploads[n].body

\* A row was somebody's upload; and without a fault a file has a row, or an
\* upload that is about to insert it.
Traced ==
  /\ \A k \in Key : rows[k] # Nil => \E m \in Upload : uploads[m].place = k[1]
  /\ faults = 0 => \A f \in Key : files[f] # Nil =>
       \/ \E k \in Key : rows[k] # Nil /\ FileOf(k) = f
       \/ \E m \in Upload : Owns(m) /\ FileOf(KeyOf(m)) = f

\* No two rows name the same file.
RowsApart ==
  \A k, l \in Key :
    rows[k] # Nil /\ rows[l] # Nil /\ FileOf(k) = FileOf(l) => k = l

\* The row of an upload that is being observed is not marked yet.
Unmarked ==
  \A n \in Upload : uploads[n].stage \in {"observe", "mark"} =>
    /\ ~rows[KeyOf(n)].parsed /\ ~rows[KeyOf(n)].parseError
    /\ submitted[KeyOf(n)] = "none" <=> uploads[n].stage = "observe"

ArchiveInv ==
  /\ IInv
  /\ Current /\ ReadableIsArchived
  /\ Traced /\ FailureHasACause
  /\ RowsApart /\ Unmarked /\ ObservedOnce
=============================================================================
