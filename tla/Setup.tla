-------------------------------- MODULE Setup --------------------------------
(***************************************************************************)
(* What a page of the setup wizard comes to when it is run, as a function  *)
(* of the form that was posted and of the host: the system scan and its    *)
(* probes, the Calibre, Goodreads and policy pages, and the health that    *)
(* the pages and the tray show.  Nothing here has state; Service.tla keeps *)
(* the wizard.  Messages and details are left out.                         *)
(***************************************************************************)
EXTENDS Integers, Sequences

(* What is found on the host: calibredb, on PATH or only in a usual place; *)
(* files that exist; ports nobody listens on; the database; the library    *)
(* the form names; whether the sync trigger, an export, the secret store   *)
(* and netsh do what they are asked.                                       *)
Host == [calibredb : {"none", "installed", "on path"},
         files : SUBSET {"calibredb", "plugins"}, appData : BOOLEAN,
         freePorts : SUBSET {7200, 7201, 8765},
         db : {"unreadable", "corrupt", "ok"},
         library : {"missing", "no metadata", "copy fails", "columns fail",
                    "ok"},
         trigger : {"none", "error", "ok"}, export : BOOLEAN,
         secrets : BOOLEAN, netsh : BOOLEAN]

(* What a form may hold in place of a number: nothing, a word, and what    *)
(* ParseFloat makes a NaN of.                                              *)
Blank == -1000
Word == -1001
Invalid == -1002

-----------------------------------------------------------------------------
(* System scan.                                                            *)

\* Ports are 0, and paths FALSE, when they are not given.
ScanOptions == [calibredb : BOOLEAN, adminPort : {0, 7201},
                koreaderPort : {0, 7200}, moonPort : {0, 8765},
                hasDB : BOOLEAN, dbPath : BOOLEAN, plugins : BOOLEAN]

ProbeCalibredb(given, host) == given /\ "calibredb" \in host.files

\* A port in use counts as a failure, whoever uses it.
ProbePort(port, host) == port > 0 /\ port \in host.freePorts

ProbeSQLiteHealth(hasDB, host) == hasDB /\ host.db = "ok"

\* A file that is missing will be created.
ProbeDBFile(given) == given

ProbeGoodreadsPlugin(given, host) ==
  (given \/ host.appData) /\ "plugins" \in host.files

\* SystemScan: no probe aborts the scan.  The firewall probe always succeeds.
SystemScan(opt, host) ==
  [calibredb |-> ProbeCalibredb(opt.calibredb, host),
   admin |-> ProbePort(opt.adminPort, host),
   koreader |-> ProbePort(opt.koreaderPort, host),
   moon |-> ProbePort(opt.moonPort, host),
   sqlite |-> ProbeSQLiteHealth(opt.hasDB, host),
   dbFile |-> ProbeDBFile(opt.dbPath),
   plugin |-> ProbeGoodreadsPlugin(opt.plugins, host),
   firewall |-> TRUE]

AnyFailed(report) == \E probe \in DOMAIN report : ~report[probe]

\* What runSystemScan passes: its own port, and the database.
WizardOptions ==
  [calibredb |-> FALSE, adminPort |-> 7201, koreaderPort |-> 0,
   moonPort |-> 0, hasDB |-> TRUE, dbPath |-> FALSE, plugins |-> FALSE]

-----------------------------------------------------------------------------
(* The conflict policy.                                                    *)

PolicySource == {"koreader", "moon", "calibre", "goodreads_bridge",
                 "kindle_via_goodreads"}

\* jump in per cent, window in minutes.
Policy == [precedence : Seq(PolicySource \cup {"other"}),
           jump : Int, window : Int, finished : Int]

DefaultPolicy ==
  [precedence |-> <<"koreader", "moon", "calibre", "goodreads_bridge",
                    "kindle_via_goodreads">>,
   jump |-> 30, window |-> 60, finished |-> 85]

\* A comparison with NaN is false, and jump is refused by two comparisons.
OutOfRange(jump) == jump # Invalid /\ (jump <= 0 \/ jump > 100)

Validate(p) ==
  /\ p.precedence # <<>>
  /\ \A i \in DOMAIN p.precedence : p.precedence[i] \in PolicySource
  /\ \A i, j \in DOMAIN p.precedence :
       p.precedence[i] = p.precedence[j] => i = j
  /\ ~OutOfRange(p.jump)
  /\ p.window >= 0
  /\ p.finished \in 0..100

\* A field that is empty or no number keeps its default.  The policy is not
\* stored anywhere but in the page's data.
PolicyOf(form) ==
  [DefaultPolicy EXCEPT
     !.jump = IF form.jump \in {Blank, Word} THEN @ ELSE form.jump,
     !.finished = IF form.finished \in {Blank, Word, Invalid} THEN @
                  ELSE form.finished]

-----------------------------------------------------------------------------
(* Running a page.                                                         *)

Form == [calibredb : {"", "calibredb"}, library : {"", "relative", "absolute"},
         mode : {"", "disabled", "manual", "guided", "other"},
         jump : {Blank, Word, Invalid, 0, 30, 100, 101},
         finished : {Blank, Word, Invalid, -1, 0, 100, 101}]

\* isSafeUserPathInput
SafeUserPathInput(library) == library = "absolute"

\* copyFile fails half-way, or there is nothing to copy.
BackupOK(library, host) ==
  /\ SafeUserPathInput(library)
  /\ host.library \notin {"missing", "no metadata", "copy fails"}

\* safeCalibredbCommand keeps the name of the program only, which PATH has to
\* resolve, wherever FindCalibredb found it.
ColumnsOK(library, host) ==
  /\ SafeUserPathInput(library)
  /\ host.library \notin {"missing", "columns fail"}
  /\ host.calibredb = "on path"

FindCalibredb(host) == host.calibredb # "none"

\* The library is backed up before a column is created.
RunCalibreSetup(form, host) ==
  /\ form.calibredb # "" \/ FindCalibredb(host)
  /\ BackupOK(form.library, host)
  /\ ColumnsOK(form.library, host)

RunGoodreadsSetup(form) == form.mode # "other"

RunPolicySetup(form) == Validate(PolicyOf(form))

\* Without a trigger the page is skipped and succeeds.
RunTestSync(host) == host.trigger # "error"

\* A collector that fails leaves a report that is almost empty.
RunDiagnosticsBundle(host) == host.export

\* The KOReader and Moon+ pages are stubs that succeed.
RunWizardPage(page, form, host) ==
  CASE page = "system_scan" -> ~AnyFailed(SystemScan(WizardOptions, host))
    [] page = "calibre" -> RunCalibreSetup(form, host)
    [] page = "goodreads_bridge" -> RunGoodreadsSetup(form)
    [] page = "conflict_policy" -> RunPolicySetup(form)
    [] page = "test_sync" -> RunTestSync(host)
    [] page = "diagnostics" -> RunDiagnosticsBundle(host)
    [] OTHER -> TRUE

-----------------------------------------------------------------------------
(* Health.  Two copies of one function: the tray's and the pages'.         *)

States == {"ok", "disabled", "degraded", "needs_user_action", "failed", "other"}

Rank(state) ==
  CASE state = "disabled" -> 1
    [] state = "degraded" -> 2
    [] state = "needs_user_action" -> 3
    [] state = "failed" -> 4
    [] OTHER -> 0

\* OverallHealth: the worst state shown, and "ok" if none ranks above it.
OverallHealth(shown) ==
  IF \A s \in shown : Rank(s) = 0 THEN "ok"
  ELSE CHOOSE s \in shown : \A t \in shown : Rank(t) <= Rank(s)

\* The pages ask the health provider, which the service never registers;
\* /api/adapters, and so the tray, falls back on the table adapter_health.
PageHealth(provided) == OverallHealth(provided)
TrayHealth(provided, hasProvider, table) ==
  OverallHealth(IF hasProvider THEN provided ELSE table)
=============================================================================
