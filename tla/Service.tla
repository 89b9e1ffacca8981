------------------------------- MODULE Service -------------------------------
(***************************************************************************)
(* The service process around everything else: the service control manager *)
(* starts and stops it, it opens and migrates the database (which          *)
(* readsyncctl db migrate may do at the same time), starts the pipeline,   *)
(* loads the setup wizard, listens on the admin port and starts the        *)
(* adapters.  Requests of the browser and of the tray change the wizard,   *)
(* whose state is saved under a lock through a scratch file.  The process  *)
(* may die, or a system call fail, between any two steps.                  *)
(*                                                                         *)
(* kardianos/service, SQLite and the file system are external.             *)
(***************************************************************************)
EXTENDS Setup, FiniteSets

CONSTANTS
  Pages,       \* the wizard's pages, in order
  Forms,       \* what is posted when a page is run, a subset of Form
  Hosts,       \* what the host may be like then, a subset of Host
  Adapter,     \* the adapters with a server of their own
  MaxStarts,   \* bound: starts of the service
  MaxWrites,   \* bound: requests that save the wizard
  MaxFaults,   \* bound: failing calls and crashes
  Nil,         \* no wizard
  NoFile,      \* a file that does not exist
  Torn         \* a file that is being written

Page == {Pages[i] : i \in DOMAIN Pages}
Client == {"browser", "tray"}

WizardState == [completed : BOOLEAN, current : Page,
                status : [Page -> {"pending", "ok", "error"}]]

ASSUME ServiceAssumption ==
  /\ Pages \in Seq(STRING) /\ Pages # <<>>
  /\ \A i, j \in DOMAIN Pages : Pages[i] = Pages[j] => i = j
  /\ {Nil, NoFile, Torn} \cap WizardState = {}
  /\ Nil # NoFile /\ Nil # Torn /\ NoFile # Torn
  /\ MaxStarts \in Nat /\ MaxWrites \in Nat /\ MaxFaults \in Nat

VARIABLES
  tables,      \* migrations whose tables exist
  recorded,    \* migrations in schema_migrations
  at,          \* where each migrator is
  file,        \* wizard.json
  tmp,         \* wizard.json.tmp
  scm,         \* what the service control manager believes
  phase,       \* where runService2 is
  cancelled,   \* the context is cancelled
  done,        \* the channel Stop waits for is closed
  open,        \* the database handle is open
  pipeline,    \* the pipeline's goroutine runs
  api,         \* the admin server listens
  adapters,    \* the adapters that listen
  wz,          \* the wizard in memory, or Nil
  lock,        \* its mutex, and how far the save under it is
  completing,  \* the save under way is that of Complete
  runs,        \* pages whose run has not been recorded yet
  token,       \* CSRF tokens, by the start of the service they are from
  finished,    \* history: Complete was answered and stored, no reset since
  unsaved,     \* history: the last save failed
  bounds       \* starts, writes and faults so far

schema == <<tables, recorded, at>>
process == <<scm, phase, cancelled, done, open, pipeline, api, adapters>>
wizard == <<file, tmp, wz, lock, completing, runs, finished, unsaved>>
vars == <<schema, process, wizard, token, bounds>>

Version == 1..3

\* New and Reset: every page pending, at the first one.
Fresh == [completed |-> FALSE, current |-> Pages[1],
          status |-> [p \in Page |-> "pending"]]

Count(what) == bounds' = [bounds EXCEPT ![what] = bounds[what] + 1]

Fault == bounds["faults"] < MaxFaults /\ Count("faults")

-----------------------------------------------------------------------------
(* Migrations.  A migrator is idle, or about to look up or to apply one.   *)

Migrator == {"service", "readsyncctl"}
Idle == [version |-> 1, step |-> "idle"]

MoveTo(m, version, step) ==
  at' = [at EXCEPT ![m] = [version |-> version, step |-> step]]

\* readsyncctl db migrate, whether or not the service runs.
DBMigrate ==
  /\ at["readsyncctl"].step = "idle" /\ at["readsyncctl"].version = 1
  /\ MoveTo("readsyncctl", 1, "check")
  /\ UNCHANGED <<tables, recorded, process, wizard, token, bounds>>

IsApplied(m) ==
  /\ at[m].step = "check" /\ at[m].version \in Version
  /\ IF at[m].version \in recorded THEN MoveTo(m, at[m].version + 1, "check")
     ELSE MoveTo(m, at[m].version, "apply")
  /\ UNCHANGED <<tables, recorded, process, wizard, token, bounds>>

ApplyUnrecorded(v) ==                   \* Mutant of Record
  tables' = tables \cup {v} /\ UNCHANGED recorded

\* One transaction, whose statements do nothing the second time.
Record(v) == tables' = tables \cup {v} /\ recorded' = recorded \cup {v}

Apply(m) ==
  /\ at[m].step = "apply"
  /\ Record(at[m].version)
  /\ MoveTo(m, at[m].version + 1, "check")
  /\ UNCHANGED <<process, wizard, token, bounds>>

\* readsyncctl is interrupted, or one of its statements fails.
DBMigrateFails ==
  /\ at["readsyncctl"].step # "idle"
  /\ Fault
  /\ MoveTo("readsyncctl", 2, "idle")
  /\ UNCHANGED <<tables, recorded, process, wizard, token>>

-----------------------------------------------------------------------------
(* The life of the process.                                                *)

Start ==
  /\ scm = "stopped" /\ phase = "down"
  /\ bounds["starts"] < MaxStarts
  /\ scm' = "running" /\ phase' = "open"
  /\ Count("starts")
  /\ UNCHANGED <<schema, wizard, token, cancelled, done, open, pipeline, api,
                 adapters>>

ReturnWithoutDone ==                    \* Mutant of Return
  /\ phase' = "returned" /\ open' = FALSE
  /\ UNCHANGED <<scm, cancelled, done, pipeline, api, adapters>>

\* runService2 returns: its deferred calls close the database and done.  The
\* process, with the pipeline and whatever listens, lives on until Stop.
Return ==
  /\ phase' = "returned" /\ open' = FALSE /\ done' = TRUE
  /\ UNCHANGED <<scm, cancelled, pipeline, api, adapters>>

Open ==
  /\ phase = "open"
  /\ open' = TRUE /\ phase' = "migrate"
  /\ MoveTo("service", 1, "check")
  /\ UNCHANGED <<tables, recorded, wizard, token, bounds, scm, cancelled, done,
                 pipeline, api, adapters>>

\* Opening, migrating or listening fails.
StartupFails ==
  /\ phase \in {"open", "migrate", "listen"}
  /\ Fault
  /\ Return
  /\ at' = [at EXCEPT !["service"] = Idle]
  /\ UNCHANGED <<tables, recorded, wizard, token>>

\* The file is a whole one or missing; what cannot be read leaves no wizard.
Load == IF file = NoFile THEN Fresh ELSE IF file = Torn THEN Nil ELSE file

LoadWizard ==
  /\ phase = "migrate" /\ at["service"].version = 4
  /\ pipeline' = TRUE
  /\ \/ wz' = Load /\ UNCHANGED bounds
     \/ wz' = Nil /\ Fault
  /\ phase' = "listen"
  /\ at' = [at EXCEPT !["service"] = Idle]
  /\ UNCHANGED <<tables, recorded, file, tmp, lock, completing, runs, finished,
                 unsaved, token, scm, cancelled, done, open, api, adapters>>

Listen ==
  /\ phase = "listen"
  /\ api' = TRUE /\ phase' = "adapters"
  /\ UNCHANGED <<schema, wizard, token, bounds, scm, cancelled, done, open,
                 pipeline, adapters>>

\* An adapter that does not start is only logged.
StartAdapters ==
  /\ phase = "adapters"
  /\ \/ adapters' = Adapter /\ UNCHANGED bounds
     \/ adapters' \in SUBSET Adapter \ {Adapter} /\ Fault
  /\ phase' = "ready"
  /\ UNCHANGED <<schema, wizard, token, scm, cancelled, done, open, pipeline,
                 api>>

\* Stop cancels the context; only a service that is ready looks at it.
RequestStop ==
  /\ scm = "running"
  /\ scm' = "stop_pending" /\ cancelled' = TRUE
  /\ UNCHANGED <<phase, done, open, pipeline, api, adapters>>

Stop ==
  /\ RequestStop
  /\ UNCHANGED <<schema, wizard, token, bounds>>

\* It does not wait for the requests under way.
Stopping ==
  /\ phase = "ready" /\ cancelled
  /\ Return
  /\ UNCHANGED <<schema, wizard, token, bounds>>

\* The process is gone, at whatever point its other goroutines were.
Gone ==
  /\ scm' = "stopped" /\ phase' = "down"
  /\ cancelled' = FALSE /\ done' = FALSE /\ open' = FALSE
  /\ pipeline' = FALSE /\ api' = FALSE /\ adapters' = {}
  /\ at' = [at EXCEPT !["service"] = Idle]
  /\ wz' = Nil /\ lock' = "free" /\ completing' = FALSE /\ runs' = {}
  /\ unsaved' = FALSE
  /\ UNCHANGED <<tables, recorded, file, tmp, finished, token>>

\* Stop returns when done is closed.
Exit ==
  /\ scm = "stop_pending" /\ done
  /\ Gone
  /\ UNCHANGED bounds

Crash ==
  /\ phase # "down"
  /\ Fault
  /\ Gone

-----------------------------------------------------------------------------
(* Saving the wizard, under its lock.                                      *)

TruncateInPlace == file' = Torn /\ UNCHANGED tmp       \* Mutant of Truncate

Truncate == tmp' = Torn /\ UNCHANGED file

\* A handler has the lock, changes the wizard and starts to save it.
Save(new) ==
  /\ lock = "free"
  /\ bounds["writes"] < MaxWrites
  /\ Count("writes")
  /\ wz' = new /\ lock' = "write"
  /\ Truncate

WriteFile ==
  /\ lock = "write"
  /\ tmp' = wz /\ lock' = "rename"
  /\ UNCHANGED <<schema, process, token, bounds, file, wz, completing, runs,
                 finished, unsaved>>

Rename ==
  /\ lock = "rename"
  /\ file' = tmp /\ tmp' = NoFile /\ lock' = "free"
  /\ finished' = (finished \/ completing)
  /\ completing' = FALSE /\ unsaved' = FALSE
  /\ UNCHANGED <<schema, process, token, bounds, wz, runs>>

\* The wizard in memory keeps the change.
SaveFails ==
  /\ lock # "free"
  /\ Fault
  /\ lock' = "free" /\ completing' = FALSE /\ unsaved' = TRUE
  /\ UNCHANGED <<schema, process, token, file, tmp, wz, runs, finished>>

-----------------------------------------------------------------------------
(* Requests.                                                               *)

Incarnation == bounds["starts"]
Accepting == api /\ ~cancelled
Authorized(c) == Accepting /\ token[c] = Incarnation
HasWizard == wz # Nil

NeedsSetup == ~wz.completed

\* Where the root of the pages leads.
Landing == IF HasWizard /\ NeedsSetup THEN "wizard" ELSE "dashboard"

\* GET /ui/wizard: SetCurrent, and a page with a token.
OpenPage(p) ==
  /\ Accepting /\ HasWizard
  /\ Save([wz EXCEPT !.current = p])
  /\ token' = [token EXCEPT !["browser"] = Incarnation]
  /\ UNCHANGED <<schema, process, completing, runs, finished, unsaved>>

\* The tray asks for a token once and keeps it.
FetchToken ==
  /\ Accepting /\ token["tray"] = 0
  /\ token' = [token EXCEPT !["tray"] = Incarnation]
  /\ UNCHANGED <<schema, process, wizard, bounds>>

\* handleWizardRun: the page runs outside of the lock ...
RunPage(p) ==
  /\ Authorized("browser") /\ HasWizard
  /\ p \notin runs
  /\ runs' = runs \cup {p}
  /\ UNCHANGED <<schema, process, file, tmp, wz, lock, completing, finished,
                 unsaved, token, bounds>>

Outcomes(p) ==
  {IF RunWizardPage(p, f, h) THEN "ok" ELSE "error" : f \in Forms, h \in Hosts}

\* ... and Update records what came of it.
Update(p) ==
  /\ p \in runs
  /\ \E outcome \in Outcomes(p) : Save([wz EXCEPT !.status[p] = outcome])
  /\ runs' = runs \ {p}
  /\ UNCHANGED <<schema, process, completing, finished, unsaved, token>>

Complete ==
  /\ Authorized("browser") /\ HasWizard
  /\ NeedsSetup
  /\ Save([wz EXCEPT !.completed = TRUE, !.current = Pages[Len(Pages)]])
  /\ completing' = TRUE
  /\ UNCHANGED <<schema, process, runs, finished, unsaved, token>>

\* A second Complete is answered at once, saved or not.
CompleteAgain ==
  /\ Authorized("browser") /\ HasWizard
  /\ ~NeedsSetup /\ lock = "free"
  /\ finished' = (finished \/ ~unsaved)
  /\ UNCHANGED <<schema, process, file, tmp, wz, lock, completing, runs,
                 unsaved, token, bounds>>

Reset ==
  /\ Authorized("browser") /\ HasWizard
  /\ Save(Fresh)
  /\ finished' = FALSE
  /\ UNCHANGED <<schema, process, completing, runs, unsaved, token>>

\* The hook runs sc stop, which ends the process, and sc start with it.
RestartService(c) ==
  /\ Authorized(c)
  /\ RequestStop
  /\ UNCHANGED <<schema, wizard, token, bounds>>

-----------------------------------------------------------------------------
Init ==
  /\ tables = {} /\ recorded = {}
  /\ at = [m \in Migrator |-> Idle]
  /\ file = NoFile /\ tmp = NoFile
  /\ scm = "stopped" /\ phase = "down"
  /\ cancelled = FALSE /\ done = FALSE /\ open = FALSE
  /\ pipeline = FALSE /\ api = FALSE /\ adapters = {}
  /\ wz = Nil /\ lock = "free" /\ completing = FALSE /\ runs = {}
  /\ token = [c \in Client |-> 0]
  /\ finished = FALSE /\ unsaved = FALSE
  /\ bounds = [starts |-> 0, writes |-> 0, faults |-> 0]

\* What the process does by itself.
ServiceStep ==
  \/ Open
  \/ IsApplied("service")
  \/ Apply("service")
  \/ LoadWizard
  \/ Listen
  \/ StartAdapters
  \/ Stopping
  \/ Exit

Request ==
  \/ \E p \in Page : OpenPage(p) \/ RunPage(p) \/ Update(p)
  \/ \E c \in Client : RestartService(c)
  \/ FetchToken
  \/ Complete
  \/ CompleteAgain
  \/ Reset

Next ==
  \/ ServiceStep
  \/ Start \/ Stop \/ StartupFails \/ Crash
  \/ DBMigrate \/ IsApplied("readsyncctl") \/ Apply("readsyncctl")
  \/ DBMigrateFails
  \/ WriteFile \/ Rename \/ SaveFails
  \/ Request

\* The goroutine of runService2, and the exit of a process that may exit.
Spec == Init /\ [][Next]_vars /\ WF_vars(ServiceStep)

-----------------------------------------------------------------------------
(* Properties.                                                             *)

SchemaType ==
  /\ tables \in SUBSET Version /\ recorded \in SUBSET Version
  /\ at \in [Migrator -> [version : 1..4, step : {"idle", "check", "apply"}]]

ProcessType ==
  /\ scm \in {"stopped", "running", "stop_pending"}
  /\ phase \in {"down", "open", "migrate", "listen", "adapters", "ready",
                "returned"}
  /\ cancelled \in BOOLEAN /\ done \in BOOLEAN /\ open \in BOOLEAN
  /\ pipeline \in BOOLEAN /\ api \in BOOLEAN /\ adapters \in SUBSET Adapter

WizardType ==
  /\ file \in WizardState \cup {NoFile, Torn}
  /\ tmp \in WizardState \cup {NoFile, Torn}
  /\ wz \in WizardState \cup {Nil}
  /\ lock \in {"free", "write", "rename"} /\ completing \in BOOLEAN
  /\ runs \in SUBSET Page
  /\ finished \in BOOLEAN /\ unsaved \in BOOLEAN

CountersType ==
  /\ token \in [Client -> Nat]
  /\ bounds \in [{"starts", "writes", "faults"} -> Nat]

TypeOK == SchemaType /\ ProcessType /\ WizardType /\ CountersType

\* The tables are those of the recorded migrations, without a gap, and no
\* migrator is ahead of them.
Schema ==
  /\ tables = recorded
  /\ \A v \in recorded, w \in Version : w < v => w \in recorded
  /\ \A m \in Migrator : at[m].step # "idle" =>
       \A v \in Version : v < at[m].version => v \in recorded
  /\ \A m \in Migrator : at[m].step = "apply" => at[m].version \in Version

\* Whoever is served, by the admin server or an adapter, finds the database
\* open and migrated and the pipeline running, until runService2 returns.
ServingIsReady ==
  /\ phase = "migrate" => open /\ at["service"].step # "idle"
  /\ phase \in {"listen", "adapters", "ready"} =>
       open /\ pipeline /\ recorded = Version
  /\ api \/ adapters # {} => pipeline /\ recorded = Version
  /\ api => phase \in {"adapters", "ready", "returned"}
  /\ phase = "returned" /\ api => cancelled

\* The control manager and the process agree on who is alive.
Alive ==
  /\ phase = "down" <=> scm = "stopped"
  /\ done <=> phase = "returned"
  /\ cancelled <=> scm = "stop_pending"
  /\ phase \in {"down", "open"} => ~open

\* wizard.json is whole at every moment, a save under way is in memory, and
\* nobody saves before the wizard is loaded.
FileWhole ==
  /\ file # Torn
  /\ lock # "free" => HasWizard
  /\ lock = "rename" => tmp = wz
  /\ runs # {} => HasWizard
  /\ phase \in {"down", "open", "migrate"} => lock = "free" /\ runs = {}

\* A wizard that is completed in memory is so on disk, but for a save that
\* failed or is under way; and once stored it stays completed in both.
Remembered ==
  /\ completing => lock # "free" /\ wz.completed
  /\ HasWizard /\ lock = "free" /\ ~unsaved /\ wz.completed => file = wz
  /\ finished => /\ file \in WizardState /\ file.completed
                 /\ HasWizard => wz.completed

ServiceInv ==
  TypeOK /\ Schema /\ ServingIsReady /\ Alive /\ FileWhole /\ Remembered

\* Setup that was finished, answered and stored is finished after any number
\* of crashes, failed saves, stops and restarts, until somebody resets it: the
\* file says so, and the pages lead to the dashboard.
SetupSurvives ==
  finished => /\ file \in WizardState /\ file.completed
              /\ Landing = "dashboard"

\* A stop always comes to an end, wherever the service was: opening, migrating,
\* failing to start, or in the middle of a request.
StopCompletes == scm = "stop_pending" ~> scm = "stopped"
=============================================================================
