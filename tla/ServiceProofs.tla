---------------------------- MODULE ServiceProofs ----------------------------
(***************************************************************************)
(* Theorems about Service, for every list of pages, every set of adapters, *)
(* forms and hosts, and every value of the bounds.  ServiceInv is          *)
(* inductive: one lemma per conjunct shows that every step keeps it.  The  *)
(* last part is about an operator of Upkeep.                               *)
(***************************************************************************)
EXTENDS Service, Upkeep, FiniteSetTheorems, WellFoundedInduction, TLAPS

-----------------------------------------------------------------------------
(* The steps, in groups by what they change.                               *)

\* A migrator of either process.
Migration ==
  \/ DBMigrate \/ DBMigrateFails
  \/ \E m \in Migrator : IsApplied(m) \/ Apply(m)

\* Requests that change and save the wizard.
Saving ==
  \/ \E p \in Page : OpenPage(p) \/ Update(p)
  \/ Complete \/ Reset

\* The rest of a save.
SaveStep == WriteFile \/ Rename \/ SaveFails

\* Requests that save nothing.
Reading == FetchToken \/ CompleteAgain \/ \E p \in Page : RunPage(p)

\* The life of the process up to the point where it serves.
Starting ==
  Start \/ Open \/ StartupFails \/ LoadWizard \/ Listen \/ StartAdapters

\* A stop is asked for.
Asking == Stop \/ \E c \in Client : RestartService(c)

\* The process ends.
Ending == Exit \/ Crash

LEMMA NextGroups ==
  ASSUME [Next]_vars
  PROVE  \/ Migration \/ Saving \/ SaveStep \/ Reading
         \/ Starting \/ Asking \/ Stopping \/ Ending
         \/ UNCHANGED vars
BY DEF Next, ServiceStep, Request, Migration, Saving, SaveStep, Reading,
       Starting, Asking, Ending, Migrator

\* What the groups leave alone.
LEMMA MigrationFrame ==
  ASSUME Migration PROVE UNCHANGED <<process, wizard, token>>
BY DEF Migration, DBMigrate, DBMigrateFails, IsApplied, Apply

LEMMA SavingFrame ==
  ASSUME FileWhole, Saving
  PROVE  /\ UNCHANGED <<schema, process>> /\ file' = file
         /\ unsaved' = unsaved
         /\ lock = "free" /\ lock' = "write" /\ HasWizard
BY DEF Saving, OpenPage, Update, Complete, Reset, Save, Truncate, FileWhole

-----------------------------------------------------------------------------
(* Types.                                                                  *)

\* The pages, and a fresh wizard.
LEMMA FreshType == Fresh \in WizardState /\ Pages[1] \in Page
                   /\ Pages[Len(Pages)] \in Page
<1>1. 1 \in DOMAIN Pages /\ Len(Pages) \in DOMAIN Pages
  BY ServiceAssumption
<1>2. Pages[1] \in Page /\ Pages[Len(Pages)] \in Page
  BY <1>1 DEF Page
<1> QED
  BY <1>2 DEF Fresh, WizardState

\* A wizard a request saves is one.
LEMMA SavedType ==
  ASSUME WizardType, Saving, HasWizard PROVE wz' \in WizardState /\ tmp' = Torn
<1>0. wz \in WizardState
  BY DEF HasWizard, WizardType
<1>1. ASSUME NEW new \in WizardState, Save(new)
      PROVE  wz' \in WizardState /\ tmp' = Torn
  BY <1>1 DEF Save, Truncate
<1>2. ASSUME NEW p \in Page, OpenPage(p)
      PROVE  \E new \in WizardState : Save(new)
  <2>1. [wz EXCEPT !.current = p] \in WizardState
    BY <1>0 DEF WizardState
  <2> QED
    BY <1>2, <2>1 DEF OpenPage
<1>3. ASSUME NEW p \in Page, Update(p)
      PROVE  \E new \in WizardState : Save(new)
  <2>1. PICK outcome \in Outcomes(p) : Save([wz EXCEPT !.status[p] = outcome])
    BY <1>3 DEF Update
  <2>2. outcome \in {"pending", "ok", "error"}
    BY <2>1 DEF Outcomes
  <2>3. [wz EXCEPT !.status[p] = outcome] \in WizardState
    BY <1>0, <2>2 DEF WizardState
  <2> QED
    BY <2>1, <2>3
<1>4. CASE Complete
  <2>1. [wz EXCEPT !.completed = TRUE, !.current = Pages[Len(Pages)]]
          \in WizardState
    BY <1>0, FreshType DEF WizardState
  <2> QED
    BY <1>1, <1>4, <2>1 DEF Complete
<1>5. CASE Reset
  BY <1>1, <1>5, FreshType DEF Reset
<1> QED
  BY <1>1, <1>2, <1>3, <1>4, <1>5 DEF Saving

LEMMA TypeInit == Init => TypeOK
<1> SUFFICES ASSUME Init PROVE TypeOK
  OBVIOUS
<1>1. SchemaType
  BY DEF Init, SchemaType, Migrator, Idle
<1>2. ProcessType
  BY DEF Init, ProcessType
<1>3. WizardType
  BY DEF Init, WizardType
<1>4. CountersType
  BY DEF Init, CountersType, Client
<1> QED
  BY <1>1, <1>2, <1>3, <1>4 DEF TypeOK

\* Migrators stay within the versions.
LEMMA SchemaTypeNext == ServiceInv /\ [Next]_vars => SchemaType'
<1> SUFFICES ASSUME ServiceInv, [Next]_vars PROVE SchemaType'
  OBVIOUS
<1>0. SchemaType
  BY DEF ServiceInv, TypeOK
<1> DEFINE Position == [version : 1..4, step : {"idle", "check", "apply"}]
<1>1. ASSUME NEW m \in Migrator, NEW v \in 1..4,
             NEW s \in {"idle", "check", "apply"}, MoveTo(m, v, s)
      PROVE  at' \in [Migrator -> Position]
  BY <1>0, <1>1 DEF MoveTo, SchemaType
<1>2. Idle \in Position
  BY DEF Idle
<1>3. CASE Migration
  <2>1. ASSUME NEW m \in Migrator, IsApplied(m) \/ Apply(m)
        PROVE  at' \in [Migrator -> Position]
    <3>1. at[m].version \in 1..4 /\ at[m].version + 1 \in 1..4
      BY <2>1 DEF IsApplied, Apply, ServiceInv, Schema, Version
    <3>2. \/ MoveTo(m, at[m].version + 1, "check")
          \/ MoveTo(m, at[m].version, "apply")
      BY <2>1 DEF IsApplied, Apply
    <3> HIDE DEF Position
    <3>3. MoveTo(m, at[m].version + 1, "check") => at' \in [Migrator -> Position]
      BY <1>1, <3>1
    <3>4. MoveTo(m, at[m].version, "apply") => at' \in [Migrator -> Position]
      BY <1>1, <3>1
    <3> QED
      BY <3>2, <3>3, <3>4
  <2>2. ASSUME DBMigrate \/ DBMigrateFails
        PROVE  at' \in [Migrator -> Position]
    BY <1>1, <2>2 DEF DBMigrate, DBMigrateFails, Migrator
  <2>3. tables' \in SUBSET Version /\ recorded' \in SUBSET Version
    BY <1>0, <1>3
       DEF Migration, DBMigrate, DBMigrateFails, IsApplied, Apply, Record,
           ServiceInv, Schema, SchemaType
  <2> QED
    BY <1>3, <2>1, <2>2, <2>3 DEF Migration, SchemaType
<1>4. CASE Starting \/ Ending
  <2>1. tables' = tables /\ recorded' = recorded
    BY <1>4 DEF Starting, Start, Open, StartupFails, LoadWizard, Listen,
                StartAdapters, Ending, Exit, Crash, Gone, schema
  <2>2. \/ at' = at \/ MoveTo("service", 1, "check")
        \/ at' = [at EXCEPT !["service"] = Idle]
    BY <1>4 DEF Starting, Start, Open, StartupFails, LoadWizard, Listen,
                StartAdapters, Ending, Exit, Crash, Gone, schema
  <2>3. at' \in [Migrator -> Position]
    BY <1>0, <1>1, <1>2, <2>2 DEF SchemaType, Migrator
  <2> QED
    BY <1>0, <2>1, <2>3 DEF SchemaType
<1>5. CASE UNCHANGED schema
  BY <1>0, <1>5 DEF schema, SchemaType
<1>6. CASE Saving \/ SaveStep \/ Reading \/ Asking \/ Stopping \/ UNCHANGED vars
  <2>1. UNCHANGED schema
    BY <1>6 DEF Saving, OpenPage, Update, Complete, Reset, SaveStep, WriteFile,
                Rename, SaveFails, Reading, FetchToken, CompleteAgain, RunPage,
                Asking, Stop, RestartService, Stopping, vars
  <2> QED
    BY <1>5, <2>1
<1> QED
  BY <1>3, <1>4, <1>6, NextGroups

LEMMA ProcessTypeNext == ServiceInv /\ [Next]_vars => ProcessType'
<1> SUFFICES ASSUME ServiceInv, [Next]_vars PROVE ProcessType'
  OBVIOUS
<1>0. ProcessType
  BY DEF ServiceInv, TypeOK
<1>1. CASE Starting
  BY <1>0, <1>1
     DEF Starting, Start, Open, StartupFails, LoadWizard, Listen, StartAdapters,
         Return, ProcessType
<1>2. CASE Asking \/ Stopping
  BY <1>0, <1>2
     DEF Asking, Stop, RestartService, RequestStop, Stopping, Return, ProcessType
<1>3. CASE Ending
  BY <1>3 DEF Ending, Exit, Crash, Gone, ProcessType
<1>4. CASE Migration \/ Saving \/ SaveStep \/ Reading \/ UNCHANGED vars
  <2>1. UNCHANGED process
    BY <1>4 DEF Migration, DBMigrate, DBMigrateFails, IsApplied, Apply,
                Saving, OpenPage, Update, Complete, Reset, SaveStep, WriteFile,
                Rename, SaveFails, Reading, FetchToken, CompleteAgain, RunPage,
                vars
  <2> QED
    BY <1>0, <2>1 DEF process, ProcessType
<1> QED
  BY <1>1, <1>2, <1>3, <1>4, NextGroups

LEMMA WizardTypeNext == ServiceInv /\ [Next]_vars => WizardType'
<1> SUFFICES ASSUME ServiceInv, [Next]_vars PROVE WizardType'
  OBVIOUS
<1>0. WizardType /\ FileWhole
  BY DEF ServiceInv, TypeOK
<1>1. CASE Saving
  <2>1. /\ file' = file /\ unsaved' = unsaved
        /\ lock' = "write" /\ tmp' = Torn /\ wz' \in WizardState
    BY <1>0, <1>1, SavingFrame, SavedType
  <2>2. completing' \in BOOLEAN /\ runs' \in SUBSET Page /\ finished' \in BOOLEAN
    BY <1>0, <1>1 DEF Saving, OpenPage, Update, Complete, Reset, WizardType
  <2> QED
    BY <1>0, <2>1, <2>2 DEF WizardType
<1>2. CASE SaveStep
  <2>1. wz \in WizardState \/ lock = "free"
    BY <1>0 DEF FileWhole, HasWizard, WizardType
  <2> QED
    BY <1>0, <1>2, <2>1 DEF SaveStep, WriteFile, Rename, SaveFails, WizardType
<1>3. CASE Reading
  BY <1>0, <1>3
     DEF Reading, FetchToken, CompleteAgain, RunPage, WizardType, wizard
<1>4. CASE LoadWizard
  <2>1. wz' \in WizardState \cup {Nil}
    BY <1>0, <1>4, FreshType DEF LoadWizard, Load, WizardType
  <2> QED
    BY <1>0, <1>4, <2>1 DEF LoadWizard, WizardType
<1>5. CASE Ending
  BY <1>0, <1>5 DEF Ending, Exit, Crash, Gone, WizardType
<1>6. CASE \/ Start \/ Open \/ StartupFails \/ Listen \/ StartAdapters
           \/ Migration \/ Asking \/ Stopping \/ UNCHANGED vars
  <2>1. UNCHANGED wizard
    BY <1>6, MigrationFrame
       DEF Start, Open, StartupFails, Listen, StartAdapters, Asking, Stop,
           RestartService, Stopping, vars
  <2> QED
    BY <1>0, <2>1 DEF wizard, WizardType
<1> QED
  BY <1>1, <1>2, <1>3, <1>4, <1>5, <1>6, NextGroups DEF Starting

LEMMA CountersTypeNext == ServiceInv /\ [Next]_vars => CountersType'
<1> SUFFICES ASSUME ServiceInv, [Next]_vars PROVE CountersType'
  OBVIOUS
<1>0. CountersType
  BY DEF ServiceInv, TypeOK
<1>1. \A what \in {"starts", "writes", "faults"} : Count(what) =>
        bounds' \in [{"starts", "writes", "faults"} -> Nat]
  BY <1>0 DEF Count, CountersType
<1>2. bounds' = bounds
      \/ \E what \in {"starts", "writes", "faults"} : Count(what)
  BY NextGroups
     DEF Migration, DBMigrate, DBMigrateFails, IsApplied, Apply, Saving,
         OpenPage, Update, Complete, Reset, Save, SaveStep, WriteFile, Rename,
         SaveFails, Reading, FetchToken, CompleteAgain, RunPage, Starting, Start,
         Open, StartupFails, LoadWizard, Listen, StartAdapters, Asking, Stop,
         RestartService, Stopping, Ending, Exit, Crash, Fault, vars
<1>3. token' = token
      \/ \E c \in Client : token' = [token EXCEPT ![c] = bounds["starts"]]
  BY NextGroups
     DEF Migration, DBMigrate, DBMigrateFails, IsApplied, Apply, Saving,
         OpenPage, Update, Complete, Reset, SaveStep, WriteFile, Rename,
         SaveFails, Reading, FetchToken, CompleteAgain, RunPage, Starting, Start,
         Open, StartupFails, LoadWizard, Listen, StartAdapters, Asking, Stop,
         RestartService, Stopping, Ending, Exit, Crash, Gone, Incarnation, Client,
         vars
<1> QED
  BY <1>0, <1>1, <1>2, <1>3 DEF CountersType

LEMMA TypeNext == ServiceInv /\ [Next]_vars => TypeOK'
BY SchemaTypeNext, ProcessTypeNext, WizardTypeNext, CountersTypeNext DEF TypeOK

-----------------------------------------------------------------------------
(* The schema.                                                             *)

\* Steps that move the service's migrator to the start, or stop it.
LEMMA SchemaMoves ==
  ASSUME ServiceInv, Starting \/ Ending
  PROVE  /\ tables' = tables /\ recorded' = recorded
         /\ \A m \in Migrator : at'[m] = at[m] \/ at'[m] = Idle
              \/ at'[m] = [version |-> 1, step |-> "check"]
<1>1. at \in [Migrator -> [version : 1..4, step : {"idle", "check", "apply"}]]
  BY DEF ServiceInv, TypeOK, SchemaType
<1>2. \/ at' = at \/ MoveTo("service", 1, "check")
      \/ at' = [at EXCEPT !["service"] = Idle]
  BY DEF Starting, Start, Open, StartupFails, LoadWizard, Listen,
         StartAdapters, Ending, Exit, Crash, Gone, schema
<1>3. tables' = tables /\ recorded' = recorded
  BY DEF Starting, Start, Open, StartupFails, LoadWizard, Listen,
         StartAdapters, Ending, Exit, Crash, Gone, schema
<1> QED
  BY <1>1, <1>2, <1>3 DEF MoveTo, Migrator

\* One migrator passes a version, after it is recorded or because it is.
LEMMA SchemaAdvances ==
  ASSUME ServiceInv, NEW m \in Migrator, IsApplied(m) \/ Apply(m) PROVE Schema'
<1> USE DEF Version
<1>0. /\ at \in [Migrator -> [version : 1..4, step : {"idle", "check", "apply"}]]
      /\ Schema /\ recorded \in SUBSET Version
  BY DEF ServiceInv, TypeOK, SchemaType
<1>1. at[m].step \in {"check", "apply"} /\ at[m].version \in Version
      /\ \A v \in Version : v < at[m].version => v \in recorded
  BY <1>0 DEF IsApplied, Apply, Schema
<1>2. /\ recorded \subseteq recorded' /\ tables' = recorded'
      /\ recorded' \subseteq recorded \cup {at[m].version}
  BY <1>0 DEF IsApplied, Apply, Record, Schema
<1>3. \/ MoveTo(m, at[m].version + 1, "check") /\ at[m].version \in recorded'
      \/ MoveTo(m, at[m].version, "apply")
  BY DEF IsApplied, Apply, Record
<1>4. \A n \in Migrator : n # m => at'[n] = at[n]
  BY <1>0, <1>3 DEF MoveTo
<1>5. \/ /\ at'[m].version = at[m].version + 1 /\ at'[m].step = "check"
         /\ at[m].version \in recorded'
      \/ at'[m].version = at[m].version /\ at'[m].step = "apply"
  BY <1>0, <1>3 DEF MoveTo
<1>6. \A v \in recorded', w \in Version : w < v => w \in recorded'
  BY <1>0, <1>1, <1>2 DEF Schema
<1>7. ASSUME NEW n \in Migrator
      PROVE  /\ at'[n].step # "idle" =>
                  \A v \in Version : v < at'[n].version => v \in recorded'
             /\ at'[n].step = "apply" => at'[n].version \in Version
  <2>1. CASE n = m
    BY <1>1, <1>2, <1>5, <2>1
  <2>2. CASE n # m
    BY <1>0, <1>2, <1>4, <2>2 DEF Schema
  <2> QED
    BY <2>1, <2>2
<1> QED
  BY <1>2, <1>6, <1>7 DEF Schema

LEMMA SchemaNext == ServiceInv /\ [Next]_vars => Schema'
<1> SUFFICES ASSUME ServiceInv, [Next]_vars PROVE Schema'
  OBVIOUS
<1>0. Schema /\ at \in [Migrator -> [version : 1..4, step : {"idle", "check", "apply"}]]
  BY DEF ServiceInv, TypeOK, SchemaType
<1>1. ASSUME NEW m \in Migrator, IsApplied(m) \/ Apply(m) PROVE Schema'
  BY <1>1, SchemaAdvances
<1>2. CASE DBMigrate \/ DBMigrateFails
  <2>1. /\ tables' = tables /\ recorded' = recorded
        /\ at' = [at EXCEPT !["readsyncctl"] = [version |-> 1, step |-> "check"]]
           \/ at' = [at EXCEPT !["readsyncctl"] = [version |-> 2, step |-> "idle"]]
    BY <1>2 DEF DBMigrate, DBMigrateFails, MoveTo
  <2> QED
    BY <1>0, <2>1 DEF Schema, Version, Migrator
<1>3. CASE Starting \/ Ending
  <2>1. /\ tables' = tables /\ recorded' = recorded
        /\ \A m \in Migrator : at'[m] = at[m] \/ at'[m] = Idle
             \/ at'[m] = [version |-> 1, step |-> "check"]
    BY <1>3, SchemaMoves
  <2> QED
    BY <1>0, <2>1 DEF Schema, Version, Idle
<1>4. CASE Saving \/ SaveStep \/ Reading \/ Asking \/ Stopping \/ UNCHANGED vars
  <2>1. UNCHANGED schema
    BY <1>4 DEF Saving, OpenPage, Update, Complete, Reset, SaveStep, WriteFile,
                Rename, SaveFails, Reading, FetchToken, CompleteAgain, RunPage,
                Asking, Stop, RestartService, Stopping, vars
  <2> QED
    BY <1>0, <2>1 DEF schema, Schema
<1> QED
  BY <1>1, <1>2, <1>3, <1>4, NextGroups DEF Migration

-----------------------------------------------------------------------------
(* The process.                                                            *)

\* Recording a migration never loses one.
LEMMA RecordedGrows ==
  ASSUME ServiceInv, [Next]_vars
  PROVE  recorded \subseteq recorded' /\ recorded' \subseteq Version
<1>1. recorded' \subseteq Version
  BY SchemaTypeNext DEF SchemaType
<1>2. recorded \subseteq recorded'
  BY NextGroups, SchemaMoves
     DEF Migration, DBMigrate, DBMigrateFails, IsApplied, Apply, Record,
         Saving, OpenPage, Update, Complete, Reset, SaveStep, WriteFile,
         Rename, SaveFails, Reading, FetchToken, CompleteAgain, RunPage,
         Asking, Stop, RestartService, Stopping, schema, vars
<1> QED
  BY <1>1, <1>2

LEMMA ServingNext == ServiceInv /\ [Next]_vars => ServingIsReady'
<1> SUFFICES ASSUME ServiceInv, [Next]_vars PROVE ServingIsReady'
  OBVIOUS
<1>0. ServingIsReady /\ Alive /\ SchemaType /\ ProcessType
  BY DEF ServiceInv, TypeOK
<1>1. recorded = Version => recorded' = Version
  BY RecordedGrows
<1>2. CASE Start \/ Open
  <2>1. Open => at'["service"].step = "check"
    BY <1>0 DEF Open, MoveTo, SchemaType, Migrator
  <2> QED
    BY <1>0, <1>1, <1>2, <2>1 DEF Start, Open, ServingIsReady, Alive
<1>3. CASE StartupFails
  BY <1>0, <1>1, <1>3 DEF StartupFails, Return, ServingIsReady
<1>4. CASE LoadWizard
  <2>1. recorded = Version
    <3>1. \A v \in Version : v \in recorded
      BY <1>0, <1>4
         DEF LoadWizard, ServingIsReady, ServiceInv, Schema, Version, Migrator
    <3> QED
      BY <1>0, <3>1 DEF SchemaType
  <2> QED
    BY <1>0, <1>1, <1>4, <2>1 DEF LoadWizard, ServingIsReady
<1>5. CASE Listen \/ StartAdapters
  BY <1>0, <1>1, <1>5 DEF Listen, StartAdapters, ServingIsReady
<1>6. CASE Asking \/ Stopping
  BY <1>0, <1>1, <1>6
     DEF Asking, Stop, RestartService, RequestStop, Stopping, Return,
         ServingIsReady, schema
<1>7. CASE Ending
  BY <1>7 DEF Ending, Exit, Crash, Gone, ServingIsReady
<1>8. CASE Migration
  <2>1. UNCHANGED process
    BY <1>8, MigrationFrame
  <2>2. phase = "migrate" => at'["service"].step # "idle"
    <3>1. \A m \in Migrator : IsApplied(m) \/ Apply(m) =>
            /\ at'[m].step # "idle"
            /\ \A n \in Migrator : n # m => at'[n] = at[n]
      BY <1>0 DEF IsApplied, Apply, MoveTo, SchemaType
    <3>2. DBMigrate \/ DBMigrateFails => at'["service"] = at["service"]
      BY <1>0 DEF DBMigrate, DBMigrateFails, MoveTo, SchemaType, Migrator
    <3> QED
      BY <1>0, <1>8, <3>1, <3>2 DEF Migration, ServingIsReady, Migrator
  <2> QED
    BY <1>0, <1>1, <2>1, <2>2 DEF process, ServingIsReady
<1>9. CASE Saving \/ SaveStep \/ Reading \/ UNCHANGED vars
  <2>1. UNCHANGED <<schema, process>>
    BY <1>9 DEF Saving, OpenPage, Update, Complete, Reset, SaveStep, WriteFile,
                Rename, SaveFails, Reading, FetchToken, CompleteAgain, RunPage,
                vars
  <2> QED
    BY <1>0, <2>1 DEF schema, process, ServingIsReady
<1> QED
  BY <1>2, <1>3, <1>4, <1>5, <1>6, <1>7, <1>8, <1>9, NextGroups DEF Starting

LEMMA AliveNext == ServiceInv /\ [Next]_vars => Alive'
<1> SUFFICES ASSUME ServiceInv, [Next]_vars PROVE Alive'
  OBVIOUS
<1>0. Alive /\ ProcessType
  BY DEF ServiceInv, TypeOK
<1>1. CASE Starting
  BY <1>0, <1>1
     DEF Starting, Start, Open, StartupFails, LoadWizard, Listen, StartAdapters,
         Return, Alive, ProcessType
<1>2. CASE Asking \/ Stopping
  BY <1>0, <1>2
     DEF Asking, Stop, RestartService, RequestStop, Stopping, Return, Alive
<1>3. CASE Ending
  BY <1>3 DEF Ending, Exit, Crash, Gone, Alive
<1>4. CASE Migration \/ Saving \/ SaveStep \/ Reading \/ UNCHANGED vars
  <2>1. UNCHANGED process
    BY <1>4, MigrationFrame
       DEF Saving, OpenPage, Update, Complete, Reset, SaveStep, WriteFile,
           Rename, SaveFails, Reading, FetchToken, CompleteAgain, RunPage, vars
  <2> QED
    BY <1>0, <2>1 DEF process, Alive
<1> QED
  BY <1>1, <1>2, <1>3, <1>4, NextGroups

-----------------------------------------------------------------------------
(* The file.                                                               *)

\* What a step that is no save, no load and no end leaves of the wizard.
LEMMA WizardFrame ==
  ASSUME \/ Start \/ Open \/ StartupFails \/ Listen \/ StartAdapters
         \/ Migration \/ Asking \/ Stopping \/ UNCHANGED vars
  PROVE  UNCHANGED wizard
BY MigrationFrame
   DEF Start, Open, StartupFails, Listen, StartAdapters, Asking, Stop,
       RestartService, Stopping, vars

\* A wizard is none of the three marks.
LEMMA Marks ==
  /\ Nil \notin WizardState /\ NoFile \notin WizardState /\ Torn \notin WizardState
  /\ Nil # NoFile /\ Nil # Torn /\ NoFile # Torn
BY ServiceAssumption

\* Nobody serves while the wizard is not loaded, so nobody saves.
LEMMA SavingServes ==
  ASSUME ServiceInv, Saving
  PROVE  HasWizard /\ phase \notin {"down", "open", "migrate"}
<1>1. ServingIsReady /\ FileWhole /\ phase' = phase
  BY SavingFrame DEF ServiceInv, process
<1>2. HasWizard
  BY <1>1, SavingFrame
<1>3. ASSUME NEW p \in Page, Update(p) PROVE runs # {}
  BY <1>3 DEF Update
<1>4. api \/ runs # {}
  BY <1>3 DEF Saving, OpenPage, Complete, Reset, Authorized, Accepting
<1> QED
  BY <1>1, <1>2, <1>4 DEF ServingIsReady, FileWhole

LEMMA FileWholeNext == ServiceInv /\ [Next]_vars => FileWhole'
<1> SUFFICES ASSUME ServiceInv, [Next]_vars PROVE FileWhole'
  OBVIOUS
<1>0. FileWhole /\ WizardType /\ ServingIsReady /\ Alive
  BY DEF ServiceInv, TypeOK
<1>1. CASE Saving
  <2>1. /\ file' = file /\ lock' = "write" /\ phase' = phase
        /\ wz' \in WizardState
    BY <1>0, <1>1, SavingFrame, SavedType DEF process
  <2> QED
    BY <1>0, <1>1, <2>1, SavingServes, Marks DEF FileWhole, HasWizard
<1>2. CASE SaveStep
  <2>1. phase' = phase /\ wz' = wz /\ runs' = runs
    BY <1>2 DEF SaveStep, WriteFile, Rename, SaveFails, process
  <2>2. lock # "free" => wz \in WizardState
    BY <1>0 DEF FileWhole, HasWizard, WizardType
  <2> QED
    BY <1>0, <1>2, <2>1, <2>2, Marks
       DEF SaveStep, WriteFile, Rename, SaveFails, FileWhole, HasWizard
<1>3. CASE Reading
  <2>1. /\ phase' = phase
        /\ file' = file /\ tmp' = tmp /\ wz' = wz /\ lock' = lock
    BY <1>3 DEF Reading, FetchToken, CompleteAgain, RunPage, process, wizard
  <2>2. \/ runs' = runs
        \/ HasWizard /\ api
    BY <1>3 DEF Reading, FetchToken, CompleteAgain, RunPage, wizard,
                Authorized, Accepting
  <2> QED
    BY <1>0, <2>1, <2>2 DEF FileWhole, HasWizard, ServingIsReady
<1>4. CASE LoadWizard
  BY <1>0, <1>4 DEF LoadWizard, FileWhole, HasWizard
<1>5. CASE Ending
  BY <1>0, <1>5 DEF Ending, Exit, Crash, Gone, FileWhole
<1>6. CASE Start \/ Open \/ StartupFails \/ Listen \/ StartAdapters
  <2>1. UNCHANGED wizard
    BY <1>6, WizardFrame
  <2>2. phase' \in {"down", "open", "migrate"} =>
          phase \in {"down", "open", "migrate"}
    BY <1>6 DEF Start, Open, StartupFails, Return, Listen, StartAdapters
  <2> QED
    BY <1>0, <2>1, <2>2 DEF wizard, FileWhole, HasWizard
<1>7. CASE Migration \/ Asking \/ Stopping \/ UNCHANGED vars
  <2>1. UNCHANGED wizard
    BY <1>7, WizardFrame
  <2>2. phase' = phase \/ phase' = "returned"
    BY <1>7, MigrationFrame
       DEF Asking, Stop, RestartService, RequestStop, Stopping, Return, process,
           vars
  <2> QED
    BY <1>0, <2>1, <2>2 DEF wizard, FileWhole, HasWizard
<1> QED
  BY <1>1, <1>2, <1>3, <1>4, <1>5, <1>6, <1>7, NextGroups DEF Starting

\* A request that saves: it completes the wizard, starts it afresh, or leaves
\* whether it is completed.
LEMMA SavingCompletes ==
  ASSUME ServiceInv, Saving
  PROVE  /\ completing' => wz'.completed
         /\ finished' => finished /\ (wz.completed => wz'.completed)
<1>0. WizardType /\ Remembered /\ FileWhole
  BY DEF ServiceInv, TypeOK
<1>1. wz \in WizardState /\ lock = "free" /\ ~completing
  BY <1>0, SavingFrame DEF HasWizard, WizardType, Remembered
<1>2. ASSUME NEW p \in Page, OpenPage(p)
      PROVE  ~completing' /\ finished' = finished /\ wz'.completed = wz.completed
  <2>1. wz' = [wz EXCEPT !.current = p]
    BY <1>2 DEF OpenPage, Save
  <2> QED
    BY <1>1, <1>2, <2>1 DEF OpenPage, WizardState
<1>3. ASSUME NEW p \in Page, Update(p)
      PROVE  ~completing' /\ finished' = finished /\ wz'.completed = wz.completed
  <2>1. PICK outcome \in Outcomes(p) : wz' = [wz EXCEPT !.status[p] = outcome]
    BY <1>3 DEF Update, Save
  <2>2. wz'.completed = wz.completed
    BY <1>1, <2>1 DEF WizardState
  <2> QED
    BY <1>1, <1>3, <2>2 DEF Update
<1>4. CASE Complete
  <2>1. wz' = [wz EXCEPT !.completed = TRUE, !.current = Pages[Len(Pages)]]
    BY <1>4 DEF Complete, Save
  <2>2. wz'.completed
    BY <1>1, <2>1 DEF WizardState
  <2> QED
    BY <1>4, <2>2 DEF Complete
<1>5. CASE Reset
  BY <1>1, <1>5 DEF Reset
<1> QED
  BY <1>2, <1>3, <1>4, <1>5 DEF Saving

LEMMA RememberedNext == ServiceInv /\ [Next]_vars => Remembered'
<1> SUFFICES ASSUME ServiceInv, [Next]_vars PROVE Remembered'
  OBVIOUS
<1>0. Remembered /\ FileWhole /\ WizardType
  BY DEF ServiceInv, TypeOK
<1>1. CASE Saving
  <2>1. file' = file /\ lock' = "write" /\ HasWizard
    BY <1>0, <1>1, SavingFrame
  <2>2. /\ completing' => wz'.completed
        /\ finished' => finished /\ (wz.completed => wz'.completed)
    BY <1>1, SavingCompletes
  <2>3. finished => file \in WizardState /\ file.completed /\ wz.completed
    BY <1>0, <2>1 DEF Remembered
  <2> QED
    BY <2>1, <2>2, <2>3 DEF Remembered
<1>2. CASE WriteFile
  BY <1>0, <1>2 DEF WriteFile, Remembered, HasWizard
<1>3. CASE Rename
  <2>1. wz \in WizardState /\ file' = wz /\ wz' = wz
    BY <1>0, <1>3 DEF Rename, FileWhole, HasWizard, WizardType
  <2>2. finished' => wz.completed
    BY <1>0, <1>3, <2>1, Marks DEF Rename, Remembered, HasWizard
  <2> QED
    BY <1>3, <2>1, <2>2 DEF Rename, Remembered, HasWizard
<1>4. CASE SaveFails
  BY <1>0, <1>4 DEF SaveFails, Remembered, HasWizard
<1>5. CASE CompleteAgain
  <2>1. /\ file' = file /\ wz' = wz /\ lock' = lock
        /\ completing' = completing /\ unsaved' = unsaved
    BY <1>5 DEF CompleteAgain
  <2>2. HasWizard /\ wz.completed /\ lock = "free" /\ wz \in WizardState
    BY <1>0, <1>5 DEF CompleteAgain, NeedsSetup, HasWizard, WizardType
  <2>3. finished' => finished \/ ~unsaved
    BY <1>5 DEF CompleteAgain
  <2>4. finished' => file \in WizardState /\ file.completed
    BY <1>0, <2>2, <2>3 DEF Remembered
  <2> QED
    BY <1>0, <2>1, <2>2, <2>4 DEF Remembered, HasWizard
<1>6. CASE FetchToken \/ \E p \in Page : RunPage(p)
  BY <1>0, <1>6 DEF FetchToken, RunPage, wizard, Remembered, HasWizard
<1>7. CASE LoadWizard
  <2>1. /\ file' = file /\ lock' = lock /\ completing' = completing
        /\ unsaved' = unsaved /\ finished' = finished
        /\ wz' = Nil \/ wz' = Load
    BY <1>7 DEF LoadWizard
  <2>2. ~completing
    BY <1>0, <1>7 DEF LoadWizard, FileWhole, Remembered
  <2>3. file \in WizardState => Load = file
    BY Marks DEF Load
  <2>4. wz' # Nil /\ wz'.completed => file \in WizardState /\ wz' = file
    BY <1>0, <2>1, Marks DEF Load, Fresh, FileWhole, WizardType
  <2>5. finished => file \in WizardState /\ file.completed
    BY <1>0 DEF Remembered
  <2> QED
    BY <2>1, <2>2, <2>3, <2>4, <2>5 DEF Remembered, HasWizard
<1>8. CASE Ending
  BY <1>0, <1>8 DEF Ending, Exit, Crash, Gone, Remembered, HasWizard
<1>9. CASE \/ Start \/ Open \/ StartupFails \/ Listen \/ StartAdapters
           \/ Migration \/ Asking \/ Stopping \/ UNCHANGED vars
  BY <1>0, <1>9, WizardFrame DEF wizard, Remembered, HasWizard
<1> QED
  BY <1>1, <1>2, <1>3, <1>4, <1>5, <1>6, <1>7, <1>8, <1>9, NextGroups
     DEF Starting, SaveStep, Reading

-----------------------------------------------------------------------------
(* The theorems.                                                           *)

LEMMA InvInit == Init => ServiceInv
<1> SUFFICES ASSUME Init PROVE ServiceInv
  OBVIOUS
<1>1. TypeOK
  BY TypeInit
<1>2. Schema /\ ServingIsReady /\ Alive
  BY DEF Init, Schema, ServingIsReady, Alive, Migrator, Idle
<1>3. FileWhole /\ Remembered
  BY Marks DEF Init, FileWhole, Remembered, HasWizard
<1> QED
  BY <1>1, <1>2, <1>3 DEF ServiceInv

\* For any list of pages and any number of starts, requests, failing calls and
\* crashes: two migrators leave one schema, whoever listens finds the database
\* migrated, the control manager and the process agree (main_service.go), and
\* wizard.json is whole and says what the wizard said (persist.go).
THEOREM Inductive == Spec => []ServiceInv
<1>1. Init => ServiceInv
  BY InvInit
<1>2. ServiceInv /\ [Next]_vars => ServiceInv'
  BY TypeNext, SchemaNext, ServingNext, AliveNext, FileWholeNext, RememberedNext
     DEF ServiceInv
<1> QED
  BY <1>1, <1>2, PTL DEF Spec

\* Setup that was finished, answered and stored stays finished through any
\* crashes, failed saves and restarts until it is reset (wizard.go, persist.go).
THEOREM SetupStays == Spec => []SetupSurvives
<1>1. ServiceInv => SetupSurvives
  BY DEF ServiceInv, Remembered, SetupSurvives, Landing, NeedsSetup
<1> QED
  BY <1>1, Inductive, PTL

-----------------------------------------------------------------------------
(* Upkeep: RetryOnBusy, for any answers and any number of retries.         *)

\* A set of naturals below a bound has a first member, if any: of the intervals
\* up to the bound that cover it a least one exists, and starts there.
LEMMA First ==
  ASSUME NEW n \in Nat, NEW S \in SUBSET (1..n), S # {}
  PROVE  LET i == CHOOSE i \in S : \A j \in S : i <= j
         IN i \in S /\ \A j \in S : i <= j
<1> DEFINE T == {k..n : k \in {k \in 1..n : S \subseteq k..n}}
<1>1. IsWellFoundedOn(StrictSubsetOrdering(1..n), FiniteSubsetsOf(1..n))
  BY FS_StrictSubsetOrderingWellFounded
<1>2. T \subseteq FiniteSubsetsOf(1..n) /\ (1..n) \in T
  <2>1. ASSUME NEW k \in 1..n
        PROVE  IsFiniteSet(k..n) /\ k..n \in SUBSET (1..n)
    BY FS_Interval
  <2>2. 1 \in 1..n
    <3>1. PICK x \in S : TRUE
      OBVIOUS
    <3> QED
      BY <3>1
  <2> QED
    BY <2>1, <2>2 DEF FiniteSubsetsOf
<1>3. PICK U \in T : \A V \in T : ~(<<V, U>> \in StrictSubsetOrdering(1..n))
  <2> HIDE DEF T
  <2> QED
    BY <1>1, <1>2, WFMin
<1>4. PICK k \in 1..n : U = k..n /\ S \subseteq k..n
  BY <1>3
<1>5. k \in S
  <2> SUFFICES ASSUME k \notin S PROVE FALSE
    OBVIOUS
  <2>1. S \subseteq (k + 1)..n
    BY <1>4
  <2>2. k + 1 \in 1..n
    <3>1. PICK x \in S : TRUE
      OBVIOUS
    <3> QED
      BY <1>4, <2>1, <3>1
  <2>3. (k + 1)..n \in T
    BY <2>1, <2>2
  <2>4. /\ (k + 1)..n \subseteq k..n /\ k..n \subseteq 1..n
        /\ k \in k..n /\ k \notin (k + 1)..n
    OBVIOUS
  <2>5. <<(k + 1)..n, U>> \in StrictSubsetOrdering(1..n)
    BY <1>4, <2>4, Zenon DEF StrictSubsetOrdering
  <2> QED
    BY <1>3, <2>3, <2>5
<1>6. \E i \in S : \A j \in S : i <= j
  BY <1>4, <1>5
<1> QED
  BY <1>6

\* RetryOnBusy makes at least one and at most maxRetries + 1 calls; every call
\* but the last one was answered busy and not followed by a cancel; and the
\* result is ok exactly when the last call was (repair.go).
THEOREM RetriesStop ==
  ASSUME NEW maxRetries \in Nat, NEW waited \in Nat,
         NEW answers \in [1..maxRetries + 1 -> {"ok", "busy", "error"}]
  PROVE  LET made == RetryOnBusy(answers, maxRetries, waited) IN
         /\ made.calls \in 1..maxRetries + 1
         /\ \A i \in 1..made.calls - 1 : answers[i] = "busy" /\ i # waited
         /\ made.result = "ok" <=> answers[made.calls] = "ok"
<1> DEFINE settled == {i \in 1..maxRetries + 1 : answers[i] # "busy"}
                      \cup ({waited} \cap 1..maxRetries)
           made == RetryOnBusy(answers, maxRetries, waited)
<1>1. CASE settled = {}
  <2>1. made = [calls |-> maxRetries + 1, result |-> "error"]
    BY <1>1 DEF RetryOnBusy
  <2>2. \A i \in 1..maxRetries + 1 : answers[i] = "busy"
    BY <1>1
  <2>3. waited \notin 1..maxRetries
    BY <1>1
  <2> QED
    BY <2>1, <2>2, <2>3
<1>2. CASE settled # {}
  <2> DEFINE k == CHOOSE i \in settled : \A j \in settled : i <= j
  <2>1. made = [calls |-> k,
                result |-> IF answers[k] = "busy" THEN "cancelled"
                           ELSE answers[k]]
    BY <1>2 DEF RetryOnBusy
  <2>2. k \in settled /\ \A j \in settled : k <= j
    <3>1. settled \in SUBSET (1..maxRetries + 1) /\ maxRetries + 1 \in Nat
      OBVIOUS
    <3> HIDE DEF settled
    <3> QED
      BY <1>2, <3>1, First, Zenon
  <2> HIDE DEF k
  <2>3. k \in 1..maxRetries + 1
    BY <2>2
  <2>4. ASSUME NEW i \in 1..k - 1
        PROVE  answers[i] = "busy" /\ i # waited
    <3>1. i \notin settled /\ i \in 1..maxRetries
      BY <2>2, <2>3
    <3> QED
      BY <3>1
  <2>5. made.calls = k
    BY <2>1
  <2>6. made.result = "ok" <=> answers[k] = "ok"
    BY <2>1
  <2> QED
    BY <2>3, <2>4, <2>5, <2>6
<1> QED
  BY <1>1, <1>2
=============================================================================
