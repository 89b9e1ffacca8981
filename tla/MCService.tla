----------------------------- MODULE MCService ------------------------------
(* An instance of Service for TLC, and the laws of the pure modules, which *)
(* TLC evaluates before it starts.                                         *)
EXTENDS Service, Upkeep

MCPages == <<"calibre", "finish">>

AForm == [calibredb |-> "", library |-> "absolute", mode |-> "",
          jump |-> Blank, finished |-> Blank]
AHost == [calibredb |-> "on path", files |-> {"calibredb", "plugins"},
          appData |-> TRUE, freePorts |-> {7200, 7201, 8765}, db |-> "ok",
          library |-> "ok", trigger |-> "ok", export |-> TRUE,
          secrets |-> TRUE, netsh |-> TRUE]

MCForms == {AForm, [AForm EXCEPT !.library = ""]}
MCHosts == {AHost}

\* A scan succeeds only when everything was given and is there.
ASSUME ScanNeedsEverything ==
  \A opt \in ScanOptions, f \in SUBSET {"calibredb", "plugins"},
     ports \in SUBSET {7200, 7201, 8765}, d \in {"unreadable", "ok"} :
    ~AnyFailed(SystemScan(opt, [AHost EXCEPT !.files = f, !.freePorts = ports,
                                             !.db = d]))
      => /\ opt.calibredb /\ opt.hasDB /\ opt.dbPath
         /\ 0 \notin {opt.adminPort, opt.koreaderPort, opt.moonPort}
         /\ f = {"calibredb", "plugins"} /\ d = "ok"
         /\ ports = {7200, 7201, 8765}

\* So the page of the wizard, which gives two things, never does.
ASSUME WizardScanFails ==
  \A ports \in SUBSET {7200, 7201, 8765} :
    ~RunWizardPage("system_scan", AForm, [AHost EXCEPT !.freePorts = ports])

\* A policy that is accepted is in range, but for the NaN that passes.
ASSUME PolicyInRange ==
  /\ Validate(DefaultPolicy)
  /\ \A form \in {[AForm EXCEPT !.jump = j, !.finished = n] :
                  j \in {Blank, Word, Invalid, 0, 30, 100, 101},
                  n \in {Blank, Word, Invalid, -1, 0, 100, 101}} :
       RunPolicySetup(form) =>
         /\ PolicyOf(form).jump \in (1..100) \cup {Invalid}
         /\ PolicyOf(form).finished \in 0..100

\* The Calibre page succeeds only if the repair actions it is made of do, and
\* a Calibre that is installed off PATH is found, and never configured.
ASSUME CalibrePageIsRepairs ==
  \A c \in {"none", "installed", "on path"},
     l \in {"missing", "no metadata", "copy fails", "columns fail", "ok"} :
    LET host == [AHost EXCEPT !.calibredb = c, !.library = l]
        query == [library |-> "absolute", calibredb |-> "calibredb"] IN
    /\ RunWizardPage("calibre", AForm, host) <=>
         \A slug \in {"find_calibredb", "backup_library", "create_columns"} :
           DispatchRepair(slug, query, host)
    /\ c = "installed" => ~RunWizardPage("calibre", AForm, host)

\* The health shown is at least as bad as every state, and one of them; pages
\* without a provider show "ok" whatever the tray shows.
ASSUME HealthIsWorst ==
  \A shown \in SUBSET States :
    /\ \A s \in shown : Rank(s) <= Rank(OverallHealth(shown))
    /\ OverallHealth(shown) \in shown \cup {"ok"}
    /\ PageHealth({}) = "ok" /\ TrayHealth({}, FALSE, shown) = OverallHealth(shown)

ASSUME LogKeepsItsLines == LogKeepsLines

\* A backup is what was copied, unless a later call fell into its second.
ASSUME BackupsKeep ==
  \A calls \in BoundedSeq(BackupCall, MaxLines) :
    \A i \in DOMAIN calls :
      \/ Backups(calls)[Stamp(calls[i].at)] =
           IF calls[i].copies THEN calls[i].content ELSE "partial"
      \/ \E j \in DOMAIN calls : i < j /\ Stamp(calls[j].at) = Stamp(calls[i].at)

\* A child that is accepted is below its root; a library accepted under a
\* configured root is the root, in whatever case, or below it.
ASSUME PathsStayBelow ==
  \A root, p \in BoundedSeq(Component, 2) :
    /\ SafeChildPath(root, p) => IsPrefix(root, root \o p) /\ ~HasUnsafeComponent(p)
    /\ EnforceLibraryRoot(root, p) /\ root # <<>> =>
         /\ ~HasUnsafeComponent(p)
         /\ Len(root) <= Len(p)
         /\ \A i \in DOMAIN root : Lower(root[i]) = Lower(p[i])

\* What the service's chain has stored it finds; its Delete always reports an
\* error, and has deleted what the first store had.
ASSUME SecretsChain ==
  \A kind \in {"platform", "memory"}, env \in {"", "e"}, fails \in BOOLEAN :
    LET chain == << [kind |-> kind, values |-> [k \in {"k"} |-> ""]],
                    [kind |-> "environment", values |-> [k \in {"k"} |-> env]] >>
        broken == <<fails, FALSE>>
        sound == <<FALSE, FALSE>>
        set == ChainSet(chain, "k", "v", broken)
        deleted == ChainDelete(set.chain, "k", broken) IN
    /\ set.ok <=> ~fails
    /\ set.ok => ChainGet(set.chain, "k", sound).value = "v"
    /\ ~deleted.ok
    /\ ~fails => ChainGet(deleted.chain, "k", sound).value = env

\* A key with a secret token at any place is redacted, and no other; a secret
\* gets through in a value that is no string, or as a long token in a message.
ASSUME RedactionByToken ==
  /\ \A pre, post \in {<<>>, <<"moon", "_">>, <<"-", "id">>} :
       \A key \in SecretKeys :
         (pre # <<"-", "id">> /\ post # <<"moon", "_">>)
           => IsSecretKey(pre \o key \o post)
  /\ \A key \in {<<"author">>, <<"api", "-", "key">>, <<"key">>, <<"tokens">>} :
       ~IsSecretKey(key)
  /\ \A type \in {"string", "Stringer", "error"},
        holds \in {"plain", "bearer", "basic", "long token"} :
       LET shown == RedactField(<<"detail">>, [type |-> type, holds |-> holds]) IN
       /\ type # "error" => shown \in {"plain", "redacted"}
       /\ RedactMessage(holds) # "long token" =>
            RedactMessage(holds) \in {"plain", "redacted"}

\* It stops at the first answer other than busy, when cancelled, and at the
\* last retry.
ASSUME RetriesBounded ==
  \A answers \in [1..MaxLines -> {"ok", "busy", "error"}],
     wait \in 0..MaxLines :
    LET made == RetryOnBusy(answers, MaxLines - 1, wait) IN
    /\ made.calls \in 1..MaxLines
    /\ \A i \in 1..made.calls - 1 : answers[i] = "busy" /\ i # wait
    /\ made.result = "ok" <=> answers[made.calls] = "ok"

\* A later retry waits no less than an earlier one, at least four seconds and
\* never three hours; the first one falls within Calibre's WriteDelay of ten
\* seconds.
ASSUME RetriesBackOff ==
  /\ \A n \in 1..10 : \A d \in NextRetry(n) : 40 <= d /\ d < 3 * 36000
  /\ \A n \in 1..9 :
       \A d \in NextRetry(n) : \E later \in NextRetry(n + 1) : d <= later
  /\ \A d \in NextRetry(1) : d < 100

\* Whatever failed before, the pair that is served fits together.
ASSUME TLSPairFits ==
  \A failures \in [1..MaxLines -> {"none", "cert", "key"}] :
    LET start == [ok |-> FALSE, pair |-> [cert |-> 0, key |-> 0, next |-> 1]]
        served == FoldLeft(LAMBDA got, f : LoadOrGenerateTLS(got.pair, f),
                           start, failures) IN
    served.ok => served.pair.cert = served.pair.key /\ served.pair.cert # 0

ASSUME PortIsDigits ==
  /\ PortOf(<<7, 2, 0, 0>>) = 7200
  /\ PortOf(<<8, 0, 10, 1>>) = 80
  /\ ~OpenFirewallRule(<<10, 8, 0>>, AHost)

ASSUME EndpointSettings ==
  EnableKOReaderEndpoint({"theme"}, TRUE) =
    EnableKOReaderEndpoint({"theme"}, FALSE) \cup {"theme"}
=============================================================================
