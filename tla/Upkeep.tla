------------------------------- MODULE Upkeep --------------------------------
(***************************************************************************)
(* The helpers that keep files, secrets and logs, as functions of what     *)
(* they find: the log file that rotates, the repair actions that write     *)
(* files named after the second, the checks of paths, the chain of secret  *)
(* stores, the redaction of log fields, the retry of a busy database, the  *)
(* TLS pair.  Sequences of calls are folded over.                          *)
(***************************************************************************)
EXTENDS Setup, SequencesExt

CONSTANT MaxLines       \* bound: lines written to a log, backups, attempts

\* Times are in half seconds, file names in seconds.
Stamp(now) == now \div 2

-----------------------------------------------------------------------------
(* RotatingFile.  A line is the number of the call that wrote it.          *)

\* A call of Write: the length of the line, its time, and whether the rename
\* of a rotation would succeed.
WriteCall == [size : {1, 2, 4}, at : 0..3, renames : BOOLEAN]

\* NewRotatingFile, in a directory without older logs.
OpenLog(now) == [lines |-> <<>>, size |-> 0, openedAt |-> now,
                 old |-> [s \in {} |-> <<>>], written |-> 0]

ShouldRotate(log, incoming, now, maxBytes, maxAge) ==
  \/ maxBytes > 0 /\ log.size + incoming > maxBytes
  \/ maxAge > 0 /\ now - log.openedAt > maxAge

\* A rename replaces an older file of that second; when it fails, the file is
\* opened again and keeps growing.
Rotate(log, call) ==
  IF call.renames
  THEN [log EXCEPT !.lines = <<>>, !.size = 0, !.openedAt = call.at,
                   !.old = [s \in DOMAIN log.old \cup {Stamp(call.at)} |->
                     IF s = Stamp(call.at) THEN log.lines ELSE log.old[s]]]
  ELSE [log EXCEPT !.openedAt = call.at]

WriteLine(log, call, maxBytes, maxAge) ==
  LET ready == IF ShouldRotate(log, call.size, call.at, maxBytes, maxAge)
               THEN Rotate(log, call) ELSE log IN
  [ready EXCEPT !.lines = Append(@, log.written + 1), !.size = @ + call.size,
                !.written = @ + 1]

\* The log after each of the calls.
LogAfter(calls, maxBytes, maxAge) ==
  FoldLeft(LAMBDA log, call : WriteLine(log, call, maxBytes, maxAge),
           OpenLog(0), calls)

Kept(log) == {log.lines[i] : i \in DOMAIN log.lines}
             \cup UNION {{log.old[s][i] : i \in DOMAIN log.old[s]} :
                         s \in DOMAIN log.old}

Chronological(calls) ==
  \A i, j \in DOMAIN calls : i < j => calls[i].at <= calls[j].at

\* A call at which the log rotates for the second time within one second.
RotatedTwice(calls, maxBytes, maxAge) ==
  LET before(i) == LogAfter(SubSeq(calls, 1, i - 1), maxBytes, maxAge)
      rotates(i) == /\ calls[i].renames
                    /\ ShouldRotate(before(i), calls[i].size, calls[i].at,
                                    maxBytes, maxAge) IN
  \E i, j \in DOMAIN calls :
    i < j /\ Stamp(calls[i].at) = Stamp(calls[j].at) /\ rotates(i) /\ rotates(j)

\* Every line ever written is in the log or in a rotated file, whichever of
\* the renames fail, unless two rotations fall into the same second; and a file
\* that could be renamed whenever it was full stays within its limit.
LogKeepsLines ==
  \A calls \in BoundedSeq(WriteCall, MaxLines) : Chronological(calls) =>
    \A maxBytes \in {0, 3}, maxAge \in {0, 1} :
      LET log == LogAfter(calls, maxBytes, maxAge) IN
      /\ \/ Kept(log) = 1..Len(calls)
         \/ RotatedTwice(calls, maxBytes, maxAge)
      /\ (maxBytes > 0 /\ \A i \in DOMAIN calls : calls[i].renames) =>
           log.size <= maxBytes \/ Len(log.lines) = 1

-----------------------------------------------------------------------------
(* BackupLibrary and the reports: a file named after the second, truncated *)
(* when it exists.                                                         *)

\* What a call finds: metadata.db's content, and whether the copy completes.
BackupCall == [content : {"old", "new"}, at : 0..3, copies : BOOLEAN]

\* backups: what the .bak of each second holds.
BackupLibrary(backups, call) ==
  [s \in DOMAIN backups \cup {Stamp(call.at)} |->
     IF s # Stamp(call.at) THEN backups[s]
     ELSE IF call.copies THEN call.content ELSE "partial"]

Backups(calls) == FoldLeft(BackupLibrary, [s \in {} |-> "old"], calls)

\* EnableKOReaderEndpoint: settings that cannot be parsed are dropped.
EnableKOReaderEndpoint(settings, parses) ==
  (IF parses THEN settings ELSE {}) \cup {"koreader_enabled", "koreader_lan_only"}

-----------------------------------------------------------------------------
(* Paths, as sequences of components after filepath.Clean has dropped the  *)
(* empty ones.                                                             *)

Component == {"lib", "LIB", "metadata.db", ".."}
Lower(c) == IF c = "LIB" THEN "lib" ELSE c

HasUnsafeComponent(p) == \E i \in DOMAIN p : p[i] = ".."

\* safeAbsPath: dir is the working directory.
SafeAbsPath(p) == p # <<>> /\ ~HasUnsafeComponent(p)

\* isPathWithin: the same path whatever its case, or below it.
IsPathWithin(root, p) ==
  \/ Len(root) = Len(p) /\ \A i \in DOMAIN p : Lower(root[i]) = Lower(p[i])
  \/ Len(root) <= Len(p) /\ SubSeq(p, 1, Len(root)) = root

SafeChildPath(root, child) ==
  SafeAbsPath(child) /\ IsPathWithin(root, root \o child)

\* enforceLibraryRoot: without a configured root everything is allowed.
EnforceLibraryRoot(root, p) ==
  root = <<>> \/ (SafeAbsPath(root) /\ SafeAbsPath(p) /\ IsPathWithin(root, p))

-----------------------------------------------------------------------------
(* Whether a repair action succeeds.                                       *)

\* The digits before the first other character, as a number.
PortOf(query) ==
  FoldLeft(LAMBDA got, c :
             IF got.stopped \/ c \notin 0..9 THEN [got EXCEPT !.stopped = TRUE]
             ELSE [got EXCEPT !.port = @ * 10 + c],
           [port |-> 0, stopped |-> FALSE], query).port

\* OpenFirewallRule: no upper bound of its own, netsh has the last word and is
\* missing on other systems than Windows.
OpenFirewallRule(query, host) == PortOf(query) > 0 /\ host.netsh

\* dispatchRepair, for a query.  restart_service ends the process instead of
\* answering, and any other slug is unknown.
DispatchRepair(slug, query, host) ==
  CASE slug = "find_calibredb" -> FindCalibredb(host)
    [] slug = "backup_library" -> BackupOK(query.library, host)
    [] slug = "create_columns" ->
         query.calibredb # "" /\ ColumnsOK(query.library, host)
    [] slug = "goodreads_plugin" -> TRUE
    [] slug = "enable_koreader" -> SafeUserPathInput(query.config) /\ host.export
    [] slug = "rotate_creds" -> query.adapter # "" /\ host.secrets
    [] slug = "open_firewall" -> OpenFirewallRule(query.port, host)
    [] slug \in {"missing_id_report", "export_diagnostics"} -> host.export
    [] slug \in {"rebuild_index", "clear_deadletter"} -> host.db = "ok"
    [] OTHER -> FALSE

-----------------------------------------------------------------------------
(* Secrets.  A store is a function from keys to values; "" is not found.   *)

\* What a store of each kind does with Set and Delete: the environment is
\* read-only, the platform's store may fail.
Writable(kind, fails) == kind # "environment" /\ ~fails

\* ChainStore.Get: the first that has the key, unless one fails before.
ChainGet(chain, key, fails) ==
  LET asked == {i \in DOMAIN chain : fails[i] \/ chain[i].values[key] # ""} IN
  IF asked = {} THEN [ok |-> FALSE, value |-> ""]
  ELSE LET i == CHOOSE i \in asked : \A j \in asked : i <= j IN
       IF fails[i] THEN [ok |-> FALSE, value |-> ""]
       ELSE [ok |-> TRUE, value |-> chain[i].values[key]]

\* ChainStore.Set: the first store only.
ChainSet(chain, key, value, fails) ==
  IF chain # <<>> /\ Writable(chain[1].kind, fails[1])
  THEN [ok |-> TRUE, chain |-> [chain EXCEPT ![1].values[key] = value]]
  ELSE [ok |-> FALSE, chain |-> chain]

\* ChainStore.Delete: every store, and the error of the last that has one.
ChainDelete(chain, key, fails) ==
  [ok |-> \A i \in DOMAIN chain : Writable(chain[i].kind, fails[i]),
   chain |-> [i \in DOMAIN chain |->
     IF Writable(chain[i].kind, fails[i])
     THEN [chain[i] EXCEPT !.values[key] = ""] ELSE chain[i]]]

-----------------------------------------------------------------------------
(* Redaction of log fields.  A key is a sequence of words and separators.  *)

Separators == {"_", "-"}

SecretKeys == {<<"password">>, <<"secret">>, <<"token">>, <<"auth">>,
               <<"api", "_", "key">>, <<"x", "-", "api", "-", "key">>}

TokenContains(s, needle) ==
  \E i \in 0..Len(s) - Len(needle) :
    /\ SubSeq(s, i + 1, i + Len(needle)) = needle
    /\ i = 0 \/ s[i] \in Separators
    /\ i + Len(needle) = Len(s) \/ s[i + Len(needle) + 1] \in Separators

IsSecretKey(key) == \E needle \in SecretKeys : TokenContains(key, needle)

\* redactValue sees strings and Stringers only; a value of another type, an
\* error for instance, is logged as it is.
RedactField(key, value) ==
  IF IsSecretKey(key) THEN "redacted"
  ELSE IF value.type \in {"string", "Stringer"}
          /\ value.holds \in {"bearer", "basic", "long token"} THEN "redacted"
  ELSE value.holds

\* RedactString leaves long tokens in messages.
RedactMessage(holds) == IF holds \in {"bearer", "basic"} THEN "redacted" ELSE holds

-----------------------------------------------------------------------------
(* RetryOnBusy: what the attempts would answer decides how many are made.  *)

\* Between two attempts it waits, and gives up when the context is cancelled:
\* in the wait after attempt cancelled.
RetryOnBusy(answers, maxRetries, cancelled) ==
  LET settled == {i \in 1..maxRetries + 1 : answers[i] # "busy"}
                 \cup ({cancelled} \cap 1..maxRetries) IN
  IF settled = {} THEN [calls |-> maxRetries + 1, result |-> "error"]
  ELSE LET i == CHOOSE i \in settled : \A j \in settled : i <= j IN
       [calls |-> i,
        result |-> IF answers[i] = "busy" THEN "cancelled" ELSE answers[i]]

-----------------------------------------------------------------------------
(* NextRetry of the outbox, in tenths of a second.                         *)

BaseDelay == 50
MaxDelay == 72000

\* The jitter of up to a fifth is added after the delay is capped.
NextRetry(attempt) ==
  LET doubled == BaseDelay * 2^(IF attempt <= 1 THEN 0 ELSE attempt - 1)
      delay == IF doubled >= MaxDelay THEN MaxDelay ELSE doubled IN
  (delay - delay \div 5)..(delay + delay \div 5)

-----------------------------------------------------------------------------
(* LoadOrGenerateTLS.  cert and key: which generation wrote them, 0 none.  *)

\* GenerateSelfSigned writes the certificate, then the key; either may fail.
GenerateSelfSigned(pair, fails) ==
  [ok |-> fails = "none",
   pair |-> [cert |-> IF fails = "cert" THEN pair.cert ELSE pair.next,
             key |-> IF fails \in {"cert", "key"} THEN pair.key ELSE pair.next,
             next |-> pair.next + 1]]

LoadOrGenerateTLS(pair, fails) ==
  IF pair.cert # 0 /\ pair.cert = pair.key THEN [ok |-> TRUE, pair |-> pair]
  ELSE GenerateSelfSigned(pair, fails)
=============================================================================
