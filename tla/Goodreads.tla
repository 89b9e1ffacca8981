------------------------------ MODULE Goodreads ------------------------------
(***************************************************************************)
(* internal/adapters/goodreads_bridge: what is detected of the Goodreads   *)
(* Sync plugin, what health and what answers that gives in each mode, and  *)
(* the gates for what the plugin reports.  The bridge owns no goroutine    *)
(* and keeps nothing but its health: these are functions.                  *)
(***************************************************************************)
EXTENDS Conflicts

Modes == {"disabled", "manual-plugin", "guided-plugin", "companion-plugin",
          "experimental-direct"}

IsActive(mode) == mode \in {"manual-plugin", "guided-plugin"}

\* What the scan of the plugins directory finds: a *goodreads*.zip, and the
\* column that pluginsCustomization.json names, if both can be read.
PluginsDir == [zip : BOOLEAN, readable : BOOLEAN,
               column : {"", "#readsync_progress", "other"}]

DetectPlugin(dir) ==
  [installed |-> dir.readable /\ dir.zip,
   progressColumn |-> IF dir.readable THEN dir.column ELSE ""]

ProgressColumnConfigured(d) == d.progressColumn = "#readsync_progress"

\* Start; without the acknowledgement experimental-direct does not start.
HealthOf(mode, ack, d) ==
  CASE mode \in {"disabled", "companion-plugin"} -> "disabled"
    [] mode = "experimental-direct" /\ ~ack -> "needs_user_action"
    [] mode = "experimental-direct" -> "degraded"
    [] IsActive(mode) ->
         IF d.installed /\ ProgressColumnConfigured(d) THEN "ok"
         ELSE "needs_user_action"

\* WriteProgress answers nil without writing: the Calibre adapter does that.
WriteSkips(mode) == mode \in {"manual-plugin", "guided-plugin"}

-----------------------------------------------------------------------------
(* Stale state and the gates.  Percentages are hundredths.                 *)

\* ts: none, at most an hour ahead of the clock, or further.
Observation ==
  [percent : {Nil, 84, 99, 100}, shelf : {"currently-reading", "read"},
   ts : {"none", "plausible", "future"}, confidence : {55, 60, 89, 90}]

FinishedClaim(obs) == obs.shelf = "read" \/ obs.percent >= 100

\* Mutant of DetectStaleFinished: a threshold of a tenth less.
DetectStaleLate(canon, obs) ==
  FinishedClaim(obs) /\ canon.percent # Nil /\ canon.percent < 75

DetectStaleFinished(canon, obs) ==
  FinishedClaim(obs) /\ canon.percent # Nil /\ canon.percent < 85

ByGoodreads(canon) ==
  canon.source \in {"goodreads_bridge", "kindle_via_goodreads"}

RecentLocalChange(canon) == ~ByGoodreads(canon) /\ canon.updated # "earlier"

\* EvaluateWriteback with a canonical row.
EvaluateWriteback(canon, obs) ==
  /\ obs.confidence >= 90
  /\ obs.ts = "plausible"
  /\ ~RecentLocalChange(canon)
  /\ ~DetectStaleFinished(canon, obs)

-----------------------------------------------------------------------------
\* The event an observation would be, were it submitted.
EventOf(obs) ==
  [source |-> "goodreads_bridge", percent |-> obs.percent, pages |-> Nil,
   locator |-> "percent", confidence |-> obs.confidence,
   status |-> IF FinishedClaim(obs) THEN "finished" ELSE "reading"]

GatedRow(percent) ==
  [source : Source, percent : {percent}, pages : {Nil},
   locator : {"percent"}, updated : {"now", "today", "earlier"}]

\* The bridge's gates and the conflict engine were written apart, each with
\* thresholds of its own.  On a row with this percentage nothing that the gates
\* let through is taken by the engine for a false finish or for a weak match; a
\* false finish that the engine sees is seen by the gates.
GatesAgree(percent) ==
  \A canon \in GatedRow(percent), obs \in Observation :
    /\ EvaluateWriteback(canon, obs) =>
         ~FinishedEarly(canon, EventOf(obs)) /\ ~LowConfidence(EventOf(obs))
    /\ FinishedEarly(canon, EventOf(obs)) => DetectStaleFinished(canon, obs)
=============================================================================
