----------------------------- MODULE MCCalibre -----------------------------
(* Instances of Calibre for TLC, and of the bridge that writes through it. *)
EXTENDS Calibre

\* The bridge reports itself healthy only in a mode in which WriteProgress
\* does not fail.
ASSUME HealthyDoesNotFail ==
  \A mode \in Bridge!Modes, ack \in BOOLEAN, dir \in Bridge!PluginsDir :
    Bridge!HealthOf(mode, ack, Bridge!DetectPlugin(dir)) = "ok" =>
      Bridge!WriteSkips(mode)

Write(book, identified, tenths, locator, positioned) ==
  [book |-> book, identified |-> identified, tenths |-> tenths,
   locator |-> locator, status |-> "reading", positioned |-> positioned]

\* Two write-backs of one book, one of them with a position, and one that can
\* never be written.
MCPayloads == <<Write("b", FALSE, 300, "", FALSE),
                Write("b", TRUE, 804, "koreader_xpointer", TRUE),
                Write("b", TRUE, 3, "percent", FALSE)>>

\* What the pipeline enqueues: {"book_id": ..., "event_id": ...}.
PipelinePayloads == <<Write("b", FALSE, 452, "koreader_xpointer", TRUE)>>
=============================================================================
