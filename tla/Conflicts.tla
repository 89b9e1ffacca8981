----------------------------- MODULE Conflicts ------------------------------
(***************************************************************************)
(* internal/conflicts: when a new progress event is suspicious against the *)
(* canonical progress, whether a conflict may be resolved without the      *)
(* user, and which of two events should win.                               *)
(*                                                                         *)
(* Percentages are hundredths, Nil is a nil pointer.  The texts of the     *)
(* reasons are left out.                                                   *)
(***************************************************************************)
EXTENDS Integers

Nil == -1

Source == {"calibre", "koreader", "moon", "goodreads_bridge",
           "kindle_via_goodreads"}
ReadStatus == {"not_started", "reading", "finished", "abandoned", "unknown"}
LocationType == {"percent", "page", "koreader_xpointer", "moon_position",
                 "epub_cfi", "raw"}

Precedence(s) ==
  CASE s = "calibre" -> 1
    [] s = "koreader" -> 2
    [] s = "moon" -> 3
    [] s = "goodreads_bridge" -> 4
    [] s = "kindle_via_goodreads" -> 5
    [] OTHER -> 99

-----------------------------------------------------------------------------
(* Suspicious jumps.                                                       *)

\* float64 has no 0.10: these are the hundredths a for which
\* a/100 - (a-10)/100 > 0.10 comes out true.
RoundsUp == {28, 34, 39, 40, 45, 46, 51, 52, 53, 54, 55, 56, 67, 68, 79, 80,
             81, 92, 93}

DropsByMoreThanTen(from, to) ==
  from - to > 10 \/ (from - to = 10 /\ from \in RoundsUp)

BackwardJump(canon, ev) ==
  /\ canon.percent # Nil /\ ev.percent # Nil
  /\ DropsByMoreThanTen(canon.percent, ev.percent)
  /\ ev.status \notin {"abandoned", "not_started"}

FinishedEarly(canon, ev) ==
  /\ ev.source = "goodreads_bridge" /\ ev.status = "finished"
  /\ canon.percent # Nil /\ canon.percent < 85

PageCountChanged(canon, ev) ==
  /\ canon.pages # Nil /\ ev.pages # Nil
  /\ canon.pages # ev.pages /\ canon.pages > 0

LowConfidence(ev) == ev.confidence > 0 /\ ev.confidence < 60

LocatorChanged(canon, ev) ==
  /\ canon.locator # ev.locator
  /\ "raw" \notin {canon.locator, ev.locator}

DetectWithoutBackward(canon, ev) ==    \* Mutant of DetectSuspiciousJump
  \/ FinishedEarly(canon, ev)
  \/ PageCountChanged(canon, ev)
  \/ LowConfidence(ev)
  \/ LocatorChanged(canon, ev)

DetectSuspiciousJump(canon, ev) ==
  \/ BackwardJump(canon, ev)
  \/ FinishedEarly(canon, ev)
  \/ PageCountChanged(canon, ev)
  \/ LowConfidence(ev)
  \/ LocatorChanged(canon, ev)

-----------------------------------------------------------------------------
(* Resolution.                                                             *)

CanAutoResolve(timestamps, confidenceHigh, plausible, writeback, noUserPin) ==
  timestamps /\ confidenceHigh /\ plausible /\ writeback /\ noUserPin

effectiveTime(ev) == IF ev.deviceTS # Nil THEN ev.deviceTS ELSE ev.receivedAt

\* The more trusted source, then the later time; the second one in a tie.
ChooseWinner(a, b) ==
  IF \/ Precedence(a.source) < Precedence(b.source)
     \/ /\ Precedence(a.source) = Precedence(b.source)
        /\ effectiveTime(a) > effectiveTime(b)
  THEN a ELSE b
=============================================================================
