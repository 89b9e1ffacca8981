------------------------- MODULE WritebackDelivery -------------------------
(***************************************************************************)
(* What the outbox promises about a write-back, said without statuses,     *)
(* workers or conflicts: somebody asks for it (the pipeline once, the user *)
(* by pressing retry), and it reaches its target at most once for each     *)
(* time it was asked for.  Outbox.tla is shown to implement this.          *)
(***************************************************************************)
EXTENDS Naturals

CONSTANT Job            \* the write-backs that can ever exist

VARIABLES asked,        \* asked[j]: how often the write-back was asked for
          delivered     \* delivered[j]: how often an adapter carried it out

vars == <<asked, delivered>>

Init ==
  /\ asked = [j \in Job |-> 0]
  /\ delivered = [j \in Job |-> 0]

\* One transaction of the pipeline asks for several write-backs at once.
Ask(S) ==
  /\ asked' = [j \in Job |-> IF j \in S THEN asked[j] + 1 ELSE asked[j]]
  /\ UNCHANGED delivered

Deliver(j) ==
  /\ delivered[j] < asked[j]
  /\ delivered' = [delivered EXCEPT ![j] = @ + 1]
  /\ UNCHANGED asked

Next ==
  \/ \E S \in SUBSET Job : Ask(S)
  \/ \E j \in Job : Deliver(j)

Spec == Init /\ [][Next]_vars
=============================================================================
