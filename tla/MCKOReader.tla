----------------------------- MODULE MCKOReader -----------------------------
(* Instances of KOReader for TLC. *)
EXTENDS KOReader

MCNorm(v) == v
MCSimilarity(v, w) == IF v = w THEN 100 ELSE 0

At(percent, device) ==
  [document |-> "x", percent |-> percent, cfi |-> FALSE, device |-> device]

\* One document, two devices: one is ahead, one behind by less than ten points
\* (more would be a conflict), and one percentage is refused.
Ahead == At(50, "d1")
Behind == At(45, "d2")
TooFar == At(150, "d1")
MCPush == {Ahead, Behind, TooFar}
MCInput == {ToAdapterEvent(p) : p \in Push}

HTTP(op, key, push, limited) ==
  [op |-> op, user |-> "u", key |-> key, push |-> push, limited |-> limited]

MCTraffic ==
  {HTTP("push", "right", p, FALSE) : p \in MCPush} \cup
  {HTTP("push", "missing", Ahead, FALSE), HTTP("auth", "wrong", Ahead, FALSE),
   HTTP("auth", "right", Ahead, TRUE), HTTP("pull", "right", Ahead, FALSE)}
=============================================================================
