----------------------------- MODULE MCArchive ------------------------------
(* Instances of Archive for TLC. *)
EXTENDS Archive

\* book and colon differ in a character that safeName replaces: one directory.
MCSuffix == [p \in Path |-> IF p = "notes" THEN "an" ELSE "po"]
MCSafe == [p \in Path |-> IF p = "b:ook" THEN "b_ook" ELSE p]

\* A position, and one of more than a hundred per cent that is clamped.
MCTenths == [b \in Body |-> CASE b = "45.2%" -> 452
                              [] b = "100.3%" -> 1003
                              [] OTHER -> Nil]
=============================================================================
