---------------------------- MODULE VersionStore ----------------------------
(***************************************************************************)
(* What the upload archive promises, said without files, rows, probes or   *)
(* crashes: for each user's path it keeps the bytes of the uploads as a    *)
(* sequence that only ever grows at its end.  Archive.tla is shown to      *)
(* implement this.                                                         *)
(***************************************************************************)
EXTENDS Sequences

CONSTANTS Place,        \* where uploads go: a user and a path
          Body          \* the bytes of an upload

VARIABLE versions       \* versions[a][v]: what version v of place a holds

Init == versions = [a \in Place |-> <<>>]

Keep(a, b) == versions' = [versions EXCEPT ![a] = Append(@, b)]

Next == \E a \in Place, b \in Body : Keep(a, b)

Spec == Init /\ [][Next]_versions
=============================================================================
