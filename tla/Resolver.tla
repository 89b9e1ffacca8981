------------------------------ MODULE Resolver ------------------------------
(***************************************************************************)
(* internal/resolver: how much a piece of evidence about a book is worth,  *)
(* alone (EvidenceQuality) and against a stored book (Score), and what the *)
(* resulting confidence permits (Band, WritebackEnabled).                  *)
(*                                                                         *)
(* Strings are members of Value, the empty string is Absent.  What         *)
(* normalize and jaroWinkler make of them is given by Norm and Similarity. *)
(***************************************************************************)
EXTENDS Integers, Sequences

CONSTANTS Value,             \* identifiers, titles and authors
          Absent,            \* the empty string
          Norm(_),           \* normalize
          Similarity(_, _)   \* jaroWinkler of two normalized strings, in %

ASSUME ResolverAssumption == Absent \notin Value

\* The columns of the table books that hold evidence, and the two keys that
\* live in book_aliases.
Column == {"file_hash", "epub_id", "calibre_id", "goodreads_id", "isbn13",
           "isbn10", "asin", "title", "author_sort"}
AliasField == {"koreader_doc_hash", "moon_key"}
Field == Column \cup AliasField

Evidence == [Field -> Value \cup {Absent}]

\* Least member of a non-empty set of naturals.
Lowest(S) == CHOOSE i \in S : \A k \in S : i <= k

-----------------------------------------------------------------------------
\* The scoring ladder, best signal first.
Ladder == <<"file_hash", "epub_id", "calibre_id", "goodreads_id", "isbn13",
            "isbn10", "asin", "koreader_doc_hash", "moon_key">>
Points == <<100, 97, 95, 90, 85, 80, 75, 70, 65>>

PointsSwapped == <<100, 95, 97, 90, 85, 80, 75, 70, 65>>  \* Mutant of Points

Present(f, ev) == ev[f] # Absent

\* The rungs of the ladder on which the two agree.
Agreeing(ev, stored) ==
  {i \in DOMAIN Ladder : LET f == Ladder[i] IN
     Present(f, ev) /\ Present(f, stored) /\ Norm(ev[f]) = Norm(stored[f])}

Alike(f, ev, stored, threshold) ==
  /\ Present(f, ev) /\ Present(f, stored)
  /\ Similarity(Norm(ev[f]), Norm(stored[f])) >= threshold

Score(ev, stored) ==
  IF Agreeing(ev, stored) # {} THEN Points[Lowest(Agreeing(ev, stored))]
  ELSE IF Alike("title", ev, stored, 92) /\ Alike("author_sort", ev, stored, 88)
       THEN 55
  ELSE IF Alike("title", ev, stored, 95) THEN 30
  ELSE 0

EvidenceQuality(ev) ==
  LET rungs == {i \in DOMAIN Ladder : Present(Ladder[i], ev)} IN
  IF rungs # {} THEN Points[Lowest(rungs)]
  ELSE IF Present("title", ev) /\ Present("author_sort", ev) THEN 40
  ELSE IF Present("title", ev) THEN 20
  ELSE 0

-----------------------------------------------------------------------------
Bands == <<"Quarantine", "UserReview", "WritebackWary", "WritebackSafe",
           "AutoResolve">>

\* The position of the band in Bands.
Band(confidence) ==
  CASE confidence >= 95 -> 5
    [] confidence \in 80..94 -> 4
    [] confidence \in 60..79 -> 3
    [] confidence \in 40..59 -> 2
    [] OTHER -> 1

WritebackEnabled(confidence) == Band(confidence) >= 3
AutoResolveEnabled(confidence) == Band(confidence) >= 4
=============================================================================
