----------------------------- MODULE TextMatch ------------------------------
(***************************************************************************)
(* internal/resolver: the two functions on strings that Resolver takes as  *)
(* its constants Norm and Similarity.  A string is a sequence of           *)
(* characters of one byte; the similarity is an exact fraction where the   *)
(* code computes with float64.                                             *)
(***************************************************************************)
EXTENDS Integers, Sequences, FiniteSets
LOCAL INSTANCE SequencesExt
LOCAL INSTANCE FiniteSetsExt

\* Two letters, one of them in both cases, a digit, a space, and a character
\* that is neither.
Char == {"a", "A", "b", "1", " ", "-"}

LowerChar(c) == IF c = "A" THEN "a" ELSE c
IsKept(c) == c \in {"a", "b", "1", " "}

TrimSpace(s) ==
  LET solid == {i \in DOMAIN s : s[i] # " "} IN
  IF solid = {} THEN <<>> ELSE SubSeq(s, Min(solid), Max(solid))

normalize(s) ==
  TrimSpace(SelectSeq([i \in DOMAIN s |-> LowerChar(s[i])], IsKept))

-----------------------------------------------------------------------------
(* jaro.                                                                   *)

MatchDist(s, t) == Max({0, Max({Len(s), Len(t)}) \div 2 - 1})

InWindow(s, t, i, k) ==
  k \in (i - MatchDist(s, t))..(i + MatchDist(s, t)) /\ s[i] = t[k]

\* Every character of s takes the first one of t in its window that is equal
\* to it and free: pairs of positions.
Matches(s, t) ==
  LET pairs[n \in 0..Len(s)] ==
        IF n = 0 THEN {}
        ELSE LET free == {k \in DOMAIN t : /\ InWindow(s, t, n, k)
                                           /\ \A p \in pairs[n - 1] : p[2] # k}
             IN pairs[n - 1] \cup (IF free = {} THEN {} ELSE {<<n, Min(free)>>})
  IN pairs[Len(s)]

\* The positions at which the matched characters of s and of t, each in their
\* own order, differ.
Transpositions(s, t) ==
  LET from == SetToSortSeq({p[1] : p \in Matches(s, t)}, <)
      to == SetToSortSeq({p[2] : p \in Matches(s, t)}, <) IN
  Cardinality({i \in DOMAIN from : s[from[i]] # t[to[i]]})

jaro(s, t) ==
  LET m == Cardinality(Matches(s, t)) IN
  IF s = t THEN [num |-> 1, den |-> 1]
  ELSE IF m = 0 THEN [num |-> 0, den |-> 1]
  ELSE [num |-> 2 * m * m * (Len(s) + Len(t))
                + (2 * m - Transpositions(s, t)) * Len(s) * Len(t),
        den |-> 6 * m * Len(s) * Len(t)]

\* At most four.
CommonPrefix(s, t) ==
  Max({n \in 0..Min({4, Len(s), Len(t)}) : SubSeq(s, 1, n) = SubSeq(t, 1, n)})

jaroWinkler(s, t) ==
  LET j == jaro(s, t) IN
  IF 10 * j.num < 7 * j.den THEN j
  ELSE [num |-> 10 * j.num + CommonPrefix(s, t) * (j.den - j.num),
        den |-> 10 * j.den]

\* What the thresholds of Score are compared with.
PercentAlike(s, t) ==
  LET j == jaroWinkler(s, t) IN (100 * j.num) \div j.den

-----------------------------------------------------------------------------
(* Laws, for texts up to a length.                                         *)

Text(n) == BoundedSeq(Char, n)
Words(n) == BoundedSeq({"a", "b"}, n)

\* What normalize leaves it leaves again: a key that is stored normalized
\* compares like the raw one.  Case and punctuation make no difference.
NormalizeIsStable(n) ==
  \A s \in Text(n) :
    /\ normalize(normalize(s)) = normalize(s)
    /\ normalize(s) = normalize(SelectSeq(s, LAMBDA c : c # "-"))

\* jaro pairs the characters off: nobody twice, only equal ones in the window,
\* and as many as can be found one after the other; so both sides have the
\* same number of matches and the search for the next matched one of t, which
\* has no bound, stays within t.
MatchesPairOff(n) ==
  \A s, t \in Words(n) :
    LET pairs == Matches(s, t) IN
    /\ \A p, q \in pairs : p[1] = q[1] \/ p[2] = q[2] => p = q
    /\ \A p \in pairs : InWindow(s, t, p[1], p[2])
    /\ \A i \in DOMAIN s, k \in DOMAIN t :
         InWindow(s, t, i, k) => \E p \in pairs : p[1] = i \/ p[2] = k

\* The similarity is a fraction of one, one exactly for equal strings, and
\* never lowered by the common prefix.
SimilarityIsFraction(n) ==
  \A s, t \in Words(n) :
    LET j == jaro(s, t) w == jaroWinkler(s, t) IN
    /\ 0 <= w.num /\ w.num <= w.den
    /\ w.num = w.den <=> s = t
    /\ j.num * w.den <= w.num * j.den

\* Which of the two is stored makes no difference, up to this length.
SimilarityIsSymmetric(n) ==
  \A s, t \in Words(n) :
    jaro(s, t).num * jaro(t, s).den = jaro(t, s).num * jaro(s, t).den
=============================================================================
