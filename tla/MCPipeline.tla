----------------------------- MODULE MCPipeline -----------------------------
(* Instances of Pipeline for TLC, and laws of the functions behind it. *)
EXTENDS Pipeline, TextMatch

MCNorm(v) == v
MCSimilarity(v, w) == IF v = w THEN 100 ELSE 0

Nothing == [f \in Field |-> Absent]
Evid(f, v) == [Nothing EXCEPT ![f] = v]

\* One value serves all columns: lookups compare within a column only.
KODoc == Evid("koreader_doc_hash", "x")
MoonKey == Evid("moon_key", "x")
ISBN == Evid("isbn13", "x")
Calibre == [ISBN EXCEPT !["calibre_id"] = "x", !["title"] = "x",
                        !["author_sort"] = "x"]

Ev(evidence, source, percent, locator, status) ==
  [evidence |-> evidence, source |-> source, dated |-> source # "koreader",
   percent |-> percent, pages |-> Nil, locator |-> locator,
   status |-> status]

\* What the adapters' translations produce: KOReader and Moon+ always with a
\* percentage and their own key; Calibre with identifiers, at times without
\* a percentage; a KOReader with an ISBN as in the tests of the pipeline.
MCInput ==
  {Ev(KODoc, "koreader", 101, "koreader_xpointer", "finished"),
   Ev(KODoc, "koreader", 150, "percent", "finished"),
   Ev(MoonKey, "moon", 30, "moon_position", "reading"),
   Ev(ISBN, "koreader", 80, "percent", "reading"),
   Ev(ISBN, "koreader", 50, "percent", "reading"),
   Ev(ISBN, "koreader", 90, "koreader_xpointer", "reading"),
   Ev(Calibre, "calibre", 20, "percent", "abandoned"),
   Ev(Calibre, "calibre", Nil, "", "reading")}

\* Normalizing is stable, the similarity a symmetric fraction of one, and its
\* pairing of characters never runs out of the string.
ASSUME TextsMatch ==
  /\ NormalizeIsStable(3)
  /\ MatchesPairOff(4)
  /\ SimilarityIsFraction(4)
  /\ SimilarityIsSymmetric(4)

\* The winner of a conflict does not depend on the order in which events are
\* compared, unless two that differ are tied in source rank and time.
ASSUME WinnerIsBest ==
  LET Candidate == [source : {"calibre", "koreader", "moon", "unheard of"},
                    deviceTS : {Nil, 1, 2}, receivedAt : {1, 2}]
      tied(a, b) == /\ Precedence(a.source) = Precedence(b.source)
                    /\ effectiveTime(a) = effectiveTime(b) IN
  \A a, b \in Candidate :
    /\ ChooseWinner(a, b) = ChooseWinner(b, a) <=> (a = b \/ ~tied(a, b))
    /\ \A c \in Candidate :
         ~(tied(a, b) \/ tied(b, c) \/ tied(a, c)) =>
           ChooseWinner(ChooseWinner(a, b), c) = ChooseWinner(a, ChooseWinner(b, c))
=============================================================================
