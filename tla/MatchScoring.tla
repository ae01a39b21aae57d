----------------------------- MODULE MatchScoring -----------------------------
(***************************************************************************)
(* How the AI service scores a candidate, and what the detail page compares *)
(* (matching_scoring.py, match_detail.py).  A field of a manuscript or a    *)
(* publisher is the set of its words (a field that has a value has one); a  *)
(* score is in ten-thousandths, cut where the code rounds to four decimals. *)
(***************************************************************************)
EXTENDS Integers, Sequences, FiniteSets, FiniteSetsExt

Axes == {"premise", "voice", "arc"}

IsManuscript(t) == "pitch" \in DOMAIN t

\* The words of a text on an axis, whichever side it is of.
AxisWords(t, axis) ==
    LET fields == IF IsManuscript(t)
                  THEN CASE axis = "premise" -> {"genre", "subgenres", "audience", "form", "pitch"}
                         [] axis = "voice"   -> {"themes"}
                         [] axis = "arc"     -> {"arc"}
                  ELSE CASE axis = "premise" -> {"genre", "audience", "form", "guidelines"}
                         [] axis = "voice"   -> {"tone", "looking"}
                         [] axis = "arc"     -> {"wishlist", "catalog", "guidelines"}
    IN  UNION {t[f] : f \in fields}

Bounded(x) == IF x < 0 THEN 0 ELSE IF x > 10000 THEN 10000 ELSE x

\* overlap_score
Overlap(left, right) ==
    IF left = {} \/ right = {} THEN 4000
    ELSE 4500 + (10000 * Cardinality(left \cap right))
                    \div (IF Cardinality(left) > Cardinality(right)
                          THEN Cardinality(left) ELSE Cardinality(right))

NoHint == -1

\* weighted_axis_score and the jitter of the run.
AxisScore(source, candidate, axis, hint, jitter) ==
    LET lexical == Overlap(AxisWords(source, axis), AxisWords(candidate, axis))
    IN  Bounded(jitter + IF hint = NoHint THEN lexical
                         ELSE (lexical * 35 + Bounded(hint) * 65) \div 100)

\* Both sides declare something, and nothing in common.
Gap(left, right) == left # {} /\ right # {} /\ left \cap right = {}

\* Of a source only the keys that a manuscript has are compared: a publisher that
\* looks for manuscripts declares nothing.
Declared(source, field) == IF IsManuscript(source) THEN source[field] ELSE {}

\* Mutant: excluded topics are forgotten.
GapsOnly(source, candidate) ==
    {f \in {"genre", "audience", "form"} : Gap(Declared(source, f), candidate[f])}

\* build_penalties: the watch-outs of a candidate.
Penalties(source, candidate) ==
    {f \in {"genre", "audience", "form"} : Gap(Declared(source, f), candidate[f])}
        \cup (IF Declared(source, "topics") \cap candidate.topics # {} THEN {"topics"} ELSE {})

\* penalty_value, by severity: low, medium and high.
PenaltyTotal(penalties) ==
    600 * Cardinality(penalties \cap {"genre", "audience"})
        + 1200 * Cardinality(penalties \cap {"form"})
        + 2000 * Cardinality(penalties \cap {"topics"})

\* score_match_candidate; hints and jitter are functions of the axis.
FinalScore(source, candidate, hints, jitter) ==
    LET Axis(a) == AxisScore(source, candidate, a, hints[a], jitter[a])
    IN  Bounded((Axis("premise") * 42 + Axis("voice") * 25 + Axis("arc") * 33) \div 100
                  - PenaltyTotal(Penalties(source, candidate)))

VisibleScoreThreshold == 3500

ScoreBand(score) ==
    IF score >= 7000 THEN "strong" ELSE IF score >= 5000 THEN "moderate" ELSE "weak"

\* distance_to_similarity, for distances in hundredths.
DistanceToSimilarity(distance) ==
    IF distance < 0 THEN 0
    ELSE IF distance <= 100 THEN 100 * (100 - distance)
    ELSE 1000000 \div (100 + distance)

\* The key of sorted: the best score first, the smaller id among equals.
Before(score, x, y) == score[x] > score[y] \/ (score[x] = score[y] /\ x < y)

Ranking(items, score) ==
    CHOOSE s \in [1..Cardinality(items) -> items] :
        \A i, j \in 1..Cardinality(items) : i < j => Before(score, s[i], s[j])

-----------------------------------------------------------------------------
\* compare_values: the rows of the detail page compare the manuscript with the
\* publisher, whichever of them is the source.
CompareValues(manuscript, publisher, field) ==
    LET left  == IF field = "genre" THEN manuscript.genre \cup manuscript.subgenres
                 ELSE manuscript[field]
        right == publisher[field]
    IN  IF left = {} \/ right = {} THEN "unknown"
        ELSE IF field = "topics" THEN IF left \cap right = {} THEN "match" ELSE "mismatch"
        ELSE IF left \cap right = {} THEN "mismatch"
        ELSE IF left \subseteq right THEN "match" ELSE "partial"

Mismatches(manuscript, publisher) ==
    {f \in {"genre", "audience", "form", "topics"} :
        CompareValues(manuscript, publisher, f) = "mismatch"}
=============================================================================
