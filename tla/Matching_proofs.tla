--------------------------- MODULE Matching_proofs ----------------------------
(***************************************************************************)
(* Theorems about matching.  First MatchSignals, the scoring thread of a   *)
(* run, for any texts, runs, edits, distances and jitters; then Discovery, *)
(* runs and access, for any authors, publishers and manuscripts, any       *)
(* number of runs, requests and decisions, both modes, any rate limit and  *)
(* any number of faults.                                                   *)
(***************************************************************************)
EXTENDS MatchSignals, Discovery, FiniteSetTheorems, FunctionTheorems, TLAPS

-----------------------------------------------------------------------------
\* The best of some numbers

Hint == Similarities \cup {NoHint}

\* Best(h, N): h is the best of the similarities N, or no hint when there are none.
Best(h, N) == h \in N \cup {NoHint} /\ \A n \in N : h >= n

LEMMA HintType == \A h \in Hint : h \in Int /\ h >= -1 /\ h <= 10000
BY DEF Hint, Similarities, NoHint

LEMMA MaxExists ==
  ASSUME NEW S \in SUBSET Hint, S # {}
  PROVE  \E x \in S : \A y \in S : x >= y
<1> DEFINE Far(z) == 10000 - z
           T == {n \in Nat : \E z \in S : n = Far(z)}
<1>1. T \subseteq Nat /\ T # {}
  <2>1. PICK z \in S : TRUE
    OBVIOUS
  <2>2. Far(z) \in T
    BY SMTT(30), <2>1 DEF Hint, Similarities, NoHint
  <2> QED
    BY <2>2
<1> HIDE DEF T
<1>2. PICK n \in T : \A m \in T : ~(<<m, n>> \in OpToRel(<, Nat))
  BY <1>1, NatLessThanWellFounded, WFMin
<1>3. \A m \in T : m >= n
  <2> SUFFICES ASSUME NEW m \in T, m < n PROVE FALSE
    BY <1>1
  <2>1. <<m, n>> \in OpToRel(<, Nat)
    BY <1>1 DEF OpToRel
  <2> QED
    BY <1>2, <2>1
<1>4. PICK x \in S : n = Far(x)
  BY DEF T
<1>5. ASSUME NEW y \in S PROVE x >= y
  <2>1. Far(y) \in T
    <3>1. Far(y) \in Nat
      BY HintType
    <3> QED
      BY <3>1 DEF T
  <2>2. Far(y) >= n
    BY <1>3, <2>1
  <2>3. x \in Int /\ y \in Int
    BY HintType
  <2> QED
    BY <1>4, <2>2, <2>3
<1> QED
  BY <1>5

LEMMA MaxIsBest ==
  ASSUME NEW S \in SUBSET Hint, S # {}
  PROVE  Max(S) \in S /\ \A y \in S : Max(S) >= y
BY MaxExists DEF Max

LEMMA BestIsMax ==
  ASSUME NEW N \in SUBSET Similarities, NEW h, Best(h, N)
  PROVE  h = Max({NoHint} \cup N)
<1> DEFINE S == {NoHint} \cup N
<1>1. S \in SUBSET Hint /\ S # {}
  BY DEF Hint
<1>2. Max(S) \in S /\ \A y \in S : Max(S) >= y
  BY <1>1, MaxIsBest
<1>3. h \in S /\ \A y \in S : h >= y
  <2>1. h \in S
    BY DEF Best
  <2>2. h >= NoHint
    BY <1>1, <2>1, HintType DEF NoHint
  <2> QED
    BY <2>1, <2>2 DEF Best
<1>4. \A y \in S : y \in Int
  BY DEF Similarities, NoHint
<1> HIDE DEF S
<1>5. h = Max(S)
  BY <1>2, <1>3, <1>4
<1> QED
  BY <1>5 DEF S

LEMMA BestHintIsBest ==
  ASSUME NEW N \in SUBSET Similarities, NEW h, Best(h, N), NEW M \in SUBSET Similarities
  PROVE  /\ BestHint(h, M) \in Hint
         /\ Best(BestHint(h, M), N \cup M)
<1> DEFINE S == M \cup {h}
<1>1. S \in SUBSET Hint /\ S # {}
  BY DEF Hint, Best
<1>2. Max(S) \in S /\ \A y \in S : Max(S) >= y
  BY <1>1, MaxIsBest
<1>3. \A y \in N \cup M \cup {h} : y \in Int
  BY DEF Best, Similarities, NoHint
<1>4. Max(S) \in Int
  BY <1>2, <1>3
<1>5. Max(S) \in N \cup M \cup {NoHint}
  BY <1>2 DEF Best
<1>6. \A n \in N : Max(S) >= n
  <2> SUFFICES ASSUME NEW n \in N PROVE Max(S) >= n
    OBVIOUS
  <2>1. h >= n /\ Max(S) >= h /\ n \in Int /\ h \in Int
    BY <1>2, <1>3 DEF Best
  <2> QED
    BY <1>4, <2>1
<1>7. \A n \in M : Max(S) >= n
  BY <1>2
<1> QED
  BY <1>1, <1>2, <1>5, <1>6, <1>7 DEF BestHint, Best

\* A similarity is a number from 0 to 10000, whatever the distance is.
LEMMA SimilarityType ==
  ASSUME NEW d \in Int
  PROVE  DistanceToSimilarity(d) \in Similarities
<1>1. CASE d < 0
  BY <1>1 DEF DistanceToSimilarity, Similarities
<1>2. CASE d >= 0 /\ d <= 100
  BY <1>2 DEF DistanceToSimilarity, Similarities
<1>3. CASE d > 100
  <2> DEFINE q == 1000000 \div (100 + d)
  <2>1. q \in Int /\ q >= 0 /\ q <= 10000
    BY <1>3
  <2>2. DistanceToSimilarity(d) = q
    BY <1>3 DEF DistanceToSimilarity
  <2> HIDE DEF q
  <2> QED
    BY <2>1, <2>2 DEF Similarities
<1> QED
  BY <1>1, <1>2, <1>3

-----------------------------------------------------------------------------
\* Scores are numbers

LEMMA TextFields ==
  ASSUME NEW x \in Items, NEW v \in Versions
  PROVE  /\ x \in ManuscriptIds => DOMAIN TextOf[x][v] = ManuscriptFields /\ IsManuscript(TextOf[x][v])
         /\ x \notin ManuscriptIds => DOMAIN TextOf[x][v] = PublisherFields /\ ~IsManuscript(TextOf[x][v])
         /\ \A f \in DOMAIN TextOf[x][v] : IsFiniteSet(TextOf[x][v][f])
BY TextAssumption DEF IsManuscript, ManuscriptFields, PublisherFields, Items

LEMMA AxisWordsFinite ==
  ASSUME NEW x \in Items, NEW v \in Versions, NEW a \in Axes
  PROVE  IsFiniteSet(AxisWords(TextOf[x][v], a))
<1> DEFINE t == TextOf[x][v]
<1>1. ASSUME NEW F \in SUBSET DOMAIN t, NEW f, NEW g, NEW h, NEW i, NEW j, F = {f, g, h, i, j}
      PROVE  IsFiniteSet(UNION {t[k] : k \in F})
  <2>1. UNION {t[k] : k \in F} = t[f] \cup (t[g] \cup (t[h] \cup (t[i] \cup t[j])))
    BY <1>1
  <2>2. IsFiniteSet(t[f]) /\ IsFiniteSet(t[g]) /\ IsFiniteSet(t[h]) /\ IsFiniteSet(t[i])
        /\ IsFiniteSet(t[j])
    BY <1>1, TextFields
  <2>3. IsFiniteSet(t[i] \cup t[j])
    BY <2>2, FS_Union
  <2>4. IsFiniteSet(t[h] \cup (t[i] \cup t[j]))
    BY <2>2, <2>3, FS_Union
  <2>5. IsFiniteSet(t[g] \cup (t[h] \cup (t[i] \cup t[j])))
    BY <2>2, <2>4, FS_Union
  <2>6. IsFiniteSet(t[f] \cup (t[g] \cup (t[h] \cup (t[i] \cup t[j]))))
    BY <2>2, <2>5, FS_Union
  <2> QED
    BY <2>1, <2>6
<1>2. CASE x \in ManuscriptIds
  <2>1. DOMAIN t = ManuscriptFields /\ IsManuscript(t)
    BY <1>2, TextFields
  <2> HIDE DEF t
  <2>2. CASE a = "premise"
    <3>1. AxisWords(t, a) = UNION {t[k] : k \in {"genre", "subgenres", "audience", "form", "pitch"}}
      BY <2>1, <2>2 DEF AxisWords
    <3> QED
      BY <1>1, <2>1, <3>1 DEF ManuscriptFields, t
  <2>3. CASE a = "voice"
    <3>1. AxisWords(t, a) = UNION {t[k] : k \in {"themes"}}
      BY <2>1, <2>3 DEF AxisWords
    <3>2. {"themes"} = {"themes", "themes", "themes", "themes", "themes"}
      OBVIOUS
    <3> QED
      BY <1>1, <2>1, <3>1, <3>2 DEF ManuscriptFields, t
  <2>4. CASE a = "arc"
    <3>1. AxisWords(t, a) = UNION {t[k] : k \in {"arc"}}
      BY <2>1, <2>4 DEF AxisWords
    <3>2. {"arc"} = {"arc", "arc", "arc", "arc", "arc"}
      OBVIOUS
    <3> QED
      BY <1>1, <2>1, <3>1, <3>2 DEF ManuscriptFields, t
  <2> QED
    BY <2>2, <2>3, <2>4 DEF Axes, t
<1>3. CASE x \notin ManuscriptIds
  <2>1. DOMAIN t = PublisherFields /\ ~IsManuscript(t)
    BY <1>3, TextFields
  <2> HIDE DEF t
  <2>2. CASE a = "premise"
    <3>1. AxisWords(t, a) = UNION {t[k] : k \in {"genre", "audience", "form", "guidelines"}}
      BY <2>1, <2>2 DEF AxisWords
    <3>2. {"genre", "audience", "form", "guidelines"} = {"genre", "audience", "form", "guidelines", "guidelines"}
      OBVIOUS
    <3> QED
      BY <1>1, <2>1, <3>1, <3>2 DEF PublisherFields, t
  <2>3. CASE a = "voice"
    <3>1. AxisWords(t, a) = UNION {t[k] : k \in {"tone", "looking"}}
      BY <2>1, <2>3 DEF AxisWords
    <3>2. {"tone", "looking"} = {"tone", "looking", "looking", "looking", "looking"}
      OBVIOUS
    <3> QED
      BY <1>1, <2>1, <3>1, <3>2 DEF PublisherFields, t
  <2>4. CASE a = "arc"
    <3>1. AxisWords(t, a) = UNION {t[k] : k \in {"wishlist", "catalog", "guidelines"}}
      BY <2>1, <2>4 DEF AxisWords
    <3>2. {"wishlist", "catalog", "guidelines"}
            = {"wishlist", "catalog", "guidelines", "guidelines", "guidelines"}
      OBVIOUS
    <3> QED
      BY <1>1, <2>1, <3>1, <3>2 DEF PublisherFields, t
  <2> QED
    BY <2>2, <2>3, <2>4 DEF Axes, t
<1> QED
  BY <1>2, <1>3

LEMMA BoundedType == \A z \in Int : Bounded(z) \in Nat
BY DEF Bounded

LEMMA OverlapType ==
  ASSUME NEW left, IsFiniteSet(left), NEW right, IsFiniteSet(right)
  PROVE  Overlap(left, right) \in Int
<1> DEFINE c == Cardinality(left \cap right)
           l == Cardinality(left)
           k == Cardinality(right)
           larger == IF l > k THEN l ELSE k
<1>1. c \in Nat /\ l \in Nat /\ k \in Nat
  BY FS_Intersection, FS_CardinalityType
<1>2. CASE left # {} /\ right # {}
  <2>1. l # 0 /\ k # 0
    BY <1>2, FS_EmptySet
  <2>2. Overlap(left, right) = 4500 + ((10000 * c) \div larger)
    BY <1>2 DEF Overlap
  <2> HIDE DEF c, l, k
  <2>3. larger \in Nat /\ larger > 0
    BY <1>1, <2>1
  <2> HIDE DEF larger
  <2>4. (10000 * c) \in Int
    BY <1>1
  <2>5. (10000 * c) \div larger \in Int
    BY <2>3, <2>4
  <2> QED
    BY <2>2, <2>5
<1> QED
  BY <1>2 DEF Overlap

LEMMA AxisScoreType ==
  ASSUME NEW x \in Items, NEW v \in Versions, NEW y \in Items, NEW w \in Versions, NEW a \in Axes,
         NEW hint \in Hint, NEW jitter \in Nat
  PROVE  AxisScore(TextOf[x][v], TextOf[y][w], a, hint, jitter) \in Nat
<1> DEFINE lexical == Overlap(AxisWords(TextOf[x][v], a), AxisWords(TextOf[y][w], a))
<1>1. lexical \in Int
  BY AxisWordsFinite, OverlapType
<1>2. Bounded(hint) \in Nat
  BY BoundedType, HintType
<1> DEFINE sum == jitter + IF hint = NoHint THEN lexical
                           ELSE (lexical * 35 + Bounded(hint) * 65) \div 100
<1>3. AxisScore(TextOf[x][v], TextOf[y][w], a, hint, jitter) = Bounded(sum)
  BY DEF AxisScore
<1> HIDE DEF lexical
<1>4. sum \in Int
  BY <1>1, <1>2
<1> QED
  BY <1>3, <1>4, BoundedType

LEMMA FinalScoreType ==
  ASSUME NEW x \in Items, NEW v \in Versions, NEW y \in Items, NEW w \in Versions,
         NEW hints \in [Axes -> Hint], NEW jitter \in [Axes -> Nat]
  PROVE  FinalScore(TextOf[x][v], TextOf[y][w], hints, jitter) \in Int
<1> DEFINE A(a) == AxisScore(TextOf[x][v], TextOf[y][w], a, hints[a], jitter[a])
           p == Penalties(TextOf[x][v], TextOf[y][w])
<1>1. A("premise") \in Nat /\ A("voice") \in Nat /\ A("arc") \in Nat
  <2>1. "premise" \in Axes /\ "voice" \in Axes /\ "arc" \in Axes
    BY DEF Axes
  <2> QED
    BY <2>1, AxisScoreType
<1>2. PenaltyTotal(p) \in Int
  <2> DEFINE low == p \cap {"genre", "audience"}
             medium == p \cap {"form"}
             high == p \cap {"topics"}
  <2>1. IsFiniteSet({"genre", "audience"}) /\ IsFiniteSet({"form"}) /\ IsFiniteSet({"topics"})
    <3>1. {"genre", "audience"} = {"genre"} \cup {"audience"}
      OBVIOUS
    <3>2. IsFiniteSet({"genre"}) /\ IsFiniteSet({"audience"}) /\ IsFiniteSet({"form"})
          /\ IsFiniteSet({"topics"})
      BY FS_Singleton
    <3>3. IsFiniteSet({"genre"} \cup {"audience"})
      BY <3>2, FS_Union
    <3> QED
      BY <3>1, <3>2, <3>3
  <2>2. IsFiniteSet(low) /\ IsFiniteSet(medium) /\ IsFiniteSet(high)
    BY <2>1, FS_Intersection
  <2>3. Cardinality(low) \in Nat /\ Cardinality(medium) \in Nat /\ Cardinality(high) \in Nat
    BY <2>2, FS_CardinalityType
  <2>4. PenaltyTotal(p) = 600 * Cardinality(low) + 1200 * Cardinality(medium)
                            + 2000 * Cardinality(high)
    BY DEF PenaltyTotal
  <2> HIDE DEF low, medium, high
  <2> QED
    BY <2>3, <2>4
<1> DEFINE sum == (A("premise") * 42 + A("voice") * 25 + A("arc") * 33) \div 100 - PenaltyTotal(p)
<1>3. FinalScore(TextOf[x][v], TextOf[y][w], hints, jitter) = Bounded(sum)
  BY DEF FinalScore
<1> HIDE DEF A, p
<1>4. sum \in Int
  BY <1>1, <1>2
<1> QED
  BY <1>3, <1>4, BoundedType

-----------------------------------------------------------------------------
\* The ranking that Ranking chooses is there, and has all of the items, each once.

LEMMA BeforeIsTotal ==
  ASSUME NEW S \in SUBSET Nat, NEW score, \A z \in S : score[z] \in Int, NEW x \in S, NEW y \in S
  PROVE  /\ x # y => Before(score, x, y) \/ Before(score, y, x)
         /\ ~(Before(score, x, y) /\ Before(score, y, x))
         /\ ~Before(score, x, x)
<1>1. x \in Nat /\ y \in Nat /\ score[x] \in Int /\ score[y] \in Int
  OBVIOUS
<1> QED
  BY <1>1 DEF Before

LEMMA BeforeIsTransitive ==
  ASSUME NEW S \in SUBSET Nat, NEW score, \A k \in S : score[k] \in Int, NEW x \in S, NEW y \in S, NEW z \in S,
         Before(score, x, y), Before(score, y, z)
  PROVE  Before(score, x, z)
<1>1. x \in Nat /\ y \in Nat /\ z \in Nat /\ score[x] \in Int /\ score[y] \in Int /\ score[z] \in Int
  OBVIOUS
<1> QED
  BY <1>1 DEF Before

\* The place of an item is the number of those that are not after it.
LEMMA RankingExists ==
  ASSUME NEW S \in SUBSET Nat, IsFiniteSet(S), NEW score, \A z \in S : score[z] \in Int
  PROVE  \E s \in [1..Cardinality(S) -> S] :
           \A i, j \in 1..Cardinality(S) : i < j => Before(score, s[i], s[j])
<1> DEFINE UpTo(x) == {y \in S : ~Before(score, x, y)}
           place == [x \in S |-> Cardinality(UpTo(x))]
           n == Cardinality(S)
<1>1. \A x \in S : IsFiniteSet(UpTo(x)) /\ Cardinality(UpTo(x)) \in Nat
                   /\ Cardinality(UpTo(x)) <= n
  BY FS_Subset, FS_CardinalityType
<1>2. n \in Nat
  BY FS_CardinalityType
<1>3. ASSUME NEW x \in S PROVE Cardinality(UpTo(x)) # 0
  <2>1. x \in UpTo(x)
    BY BeforeIsTotal
  <2> QED
    BY <1>1, <2>1, FS_EmptySet
<1>4. place \in [S -> 1..n]
  BY <1>1, <1>2, <1>3
<1>5. ASSUME NEW x \in S, NEW y \in S, Before(score, x, y)
      PROVE  place[x] < place[y]
  <2>1. ASSUME NEW z \in S, ~Before(score, x, z) PROVE ~Before(score, y, z)
    BY <1>5, <2>1, BeforeIsTransitive
  <2>2. UpTo(x) \subseteq UpTo(y)
    BY <2>1
  <2>3. y \in UpTo(y) /\ y \notin UpTo(x)
    BY <1>5, BeforeIsTotal
  <2>4. Cardinality(UpTo(x)) <= Cardinality(UpTo(y))
        /\ Cardinality(UpTo(x)) # Cardinality(UpTo(y))
    BY <1>1, <2>2, <2>3, FS_Subset
  <2>5. Cardinality(UpTo(x)) \in Nat /\ Cardinality(UpTo(y)) \in Nat
    BY <1>1
  <2>6. Cardinality(UpTo(x)) < Cardinality(UpTo(y))
    BY <2>4, <2>5
  <2> QED
    BY <2>6
<1>6. place \in Injection(S, 1..n)
  <2>1. ASSUME NEW x \in S, NEW y \in S, place[x] = place[y] PROVE x = y
    <3>1. place[x] \in Nat /\ place[y] \in Nat
      BY <1>2, <1>4
    <3>2. ~Before(score, x, y) /\ ~Before(score, y, x)
      <4>1. Before(score, x, y) => place[x] < place[y]
        BY <1>5
      <4>2. Before(score, y, x) => place[y] < place[x]
        BY <1>5
      <4> HIDE DEF place
      <4> QED
        BY <2>1, <3>1, <4>1, <4>2
    <3> QED
      BY <3>2, BeforeIsTotal
  <2> QED
    BY <1>4, <2>1, Fun_IsInj
<1> HIDE DEF place
<1>7. IsFiniteSet(1..n) /\ Cardinality(1..n) = n
  BY <1>2, FS_Interval
<1>8. place \in Surjection(S, 1..n)
  BY <1>6, <1>7, FS_Injection
<1>9. \A i \in 1..n : \E x \in S : place[x] = i
  BY <1>8, Fun_SurjectionProperties
<1> DEFINE s == [i \in 1..n |-> CHOOSE x \in S : place[x] = i]
<1>10. \A i \in 1..n : s[i] \in S /\ place[s[i]] = i
  BY <1>9
<1>11. s \in [1..n -> S] /\ DOMAIN s = 1..n
  BY <1>10
<1> HIDE DEF s
<1>12. ASSUME NEW i \in 1..n, NEW j \in 1..n, i < j PROVE Before(score, s[i], s[j])
  <2>1. s[i] \in S /\ s[j] \in S /\ place[s[i]] = i /\ place[s[j]] = j
    BY <1>10
  <2>2. ~Before(score, s[j], s[i])
    <3>1. Before(score, s[j], s[i]) => place[s[j]] < place[s[i]]
      BY <1>5, <2>1
    <3> QED
      BY <1>2, <1>12, <2>1, <3>1
  <2>3. s[i] # s[j]
    BY <1>2, <1>12, <2>1
  <2> QED
    BY <2>1, <2>2, <2>3, BeforeIsTotal
<1> QED
  BY <1>11, <1>12

LEMMA RankingFacts ==
  ASSUME NEW S \in SUBSET Nat, IsFiniteSet(S), NEW score, \A z \in S : score[z] \in Int
  PROVE  LET n == Cardinality(S)
             s == Ranking(S, score)
         IN  /\ n \in Nat /\ s \in [1..n -> S]
             /\ \A i, j \in 1..n : i < j => Before(score, s[i], s[j])
             /\ \A x \in S : \E i \in 1..n : s[i] = x
<1> DEFINE n == Cardinality(S)
           s == Ranking(S, score)
<1>1. s \in [1..n -> S] /\ \A i, j \in 1..n : i < j => Before(score, s[i], s[j])
  BY RankingExists DEF Ranking
<1> HIDE DEF s
<1>2. n \in Nat /\ IsFiniteSet(1..n) /\ Cardinality(1..n) = n
  <2>1. n \in Nat
    BY FS_CardinalityType
  <2> HIDE DEF n
  <2> QED
    BY <2>1, FS_Interval
<1>3. s \in Injection(1..n, S)
  <2>1. ASSUME NEW i \in 1..n, NEW j \in 1..n, s[i] = s[j] PROVE i = j
    <3>1. i \in Nat /\ j \in Nat
      BY <1>2
    <3>2. s[i] \in S /\ s[j] \in S
      BY <1>1
    <3>3. ~Before(score, s[i], s[j]) /\ ~Before(score, s[j], s[i])
      BY <2>1, <3>2, BeforeIsTotal
    <3> QED
      BY <1>1, <3>1, <3>3
  <2> QED
    BY <1>1, <2>1, Fun_IsInj
<1>4. s \in Surjection(1..n, S)
  BY <1>2, <1>3, FS_Injection
<1> HIDE DEF n
<1>5. \A x \in S : \E i \in 1..n : s[i] = x
  BY <1>4 DEF Surjection
<1> QED
  BY <1>1, <1>2, <1>5 DEF n, s

-----------------------------------------------------------------------------
\* Types

LEMMA SignalNames ==
  /\ \A x \in Items : SignalTypes(x) \subseteq Signals
  /\ Signals \subseteq {"premise", "voice", "arc", "guidelines", "wishlist", "catalog"}
BY DEF Signals, SignalTypes

LEMMA SummaryIsOne ==
  ASSUME NEW x \in Items, NEW v \in Versions, NEW s \in SignalTypes(x)
  PROVE  Summary(TextOf[x][v], s) \in Summaries /\ VectorOf(x, s, TextOf[x][v]) \in Vector
<1>1. Summary(TextOf[x][v], s) \in Summaries
  <2> DEFINE A(y, w) == {Summary(TextOf[y][w], t) : t \in SignalTypes(y)}
  <2>1. Summary(TextOf[x][v], s) \in A(x, v)
    OBVIOUS
  <2>2. Summaries = UNION {A(y, w) : y \in Items, w \in Versions}
    BY DEF Summaries
  <2> HIDE DEF A
  <2>3. A(x, v) \in {A(y, w) : y \in Items, w \in Versions}
    OBVIOUS
  <2> QED
    BY <2>1, <2>2, <2>3
<1> QED
  BY <1>1, SignalNames DEF VectorOf, Vector

LEMMA SignalTypeInit == SignalInit => SignalTypeOK
<1> SUFFICES ASSUME SignalInit PROVE SignalTypeOK
  OBVIOUS
<1>0. 0 \in Versions
  BY SignalAssumption DEF Versions
<1>1. version \in [Items -> Versions] /\ index \subseteq Vector /\ matches \in [Runs -> Seq(MatchRow)]
  BY <1>0, SignalAssumption DEF SignalInit
<1>2. ASSUME NEW x \in Items, NEW s \in Signals
      PROVE  rows[x][s] \in Row /\ rows[x][s].status # "missing_optional"
  <2> DEFINE v == VectorOf(x, s, TextOf[x][0])
  <2>1. rows[x][s] = IF s \in SignalTypes(x) /\ v \in Indexed
                     THEN [status |-> "current", summary |-> v.summary] ELSE NoRow
    BY DEF SignalInit
  <2>2. v \in Indexed => v.summary \in Summaries
    BY SignalAssumption DEF Vector
  <2> HIDE DEF v
  <2> QED
    BY <2>1, <2>2 DEF Row, NoRow
<1>3. rows \in [Items -> [Signals -> Row]]
  <2>1. rows = [x \in Items |-> [s \in Signals |-> rows[x][s]]]
    BY DEF SignalInit
  <2> QED
    BY <1>2, <2>1
<1>4. run \in [Runs -> Thread]
  <2> SUFFICES ASSUME NEW r \in Runs PROVE NoThread \in Thread
    BY DEF SignalInit
  <2>1. (CHOOSE x \in Items : TRUE) \in Items
    BY SignalAssumption
  <2>2. NoHints \in [Items -> [Axes -> Similarities \cup {NoHint}]]
    BY DEF NoHints
  <2> QED
    BY <1>0, <2>1, <2>2 DEF NoThread, Thread
<1> QED
  BY <1>1, <1>2, <1>3, <1>4 DEF SignalTypeOK

\* The part of the invariant about rows is left alone by a step that writes no row.
RowsTyped ==
    /\ rows \in [Items -> [Signals -> Row]]
    /\ \A x \in Items, s \in Required \cap Signals : rows[x][s].status # "missing_optional"

LEMMA ThreadFacts ==
  ASSUME SignalTypeOK, NEW r \in Runs
  PROVE  /\ run[r] \in Thread /\ run[r].item \in Items
         /\ run[r].seen \in [Items -> Versions]
         /\ run[r].asking \subseteq Signals /\ run[r].left \subseteq Items
         /\ run[r].answers \subseteq Items \X Axes \X Similarities
         /\ run[r].hints \in [Items -> [Axes -> Hint]]
         /\ SourceOf[r] \in Items
         /\ run = [q \in Runs |-> run[q]]
<1>1. run[r] \in Thread
  BY DEF SignalTypeOK
<1>2. /\ run[r].item \in Items /\ run[r].seen \in [Items -> Versions]
      /\ run[r].asking \in SUBSET Signals /\ run[r].left \in SUBSET Items
      /\ run[r].answers \in SUBSET (Items \X Axes \X Similarities)
      /\ run[r].hints \in [Items -> [Axes -> Similarities \cup {NoHint}]]
  BY <1>1 DEF Thread
<1>3. SourceOf[r] \in Items
  BY SignalAssumption
<1>4. run = [q \in Runs |-> run[q]]
  BY DEF SignalTypeOK
<1> QED
  BY <1>1, <1>2, <1>3, <1>4 DEF Hint

LEMMA CandidatesAreItems == \A r \in Runs : Candidates(r) \subseteq Items
BY DEF Candidates, Items

LEMMA GoTypes ==
  ASSUME SignalTypeOK, NEW r \in Runs, NEW pc, Go(r, pc),
         pc \in {"load", "embed", "persist", "list", "retrieve", "rank", "succeeded", "failed"}
  PROVE  run' \in [Runs -> Thread]
<1>1. [run[r] EXCEPT !.pc = pc] \in Thread
  BY ThreadFacts DEF Thread
<1>2. run' = [run EXCEPT ![r] = [run[r] EXCEPT !.pc = pc]]
  BY DEF Go
<1> QED
  BY <1>1, <1>2 DEF SignalTypeOK

LEMMA LoadTypes ==
  ASSUME SignalTypeOK, NEW r \in Runs, LoadSource(r)
  PROVE  SignalTypeOK'
<1> DEFINE s == SourceOf[r]
           wanted == {t \in SignalTypes(s) : Summary(TextOf[s][version[s]], t) # {}}
<1>1. s \in Items /\ version[s] \in Versions /\ run[r] \in Thread /\ run[r].seen \in [Items -> Versions]
  BY ThreadFacts DEF SignalTypeOK
<1>2. wanted \in SUBSET Signals
  BY <1>1, SignalNames
<1>3. run' = [run EXCEPT ![r].pc = "embed", ![r].item = s, ![r].seen[s] = version[s],
                         ![r].asking = wanted]
  BY DEF LoadSource
<1> HIDE DEF wanted, s
<1>4. [run[r].seen EXCEPT ![s] = version[s]] \in [Items -> Versions]
  BY <1>1
<1>5. run'[r] = [run[r] EXCEPT !.pc = "embed", !.item = s, !.seen = [run[r].seen EXCEPT ![s] = version[s]],
                               !.asking = wanted]
  BY <1>3 DEF SignalTypeOK, Thread
<1>6. run'[r] \in Thread
  BY <1>1, <1>2, <1>4, <1>5 DEF Thread
<1>7. run' \in [Runs -> Thread]
  BY <1>3, <1>6 DEF SignalTypeOK
<1> QED
  BY <1>7 DEF LoadSource, SignalTypeOK

LEMMA EmbedTypes ==
  ASSUME SignalTypeOK, NEW r \in Runs, NEW signals, EmbedSignals(r, signals)
  PROVE  SignalTypeOK'
<1> DEFINE x == run[r].item
<1>1. x \in Items /\ run[r].seen[x] \in Versions
  BY ThreadFacts
<1>2. signals \subseteq SignalTypes(x)
  BY DEF EmbedSignals, WithText
<1>3. \A s \in signals : VectorOf(x, s, Text(r, x)) \in Vector
  BY <1>1, <1>2, SummaryIsOne DEF Text
<1>4. index' \subseteq Vector
  BY <1>3 DEF EmbedSignals, SignalTypeOK
<1>5. run' \in [Runs -> Thread]
  BY GoTypes DEF EmbedSignals
<1> QED
  BY <1>4, <1>5 DEF EmbedSignals, SignalTypeOK

LEMMA PersistTypes ==
  ASSUME SignalTypeOK, NEW r \in Runs, NEW signals, PersistSignals(r, signals)
  PROVE  SignalTypeOK'
<1> DEFINE x == run[r].item
           t == Text(r, x)
           NewRow(s) == [status  |-> IF Summary(t, s) = {} THEN "missing_optional" ELSE "current",
                         summary |-> Summary(t, s)]
<1>1. x \in Items /\ run[r].seen[x] \in Versions
  BY ThreadFacts
<1>2. signals \subseteq SignalTypes(x) \ Missing(r, x)
  BY DEF PersistSignals
<1>3. rows' = [rows EXCEPT ![x] = [s \in Signals |-> IF s \notin signals THEN @[s] ELSE NewRow(s)]]
  BY DEF PersistSignals, RowsWith
<1>4. ASSUME NEW s \in signals
      PROVE  NewRow(s) \in Row /\ (s \in Required => NewRow(s).status # "missing_optional")
  <2>1. Summary(t, s) \in Summaries
    BY <1>1, <1>2, SummaryIsOne DEF Text
  <2>2. NewRow(s) \in Row
    BY <2>1 DEF Row
  <2>3. s \in Required => Summary(t, s) # {}
    BY <1>2 DEF Missing, WithText
  <2> QED
    BY <2>2, <2>3
<1> HIDE DEF NewRow
<1>5. RowsTyped'
  <2>1. rows \in [Items -> [Signals -> Row]]
    BY DEF SignalTypeOK
  <2>2. rows' \in [Items -> [Signals -> Row]]
    BY <1>1, <1>3, <1>4, <2>1
  <2>3. ASSUME NEW y \in Items, NEW s \in Required \cap Signals
        PROVE  rows'[y][s].status # "missing_optional"
    <3>1. rows[y][s].status # "missing_optional"
      BY DEF SignalTypeOK
    <3> QED
      BY <1>1, <1>3, <1>4, <2>1, <3>1
  <2> QED
    BY <2>2, <2>3 DEF RowsTyped
<1>6. run' \in [Runs -> Thread]
  BY GoTypes DEF PersistSignals
<1> QED
  BY <1>5, <1>6 DEF PersistSignals, SignalTypeOK, RowsTyped

LEMMA ListTypes ==
  ASSUME SignalTypeOK, NEW r \in Runs, ListCandidates(r)
  PROVE  SignalTypeOK'
<1> DEFINE seen == [x \in Items |-> IF x \in Candidates(r) THEN version[x] ELSE run[r].seen[x]]
<1>1. seen \in [Items -> Versions]
  BY ThreadFacts DEF SignalTypeOK
<1>2. run' = [run EXCEPT ![r].pc = "retrieve", ![r].seen = seen]
  BY ThreadFacts DEF ListCandidates
<1> HIDE DEF seen
<1>3. [run[r] EXCEPT !.pc = "retrieve", !.seen = seen] \in Thread
  BY <1>1, ThreadFacts DEF Thread
<1>4. run' = [run EXCEPT ![r] = [run[r] EXCEPT !.pc = "retrieve", !.seen = seen]]
  BY <1>2
<1>5. run' \in [Runs -> Thread]
  BY <1>3, <1>4 DEF SignalTypeOK
<1> QED
  BY <1>5 DEF ListCandidates, SignalTypeOK

\* What Retrieve does: SimilaritiesOf are the answers about an id.
SimilaritiesOf(distance, x) ==
    {DistanceToSimilarity(distance[v]) : v \in {w \in DOMAIN distance : w.item = x}}

LEMMA BestHintType ==
  ASSUME NEW h \in Hint, NEW M \in SUBSET Similarities
  PROVE  BestHint(h, M) \in Hint
<1>1. M \cup {h} \in SUBSET Hint /\ M \cup {h} # {}
  BY DEF Hint
<1> QED
  BY <1>1, MaxIsBest DEF BestHint

AnswersWith(r, axis, distance) ==
    run[r].answers \cup UNION {{<<x, axis, s>> : s \in SimilaritiesOf(distance, x)} : x \in Items}

HintsWith(r, axis, distance) ==
    [x \in Items |-> [run[r].hints[x] EXCEPT ![axis] = BestHint(@, SimilaritiesOf(distance, x))]]

\* The thread after the query.
Asked(r, signal, distance) ==
    [run[r] EXCEPT !.asking = run[r].asking \ {signal},
                   !.answers = AnswersWith(r, ScoringAxis(signal), distance),
                   !.hints = HintsWith(r, ScoringAxis(signal), distance)]

LEMMA RetrieveFacts ==
  ASSUME SignalTypeOK, NEW r \in Runs, NEW signal, NEW distance,
         \A v \in DOMAIN distance : distance[v] \in Distances, Retrieve(r, signal, distance)
  PROVE  /\ ScoringAxis(signal) \in Axes
         /\ \A x \in Items : SimilaritiesOf(distance, x) \in SUBSET Similarities
         /\ run' = [run EXCEPT ![r] = Asked(r, signal, distance)]
         /\ run[r].pc = "retrieve" /\ UNCHANGED <<version, index, rows, matches>>
<1> DEFINE axis == ScoringAxis(signal)
<1>1. signal \in Signals
  BY ThreadFacts DEF Retrieve, NextAsked
<1>2. axis \in Axes
  BY <1>1, SignalNames DEF ScoringAxis, Axes
<1>3. ASSUME NEW x \in Items PROVE SimilaritiesOf(distance, x) \in SUBSET Similarities
  <2>1. \A v \in DOMAIN distance : distance[v] \in Int
    BY SignalAssumption
  <2> QED
    BY <2>1, SimilarityType DEF SimilaritiesOf
<1>4. run' = [run EXCEPT
             ![r].asking = run[r].asking \ {signal},
             ![r].answers = AnswersWith(r, axis, distance),
             ![r].hints = HintsWith(r, axis, distance)]
  <2>1. run' = [run EXCEPT
             ![r].asking = @ \ {signal},
             ![r].answers = @ \cup UNION {{<<x, axis, s>> : s \in SimilaritiesOf(distance, x)} : x \in Items},
             ![r].hints = [x \in Items |-> [run[r].hints[x] EXCEPT
                                                ![axis] = BestHint(@, SimilaritiesOf(distance, x))]]]
    BY DEF Retrieve, SimilaritiesOf
  <2> HIDE DEF axis
  <2>2. run' = [run EXCEPT ![r].asking = @ \ {signal},
             ![r].answers = @ \cup UNION {{<<x, axis, s>> : s \in SimilaritiesOf(distance, x)} : x \in Items},
             ![r].hints = HintsWith(r, axis, distance)]
    BY <2>1 DEF HintsWith
  <2>3. run \in [Runs -> Thread]
    BY DEF SignalTypeOK
  <2> QED
    BY <2>2, <2>3 DEF AnswersWith, Thread
<1> HIDE DEF axis
<1>5. run' = [run EXCEPT ![r] = [run[r] EXCEPT
                  !.asking = run[r].asking \ {signal},
                  !.answers = AnswersWith(r, axis, distance),
                  !.hints = HintsWith(r, axis, distance)]]
  BY <1>4, ThreadFacts DEF Thread
<1> QED
  BY <1>2, <1>3, <1>5 DEF Retrieve, Asked, axis

LEMMA HintsWithFacts ==
  ASSUME SignalTypeOK, NEW r \in Runs, NEW axis \in Axes, NEW distance, NEW x \in Items,
         SimilaritiesOf(distance, x) \in SUBSET Similarities
  PROVE  /\ HintsWith(r, axis, distance)[x] \in [Axes -> Hint]
         /\ \A a \in Axes : HintsWith(r, axis, distance)[x][a] =
              IF a = axis THEN BestHint(run[r].hints[x][a], SimilaritiesOf(distance, x))
              ELSE run[r].hints[x][a]
<1>1. run[r].hints[x] \in [Axes -> Hint]
  BY ThreadFacts
<1>2. BestHint(run[r].hints[x][axis], SimilaritiesOf(distance, x)) \in Hint
  BY <1>1, BestHintType
<1>3. HintsWith(r, axis, distance)[x] =
        [run[r].hints[x] EXCEPT ![axis] = BestHint(run[r].hints[x][axis], SimilaritiesOf(distance, x))]
  BY <1>1 DEF HintsWith
<1> QED
  BY <1>1, <1>2, <1>3

LEMMA RetrieveTypes ==
  ASSUME SignalTypeOK, NEW r \in Runs, NEW signal, NEW distance,
         \A v \in DOMAIN distance : distance[v] \in Distances, Retrieve(r, signal, distance)
  PROVE  SignalTypeOK'
<1> DEFINE axis == ScoringAxis(signal)
           answers == AnswersWith(r, axis, distance)
           hints == HintsWith(r, axis, distance)
           after == Asked(r, signal, distance)
<1>1. /\ axis \in Axes /\ \A x \in Items : SimilaritiesOf(distance, x) \in SUBSET Similarities
      /\ run' = [run EXCEPT ![r] = after]
      /\ UNCHANGED <<version, index, rows, matches>>
  BY RetrieveFacts
<1>a. after = [run[r] EXCEPT !.asking = run[r].asking \ {signal},
                             !.answers = answers, !.hints = hints]
  BY DEF Asked
<1> HIDE DEF axis, after
<1>2. answers \in SUBSET (Items \X Axes \X Similarities)
  <2>1. \A x \in Items : {<<x, axis, s>> : s \in SimilaritiesOf(distance, x)}
                           \subseteq Items \X Axes \X Similarities
    BY <1>1
  <2> QED
    BY <2>1, ThreadFacts DEF AnswersWith
<1>3. hints \in [Items -> [Axes -> Similarities \cup {NoHint}]]
  <2>1. \A x \in Items : hints[x] \in [Axes -> Hint]
    BY <1>1, HintsWithFacts
  <2>2. hints = [x \in Items |-> hints[x]]
    BY DEF HintsWith
  <2> HIDE DEF hints
  <2> QED
    BY <2>1, <2>2 DEF Hint
<1> HIDE DEF answers, hints
<1>4. after \in Thread
  BY <1>a, <1>2, <1>3, ThreadFacts DEF Thread
<1>5. run' \in [Runs -> Thread]
  BY <1>1, <1>4 DEF SignalTypeOK
<1> QED
  BY <1>1, <1>5 DEF SignalTypeOK

LEMMA StartTypes ==
  ASSUME SignalTypeOK, NEW r \in Runs, StartRanking(r)
  PROVE  SignalTypeOK'
<1>1. Found(r) \in SUBSET Items
  BY CandidatesAreItems DEF Found
<1>2. [run[r] EXCEPT !.pc = "rank", !.left = Found(r)] \in Thread
  BY <1>1, ThreadFacts DEF Thread
<1>3. run' = [run EXCEPT ![r] = [run[r] EXCEPT !.pc = "rank", !.left = Found(r)]]
  BY DEF StartRanking
<1>4. run' \in [Runs -> Thread]
  BY <1>2, <1>3 DEF SignalTypeOK
<1> QED
  BY <1>4 DEF StartRanking, SignalTypeOK

LEMMA SyncTypes ==
  ASSUME SignalTypeOK, NEW r \in Runs, NEW x, SyncCandidate(r, x)
  PROVE  SignalTypeOK'
<1> DEFINE after == [run[r] EXCEPT !.pc = "embed", !.item = x, !.left = run[r].left \ {x}]
<1>1. x \in Items
  BY ThreadFacts DEF SyncCandidate
<1>2. after \in Thread
  BY <1>1, ThreadFacts DEF Thread
<1>3. run' = [run EXCEPT ![r] = after]
  BY DEF SyncCandidate
<1> HIDE DEF after
<1>4. run' \in [Runs -> Thread]
  BY <1>2, <1>3 DEF SignalTypeOK
<1> QED
  BY <1>4 DEF SyncCandidate, SignalTypeOK

LEMMA EndAndEditTypes ==
  /\ \A r \in Runs : SignalTypeOK /\ CatchError(r) => SignalTypeOK'
  /\ \A x \in Edited : SignalTypeOK /\ Edit(x) => SignalTypeOK'
<1>1. ASSUME NEW r \in Runs, SignalTypeOK, CatchError(r) PROVE SignalTypeOK'
  <2>1. run' \in [Runs -> Thread]
    BY <1>1, GoTypes DEF CatchError
  <2> QED
    BY <1>1, <2>1 DEF CatchError, SignalTypeOK
<1>2. ASSUME NEW x \in Edited, SignalTypeOK, Edit(x) PROVE SignalTypeOK'
  <2>1. version' \in [Items -> Versions]
    BY <1>2, SignalAssumption DEF Edit, SignalTypeOK, Versions
  <2> QED
    BY <1>2, <2>1 DEF Edit, SignalTypeOK
<1> QED
  BY <1>1, <1>2

-----------------------------------------------------------------------------
\* What a run stores

LEMMA MinOfTwo ==
  ASSUME NEW a \in Nat, NEW b \in Nat
  PROVE  Min({a, b}) = IF a <= b THEN a ELSE b
<1>1. \E x \in {a, b} : \A y \in {a, b} : x =< y
  <2>1. CASE a <= b
    BY <2>1
  <2>2. CASE b <= a
    BY <2>2
  <2> QED
    BY <2>1, <2>2
<1>2. Min({a, b}) \in {a, b} /\ \A y \in {a, b} : Min({a, b}) =< y
  BY <1>1 DEF Min
<1> QED
  BY <1>2

\* The scores and the list that StoreMatches computes.
Scores(r) == [x \in Found(r) |-> Score(r, x, run[r].hints[x])]

Visible(r) == {x \in Found(r) : Scores(r)[x] >= VisibleScoreThreshold}

Stored(r) ==
    LET ranked == Ranking(Visible(r), Scores(r))
    IN  IF Len(ranked) > MaxStored THEN SubSeq(ranked, 1, MaxStored) ELSE ranked

LEMMA ScoresAreNumbers ==
  ASSUME SignalTypeOK, NEW r \in Runs
  PROVE  /\ Found(r) \in SUBSET Items /\ Scores(r) \in [Found(r) -> Int]
         /\ Visible(r) \in SUBSET Nat /\ Visible(r) \subseteq Found(r) /\ IsFiniteSet(Visible(r))
<1>1. Found(r) \in SUBSET Items
  BY CandidatesAreItems DEF Found
<1>2. ASSUME NEW x \in Items PROVE Score(r, x, run[r].hints[x]) \in Int
  <2>1. /\ run[r].hints[x] \in [Axes -> Hint] /\ Jitter[r][x] \in [Axes -> Nat]
        /\ SourceOf[r] \in Items /\ run[r].seen[x] \in Versions
        /\ run[r].seen[SourceOf[r]] \in Versions
    BY ThreadFacts, SignalAssumption
  <2> QED
    BY <2>1, FinalScoreType DEF Score, Source, Text
<1>3. Scores(r) \in [Found(r) -> Int]
  BY <1>1, <1>2 DEF Scores
<1>4. Visible(r) \in SUBSET Items /\ Visible(r) \subseteq Found(r)
  BY <1>1 DEF Visible
<1>5. IsFiniteSet(Visible(r))
  BY <1>4, SignalAssumption, FS_Subset
<1> QED
  BY <1>1, <1>3, <1>4, <1>5, SignalAssumption

LEMMA StoredFacts ==
  ASSUME SignalTypeOK, NEW r \in Runs
  PROVE  LET n == Cardinality(Visible(r))
             stored == Stored(r)
         IN  /\ n \in Nat /\ stored \in Seq(Visible(r))
             /\ Len(stored) = Min({MaxStored, n})
             /\ \A i, j \in 1..Len(stored) : i < j => Before(Scores(r), stored[i], stored[j])
             /\ \A x \in Visible(r) : \/ \E i \in 1..Len(stored) : stored[i] = x
                                      \/ \A i \in 1..Len(stored) : Before(Scores(r), stored[i], x)
<1> DEFINE n == Cardinality(Visible(r))
           ranked == Ranking(Visible(r), Scores(r))
           stored == Stored(r)
           k == Min({MaxStored, n})
<1>1. \A x \in Visible(r) : Scores(r)[x] \in Int
  BY ScoresAreNumbers
<1>2. /\ n \in Nat /\ ranked \in [1..n -> Visible(r)]
      /\ \A i, j \in 1..n : i < j => Before(Scores(r), ranked[i], ranked[j])
      /\ \A x \in Visible(r) : \E i \in 1..n : ranked[i] = x
  BY <1>1, ScoresAreNumbers, RankingFacts
<1>3. MaxStored \in Nat
  BY SignalAssumption
<1> HIDE DEF n, ranked
<1>4. k = IF MaxStored <= n THEN MaxStored ELSE n
  BY <1>2, <1>3, MinOfTwo
<1>5. ranked \in Seq(Visible(r)) /\ Len(ranked) = n
  BY <1>2
<1>6. stored = IF n > MaxStored THEN SubSeq(ranked, 1, MaxStored) ELSE ranked
  BY <1>5 DEF Stored, ranked
<1> HIDE DEF stored, k
<1>7. stored \in Seq(Visible(r)) /\ Len(stored) = k /\ \A i \in 1..k : stored[i] = ranked[i]
  <2>1. CASE n > MaxStored
    BY <1>2, <1>3, <1>4, <1>5, <1>6, <2>1
  <2>2. CASE ~(n > MaxStored)
    BY <1>2, <1>3, <1>4, <1>5, <1>6, <2>2
  <2> QED
    BY <2>1, <2>2
<1>8. k \in Nat /\ k <= n
  BY <1>2, <1>3, <1>4
<1>9. \A i, j \in 1..k : i < j => Before(Scores(r), stored[i], stored[j])
  BY <1>2, <1>7, <1>8
<1>10. ASSUME NEW x \in Visible(r)
       PROVE  \/ \E i \in 1..k : stored[i] = x
              \/ \A i \in 1..k : Before(Scores(r), stored[i], x)
  <2>1. PICK i \in 1..n : ranked[i] = x
    BY <1>2
  <2>2. CASE i <= k
    BY <1>7, <1>8, <2>1, <2>2
  <2>3. CASE ~(i <= k)
    <3>1. \A j \in 1..k : j \in 1..n /\ j < i
      BY <1>2, <1>8, <2>1, <2>3
    <3> QED
      BY <1>2, <1>7, <2>1, <3>1
  <2> QED
    BY <2>2, <2>3
<1> QED
  BY <1>2, <1>7, <1>9, <1>10 DEF n, stored, k

LEMMA StoreFacts ==
  ASSUME SignalTypeOK, NEW r \in Runs, StoreMatches(r)
  PROVE  /\ matches' = [matches EXCEPT ![r] = [i \in 1..Len(Stored(r)) |->
                                Match(r, Stored(r)[i], Scores(r)[Stored(r)[i]])]]
         /\ run' = [run EXCEPT ![r].pc = "succeeded"]
         /\ UNCHANGED <<version, index, rows>>
<1>1. DOMAIN Stored(r) = 1..Len(Stored(r))
  BY StoredFacts
<1> QED
  BY <1>1 DEF StoreMatches, Stored, Scores, Visible, Go

LEMMA StoreTypes ==
  ASSUME SignalTypeOK, NEW r \in Runs, StoreMatches(r)
  PROVE  SignalTypeOK'
<1> DEFINE list == [i \in 1..Len(Stored(r)) |->
                      Match(r, Stored(r)[i], Scores(r)[Stored(r)[i]])]
<1>1. ASSUME NEW x \in Items, NEW score PROVE Match(r, x, score) \in MatchRow
  <2>1. ScoreBand(score) \in {"strong", "moderate", "weak"}
    BY DEF ScoreBand
  <2>2. /\ Penalties(Source(r), Text(r, x)) \in SUBSET {"genre", "audience", "form", "topics"}
        /\ Mismatches(ManuscriptIn(r, x), PublisherIn(r, x))
             \in SUBSET {"genre", "audience", "form", "topics"}
    BY DEF Penalties, Mismatches
  <2> QED
    BY <2>1, <2>2 DEF Match, MatchRow
<1>2. Len(Stored(r)) \in Nat /\ \A i \in 1..Len(Stored(r)) : Stored(r)[i] \in Items
  <2>1. Stored(r) \in Seq(Visible(r))
    BY StoredFacts
  <2> QED
    BY <2>1, ScoresAreNumbers
<1>3. list \in Seq(MatchRow)
  BY <1>1, <1>2
<1>4. matches' = [matches EXCEPT ![r] = list] /\ UNCHANGED <<version, index, rows>>
  BY StoreFacts
<1> HIDE DEF list
<1>5. run' \in [Runs -> Thread]
  BY ZenonT(40), GoTypes DEF StoreMatches
<1> QED
  BY <1>3, <1>4, <1>5 DEF SignalTypeOK

LEMMA SignalTypeStep == SignalTypeOK /\ [SignalNext]_signalVars => SignalTypeOK'
<1> SUFFICES ASSUME SignalTypeOK, [SignalNext]_signalVars PROVE SignalTypeOK'
  OBVIOUS
<1>1. CASE UNCHANGED signalVars
  BY <1>1 DEF signalVars, SignalTypeOK
<1>2. ASSUME NEW r \in Runs,
             LoadSource(r) \/ ListCandidates(r) \/ StartRanking(r) \/ StoreMatches(r) \/ CatchError(r)
      PROVE  SignalTypeOK'
  BY <1>2, LoadTypes, ListTypes, StartTypes, StoreTypes, EndAndEditTypes
<1>3. ASSUME NEW r \in Runs, NEW signals, EmbedSignals(r, signals) \/ PersistSignals(r, signals)
      PROVE  SignalTypeOK'
  BY <1>3, EmbedTypes, PersistTypes
<1>4. ASSUME NEW r \in Runs, NEW signal, NEW found, NEW distance \in [found -> Distances],
             Retrieve(r, signal, distance)
      PROVE  SignalTypeOK'
  <2>1. \A v \in DOMAIN distance : distance[v] \in Distances
    OBVIOUS
  <2> QED
    BY <1>4, <2>1, RetrieveTypes
<1>5. ASSUME NEW r \in Runs, NEW x, SyncCandidate(r, x)
      PROVE  SignalTypeOK'
  BY <1>5, SyncTypes
<1>6. ASSUME NEW x \in Edited, Edit(x) PROVE SignalTypeOK'
  BY <1>6, EndAndEditTypes
<1> QED
  BY <1>1, <1>2, <1>3, <1>4, <1>5, <1>6 DEF SignalNext

\* Types: a thread knows signals, versions, answers and hints that exist, and no row says that
\* a required signal is missing (persist_required_signals).
THEOREM SignalTypesCorrect == SignalSpec => []SignalTypeOK
<1> QED
  BY SignalTypeInit, SignalTypeStep, PTL DEF SignalSpec

-----------------------------------------------------------------------------
\* A signal that is current is indexed.

\* Between its two requests a thread has indexed all the signals it is about to store.
VectorsThere(thread, indexed) ==
    thread.pc = "persist" =>
        LET text == TextOf[thread.item][thread.seen[thread.item]]
        IN  \A s \in SignalTypes(thread.item) :
              Summary(text, s) # {} => VectorOf(thread.item, s, text) \in indexed

VectorsComeFirst == \A r \in Runs : VectorsThere(run[r], index)

LEMMA IndexedInit == SignalInit => VectorsComeFirst /\ CurrentIsIndexed
<1> SUFFICES ASSUME SignalInit PROVE VectorsComeFirst /\ CurrentIsIndexed
  OBVIOUS
<1>1. \A r \in Runs : run[r].pc = "load"
  BY DEF SignalInit, NoThread
<1>2. VectorsComeFirst
  BY <1>1 DEF VectorsComeFirst, VectorsThere
<1>3. ASSUME NEW x \in Items, NEW s \in Signals, rows[x][s].status = "current"
      PROVE  [item |-> x, signal |-> s, summary |-> rows[x][s].summary] \in index
  <2> DEFINE v == VectorOf(x, s, TextOf[x][0])
  <2>1. rows[x][s] = IF s \in SignalTypes(x) /\ v \in Indexed
                     THEN [status |-> "current", summary |-> v.summary] ELSE NoRow
    BY DEF SignalInit
  <2>2. v \in Indexed /\ rows[x][s].summary = v.summary
    BY <1>3, <2>1 DEF NoRow
  <2>3. v = [item |-> x, signal |-> s, summary |-> v.summary]
    BY DEF VectorOf
  <2> HIDE DEF v
  <2> QED
    BY <2>2, <2>3 DEF SignalInit
<1> QED
  BY <1>2, <1>3 DEF CurrentIsIndexed

\* A step that writes no row and starts no persisting.
LEMMA IndexedFrame ==
  ASSUME SignalTypeOK, VectorsComeFirst, CurrentIsIndexed, NEW r \in Runs, rows' = rows,
         index \subseteq index', \A q \in Runs \ {r} : run'[q] = run[q],
         VectorsThere(run'[r], index')
  PROVE  VectorsComeFirst' /\ CurrentIsIndexed'
<1>1. CurrentIsIndexed'
  BY DEF CurrentIsIndexed
<1>2. ASSUME NEW q \in Runs PROVE VectorsThere(run'[q], index')
  <2>1. CASE q = r
    BY <2>1
  <2>2. CASE q # r
    <3>1. VectorsThere(run[q], index) /\ run'[q] = run[q]
      BY <2>2 DEF VectorsComeFirst
    <3> QED
      BY <3>1 DEF VectorsThere
  <2> QED
    BY <2>1, <2>2
<1>3. VectorsComeFirst'
  BY <1>2 DEF VectorsComeFirst
<1> QED
  BY <1>1, <1>3

LEMMA EmbedIndexed ==
  ASSUME SignalTypeOK, VectorsComeFirst, CurrentIsIndexed, NEW r \in Runs, NEW signals,
         EmbedSignals(r, signals)
  PROVE  VectorsComeFirst' /\ CurrentIsIndexed'
<1> DEFINE x == run[r].item
           t == Text(r, x)
           V == {VectorOf(x, s, t) : s \in signals}
<1>1. /\ rows' = rows /\ index' = index \cup V
      /\ run' = [run EXCEPT ![r].pc = IF signals = WithText(r, x) THEN "persist" ELSE "failed"]
  BY DEF EmbedSignals, Go
<1>2. /\ run'[r].pc = IF signals = WithText(r, x) THEN "persist" ELSE "failed"
      /\ run'[r].item = x /\ run'[r].seen = run[r].seen
      /\ \A q \in Runs \ {r} : run'[q] = run[q]
  BY <1>1, ThreadFacts DEF Thread
<1>3. ASSUME signals = WithText(r, x), NEW s \in SignalTypes(x), Summary(t, s) # {}
      PROVE  VectorOf(x, s, t) \in index'
  <2>1. s \in signals
    BY <1>3 DEF WithText
  <2> QED
    BY <1>1, <2>1
<1>4. t = TextOf[x][run'[r].seen[x]]
  BY <1>2 DEF Text
<1> HIDE DEF x, t, V
<1>5. VectorsThere(run'[r], index')
  BY <1>2, <1>3, <1>4 DEF VectorsThere
<1> QED
  BY <1>1, <1>2, <1>5, IndexedFrame

LEMMA PersistIndexed ==
  ASSUME SignalTypeOK, VectorsComeFirst, CurrentIsIndexed, NEW r \in Runs, NEW signals,
         PersistSignals(r, signals)
  PROVE  VectorsComeFirst' /\ CurrentIsIndexed'
<1> DEFINE x == run[r].item
           t == Text(r, x)
           NewRow(s) == [status  |-> IF Summary(t, s) = {} THEN "missing_optional" ELSE "current",
                         summary |-> Summary(t, s)]
<1>1. /\ index' = index /\ run[r].pc = "persist" /\ signals \subseteq SignalTypes(x)
      /\ rows' = [rows EXCEPT ![x] = [s \in Signals |-> IF s \notin signals THEN @[s] ELSE NewRow(s)]]
  BY DEF PersistSignals, RowsWith
<1>2. \A q \in Runs : q # r => run'[q] = run[q]
  BY ThreadFacts DEF PersistSignals, Go
<1>3. run'[r].pc # "persist"
  BY ThreadFacts DEF PersistSignals, Go, Thread
<1>4. VectorsComeFirst'
  <2>1. ASSUME NEW q \in Runs PROVE VectorsThere(run'[q], index')
    <3>1. CASE q = r
      BY <1>3, <3>1 DEF VectorsThere
    <3>2. CASE q # r
      BY <1>1, <1>2, <3>2 DEF VectorsComeFirst
    <3> QED
      BY <3>1, <3>2
  <2> QED
    BY <2>1 DEF VectorsComeFirst
<1>5. ASSUME NEW s \in signals, NewRow(s).status = "current"
      PROVE  [item |-> x, signal |-> s, summary |-> NewRow(s).summary] \in index
  <2>1. Summary(t, s) # {}
    BY <1>5
  <2>2. VectorOf(x, s, t) \in index
    <3>1. VectorsThere(run[r], index)
      BY DEF VectorsComeFirst
    <3> QED
      BY ZenonT(40), <1>1, <2>1, <3>1 DEF VectorsThere, Text
  <2> QED
    BY <2>2 DEF VectorOf
<1> HIDE DEF NewRow
<1>6. CurrentIsIndexed'
  <2> SUFFICES ASSUME NEW y \in Items, NEW s \in Signals, rows'[y][s].status = "current"
               PROVE  [item |-> y, signal |-> s, summary |-> rows'[y][s].summary] \in index'
    BY DEF CurrentIsIndexed
  <2>1. rows \in [Items -> [Signals -> Row]] /\ x \in Items
    BY ThreadFacts DEF SignalTypeOK
  <2> HIDE DEF x
  <2>2. CASE y = x /\ s \in signals
    <3>1. rows'[y][s] = NewRow(s)
      BY <1>1, <2>1, <2>2
    <3> QED
      BY <1>1, <1>5, <2>2, <3>1
  <2>3. CASE ~(y = x /\ s \in signals)
    <3>1. rows'[y][s] = rows[y][s]
      BY <1>1, <2>1, <2>3
    <3> QED
      BY <1>1, <3>1 DEF CurrentIsIndexed
  <2> QED
    BY <2>2, <2>3
<1> QED
  BY <1>4, <1>6

\* The steps in which a thread goes somewhere else than to persist.
LEMMA OtherSteps ==
  ASSUME SignalTypeOK, NEW r \in Runs,
         \/ LoadSource(r) \/ ListCandidates(r) \/ StartRanking(r) \/ StoreMatches(r) \/ CatchError(r)
         \/ \E x \in run[r].left : SyncCandidate(r, x)
         \/ \E signal \in NextAsked(r) : \E found \in SUBSET Answerable(signal) :
              \E distance \in [found -> Distances] : Retrieve(r, signal, distance)
  PROVE  /\ run'[r].pc # "persist" /\ \A q \in Runs \ {r} : run'[q] = run[q]
         /\ UNCHANGED <<version, index, rows>>
<1>1. CASE LoadSource(r)
  BY <1>1, ThreadFacts DEF LoadSource, Thread
<1>2. CASE ListCandidates(r)
  BY <1>2, ThreadFacts DEF ListCandidates, Thread
<1>3. CASE StartRanking(r)
  BY <1>3, ThreadFacts DEF StartRanking, Thread
<1>4. CASE StoreMatches(r)
  <2>1. run' = [run EXCEPT ![r].pc = "succeeded"] /\ UNCHANGED <<version, index, rows>>
    BY <1>4, StoreFacts
  <2> QED
    BY <2>1, ThreadFacts DEF Thread
<1>5. CASE CatchError(r)
  BY <1>5, ThreadFacts DEF CatchError, Go, Thread
<1>6. ASSUME NEW x \in run[r].left, SyncCandidate(r, x)
      PROVE  /\ run'[r].pc # "persist" /\ \A q \in Runs \ {r} : run'[q] = run[q]
             /\ UNCHANGED <<version, index, rows>>
  BY <1>6, ThreadFacts DEF SyncCandidate, Thread
<1>7. ASSUME NEW signal, NEW found, NEW distance \in [found -> Distances], Retrieve(r, signal, distance)
      PROVE  /\ run'[r].pc # "persist" /\ \A q \in Runs \ {r} : run'[q] = run[q]
             /\ UNCHANGED <<version, index, rows>>
  <2>1. \A v \in DOMAIN distance : distance[v] \in Distances
    OBVIOUS
  <2>2. /\ run' = [run EXCEPT ![r] = Asked(r, signal, distance)] /\ run[r].pc = "retrieve"
        /\ UNCHANGED <<version, index, rows>>
    BY <1>7, <2>1, RetrieveFacts
  <2>3. Asked(r, signal, distance).pc = run[r].pc
    BY ThreadFacts DEF Asked, Thread
  <2> QED
    BY <2>2, <2>3, ThreadFacts
<1> QED
  BY <1>1, <1>2, <1>3, <1>4, <1>5, <1>6, <1>7

LEMMA IndexedStep ==
  SignalTypeOK /\ VectorsComeFirst /\ CurrentIsIndexed /\ [SignalNext]_signalVars
    => VectorsComeFirst' /\ CurrentIsIndexed'
<1> SUFFICES ASSUME SignalTypeOK, VectorsComeFirst, CurrentIsIndexed, [SignalNext]_signalVars
             PROVE  VectorsComeFirst' /\ CurrentIsIndexed'
  OBVIOUS
<1>1. CASE UNCHANGED <<index, rows, run>>
  BY <1>1 DEF VectorsComeFirst, CurrentIsIndexed
<1>2. ASSUME NEW r \in Runs, run'[r].pc # "persist", \A q \in Runs \ {r} : run'[q] = run[q],
             UNCHANGED <<version, index, rows>>
      PROVE  VectorsComeFirst' /\ CurrentIsIndexed'
  <2>1. VectorsThere(run'[r], index')
    BY <1>2 DEF VectorsThere
  <2> QED
    BY <1>2, <2>1, IndexedFrame
<1>3. ASSUME NEW r \in Runs, NEW signals, EmbedSignals(r, signals) \/ PersistSignals(r, signals)
      PROVE  VectorsComeFirst' /\ CurrentIsIndexed'
  BY <1>3, EmbedIndexed, PersistIndexed
<1>4. ASSUME NEW x \in Edited, Edit(x) PROVE UNCHANGED <<index, rows, run>>
  BY <1>4 DEF Edit
<1>5. ASSUME NEW r \in Runs,
         \/ LoadSource(r) \/ ListCandidates(r) \/ StartRanking(r) \/ StoreMatches(r) \/ CatchError(r)
         \/ \E x \in run[r].left : SyncCandidate(r, x)
         \/ \E signal \in NextAsked(r) : \E found \in SUBSET Answerable(signal) :
              \E distance \in [found -> Distances] : Retrieve(r, signal, distance)
      PROVE  VectorsComeFirst' /\ CurrentIsIndexed'
  BY <1>2, <1>5, OtherSteps
<1> QED
  BY <1>1, <1>3, <1>4, <1>5 DEF SignalNext, signalVars

\* Whatever is edited or fails between the vectors of a text and its rows, and whichever run
\* writes a row last, a signal that is current has its vector (upsert_match_signal_source).
THEOREM IndexedCorrect == SignalSpec => []CurrentIsIndexed
<1> QED
  BY SignalTypeInit, SignalTypeStep, IndexedInit, IndexedStep, PTL DEF SignalSpec

-----------------------------------------------------------------------------
\* The hints are the nearest answers.

Answered(thread, x, a) == {t[3] : t \in {u \in thread.answers : u[1] = x /\ u[2] = a}}

HintsNearest(thread) ==
    \A x \in Items, a \in Axes : Best(thread.hints[x][a], Answered(thread, x, a))

HintsAreNearest == \A r \in Runs : HintsNearest(run[r])

LEMMA HintsInit == SignalInit => HintsAreNearest
<1> SUFFICES ASSUME SignalInit, NEW r \in Runs PROVE HintsNearest(run[r])
  BY DEF HintsAreNearest
<1>1. run[r].answers = {} /\ run[r].hints = [x \in Items |-> [a \in Axes |-> NoHint]]
  BY DEF SignalInit, NoThread, NoHints
<1> QED
  BY <1>1 DEF HintsNearest, Answered, Best

LEMMA AnsweredType ==
  ASSUME SignalTypeOK, NEW r \in Runs, NEW x, NEW a
  PROVE  Answered(run[r], x, a) \in SUBSET Similarities
BY ThreadFacts DEF Answered

LEMMA RetrieveNearest ==
  ASSUME SignalTypeOK, HintsAreNearest, NEW r \in Runs, NEW signal, NEW distance,
         \A v \in DOMAIN distance : distance[v] \in Distances, Retrieve(r, signal, distance)
  PROVE  HintsNearest(run'[r])
<1> DEFINE axis == ScoringAxis(signal)
           N(x) == SimilaritiesOf(distance, x)
<1>1. /\ axis \in Axes /\ \A x \in Items : N(x) \in SUBSET Similarities
      /\ run' = [run EXCEPT ![r] = Asked(r, signal, distance)]
  BY RetrieveFacts
<1>2. /\ run'[r].answers = AnswersWith(r, axis, distance)
      /\ run'[r].hints = HintsWith(r, axis, distance)
  <2>1. run'[r] = Asked(r, signal, distance)
    BY <1>1, ThreadFacts
  <2> QED
    BY <2>1, ThreadFacts DEF Asked, Thread
<1> HIDE DEF axis
<1>3. ASSUME NEW x \in Items, NEW a \in Axes
      PROVE  Best(run'[r].hints[x][a], Answered(run'[r], x, a))
  <2> DEFINE h == run[r].hints[x][a]
             A == Answered(run[r], x, a)
  <2>1. Best(h, A) /\ A \in SUBSET Similarities
    BY AnsweredType DEF HintsAreNearest, HintsNearest
  <2>2. run'[r].hints[x][a] = IF a = axis THEN BestHint(h, N(x)) ELSE h
    BY <1>1, <1>2, HintsWithFacts
  <2>3. Answered(run'[r], x, a) = A \cup (IF a = axis THEN N(x) ELSE {})
    <3>1. \A t \in AnswersWith(r, axis, distance) :
            t \in run[r].answers \/ \E y \in Items : \E s \in N(y) : t = <<y, axis, s>>
      BY DEF AnswersWith
    <3>2. \A s \in N(x) : <<x, axis, s>> \in AnswersWith(r, axis, distance)
      BY DEF AnswersWith
    <3>3. run[r].answers \subseteq AnswersWith(r, axis, distance)
      BY DEF AnswersWith
    <3>4. \A s : s \in Answered(run'[r], x, a) <=>
            \E t \in AnswersWith(r, axis, distance) : t[1] = x /\ t[2] = a /\ s = t[3]
      BY <1>2 DEF Answered
    <3>5. \A s : s \in A <=> \E t \in run[r].answers : t[1] = x /\ t[2] = a /\ s = t[3]
      BY DEF Answered
    <3> HIDE DEF N, A
    <3>6. ASSUME NEW s \in Answered(run'[r], x, a)
          PROVE  s \in A \cup (IF a = axis THEN N(x) ELSE {})
      BY <3>1, <3>4, <3>5, <3>6
    <3>7. ASSUME NEW s \in A PROVE s \in Answered(run'[r], x, a)
      BY <3>3, <3>4, <3>5, <3>7
    <3>8. ASSUME NEW s \in N(x), a = axis PROVE s \in Answered(run'[r], x, a)
      <4>1. <<x, axis, s>>[1] = x /\ <<x, axis, s>>[2] = axis /\ <<x, axis, s>>[3] = s
        OBVIOUS
      <4> QED
        BY <3>2, <3>4, <3>8, <4>1
    <3> QED
      BY <3>6, <3>7, <3>8
  <2> HIDE DEF h, A, N
  <2>4. CASE a = axis
    BY <1>1, <2>1, <2>2, <2>3, <2>4, BestHintIsBest
  <2>5. CASE a # axis
    BY <2>1, <2>2, <2>3, <2>5
  <2> QED
    BY <2>4, <2>5
<1> QED
  BY <1>3 DEF HintsNearest

\* No other step of a thread touches its answers or its hints.
LEMMA HintsKept ==
  ASSUME SignalTypeOK, NEW r \in Runs,
         \/ LoadSource(r) \/ ListCandidates(r) \/ StartRanking(r) \/ StoreMatches(r) \/ CatchError(r)
         \/ \E x \in run[r].left : SyncCandidate(r, x)
         \/ \E signals \in SUBSET SignalTypes(run[r].item) :
              EmbedSignals(r, signals) \/ PersistSignals(r, signals)
  PROVE  /\ run'[r].answers = run[r].answers /\ run'[r].hints = run[r].hints
         /\ \A q \in Runs \ {r} : run'[q] = run[q]
<1>1. CASE LoadSource(r)
  BY <1>1, ThreadFacts DEF LoadSource, Thread
<1>2. CASE ListCandidates(r)
  BY <1>2, ThreadFacts DEF ListCandidates, Thread
<1>3. CASE StartRanking(r)
  BY <1>3, ThreadFacts DEF StartRanking, Thread
<1>4. ASSUME NEW pc, Go(r, pc)
      PROVE  /\ run'[r].answers = run[r].answers /\ run'[r].hints = run[r].hints
             /\ \A q \in Runs \ {r} : run'[q] = run[q]
  BY <1>4, ThreadFacts DEF Go, Thread
<1>5. CASE StoreMatches(r) \/ CatchError(r)
  BY <1>4, <1>5 DEF StoreMatches, CatchError
<1>6. ASSUME NEW x \in run[r].left, SyncCandidate(r, x)
      PROVE  /\ run'[r].answers = run[r].answers /\ run'[r].hints = run[r].hints
             /\ \A q \in Runs \ {r} : run'[q] = run[q]
  BY <1>6, ThreadFacts DEF SyncCandidate, Thread
<1>7. ASSUME NEW signals, EmbedSignals(r, signals) \/ PersistSignals(r, signals)
      PROVE  /\ run'[r].answers = run[r].answers /\ run'[r].hints = run[r].hints
             /\ \A q \in Runs \ {r} : run'[q] = run[q]
  BY <1>4, <1>7 DEF EmbedSignals, PersistSignals
<1> QED
  BY <1>1, <1>2, <1>3, <1>5, <1>6, <1>7

LEMMA HintsStep ==
  SignalTypeOK /\ HintsAreNearest /\ [SignalNext]_signalVars => HintsAreNearest'
<1> SUFFICES ASSUME SignalTypeOK, HintsAreNearest, [SignalNext]_signalVars PROVE HintsAreNearest'
  OBVIOUS
<1>1. CASE UNCHANGED run
  BY <1>1 DEF HintsAreNearest
<1>2. ASSUME NEW r \in Runs, HintsNearest(run'[r]), \A q \in Runs \ {r} : run'[q] = run[q]
      PROVE  HintsAreNearest'
  <2>1. \A q \in Runs : HintsNearest(run'[q])
    BY <1>2 DEF HintsAreNearest
  <2> QED
    BY <2>1 DEF HintsAreNearest
<1>3. ASSUME NEW r \in Runs,
         \/ LoadSource(r) \/ ListCandidates(r) \/ StartRanking(r) \/ StoreMatches(r) \/ CatchError(r)
         \/ \E x \in run[r].left : SyncCandidate(r, x)
         \/ \E signals \in SUBSET SignalTypes(run[r].item) :
              EmbedSignals(r, signals) \/ PersistSignals(r, signals)
      PROVE  HintsAreNearest'
  <2>1. /\ run'[r].answers = run[r].answers /\ run'[r].hints = run[r].hints
        /\ \A q \in Runs \ {r} : run'[q] = run[q]
    BY <1>3, HintsKept
  <2>2. HintsNearest(run'[r])
    BY <2>1 DEF HintsAreNearest, HintsNearest, Answered
  <2> QED
    BY <1>2, <2>1, <2>2
<1>4. ASSUME NEW r \in Runs, NEW signal, NEW found, NEW distance \in [found -> Distances],
             Retrieve(r, signal, distance)
      PROVE  HintsAreNearest'
  <2>1. \A v \in DOMAIN distance : distance[v] \in Distances
    OBVIOUS
  <2>2. run' = [run EXCEPT ![r] = Asked(r, signal, distance)]
    BY <1>4, <2>1, RetrieveFacts
  <2>3. HintsNearest(run'[r])
    BY <1>4, <2>1, RetrieveNearest
  <2> QED
    BY <1>2, <2>2, <2>3, ThreadFacts
<1>5. ASSUME NEW x \in Edited, Edit(x) PROVE UNCHANGED run
  BY <1>5 DEF Edit
<1> QED
  BY <1>1, <1>3, <1>4, <1>5 DEF SignalNext, signalVars

-----------------------------------------------------------------------------
\* What a run stores is the best of what it found.

\* BestAreStored of one run, given its thread and what it has stored.
BestOf(r, thread, list) ==
    LET found == Candidates(r) \cap {t[1] : t \in thread.answers}
        score == [x \in found |->
                    FinalScore(TextOf[SourceOf[r]][thread.seen[SourceOf[r]]], TextOf[x][thread.seen[x]],
                               [a \in Axes |-> Max({NoHint} \cup Answered(thread, x, a))], Jitter[r][x])]
        stored == [i \in DOMAIN list |-> list[i].item]
        visible == {x \in found : score[x] >= VisibleScoreThreshold}
    IN  /\ Len(stored) = Min({MaxStored, Cardinality(visible)})
        /\ \A i \in DOMAIN stored :
             /\ stored[i] \in visible
             /\ \A x \in visible \ {stored[j] : j \in 1..i} :
                  \/ score[x] < score[stored[i]]
                  \/ score[x] = score[stored[i]] /\ x > stored[i]

LEMMA BestIsBestOf ==
  /\ BestAreStored <=> \A r \in Runs : run[r].pc = "succeeded" => BestOf(r, run[r], matches[r])
  /\ BestAreStored' <=> \A r \in Runs : run'[r].pc = "succeeded" => BestOf(r, run'[r], matches'[r])
<1>1. BestAreStored <=> \A r \in Runs : run[r].pc = "succeeded" => BestOf(r, run[r], matches[r])
  BY Zenon DEF BestAreStored, BestOf, Answered, Score, Source, Text
<1>2. BestAreStored' <=> \A r \in Runs : run'[r].pc = "succeeded" => BestOf(r, run'[r], matches'[r])
  BY Zenon DEF BestAreStored, BestOf, Answered, Score, Source, Text
<1> QED
  BY <1>1, <1>2

LEMMA FoundIsAnswered ==
  ASSUME SignalTypeOK, HintsAreNearest, NEW r \in Runs
  PROVE  Found(r) = Candidates(r) \cap {t[1] : t \in run[r].answers}
<1> SUFFICES ASSUME NEW x \in Items
             PROVE  (\E a \in Axes : run[r].hints[x][a] # NoHint)
                      <=> x \in {t[1] : t \in run[r].answers}
  BY CandidatesAreItems DEF Found
<1>1. ASSUME NEW a \in Axes
      PROVE  /\ Best(run[r].hints[x][a], Answered(run[r], x, a))
             /\ Answered(run[r], x, a) \in SUBSET Similarities
  BY SMTT(30), AnsweredType DEF HintsAreNearest, HintsNearest
<1>2. ASSUME NEW a \in Axes, run[r].hints[x][a] # NoHint
      PROVE  x \in {t[1] : t \in run[r].answers}
  <2>1. run[r].hints[x][a] \in Answered(run[r], x, a)
    BY <1>1, <1>2 DEF Best
  <2> QED
    BY <2>1 DEF Answered
<1>3. ASSUME NEW t \in run[r].answers, t[1] = x
      PROVE  \E a \in Axes : run[r].hints[x][a] # NoHint
  <2>1. t \in Items \X Axes \X Similarities
    BY ThreadFacts
  <2>2. t[2] \in Axes /\ t[3] \in Answered(run[r], x, t[2]) /\ t[3] \in Similarities
    BY <1>3, <2>1 DEF Answered
  <2>3. run[r].hints[x][t[2]] >= t[3] /\ run[r].hints[x][t[2]] \in Hint
    BY <1>1, <2>2, ThreadFacts DEF Best
  <2>4. run[r].hints[x][t[2]] # NoHint
    <3>0. \A k \in Similarities : k \in Int /\ k >= 0
      BY DEF Similarities
    <3>1. t[3] \in Int /\ t[3] >= 0
      BY <2>2, <3>0
    <3>2. run[r].hints[x][t[2]] \in Int
      BY <2>3, HintType
    <3> QED
      BY <2>3, <3>1, <3>2 DEF NoHint
  <2> QED
    BY <2>2, <2>4
<1> QED
  BY <1>2, <1>3

LEMMA ScoresAreBest ==
  ASSUME SignalTypeOK, HintsAreNearest, NEW r \in Runs
  PROVE  Scores(r) = [x \in Candidates(r) \cap {t[1] : t \in run[r].answers} |->
            FinalScore(TextOf[SourceOf[r]][run[r].seen[SourceOf[r]]], TextOf[x][run[r].seen[x]],
                       [a \in Axes |-> Max({NoHint} \cup Answered(run[r], x, a))], Jitter[r][x])]
<1>1. ASSUME NEW x \in Items
      PROVE  run[r].hints[x] = [a \in Axes |-> Max({NoHint} \cup Answered(run[r], x, a))]
  <2>1. run[r].hints[x] \in [Axes -> Hint]
    BY ThreadFacts
  <2>2. ASSUME NEW a \in Axes
        PROVE  run[r].hints[x][a] = Max({NoHint} \cup Answered(run[r], x, a))
    <3>1. /\ Best(run[r].hints[x][a], Answered(run[r], x, a))
          /\ Answered(run[r], x, a) \in SUBSET Similarities
      BY SMTT(30), AnsweredType DEF HintsAreNearest, HintsNearest
    <3> QED
      BY <3>1, BestIsMax
  <2> QED
    BY <2>1, <2>2
<1>2. \A x \in Found(r) : x \in Items
  BY ScoresAreNumbers
<1> QED
  BY SMTT(30), <1>1, <1>2, FoundIsAnswered DEF Scores, Score, Source, Text

LEMMA StoreBest ==
  ASSUME SignalTypeOK, HintsAreNearest, NEW r \in Runs, StoreMatches(r)
  PROVE  BestOf(r, run'[r], matches'[r])
<1> DEFINE thread == run'[r]
           list == matches'[r]
           found == Candidates(r) \cap {t[1] : t \in thread.answers}
           score == [x \in found |->
                    FinalScore(TextOf[SourceOf[r]][thread.seen[SourceOf[r]]], TextOf[x][thread.seen[x]],
                               [a \in Axes |-> Max({NoHint} \cup Answered(thread, x, a))], Jitter[r][x])]
           stored == [i \in DOMAIN list |-> list[i].item]
           visible == {x \in found : score[x] >= VisibleScoreThreshold}
<1>1. thread.answers = run[r].answers /\ thread.seen = run[r].seen
  BY SMTT(30), StoreFacts, ThreadFacts DEF Thread
<1>2. found = Found(r) /\ score = Scores(r)
  BY <1>1, FoundIsAnswered, ScoresAreBest DEF Answered
<1>3. visible = Visible(r)
  BY <1>2 DEF Visible
<1>4. list = [i \in 1..Len(Stored(r)) |-> Match(r, Stored(r)[i], Scores(r)[Stored(r)[i]])]
  BY StoreFacts DEF SignalTypeOK
<1> HIDE DEF score, visible, list
<1>5. /\ Stored(r) \in Seq(Visible(r)) /\ Len(Stored(r)) = Min({MaxStored, Cardinality(Visible(r))})
      /\ \A i, j \in 1..Len(Stored(r)) : i < j => Before(Scores(r), Stored(r)[i], Stored(r)[j])
      /\ \A x \in Visible(r) : \/ \E i \in 1..Len(Stored(r)) : Stored(r)[i] = x
                               \/ \A i \in 1..Len(Stored(r)) : Before(Scores(r), Stored(r)[i], x)
  BY StoredFacts
<1>6. Len(Stored(r)) \in Nat /\ \A i \in 1..Len(Stored(r)) : Stored(r)[i] \in Visible(r)
  <2>1. Stored(r) \in Seq(Visible(r))
    BY <1>5
  <2> QED
    BY <2>1
<1>7. stored = [i \in 1..Len(Stored(r)) |-> Stored(r)[i]]
  BY <1>4 DEF Match
<1>8. DOMAIN stored = 1..Len(Stored(r)) /\ Len(stored) = Len(Stored(r))
      /\ \A i \in 1..Len(Stored(r)) : stored[i] = Stored(r)[i]
  BY <1>6, <1>7
<1> HIDE DEF stored
<1>9. ASSUME NEW i \in DOMAIN stored, NEW x \in visible \ {stored[j] : j \in 1..i}
      PROVE  Before(score, stored[i], x)
  <2>1. CASE \A k \in 1..Len(Stored(r)) : Before(Scores(r), Stored(r)[k], x)
    BY <1>2, <1>8, <1>9, <2>1
  <2>2. ASSUME NEW k \in 1..Len(Stored(r)), Stored(r)[k] = x PROVE Before(score, stored[i], x)
    <3>1. i \in Nat /\ k \in Nat /\ i \in 1..Len(Stored(r))
      BY <1>6, <1>8
    <3>2. ~(k \in 1..i)
      BY <1>8, <1>9, <2>2
    <3>3. i < k
      BY <3>1, <3>2
    <3> QED
      BY <1>2, <1>5, <1>8, <2>2, <3>1, <3>3
  <2> QED
    BY <1>3, <1>5, <2>1, <2>2
<1>a. ASSUME NEW i \in DOMAIN stored, NEW x \in visible \ {stored[j] : j \in 1..i}
      PROVE  \/ score[x] < score[stored[i]]
             \/ score[x] = score[stored[i]] /\ x > stored[i]
  <2>1. x \in Visible(r) /\ stored[i] \in Visible(r)
    BY <1>3, <1>6, <1>8
  <2>2. score[x] \in Int /\ score[stored[i]] \in Int /\ x \in Nat /\ stored[i] \in Nat
    BY <1>2, <2>1, ScoresAreNumbers
  <2> QED
    BY <1>9, <2>2 DEF Before
<1>10. \A i \in DOMAIN stored : stored[i] \in visible
  BY <1>3, <1>6, <1>8
<1>11. Len(stored) = Min({MaxStored, Cardinality(visible)})
  BY <1>3, <1>5, <1>8
<1> QED
  BY <1>a, <1>10, <1>11 DEF BestOf, score, visible, list, stored

LEMMA BestInit == SignalInit => BestAreStored
<1> SUFFICES ASSUME SignalInit, NEW r \in Runs PROVE run[r].pc # "succeeded"
  BY ZenonT(40) DEF BestAreStored
<1> QED
  BY DEF SignalInit, NoThread

\* A thread that has succeeded does nothing any more; nobody but a thread stores its matches.
LEMMA BestStep ==
  SignalTypeOK /\ HintsAreNearest /\ BestAreStored /\ [SignalNext]_signalVars => BestAreStored'
<1> SUFFICES ASSUME SignalTypeOK, HintsAreNearest, BestAreStored, [SignalNext]_signalVars
             PROVE  BestAreStored'
  OBVIOUS
<1>1. \A r \in Runs : run[r].pc = "succeeded" => BestOf(r, run[r], matches[r])
  BY BestIsBestOf
<1>2. SUFFICES \A r \in Runs : run'[r].pc = "succeeded" => BestOf(r, run'[r], matches'[r])
  BY BestIsBestOf
<1>3. CASE UNCHANGED <<run, matches>>
  BY <1>1, <1>3
<1>4. ASSUME NEW r \in Runs, \A q \in Runs \ {r} : run'[q] = run[q] /\ matches'[q] = matches[q],
             run'[r].pc = "succeeded" => BestOf(r, run'[r], matches'[r])
      PROVE  \A q \in Runs : run'[q].pc = "succeeded" => BestOf(q, run'[q], matches'[q])
  BY <1>1, <1>4
<1>5. ASSUME NEW r \in Runs, StoreMatches(r)
      PROVE  \A q \in Runs : run'[q].pc = "succeeded" => BestOf(q, run'[q], matches'[q])
  <2>1. BestOf(r, run'[r], matches'[r])
    BY <1>5, StoreBest
  <2>2. \A q \in Runs \ {r} : run'[q] = run[q] /\ matches'[q] = matches[q]
    BY <1>5, StoreFacts, ThreadFacts DEF SignalTypeOK
  <2> QED
    BY <1>4, <2>1, <2>2
<1>6. ASSUME NEW r \in Runs,
         \/ LoadSource(r) \/ ListCandidates(r) \/ StartRanking(r) \/ CatchError(r)
         \/ \E x \in run[r].left : SyncCandidate(r, x)
      PROVE  run'[r].pc # "succeeded" /\ UNCHANGED matches /\ \A q \in Runs \ {r} : run'[q] = run[q]
  <2>1. CASE LoadSource(r)
    BY <2>1, ThreadFacts DEF LoadSource, Thread
  <2>2. CASE ListCandidates(r)
    BY <2>2, ThreadFacts DEF ListCandidates, Thread
  <2>3. CASE StartRanking(r)
    BY <2>3, ThreadFacts DEF StartRanking, Thread
  <2>4. CASE CatchError(r)
    BY <2>4, ThreadFacts DEF CatchError, Go, Thread
  <2>5. ASSUME NEW x \in run[r].left, SyncCandidate(r, x)
        PROVE  run'[r].pc # "succeeded" /\ UNCHANGED matches /\ \A q \in Runs \ {r} : run'[q] = run[q]
    BY <2>5, ThreadFacts DEF SyncCandidate, Thread
  <2> QED
    BY <1>6, <2>1, <2>2, <2>3, <2>4, <2>5
<1>7. ASSUME NEW r \in Runs, NEW signals, EmbedSignals(r, signals) \/ PersistSignals(r, signals)
      PROVE  run'[r].pc # "succeeded" /\ UNCHANGED matches /\ \A q \in Runs \ {r} : run'[q] = run[q]
  <2>1. CASE EmbedSignals(r, signals)
    BY <2>1, ThreadFacts DEF EmbedSignals, Go, Thread
  <2>2. CASE PersistSignals(r, signals)
    BY <2>2, ThreadFacts DEF PersistSignals, Go, Thread
  <2> QED
    BY <1>7, <2>1, <2>2
<1>8. ASSUME NEW r \in Runs, NEW signal, NEW found, NEW distance \in [found -> Distances],
             Retrieve(r, signal, distance)
      PROVE  run'[r].pc # "succeeded" /\ UNCHANGED matches /\ \A q \in Runs \ {r} : run'[q] = run[q]
  <2>1. \A v \in DOMAIN distance : distance[v] \in Distances
    OBVIOUS
  <2>2. /\ run' = [run EXCEPT ![r] = Asked(r, signal, distance)] /\ run[r].pc = "retrieve"
        /\ UNCHANGED matches
    BY <1>8, <2>1, RetrieveFacts
  <2>3. Asked(r, signal, distance).pc = run[r].pc
    BY ThreadFacts DEF Asked, Thread
  <2> QED
    BY <2>2, <2>3, ThreadFacts
<1>9. ASSUME NEW x \in Edited, Edit(x) PROVE UNCHANGED <<run, matches>>
  BY <1>9 DEF Edit
<1>10. ASSUME NEW r \in Runs, run'[r].pc # "succeeded", UNCHANGED matches,
              \A q \in Runs \ {r} : run'[q] = run[q]
       PROVE  \A q \in Runs : run'[q].pc = "succeeded" => BestOf(q, run'[q], matches'[q])
  BY <1>4, <1>10
<1> QED
  BY <1>3, <1>5, <1>6, <1>7, <1>8, <1>9, <1>10 DEF SignalNext, signalVars

\* What a run has stored are the best of the candidates it found, each by its nearest answer
\* on each axis, whatever the order and the number of answers (_retrieve_candidate_scores).
THEOREM BestCorrect == SignalSpec => []BestAreStored
<1> QED
  BY SignalTypeInit, SignalTypeStep, HintsInit, HintsStep, BestInit, BestStep, PTL DEF SignalSpec

-----------------------------------------------------------------------------
\* The author is warned.

LEMMA MismatchesArePenalties ==
  ASSUME NEW m \in ManuscriptIds, NEW v \in Versions, NEW p \in PublisherIds, NEW w \in Versions
  PROVE  Mismatches(TextOf[m][v], TextOf[p][w]) \subseteq Penalties(TextOf[m][v], TextOf[p][w])
<1> DEFINE s == TextOf[m][v]
           c == TextOf[p][w]
<1>1. IsManuscript(s) /\ s.genre # {}
  BY TextAssumption DEF IsManuscript, ManuscriptFields
<1>2. \A f : Declared(s, f) = s[f]
  BY <1>1 DEF Declared
<1> HIDE DEF s, c
<1>3. ASSUME NEW f \in Mismatches(s, c) PROVE f \in Penalties(s, c)
  <2>1. f \in {"genre", "audience", "form", "topics"} /\ CompareValues(s, c, f) = "mismatch"
    BY <1>3 DEF Mismatches
  <2>2. CASE f = "topics"
    <3>1. s.topics \cap c.topics # {}
      BY <2>1, <2>2 DEF CompareValues
    <3> QED
      BY <1>2, <2>2, <3>1 DEF Penalties
  <2>3. CASE f = "genre"
    <3>1. c.genre # {} /\ (s.genre \cup s.subgenres) \cap c.genre = {}
      BY <2>1, <2>3 DEF CompareValues
    <3>2. Gap(s.genre, c.genre)
      BY <1>1, <3>1 DEF Gap
    <3> QED
      BY <1>2, <2>3, <3>2 DEF Penalties
  <2>4. CASE f \in {"audience", "form"}
    <3>1. Gap(s[f], c[f])
      BY <2>1, <2>4 DEF CompareValues, Gap
    <3> QED
      BY <1>2, <2>4, <3>1 DEF Penalties
  <2> QED
    BY <2>1, <2>2, <2>3, <2>4
<1> QED
  BY <1>3 DEF s, c

LEMMA WarnedStep ==
  SignalTypeOK /\ AuthorIsWarned /\ [SignalNext]_signalVars => AuthorIsWarned'
<1> SUFFICES ASSUME SignalTypeOK, AuthorIsWarned, [SignalNext]_signalVars PROVE AuthorIsWarned'
  OBVIOUS
<1>1. CASE UNCHANGED matches
  BY <1>1 DEF AuthorIsWarned
<1>2. ASSUME NEW r \in Runs, StoreMatches(r) PROVE AuthorIsWarned'
  <2> DEFINE list == [i \in 1..Len(Stored(r)) |-> Match(r, Stored(r)[i], Scores(r)[Stored(r)[i]])]
  <2>1. matches' = [matches EXCEPT ![r] = list]
    BY <1>2, StoreFacts
  <2>2. ASSUME SourceOf[r] \in ManuscriptIds, NEW i \in 1..Len(Stored(r))
        PROVE  list[i].mismatches \subseteq list[i].watchOuts
    <3> DEFINE x == Stored(r)[i]
    <3>1. x \in Found(r)
      <4>1. Stored(r) \in Seq(Visible(r)) /\ Visible(r) \subseteq Found(r)
        BY StoredFacts, ScoresAreNumbers
      <4> QED
        BY <4>1
    <3>2. x \in PublisherIds
      BY <2>2, <3>1 DEF Found, Candidates
    <3>3. run[r].seen[x] \in Versions /\ run[r].seen[SourceOf[r]] \in Versions
      BY <3>2, ThreadFacts DEF Items
    <3>4. Mismatches(Source(r), Text(r, x)) \subseteq Penalties(Source(r), Text(r, x))
      BY <2>2, <3>2, <3>3, MismatchesArePenalties DEF Source, Text
    <3> QED
      BY <2>2, <3>4 DEF Match, ManuscriptIn, PublisherIn
  <2>3. DOMAIN list = 1..Len(Stored(r))
    OBVIOUS
  <2> HIDE DEF list
  <2> SUFFICES ASSUME NEW q \in Runs, SourceOf[q] \in ManuscriptIds, NEW i \in DOMAIN matches'[q]
               PROVE  matches'[q][i].mismatches \subseteq matches'[q][i].watchOuts
    BY DEF AuthorIsWarned
  <2>4. CASE q = r
    BY <2>1, <2>2, <2>3, <2>4 DEF SignalTypeOK
  <2>5. CASE q # r
    BY <2>1, <2>5 DEF SignalTypeOK, AuthorIsWarned
  <2> QED
    BY <2>4, <2>5
<1>3. ASSUME NEW r \in Runs,
             LoadSource(r) \/ ListCandidates(r) \/ StartRanking(r) \/ CatchError(r)
      PROVE  UNCHANGED matches
  BY <1>3 DEF LoadSource, ListCandidates, StartRanking, CatchError
<1>4. ASSUME NEW r \in Runs, NEW signals, EmbedSignals(r, signals) \/ PersistSignals(r, signals)
      PROVE  UNCHANGED matches
  BY <1>4 DEF EmbedSignals, PersistSignals
<1>5. ASSUME NEW r \in Runs, NEW signal, NEW distance, Retrieve(r, signal, distance)
      PROVE  UNCHANGED matches
  BY <1>5 DEF Retrieve
<1>6. ASSUME NEW r \in Runs, NEW x, SyncCandidate(r, x) PROVE UNCHANGED matches
  BY <1>6 DEF SyncCandidate
<1>7. ASSUME NEW x \in Edited, Edit(x) PROVE UNCHANGED matches
  BY <1>7 DEF Edit
<1> QED
  BY <1>1, <1>2, <1>3, <1>4, <1>5, <1>6, <1>7 DEF SignalNext, signalVars

\* Every mismatch that an author sees on the detail page is a watch-out of the match, because
\* the two functions compare the same fields and a manuscript has a genre (build_penalties).
THEOREM WarnedCorrect == SignalSpec => []AuthorIsWarned
<1>1. SignalInit => AuthorIsWarned
  BY DEF SignalInit, AuthorIsWarned
<1> QED
  BY <1>1, SignalTypeInit, SignalTypeStep, WarnedStep, PTL DEF SignalSpec

-----------------------------------------------------------------------------
(* Discovery.                                                              *)

USE DiscoveryAssumption, MatchAssumption

-----------------------------------------------------------------------------
\* Operators

LEMMA SourcesAreFinite ==
  ASSUME NEW S \in SUBSET Sources
  PROVE  IsFiniteSet(S) /\ Cardinality(S) \in Nat
<1>1. IsFiniteSet(Sources)
  BY FS_Union DEF Sources
<1> QED
  BY <1>1, FS_Subset, FS_CardinalityType

\* What matching inserts is a grant to whoever the run is for.
LEMMA MatchGrantType ==
  ASSUME NEW s \in Sources, NEW x \in Sources
  PROVE  MatchGrant(RequesterOf(s), x) \in Grant
  BY DEF Sources, RequesterOf, MatchGrant, Grant, Profiles

\* A grant for a manuscript that was made for a publisher's run names its candidate.
LEMMA MatchGrantNames ==
  ASSUME NEW s \in Sources, NEW x \in Sources, NEW p \in Publishers, NEW m \in Manuscripts,
         MatchGrant(RequesterOf(s), x).viewer = p, MatchGrant(RequesterOf(s), x).manuscript = m
  PROVE  s = p /\ x = m
  BY DEF Sources, RequesterOf, MatchGrant

LEMMA CandidatesAreSources ==
  ASSUME NEW s
  PROVE  CandidatesFor(s) \subseteq Sources
  BY DEF CandidatesFor, Sources

\* A maybeSingle() that finds a row has a row to find.
LEMMA SingleIsThere ==
  ASSUME NEW S, MaybeSingle(S)
  PROVE  S # {}
  BY FS_EmptySet DEF MaybeSingle

-----------------------------------------------------------------------------
\* Types and the order of a run

TypeInvariant == TypeOK /\ RunInvariant /\ AccessInvariant

LEMMA TypeInit == Init => TypeInvariant
<1> SUFFICES ASSUME Init PROVE TypeInvariant
  OBVIOUS
<1>1. TypeOK
  BY DEF Init, StoreInit, MatchInit, AccessInit, TypeOK, StoreTypeOK, MatchTypeOK, AccessTypeOK,
         NoRun, Run, NoWork, Work, Call, CallStep, WorkerStage
<1>2. RunInvariant
  BY DEF Init, MatchInit, RunInvariant, InOrder, WorkerProgress, CallProgress, SuccessIsFinal, NoRun,
         NoWork
<1>3. AccessInvariant
  BY DEF Init, StoreInit, AccessInit, AccessInvariant, NoRequest
<1> QED
  BY <1>1, <1>2, <1>3 DEF TypeInvariant

\* A run that a step does not touch stays in order, because grants are never taken back.
LEMMA RunFrame ==
  ASSUME NEW d \in Calls, InOrder(d), runs'[d] = runs[d], candidates'[d] = candidates[d],
         call'[d] = call[d], worker'[d] = worker[d], grants \subseteq grants'
  PROVE  InOrder(d)'
<1>1. \A x : GrantOf(d, x)' = GrantOf(d, x) /\ (Granted(d, x) => Granted(d, x)')
  BY DEF GrantOf, Granted
<1>2. WorkerProgress(d)'
  BY <1>1 DEF InOrder, WorkerProgress
<1>3. CallProgress(d)'
  BY DEF InOrder, CallProgress
<1>4. SuccessIsFinal(d)'
  BY <1>1 DEF InOrder, SuccessIsFinal
<1> QED
  BY <1>2, <1>3, <1>4 DEF InOrder

LEMMA AccessFrame ==
  ASSUME AccessInvariant, UNCHANGED <<accessVars, mode>>,
         \A g \in grants' : g \in grants \/ g.source # "manuscript_access"
  PROVE  AccessInvariant'
  BY DEF AccessInvariant, accessVars

\* An update of the call or the thread that only moves it on.
LEMMA GoCallFacts ==
  ASSUME MatchTypeOK, NEW c \in Calls, NEW pc \in CallStep, GoCall(c, pc)
  PROVE  /\ call' \in [Calls -> Call]
         /\ call'[c].pc = pc /\ call'[c].count = call[c].count
         /\ \A d \in Calls \ {c} : call'[d] = call[d]
<1>1. call[c] \in Call
  BY DEF MatchTypeOK
<1>2. [call[c] EXCEPT !.pc = pc] \in Call
  BY <1>1 DEF Call
<1>3. call' = [call EXCEPT ![c] = [call[c] EXCEPT !.pc = pc]]
  BY DEF GoCall, MatchTypeOK
<1> QED
  BY <1>1, <1>2, <1>3 DEF MatchTypeOK, Call

LEMMA GoWorkerFacts ==
  ASSUME MatchTypeOK, NEW c \in Calls, NEW pc \in WorkerStage, GoWorker(c, pc)
  PROVE  /\ worker' \in [Calls -> Work]
         /\ worker'[c].pc = pc /\ worker'[c].left = worker[c].left /\ worker'[c].next = worker[c].next
         /\ \A d \in Calls \ {c} : worker'[d] = worker[d]
<1>1. worker[c] \in Work
  BY DEF MatchTypeOK
<1>2. [worker[c] EXCEPT !.pc = pc] \in Work
  BY <1>1 DEF Work
<1>3. worker' = [worker EXCEPT ![c] = [worker[c] EXCEPT !.pc = pc]]
  BY DEF GoWorker, MatchTypeOK
<1> QED
  BY <1>1, <1>2, <1>3 DEF MatchTypeOK, Work

LEMMA SetRunFacts ==
  ASSUME MatchTypeOK, NEW c \in Calls, NEW status \in {"none", "running", "succeeded", "failed"},
         NEW count \in Nat, SetRun(c, status, count)
  PROVE  /\ runs' \in [Calls -> Run]
         /\ runs'[c].status = status /\ runs'[c].count = count /\ runs'[c].source = runs[c].source
         /\ \A d \in Calls \ {c} : runs'[d] = runs[d]
<1> DEFINE row == [runs[c] EXCEPT !.status = status, !.count = count]
<1>1. runs[c] \in Run
  BY DEF MatchTypeOK
<1>2. row \in Run /\ row.status = status /\ row.count = count /\ row.source = runs[c].source
  BY <1>1 DEF Run
<1>3. runs' = [runs EXCEPT ![c] = row]
  BY <1>1 DEF SetRun, MatchTypeOK, Run
<1> HIDE DEF row
<1> QED
  BY <1>2, <1>3 DEF MatchTypeOK

-----------------------------------------------------------------------------
\* The API

LEMMA CountRunsStep ==
  ASSUME TypeInvariant, NEW c \in Calls, NEW s \in Sources, CountRuns(c, s)
  PROVE  MatchTypeOK' /\ RunInvariant'
<1>0. MatchTypeOK /\ InOrder(c) /\ \A d \in Calls : InOrder(d)
  BY DEF TypeInvariant, TypeOK, RunInvariant
<1>1. call[c].pc = "idle" /\ GoCall(c, "counted") /\ runs' = [runs EXCEPT ![c].source = s]
      /\ UNCHANGED <<candidates, worker, faults, grants>>
  BY DEF CountRuns, storeVars
<1>2. /\ runs' \in [Calls -> Run]
      /\ runs'[c].status = runs[c].status /\ runs'[c].source = s
      /\ \A d \in Calls \ {c} : runs'[d] = runs[d]
  BY SMTT(30), <1>0, <1>1 DEF MatchTypeOK, Run
<1>3. /\ call' \in [Calls -> Call] /\ call'[c].pc = "counted"
      /\ \A d \in Calls \ {c} : call'[d] = call[d]
  BY <1>0, <1>1, GoCallFacts DEF CallStep
<1>4. InOrder(c)'
  BY <1>0, <1>1, <1>2, <1>3 DEF InOrder, WorkerProgress, CallProgress, SuccessIsFinal
<1>5. \A d \in Calls \ {c} : InOrder(d)'
  BY <1>0, <1>1, <1>2, <1>3, RunFrame
<1> QED
  BY <1>0, <1>1, <1>2, <1>3, <1>4, <1>5 DEF MatchTypeOK, RunInvariant

\* A step of the call that writes neither the run nor the thread.
LEMMA CallMoves ==
  ASSUME TypeInvariant, NEW c \in Calls, NEW pc \in CallStep, GoCall(c, pc),
         UNCHANGED <<runs, candidates, worker, grants>>, faults' \in 0..MaxFaults,
         \/ pc = "done" /\ call[c].pc # "idle"
         \/ pc \in {"answered", "failed"} /\ call[c].pc = "asking"
            /\ (pc = "answered" => worker[c].pc = "succeeded")
  PROVE  MatchTypeOK' /\ RunInvariant'
<1>0. MatchTypeOK /\ InOrder(c) /\ \A d \in Calls : InOrder(d)
  BY DEF TypeInvariant, TypeOK, RunInvariant
<1>1. /\ call' \in [Calls -> Call] /\ call'[c].pc = pc
      /\ \A d \in Calls \ {c} : call'[d] = call[d]
  BY <1>0, GoCallFacts
<1>2. \A x : Granted(c, x)' <=> Granted(c, x)
  BY DEF Granted, GrantOf
<1>3. GrantOf(c, worker[c])' = GrantOf(c, worker[c]) /\ \A x : GrantOf(c, x)' = GrantOf(c, x)
  BY DEF GrantOf
<1>4. WorkerProgress(c)'
  BY <1>0, <1>1, <1>2, <1>3 DEF InOrder, WorkerProgress, CallProgress
<1>5. CallProgress(c)'
  BY <1>0, <1>1 DEF InOrder, CallProgress
<1>6. SuccessIsFinal(c)'
  BY <1>0, <1>2 DEF InOrder, SuccessIsFinal
<1>7. \A d \in Calls \ {c} : InOrder(d)'
  BY <1>0, <1>1, RunFrame
<1> QED
  BY <1>0, <1>1, <1>4, <1>5, <1>6, <1>7 DEF MatchTypeOK, RunInvariant, InOrder

\* What a step of one run, call and thread leaves to show.
LEMMA OneMoves ==
  ASSUME TypeInvariant, NEW c \in Calls, MatchTypeOK', InOrder(c)', grants \subseteq grants',
         \A d \in Calls \ {c} : /\ runs'[d] = runs[d] /\ candidates'[d] = candidates[d]
                                /\ call'[d] = call[d] /\ worker'[d] = worker[d]
  PROVE  MatchTypeOK' /\ RunInvariant'
<1>1. \A d \in Calls : InOrder(d)
  BY DEF TypeInvariant, RunInvariant
<1>2. \A d \in Calls \ {c} : InOrder(d)'
  BY <1>1, RunFrame
<1> QED
  BY <1>2 DEF RunInvariant

LEMMA InsertRunStep ==
  ASSUME TypeInvariant, NEW c \in Calls, InsertRun(c)
  PROVE  MatchTypeOK' /\ RunInvariant'
<1>0. MatchTypeOK /\ InOrder(c)
  BY DEF TypeInvariant, TypeOK, RunInvariant
<1>1. call[c].pc = "counted" /\ UNCHANGED <<candidates, worker, faults, grants>>
  BY DEF InsertRun, storeVars
<1>2. CASE GoCall(c, "done") /\ UNCHANGED runs
  BY <1>0, <1>1, <1>2, CallMoves DEF CallStep, MatchTypeOK
<1>3. CASE SetRun(c, "running", 0) /\ GoCall(c, "stored")
  <2>1. /\ call' \in [Calls -> Call] /\ call'[c].pc = "stored"
        /\ \A d \in Calls \ {c} : call'[d] = call[d]
    BY <1>0, <1>3, GoCallFacts DEF CallStep
  <2>2. /\ runs' \in [Calls -> Run]
        /\ runs'[c].status = "running" /\ runs'[c].source = runs[c].source
        /\ \A d \in Calls \ {c} : runs'[d] = runs[d]
    BY <1>0, <1>3, SetRunFacts
  <2>3. MatchTypeOK'
    BY <1>0, <1>1, <2>1, <2>2 DEF MatchTypeOK
  <2>4. InOrder(c)'
    BY <1>0, <1>1, <2>1, <2>2 DEF InOrder, WorkerProgress, CallProgress, SuccessIsFinal
  <2> QED
    BY <1>1, <2>1, <2>2, <2>3, <2>4, OneMoves
<1> QED
  BY <1>2, <1>3 DEF InsertRun

LEMMA AskAiStep ==
  ASSUME TypeInvariant, NEW c \in Calls, AskAi(c)
  PROVE  MatchTypeOK' /\ RunInvariant'
<1>0. MatchTypeOK /\ InOrder(c)
  BY DEF TypeInvariant, TypeOK, RunInvariant
<1>1. /\ call[c].pc = "stored" /\ GoCall(c, "asking") /\ GoWorker(c, "load")
      /\ UNCHANGED <<runs, candidates, faults, grants>>
  BY DEF AskAi, storeVars
<1>2. /\ call' \in [Calls -> Call] /\ call'[c].pc = "asking"
      /\ \A d \in Calls \ {c} : call'[d] = call[d]
  BY <1>0, <1>1, GoCallFacts DEF CallStep
<1>3. /\ worker' \in [Calls -> Work] /\ worker'[c].pc = "load"
      /\ \A d \in Calls \ {c} : worker'[d] = worker[d]
  BY <1>0, <1>1, GoWorkerFacts DEF WorkerStage
<1>4. MatchTypeOK'
  BY <1>0, <1>1, <1>2, <1>3 DEF MatchTypeOK
<1>5. InOrder(c)'
  BY <1>0, <1>1, <1>2, <1>3 DEF InOrder, WorkerProgress, CallProgress, SuccessIsFinal
<1> QED
  BY <1>1, <1>2, <1>3, <1>4, <1>5, OneMoves

LEMMA CountCandidatesStep ==
  ASSUME TypeInvariant, NEW c \in Calls, CountCandidates(c)
  PROVE  MatchTypeOK' /\ RunInvariant'
<1>0. MatchTypeOK /\ InOrder(c)
  BY DEF TypeInvariant, TypeOK, RunInvariant
<1>1. /\ call[c].pc = "answered" /\ UNCHANGED <<runs, candidates, worker, faults, grants>>
      /\ call' = [call EXCEPT ![c] = [pc |-> "succeeded", count |-> Cardinality(candidates[c])]]
  BY DEF CountCandidates, storeVars
<1>2. Cardinality(candidates[c]) \in Nat
  BY <1>0, SourcesAreFinite DEF MatchTypeOK
<1>3. /\ call' \in [Calls -> Call]
      /\ call'[c].pc = "succeeded" /\ call'[c].count = Cardinality(candidates[c])
      /\ \A d \in Calls \ {c} : call'[d] = call[d]
  BY <1>0, <1>1, <1>2 DEF MatchTypeOK, Call, CallStep
<1>4. MatchTypeOK'
  BY <1>0, <1>1, <1>3 DEF MatchTypeOK
<1>5. \A x : Granted(c, x)' <=> Granted(c, x)
  BY <1>1 DEF Granted, GrantOf
<1>6. CallProgress(c)'
  BY <1>0, <1>1, <1>3 DEF InOrder, CallProgress
<1>7. WorkerProgress(c)' /\ SuccessIsFinal(c)'
  BY <1>0, <1>1, <1>3, <1>5 DEF InOrder, WorkerProgress, CallProgress, SuccessIsFinal
<1> QED
  BY <1>1, <1>3, <1>4, <1>6, <1>7, OneMoves DEF InOrder

\* The last update of the call: what it writes is what the thread found, or a failure.
LEMMA MarkRunStep ==
  ASSUME TypeInvariant, NEW c \in Calls, MarkRunSucceeded(c) \/ MarkRunFailed(c)
  PROVE  MatchTypeOK' /\ RunInvariant'
<1>0. MatchTypeOK /\ InOrder(c)
  BY DEF TypeInvariant, TypeOK, RunInvariant
<1>1. GoCall(c, "done") /\ call[c].pc \in {"succeeded", "failed"}
      /\ UNCHANGED <<candidates, worker, faults, grants>>
  BY DEF MarkRunSucceeded, MarkRunFailed, storeVars
<1>2. /\ call' \in [Calls -> Call] /\ call'[c].pc = "done"
      /\ \A d \in Calls \ {c} : call'[d] = call[d]
  BY <1>0, <1>1, GoCallFacts DEF CallStep
<1>3. PICK status \in {"succeeded", "failed"}, count \in Nat :
        /\ SetRun(c, status, count)
        /\ status = "succeeded" => call[c].pc = "succeeded" /\ count = call[c].count
  <2>1. call[c].count \in Nat /\ 0 \in Nat
    BY <1>0 DEF MatchTypeOK, Call
  <2> QED
    BY <2>1 DEF MarkRunSucceeded, MarkRunFailed
<1>4. /\ runs' \in [Calls -> Run]
      /\ runs'[c].status = status /\ runs'[c].count = count /\ runs'[c].source = runs[c].source
      /\ \A d \in Calls \ {c} : runs'[d] = runs[d]
  BY <1>0, <1>3, SetRunFacts
<1>5. MatchTypeOK'
  BY <1>0, <1>1, <1>2, <1>4 DEF MatchTypeOK
<1>6. \A x : GrantOf(c, x)' = GrantOf(c, x) /\ (Granted(c, x)' <=> Granted(c, x))
  BY <1>1, <1>4 DEF Granted, GrantOf
<1>7. CallProgress(c)' /\ WorkerProgress(c)'
  BY <1>0, <1>1, <1>2, <1>4, <1>6 DEF InOrder, WorkerProgress, CallProgress
<1>8. SuccessIsFinal(c)'
  BY <1>0, <1>1, <1>3, <1>4, <1>6 DEF InOrder, WorkerProgress, CallProgress, SuccessIsFinal
<1> QED
  BY <1>1, <1>2, <1>4, <1>5, <1>7, <1>8, OneMoves DEF InOrder

LEMMA ApiTypes ==
  ASSUME TypeInvariant, NEW c \in Calls, ApiStep(c) \/ GiveUp(c) \/ ApiStops(c)
  PROVE  MatchTypeOK' /\ RunInvariant'
<1>0. MatchTypeOK
  BY DEF TypeInvariant, TypeOK
<1>1. CASE ReceiveAnswer(c)
  BY <1>0, <1>1, CallMoves DEF ReceiveAnswer, CallStep, storeVars, MatchTypeOK
<1>2. CASE GiveUp(c)
  BY <1>0, <1>2, CallMoves DEF GiveUp, CallStep, storeVars, MatchTypeOK
<1>3. CASE ApiStops(c)
  <2>1. faults' \in 0..MaxFaults
    BY <1>0, <1>3 DEF ApiStops, MatchTypeOK
  <2> QED
    BY <1>3, <2>1, CallMoves DEF ApiStops, CallStep, storeVars
<1> QED
  BY <1>1, <1>2, <1>3, InsertRunStep, AskAiStep, CountCandidatesStep, MarkRunStep DEF ApiStep

-----------------------------------------------------------------------------
\* The AI service

LEMMA GrantOfType ==
  ASSUME NEW c \in Calls, runs[c].source \in Sources, NEW x \in Sources
  PROVE  GrantOf(c, x) \in Grant
  BY MatchGrantType DEF GrantOf

LEMMA LoadCandidatesStep ==
  ASSUME TypeInvariant, NEW c \in Calls, LoadCandidates(c)
  PROVE  MatchTypeOK' /\ RunInvariant'
<1>0. MatchTypeOK /\ InOrder(c)
  BY DEF TypeInvariant, TypeOK, RunInvariant
<1> DEFINE found == CandidatesFor(runs[c].source) \cap eligible
           row == [worker[c] EXCEPT !.pc = "rank", !.found = found]
<1>1. worker[c].pc = "load" /\ UNCHANGED <<runs, candidates, call, faults, grants>>
  BY DEF LoadCandidates, storeVars
<1>2. worker[c] \in Work /\ found \in SUBSET Sources
  BY <1>0, CandidatesAreSources DEF MatchTypeOK
<1>3. row \in Work /\ row.pc = "rank"
  BY <1>2 DEF Work, WorkerStage
<1>4. worker' = [worker EXCEPT ![c] = row]
  BY <1>0 DEF LoadCandidates, MatchTypeOK
<1> HIDE DEF row, found
<1>5. /\ worker' \in [Calls -> Work] /\ worker'[c].pc = "rank"
      /\ \A d \in Calls \ {c} : worker'[d] = worker[d]
  BY <1>0, <1>3, <1>4 DEF MatchTypeOK
<1>6. MatchTypeOK'
  BY <1>0, <1>1, <1>5 DEF MatchTypeOK
<1>7. SuccessIsFinal(c)' /\ CallProgress(c)'
  BY <1>0, <1>1, <1>5 DEF InOrder, CallProgress, SuccessIsFinal
<1>8. WorkerProgress(c)'
  BY <1>0, <1>1, <1>5 DEF InOrder, WorkerProgress
<1> QED
  BY <1>1, <1>5, <1>6, <1>7, <1>8, OneMoves DEF InOrder

LEMMA RankStep ==
  ASSUME TypeInvariant, NEW c \in Calls, NEW visible, Rank(c, visible)
  PROVE  MatchTypeOK' /\ RunInvariant'
<1>0. MatchTypeOK /\ InOrder(c)
  BY DEF TypeInvariant, TypeOK, RunInvariant
<1> DEFINE row == [worker[c] EXCEPT !.pc = "store", !.found = {}, !.left = visible]
<1>1. worker[c].pc = "rank" /\ visible \subseteq worker[c].found
      /\ UNCHANGED <<runs, candidates, call, faults, grants>>
  BY DEF Rank, storeVars
<1>2. worker[c] \in Work
  BY <1>0 DEF MatchTypeOK
<1>3. row \in Work /\ row.pc = "store"
  BY <1>1, <1>2 DEF Work, WorkerStage
<1>4. worker' = [worker EXCEPT ![c] = row]
  BY <1>0 DEF Rank, MatchTypeOK
<1> HIDE DEF row
<1>5. /\ worker' \in [Calls -> Work] /\ worker'[c].pc = "store"
      /\ \A d \in Calls \ {c} : worker'[d] = worker[d]
  BY <1>0, <1>3, <1>4 DEF MatchTypeOK
<1>6. MatchTypeOK'
  BY <1>0, <1>1, <1>5 DEF MatchTypeOK
<1>7. SuccessIsFinal(c)' /\ CallProgress(c)'
  BY <1>0, <1>1, <1>5 DEF InOrder, CallProgress, SuccessIsFinal
<1>8. WorkerProgress(c)'
  BY <1>0, <1>1, <1>5 DEF InOrder, WorkerProgress
<1> QED
  BY <1>1, <1>5, <1>6, <1>7, <1>8, OneMoves DEF InOrder

LEMMA StoreCandidatesStep ==
  ASSUME TypeInvariant, NEW c \in Calls, StoreCandidates(c)
  PROVE  MatchTypeOK' /\ RunInvariant'
<1>0. MatchTypeOK /\ InOrder(c)
  BY DEF TypeInvariant, TypeOK, RunInvariant
<1>1. /\ worker[c].pc = "store" /\ GoWorker(c, "look")
      /\ candidates' = [candidates EXCEPT ![c] = worker[c].left]
      /\ UNCHANGED <<runs, call, faults, grants>>
  BY DEF StoreCandidates, storeVars
<1>2. /\ worker' \in [Calls -> Work] /\ worker'[c].pc = "look" /\ worker'[c].left = worker[c].left
      /\ \A d \in Calls \ {c} : worker'[d] = worker[d]
  BY <1>0, <1>1, GoWorkerFacts DEF WorkerStage
<1>3. worker[c].left \in SUBSET Sources
  BY <1>0 DEF MatchTypeOK, Work
<1>4. /\ candidates' \in [Calls -> SUBSET Sources] /\ candidates'[c] = worker[c].left
      /\ \A d \in Calls \ {c} : candidates'[d] = candidates[d]
  BY <1>0, <1>1, <1>3 DEF MatchTypeOK
<1>5. MatchTypeOK'
  BY <1>0, <1>1, <1>2, <1>4 DEF MatchTypeOK
<1>6. SuccessIsFinal(c)' /\ CallProgress(c)'
  BY <1>0, <1>1, <1>2 DEF InOrder, CallProgress, SuccessIsFinal
<1>7. WorkerProgress(c)'
  BY <1>0, <1>1, <1>2, <1>4 DEF InOrder, WorkerProgress
<1> QED
  BY <1>1, <1>2, <1>4, <1>5, <1>6, <1>7, OneMoves DEF InOrder

LEMMA LookForGrantStep ==
  ASSUME TypeInvariant, NEW c \in Calls, NEW x, LookForGrant(c, x)
  PROVE  MatchTypeOK' /\ RunInvariant'
<1>0. MatchTypeOK /\ InOrder(c)
  BY DEF TypeInvariant, TypeOK, RunInvariant
<1> DEFINE pc == IF GrantOf(c, x) \in grants THEN "look" ELSE "insert"
           row == [worker[c] EXCEPT !.left = worker[c].left \ {x}, !.pc = pc, !.next = GrantOf(c, x)]
<1>1. worker[c].pc = "look" /\ x \in worker[c].left
      /\ UNCHANGED <<runs, candidates, call, faults, grants>>
  BY DEF LookForGrant, storeVars
<1>2. worker[c] \in Work /\ x \in Sources /\ runs[c].source \in Sources
  BY <1>0, <1>1 DEF MatchTypeOK, Work, InOrder, WorkerProgress
<1>3. /\ row \in Work /\ row.pc = pc /\ row.left = worker[c].left \ {x} /\ row.next = GrantOf(c, x)
  BY <1>2, GrantOfType DEF Work, WorkerStage
<1>4. worker' = [worker EXCEPT ![c] = row]
  BY <1>0, <1>2 DEF LookForGrant, MatchTypeOK, Work
<1> HIDE DEF row
<1>5. /\ worker' \in [Calls -> Work] /\ worker'[c] = row
      /\ \A d \in Calls \ {c} : worker'[d] = worker[d]
  BY <1>0, <1>3, <1>4 DEF MatchTypeOK
<1>6. MatchTypeOK'
  BY <1>0, <1>1, <1>5 DEF MatchTypeOK
<1>7. \A y : GrantOf(c, y)' = GrantOf(c, y) /\ (Granted(c, y)' <=> Granted(c, y))
  BY <1>1 DEF Granted, GrantOf
<1>8. SuccessIsFinal(c)' /\ CallProgress(c)'
  BY <1>0, <1>1, <1>3, <1>5, <1>7 DEF InOrder, CallProgress, SuccessIsFinal
<1>9. WorkerProgress(c)'
  BY <1>0, <1>1, <1>2, <1>3, <1>5, <1>7 DEF InOrder, WorkerProgress, Granted
<1> QED
  BY <1>1, <1>5, <1>6, <1>8, <1>9, OneMoves DEF InOrder

LEMMA InsertGrantStep ==
  ASSUME TypeInvariant, NEW c \in Calls, InsertGrant(c)
  PROVE  MatchTypeOK' /\ RunInvariant'
<1>0. MatchTypeOK /\ InOrder(c)
  BY DEF TypeInvariant, TypeOK, RunInvariant
<1> DEFINE pc == IF worker[c].next \in grants THEN "failing" ELSE "look"
<1>1. /\ worker[c].pc = "insert" /\ GoWorker(c, pc)
      /\ grants' = grants \cup {worker[c].next}
      /\ UNCHANGED <<runs, candidates, call, faults>>
  BY DEF InsertGrant
<1>2. pc \in WorkerStage /\ pc \in {"failing", "look"}
  BY DEF WorkerStage
<1> HIDE DEF pc
<1>3. /\ worker' \in [Calls -> Work] /\ worker'[c].pc = pc /\ worker'[c].left = worker[c].left
      /\ \A d \in Calls \ {c} : worker'[d] = worker[d]
  BY <1>0, <1>1, <1>2, GoWorkerFacts
<1>4. MatchTypeOK'
  BY <1>0, <1>1, <1>3 DEF MatchTypeOK
<1>5. \A y : GrantOf(c, y)' = GrantOf(c, y)
  BY <1>1 DEF GrantOf
<1>6. \A y : (Granted(c, y) => Granted(c, y)') /\ (worker[c].next = GrantOf(c, y) => Granted(c, y)')
  BY <1>1, <1>5 DEF Granted
<1>7. CallProgress(c)'
  BY <1>0, <1>1, <1>2, <1>3 DEF InOrder, CallProgress
<1>8. SuccessIsFinal(c)'
  BY <1>0, <1>1 DEF InOrder, SuccessIsFinal
<1>9. WorkerProgress(c)'
  BY <1>0, <1>1, <1>2, <1>3, <1>6 DEF InOrder, WorkerProgress, CallProgress
<1> QED
  BY <1>1, <1>3, <1>4, <1>7, <1>8, <1>9, OneMoves DEF InOrder

\* The thread is over: its grants are there, or it says that it failed.
LEMMA EndRunStep ==
  ASSUME TypeInvariant, NEW c \in Calls, FinishRun(c) \/ FailRun(c)
  PROVE  MatchTypeOK' /\ RunInvariant'
<1>0. MatchTypeOK /\ InOrder(c)
  BY DEF TypeInvariant, TypeOK, RunInvariant
<1>1. PICK status \in {"succeeded", "failed"}, count \in Nat :
        /\ SetRun(c, status, count) /\ GoWorker(c, status)
        /\ status = "failed" => worker[c].pc = "failing"
        /\ status = "succeeded" => /\ worker[c].pc = "look" /\ worker[c].left = {}
                                   /\ count = Cardinality(candidates[c])
  <2>1. Cardinality(candidates[c]) \in Nat /\ 0 \in Nat
    BY <1>0, SourcesAreFinite DEF MatchTypeOK
  <2> QED
    BY <2>1 DEF FinishRun, FailRun
<1>2. UNCHANGED <<candidates, call, faults, grants>>
  BY DEF FinishRun, FailRun, storeVars
<1>3. /\ worker' \in [Calls -> Work] /\ worker'[c].pc = status
      /\ \A d \in Calls \ {c} : worker'[d] = worker[d]
  BY <1>0, <1>1, GoWorkerFacts DEF WorkerStage
<1>4. /\ runs' \in [Calls -> Run]
      /\ runs'[c].status = status /\ runs'[c].count = count /\ runs'[c].source = runs[c].source
      /\ \A d \in Calls \ {c} : runs'[d] = runs[d]
  BY <1>0, <1>1, SetRunFacts
<1>5. MatchTypeOK'
  BY <1>0, <1>2, <1>3, <1>4 DEF MatchTypeOK
<1>6. \A y : GrantOf(c, y)' = GrantOf(c, y) /\ (Granted(c, y)' <=> Granted(c, y))
  BY <1>2, <1>4 DEF Granted, GrantOf
<1>7. CallProgress(c)'
  BY <1>0, <1>1, <1>2, <1>3, <1>4 DEF InOrder, CallProgress
<1>8. SuccessIsFinal(c)' /\ WorkerProgress(c)'
  BY <1>0, <1>1, <1>2, <1>3, <1>4, <1>6 DEF InOrder, SuccessIsFinal, WorkerProgress
<1> QED
  BY <1>2, <1>3, <1>4, <1>5, <1>7, <1>8, OneMoves DEF InOrder

LEMMA BreakRunStep ==
  ASSUME TypeInvariant, NEW c \in Calls, RaiseError(c) \/ WorkerStops(c)
  PROVE  MatchTypeOK' /\ RunInvariant'
<1>0. MatchTypeOK /\ InOrder(c)
  BY DEF TypeInvariant, TypeOK, RunInvariant
<1>1. PICK pc \in {"failing", "failed"} : GoWorker(c, pc)
  BY DEF RaiseError, WorkerStops
<1>2. /\ UNCHANGED <<runs, candidates, call, grants>>
      /\ worker[c].pc \in WorkerStage \ {"none", "succeeded", "failed"}
  BY <1>0 DEF RaiseError, WorkerStops, storeVars, MatchTypeOK, Work, WorkerStage
<1>3. faults' \in 0..MaxFaults
  BY <1>0 DEF RaiseError, WorkerStops, MatchTypeOK
<1>4. /\ worker' \in [Calls -> Work] /\ worker'[c].pc = pc
      /\ \A d \in Calls \ {c} : worker'[d] = worker[d]
  BY <1>0, <1>1, GoWorkerFacts DEF WorkerStage
<1>5. MatchTypeOK'
  BY <1>0, <1>2, <1>3, <1>4 DEF MatchTypeOK
<1>6. CallProgress(c)'
  BY <1>0, <1>2, <1>4 DEF InOrder, CallProgress
<1>7. SuccessIsFinal(c)'
  BY <1>0, <1>2 DEF InOrder, SuccessIsFinal
<1>8. WorkerProgress(c)'
  BY <1>0, <1>2, <1>4 DEF InOrder, WorkerProgress, CallProgress
<1> QED
  BY <1>2, <1>4, <1>5, <1>6, <1>7, <1>8, OneMoves DEF InOrder

LEMMA RunTestStep ==
  ASSUME TypeInvariant, NEW c \in Calls, NEW s \in Sources, NEW visible \in SUBSET Sources,
         RunTest(c, s, visible)
  PROVE  MatchTypeOK' /\ RunInvariant'
<1>0. MatchTypeOK /\ InOrder(c)
  BY DEF TypeInvariant, TypeOK, RunInvariant
<1> DEFINE row == [status |-> "succeeded", source |-> s, count |-> Cardinality(visible)]
<1>1. /\ call[c].pc = "idle" /\ GoCall(c, "done")
      /\ runs' = [runs EXCEPT ![c] = row] /\ candidates' = [candidates EXCEPT ![c] = visible]
      /\ grants' = grants \cup {MatchGrant(RequesterOf(s), x) : x \in visible}
      /\ UNCHANGED <<worker, faults>>
  BY DEF RunTest
<1>2. row \in Run
  BY SourcesAreFinite DEF Run
<1>3. /\ call' \in [Calls -> Call] /\ call'[c].pc = "done"
      /\ \A d \in Calls \ {c} : call'[d] = call[d]
  BY <1>0, <1>1, GoCallFacts DEF CallStep
<1>4. /\ runs' \in [Calls -> Run] /\ runs'[c] = row
      /\ \A d \in Calls \ {c} : runs'[d] = runs[d]
  BY <1>0, <1>1, <1>2 DEF MatchTypeOK
<1>5. /\ candidates' \in [Calls -> SUBSET Sources] /\ candidates'[c] = visible
      /\ \A d \in Calls \ {c} : candidates'[d] = candidates[d]
  BY <1>0, <1>1 DEF MatchTypeOK
<1>6. MatchTypeOK'
  BY <1>0, <1>1, <1>3, <1>4, <1>5 DEF MatchTypeOK
<1>7. \A x \in visible : Granted(c, x)'
  BY <1>1, <1>4 DEF Granted, GrantOf
<1>8. worker'[c].pc = "none"
  BY <1>0, <1>1 DEF InOrder, CallProgress
<1>9. CallProgress(c)' /\ WorkerProgress(c)' /\ SuccessIsFinal(c)'
  BY <1>3, <1>4, <1>5, <1>7, <1>8 DEF CallProgress, WorkerProgress, SuccessIsFinal
<1> QED
  BY <1>1, <1>3, <1>4, <1>5, <1>6, <1>9, OneMoves DEF InOrder

LEMMA MatchTypes ==
  ASSUME TypeInvariant, MatchNext
  PROVE  MatchTypeOK' /\ RunInvariant'
<1>1. ASSUME NEW c \in Calls, WorkerStep(c) PROVE MatchTypeOK' /\ RunInvariant'
  BY <1>1, LoadCandidatesStep, RankStep, StoreCandidatesStep, LookForGrantStep, InsertGrantStep,
     EndRunStep DEF WorkerStep
<1> QED
  BY <1>1, CountRunsStep, ApiTypes, BreakRunStep, RunTestStep DEF MatchNext

LEMMA GrantsStayTyped ==
  ASSUME TypeInvariant, MatchNext
  PROVE  /\ grants' \subseteq Grant /\ grants \subseteq grants'
         /\ \A g \in grants' : g \in grants \/ g.source = "match_candidate"
<1>0. MatchTypeOK /\ RunInvariant /\ grants \subseteq Grant
  BY DEF TypeInvariant, TypeOK, StoreTypeOK
<1>1. CASE UNCHANGED grants
  BY <1>0, <1>1
<1>2. ASSUME NEW c \in Calls, InsertGrant(c)
      PROVE  /\ grants' \subseteq Grant /\ grants \subseteq grants'
             /\ \A g \in grants' : g \in grants \/ g.source = "match_candidate"
  <2>1. InOrder(c) /\ worker[c].pc = "insert" /\ grants' = grants \cup {worker[c].next}
    BY <1>0, <1>2 DEF RunInvariant, InsertGrant
  <2>2. PICK x \in candidates[c] : worker[c].next = GrantOf(c, x)
    BY <2>1 DEF InOrder, WorkerProgress
  <2>3. x \in Sources /\ runs[c].source \in Sources
    BY <1>0, <2>1, <2>2 DEF MatchTypeOK, InOrder, WorkerProgress
  <2>4. GrantOf(c, x) \in Grant /\ GrantOf(c, x).source = "match_candidate"
    BY <2>3, GrantOfType DEF GrantOf, MatchGrant
  <2> QED
    BY <1>0, <2>1, <2>2, <2>4
<1>3. ASSUME NEW c \in Calls, NEW s \in Sources, NEW visible \in SUBSET Sources,
             RunTest(c, s, visible)
      PROVE  /\ grants' \subseteq Grant /\ grants \subseteq grants'
             /\ \A g \in grants' : g \in grants \/ g.source = "match_candidate"
  <2>1. grants' = grants \cup {MatchGrant(RequesterOf(s), x) : x \in visible}
    BY <1>3 DEF RunTest
  <2>2. \A x \in visible : /\ MatchGrant(RequesterOf(s), x) \in Grant
                           /\ MatchGrant(RequesterOf(s), x).source = "match_candidate"
    BY MatchGrantType DEF MatchGrant
  <2> QED
    BY <1>0, <2>1, <2>2
<1>4. (\E c \in Calls : InsertGrant(c)) \/ UNCHANGED grants
      \/ (\E c \in Calls, s \in Sources, visible \in SUBSET Sources : RunTest(c, s, visible))
  BY ZenonT(40) DEF MatchNext, CountRuns, ApiStep, InsertRun, AskAi, ReceiveAnswer, CountCandidates,
         MarkRunSucceeded, MarkRunFailed, GiveUp, ApiStops, WorkerStep, LoadCandidates, Rank,
         StoreCandidates, LookForGrant, FinishRun, FailRun, RaiseError, WorkerStops, storeVars
<1> QED
  BY <1>1, <1>2, <1>3, <1>4

LEMMA StoreKept ==
  ASSUME MatchNext
  PROVE  UNCHANGED <<mode, eligible, intros>>
  BY DEF MatchNext, CountRuns, ApiStep, InsertRun, AskAi, ReceiveAnswer, CountCandidates,
         MarkRunSucceeded, MarkRunFailed, GiveUp, ApiStops, WorkerStep, LoadCandidates, Rank,
         StoreCandidates, LookForGrant, InsertGrant, FinishRun, FailRun, RaiseError, WorkerStops,
         RunTest, storeVars

-----------------------------------------------------------------------------
\* Manuscript access

\* The steps of manuscript access, and what is left for the grants and the table.
AccessFacts == StoreTypeOK /\ AccessTypeOK /\ AccessInvariant

LEMMA CheckAskStep ==
  ASSUME AccessFacts, mode = "supabase",
         NEW a \in Asks, NEW p \in Publishers, NEW m \in Manuscripts, CheckAsk(a, p, m)
  PROVE  AccessFacts'
<1> DEFINE row == [status |-> "checked", publisher |-> p, manuscript |-> m]
<1>0. StoreTypeOK /\ AccessTypeOK /\ AccessInvariant
  BY DEF AccessFacts
<1>1. /\ accessRequests[a] = NoRequest /\ ask' = [ask EXCEPT ![a] = row]
      /\ UNCHANGED <<accessRequests, decision, consents>> /\ UNCHANGED <<mode, eligible, grants, intros>>
  BY DEF CheckAsk, storeVars
<1>a. row \in [status : {"checked"}, publisher : Publishers, manuscript : Manuscripts]
  OBVIOUS
<1> HIDE DEF row
<1>2. AccessTypeOK'
  <2>1. ask' \in [Asks -> {NoRequest} \cup
                   [status : {"checked"}, publisher : Publishers, manuscript : Manuscripts]]
    BY <1>0, <1>1, <1>a DEF AccessTypeOK
  <2> QED
    BY <1>0, <1>1, <2>1 DEF AccessTypeOK
<1>3. \A b \in Asks : ask'[b] # NoRequest => b = a \/ ask[b] # NoRequest
  BY <1>0, <1>1 DEF AccessTypeOK
<1>4. AccessInvariant'
  BY <1>0, <1>1, <1>3 DEF AccessInvariant
<1> QED
  BY <1>0, <1>1, <1>2, <1>4 DEF AccessFacts, StoreTypeOK

LEMMA InsertAskStep ==
  ASSUME AccessFacts, NEW a \in Asks, InsertAsk(a)
  PROVE  AccessFacts'
<1> DEFINE row == [ask[a] EXCEPT !.status = "pending"]
<1>0. StoreTypeOK /\ AccessTypeOK /\ AccessInvariant
  BY DEF AccessFacts
<1>1. /\ ask[a] # NoRequest /\ ask' = [ask EXCEPT ![a] = NoRequest]
      /\ accessRequests' = [accessRequests EXCEPT ![a] = row] \/ accessRequests' = accessRequests
      /\ UNCHANGED <<decision, consents>> /\ UNCHANGED <<mode, eligible, grants, intros>>
  BY DEF InsertAsk, storeVars
<1>2. ask[a] \in [status : {"checked"}, publisher : Publishers, manuscript : Manuscripts]
  BY <1>0, <1>1 DEF AccessTypeOK
<1>3. /\ row \in [status : {"pending", "approved", "rejected"},
                  publisher : Publishers, manuscript : Manuscripts]
      /\ row.status = "pending"
  BY <1>2
<1>4. row # NoRequest
  BY <1>3 DEF NoRequest
<1> HIDE DEF row
<1>5. AccessTypeOK'
  BY <1>0, <1>1, <1>3 DEF AccessTypeOK
<1>6. accessRequests[a] = NoRequest /\ mode = "supabase"
  BY <1>0, <1>1 DEF AccessInvariant
<1>7. \A b \in Asks : accessRequests'[b] = accessRequests[b] \/ (b = a /\ accessRequests'[b] = row)
  BY <1>0, <1>1 DEF AccessTypeOK
<1>8. \A b \in Asks : ask'[b] # NoRequest => b # a /\ ask[b] # NoRequest
  BY <1>0, <1>1 DEF AccessTypeOK
<1>9. \A d \in Decisions : decision[d] # IdleDecision => decision[d].request \in Asks \ {a}
  BY <1>0, <1>6 DEF AccessTypeOK, AccessInvariant
<1>10. AccessInvariant'
  <2>1. \A b \in Asks : ask'[b] # NoRequest => accessRequests'[b] = NoRequest /\ mode' = "supabase"
    BY <1>0, <1>1, <1>6, <1>7, <1>8 DEF AccessInvariant
  <2>2. ASSUME NEW d \in Decisions, decision'[d] # IdleDecision
        PROVE  LET r == accessRequests'[decision'[d].request] IN
               /\ r # NoRequest
               /\ decision'[d].pc = "grant" => <<r.publisher, r.manuscript>> \in consents'
    BY <1>0, <1>1, <1>7, <1>9, <2>2 DEF AccessInvariant
  <2>3. \A b \in Asks : accessRequests'[b].status = "approved" =>
          <<accessRequests'[b].publisher, accessRequests'[b].manuscript>> \in consents'
    BY <1>0, <1>1, <1>3, <1>7 DEF AccessInvariant
  <2> QED
    BY <1>0, <1>1, <2>1, <2>2, <2>3 DEF AccessInvariant
<1> QED
  BY <1>0, <1>1, <1>5, <1>10 DEF AccessFacts, StoreTypeOK

LEMMA ReadRequestStep ==
  ASSUME AccessFacts, NEW d \in Decisions, NEW a \in Asks, NEW v \in {"approved", "rejected"},
         ReadRequest(d, a, v)
  PROVE  AccessFacts'
<1> DEFINE row == [pc |-> "update", request |-> a, verdict |-> v]
<1>0. StoreTypeOK /\ AccessTypeOK /\ AccessInvariant
  BY DEF AccessFacts
<1>1. /\ accessRequests[a].status = "pending" /\ decision' = [decision EXCEPT ![d] = row]
      /\ UNCHANGED <<accessRequests, ask, consents>> /\ UNCHANGED <<mode, eligible, grants, intros>>
  BY DEF ReadRequest, storeVars
<1>a. row \in [pc : {"update", "grant"}, request : Asks, verdict : {"approved", "rejected"}]
      /\ row.pc = "update" /\ row.request = a
  OBVIOUS
<1> HIDE DEF row
<1>2. AccessTypeOK'
  <2>1. decision' \in [Decisions -> {IdleDecision} \cup
                        [pc : {"update", "grant"}, request : Asks,
                         verdict : {"approved", "rejected"}]]
    BY <1>0, <1>1, <1>a DEF AccessTypeOK
  <2> QED
    BY <1>0, <1>1, <2>1 DEF AccessTypeOK
<1>3. accessRequests[a] # NoRequest
  BY <1>1 DEF NoRequest
<1>4. \A e \in Decisions : decision'[e] = decision[e] \/ (e = d /\ decision'[e] = row)
  BY <1>0, <1>1 DEF AccessTypeOK
<1>5. AccessInvariant'
  BY <1>0, <1>1, <1>a, <1>3, <1>4 DEF AccessInvariant
<1> QED
  BY <1>0, <1>1, <1>2, <1>5 DEF AccessFacts, StoreTypeOK

\* The row of a request changes its status, and an approval is a consent for it.
LEMMA DecideRow ==
  ASSUME AccessTypeOK, NEW a \in Asks, accessRequests[a] # NoRequest,
         NEW v \in {"approved", "rejected"},
         accessRequests' = [accessRequests EXCEPT ![a].status = v],
         consents' = IF v = "approved"
                     THEN consents \cup {<<accessRequests[a].publisher, accessRequests[a].manuscript>>}
                     ELSE consents
  PROVE  /\ accessRequests' \in [Asks -> {NoRequest} \cup
                             [status : {"pending", "approved", "rejected"},
                              publisher : Publishers, manuscript : Manuscripts]]
         /\ consents \subseteq consents' /\ consents' \subseteq Publishers \X Manuscripts
         /\ accessRequests'[a] # NoRequest /\ accessRequests'[a].status = v
         /\ accessRequests'[a].publisher = accessRequests[a].publisher
         /\ accessRequests'[a].manuscript = accessRequests[a].manuscript
         /\ \A b \in Asks \ {a} : accessRequests'[b] = accessRequests[b]
         /\ v = "approved" =>
              <<accessRequests[a].publisher, accessRequests[a].manuscript>> \in consents'
<1> DEFINE row == [accessRequests[a] EXCEPT !.status = v]
<1>1. accessRequests[a] \in [status : {"pending", "approved", "rejected"},
                              publisher : Publishers, manuscript : Manuscripts]
  BY DEF AccessTypeOK
<1>2. /\ row \in [status : {"pending", "approved", "rejected"},
                  publisher : Publishers, manuscript : Manuscripts]
      /\ row.status = v /\ row.publisher = accessRequests[a].publisher
      /\ row.manuscript = accessRequests[a].manuscript
  BY <1>1
<1>3. row # NoRequest
  BY <1>2 DEF NoRequest
<1>4. accessRequests' = [accessRequests EXCEPT ![a] = row]
  BY <1>1
<1> HIDE DEF row
<1>5. consents' \subseteq Publishers \X Manuscripts /\ consents \subseteq consents'
      /\ (v = "approved" =>
            <<accessRequests[a].publisher, accessRequests[a].manuscript>> \in consents')
  BY <1>1 DEF AccessTypeOK
<1>6. accessRequests' \in [Asks -> {NoRequest} \cup
                             [status : {"pending", "approved", "rejected"},
                              publisher : Publishers, manuscript : Manuscripts]]
  BY <1>2, <1>4 DEF AccessTypeOK
<1>7. accessRequests'[a] = row /\ \A b \in Asks \ {a} : accessRequests'[b] = accessRequests[b]
  BY <1>4 DEF AccessTypeOK
<1> QED
  BY <1>2, <1>3, <1>5, <1>6, <1>7

LEMMA UpdateRequestStep ==
  ASSUME AccessFacts, NEW d \in Decisions, UpdateRequest(d)
  PROVE  AccessFacts'
<1>0. StoreTypeOK /\ AccessTypeOK /\ AccessInvariant
  BY DEF AccessFacts
<1>1. decision[d].pc = "update" /\ UNCHANGED ask /\ UNCHANGED <<mode, eligible, grants, intros>>
  BY DEF UpdateRequest, storeVars
<1>2. decision[d] \in [pc : {"update", "grant"}, request : Asks, verdict : {"approved", "rejected"}]
      /\ decision[d] # IdleDecision
  BY <1>0, <1>1 DEF AccessTypeOK, IdleDecision
<1>3. PICK a \in Asks : decision[d].request = a
  BY <1>2
<1>4. PICK v \in {"approved", "rejected"} : decision[d].verdict = v
  BY <1>2
<1>5. accessRequests[a] # NoRequest
  BY <1>0, <1>2, <1>3 DEF AccessInvariant
<1>6. /\ accessRequests' = [accessRequests EXCEPT ![a].status = v]
      /\ consents' = IF v = "approved"
                     THEN consents \cup {<<accessRequests[a].publisher, accessRequests[a].manuscript>>}
                     ELSE consents
  BY <1>3, <1>4 DEF UpdateRequest
<1> DEFINE next == IF v = "approved" THEN [decision[d] EXCEPT !.pc = "grant"] ELSE IdleDecision
<1>7. decision' = [decision EXCEPT ![d] = next]
  BY <1>0, <1>4 DEF UpdateRequest, AccessTypeOK
<1>8. next \in {IdleDecision} \cup
               [pc : {"update", "grant"}, request : Asks, verdict : {"approved", "rejected"}]
  BY <1>2
<1>9. next # IdleDecision => v = "approved" /\ next.request = a
  BY <1>2, <1>3
<1> HIDE DEF next
<1>10. /\ accessRequests' \in [Asks -> {NoRequest} \cup
                             [status : {"pending", "approved", "rejected"},
                              publisher : Publishers, manuscript : Manuscripts]]
       /\ consents \subseteq consents' /\ consents' \subseteq Publishers \X Manuscripts
       /\ accessRequests'[a] # NoRequest /\ accessRequests'[a].status = v
       /\ accessRequests'[a].publisher = accessRequests[a].publisher
       /\ accessRequests'[a].manuscript = accessRequests[a].manuscript
       /\ \A b \in Asks \ {a} : accessRequests'[b] = accessRequests[b]
       /\ v = "approved" =>
            <<accessRequests[a].publisher, accessRequests[a].manuscript>> \in consents'
  BY ZenonT(40), <1>0, <1>5, <1>6, DecideRow
<1>11. /\ decision' \in [Decisions -> {IdleDecision} \cup
                       [pc : {"update", "grant"}, request : Asks,
                        verdict : {"approved", "rejected"}]]
       /\ decision'[d] = next /\ \A e \in Decisions \ {d} : decision'[e] = decision[e]
  BY <1>0, <1>7, <1>8 DEF AccessTypeOK
<1>12. AccessTypeOK'
  BY <1>0, <1>1, <1>10, <1>11 DEF AccessTypeOK
<1>13. AccessInvariant'
  <2>1. \A b \in Asks : ask'[b] # NoRequest => accessRequests'[b] = NoRequest /\ mode' = "supabase"
    BY <1>0, <1>1, <1>5, <1>10 DEF AccessInvariant
  <2>2. ASSUME NEW e \in Decisions, decision'[e] # IdleDecision
        PROVE  LET r == accessRequests'[decision'[e].request] IN
               /\ r # NoRequest
               /\ decision'[e].pc = "grant" => <<r.publisher, r.manuscript>> \in consents'
    <3>1. CASE e = d
      BY <1>9, <1>10, <1>11, <2>2, <3>1
    <3>2. CASE e # d
      <4>1. decision'[e] = decision[e] /\ decision[e].request \in Asks
        BY <1>0, <1>11, <2>2, <3>2 DEF AccessTypeOK
      <4>2. PICK b \in Asks : decision[e].request = b
        BY <4>1
      <4>3. accessRequests[b] # NoRequest /\ (decision[e].pc = "grant" =>
              <<accessRequests[b].publisher, accessRequests[b].manuscript>> \in consents)
        BY <1>0, <2>2, <4>1, <4>2 DEF AccessInvariant
      <4>4. /\ accessRequests'[b] # NoRequest
            /\ accessRequests'[b].publisher = accessRequests[b].publisher
            /\ accessRequests'[b].manuscript = accessRequests[b].manuscript
        BY <1>10, <4>3
      <4> QED
        BY <1>10, <4>1, <4>2, <4>3, <4>4
    <3> QED
      BY <3>1, <3>2
  <2>3. \A b \in Asks : accessRequests'[b].status = "approved" =>
          <<accessRequests'[b].publisher, accessRequests'[b].manuscript>> \in consents'
    BY <1>0, <1>10 DEF AccessInvariant
  <2> QED
    BY <1>0, <1>1, <1>10, <2>1, <2>2, <2>3 DEF AccessInvariant
<1> QED
  BY <1>0, <1>1, <1>12, <1>13 DEF AccessFacts, StoreTypeOK

\* The grant of a request that is there.
LEMMA AccessGrantType ==
  ASSUME AccessTypeOK, NEW a \in Asks, accessRequests[a] # NoRequest
  PROVE  /\ AccessGrant(a) \in Grant /\ AccessGrant(a).source = "manuscript_access"
         /\ AccessGrant(a).viewer = accessRequests[a].publisher
         /\ AccessGrant(a).manuscript = accessRequests[a].manuscript
<1>1. accessRequests[a] \in [status : {"pending", "approved", "rejected"},
                              publisher : Publishers, manuscript : Manuscripts]
  BY DEF AccessTypeOK
<1> QED
  BY <1>1 DEF AccessGrant, Grant, Profiles

LEMMA GrantStep ==
  ASSUME AccessFacts, NEW d \in Decisions, GrantAccess(d) \/ GrantFails(d)
  PROVE  AccessFacts' /\ grants \subseteq grants'
<1>0. StoreTypeOK /\ AccessTypeOK /\ AccessInvariant
  BY DEF AccessFacts
<1>1. /\ decision[d].pc = "grant" /\ decision' = [decision EXCEPT ![d] = IdleDecision]
      /\ UNCHANGED <<accessRequests, ask, consents, mode, eligible, intros>>
      /\ grants' = grants \/ grants' = grants \cup {AccessGrant(decision[d].request)}
  BY DEF GrantAccess, GrantFails, storeVars
<1>2. PICK a \in Asks : decision[d].request = a /\ decision[d] # IdleDecision
  BY <1>0, <1>1 DEF AccessTypeOK, IdleDecision
<1>3. /\ accessRequests[a] # NoRequest
      /\ <<accessRequests[a].publisher, accessRequests[a].manuscript>> \in consents
  BY <1>0, <1>1, <1>2 DEF AccessInvariant
<1>4. \A g \in grants' : g \in grants \/
        (g \in Grant /\ <<g.viewer, g.manuscript>> \in consents)
  BY <1>0, <1>1, <1>2, <1>3, AccessGrantType
<1>5. /\ decision' \in [Decisions -> {IdleDecision} \cup
                       [pc : {"update", "grant"}, request : Asks,
                        verdict : {"approved", "rejected"}]]
      /\ \A e \in Decisions : decision'[e] # IdleDecision => decision'[e] = decision[e]
  BY <1>0, <1>1 DEF AccessTypeOK
<1>6. StoreTypeOK' /\ AccessTypeOK'
  BY <1>0, <1>1, <1>4, <1>5 DEF StoreTypeOK, AccessTypeOK
<1>7. AccessInvariant'
  BY <1>0, <1>1, <1>4, <1>5 DEF AccessInvariant
<1> QED
  BY <1>1, <1>6, <1>7 DEF AccessFacts

LEMMA AskTestStep ==
  ASSUME AccessFacts, mode = "test",
         NEW a \in Asks, NEW p \in Publishers, NEW m \in Manuscripts, AskTest(a, p, m)
  PROVE  AccessFacts'
<1> DEFINE row == [status |-> "pending", publisher |-> p, manuscript |-> m]
<1>0. StoreTypeOK /\ AccessTypeOK /\ AccessInvariant
  BY DEF AccessFacts
<1>1. /\ accessRequests[a] = NoRequest /\ accessRequests' = [accessRequests EXCEPT ![a] = row]
      /\ UNCHANGED <<ask, decision, consents>> /\ UNCHANGED <<mode, eligible, grants, intros>>
  BY DEF AskTest, storeVars
<1>2. /\ row \in [status : {"pending", "approved", "rejected"},
                  publisher : Publishers, manuscript : Manuscripts]
      /\ row.status = "pending"
  OBVIOUS
<1> HIDE DEF row
<1>3. /\ accessRequests' \in [Asks -> {NoRequest} \cup
                             [status : {"pending", "approved", "rejected"},
                              publisher : Publishers, manuscript : Manuscripts]]
      /\ accessRequests'[a] = row
      /\ \A b \in Asks \ {a} : accessRequests'[b] = accessRequests[b]
  BY <1>0, <1>1, <1>2 DEF AccessTypeOK
<1>4. AccessTypeOK'
  BY <1>0, <1>1, <1>3 DEF AccessTypeOK
<1>5. \A e \in Decisions : decision[e] # IdleDecision => decision[e].request \in Asks \ {a}
  BY <1>0, <1>1 DEF AccessTypeOK, AccessInvariant
<1>6. AccessInvariant'
  <2>1. ASSUME NEW e \in Decisions, decision'[e] # IdleDecision
        PROVE  LET r == accessRequests'[decision'[e].request] IN
               /\ r # NoRequest
               /\ decision'[e].pc = "grant" => <<r.publisher, r.manuscript>> \in consents'
    BY <1>0, <1>1, <1>3, <1>5, <2>1 DEF AccessInvariant
  <2>2. \A b \in Asks : ask'[b] # NoRequest => accessRequests'[b] = NoRequest /\ mode' = "supabase"
    BY <1>0, <1>1 DEF AccessInvariant
  <2>3. \A b \in Asks : accessRequests'[b].status = "approved" =>
          <<accessRequests'[b].publisher, accessRequests'[b].manuscript>> \in consents'
    BY <1>0, <1>1, <1>2, <1>3 DEF AccessInvariant
  <2> QED
    BY <1>0, <1>1, <2>1, <2>2, <2>3 DEF AccessInvariant
<1> QED
  BY <1>0, <1>1, <1>4, <1>6 DEF AccessFacts, StoreTypeOK

LEMMA DecideTestStep ==
  ASSUME AccessFacts, mode = "test",
         NEW a \in Asks, NEW v \in {"approved", "rejected"}, DecideTest(a, v)
  PROVE  AccessFacts' /\ grants \subseteq grants'
<1>0. StoreTypeOK /\ AccessTypeOK /\ AccessInvariant
  BY DEF AccessFacts
<1>1. /\ accessRequests[a].status = "pending"
      /\ accessRequests' = [accessRequests EXCEPT ![a].status = v]
      /\ consents' = IF v = "approved"
                     THEN consents \cup {<<accessRequests[a].publisher, accessRequests[a].manuscript>>}
                     ELSE consents
      /\ grants' = IF v = "approved" THEN grants \cup {AccessGrant(a)} ELSE grants
      /\ UNCHANGED <<ask, decision, mode, eligible, intros>>
  BY DEF DecideTest
<1>2. accessRequests[a] # NoRequest
  BY <1>1 DEF NoRequest
<1>3. /\ accessRequests' \in [Asks -> {NoRequest} \cup
                             [status : {"pending", "approved", "rejected"},
                              publisher : Publishers, manuscript : Manuscripts]]
      /\ consents \subseteq consents' /\ consents' \subseteq Publishers \X Manuscripts
      /\ accessRequests'[a] # NoRequest /\ accessRequests'[a].status = v
      /\ accessRequests'[a].publisher = accessRequests[a].publisher
      /\ accessRequests'[a].manuscript = accessRequests[a].manuscript
      /\ \A b \in Asks \ {a} : accessRequests'[b] = accessRequests[b]
      /\ v = "approved" =>
           <<accessRequests[a].publisher, accessRequests[a].manuscript>> \in consents'
  BY <1>0, <1>1, <1>2, DecideRow
<1>4. \A g \in grants' : g \in grants \/
        (g \in Grant /\ <<g.viewer, g.manuscript>> \in consents')
  BY <1>0, <1>1, <1>2, <1>3, AccessGrantType
<1>5. StoreTypeOK' /\ AccessTypeOK'
  BY <1>0, <1>1, <1>3, <1>4 DEF StoreTypeOK, AccessTypeOK
<1>6. AccessInvariant'
  <2>1. ASSUME NEW e \in Decisions, decision'[e] # IdleDecision
        PROVE  LET r == accessRequests'[decision'[e].request] IN
               /\ r # NoRequest
               /\ decision'[e].pc = "grant" => <<r.publisher, r.manuscript>> \in consents'
    <3>1. decision'[e] = decision[e] /\ decision[e].request \in Asks
      BY <1>0, <1>1, <2>1 DEF AccessTypeOK
    <3>2. PICK b \in Asks : decision[e].request = b
      BY <3>1
    <3>3. accessRequests[b] # NoRequest /\ (decision[e].pc = "grant" =>
            <<accessRequests[b].publisher, accessRequests[b].manuscript>> \in consents)
      BY <1>0, <2>1, <3>1, <3>2 DEF AccessInvariant
    <3>4. /\ accessRequests'[b] # NoRequest
          /\ accessRequests'[b].publisher = accessRequests[b].publisher
          /\ accessRequests'[b].manuscript = accessRequests[b].manuscript
      BY <1>3, <3>3
    <3> QED
      BY <1>3, <3>1, <3>2, <3>3, <3>4
  <2>2. \A b \in Asks : ask'[b] # NoRequest => accessRequests'[b] = NoRequest /\ mode' = "supabase"
    BY <1>0, <1>1, <1>2, <1>3 DEF AccessInvariant
  <2>3. \A b \in Asks : accessRequests'[b].status = "approved" =>
          <<accessRequests'[b].publisher, accessRequests'[b].manuscript>> \in consents'
    BY <1>0, <1>3 DEF AccessInvariant
  <2>4. \A g \in grants' : g.source = "manuscript_access" => <<g.viewer, g.manuscript>> \in consents'
    BY <1>0, <1>3, <1>4 DEF AccessInvariant
  <2> QED
    BY <2>1, <2>2, <2>3, <2>4 DEF AccessInvariant
<1> QED
  BY <1>1, <1>5, <1>6 DEF AccessFacts

LEMMA AccessTypes ==
  ASSUME AccessFacts, AccessNext
  PROVE  AccessFacts' /\ grants \subseteq grants'
<1>1. ASSUME NEW a \in Asks, NEW p \in Publishers, NEW m \in Manuscripts,
             CheckAsk(a, p, m), mode = "supabase"
      PROVE  AccessFacts' /\ grants \subseteq grants'
  BY <1>1, CheckAskStep DEF CheckAsk, storeVars
<1>2. ASSUME NEW a \in Asks, InsertAsk(a)
      PROVE  AccessFacts' /\ grants \subseteq grants'
  BY <1>2, InsertAskStep DEF InsertAsk, storeVars
<1>3. ASSUME NEW d \in Decisions, NEW a \in Asks, NEW v \in {"approved", "rejected"},
             ReadRequest(d, a, v)
      PROVE  AccessFacts' /\ grants \subseteq grants'
  BY <1>3, ReadRequestStep DEF ReadRequest, storeVars
<1>4. ASSUME NEW d \in Decisions, UpdateRequest(d)
      PROVE  AccessFacts' /\ grants \subseteq grants'
  BY <1>4, UpdateRequestStep DEF UpdateRequest, storeVars
<1>5. ASSUME NEW a \in Asks, NEW p \in Publishers, NEW m \in Manuscripts,
             AskTest(a, p, m), mode = "test"
      PROVE  AccessFacts' /\ grants \subseteq grants'
  BY ZenonT(40), <1>5, AskTestStep DEF AskTest, storeVars
<1> QED
  BY <1>1, <1>2, <1>3, <1>4, <1>5, GrantStep, DecideTestStep DEF AccessNext

-----------------------------------------------------------------------------
\* The whole system

\* Nothing of a run changes, and no grant is taken back.
LEMMA MatchFrame ==
  ASSUME TypeInvariant, UNCHANGED matchVars, grants \subseteq grants'
  PROVE  MatchTypeOK' /\ RunInvariant'
<1>1. MatchTypeOK /\ \A d \in Calls : InOrder(d)
  BY DEF TypeInvariant, TypeOK, RunInvariant
<1>2. runs' = runs /\ candidates' = candidates /\ call' = call /\ worker' = worker
      /\ faults' = faults
  BY DEF matchVars
<1>3. MatchTypeOK'
  BY <1>1, <1>2 DEF MatchTypeOK
<1>4. \A d \in Calls : InOrder(d)'
  BY <1>1, <1>2, RunFrame
<1> QED
  BY <1>3, <1>4 DEF RunInvariant

LEMMA GrantsGrow ==
  ASSUME TypeInvariant, [Next]_vars
  PROVE  grants \subseteq grants'
<1>1. AccessFacts
  BY DEF TypeInvariant, TypeOK, AccessFacts
<1>2. CASE MatchNext
  BY <1>2, GrantsStayTyped
<1>3. CASE AccessNext
  BY <1>1, <1>3, AccessTypes
<1>4. ASSUME NEW p \in Publishers, NEW m \in Manuscripts, AcceptIntro(p, m)
      PROVE  grants \subseteq grants'
  BY <1>4 DEF AcceptIntro
<1>5. ASSUME NEW x \in Moderated, Moderate(x)
      PROVE  grants \subseteq grants'
  BY <1>5 DEF Moderate
<1>6. CASE UNCHANGED vars
  BY <1>6 DEF vars, storeVars
<1> QED
  BY <1>2, <1>3, <1>4, <1>5, <1>6 DEF Next

LEMMA TypeStep ==
  ASSUME TypeInvariant, [Next]_vars
  PROVE  TypeInvariant'
<1>0. /\ StoreTypeOK /\ MatchTypeOK /\ AccessTypeOK /\ RunInvariant /\ AccessInvariant
      /\ AccessFacts /\ grants \subseteq grants'
  BY GrantsGrow DEF TypeInvariant, TypeOK, AccessFacts
<1>1. CASE MatchNext /\ UNCHANGED accessVars
  <2>1. MatchTypeOK' /\ RunInvariant'
    BY <1>1, MatchTypes
  <2>2. /\ grants' \subseteq Grant
        /\ \A g \in grants' : g \in grants \/ g.source = "match_candidate"
    BY <1>1, GrantsStayTyped
  <2>3. StoreTypeOK'
    BY <1>0, <1>1, <2>2, StoreKept DEF StoreTypeOK
  <2>4. AccessTypeOK'
    BY <1>0, <1>1 DEF AccessTypeOK, accessVars
  <2>5. AccessInvariant'
    BY <1>0, <1>1, <2>2, StoreKept, AccessFrame
  <2> QED
    BY <2>1, <2>3, <2>4, <2>5 DEF TypeInvariant, TypeOK
<1>2. CASE AccessNext /\ UNCHANGED matchVars
  <2>1. AccessFacts'
    BY <1>0, <1>2, AccessTypes
  <2>2. MatchTypeOK' /\ RunInvariant'
    BY <1>0, <1>2, MatchFrame
  <2> QED
    BY <2>1, <2>2 DEF AccessFacts, TypeInvariant, TypeOK
<1>3. ASSUME UNCHANGED <<mode, grants>>, UNCHANGED matchVars, UNCHANGED accessVars,
             eligible' \subseteq Profiles \cup Manuscripts,
             intros' \subseteq Publishers \X Manuscripts
      PROVE  TypeInvariant'
  <2>1. MatchTypeOK' /\ RunInvariant'
    BY <1>0, <1>3, MatchFrame
  <2>2. StoreTypeOK' /\ AccessTypeOK'
    BY <1>0, <1>3 DEF StoreTypeOK, AccessTypeOK, accessVars
  <2>3. AccessInvariant'
    BY <1>0, <1>3, AccessFrame
  <2> QED
    BY <2>1, <2>2, <2>3 DEF TypeInvariant, TypeOK
<1>4. ASSUME NEW p \in Publishers, NEW m \in Manuscripts, AcceptIntro(p, m)
      PROVE  TypeInvariant'
  BY <1>0, <1>3, <1>4 DEF AcceptIntro, StoreTypeOK
<1>5. ASSUME NEW x \in Moderated, Moderate(x), UNCHANGED matchVars, UNCHANGED accessVars
      PROVE  TypeInvariant'
  <2>1. x \in Profiles \cup Manuscripts
    BY DEF Profiles
  <2>2. eligible' \subseteq Profiles \cup Manuscripts
    BY <1>0, <1>5, <2>1 DEF Moderate, StoreTypeOK
  <2> QED
    BY <1>0, <1>3, <1>5, <2>2 DEF Moderate, StoreTypeOK
<1>6. CASE UNCHANGED vars
  BY <1>0, <1>3, <1>6 DEF vars, storeVars, matchVars, accessVars, StoreTypeOK
<1> QED
  BY <1>1, <1>2, <1>4, <1>5, <1>6 DEF Next

LEMMA TypeAlways == Spec => []TypeInvariant
<1>1. Init => TypeInvariant
  BY TypeInit
<1>2. TypeInvariant /\ [Next]_vars => TypeInvariant'
  BY TypeStep
<1> QED
  BY <1>1, <1>2, PTL DEF Spec

\* The tables of matching and access, the calls, the thread and the rows they are at
\* have their types, whatever fails when.
THEOREM TypeCorrect == Spec => []TypeOK
<1>1. TypeInvariant => TypeOK
  BY DEF TypeInvariant
<1> QED
  BY <1>1, TypeAlways, PTL

-----------------------------------------------------------------------------
\* What a success says

\* The call and the thread both write the row of a run, at different times; a row that
\* says "succeeded" counts the candidates of the run, and its requester can open the
\* profile of each (runSupabaseMatch, process_run).
THEOREM SucceededCorrect == Spec => []SucceededIsComplete
<1>1. TypeInvariant => SucceededIsComplete
  <2> SUFFICES ASSUME TypeInvariant, NEW c \in Calls, runs[c].status = "succeeded"
               PROVE  LET v == RequesterOf(runs[c].source) IN
                      /\ runs[c].count = Cardinality(RunPage(v, c))
                      /\ \A x \in RunPage(v, c) : ProfileShows(v, MatchGrant(v, x).target)
    BY DEF SucceededIsComplete
  <2> DEFINE v == RequesterOf(runs[c].source)
  <2>1. /\ runs[c].count = Cardinality(candidates[c])
        /\ \A x \in candidates[c] : Granted(c, x)
    BY DEF TypeInvariant, RunInvariant, InOrder, SuccessIsFinal
  <2>2. RunPage(v, c) = candidates[c]
    BY DEF RunPage, RunsOf
  <2>3. ASSUME NEW x \in candidates[c]
        PROVE  ProfileShows(v, MatchGrant(v, x).target)
    <3>1. MatchGrant(v, x) \in grants
      BY <2>1, <2>3 DEF Granted, GrantOf
    <3>2. MatchGrant(v, x) \in MatchGrants(v, MatchGrant(v, x).target)
      BY <3>1 DEF MatchGrants, MatchGrant
    <3> QED
      BY <3>2 DEF ProfileShows, MaybeFirst
  <2> QED
    BY <2>1, <2>2, <2>3
<1> QED
  BY <1>1, TypeAlways, PTL

-----------------------------------------------------------------------------
\* What grants rest on

\* Once a run has candidates, they stay and it stays the run of the same requester.
LEMMA CandidatesStay ==
  ASSUME TypeInvariant, [Next]_vars, NEW c \in Calls, candidates[c] # {}
  PROVE  candidates'[c] = candidates[c] /\ runs'[c].source = runs[c].source
<1>0. MatchTypeOK /\ InOrder(c)
  BY DEF TypeInvariant, TypeOK, RunInvariant
<1>1. runs = [d \in Calls |-> runs[d]] /\ candidates = [d \in Calls |-> candidates[d]]
      /\ \A d \in Calls : runs[d] \in Run
  BY <1>0 DEF MatchTypeOK
<1>2. ASSUME NEW d \in Calls, NEW status, NEW count, SetRun(d, status, count)
      PROVE  runs'[c].source = runs[c].source
  BY <1>1, <1>2 DEF SetRun, Run
<1>3. ASSUME NEW d \in Calls, NEW s \in Sources, CountRuns(d, s)
      PROVE  candidates'[c] = candidates[c] /\ runs'[c].source = runs[c].source
  <2>1. d # c
    BY <1>0, <1>3 DEF CountRuns, InOrder, CallProgress, WorkerProgress
  <2> QED
    BY <1>1, <1>3, <2>1 DEF CountRuns
<1>4. ASSUME NEW d \in Calls, StoreCandidates(d)
      PROVE  candidates'[c] = candidates[c] /\ runs'[c].source = runs[c].source
  <2>1. d # c
    BY <1>0, <1>4 DEF StoreCandidates, InOrder, WorkerProgress
  <2> QED
    BY <1>1, <1>4, <2>1 DEF StoreCandidates
<1>5. ASSUME NEW d \in Calls, NEW s \in Sources, NEW visible, RunTest(d, s, visible)
      PROVE  candidates'[c] = candidates[c] /\ runs'[c].source = runs[c].source
  <2>1. d # c
    BY <1>0, <1>5 DEF RunTest, InOrder, CallProgress, WorkerProgress
  <2> QED
    BY <1>1, <1>5, <2>1 DEF RunTest
<1>6. ASSUME NEW d \in Calls, ApiStep(d) \/ GiveUp(d) \/ ApiStops(d)
      PROVE  candidates'[c] = candidates[c] /\ runs'[c].source = runs[c].source
  BY <1>2, <1>6 DEF ApiStep, InsertRun, AskAi, ReceiveAnswer, CountCandidates, MarkRunSucceeded,
                    MarkRunFailed, GiveUp, ApiStops
<1>7. ASSUME NEW d \in Calls, WorkerStep(d) \/ RaiseError(d) \/ WorkerStops(d)
      PROVE  candidates'[c] = candidates[c] /\ runs'[c].source = runs[c].source
  BY <1>2, <1>4, <1>7 DEF WorkerStep, LoadCandidates, Rank, LookForGrant, InsertGrant, FinishRun,
                          FailRun, RaiseError, WorkerStops
<1>8. CASE MatchNext
  BY <1>3, <1>5, <1>6, <1>7, <1>8 DEF MatchNext
<1>9. CASE UNCHANGED matchVars
  BY <1>9 DEF matchVars
<1> QED
  BY <1>8, <1>9 DEF Next, AcceptIntro, vars

\* What a step of matching grants is a grant for a candidate of the run.
LEMMA NewGrantsAreBacked ==
  ASSUME TypeInvariant, TypeInvariant', MatchNext, NEW g \in grants' \ grants
  PROVE  \E c \in Calls : \E x \in candidates'[c] : g = GrantOf(c, x)'
<1>0. MatchTypeOK /\ RunInvariant
  BY DEF TypeInvariant, TypeOK
<1>1. ASSUME NEW c \in Calls, InsertGrant(c)
      PROVE  \E x \in candidates'[c] : g = GrantOf(c, x)'
  <2>1. /\ InOrder(c) /\ worker[c].pc = "insert" /\ g = worker[c].next
        /\ UNCHANGED <<candidates, runs>>
    BY <1>0, <1>1 DEF RunInvariant, InsertGrant
  <2> QED
    BY <2>1 DEF InOrder, WorkerProgress, GrantOf
<1>2. ASSUME NEW c \in Calls, NEW s \in Sources, NEW visible \in SUBSET Sources,
             RunTest(c, s, visible)
      PROVE  \E x \in candidates'[c] : g = GrantOf(c, x)'
  <2>1. g \in {MatchGrant(RequesterOf(s), x) : x \in visible}
    BY <1>2 DEF RunTest
  <2>2. candidates'[c] = visible /\ runs'[c].source = s
    BY <1>0, <1>2 DEF RunTest, MatchTypeOK
  <2> QED
    BY <2>1, <2>2 DEF GrantOf
<1>3. (\E c \in Calls : InsertGrant(c))
      \/ (\E c \in Calls, s \in Sources, visible \in SUBSET Sources : RunTest(c, s, visible))
  BY ZenonT(40) DEF MatchNext, CountRuns, ApiStep, InsertRun, AskAi, ReceiveAnswer, CountCandidates,
         MarkRunSucceeded, MarkRunFailed, GiveUp, ApiStops, WorkerStep, LoadCandidates, Rank,
         StoreCandidates, LookForGrant, FinishRun, FailRun, RaiseError, WorkerStops, storeVars
<1> QED
  BY <1>1, <1>2, <1>3

LEMMA BackedStep ==
  ASSUME TypeInvariant, GrantsAreBacked, [Next]_vars
  PROVE  GrantsAreBacked'
<1>0. TypeInvariant' /\ AccessFacts
  BY TypeStep DEF TypeInvariant, TypeOK, AccessFacts
<1>1. SUFFICES ASSUME NEW g \in grants', g.source = "match_candidate"
               PROVE  \E c \in Calls : \E x \in candidates'[c] : g = GrantOf(c, x)'
  BY DEF GrantsAreBacked
<1>2. CASE g \in grants
  <2>a. PICK c \in Calls : \E x \in candidates[c] : g = GrantOf(c, x)
    BY <1>1, <1>2 DEF GrantsAreBacked
  <2>1. PICK x \in candidates[c] : g = GrantOf(c, x)
    BY <2>a
  <2>2. candidates'[c] = candidates[c] /\ runs'[c].source = runs[c].source
    BY <2>1, CandidatesStay
  <2>3. x \in candidates'[c] /\ g = GrantOf(c, x)'
    BY <2>1, <2>2 DEF GrantOf
  <2> QED
    BY <2>3
<1>3. CASE g \notin grants
  <2>1. CASE MatchNext
    BY <1>0, <1>3, <2>1, NewGrantsAreBacked
  <2>2. ASSUME NEW a \in Asks, accessRequests[a] # NoRequest, g = AccessGrant(a)
        PROVE  FALSE
    BY <1>0, <1>1, <2>2, AccessGrantType DEF AccessFacts
  <2>3. ASSUME NEW d \in Decisions, GrantAccess(d)
        PROVE  FALSE
    <3>1. decision[d] # IdleDecision /\ decision[d].request \in Asks
      BY <1>0, <2>3 DEF GrantAccess, AccessFacts, AccessTypeOK, IdleDecision
    <3>2. accessRequests[decision[d].request] # NoRequest
      BY <1>0, <3>1 DEF AccessFacts, AccessInvariant
    <3> QED
      BY <1>3, <2>2, <2>3, <3>1, <3>2 DEF GrantAccess
  <2>4. ASSUME NEW a \in Asks, NEW v, DecideTest(a, v)
        PROVE  FALSE
    BY <1>3, <2>2, <2>4 DEF DecideTest, NoRequest
  <2>5. CASE AccessNext
    BY <1>3, <2>3, <2>4, <2>5 DEF AccessNext, CheckAsk, InsertAsk, ReadRequest, UpdateRequest,
                                  GrantFails, AskTest, storeVars
  <2> QED
    BY <1>3, <2>1, <2>5 DEF Next, AcceptIntro, Moderate, vars, storeVars
<1> QED
  BY <1>2, <1>3

LEMMA BackedAlways == Spec => [](TypeInvariant /\ GrantsAreBacked)
<1>1. Init => TypeInvariant /\ GrantsAreBacked
  BY TypeInit DEF Init, StoreInit, GrantsAreBacked
<1>2. TypeInvariant /\ GrantsAreBacked /\ [Next]_vars => (TypeInvariant /\ GrantsAreBacked)'
  BY TypeStep, BackedStep
<1> QED
  BY <1>1, <1>2, PTL DEF Spec

\* Matching reveals a profile only to who has it among the candidates of a run,
\* whatever became of that run (insert_profile_access_grants).
THEOREM GrantsCorrect == Spec => []GrantsAreBacked
BY BackedAlways, PTL

-----------------------------------------------------------------------------
\* Who sees a manuscript

\* A publisher that sees a manuscript has something to show for it.
LEMMA ShownIsHeld ==
  ASSUME NEW p \in Publishers, NEW m \in Manuscripts, PageShows(p, m) \/ AuthorPage(p, m) = "full"
  PROVE  GrantsFor(p, m) # {} \/ AccessOf(p, m, "approved") # {} \/ IntrosOf(p, m) # {}
<1>1. CASE PageShows(p, m)
  BY <1>1, SingleIsThere DEF PageShows, PageShowsTest, PageShowsDb
<1>2. CASE AuthorPage(p, m) = "full"
  <2>1. AuthorPageDb(p, m) = "full" => CanViewDb(p, m)
    BY Zenon DEF AuthorPageDb
  <2>2. AuthorPageTest(p, m) = "full" => CanViewTest(p, m)
    BY DEF AuthorPageTest
  <2> QED
    BY <1>2, <2>1, <2>2 DEF AuthorPage, CanViewDb, CanViewTest, MaybeFirst
<1> QED
  BY <1>1, <1>2

\* A publisher sees a manuscript only when one of its runs had it as a candidate, its
\* author approved that, or an intro request for it was accepted.
THEOREM AccessCorrect == Spec => []AccessIsEarned
<1>1. TypeInvariant /\ GrantsAreBacked => AccessIsEarned
  <2> SUFFICES ASSUME TypeInvariant, GrantsAreBacked, NEW p \in Publishers, NEW m \in Manuscripts,
                      PageShows(p, m) \/ AuthorPage(p, m) = "full"
               PROVE  \/ \E c \in Calls : runs[c].source = p /\ m \in candidates[c]
                      \/ <<p, m>> \in consents
                      \/ <<p, m>> \in intros
    BY DEF AccessIsEarned
  <2>0. StoreTypeOK /\ MatchTypeOK /\ RunInvariant /\ AccessInvariant
    BY DEF TypeInvariant, TypeOK
  <2>1. CASE GrantsFor(p, m) # {}
    <3>1. PICK g \in grants : g.viewer = p /\ g.manuscript = m
      BY <2>1 DEF GrantsFor
    <3>2. CASE g.source = "manuscript_access"
      BY <2>0, <3>1, <3>2 DEF AccessInvariant
    <3>3. CASE g.source = "match_candidate"
      <4>a. PICK c \in Calls : \E x \in candidates[c] : g = GrantOf(c, x)
        BY <3>1, <3>3 DEF GrantsAreBacked
      <4>1. PICK x \in candidates[c] : g = GrantOf(c, x)
        BY <4>a
      <4>2. InOrder(c) /\ x \in Sources
        BY <2>0, <4>1 DEF MatchTypeOK, RunInvariant
      <4>3. CASE runs[c].source \in Sources
        BY <3>1, <4>1, <4>2, <4>3, MatchGrantNames DEF GrantOf
      <4>4. CASE runs[c].source = NoManuscript
        <5>1. g.viewer = p /\ g = MatchGrant(RequesterOf(NoManuscript), x)
          BY <3>1, <4>1, <4>4 DEF GrantOf
        <5>2. RequesterOf(NoManuscript) = NoManuscript
          BY DEF RequesterOf
        <5>3. NoManuscript = p
          BY <5>1, <5>2 DEF MatchGrant
        <5> QED
          BY <4>3, <4>4, <5>3 DEF Sources
      <4> QED
        BY <2>0, <4>3, <4>4 DEF MatchTypeOK, Run
    <3> QED
      BY <2>0, <3>1, <3>2, <3>3 DEF StoreTypeOK, Grant
  <2>2. CASE AccessOf(p, m, "approved") # {}
    BY <2>0, <2>2 DEF AccessOf, AccessInvariant
  <2>3. CASE IntrosOf(p, m) # {}
    BY <2>3 DEF IntrosOf
  <2> QED
    BY <2>1, <2>2, <2>3, ShownIsHeld
<1> QED
  BY <1>1, BackedAlways, PTL
=============================================================================
