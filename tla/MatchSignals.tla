----------------------------- MODULE MatchSignals -----------------------------
(***************************************************************************)
(* The thread of a matching run in the AI service (matching_worker.py): it  *)
(* keeps the signals of the texts it meets (match_signal_sources, and their *)
(* vectors in Vertex AI), asks for neighbours on each signal, and ranks the *)
(* candidates.  Runs are concurrent, and the texts are edited meanwhile.    *)
(* Discovery models who may run and what becomes of the result.             *)
(***************************************************************************)
EXTENDS MatchScoring

CONSTANTS ManuscriptIds, PublisherIds, \* numbers, for their order
          Eligible,      \* the ids that list_eligible_... returns
          Runs, SourceOf,
          MaxVersion,    \* bound: texts of an id after the first
          Edited,        \* bound: the ids whose texts are edited
          TextOf,        \* the text of an id in a version
          Indexed,       \* vectors that earlier runs have left
          Jitter,        \* seeded_jitter of a run, a candidate and an axis
          Distances,     \* in hundredths
          NeighborLimit, \* neighbours of a query: 50
          MaxStored      \* candidates of a run: 25

VARIABLES version, \* of the text of an id in the database
          index,   \* the vectors: never deleted
          rows,    \* `match_signal_sources`
          run,     \* the thread of a run
          matches  \* what a run has stored, by rank

signalVars == <<version, index, rows, run, matches>>

Items == ManuscriptIds \cup PublisherIds

Versions == 0..MaxVersion

SignalTypes(x) ==
    IF x \in ManuscriptIds THEN {"premise", "voice", "arc"} ELSE {"guidelines", "wishlist", "catalog"}

\* The order in which the signals are built and asked about.
Place == [premise |-> 1, voice |-> 2, arc |-> 3, guidelines |-> 1, wishlist |-> 2, catalog |-> 3]

Signals == UNION {SignalTypes(x) : x \in Items}

Required == {"premise", "voice", "arc", "guidelines"}

\* build_signal: the words of a signal, which its fingerprint stands for.
Summary(text, signal) ==
    LET fields == CASE signal = "premise" -> {"genre", "subgenres", "audience", "form", "pitch"}
                    [] signal = "voice"      -> {"themes"}
                    [] signal = "arc"        -> {"arc", "topics"}
                    [] signal = "guidelines" -> {"genre", "audience", "form", "topics",
                                                 "guidelines", "looking"}
                    [] signal = "wishlist"   -> {"wishlist", "tone"}
                    [] signal = "catalog"    -> {"catalog"}
    IN  UNION {text[f] : f \in fields}

Summaries == UNION {{Summary(TextOf[x][v], s) : s \in SignalTypes(x)} : x \in Items, v \in Versions}

Vector == [item : Items, signal : Signals, summary : Summaries]

VectorOf(x, signal, text) == [item |-> x, signal |-> signal, summary |-> Summary(text, signal)]

ManuscriptFields == {"genre", "subgenres", "audience", "form", "topics", "pitch", "themes", "arc"}

PublisherFields == {"genre", "audience", "form", "topics", "guidelines", "looking", "tone",
                    "wishlist", "catalog"}

\* The genre of a manuscript is required (`manuscripts`.genre, createManuscriptRequestSchema).
ASSUME TextAssumption ==
    /\ \A x \in ManuscriptIds, v \in Versions :
         DOMAIN TextOf[x][v] = ManuscriptFields /\ TextOf[x][v].genre # {}
    /\ \A x \in PublisherIds, v \in Versions : DOMAIN TextOf[x][v] = PublisherFields
    /\ \A x \in Items, v \in Versions : \A f \in DOMAIN TextOf[x][v] : IsFiniteSet(TextOf[x][v][f])

ASSUME SignalAssumption ==
    /\ Items \subseteq Nat /\ IsFiniteSet(Items)
    /\ ManuscriptIds \cap PublisherIds = {}
    /\ SourceOf \in [Runs -> Items]
    /\ {MaxVersion, NeighborLimit, MaxStored} \subseteq Nat
    /\ Edited \subseteq Items
    /\ Indexed \subseteq Vector
    /\ Jitter \in [Runs -> [Items -> [Axes -> Nat]]]
    /\ Distances \subseteq Int

NoRow == [status |-> "none", summary |-> {}]

Candidates(r) == (IF SourceOf[r] \in ManuscriptIds THEN PublisherIds ELSE ManuscriptIds) \cap Eligible

\* Neither retrieval nor scoring knows a candidate before.
NoHints == [x \in Items |-> [a \in Axes |-> NoHint]]

NoThread == [pc |-> "load", item |-> CHOOSE x \in Items : TRUE, seen |-> [x \in Items |-> 0], asking |-> {},
             answers |-> {}, hints |-> NoHints, left |-> {}]

Similarities == 0..10000

Thread == [pc      : {"load", "embed", "persist", "list", "retrieve", "rank", "succeeded", "failed"},
           item    : Items,
           seen    : [Items -> Versions],
           asking  : SUBSET Signals,
           answers : SUBSET (Items \X Axes \X Similarities),
           hints   : [Items -> [Axes -> Similarities \cup {NoHint}]],
           left    : SUBSET Items]

Row == [status  : {"none", "current", "missing_optional"},
        summary : Summaries \cup {{}}]

MatchRow == [item       : Items,
             band       : {"strong", "moderate", "weak"},
             watchOuts  : SUBSET {"genre", "audience", "form", "topics"},
             mismatches : SUBSET {"genre", "audience", "form", "topics"}]

\* A row never says that a required signal is missing: the run fails instead.
SignalTypeOK ==
    /\ version \in [Items -> Versions]
    /\ index \subseteq Vector
    /\ rows \in [Items -> [Signals -> Row]]
    /\ run \in [Runs -> Thread]
    /\ matches \in [Runs -> Seq(MatchRow)]
    /\ \A x \in Items, s \in Required \cap Signals : rows[x][s].status # "missing_optional"

SignalInit ==
    /\ version = [x \in Items |-> 0]
    /\ index = Indexed
    /\ rows = [x \in Items |-> [s \in Signals |->
                 LET v == VectorOf(x, s, TextOf[x][0]) IN
                 IF s \in SignalTypes(x) /\ v \in Indexed
                 THEN [status |-> "current", summary |-> v.summary] ELSE NoRow]]
    /\ run = [r \in Runs |-> NoThread]
    /\ matches = [r \in Runs |-> <<>>]

\* The text of an id as the run has read it.
Text(r, x) == TextOf[x][run[r].seen[x]]

Source(r) == Text(r, SourceOf[r])
Go(r, pc) == run' = [run EXCEPT ![r].pc = pc]

-----------------------------------------------------------------------------
\* get_match_run, get_manuscript_matching_source and get_publisher_matching_source
LoadSource(r) ==
    /\ run[r].pc = "load"
    /\ LET s == SourceOf[r] IN
       run' = [run EXCEPT ![r].pc = "embed", ![r].item = s, ![r].seen[s] = version[s],
                          ![r].asking = {t \in SignalTypes(s) :
                                          Summary(TextOf[s][version[s]], t) # {}}]
    /\ UNCHANGED <<version, index, rows, matches>>

WithText(r, x) == {s \in SignalTypes(x) : Summary(Text(r, x), s) # {}}

\* build_..._signal_writes: a vector for every signal with text; a request that fails
\* leaves those before it.
EmbedSignals(r, signals) ==
    /\ run[r].pc = "embed"
    /\ LET x == run[r].item IN
       /\ signals \subseteq WithText(r, x)
       /\ index' = index \cup {VectorOf(x, s, Text(r, x)) : s \in signals}
       /\ Go(r, IF signals = WithText(r, x) THEN "persist" ELSE "failed")
    /\ UNCHANGED <<version, rows, matches>>

Missing(r, x) == (SignalTypes(x) \cap Required) \ WithText(r, x)

\* upsert_match_signal_source, for the signals given.
RowsWith(x, signals, text) ==
    [rows EXCEPT ![x] = [s \in Signals |->
        IF s \notin signals THEN @[s]
        ELSE [status  |-> IF Summary(text, s) = {} THEN "missing_optional" ELSE "current",
              summary |-> Summary(text, s)]]]

\* Mutant: the text is read again for the rows.
PersistAfresh(r, signals) ==
    /\ run[r].pc = "persist"
    /\ LET x == run[r].item IN
       /\ signals \subseteq SignalTypes(x) \ Missing(r, x)
       /\ rows' = RowsWith(x, signals, TextOf[x][version[x]])
       /\ Go(r, IF signals # SignalTypes(x) THEN "failed"
                ELSE IF x = SourceOf[r] THEN "list" ELSE "rank")
    /\ UNCHANGED <<version, index, matches>>

\* persist_required_signals: it stops at a required signal without text, and when
\* another run is faster to insert a row.
PersistSignals(r, signals) ==
    /\ run[r].pc = "persist"
    /\ LET x == run[r].item IN
       /\ signals \subseteq SignalTypes(x) \ Missing(r, x)
       /\ rows' = RowsWith(x, signals, Text(r, x))
       /\ Go(r, IF signals # SignalTypes(x) THEN "failed"
                ELSE IF x = SourceOf[r] THEN "list" ELSE "rank")
    /\ UNCHANGED <<version, index, matches>>

\* list_eligible_publishers and list_eligible_manuscripts
ListCandidates(r) ==
    /\ run[r].pc = "list"
    /\ run' = [run EXCEPT ![r].pc = "retrieve",
                 ![r].seen = [x \in Items |-> IF x \in Candidates(r) THEN version[x] ELSE @[x]]]
    /\ UNCHANGED <<version, index, rows, matches>>

TargetSignal(signal) ==
    CASE signal = "premise"    -> "guidelines"
      [] signal = "voice"      -> "wishlist"
      [] signal = "arc"        -> "catalog"
      [] signal = "guidelines" -> "premise"
      [] signal = "wishlist"   -> "arc"
      [] signal = "catalog"    -> "voice"

ScoringAxis(signal) ==
    CASE signal = "guidelines" -> "premise"
      [] signal = "wishlist"   -> "arc"
      [] signal = "catalog"    -> "voice"
      [] OTHER                 -> signal

NextAsked(r) == {s \in run[r].asking : \A t \in run[r].asking : Place[s] <= Place[t]}

\* The vectors that the query for a signal can return.
Answerable(signal) == {v \in index : v.signal = TargetSignal(signal)}

\* Mutant: the neighbour that comes last counts.
LastHint(hint, similarities) ==
    IF similarities = {} THEN hint ELSE CHOOSE s \in similarities : \A t \in similarities : t >= s

BestHint(hint, similarities) == Max(similarities \cup {hint})

\* find_neighbors: an approximate search, which may return any vectors of the signal
\* at any distance, and several versions of the text of an id.
Retrieve(r, signal, distance) ==
    /\ run[r].pc = "retrieve"
    /\ signal \in NextAsked(r)
    /\ Cardinality(DOMAIN distance) <= NeighborLimit
    /\ LET axis == ScoringAxis(signal)
           Near(x) == {DistanceToSimilarity(distance[v]) : v \in {w \in DOMAIN distance : w.item = x}}
       IN  run' = [run EXCEPT
             ![r].asking = @ \ {signal},
             ![r].answers = @ \cup UNION {{<<x, axis, s>> : s \in Near(x)} : x \in Items},
             ![r].hints = [x \in Items |->
                             [run[r].hints[x] EXCEPT ![axis] = BestHint(@, Near(x))]]]
    /\ UNCHANGED <<version, index, rows, matches>>

\* A neighbour that is not on the list is dropped.
Found(r) == {x \in Candidates(r) : \E a \in Axes : run[r].hints[x][a] # NoHint}

StartRanking(r) ==
    /\ run[r].pc = "retrieve"
    /\ run[r].asking = {}
    /\ run' = [run EXCEPT ![r].pc = "rank", ![r].left = Found(r)]
    /\ UNCHANGED <<version, index, rows, matches>>

\* _sync_candidate_signals
SyncCandidate(r, x) ==
    /\ run[r].pc = "rank"
    /\ x \in run[r].left
    /\ run' = [run EXCEPT ![r].pc = "embed", ![r].item = x, ![r].left = @ \ {x}]
    /\ UNCHANGED <<version, index, rows, matches>>

Score(r, x, hints) == FinalScore(Source(r), Text(r, x), hints, Jitter[r][x])

ManuscriptIn(r, x) == IF SourceOf[r] \in ManuscriptIds THEN Source(r) ELSE Text(r, x)

PublisherIn(r, x) == IF SourceOf[r] \in ManuscriptIds THEN Text(r, x) ELSE Source(r)

\* A row of match_candidates: risk_reasons, and the comparison of detail_snapshot.
Match(r, x, score) ==
    [item       |-> x,
     band       |-> ScoreBand(score),
     watchOuts  |-> Penalties(Source(r), Text(r, x)),
     mismatches |-> Mismatches(ManuscriptIn(r, x), PublisherIn(r, x))]

\* _build_candidate_writes and insert_match_candidates, with the explanations.
StoreMatches(r) ==
    /\ run[r].pc = "rank"
    /\ run[r].left = {}
    /\ LET score   == [x \in Found(r) |-> Score(r, x, run[r].hints[x])]
           visible == {x \in Found(r) : score[x] >= VisibleScoreThreshold}
           ranked  == Ranking(visible, score)
           stored  == IF Len(ranked) > MaxStored THEN SubSeq(ranked, 1, MaxStored) ELSE ranked
       IN  matches' = [matches EXCEPT ![r] =
                         [i \in DOMAIN stored |-> Match(r, stored[i], score[stored[i]])]]
    /\ Go(r, "succeeded")
    /\ UNCHANGED <<version, index, rows>>

\* A provider or a request fails, or the paragraphs are not those of the first ten.
CatchError(r) ==
    /\ run[r].pc \in {"load", "list", "retrieve", "rank"}
    /\ Go(r, "failed")
    /\ UNCHANGED <<version, index, rows, matches>>

\* The owner changes the text.
Edit(x) ==
    /\ version[x] < MaxVersion
    /\ version' = [version EXCEPT ![x] = @ + 1]
    /\ UNCHANGED <<index, rows, run, matches>>

SignalNext ==
    \/ \E r \in Runs :
         \/ LoadSource(r) \/ ListCandidates(r) \/ StartRanking(r) \/ StoreMatches(r)
         \/ CatchError(r)
         \/ \E signals \in SUBSET SignalTypes(run[r].item) :
              EmbedSignals(r, signals) \/ PersistSignals(r, signals)
         \/ \E signal \in NextAsked(r) : \E found \in SUBSET Answerable(signal) :
              \E distance \in [found -> Distances] : Retrieve(r, signal, distance)
         \/ \E x \in run[r].left : SyncCandidate(r, x)
    \/ \E x \in Edited : Edit(x)

SignalSpec == SignalInit /\ [][SignalNext]_signalVars

-----------------------------------------------------------------------------
\* Properties

\* A signal that is called current has the vector of the text it summarises, whatever
\* is edited or fails between the vectors and the rows, and whichever run is last
\* (upsert_match_signal_source, create_signal_embedding).
CurrentIsIndexed ==
    \A x \in Items, s \in Signals : rows[x][s].status = "current" =>
        [item |-> x, signal |-> s, summary |-> rows[x][s].summary] \in index

\* The order in which neighbours come, and how often a candidate is among them, does
\* not matter: what a run stores are the best of the candidates found, by the nearest
\* neighbour on each axis, in the order of their scores (_retrieve_candidate_scores,
\* _rank_candidates).
BestAreStored ==
    \A r \in Runs : run[r].pc = "succeeded" =>
        LET found == Candidates(r) \cap {t[1] : t \in run[r].answers}
            Nearest(x, a) == Max({NoHint} \cup {t[3] : t \in {u \in run[r].answers :
                                                           u[1] = x /\ u[2] = a}})
            score == [x \in found |-> Score(r, x, [a \in Axes |-> Nearest(x, a)])]
            stored == [i \in DOMAIN matches[r] |-> matches[r][i].item]
            visible == {x \in found : score[x] >= VisibleScoreThreshold}
        IN  /\ Len(stored) = Min({MaxStored, Cardinality(visible)})
            /\ \A i \in DOMAIN stored :
                 /\ stored[i] \in visible
                 /\ \A x \in visible \ {stored[j] : j \in 1..i} :
                      \/ score[x] < score[stored[i]]
                      \/ score[x] = score[stored[i]] /\ x > stored[i]

\* An author never sees a publisher whose declared limits the manuscript breaks
\* without a watch-out: every mismatch of the comparison is one (build_penalties,
\* comparison_rows).
AuthorIsWarned ==
    \A r \in Runs : SourceOf[r] \in ManuscriptIds =>
        \A i \in DOMAIN matches[r] : matches[r][i].mismatches \subseteq matches[r][i].watchOuts
=============================================================================
