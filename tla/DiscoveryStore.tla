--------------------------- MODULE DiscoveryStore ---------------------------
(***************************************************************************)
(* What matching and manuscript access share: who is eligible, the          *)
(* `profile_access_grants` table, and the intro requests that have been     *)
(* accepted.                                                                *)
(***************************************************************************)
EXTENDS Naturals, FiniteSets

CONSTANTS Authors, Publishers, Manuscripts,
          OwnerOf,      \* the author of a manuscript
          NoManuscript, \* manuscript_id is null in a grant for a profile
          Moderated,    \* bound: whose eligibility admins and checks change
          Modes         \* bound: authMode, "supabase" (the database) or "test" (in memory)

ASSUME DiscoveryAssumption ==
    /\ Authors \cap Publishers = {}
    /\ Manuscripts \cap (Authors \cup Publishers) = {}
    /\ OwnerOf \in [Manuscripts -> Authors]
    /\ IsFiniteSet(Manuscripts) /\ IsFiniteSet(Publishers)
    /\ NoManuscript \notin Manuscripts
    /\ Moderated \subseteq Authors \cup Publishers \cup Manuscripts
    /\ Modes \subseteq {"supabase", "test"}

VARIABLES mode,     \* of this process, from its configuration
          eligible, \* profiles that are eligible, and manuscripts that are, with a ready sample
          grants,   \* `profile_access_grants`
          intros    \* pairs <<publisher, manuscript>> with an accepted intro request

storeVars == <<mode, eligible, grants, intros>>

Profiles == Authors \cup Publishers

Grant == [viewer : Profiles, target : Profiles,
          manuscript : Manuscripts \cup {NoManuscript},
          source : {"match_candidate", "manuscript_access"}]

StoreTypeOK ==
    /\ mode \in Modes
    /\ eligible \subseteq Profiles \cup Manuscripts
    /\ grants \subseteq Grant
    /\ intros \subseteq Publishers \X Manuscripts

StoreInit ==
    /\ mode \in Modes
    /\ eligible = Profiles \cup Manuscripts
    /\ grants = {}
    /\ intros = {}

\* Both sides, the manuscript and its sample.
PairEligible(p, m) == {p, m, OwnerOf[m]} \subseteq eligible

\* An admin decides, or an automatic check or a new sample changes the result.
Moderate(x) ==
    /\ eligible' = IF x \in eligible THEN eligible \ {x} ELSE eligible \cup {x}
    /\ UNCHANGED <<mode, grants, intros>>

-----------------------------------------------------------------------------
\* The answer of maybeSingle() without a limit: two rows are an error, and the
\* callers read an error as no row.
MaybeSingle(rows) == Cardinality(rows) = 1

\* With limit(1) it says whether there is any.
MaybeFirst(rows) == rows # {}

GrantsFor(v, m) == {g \in grants : g.viewer = v /\ g.manuscript = m}

MatchGrants(v, t) ==
    {g \in grants : g.viewer = v /\ g.target = t /\ g.source = "match_candidate"}

IntrosOf(p, m) == intros \cap {<<p, m>>}

\* canViewDbProfile, and canViewProfile in memory, for somebody who is no admin.
ProfileShows(v, t) == v = t \/ MaybeFirst(MatchGrants(v, t))
=============================================================================
