-------------------------- MODULE ManuscriptAccess --------------------------
(***************************************************************************)
(* A publisher that has found an author by matching asks to see another     *)
(* manuscript of the author, and the author decides.  The requests of the   *)
(* API read first and write later; between the two anything may happen.     *)
(***************************************************************************)
EXTENDS DiscoveryStore

CONSTANTS Asks,     \* calls of createManuscriptAccessRequest; a request has the id of its call
          Decisions \* calls of decideManuscriptAccessRequest

VARIABLES accessRequests, \* `manuscript_access_requests`
          ask, decision,  \* the calls in progress
          consents        \* history: what authors have approved

accessVars == <<accessRequests, ask, decision, consents>>

NoRequest == [status |-> "none"]

IdleDecision == [pc |-> "idle"]

AccessTypeOK ==
    /\ accessRequests \in [Asks -> {NoRequest} \cup
                             [status : {"pending", "approved", "rejected"},
                              publisher : Publishers, manuscript : Manuscripts]]
    /\ ask \in [Asks -> {NoRequest} \cup
                  [status : {"checked"}, publisher : Publishers, manuscript : Manuscripts]]
    /\ decision \in [Decisions -> {IdleDecision} \cup
                       [pc : {"update", "grant"}, request : Asks,
                        verdict : {"approved", "rejected"}]]
    /\ consents \subseteq Publishers \X Manuscripts

AccessInit ==
    /\ accessRequests = [a \in Asks |-> NoRequest]
    /\ ask = [a \in Asks |-> NoRequest]
    /\ decision = [d \in Decisions |-> IdleDecision]
    /\ consents = {}

AccessOf(p, m, status) ==
    {a \in Asks : /\ accessRequests[a].status = status
                  /\ accessRequests[a].publisher = p
                  /\ accessRequests[a].manuscript = m}

-----------------------------------------------------------------------------
\* Asking

\* hasDbDiscoveredAuthor, without a limit.
HasDiscovered(p, a) == MaybeSingle(MatchGrants(p, a))

MayAsk(p, m) ==
    /\ {p, m} \subseteq eligible
    /\ HasDiscovered(p, OwnerOf[m])
    /\ AccessOf(p, m, "pending") = {}

CheckAsk(a, p, m) ==
    /\ accessRequests[a] = NoRequest
    /\ ask[a] = NoRequest
    /\ MayAsk(p, m)
    /\ ask' = [ask EXCEPT ![a] = [status |-> "checked", publisher |-> p, manuscript |-> m]]
    /\ UNCHANGED <<accessRequests, decision, consents>>
    /\ UNCHANGED storeVars

\* The unique index allows one pending request of a pair.
InsertAsk(a) ==
    /\ ask[a] # NoRequest
    /\ ask' = [ask EXCEPT ![a] = NoRequest]
    /\ accessRequests' =
         IF AccessOf(ask[a].publisher, ask[a].manuscript, "pending") = {}
         THEN [accessRequests EXCEPT ![a] = [ask[a] EXCEPT !.status = "pending"]]
         ELSE accessRequests
    /\ UNCHANGED <<decision, consents>>
    /\ UNCHANGED storeVars

-----------------------------------------------------------------------------
\* Deciding

ReadRequest(d, a, verdict) ==
    /\ decision[d] = IdleDecision
    /\ accessRequests[a].status = "pending"
    /\ decision' = [decision EXCEPT ![d] = [pc |-> "update", request |-> a, verdict |-> verdict]]
    /\ UNCHANGED <<accessRequests, ask, consents>>
    /\ UNCHANGED storeVars

\* Mutant: every decision ends with a grant.
UpdateRequestAndGrant(d) ==
    LET r == decision[d].request IN
    /\ decision[d].pc = "update"
    /\ accessRequests' = [accessRequests EXCEPT ![r].status = decision[d].verdict]
    /\ decision' = [decision EXCEPT ![d].pc = "grant"]
    /\ consents' = IF decision[d].verdict = "approved"
                   THEN consents \cup {<<accessRequests[r].publisher, accessRequests[r].manuscript>>}
                   ELSE consents
    /\ UNCHANGED ask
    /\ UNCHANGED storeVars

\* The update names the request by its id alone.
UpdateRequest(d) ==
    LET r == decision[d].request IN
    /\ decision[d].pc = "update"
    /\ accessRequests' = [accessRequests EXCEPT ![r].status = decision[d].verdict]
    /\ decision' = [decision EXCEPT ![d] = IF @.verdict = "approved"
                                           THEN [@ EXCEPT !.pc = "grant"] ELSE IdleDecision]
    /\ consents' = IF decision[d].verdict = "approved"
                   THEN consents \cup {<<accessRequests[r].publisher, accessRequests[r].manuscript>>}
                   ELSE consents
    /\ UNCHANGED ask
    /\ UNCHANGED storeVars

AccessGrant(a) ==
    [viewer |-> accessRequests[a].publisher,
     target |-> OwnerOf[accessRequests[a].manuscript],
     manuscript |-> accessRequests[a].manuscript,
     source |-> "manuscript_access"]

\* A second grant (error 23505) is as good as the first.
GrantAccess(d) ==
    /\ decision[d].pc = "grant"
    /\ grants' = grants \cup {AccessGrant(decision[d].request)}
    /\ decision' = [decision EXCEPT ![d] = IdleDecision]
    /\ UNCHANGED <<accessRequests, ask, consents, mode, eligible, intros>>

\* The insert fails otherwise: the request stays approved without a grant.
GrantFails(d) ==
    /\ decision[d].pc = "grant"
    /\ decision' = [decision EXCEPT ![d] = IdleDecision]
    /\ UNCHANGED <<accessRequests, ask, consents>>
    /\ UNCHANGED storeVars

\* authMode "test": asking and deciding are one step each, and any grant of a match
\* counts as having found the author.
AskTest(a, p, m) ==
    /\ accessRequests[a] = NoRequest
    /\ {p, m} \subseteq eligible
    /\ MaybeFirst(MatchGrants(p, OwnerOf[m]))
    /\ AccessOf(p, m, "pending") = {}
    /\ accessRequests' = [accessRequests EXCEPT ![a] =
                            [status |-> "pending", publisher |-> p, manuscript |-> m]]
    /\ UNCHANGED <<ask, decision, consents>>
    /\ UNCHANGED storeVars

DecideTest(a, verdict) ==
    /\ accessRequests[a].status = "pending"
    /\ accessRequests' = [accessRequests EXCEPT ![a].status = verdict]
    /\ IF verdict = "approved"
       THEN /\ grants' = grants \cup {AccessGrant(a)}
            /\ consents' = consents \cup {<<accessRequests[a].publisher,
                                             accessRequests[a].manuscript>>}
       ELSE UNCHANGED <<grants, consents>>
    /\ UNCHANGED <<ask, decision, mode, eligible, intros>>

AccessNext ==
    \/ /\ mode = "supabase"
       /\ \/ \E a \in Asks, p \in Publishers, m \in Manuscripts : CheckAsk(a, p, m)
          \/ \E a \in Asks : InsertAsk(a)
          \/ \E d \in Decisions, a \in Asks, v \in {"approved", "rejected"} : ReadRequest(d, a, v)
          \/ \E d \in Decisions : UpdateRequest(d) \/ GrantAccess(d) \/ GrantFails(d)
    \/ /\ mode = "test"
       /\ \/ \E a \in Asks, p \in Publishers, m \in Manuscripts : AskTest(a, p, m)
          \/ \E a \in Asks, v \in {"approved", "rejected"} : DecideTest(a, v)

-----------------------------------------------------------------------------
\* Who sees a manuscript

\* canViewDbManuscript of the manuscript's page (profileAccessDb.ts).
PageShowsDb(p, m) ==
    \/ MaybeSingle(GrantsFor(p, m))
    \/ MaybeSingle(AccessOf(p, m, "approved"))
    \/ MaybeSingle(IntrosOf(p, m))

\* canViewManuscript, in memory.
PageShowsTest(p, m) ==
    GrantsFor(p, m) # {} \/ AccessOf(p, m, "approved") # {} \/ IntrosOf(p, m) # {}

PageShows(p, m) == IF mode = "test" THEN PageShowsTest(p, m) ELSE PageShowsDb(p, m)

\* canViewDbManuscript of the author's page (profileAccessPolicy.ts).
CanViewDb(p, m) ==
    \/ MaybeFirst(GrantsFor(p, m))
    \/ MaybeFirst(AccessOf(p, m, "approved"))
    \/ MaybeFirst(IntrosOf(p, m))

\* hasManuscriptAccess, in memory, which knows no intros.
CanViewTest(p, m) == GrantsFor(p, m) # {} \/ AccessOf(p, m, "approved") # {}

\* How the author's page lists a manuscript to a publisher: in the database only
\* while it is eligible, in memory also when the publisher has access.
AuthorPageDb(p, m) ==
    CASE ~ProfileShows(p, OwnerOf[m]) \/ m \notin eligible -> "hidden"
      [] CanViewDb(p, m) -> "full"
      [] OTHER -> "requestable_teaser"

AuthorPageTest(p, m) ==
    CASE ~ProfileShows(p, OwnerOf[m]) -> "hidden"
      [] CanViewTest(p, m) -> "full"
      [] OTHER -> IF m \in eligible THEN "requestable_teaser" ELSE "hidden"

AuthorPage(p, m) == IF mode = "test" THEN AuthorPageTest(p, m) ELSE AuthorPageDb(p, m)

-----------------------------------------------------------------------------
\* What the properties rest on.

\* A call inserts its own request, a decision is about a request that is there, and
\* what was approved or granted had a consent.
AccessInvariant ==
    /\ \A a \in Asks : ask[a] # NoRequest => accessRequests[a] = NoRequest /\ mode = "supabase"
    /\ \A d \in Decisions : decision[d] # IdleDecision =>
         LET r == accessRequests[decision[d].request] IN
         /\ r # NoRequest
         /\ decision[d].pc = "grant" => <<r.publisher, r.manuscript>> \in consents
    /\ \A a \in Asks : accessRequests[a].status = "approved" =>
         <<accessRequests[a].publisher, accessRequests[a].manuscript>> \in consents
    /\ \A g \in grants : g.source = "manuscript_access" => <<g.viewer, g.manuscript>> \in consents
=============================================================================
