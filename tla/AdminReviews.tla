----------------------------- MODULE AdminReviews -----------------------------
(***************************************************************************)
(* The review queue: the decisions admins make on profiles, side by side,   *)
(* and the page that lists what is pending with one query for each risk and *)
(* queue.  Decisions on documents are in DocumentPipeline.                  *)
(***************************************************************************)
EXTENDS Profiles, Sequences

CONSTANTS Requests,   \* requests of admins for a decision
          Kinds,      \* bound: pairs <<risk, queue>> of the reviews
          MaxReviews, \* bound: reviews that are ever opened
          Limit       \* reviews on a page

Risks == <<"high", "medium", "low">>
Queues == <<"quarantine", "needs_review", "reports", "system_failures">>

\* Documents: reviews that are about no profile.
NoUser == "document"

ASSUME ReviewAssumption ==
    /\ MaxReviews \in Nat /\ Limit \in Nat \ {0}
    /\ NoUser \notin Users
    /\ Kinds \subseteq {Risks[i] : i \in DOMAIN Risks} \X {Queues[i] : i \in DOMAIN Queues}

VARIABLES reviews,   \* `admin_reviews` in the order in which they were submitted
          decisions, \* `admin_audit_logs`: <<review, decision, actor>>
          desks,     \* the admin of a request, and the review it is about to decide
          listing    \* a page in the making: the next query, and what it has

reviewVars == <<reviews, decisions, desks, listing>>

Review == [user : Users \cup {NoUser}, risk : {Risks[i] : i \in DOMAIN Risks},
           queue : {Queues[i] : i \in DOMAIN Queues},
           status : {"pending", "approved", "rejected"},
           outcome : {"needs_review", "admin_approved", "admin_rejected", "quarantined"}]

Decisions == {"approved", "rejected", "quarantined", "restored", "suspended"}

Reviewed == DOMAIN reviews

ReviewTypeOK ==
    /\ reviews \in Seq(Review) /\ Len(reviews) <= MaxReviews
    /\ decisions \in Seq((1..MaxReviews) \X Decisions \X Users)
    /\ desks \in [Requests -> [actor : Users \cup {NoUser}, review : 0..MaxReviews]]
    /\ listing \in [step : Nat, page : Seq(1..MaxReviews), due : SUBSET (1..MaxReviews)]

NoDesk == [actor |-> NoUser, review |-> 0]

NoListing == [step |-> 0, page |-> <<>>, due |-> {}]

ReviewInit ==
    /\ reviews = <<>>
    /\ decisions = <<>>
    /\ desks = [q \in Requests |-> NoDesk]
    /\ listing = NoListing

-----------------------------------------------------------------------------
\* Opening and deciding

\* A review of a profile, which nothing in the repository opens, or of a document.
OpenReview(u, kind) ==
    /\ Len(reviews) < MaxReviews
    /\ u # NoUser => profiles[u] # NoProfile
    /\ reviews' = Append(reviews, [user |-> u, risk |-> kind[1], queue |-> kind[2],
                                   status |-> "pending", outcome |-> "needs_review"])
    /\ UNCHANGED <<decisions, desks, listing>>
    /\ UNCHANGED accountVars

\* requireAdminUser of POST /admin/reviews/:id/decision.
TakeReview(q, a, r) ==
    /\ desks[q] = NoDesk
    /\ MayAdminister(a, "aal2")
    /\ reviews[r].user # NoUser
    /\ desks' = [desks EXCEPT ![q] = [actor |-> a, review |-> r]]
    /\ UNCHANGED <<reviews, decisions, listing>>
    /\ UNCHANGED accountVars

\* POST /admin/profiles/:id/decision looks for the oldest review itself.
PendingProfileReviews(u) ==
    {r \in Reviewed : /\ reviews[r].user = u
                      /\ reviews[r].status = "pending"
                      /\ reviews[r].queue = "needs_review"}

TakeProfile(q, a, u) ==
    /\ desks[q] = NoDesk
    /\ MayAdminister(a, "aal2")
    /\ \E r \in PendingProfileReviews(u) :
        /\ \A s \in PendingProfileReviews(u) : r <= s
        /\ desks' = [desks EXCEPT ![q] = [actor |-> a, review |-> r]]
    /\ UNCHANGED <<reviews, decisions, listing>>
    /\ UNCHANGED accountVars

DecidedStatus(decision) ==
    IF decision \in {"approved", "restored"} THEN "approved" ELSE "rejected"

DecidedEligibility(decision) ==
    CASE decision \in {"approved", "restored"} -> "eligible"
      [] decision = "quarantined" -> "quarantined"
      [] OTHER -> "blocked"

DecidedOutcome(decision) ==
    CASE decision \in {"approved", "restored"} -> "admin_approved"
      [] decision = "quarantined" -> "quarantined"
      [] OTHER -> "admin_rejected"

AwaitsDecision(u) ==
    profiles[u].eligibility = "limited" /\ profiles[u].outcome = "needs_review"

\* Mutant: the rows are updated by their ids only.
DecidableById(a, r) == admins[a] = "active"

\* Mutant: the database trusts the check of the route.
DecidableOnce(a, r) ==
    reviews[r].status = "pending" /\ AwaitsDecision(reviews[r].user)

\* Mutant: the guard is on the review, not on the profile.
DecidableTwice(a, r) == admins[a] = "active" /\ reviews[r].status = "pending"

\* is_admin() and the two guarded updates; one that finds no row undoes the other.
Decidable(a, r) ==
    /\ admins[a] = "active"
    /\ reviews[r].status = "pending"
    /\ AwaitsDecision(reviews[r].user)

\* apply_admin_review_decision.
DecideReview(q, decision) ==
    LET a == desks[q].actor
        r == desks[q].review IN
    /\ r # 0
    /\ desks' = [desks EXCEPT ![q] = NoDesk]
    /\ IF Decidable(a, r)
       THEN /\ reviews' = [reviews EXCEPT ![r] =
                 [@ EXCEPT !.status = DecidedStatus(decision),
                           !.outcome = DecidedOutcome(decision),
                           !.queue = IF decision = "quarantined" THEN "quarantine"
                                                                 ELSE "needs_review"]]
            /\ profiles' = [profiles EXCEPT
                 ![reviews[r].user].eligibility = DecidedEligibility(decision),
                 ![reviews[r].user].outcome = DecidedOutcome(decision)]
            /\ decisions' = Append(decisions, <<r, decision, a>>)
       ELSE UNCHANGED <<reviews, profiles, decisions>>
    /\ UNCHANGED <<admins, signups, grants, listing>>

-----------------------------------------------------------------------------
\* Listing

StepAt(n) == <<Risks[1 + ((n - 1) \div Len(Queues))], Queues[1 + ((n - 1) % Len(Queues))]>>

LastStep == Len(Risks) * Len(Queues)

Pending == {r \in Reviewed : reviews[r].status = "pending"}

StartListing ==
    /\ listing = NoListing
    /\ Pending # {}
    /\ listing' = [step |-> 1, page |-> <<>>, due |-> Pending]
    /\ UNCHANGED <<reviews, decisions, desks>>
    /\ UNCHANGED accountVars

\* Oldest first.
InOrder(set) == CHOOSE s \in [1..Cardinality(set) -> set] :
                    \A i, j \in 1..Cardinality(set) : i < j => s[i] < s[j]

FirstOf(s, n) == IF Len(s) > n THEN SubSeq(s, 1, n) ELSE s

\* Mutant: a query does not filter by the queue, which its order was to take care of.
QueryRisk(n) == FirstOf(InOrder({r \in Pending : reviews[r].risk = StepAt(n)[1]}), Limit)

\* The n-th query of getAdminReviewQueue with status "pending".
Query(n) ==
    FirstOf(InOrder({r \in Pending : <<reviews[r].risk, reviews[r].queue>> = StepAt(n)}),
            Limit - Len(listing.page))

ListNext ==
    /\ listing.step \in 1..LastStep
    /\ listing' = [listing EXCEPT !.step = IF Len(listing.page) < Limit THEN @ + 1
                                                                      ELSE LastStep + 1,
                                  !.page = IF Len(@) < Limit THEN @ \o Query(listing.step) ELSE @]
    /\ UNCHANGED <<reviews, decisions, desks>>
    /\ UNCHANGED accountVars

CloseListing ==
    /\ listing.step > LastStep
    /\ listing' = NoListing
    /\ UNCHANGED <<reviews, decisions, desks>>
    /\ UNCHANGED accountVars

-----------------------------------------------------------------------------
\* Properties

\* Where compareAdminReviews of the in-memory page has a review.
Rank(r) == CHOOSE n \in 1..LastStep : StepAt(n) = <<reviews[r].risk, reviews[r].queue>>

\* A page read with twelve queries, while others decide: it shows no review twice, and
\* one that was pending all the time is missing only when the page is full of reviews
\* that come before it (getAdminReviewQueue).
PageIsComplete ==
    listing.step > LastStep =>
        LET page == listing.page
            shown == {page[i] : i \in DOMAIN page} IN
        /\ Cardinality(shown) = Len(page)
        /\ \A r \in (listing.due \cap Pending) \ shown :
               /\ Len(page) = Limit
               /\ \A s \in shown \cap Pending : Rank(s) <= Rank(r)

-----------------------------------------------------------------------------
\* What the property rests on: the page has what the queries so far were about.
PageInvariant ==
    LET page == listing.page
        shown == {page[i] : i \in DOMAIN page} IN
    /\ shown \cup listing.due \subseteq Reviewed
    /\ Len(page) <= Limit
    /\ \A i, j \in DOMAIN page : page[i] = page[j] => i = j
    /\ \A s \in shown \cap Pending : Rank(s) < listing.step
    /\ \A r \in (listing.due \cap Pending) \ shown : Rank(r) < listing.step =>
           /\ Len(page) = Limit
           /\ \A s \in shown \cap Pending : Rank(s) <= Rank(r)
=============================================================================
