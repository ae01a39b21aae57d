------------------------------- MODULE Accounts -------------------------------
(***************************************************************************)
(* Accounts, the decisions on their profiles, and the notifications that    *)
(* decisions and intro requests write for them.                             *)
(***************************************************************************)
EXTENDS AdminReviews, Notifications

vars == <<accountVars, reviewVars, noticeVars>>

TypeOK ==
    /\ AccountTypeOK /\ ReviewTypeOK /\ NoticeTypeOK
    /\ \A n \in Places \ Free : notices[n].user \in Users /\ profiles[notices[n].user] # NoProfile

Init == AccountInit /\ ReviewInit /\ NoticeInit

-----------------------------------------------------------------------------

\* The trigger on the notifications sends an e-mail with all that it knows.
Mailed == {"approved", "rejected", "quarantined", "intro_request"}

Notice(u, type, review) ==
    [user |-> u, type |-> type, review |-> review, mail |-> type \in Mailed]

\* create_decision_notification_from_audit: nobody hears of the other decisions.
DecisionType(decision) ==
    IF decision \in {"approved", "rejected", "quarantined"} THEN decision ELSE "none"

\* The trigger on the audit log writes in the transaction of the decision.
DecideAndNotify(q, decision) ==
    LET r == desks[q].review IN
    /\ r # 0
    /\ IF Decidable(desks[q].actor, r) /\ DecisionType(decision) # "none"
       THEN \E n \in Free :
              notices' = WithNotice(n, Notice(reviews[r].user, DecisionType(decision), r))
       ELSE UNCHANGED notices
    /\ DecideReview(q, decision)
    /\ UNCHANGED <<read, feeds>>

\* An intro request that concerns the user is created, answered or cancelled.
NotifyIntro(u, n) ==
    /\ n \in Free
    /\ profiles[u] # NoProfile
    /\ notices' = WithNotice(n, Notice(u, "intro_request", 0))
    /\ UNCHANGED <<read, feeds>>
    /\ UNCHANGED accountVars
    /\ UNCHANGED reviewVars

Next ==
    \/ AccountNext /\ UNCHANGED reviewVars /\ UNCHANGED noticeVars
    \/ /\ \/ \E u \in Users \cup {NoUser}, kind \in Kinds : OpenReview(u, kind)
          \/ \E q \in Requests, a \in Users :
               \/ \E r \in Reviewed : TakeReview(q, a, r)
               \/ \E u \in Users : TakeProfile(q, a, u)
          \/ StartListing \/ ListNext \/ CloseListing
       /\ UNCHANGED noticeVars
    \/ \E q \in Requests, decision \in Decisions : DecideAndNotify(q, decision)
    \/ \E u \in Users, n \in Places : NotifyIntro(u, n)
    \/ NoticeNext /\ UNCHANGED accountVars /\ UNCHANGED reviewVars

Spec == Init /\ [][Next]_vars

-----------------------------------------------------------------------------
\* Properties

DecisionsOn(r) == {i \in DOMAIN decisions : decisions[i][1] = r}

\* Two admins decide the same review, or two reviews of a profile, by either route: one
\* decision counts, it is what the review says, and what its owner is told, once
\* (apply_admin_review_decision and the triggers on its audit log).
DecidedOnce ==
    \A r \in Reviewed :
        LET told == {n \in Places : notices[n] # NoNotice /\ notices[n].review = r} IN
        /\ Cardinality(DecisionsOn(r)) <= 1
        /\ Cardinality(told) <= 1
        /\ \A i \in DecisionsOn(r) :
               /\ reviews[r].status = DecidedStatus(decisions[i][2])
               /\ DecisionType(decisions[i][2]) # "none" =>
                      \E n \in told : /\ notices[n].type = decisions[i][2]
                                      /\ notices[n].user = reviews[r].user
                                      /\ notices[n].mail

DecisionsAbout(u) == {i \in DOMAIN decisions : reviews[decisions[i][1]].user = u}

\* A profile with several reviews, at several desks at once, while its owner sends the
\* details: staff decide it at most once, and what is in force is that decision or what
\* the owner sent (apply_admin_review_decision and complete_profile_onboarding_details).
\* The owner's details count after a decision too: README, section 6.
ProfileFollowsLog ==
    \A u \in Users :
        /\ \A i, j \in DecisionsAbout(u) : i = j
        /\ profiles[u].outcome \in {"needs_review", "auto_approved"} \/ DecisionsAbout(u) # {}
        /\ \A i \in DecisionsAbout(u) :
             \/ /\ profiles[u].eligibility = DecidedEligibility(decisions[i][2])
                /\ profiles[u].outcome = DecidedOutcome(decisions[i][2])
             \/ profiles[u].done /\ profiles[u].outcome = "auto_approved"

\* Whoever decides is an admin when the decision takes effect, not only when the
\* request was let in.
OnlyAdminsDecide ==
    [][\A a \in Users :
          Len(decisions') > Len(decisions) /\ decisions'[Len(decisions')][3] = a =>
              admins[a] = "active"]_vars

-----------------------------------------------------------------------------
\* What the properties rest on.

\* A request at a desk is about a profile's review, and somebody's.
DesksAreTaken ==
    \A q \in Requests : desks[q].review # 0 =>
        /\ desks[q].actor \in Users
        /\ desks[q].review \in Reviewed
        /\ reviews[desks[q].review].user \in Users

\* The audit log has one line for a review that is no longer pending, which says what
\* became of it.
LogIsOfReviews ==
    /\ \A i \in DOMAIN decisions :
         /\ decisions[i][1] \in Reviewed
         /\ reviews[decisions[i][1]].status = DecidedStatus(decisions[i][2])
    /\ \A i, j \in DOMAIN decisions : decisions[i][1] = decisions[j][1] => i = j

\* A notification of a decision is for a review that is no longer pending, and for
\* every decision that is told there is one.
NoticesAreOfLog ==
    /\ \A n \in Places \ Free : notices[n].review # 0 =>
         notices[n].review \in Reviewed /\ reviews[notices[n].review].status # "pending"
    /\ \A n, k \in Places \ Free :
         notices[n].review # 0 /\ notices[n].review = notices[k].review => n = k
    /\ \A i \in DOMAIN decisions : DecisionType(decisions[i][2]) # "none" =>
         \E n \in Places : notices[n] = Notice(reviews[decisions[i][1]].user, decisions[i][2],
                                               decisions[i][1])

LogInvariant == DesksAreTaken /\ LogIsOfReviews /\ NoticesAreOfLog
=============================================================================
