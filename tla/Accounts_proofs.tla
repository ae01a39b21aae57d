---------------------------- MODULE Accounts_proofs ----------------------------
(***************************************************************************)
(* Theorems about Accounts, for any users, admins, requests, reviews and    *)
(* notifications, and any page sizes.                                       *)
(***************************************************************************)
EXTENDS Accounts, FiniteSetTheorems, FunctionTheorems, TLAPS

USE AccountAssumption, ReviewAssumption

-----------------------------------------------------------------------------
\* What the tables hold

Line == Nat \X Decisions \X Users

DecisionNotice == {"approved", "rejected", "quarantined"}

NoticeRow == [user : Users, type : DecisionNotice \cup {"intro_request"}, review : Nat,
              mail : BOOLEAN]

Desk == [actor : Users \cup {NoUser}, review : Nat]

RowsTyped ==
    /\ AccountTypeOK
    /\ reviews \in Seq(Review) /\ Len(reviews) <= MaxReviews
    /\ decisions \in Seq(Line)
    /\ desks \in [Requests -> Desk]
    /\ notices \in [Places -> {NoNotice} \cup NoticeRow]

\* The reviews of profiles, and what was told, are of users that have a profile.
UsersHaveProfiles ==
    /\ \A r \in Reviewed : reviews[r].user \in Users => profiles[reviews[r].user] # NoProfile
    /\ \A n \in Places \ Free : profiles[notices[n].user] # NoProfile

Core == RowsTyped /\ UsersHaveProfiles /\ LogInvariant

\* A notification is not the absence of one.
LEMMA NoticeIsRow ==
  ASSUME NEW u \in Users, NEW r \in Nat, NEW type \in DecisionNotice \cup {"intro_request"}
  PROVE  /\ Notice(u, type, r) \in NoticeRow /\ Notice(u, type, r) # NoNotice
         /\ Notice(u, type, r).user = u /\ Notice(u, type, r).type = type
         /\ Notice(u, type, r).review = r
         /\ type \in DecisionNotice => Notice(u, type, r).mail
<1>1. (type \in Mailed) \in BOOLEAN /\ (type \in DecisionNotice => type \in Mailed)
  BY DEF Mailed, DecisionNotice
<1>2. DOMAIN Notice(u, type, r) = {"user", "type", "review", "mail"}
  BY DEF Notice
<1>3. DOMAIN NoNotice = {"user"}
  BY DEF NoNotice
<1>4. Notice(u, type, r) # NoNotice
  BY <1>2, <1>3
<1>5. Notice(u, type, r) \in NoticeRow
  BY <1>1 DEF Notice, NoticeRow
<1> QED
  BY <1>1, <1>4, <1>5 DEF Notice

LEMMA CoreInit == Init => Core
<1> SUFFICES ASSUME Init PROVE Core
  OBVIOUS
<1>1. reviews = <<>> /\ decisions = <<>> /\ desks = [q \in Requests |-> NoDesk]
      /\ notices = [n \in Places |-> NoNotice] /\ AccountInit
  BY DEF Init, ReviewInit, NoticeInit
<1>2. AccountTypeOK
  BY <1>1 DEF AccountInit, AccountTypeOK, NoProfile, NewProfile, Profile
<1>3. RowsTyped
  BY <1>1, <1>2 DEF RowsTyped, NoDesk, Desk
<1>4. Free = Places /\ Reviewed = {}
  BY <1>1 DEF Free, Reviewed
<1>5. LogInvariant /\ UsersHaveProfiles
  BY <1>1, <1>4 DEF LogInvariant, DesksAreTaken, LogIsOfReviews, NoticesAreOfLog, NoDesk,
                    UsersHaveProfiles
<1> QED
  BY <1>3, <1>5 DEF Core

\* A step that leaves the reviews, the desks, the log and the notifications alone, and
\* keeps the profiles that there are.
LEMMA RowsFrame ==
  ASSUME Core, AccountTypeOK', UNCHANGED <<reviews, decisions, desks, notices>>,
         \A u \in Users : profiles[u] # NoProfile => profiles'[u] # NoProfile
  PROVE  Core'
<1>1. RowsTyped'
  BY DEF Core, RowsTyped
<1>2. Free' = Free /\ Reviewed' = Reviewed
  BY DEF Free, Reviewed
<1>3. LogInvariant'
  BY <1>2 DEF Core, LogInvariant, DesksAreTaken, LogIsOfReviews, NoticesAreOfLog
<1>4. UsersHaveProfiles'
  <2>1. \A n \in Places \ Free : notices[n].user \in Users
    BY DEF Core, RowsTyped, Free, NoticeRow
  <2> QED
    BY <1>2, <2>1 DEF Core, UsersHaveProfiles
<1> QED
  BY <1>1, <1>3, <1>4 DEF Core

-----------------------------------------------------------------------------
\* Accounts

\* What owners do to a profile p: they create it, or send its details.
OwnStep(p, new) ==
    \/ new = p
    \/ new.done /\ new.outcome = "auto_approved"
    \/ p = NoProfile /\ new.outcome = "needs_review"

LEMMA AccountSteps ==
  ASSUME AccountTypeOK, AccountNext
  PROVE  /\ AccountTypeOK'
         /\ \A u \in Users : profiles[u] # NoProfile => profiles'[u] # NoProfile
         /\ \A u \in Users : OwnStep(profiles[u], profiles'[u])
<1>0. /\ profiles \in [Users -> Profile] /\ admins \in [Users -> {"none", "active", "revoked"}]
      /\ signups \in [Users -> {"idle", "insert", "commit"}]
      /\ grants \in [Users -> {"idle", "check", "insert", "commit"}]
  BY DEF AccountTypeOK
<1>1. ASSUME NEW u \in Users, NEW role \in Roles, CommitProfile(u, role)
      PROVE  /\ AccountTypeOK'
             /\ \A v \in Users : profiles[v] # NoProfile => profiles'[v] # NoProfile
             /\ \A v \in Users : OwnStep(profiles[v], profiles'[v])
  <2>1. NewProfile(role) \in Profile /\ NewProfile(role).outcome = "needs_review"
    BY DEF NewProfile, Profile
  <2>2. profiles' = profiles
        \/ (profiles[u] = NoProfile /\ profiles' = [profiles EXCEPT ![u] = NewProfile(role)])
    BY <1>1 DEF CommitProfile
  <2>3. profiles' \in [Users -> Profile]
        /\ \A v \in Users : profiles'[v] = profiles[v]
                            \/ (profiles[v] = NoProfile /\ profiles'[v] = NewProfile(role))
    BY <1>0, <2>1, <2>2
  <2>4. UNCHANGED <<admins, grants>> /\ signups' \in [Users -> {"idle", "insert", "commit"}]
    BY <1>0, <1>1 DEF CommitProfile
  <2>5. \A v \in Users : profiles[v] # NoProfile => profiles'[v] # NoProfile
    BY <2>3
  <2>6. \A v \in Users : OwnStep(profiles[v], profiles'[v])
    BY <2>1, <2>3 DEF OwnStep
  <2> QED
    BY <1>0, <2>3, <2>4, <2>5, <2>6 DEF AccountTypeOK
<1>2. ASSUME NEW u \in Users, NEW role \in Roles, CompleteDetails(u, role)
      PROVE  /\ AccountTypeOK'
             /\ \A v \in Users : profiles[v] # NoProfile => profiles'[v] # NoProfile
             /\ \A v \in Users : OwnStep(profiles[v], profiles'[v])
  <2> DEFINE row == [role |-> role, done |-> TRUE,
                     eligibility |-> "eligible", outcome |-> "auto_approved"]
  <2>1. row \in Profile /\ row.done /\ row.outcome = "auto_approved" /\ row # NoProfile
    BY DEF Profile, NoProfile, NewProfile
  <2>2. profiles' = [profiles EXCEPT ![u] = row] /\ UNCHANGED <<admins, signups, grants>>
    BY <1>2 DEF CompleteDetails
  <2> HIDE DEF row
  <2>3. profiles' \in [Users -> Profile]
        /\ \A v \in Users : profiles'[v] = profiles[v] \/ profiles'[v] = row
    BY <1>0, <2>1, <2>2
  <2> QED
    BY <1>0, <2>1, <2>2, <2>3 DEF AccountTypeOK, OwnStep
<1>3. ASSUME NEW u \in Users, CheckSignup(u) \/ InsertProfile(u)
      PROVE  profiles' = profiles /\ AccountTypeOK'
  BY <1>0, <1>3 DEF CheckSignup, InsertProfile, AccountTypeOK
<1>4. ASSUME NEW u \in Users, RevokeAdmin(u)
      PROVE  profiles' = profiles /\ AccountTypeOK'
  BY <1>0, <1>4 DEF RevokeAdmin, AccountTypeOK
<1>5. ASSUME NEW u \in Users, StartGrant(u) \/ CheckGrant(u) \/ InsertAdmin(u) \/ CommitAdmin(u)
      PROVE  profiles' = profiles /\ AccountTypeOK'
  BY <1>0, <1>5 DEF StartGrant, CheckGrant, InsertAdmin, CommitAdmin, AccountTypeOK
<1> QED
  BY <1>1, <1>2, <1>3, <1>4, <1>5 DEF AccountNext, OwnStep

-----------------------------------------------------------------------------
\* Reviews

\* A desk that is emptied, or that takes a review of a profile.
LEMMA DeskStep ==
  ASSUME Core, NEW q \in Requests, NEW desk \in Desk, desks' = [desks EXCEPT ![q] = desk],
         desk.review # 0 => /\ desk.actor \in Users /\ desk.review \in Reviewed
                            /\ reviews[desk.review].user \in Users,
         UNCHANGED <<reviews, decisions, notices>>, UNCHANGED accountVars
  PROVE  Core'
<1>0. RowsTyped /\ UsersHaveProfiles /\ LogInvariant
  BY DEF Core
<1>1. Free' = Free /\ Reviewed' = Reviewed
  BY DEF Free, Reviewed
<1>2. desks' \in [Requests -> Desk] /\ \A p \in Requests : desks'[p] = desks[p] \/ desks'[p] = desk
  BY <1>0 DEF RowsTyped
<1>3. RowsTyped'
  BY <1>0, <1>2 DEF RowsTyped, AccountTypeOK, accountVars
<1>4. UsersHaveProfiles'
  BY <1>0, <1>1 DEF UsersHaveProfiles, accountVars
<1>5. DesksAreTaken'
  BY <1>0, <1>1, <1>2 DEF LogInvariant, DesksAreTaken
<1>6. LogIsOfReviews' /\ NoticesAreOfLog'
  BY <1>0, <1>1 DEF LogInvariant, LogIsOfReviews, NoticesAreOfLog
<1> QED
  BY <1>3, <1>4, <1>5, <1>6 DEF Core, LogInvariant

LEMMA TakeSteps ==
  ASSUME Core, NEW q \in Requests, NEW a \in Users,
         \/ \E r \in Reviewed : TakeReview(q, a, r)
         \/ \E u \in Users : TakeProfile(q, a, u),
         UNCHANGED notices
  PROVE  Core'
<1>1. reviews \in Seq(Review)
  BY DEF Core, RowsTyped
<1>2. PICK r \in Reviewed : /\ reviews[r].user \in Users
                            /\ desks' = [desks EXCEPT ![q] = [actor |-> a, review |-> r]]
  <2>1. CASE \E r \in Reviewed : TakeReview(q, a, r)
    <3>1. PICK r \in Reviewed : TakeReview(q, a, r)
      BY <2>1
    <3>2. reviews[r] \in Review
      BY <1>1 DEF Reviewed
    <3> QED
      BY <3>1, <3>2 DEF TakeReview, Review
  <2>2. CASE \E u \in Users : TakeProfile(q, a, u)
    BY <2>2 DEF TakeProfile, PendingProfileReviews
  <2> QED
    BY <2>1, <2>2
<1>3. r \in Nat
  BY <1>1 DEF Reviewed
<1>4. UNCHANGED <<reviews, decisions>> /\ UNCHANGED accountVars
  BY DEF TakeReview, TakeProfile
<1>5. [actor |-> a, review |-> r] \in Desk
  BY <1>3 DEF Desk
<1> QED
  BY <1>2, <1>4, <1>5, DeskStep

LEMMA OpenStep ==
  ASSUME Core, NEW u \in Users \cup {NoUser}, NEW kind, OpenReview(u, kind), UNCHANGED notices,
         kind[1] \in {Risks[i] : i \in DOMAIN Risks}, kind[2] \in {Queues[i] : i \in DOMAIN Queues}
  PROVE  Core'
<1> DEFINE row == [user |-> u, risk |-> kind[1], queue |-> kind[2],
                   status |-> "pending", outcome |-> "needs_review"]
<1>0. RowsTyped /\ UsersHaveProfiles /\ LogInvariant /\ reviews \in Seq(Review)
  BY DEF Core, RowsTyped
<1>1. /\ Len(reviews) < MaxReviews /\ (u # NoUser => profiles[u] # NoProfile)
      /\ reviews' = Append(reviews, row)
      /\ UNCHANGED <<decisions, desks>> /\ UNCHANGED accountVars
  BY DEF OpenReview
<1>2. row \in Review /\ row.user = u
  BY DEF Review
<1> HIDE DEF row
<1>3. /\ reviews' \in Seq(Review) /\ Len(reviews') = Len(reviews) + 1
      /\ Reviewed' = Reviewed \cup {Len(reviews) + 1} /\ Reviewed = 1..Len(reviews)
      /\ reviews'[Len(reviews) + 1] = row
      /\ \A r \in Reviewed : reviews'[r] = reviews[r]
  BY <1>0, <1>1, <1>2 DEF Reviewed
<1>4. RowsTyped'
  BY <1>0, <1>1, <1>3 DEF RowsTyped, AccountTypeOK, accountVars
<1>5. Free' = Free
  BY DEF Free
<1>6. UsersHaveProfiles'
  <2>1. u \in Users => profiles[u] # NoProfile
    BY <1>1
  <2> QED
    BY <1>0, <1>1, <1>2, <1>3, <1>5, <2>1 DEF UsersHaveProfiles, accountVars
<1>7. DesksAreTaken'
  BY <1>0, <1>1, <1>3 DEF LogInvariant, DesksAreTaken
<1>8. LogIsOfReviews'
  BY <1>0, <1>1, <1>3 DEF LogInvariant, LogIsOfReviews
<1>9. NoticesAreOfLog'
  BY <1>0, <1>1, <1>3, <1>5 DEF LogInvariant, LogIsOfReviews, NoticesAreOfLog
<1> QED
  BY <1>4, <1>6, <1>7, <1>8, <1>9 DEF Core, LogInvariant

-----------------------------------------------------------------------------
\* Deciding

LEMMA DecidedTypes ==
  ASSUME NEW decision \in Decisions
  PROVE  /\ DecidedStatus(decision) \in {"approved", "rejected"}
         /\ DecidedEligibility(decision) \in {"eligible", "quarantined", "blocked"}
         /\ DecidedEligibility(decision) = "eligible" => DecidedStatus(decision) = "approved"
         /\ DecidedOutcome(decision) \in {"admin_approved", "quarantined", "admin_rejected"}
         /\ DecisionType(decision) \in DecisionNotice \cup {"none"}
         /\ DecisionType(decision) # "none" => DecisionType(decision) = decision
  BY DEF Decisions, DecidedStatus, DecidedEligibility, DecidedOutcome, DecisionType, DecisionNotice

\* A pending review is in no line of the log and in no notification.
LEMMA PendingIsNew ==
  ASSUME Core, NEW r \in Reviewed, reviews[r].status = "pending"
  PROVE  /\ \A i \in DOMAIN decisions : decisions[i][1] # r
         /\ \A n \in Places \ Free : notices[n].review # r
<1>0. RowsTyped /\ LogInvariant
  BY DEF Core
<1>1. ASSUME NEW i \in DOMAIN decisions PROVE decisions[i][1] # r
  <2>1. decisions[i] \in Line
    BY <1>0 DEF RowsTyped
  <2>2. decisions[i][2] \in Decisions
    BY <2>1 DEF Line
  <2>3. reviews[decisions[i][1]].status = DecidedStatus(decisions[i][2])
    BY <1>0 DEF LogInvariant, LogIsOfReviews
  <2> QED
    BY <2>2, <2>3, DecidedTypes
<1>2. r # 0
  BY <1>0 DEF RowsTyped, Reviewed
<1> QED
  BY <1>0, <1>1, <1>2 DEF LogInvariant, NoticesAreOfLog

\* The log is longer by the line of the decision.
LEMMA LogGrows ==
  ASSUME RowsTyped, NEW r \in Nat, NEW decision \in Decisions, NEW a \in Users,
         decisions' = Append(decisions, <<r, decision, a>>)
  PROVE  /\ decisions' \in Seq(Line) /\ Len(decisions') = Len(decisions) + 1
         /\ decisions'[Len(decisions) + 1] = <<r, decision, a>>
         /\ DOMAIN decisions' = (DOMAIN decisions) \cup {Len(decisions) + 1}
         /\ DOMAIN decisions = 1..Len(decisions)
         /\ \A i \in DOMAIN decisions : decisions'[i] = decisions[i]
<1>1. decisions \in Seq(Line) /\ <<r, decision, a>> \in Line
  BY DEF RowsTyped, Line
<1> QED
  BY <1>1

\* What a decision that counts writes, without what it tells.
LEMMA DecideRows ==
  ASSUME Core, NEW q \in Requests, NEW decision \in Decisions, DecideReview(q, decision),
         NEW a, NEW r, a = desks[q].actor, r = desks[q].review, Decidable(a, r)
  PROVE  /\ r \in Reviewed /\ r # 0 /\ r \in Nat /\ a \in Users /\ reviews[r].user \in Users
         /\ admins[a] = "active" /\ reviews[r].status = "pending"
         /\ reviews' \in Seq(Review) /\ Len(reviews') = Len(reviews)
         /\ reviews'[r].user = reviews[r].user
         /\ reviews'[r].status = DecidedStatus(decision)
         /\ \A s \in Reviewed \ {r} : reviews'[s] = reviews[s]
         /\ decisions' = Append(decisions, <<r, decision, a>>)
         /\ desks' \in [Requests -> Desk]
         /\ \A p \in Requests : desks'[p] = desks[p] \/ desks'[p].review = 0
         /\ AccountTypeOK'
         /\ profiles'[reviews[r].user] # NoProfile
         /\ profiles[reviews[r].user].outcome = "needs_review"
         /\ profiles'[reviews[r].user].eligibility = DecidedEligibility(decision)
         /\ profiles'[reviews[r].user].outcome = DecidedOutcome(decision)
         /\ \A u \in Users \ {reviews[r].user} : profiles'[u] = profiles[u]
<1>0. RowsTyped /\ LogInvariant /\ AccountTypeOK /\ reviews \in Seq(Review)
  BY DEF Core, RowsTyped
<1>1. r # 0 /\ desks' = [desks EXCEPT ![q] = NoDesk]
  BY DEF DecideReview
<1>2. a \in Users /\ r \in Reviewed /\ reviews[r].user \in Users /\ r \in Nat
  BY <1>0, <1>1 DEF LogInvariant, DesksAreTaken, Reviewed
<1> DEFINE row == [reviews[r] EXCEPT !.status = DecidedStatus(decision),
                                     !.outcome = DecidedOutcome(decision),
                                     !.queue = IF decision = "quarantined" THEN "quarantine"
                                                                           ELSE "needs_review"]
           u == reviews[r].user
           profile == [profiles[u] EXCEPT !.eligibility = DecidedEligibility(decision),
                                          !.outcome = DecidedOutcome(decision)]
<1>3. /\ reviews' = [reviews EXCEPT ![r] = row]
      /\ profiles' = [profiles EXCEPT ![u].eligibility = DecidedEligibility(decision),
                                      ![u].outcome = DecidedOutcome(decision)]
      /\ decisions' = Append(decisions, <<r, decision, a>>)
      /\ UNCHANGED <<admins, signups, grants>>
  BY DEF DecideReview
<1>4. reviews[r] \in Review
  BY <1>0, <1>2 DEF Reviewed
<1>5. "quarantine" \in {Queues[i] : i \in DOMAIN Queues}
      /\ "needs_review" \in {Queues[i] : i \in DOMAIN Queues}
  <2>1. Queues[1] = "quarantine" /\ Queues[2] = "needs_review" /\ 1 \in DOMAIN Queues
        /\ 2 \in DOMAIN Queues
    BY DEF Queues
  <2> QED
    BY <2>1
<1>6. row \in Review /\ row.user = u /\ row.status = DecidedStatus(decision)
  BY <1>4, <1>5, DecidedTypes DEF Review
<1>7. profiles[u] \in Profile /\ profiles \in [Users -> Profile]
  BY <1>0, <1>2 DEF AccountTypeOK
<1>8. profile \in Profile /\ profile.eligibility = DecidedEligibility(decision)
      /\ profile.outcome = DecidedOutcome(decision)
  BY <1>7, DecidedTypes DEF Profile
<1>9. profile # NoProfile
  BY <1>8, DecidedTypes DEF NoProfile, NewProfile
<1>10. profiles' = [profiles EXCEPT ![u] = profile]
  BY <1>2, <1>3, <1>7 DEF Profile
<1> HIDE DEF row, profile
<1>11. /\ reviews' \in Seq(Review) /\ Len(reviews') = Len(reviews) /\ reviews'[r] = row
       /\ \A s \in Reviewed \ {r} : reviews'[s] = reviews[s]
  BY <1>0, <1>2, <1>3, <1>6 DEF Reviewed
<1>12. /\ profiles' \in [Users -> Profile] /\ profiles'[u] = profile
       /\ \A v \in Users \ {u} : profiles'[v] = profiles[v]
  BY <1>2, <1>7, <1>8, <1>10
<1>13. AccountTypeOK'
  BY <1>0, <1>3, <1>12 DEF AccountTypeOK
<1>14. NoDesk \in Desk /\ NoDesk.review = 0
  BY DEF NoDesk, Desk
<1>15. desks' \in [Requests -> Desk] /\ \A p \in Requests : desks'[p] = desks[p] \/ desks'[p].review = 0
  BY <1>0, <1>1, <1>14 DEF RowsTyped
<1>16. admins[a] = "active" /\ reviews[r].status = "pending" /\ profiles[u].outcome = "needs_review"
  BY DEF Decidable, AwaitsDecision
<1> HIDE DEF u
<1>17. u = reviews[r].user
  BY DEF u
<1> QED
  BY <1>1, <1>2, <1>3, <1>6, <1>8, <1>9, <1>11, <1>12, <1>13, <1>15, <1>16, <1>17

\* One more notification, at a free place.
LEMMA NoticeFacts ==
  ASSUME RowsTyped, NEW n \in Free, NEW notice \in NoticeRow, notice # NoNotice,
         notices' = WithNotice(n, notice)
  PROVE  /\ notices' \in [Places -> {NoNotice} \cup NoticeRow]
         /\ notices'[n] = notice /\ n \in Places
         /\ \A k \in Places \ {n} : notices'[k] = notices[k]
         /\ Places \ Free' = (Places \ Free) \cup {n}
  BY DEF RowsTyped, WithNotice, Free

LEMMA DecideStep ==
  ASSUME Core, NEW q \in Requests, NEW decision \in Decisions, DecideAndNotify(q, decision)
  PROVE  Core'
<1> DEFINE a == desks[q].actor
           r == desks[q].review
           u == reviews[r].user
           type == DecisionType(decision)
<1>0. RowsTyped /\ UsersHaveProfiles /\ LogInvariant /\ DecideReview(q, decision)
  BY DEF Core, DecideAndNotify
<1>1. CASE ~Decidable(a, r)
  <2>1. notices' = notices
    BY <1>1 DEF DecideAndNotify
  <2>2. /\ desks' = [desks EXCEPT ![q] = NoDesk]
        /\ UNCHANGED <<reviews, profiles, decisions, admins, signups, grants>>
    BY <1>0, <1>1 DEF DecideReview
  <2>3. NoDesk \in Desk /\ NoDesk.review = 0
    BY DEF NoDesk, Desk
  <2> QED
    BY <2>1, <2>2, <2>3, DeskStep DEF accountVars
<1>2. CASE Decidable(a, r)
  <2>1. /\ r \in Reviewed /\ r # 0 /\ r \in Nat /\ a \in Users /\ reviews[r].user \in Users
        /\ reviews[r].status = "pending"
        /\ reviews' \in Seq(Review) /\ Len(reviews') = Len(reviews)
        /\ reviews'[r].user = reviews[r].user
        /\ reviews'[r].status = DecidedStatus(decision)
        /\ \A s \in Reviewed \ {r} : reviews'[s] = reviews[s]
        /\ decisions' = Append(decisions, <<r, decision, a>>)
        /\ desks' \in [Requests -> Desk]
        /\ \A p \in Requests : desks'[p] = desks[p] \/ desks'[p].review = 0
        /\ AccountTypeOK'
        /\ profiles'[reviews[r].user] # NoProfile
        /\ \A v \in Users \ {reviews[r].user} : profiles'[v] = profiles[v]
    BY <1>0, <1>2, DecideRows
  <2>2. /\ u \in Users /\ DecidedStatus(decision) # "pending"
        /\ type \in DecisionNotice \cup {"none"} /\ (type # "none" => type = decision)
    BY <2>1, DecidedTypes
  <2>3. \/ type = "none" /\ notices' = notices
        \/ /\ type # "none"
           /\ \E n \in Free : notices' = WithNotice(n, Notice(u, type, r))
    BY <1>2 DEF DecideAndNotify
  <2>4. /\ \A i \in DOMAIN decisions : decisions[i][1] # r
        /\ \A n \in Places \ Free : notices[n].review # r
    BY <2>1, PendingIsNew
  <2>5. /\ decisions' \in Seq(Line) /\ Len(decisions') = Len(decisions) + 1
        /\ decisions'[Len(decisions) + 1] = <<r, decision, a>>
        /\ DOMAIN decisions' = (DOMAIN decisions) \cup {Len(decisions) + 1}
        /\ DOMAIN decisions = 1..Len(decisions)
        /\ \A i \in DOMAIN decisions : decisions'[i] = decisions[i]
    BY <1>0, <2>1, LogGrows
  <2>6. Reviewed' = Reviewed /\ reviews \in Seq(Review)
    BY <1>0, <2>1 DEF Reviewed, RowsTyped
  <2> HIDE DEF a, r, u, type
  <2>7. u = reviews[r].user
    BY DEF u
  <2>8. PICK N \in SUBSET Places :
          /\ notices' \in [Places -> {NoNotice} \cup NoticeRow]
          /\ Places \ Free' = (Places \ Free) \cup N
          /\ \A k \in Places \ N : notices'[k] = notices[k]
          /\ \A n \in N : notices'[n] = Notice(u, type, r) /\ n \in Free
          /\ \A n, k \in N : n = k
          /\ type # "none" => N # {}
          /\ N # {} => type # "none"
    <3>1. CASE type = "none" /\ notices' = notices
      <4>1. Free' = Free
        BY <3>1 DEF Free
      <4> WITNESS {} \in SUBSET Places
      <4> QED
        BY <1>0, <3>1, <4>1 DEF RowsTyped
    <3>2. ASSUME NEW n \in Free, type # "none", notices' = WithNotice(n, Notice(u, type, r))
          PROVE  \E N \in SUBSET Places :
                   /\ notices' \in [Places -> {NoNotice} \cup NoticeRow]
                   /\ Places \ Free' = (Places \ Free) \cup N
                   /\ \A k \in Places \ N : notices'[k] = notices[k]
                   /\ \A k \in N : notices'[k] = Notice(u, type, r) /\ k \in Free
                   /\ \A j, k \in N : j = k
                   /\ type # "none" => N # {}
                   /\ N # {} => type # "none"
      <4>1. Notice(u, type, r) \in NoticeRow /\ Notice(u, type, r) # NoNotice
        BY <2>1, <2>2, <3>2, NoticeIsRow
      <4>2. /\ notices' \in [Places -> {NoNotice} \cup NoticeRow]
            /\ notices'[n] = Notice(u, type, r) /\ n \in Places
            /\ \A k \in Places \ {n} : notices'[k] = notices[k]
            /\ Places \ Free' = (Places \ Free) \cup {n}
        BY <1>0, <3>2, <4>1, NoticeFacts
      <4> WITNESS {n} \in SUBSET Places
      <4> QED
        BY <3>2, <4>2
    <3> QED
      BY <2>3, <3>1, <3>2
  <2>9. \A n \in N : notices'[n].user = u /\ notices'[n].review = r
    BY <2>1, <2>2, <2>8, NoticeIsRow
  <2>10. RowsTyped'
    BY <1>0, <2>1, <2>5, <2>8 DEF RowsTyped
  <2>11. UsersHaveProfiles'
    <3>1. \A s \in Reviewed : reviews'[s].user = reviews[s].user
      BY <2>1
    <3>2. \A v \in Users : profiles[v] # NoProfile => profiles'[v] # NoProfile
      BY <2>1
    <3>3. \A n \in Places \ Free : notices[n].user \in Users
      BY <1>0 DEF RowsTyped, Free, NoticeRow
    <3>4. \A n \in Places \ Free' : profiles'[notices'[n].user] # NoProfile
      BY <1>0, <2>1, <2>7, <2>8, <2>9, <3>2, <3>3 DEF UsersHaveProfiles
    <3> QED
      BY <1>0, <2>6, <3>1, <3>2, <3>4 DEF UsersHaveProfiles
  <2>12. DesksAreTaken'
    <3>1. \A s \in Reviewed : reviews'[s].user = reviews[s].user
      BY <2>1
    <3> SUFFICES ASSUME NEW p \in Requests, desks'[p].review # 0
                 PROVE  /\ desks'[p].actor \in Users
                        /\ desks'[p].review \in Reviewed'
                        /\ reviews'[desks'[p].review].user \in Users
      BY DEF DesksAreTaken
    <3>2. desks'[p] = desks[p]
      BY <2>1
    <3>3. /\ desks[p].actor \in Users /\ desks[p].review \in Reviewed
          /\ reviews[desks[p].review].user \in Users
      BY <1>0, <3>2 DEF LogInvariant, DesksAreTaken
    <3> QED
      BY <2>6, <3>1, <3>2, <3>3
  <2>13. LogIsOfReviews'
    <3>1. \A i \in DOMAIN decisions : decisions[i][1] \in Reviewed \ {r}
      BY <1>0, <2>4 DEF LogInvariant, LogIsOfReviews
    <3>2. ASSUME NEW i \in DOMAIN decisions'
          PROVE  /\ decisions'[i][1] \in Reviewed'
                 /\ reviews'[decisions'[i][1]].status = DecidedStatus(decisions'[i][2])
      <4>1. CASE i \in DOMAIN decisions
        <5>1. decisions'[i] = decisions[i] /\ decisions[i][1] \in Reviewed \ {r}
          BY <2>5, <3>1, <4>1
        <5>2. reviews'[decisions[i][1]] = reviews[decisions[i][1]]
          BY <2>1, <5>1
        <5>3. reviews[decisions[i][1]].status = DecidedStatus(decisions[i][2])
          BY <1>0, <4>1 DEF LogInvariant, LogIsOfReviews
        <5> QED
          BY <2>6, <5>1, <5>2, <5>3
      <4>2. CASE i = Len(decisions) + 1
        <5>1. decisions'[i][1] = r /\ decisions'[i][2] = decision
          BY <2>5, <4>2
        <5> QED
          BY <2>1, <2>6, <5>1
      <4> QED
        BY <2>5, <4>1, <4>2
    <3>3. ASSUME NEW i \in DOMAIN decisions', NEW j \in DOMAIN decisions',
                 decisions'[i][1] = decisions'[j][1]
          PROVE  i = j
      BY <1>0, <2>4, <2>5, <3>3 DEF LogInvariant, LogIsOfReviews
    <3> QED
      BY <3>2, <3>3 DEF LogIsOfReviews
  <2>14. NoticesAreOfLog'
    <3>1. ASSUME NEW n \in Places \ Free', notices'[n].review # 0
          PROVE  notices'[n].review \in Reviewed' /\ reviews'[notices'[n].review].status # "pending"
      <4>1. CASE n \in N
        BY <2>1, <2>2, <2>6, <2>9, <4>1
      <4>2. CASE n \notin N
        <5>1. n \in Places \ Free /\ notices'[n] = notices[n]
          BY <2>8, <4>2
        <5>2. notices[n].review \in Reviewed /\ reviews[notices[n].review].status # "pending"
          BY <1>0, <3>1, <5>1 DEF LogInvariant, NoticesAreOfLog
        <5>3. notices[n].review # r
          BY <2>4, <5>1
        <5> QED
          BY ZenonT(40), <2>1, <2>6, <5>1, <5>2, <5>3
      <4> QED
        BY <4>1, <4>2
    <3>2. ASSUME NEW n \in Places \ Free', NEW k \in Places \ Free',
                 notices'[n].review # 0, notices'[n].review = notices'[k].review
          PROVE  n = k
      BY <1>0, <2>4, <2>8, <2>9, <3>2 DEF LogInvariant, NoticesAreOfLog
    <3>3. ASSUME NEW i \in DOMAIN decisions', DecisionType(decisions'[i][2]) # "none"
          PROVE  \E n \in Places : notices'[n] = Notice(reviews'[decisions'[i][1]].user,
                                                         decisions'[i][2], decisions'[i][1])
      <4>1. CASE i \in DOMAIN decisions
        <5>1. /\ decisions'[i] = decisions[i] /\ decisions[i][1] \in Reviewed \ {r}
              /\ reviews'[decisions[i][1]] = reviews[decisions[i][1]]
          BY <1>0, <2>1, <2>4, <2>5, <4>1 DEF LogInvariant, LogIsOfReviews
        <5>2. PICK n \in Places : notices[n] = Notice(reviews[decisions[i][1]].user,
                                                      decisions[i][2], decisions[i][1])
          BY <1>0, <3>3, <4>1, <5>1 DEF LogInvariant, NoticesAreOfLog
        <5>3. decisions[i] \in Line
          BY <1>0, <4>1 DEF RowsTyped
        <5>4. decisions[i][1] \in Nat /\ decisions[i][2] \in Decisions
          BY <5>3 DEF Line
        <5>5. decisions[i][2] \in DecisionNotice
          BY <3>3, <5>1, <5>4, DecidedTypes
        <5>6. notices[n].review = decisions[i][1]
          BY <5>2 DEF Notice
        <5>7. notices[n] # NoNotice
          <6>1. DOMAIN notices[n] = {"user", "type", "review", "mail"}
            BY <5>2 DEF Notice
          <6>2. DOMAIN NoNotice = {"user"}
            BY DEF NoNotice
          <6> QED
            BY <6>1, <6>2
        <5>8. n \notin N
          BY <2>8, <5>7 DEF Free
        <5> QED
          BY <2>8, <5>1, <5>2, <5>8
      <4>2. CASE i = Len(decisions) + 1
        <5>1. decisions'[i] = <<r, decision, a>>
          BY <2>5, <4>2
        <5>a. decisions'[i][2] = decision
          BY <5>1
        <5>b. type # "none"
          BY <3>3, <5>a DEF type
        <5>2. PICK n \in N : TRUE
          BY <2>8, <5>b
        <5>3. notices'[n] = Notice(u, decision, r)
          BY <2>2, <2>8, <5>2
        <5> QED
          BY <2>1, <2>7, <5>1, <5>2, <5>3
      <4> QED
        BY <2>5, <4>1, <4>2
    <3> QED
      BY <3>1, <3>2, <3>3 DEF NoticesAreOfLog
  <2> QED
    BY <2>10, <2>11, <2>12, <2>13, <2>14 DEF Core, LogInvariant
<1> QED
  BY <1>1, <1>2

LEMMA IntroStep ==
  ASSUME Core, NEW u \in Users, NEW n \in Places, NotifyIntro(u, n)
  PROVE  Core'
<1> DEFINE notice == Notice(u, "intro_request", 0)
<1>0. RowsTyped /\ UsersHaveProfiles /\ LogInvariant
  BY DEF Core
<1>1. n \in Free /\ profiles[u] # NoProfile /\ notices' = WithNotice(n, notice)
      /\ UNCHANGED accountVars /\ UNCHANGED reviewVars
  BY DEF NotifyIntro
<1>2. notice \in NoticeRow /\ notice # NoNotice /\ notice.user = u /\ notice.review = 0
  BY NoticeIsRow
<1> HIDE DEF notice
<1>3. /\ notices' \in [Places -> {NoNotice} \cup NoticeRow]
      /\ notices'[n] = notice
      /\ \A k \in Places \ {n} : notices'[k] = notices[k]
      /\ Places \ Free' = (Places \ Free) \cup {n}
  BY <1>0, <1>1, <1>2, NoticeFacts
<1>4. Reviewed' = Reviewed /\ UNCHANGED <<reviews, decisions, desks, profiles>>
  BY <1>1 DEF Reviewed, reviewVars, accountVars
<1>5. RowsTyped'
  BY <1>0, <1>1, <1>3 DEF RowsTyped, AccountTypeOK, reviewVars, accountVars
<1>6. UsersHaveProfiles'
  BY <1>0, <1>1, <1>2, <1>3, <1>4 DEF UsersHaveProfiles
<1>7. DesksAreTaken' /\ LogIsOfReviews'
  BY <1>0, <1>4 DEF LogInvariant, DesksAreTaken, LogIsOfReviews
<1>8. NoticesAreOfLog'
  <2>1. \A k \in Places \ Free' : notices'[k].review # 0 => k \in Places \ Free /\ notices'[k] = notices[k]
    BY <1>2, <1>3
  <2>2. ASSUME NEW i \in DOMAIN decisions, DecisionType(decisions[i][2]) # "none"
        PROVE  \E k \in Places : notices'[k] = Notice(reviews[decisions[i][1]].user,
                                                       decisions[i][2], decisions[i][1])
    <3>1. PICK k \in Places : notices[k] = Notice(reviews[decisions[i][1]].user,
                                                  decisions[i][2], decisions[i][1])
      BY <1>0, <2>2 DEF LogInvariant, NoticesAreOfLog
    <3>2. notices[k] # NoNotice
      <4>1. DOMAIN notices[k] = {"user", "type", "review", "mail"}
        BY <3>1 DEF Notice
      <4>2. DOMAIN NoNotice = {"user"}
        BY DEF NoNotice
      <4> QED
        BY <4>1, <4>2
    <3>3. k # n
      BY <1>1, <3>2 DEF Free
    <3> QED
      BY <1>3, <3>1, <3>3
  <2>3. ASSUME NEW k \in Places \ Free', notices'[k].review # 0
        PROVE  notices'[k].review \in Reviewed' /\ reviews'[notices'[k].review].status # "pending"
    BY <1>0, <1>4, <2>1, <2>3 DEF LogInvariant, NoticesAreOfLog
  <2>4. ASSUME NEW j \in Places \ Free', NEW k \in Places \ Free',
               notices'[j].review # 0, notices'[j].review = notices'[k].review
        PROVE  j = k
    BY <1>0, <2>1, <2>4 DEF LogInvariant, NoticesAreOfLog
  <2> QED
    BY <1>4, <2>2, <2>3, <2>4 DEF NoticesAreOfLog
<1> QED
  BY <1>5, <1>6, <1>7, <1>8 DEF Core, LogInvariant

-----------------------------------------------------------------------------
\* The whole system

\* The pages and the feeds write no row of the others.
LEMMA ReadersWriteNothing ==
  ASSUME \/ (StartListing \/ ListNext \/ CloseListing) /\ UNCHANGED noticeVars
         \/ NoticeNext /\ UNCHANGED accountVars /\ UNCHANGED reviewVars
         \/ UNCHANGED vars
  PROVE  UNCHANGED <<reviews, decisions, desks, notices>> /\ UNCHANGED accountVars
BY DEF StartListing, ListNext, CloseListing, noticeVars, reviewVars, vars, NoticeNext, MarkRead,
       MarkAllRead, OpenFeed, NextPage, CloseFeed

LEMMA CoreStep ==
  ASSUME Core, [Next]_vars
  PROVE  Core'
<1>0. AccountTypeOK
  BY DEF Core, RowsTyped
<1>1. CASE AccountNext /\ UNCHANGED reviewVars /\ UNCHANGED noticeVars
  BY <1>0, <1>1, AccountSteps, RowsFrame DEF reviewVars, noticeVars
<1>2. ASSUME NEW u \in Users \cup {NoUser}, NEW kind \in Kinds, OpenReview(u, kind),
             UNCHANGED noticeVars
      PROVE  Core'
  BY <1>2, OpenStep DEF noticeVars
<1>3. ASSUME NEW q \in Requests, NEW a \in Users,
             \/ \E r \in Reviewed : TakeReview(q, a, r)
             \/ \E u \in Users : TakeProfile(q, a, u),
             UNCHANGED noticeVars
      PROVE  Core'
  BY <1>3, TakeSteps DEF noticeVars
<1>4. CASE UNCHANGED <<reviews, decisions, desks, notices>> /\ UNCHANGED accountVars
  <2>1. AccountTypeOK'
    BY <1>0, <1>4 DEF AccountTypeOK, accountVars
  <2> QED
    BY <1>4, <2>1, RowsFrame DEF accountVars
<1>5. CASE \/ (StartListing \/ ListNext \/ CloseListing) /\ UNCHANGED noticeVars
           \/ NoticeNext /\ UNCHANGED accountVars /\ UNCHANGED reviewVars
           \/ UNCHANGED vars
  BY <1>4, <1>5, ReadersWriteNothing
<1>6. CASE \E q \in Requests, decision \in Decisions : DecideAndNotify(q, decision)
  BY <1>6, DecideStep
<1>7. CASE \E u \in Users, n \in Places : NotifyIntro(u, n)
  BY <1>7, IntroStep
<1> QED
  BY <1>1, <1>2, <1>3, <1>5, <1>6, <1>7 DEF Next

LEMMA CoreAlways == Spec => []Core
  BY CoreInit, CoreStep, PTL DEF Spec

-----------------------------------------------------------------------------
\* Decisions

LEMMA AtMostOne ==
  ASSUME NEW S, \A x, y \in S : x = y
  PROVE  Cardinality(S) <= 1
<1>1. CASE S = {}
  BY <1>1, FS_EmptySet
<1>2. ASSUME NEW x \in S PROVE Cardinality(S) <= 1
  <2>1. S = {x}
    BY <1>2
  <2>2. Cardinality({x}) = 1
    BY FS_Singleton, Zenon
  <2> QED
    BY <2>1, <2>2
<1> QED
  BY <1>1, <1>2

\* Whatever two admins, or two routes, decide at once: one decision of a review counts,
\* it is what the review says, and its owner is told of it once.
THEOREM OnceCorrect == Spec => []DecidedOnce
<1>1. Core => DecidedOnce
  <2> SUFFICES ASSUME Core, NEW r \in Reviewed
               PROVE  LET told == {n \in Places : notices[n] # NoNotice /\ notices[n].review = r} IN
                      /\ Cardinality(DecisionsOn(r)) <= 1
                      /\ Cardinality(told) <= 1
                      /\ \A i \in DecisionsOn(r) :
                             /\ reviews[r].status = DecidedStatus(decisions[i][2])
                             /\ DecisionType(decisions[i][2]) # "none" =>
                                    \E n \in told : /\ notices[n].type = decisions[i][2]
                                                    /\ notices[n].user = reviews[r].user
                                                    /\ notices[n].mail
    BY DEF DecidedOnce
  <2> DEFINE told == {n \in Places : notices[n] # NoNotice /\ notices[n].review = r}
  <2>0. RowsTyped /\ LogInvariant
    BY DEF Core
  <2>1. r # 0 /\ told \subseteq Places \ Free
    BY <2>0 DEF RowsTyped, Reviewed, Free
  <2>2. \A i, j \in DecisionsOn(r) : i = j
    BY <2>0 DEF DecisionsOn, LogInvariant, LogIsOfReviews
  <2>3. \A n, k \in told : n = k
    BY <2>0, <2>1 DEF LogInvariant, NoticesAreOfLog
  <2>4. ASSUME NEW i \in DecisionsOn(r), DecisionType(decisions[i][2]) # "none"
        PROVE  \E n \in told : /\ notices[n].type = decisions[i][2]
                               /\ notices[n].user = reviews[r].user
                               /\ notices[n].mail
    <3>1. i \in DOMAIN decisions /\ decisions[i][1] = r
      BY DEF DecisionsOn
    <3>2. PICK n \in Places : notices[n] = Notice(reviews[r].user, decisions[i][2], r)
      BY <2>0, <2>4, <3>1 DEF LogInvariant, NoticesAreOfLog
    <3>3. decisions[i] \in Line /\ decisions[i][2] \in Decisions
      BY <2>0, <3>1 DEF RowsTyped, Line
    <3>4. decisions[i][2] \in DecisionNotice
      BY <2>4, <3>3, DecidedTypes
    <3>5. /\ notices[n].type = decisions[i][2] /\ notices[n].user = reviews[r].user
          /\ notices[n].review = r /\ notices[n].mail
      <4>1. decisions[i][2] \in Mailed
        BY <3>4 DEF Mailed, DecisionNotice
      <4>2. notices[n].mail = (decisions[i][2] \in Mailed)
        BY <3>2 DEF Notice
      <4>3. notices[n].mail
        BY <4>1, <4>2, Zenon
      <4> QED
        BY <3>2, <4>3 DEF Notice
    <3>6. DOMAIN notices[n] = {"user", "type", "review", "mail"} /\ DOMAIN NoNotice = {"user"}
      BY <3>2 DEF Notice, NoNotice
    <3>7. n \in told
      BY <3>5, <3>6
    <3> QED
      BY <3>5, <3>7
  <2>5. \A i \in DecisionsOn(r) : reviews[r].status = DecidedStatus(decisions[i][2])
    BY <2>0 DEF DecisionsOn, LogInvariant, LogIsOfReviews
  <2> QED
    BY <2>2, <2>3, <2>4, <2>5, AtMostOne
<1> QED
  BY <1>1, CoreAlways, PTL

\* The log only grows, by decisions that count.
LEMMA LogStep ==
  ASSUME Core, [Next]_vars
  PROVE  \/ decisions' = decisions
         \/ \E q \in Requests, decision \in Decisions :
              DecideReview(q, decision) /\ Decidable(desks[q].actor, desks[q].review)
<1>1. ASSUME NEW q \in Requests, NEW decision \in Decisions, DecideAndNotify(q, decision)
      PROVE  \/ decisions' = decisions
             \/ DecideReview(q, decision) /\ Decidable(desks[q].actor, desks[q].review)
  BY <1>1 DEF DecideAndNotify, DecideReview
<1>2. CASE \E u \in Users, n \in Places : NotifyIntro(u, n)
  BY <1>2 DEF NotifyIntro, reviewVars
<1>3. CASE \/ (StartListing \/ ListNext \/ CloseListing) /\ UNCHANGED noticeVars
           \/ NoticeNext /\ UNCHANGED accountVars /\ UNCHANGED reviewVars
           \/ UNCHANGED vars
  BY <1>3, ReadersWriteNothing
<1>4. CASE AccountNext /\ UNCHANGED reviewVars
  BY <1>4 DEF reviewVars
<1> QED
  BY <1>1, <1>2, <1>3, <1>4 DEF Next, OpenReview, TakeReview, TakeProfile

\* Whoever decides is an admin at the moment of the decision.
THEOREM AdminsCorrect == Spec => OnlyAdminsDecide
<1>1. Core /\ [Next]_vars =>
        [\A a \in Users :
            Len(decisions') > Len(decisions) /\ decisions'[Len(decisions')][3] = a =>
                admins[a] = "active"]_vars
  <2> SUFFICES ASSUME Core, [Next]_vars, NEW a \in Users,
                      Len(decisions') > Len(decisions), decisions'[Len(decisions')][3] = a
               PROVE  admins[a] = "active"
    OBVIOUS
  <2>1. decisions \in Seq(Line)
    BY DEF Core, RowsTyped
  <2>2. PICK q \in Requests, decision \in Decisions :
          DecideReview(q, decision) /\ Decidable(desks[q].actor, desks[q].review)
    BY <2>1, LogStep
  <2>3. PICK b : b = desks[q].actor
    OBVIOUS
  <2>4. PICK r : r = desks[q].review
    OBVIOUS
  <2>5. /\ r \in Nat /\ b \in Users /\ admins[b] = "active"
        /\ decisions' = Append(decisions, <<r, decision, b>>)
    BY <2>2, <2>3, <2>4, DecideRows
  <2>6. RowsTyped
    BY DEF Core
  <2>7. Len(decisions') = Len(decisions) + 1 /\ decisions'[Len(decisions) + 1] = <<r, decision, b>>
    BY <2>5, <2>6, LogGrows
  <2> QED
    BY <2>5, <2>7
<1> QED
  BY <1>1, CoreAlways, PTL DEF Spec, OnlyAdminsDecide

-----------------------------------------------------------------------------
\* Profiles and the log

\* The row p of a profile says what was decided, or what its owner sent.
InForce(p, decision) ==
    \/ p.eligibility = DecidedEligibility(decision) /\ p.outcome = DecidedOutcome(decision)
    \/ p.done /\ p.outcome = "auto_approved"

FollowsLog(p, about) ==
    /\ \A i, j \in about : i = j
    /\ p.outcome \in {"needs_review", "auto_approved"} \/ about # {}
    /\ \A i \in about : InForce(p, decisions[i][2])

LEMMA FollowsParts ==
  ProfileFollowsLog <=> \A u \in Users : FollowsLog(profiles[u], DecisionsAbout(u))
BY DEF ProfileFollowsLog, FollowsLog, InForce

\* A profile that awaits its decision has had none.
LEMMA AwaitingIsNew ==
  ASSUME Core, NEW u \in Users, FollowsLog(profiles[u], DecisionsAbout(u)),
         profiles[u].outcome = "needs_review"
  PROVE  DecisionsAbout(u) = {}
<1>1. ASSUME NEW i \in DecisionsAbout(u) PROVE FALSE
  <2>1. decisions[i] \in Line
    BY DEF Core, RowsTyped, DecisionsAbout
  <2>2. decisions[i][2] \in Decisions
    BY <2>1 DEF Line
  <2>3. InForce(profiles[u], decisions[i][2])
    BY DEF FollowsLog
  <2> QED
    BY <2>2, <2>3, DecidedTypes DEF InForce
<1> QED
  BY <1>1

\* Steps that write no line and leave the users of the reviews.
LEMMA QuietStep ==
  ASSUME Core, ProfileFollowsLog, decisions' = decisions, Reviewed \subseteq Reviewed',
         \A r \in Reviewed : reviews'[r].user = reviews[r].user,
         \A u \in Users : OwnStep(profiles[u], profiles'[u])
  PROVE  ProfileFollowsLog'
<1> SUFFICES ASSUME NEW u \in Users
             PROVE  FollowsLog(profiles[u], DecisionsAbout(u))'
  BY DEF ProfileFollowsLog, FollowsLog, InForce
<1>1. FollowsLog(profiles[u], DecisionsAbout(u))
  BY FollowsParts
<1>2. \A i \in DOMAIN decisions : decisions[i][1] \in Reviewed
  BY DEF Core, LogInvariant, LogIsOfReviews
<1>3. DecisionsAbout(u)' = DecisionsAbout(u)
  BY <1>2 DEF DecisionsAbout
<1>4. OwnStep(profiles[u], profiles'[u])
  OBVIOUS
<1>5. CASE profiles'[u] = profiles[u]
  BY <1>1, <1>3, <1>5 DEF FollowsLog, InForce
<1>6. CASE profiles'[u].done /\ profiles'[u].outcome = "auto_approved"
  BY <1>1, <1>3, <1>6 DEF FollowsLog, InForce
<1>7. CASE profiles[u] = NoProfile /\ profiles'[u].outcome = "needs_review"
  <2>1. DecisionsAbout(u) = {}
    BY <1>1, <1>7, AwaitingIsNew DEF NoProfile, NewProfile
  <2> QED
    BY <1>3, <1>7, <2>1 DEF FollowsLog
<1> QED
  BY <1>4, <1>5, <1>6, <1>7 DEF OwnStep

\* A decision that counts is the first about its profile.
LEMMA DecisionFollows ==
  ASSUME Core, ProfileFollowsLog, NEW q \in Requests, NEW decision \in Decisions,
         DecideReview(q, decision), Decidable(desks[q].actor, desks[q].review)
  PROVE  ProfileFollowsLog'
<1>1. PICK b, r : b = desks[q].actor /\ r = desks[q].review
  OBVIOUS
<1>2. PICK k : k = Len(decisions) + 1
  OBVIOUS
<1>3. /\ r \in Reviewed /\ r \in Nat /\ b \in Users /\ reviews[r].user \in Users
      /\ reviews'[r].user = reviews[r].user
      /\ \A s \in Reviewed \ {r} : reviews'[s] = reviews[s]
      /\ decisions' = Append(decisions, <<r, decision, b>>)
      /\ profiles[reviews[r].user].outcome = "needs_review"
      /\ profiles'[reviews[r].user].eligibility = DecidedEligibility(decision)
      /\ profiles'[reviews[r].user].outcome = DecidedOutcome(decision)
      /\ \A u \in Users \ {reviews[r].user} : profiles'[u] = profiles[u]
  BY <1>1, DecideRows
<1>4. /\ decisions'[k] = <<r, decision, b>>
      /\ DOMAIN decisions' = (DOMAIN decisions) \cup {k} /\ k \notin DOMAIN decisions
      /\ \A i \in DOMAIN decisions : decisions'[i] = decisions[i]
  <2>1. RowsTyped
    BY DEF Core
  <2> QED
    BY <1>2, <1>3, <2>1, LogGrows
<1>5. \A s \in Reviewed : reviews'[s].user = reviews[s].user
  BY <1>3
<1>6. \A i \in DOMAIN decisions : decisions[i][1] \in Reviewed
  BY DEF Core, LogInvariant, LogIsOfReviews
<1>7. \A i \in DOMAIN decisions : reviews'[decisions'[i][1]].user = reviews[decisions[i][1]].user
  BY <1>4, <1>5, <1>6
<1>8. reviews'[decisions'[k][1]].user = reviews[r].user /\ decisions'[k][2] = decision
  BY <1>3, <1>4
<1> SUFFICES ASSUME NEW u \in Users
             PROVE  FollowsLog(profiles[u], DecisionsAbout(u))'
  BY DEF ProfileFollowsLog, FollowsLog, InForce
<1>9. FollowsLog(profiles[u], DecisionsAbout(u))
  BY FollowsParts
<1>10. CASE u = reviews[r].user
  <2>1. DecisionsAbout(u) = {}
    BY <1>3, <1>9, <1>10, AwaitingIsNew
  <2>2. DecisionsAbout(u)' = {k}
    BY <1>4, <1>7, <1>8, <1>10, <2>1 DEF DecisionsAbout
  <2> QED
    BY <1>3, <1>8, <1>10, <2>2 DEF FollowsLog, InForce
<1>11. CASE u # reviews[r].user
  <2>1. DecisionsAbout(u)' = DecisionsAbout(u)
    BY <1>4, <1>7, <1>8, <1>11 DEF DecisionsAbout
  <2>2. \A i \in DecisionsAbout(u) : decisions'[i] = decisions[i]
    BY <1>4 DEF DecisionsAbout
  <2>3. profiles'[u] = profiles[u]
    BY <1>3, <1>11
  <2> QED
    BY <1>9, <2>1, <2>2, <2>3 DEF FollowsLog, InForce
<1> QED
  BY <1>10, <1>11

LEMMA FollowsStep ==
  ASSUME Core, ProfileFollowsLog, [Next]_vars
  PROVE  ProfileFollowsLog'
<1>0. RowsTyped /\ AccountTypeOK /\ reviews \in Seq(Review)
  BY DEF Core, RowsTyped
<1>1. ASSUME UNCHANGED <<reviews, decisions, profiles>>
      PROVE  ProfileFollowsLog'
  BY <1>1, QuietStep DEF Reviewed, OwnStep
<1>2. CASE AccountNext /\ UNCHANGED reviewVars
  BY <1>0, <1>2, AccountSteps, QuietStep DEF reviewVars, Reviewed
<1>3. ASSUME NEW v \in Users \cup {NoUser}, NEW kind \in Kinds, OpenReview(v, kind)
      PROVE  ProfileFollowsLog'
  <2>1. Reviewed \subseteq Reviewed' /\ \A r \in Reviewed : reviews'[r].user = reviews[r].user
    BY <1>0, <1>3 DEF OpenReview, Reviewed
  <2>2. decisions' = decisions /\ profiles' = profiles
    BY <1>3 DEF OpenReview, accountVars
  <2> QED
    BY <2>1, <2>2, QuietStep DEF OwnStep
<1>4. ASSUME NEW q \in Requests, NEW decision \in Decisions, DecideAndNotify(q, decision)
      PROVE  ProfileFollowsLog'
  <2>1. DecideReview(q, decision)
    BY <1>4 DEF DecideAndNotify
  <2>2. CASE Decidable(desks[q].actor, desks[q].review)
    BY <2>1, <2>2, DecisionFollows
  <2>3. CASE ~Decidable(desks[q].actor, desks[q].review)
    BY <1>1, <2>1, <2>3 DEF DecideReview
  <2> QED
    BY <2>2, <2>3
<1>5. CASE \/ \E v \in Users, n \in Places : NotifyIntro(v, n)
           \/ \E q \in Requests, a \in Users :
                \/ \E r \in Reviewed : TakeReview(q, a, r)
                \/ \E v \in Users : TakeProfile(q, a, v)
  BY <1>1, <1>5 DEF NotifyIntro, TakeReview, TakeProfile, reviewVars, accountVars
<1>6. CASE \/ (StartListing \/ ListNext \/ CloseListing) /\ UNCHANGED noticeVars
           \/ NoticeNext /\ UNCHANGED accountVars /\ UNCHANGED reviewVars
           \/ UNCHANGED vars
  BY <1>1, <1>6, ReadersWriteNothing DEF accountVars
<1> QED
  BY <1>2, <1>3, <1>4, <1>5, <1>6 DEF Next

\* Staff decide a profile at most once, whatever reviews it has and whoever decides at once;
\* what is in force is that decision, or the details that its owner sent.
THEOREM FollowsCorrect == Spec => []ProfileFollowsLog
<1>1. Init => ProfileFollowsLog
  <2> SUFFICES ASSUME Init PROVE ProfileFollowsLog
    OBVIOUS
  <2>1. \A u \in Users : DecisionsAbout(u) = {} /\ profiles[u].outcome = "needs_review"
    BY DEF Init, AccountInit, ReviewInit, NoProfile, NewProfile, DecisionsAbout
  <2> QED
    BY <2>1 DEF ProfileFollowsLog
<1> QED
  BY <1>1, CoreAlways, FollowsStep, PTL DEF Spec

-----------------------------------------------------------------------------
\* Queries with an order: what InOrder and Descending choose is there, and is all of the
\* set, each once.

Rising(s) == \A i, j \in DOMAIN s : i < j => s[i] < s[j]

Falling(s) == \A i, j \in DOMAIN s : i < j => s[i] > s[j]

\* The i-th element is the one with i elements up to it.
LEMMA SortExists ==
  ASSUME NEW S \in SUBSET Nat, IsFiniteSet(S)
  PROVE  \E s \in [1..Cardinality(S) -> S] : Rising(s)
<1> DEFINE UpTo_(x) == {y \in S : y <= x}
           place == [x \in S |-> Cardinality(UpTo_(x))]
           n == Cardinality(S)
<1>1. \A x \in S : IsFiniteSet(UpTo_(x)) /\ Cardinality(UpTo_(x)) \in Nat
                   /\ Cardinality(UpTo_(x)) <= n
  BY FS_Subset, FS_CardinalityType
<1>2. n \in Nat
  BY FS_CardinalityType
<1>3. ASSUME NEW x \in S PROVE Cardinality(UpTo_(x)) # 0
  <2>1. x \in UpTo_(x)
    OBVIOUS
  <2> QED
    BY <1>1, <2>1, FS_EmptySet
<1>4. place \in [S -> 1..n]
  BY <1>1, <1>2, <1>3
<1>5. ASSUME NEW x \in S, NEW y \in S, x < y
      PROVE  place[x] < place[y]
  <2>0. x \in Nat /\ y \in Nat
    OBVIOUS
  <2>1. UpTo_(x) \subseteq UpTo_(y)
    <3>1. \A z \in S : z <= x => z <= y
      BY <1>5, <2>0
    <3> QED
      BY <3>1
  <2>a. y \in UpTo_(y) /\ y \notin UpTo_(x)
    BY <1>5, <2>0
  <2>2. Cardinality(UpTo_(x)) <= Cardinality(UpTo_(y))
        /\ Cardinality(UpTo_(x)) # Cardinality(UpTo_(y))
    BY <1>1, <2>1, <2>a, FS_Subset
  <2>3. Cardinality(UpTo_(x)) \in Nat /\ Cardinality(UpTo_(y)) \in Nat
    BY <1>1
  <2>4. Cardinality(UpTo_(x)) < Cardinality(UpTo_(y))
    BY <2>2, <2>3
  <2> QED
    BY <2>4
<1>6. place \in Injection(S, 1..n)
  <2>1. ASSUME NEW x \in S, NEW y \in S, place[x] = place[y] PROVE x = y
    <3>1. place[x] \in Nat /\ place[y] \in Nat /\ x \in Nat /\ y \in Nat
      BY <1>2, <1>4
    <3>2. x < y => place[x] < place[y]
      BY <1>5
    <3>3. y < x => place[y] < place[x]
      BY <1>5
    <3> HIDE DEF place
    <3> QED
      BY <2>1, <3>1, <3>2, <3>3
  <2> QED
    BY <1>4, <2>1, Fun_IsInj
<1> HIDE DEF place
<1>7. IsFiniteSet(1..n) /\ Cardinality(1..n) = n
  BY <1>2, FS_Interval
<1>8. place \in Surjection(S, 1..n)
  BY <1>6, <1>7, FS_Injection
<1>9. \A i \in 1..n : \E x \in S : place[x] = i
  BY <1>8, Fun_SurjectionProperties
<1> DEFINE s == [i \in 1..n |-> CHOOSE x \in S : place[x] = i]
<1>10. \A i \in 1..n : s[i] \in S /\ place[s[i]] = i
  BY <1>9
<1>11. s \in [1..n -> S] /\ DOMAIN s = 1..n
  BY <1>10
<1> HIDE DEF s
<1>12. Rising(s)
  <2> SUFFICES ASSUME NEW i \in 1..n, NEW j \in 1..n, i < j PROVE s[i] < s[j]
    BY <1>11 DEF Rising
  <2>1. s[i] \in Nat /\ s[j] \in Nat /\ place[s[i]] = i /\ place[s[j]] = j
    BY <1>10
  <2>2. s[j] < s[i] => place[s[j]] < place[s[i]]
    BY <1>5, <1>10
  <2> QED
    BY <1>2, <2>1, <2>2
<1> QED
  BY <1>11, <1>12

\* A sequence without repetitions that is as long as the set it is from has all of it.
LEMMA AllOfIt ==
  ASSUME NEW S \in SUBSET Nat, IsFiniteSet(S), NEW s \in [1..Cardinality(S) -> S],
         Rising(s) \/ Falling(s)
  PROVE  s \in Seq(S) /\ Len(s) = Cardinality(S) /\ \A x \in S : \E i \in 1..Len(s) : s[i] = x
<1> DEFINE n == Cardinality(S)
<1>a. n \in Nat
  BY FS_CardinalityType
<1>1. n \in Nat /\ IsFiniteSet(1..n) /\ Cardinality(1..n) = n
  <2> HIDE DEF n
  <2> QED
    BY <1>a, FS_Interval
<1>2. s \in Seq(S) /\ Len(s) = n
  BY <1>1
<1>3. s \in Injection(1..n, S)
  <2>1. ASSUME NEW i \in 1..n, NEW j \in 1..n, s[i] = s[j] PROVE i = j
    <3>a. s[i] \in S /\ s[j] \in S
      OBVIOUS
    <3>b. \A k \in 1..n : k \in Nat
      <4> HIDE DEF n
      <4> QED
        BY <1>1
    <3>1. s[i] \in Nat /\ s[j] \in Nat /\ i \in Nat /\ j \in Nat
      BY <3>a, <3>b
    <3>2. DOMAIN s = 1..n
      OBVIOUS
    <3>3. CASE Rising(s)
      BY <2>1, <3>1, <3>2, <3>3 DEF Rising
    <3>4. CASE Falling(s)
      BY <2>1, <3>1, <3>2, <3>4 DEF Falling
    <3> QED
      BY <3>3, <3>4
  <2> QED
    BY <2>1, Fun_IsInj
<1>4. s \in Surjection(1..n, S)
  BY <1>1, <1>3, FS_Injection
<1> QED
  BY <1>2, <1>4, Fun_SurjectionProperties

LEMMA InOrderFacts ==
  ASSUME NEW S \in SUBSET Nat, IsFiniteSet(S)
  PROVE  /\ InOrder(S) \in Seq(S) /\ Len(InOrder(S)) = Cardinality(S) /\ Rising(InOrder(S))
         /\ \A x \in S : \E i \in 1..Len(InOrder(S)) : InOrder(S)[i] = x
<1>1. \E s \in [1..Cardinality(S) -> S] :
        \A i, j \in 1..Cardinality(S) : i < j => s[i] < s[j]
  <2>1. PICK s \in [1..Cardinality(S) -> S] : Rising(s)
    BY SortExists
  <2>2. \A i, j \in 1..Cardinality(S) : i < j => s[i] < s[j]
    BY <2>1 DEF Rising
  <2> QED
    BY <2>2
<1>2. /\ InOrder(S) \in [1..Cardinality(S) -> S]
      /\ \A i, j \in 1..Cardinality(S) : i < j => InOrder(S)[i] < InOrder(S)[j]
  BY <1>1 DEF InOrder
<1>3. Rising(InOrder(S))
  BY <1>2 DEF Rising
<1> QED
  BY <1>2, <1>3, AllOfIt

LEMMA DescendingFacts ==
  ASSUME NEW S \in SUBSET Nat, IsFiniteSet(S)
  PROVE  /\ Descending(S) \in Seq(S) /\ Len(Descending(S)) = Cardinality(S) /\ Falling(Descending(S))
         /\ \A x \in S : \E i \in 1..Len(Descending(S)) : Descending(S)[i] = x
<1> DEFINE n == Cardinality(S)
<1>1. n \in Nat
  BY FS_CardinalityType
<1>2. PICK s \in [1..n -> S] : Rising(s)
  BY SortExists
<1> DEFINE t == [i \in 1..n |-> s[n + 1 - i]]
<1>3. t \in [1..n -> S]
  BY <1>1
<1>4. \A i, j \in 1..n : i < j => t[i] > t[j]
  <2> SUFFICES ASSUME NEW i \in 1..n, NEW j \in 1..n, i < j PROVE t[i] > t[j]
    OBVIOUS
  <2>1. n + 1 - j \in 1..n /\ n + 1 - i \in 1..n /\ n + 1 - j < n + 1 - i
    BY <1>1
  <2>2. s[n + 1 - j] < s[n + 1 - i] /\ s[n + 1 - j] \in Nat /\ s[n + 1 - i] \in Nat
    BY <1>2, <2>1 DEF Rising
  <2> QED
    BY <2>2
<1> HIDE DEF t
<1>5. /\ Descending(S) \in [1..n -> S]
      /\ \A i, j \in 1..n : i < j => Descending(S)[i] > Descending(S)[j]
  BY <1>3, <1>4 DEF Descending
<1>6. Falling(Descending(S))
  BY <1>5 DEF Falling
<1> QED
  BY <1>5, <1>6, AllOfIt

\* The first n rows of a result.
LEMMA FirstFacts ==
  ASSUME NEW T, NEW s \in Seq(T), NEW n \in Nat
  PROVE  /\ FirstOf(s, n) = UpTo(s, n)
         /\ UpTo(s, n) \in Seq(T)
         /\ Len(UpTo(s, n)) = IF Len(s) > n THEN n ELSE Len(s)
         /\ \A i \in 1..Len(UpTo(s, n)) : UpTo(s, n)[i] = s[i]
BY DEF FirstOf, UpTo

-----------------------------------------------------------------------------
\* The feed of notifications

Feed == [filter : {"closed", "all", "unread", "ended"}, cursor : Nat,
         shown : Seq(Places), due : SUBSET Places]

FeedsTyped == read \subseteq Places /\ feeds \in [Readers -> Feed]

LEMMA PlacesAreNumbers ==
  /\ Places \subseteq Nat \ {0} /\ IsFiniteSet(Places) /\ Top \in Nat
  /\ \A n \in Places : n < Top
<1>1. Cardinality(Places) \in Nat
  BY NoticeAssumption, FS_CardinalityType
<1> DEFINE k == Cardinality(Places)
<1>2. Places = 1..k /\ k \in Nat /\ Top = 1 + k
  BY <1>1, NoticeAssumption DEF Top
<1> HIDE DEF k
<1>3. \A n \in 1..k : n \in Nat \ {0} /\ n < 1 + k
  BY <1>2
<1> QED
  BY <1>2, <1>3, NoticeAssumption

\* The pages of a user are about the user's own.
LEMMA NoticesStay ==
  ASSUME Core, [Next]_vars, NEW u \in Readers
  PROVE  Of(u) \subseteq Of(u)'
<1>0. RowsTyped /\ u # NoNotice.user
  BY NoticeAssumption DEF Core
<1>1. ASSUME NEW n \in Free, NEW notice, notices' = WithNotice(n, notice)
      PROVE  Of(u) \subseteq Of(u)'
  BY <1>0, <1>1 DEF Of, Free, WithNotice, RowsTyped
<1>2. CASE notices' = notices
  BY <1>2 DEF Of
<1>3. CASE \E q \in Requests, decision \in Decisions : DecideAndNotify(q, decision)
  BY <1>1, <1>2, <1>3 DEF DecideAndNotify
<1>4. CASE \E v \in Users, n \in Places : NotifyIntro(v, n)
  BY <1>1, <1>4 DEF NotifyIntro
<1>5. CASE NoticeNext
  BY <1>2, <1>5 DEF NoticeNext, MarkRead, MarkAllRead, OpenFeed, NextPage, CloseFeed
<1> QED
  BY <1>2, <1>3, <1>4, <1>5 DEF Next, noticeVars, vars

LEMMA FeedFrame ==
  ASSUME NEW u \in Readers, FeedInOrder(u), feeds'[u] = feeds[u], read \subseteq read',
         Of(u) \subseteq Of(u)'
  PROVE  FeedInOrder(u)'
BY DEF FeedInOrder

LEMMA OpenFeedStep ==
  ASSUME FeedsTyped, FeedInvariant, NEW u \in Readers, NEW filter \in {"all", "unread"},
         OpenFeed(u, filter)
  PROVE  FeedsTyped' /\ FeedInvariant'
<1> DEFINE row == [filter |-> filter, cursor |-> Top, shown |-> <<>>, due |-> Matching(u, filter)]
<1>1. feeds' = [feeds EXCEPT ![u] = row] /\ UNCHANGED <<notices, read>>
  BY DEF OpenFeed
<1>2. Matching(u, filter) \subseteq Of(u) /\ Of(u) \subseteq Places
  BY DEF Matching, Of
<1>3. row \in Feed
  BY <1>2, PlacesAreNumbers DEF Feed
<1>4. row.shown = <<>> /\ row.due \subseteq Of(u) /\ row.cursor = Top /\ row.filter # "ended"
  BY <1>2
<1> HIDE DEF row
<1>5. /\ feeds' \in [Readers -> Feed] /\ feeds'[u] = row
      /\ \A v \in Readers \ {u} : feeds'[v] = feeds[v]
  BY <1>1, <1>3 DEF FeedsTyped
<1>6. \A v \in Readers : Of(v)' = Of(v)
  BY <1>1 DEF Of
<1>7. FeedInOrder(u)'
  <2>1. \A n \in Places : n < Top
    BY PlacesAreNumbers
  <2>2. DOMAIN row.shown = {}
    BY <1>4
  <2> QED
    BY <1>2, <1>4, <1>5, <1>6, <2>1, <2>2 DEF FeedInOrder
<1>8. \A v \in Readers \ {u} : FeedInOrder(v)'
  BY <1>1, <1>5, <1>6, FeedFrame DEF FeedInvariant
<1> QED
  BY <1>1, <1>5, <1>7, <1>8 DEF FeedsTyped, FeedInvariant

\* The rows of a page: the newest below the cursor, and all of them if there are no more.
LEMMA PageFacts ==
  ASSUME NEW B \in SUBSET Places
  PROVE  LET rows == UpTo(Descending(B), PageSize + 1)
             page == UpTo(rows, PageSize)
         IN  /\ page \in Seq(B) /\ Falling(page)
             /\ Len(rows) > PageSize =>
                  /\ PageSize \in DOMAIN page /\ page[PageSize] \in Nat
                  /\ \A i \in DOMAIN page : page[i] >= page[PageSize]
                  /\ \A n \in B : n < page[PageSize] \/ \E i \in DOMAIN page : page[i] = n
             /\ ~(Len(rows) > PageSize) => \A n \in B : \E i \in DOMAIN page : page[i] = n
<1> DEFINE d == Descending(B)
           rows == UpTo(d, PageSize + 1)
           page == UpTo(rows, PageSize)
<1>1. B \in SUBSET Nat /\ IsFiniteSet(B)
  BY PlacesAreNumbers, FS_Subset
<1>2. /\ d \in Seq(B) /\ Falling(d)
      /\ \A x \in B : \E i \in 1..Len(d) : d[i] = x
  BY <1>1, DescendingFacts
<1>3. PageSize + 1 \in Nat /\ PageSize \in Nat \ {0}
  BY NoticeAssumption
<1> HIDE DEF d
<1>4. /\ rows \in Seq(B)
      /\ Len(rows) = IF Len(d) > PageSize + 1 THEN PageSize + 1 ELSE Len(d)
      /\ \A i \in 1..Len(rows) : rows[i] = d[i]
  BY <1>2, <1>3, FirstFacts
<1> HIDE DEF rows
<1>5. /\ page \in Seq(B)
      /\ Len(page) = IF Len(rows) > PageSize THEN PageSize ELSE Len(rows)
      /\ \A i \in 1..Len(page) : page[i] = rows[i]
  BY <1>3, <1>4, FirstFacts
<1> HIDE DEF page
<1>6. Len(d) \in Nat /\ Len(rows) \in Nat /\ Len(page) \in Nat /\ DOMAIN page = 1..Len(page)
      /\ DOMAIN d = 1..Len(d)
  BY <1>2, <1>4, <1>5
<1> DEFINE ld == Len(d)
           lr == Len(rows)
           lp == Len(page)
<1>a. ld \in Nat /\ lr \in Nat /\ lp \in Nat
  BY <1>6
<1>b. lr = IF ld > PageSize + 1 THEN PageSize + 1 ELSE ld
  BY <1>4
<1>c. lp = IF lr > PageSize THEN PageSize ELSE lr
  BY <1>5
<1>d. /\ Len(d) = ld /\ Len(rows) = lr /\ Len(page) = lp
  OBVIOUS
<1> HIDE DEF ld, lr, lp
<1>7. /\ lp <= lr /\ lr <= ld
      /\ lr > PageSize => lp = PageSize /\ PageSize \in 1..lp /\ PageSize < ld
      /\ ~(lr > PageSize) => lp = ld
  BY <1>3, <1>a, <1>b, <1>c
<1>8. \A i \in 1..Len(page) : i \in 1..Len(d) /\ page[i] = d[i] /\ d[i] \in Nat
  <2> SUFFICES ASSUME NEW i \in 1..lp PROVE i \in 1..ld /\ page[i] = d[i] /\ d[i] \in Nat
    BY <1>d
  <2>1. i \in 1..lr /\ i \in 1..ld
    BY <1>7, <1>a
  <2>2. page[i] = rows[i] /\ rows[i] = d[i]
    BY <1>4, <1>5, <1>d, <2>1
  <2>3. d[i] \in B
    BY <1>2, <1>d, <2>1
  <2> QED
    BY <1>1, <2>1, <2>2, <2>3
<1>9. Falling(page)
  BY <1>2, <1>6, <1>8 DEF Falling
<1>10. CASE Len(rows) > PageSize
  <2>1. Len(page) = PageSize /\ PageSize \in 1..Len(page) /\ PageSize < Len(d)
    BY <1>7, <1>10, <1>d
  <2>2. \A i \in 1..Len(page) : page[i] >= page[PageSize]
    <3> SUFFICES ASSUME NEW i \in 1..Len(page) PROVE page[i] >= page[PageSize]
      OBVIOUS
    <3>1. i < PageSize \/ i = PageSize
      BY <1>3, <2>1
    <3>2. page[i] \in Nat /\ page[PageSize] \in Nat
      BY <1>8, <2>1
    <3> QED
      BY <1>6, <1>9, <2>1, <3>1, <3>2 DEF Falling
  <2>3. ASSUME NEW n \in B PROVE n < page[PageSize] \/ \E i \in 1..Len(page) : page[i] = n
    <3>1. PICK i \in 1..Len(d) : d[i] = n
      BY <1>2
    <3>2. CASE i <= PageSize
      BY <1>8, <2>1, <3>1, <3>2
    <3>3. CASE i > PageSize
      BY <1>2, <1>6, <1>8, <2>1, <3>1, <3>3 DEF Falling
    <3> QED
      BY <1>3, <1>6, <3>2, <3>3
  <2>4. page[PageSize] \in Nat
    BY <1>8, <2>1
  <2> QED
    BY <1>5, <1>6, <1>9, <1>10, <2>1, <2>2, <2>3, <2>4 DEF page, rows, d
<1>11. CASE ~(Len(rows) > PageSize)
  <2>1. Len(page) = Len(d)
    BY <1>7, <1>11, <1>d
  <2>2. \A n \in B : \E i \in 1..Len(page) : page[i] = n
    BY <1>2, <1>8, <2>1
  <2> QED
    BY <1>5, <1>6, <1>9, <1>11, <2>2 DEF page, rows, d
<1> QED
  BY <1>10, <1>11 DEF page, rows, d

LEMMA NextPageStep ==
  ASSUME FeedsTyped, FeedInvariant, NEW u \in Readers, NextPage(u)
  PROVE  FeedsTyped' /\ FeedInvariant'
<1> DEFINE B == Below(u)
           rows == UpTo(Descending(B), PageSize + 1)
           page == UpTo(rows, PageSize)
           feed == feeds[u]
           more == Len(rows) > PageSize
           row == [feed EXCEPT !.shown = feed.shown \o page,
                               !.cursor = IF more THEN page[PageSize] ELSE 0,
                               !.filter = IF more THEN feed.filter ELSE "ended"]
<1>0. feed \in Feed /\ FeedInOrder(u) /\ feeds = [v \in Readers |-> feeds[v]]
  BY DEF FeedsTyped, FeedInvariant
<1>1. feed.filter \in {"all", "unread"} /\ UNCHANGED <<notices, read>>
  BY DEF NextPage
<1>2. feeds' = [feeds EXCEPT ![u].shown = @ \o page,
                              ![u].cursor = IF more THEN page[PageSize] ELSE 0,
                              ![u].filter = IF more THEN @ ELSE "ended"]
  BY DEF NextPage, Rows
<1>3. B \in SUBSET Places /\ \A n \in B : n < feed.cursor
  BY DEF Below, Matching, Of
<1>4. /\ page \in Seq(B) /\ Falling(page)
      /\ more =>
           /\ PageSize \in DOMAIN page /\ page[PageSize] \in Nat
           /\ \A i \in DOMAIN page : page[i] >= page[PageSize]
           /\ \A n \in B : n < page[PageSize] \/ \E i \in DOMAIN page : page[i] = n
      /\ ~more => \A n \in B : \E i \in DOMAIN page : page[i] = n
  BY <1>3, PageFacts
<1>5. feeds' = [feeds EXCEPT ![u] = row]
  <2> HIDE DEF page, more
  <2> QED
    BY <1>0, <1>2 DEF Feed
<1> HIDE DEF B, page, more, rows
<1>6. /\ row \in Feed /\ row.shown = feed.shown \o page /\ row.due = feed.due
      /\ row.cursor = IF more THEN page[PageSize] ELSE 0
      /\ row.filter = "ended" => ~more
  <2>1. page \in Seq(Places) /\ feed.shown \in Seq(Places)
    BY <1>0, <1>3, <1>4 DEF Feed
  <2>2. feed.shown \o page \in Seq(Places)
    BY <2>1
  <2>3. (IF more THEN page[PageSize] ELSE 0) \in Nat
    BY <1>4
  <2> QED
    BY <1>0, <1>1, <2>2, <2>3 DEF Feed
<1> HIDE DEF row
<1>7. /\ feeds' \in [Readers -> Feed] /\ feeds'[u] = row
      /\ \A v \in Readers \ {u} : feeds'[v] = feeds[v]
  BY <1>0, <1>5, <1>6 DEF FeedsTyped
<1>8. \A v \in Readers : Of(v)' = Of(v)
  BY <1>1 DEF Of
<1>9. /\ feed.shown \in Seq(Places) /\ page \in Seq(Places) /\ Places \subseteq Nat
      /\ feed.cursor \in Nat /\ feed.due \subseteq Places
  BY <1>0, <1>3, <1>4, PlacesAreNumbers DEF Feed
<1> DEFINE a == feed.shown
           s == row.shown
           c == feed.cursor
           k == row.cursor
<1>10. /\ s \in Seq(Places) /\ Len(s) = Len(a) + Len(page)
       /\ \A i \in 1..Len(a) : s[i] = a[i]
       /\ \A i \in 1..Len(page) : s[Len(a) + i] = page[i]
       /\ \A i \in 1..Len(s) : i \in 1..Len(a) \/ \E j \in 1..Len(page) : i = Len(a) + j
       /\ Len(a) \in Nat /\ Len(page) \in Nat
       /\ DOMAIN a = 1..Len(a) /\ DOMAIN s = 1..Len(s) /\ DOMAIN page = 1..Len(page)
  <2>1. s = a \o page
    BY <1>6
  <2> HIDE DEF s, a
  <2>2. a \in Seq(Places)
    BY <1>9 DEF a
  <2>3. \A i \in 1..(Len(a) + Len(page)) : i \in 1..Len(a) \/ i - Len(a) \in 1..Len(page)
    BY <1>9, <2>2
  <2>4. \A i \in 1..(Len(a) + Len(page)) : i = Len(a) + (i - Len(a))
    BY <1>9, <2>2
  <2>5. /\ s \in Seq(Places) /\ Len(s) = Len(a) + Len(page)
        /\ Len(a) \in Nat /\ Len(page) \in Nat
        /\ DOMAIN a = 1..Len(a) /\ DOMAIN s = 1..Len(s) /\ DOMAIN page = 1..Len(page)
    BY <1>9, <2>1, <2>2
  <2>6. \A i \in 1..Len(a) : s[i] = a[i]
    BY <1>9, <2>1, <2>2
  <2>7. \A i \in 1..Len(page) : s[Len(a) + i] = page[i]
    BY <1>9, <2>1, <2>2
  <2>8. \A i \in 1..Len(s) : i \in 1..Len(a) \/ \E j \in 1..Len(page) : i = Len(a) + j
    BY <2>3, <2>4, <2>5
  <2> QED
    BY <2>5, <2>6, <2>7, <2>8
<1>11. k \in Nat /\ \A i \in 1..Len(page) : page[i] < c /\ page[i] >= k /\ page[i] \in Nat
  <2>1. \A i \in 1..Len(page) : page[i] \in B
    BY <1>4
  <2>2. \A i \in 1..Len(page) : page[i] \in Nat /\ page[i] < c
    BY <1>3, <1>9, <2>1
  <2>3. CASE more
    BY <1>4, <1>6, <1>10, <2>2, <2>3
  <2>4. CASE ~more
    BY <1>6, <2>2, <2>4
  <2> QED
    BY <2>3, <2>4
<1>12. \A i \in 1..Len(a) : a[i] >= c /\ a[i] \in Nat
  BY <1>0, <1>9, <1>10 DEF FeedInOrder
<1>13. k <= c
  <2>1. CASE more
    BY <1>4, <1>6, <1>9, <1>10, <1>11, <2>1
  <2>2. CASE ~more
    BY <1>6, <1>9, <2>2
  <2> QED
    BY <2>1, <2>2
<1>14. FeedInOrder(u)'
  <2>a. /\ \A i, j \in 1..Len(a) : i < j => a[i] > a[j]
        /\ feed.due \subseteq Of(u)
        /\ \A n \in feed.due : n < c \/ n \in read \/ \E i \in 1..Len(a) : a[i] = n
        /\ c \in Nat /\ s = row.shown /\ k = row.cursor
    BY <1>0, <1>9, <1>10 DEF FeedInOrder
  <2> HIDE DEF a, s, c, k, feed
  <2>1. ASSUME NEW i \in 1..Len(s), NEW j \in 1..Len(s), i < j PROVE s[i] > s[j]
    <3>1. CASE i \in 1..Len(a) /\ j \in 1..Len(a)
      BY <1>10, <2>a, <2>1, <3>1
    <3>2. ASSUME i \in 1..Len(a), NEW m \in 1..Len(page), j = Len(a) + m
          PROVE  s[i] > s[j]
      <4>1. s[i] = a[i] /\ s[j] = page[m]
        BY <1>10, <3>2
      <4>2. a[i] >= c /\ page[m] < c /\ a[i] \in Nat /\ page[m] \in Nat
        BY <1>11, <1>12, <3>2
      <4> QED
        BY <2>a, <4>1, <4>2
    <3>3. ASSUME NEW l \in 1..Len(page), i = Len(a) + l, NEW m \in 1..Len(page), j = Len(a) + m
          PROVE  s[i] > s[j]
      <4>1. l < m
        BY <1>10, <2>1, <3>3
      <4> QED
        BY <1>4, <1>10, <3>3, <4>1 DEF Falling
    <3>4. ASSUME NEW l \in 1..Len(page), i = Len(a) + l, j \in 1..Len(a) PROVE FALSE
      BY <1>10, <2>1, <3>4
    <3> QED
      BY <1>10, <3>1, <3>2, <3>3, <3>4
  <2>2. \A i \in 1..Len(s) : s[i] >= k
    <3> SUFFICES ASSUME NEW i \in 1..Len(s) PROVE s[i] >= k
      OBVIOUS
    <3>1. CASE i \in 1..Len(a)
      <4>1. s[i] = a[i] /\ a[i] >= c /\ a[i] \in Nat
        BY <1>10, <1>12, <3>1
      <4> QED
        BY <1>11, <1>13, <2>a, <4>1
    <3>2. CASE \E j \in 1..Len(page) : i = Len(a) + j
      BY <1>10, <1>11, <3>2
    <3> QED
      BY <1>10, <3>1, <3>2
  <2>3. row.due \subseteq Of(u)
    BY <1>6, <2>a
  <2>4. ASSUME NEW n \in row.due
        PROVE  n < k \/ n \in read \/ \E i \in 1..Len(s) : s[i] = n
    <3>1. n \in feed.due /\ n \in Of(u) /\ n \in Nat
      BY <1>6, <1>9, <2>3
    <3>2. CASE n \in read
      BY <3>2
    <3>3. CASE \E i \in 1..Len(a) : a[i] = n
      <4>1. PICK i \in 1..Len(a) : a[i] = n
        BY <3>3
      <4>2. i \in 1..Len(s) /\ s[i] = n
        BY <1>10, <4>1
      <4> QED
        BY <4>2
    <3>4. CASE n < c /\ n \notin read
      <4>1. n \in B
        BY <3>1, <3>4 DEF B, Below, Matching, feed, c
      <4>2. n < k \/ \E i \in 1..Len(page) : page[i] = n
        <5>1. CASE more
          <6>1. k = page[PageSize]
            BY <1>6, <2>a, <5>1
          <6> QED
            BY <1>4, <1>10, <4>1, <5>1, <6>1
        <5>2. CASE ~more
          BY <1>4, <1>10, <4>1, <5>2
        <5> QED
          BY <5>1, <5>2
      <4>3. ASSUME NEW i \in 1..Len(page), page[i] = n PROVE \E j \in 1..Len(s) : s[j] = n
        <5>1. Len(a) + i \in 1..Len(s) /\ s[Len(a) + i] = n
          BY <1>10, <4>3
        <5> QED
          BY <5>1
      <4> QED
        BY <4>2, <4>3
    <3> QED
      BY <2>a, <3>1, <3>2, <3>3, <3>4
  <2>5. row.filter = "ended" => row.cursor = 0
    BY <1>6
  <2>6. feeds'[u] = row /\ read' = read /\ Of(u)' = Of(u) /\ DOMAIN row.shown = 1..Len(s)
    BY <1>1, <1>7, <1>8, <1>10, <2>a
  <2>7. /\ \A i, j \in DOMAIN row.shown : i < j => row.shown[i] > row.shown[j]
        /\ \A i \in DOMAIN row.shown : row.shown[i] >= row.cursor
        /\ \A n \in row.due : \/ n < row.cursor
                              \/ n \in read
                              \/ \E i \in DOMAIN row.shown : row.shown[i] = n
    BY <2>a, <2>1, <2>2, <2>4, <2>6
  <2> QED
    BY <2>3, <2>5, <2>6, <2>7 DEF FeedInOrder
<1>15. \A v \in Readers \ {u} : FeedInOrder(v)'
  BY <1>1, <1>7, <1>8, FeedFrame DEF FeedInvariant
<1> QED
  BY <1>1, <1>7, <1>14, <1>15 DEF FeedsTyped, FeedInvariant

LEMMA CloseFeedStep ==
  ASSUME FeedsTyped, FeedInvariant, NEW u \in Readers, CloseFeed(u)
  PROVE  FeedsTyped' /\ FeedInvariant'
<1>1. feeds' = [feeds EXCEPT ![u] = NoFeed] /\ UNCHANGED <<notices, read>>
  BY DEF CloseFeed
<1>2. NoFeed \in Feed
  BY DEF NoFeed, Feed
<1>3. /\ feeds' \in [Readers -> Feed] /\ feeds'[u] = NoFeed
      /\ \A v \in Readers \ {u} : feeds'[v] = feeds[v]
  BY <1>1, <1>2 DEF FeedsTyped
<1>4. \A v \in Readers : Of(v)' = Of(v)
  BY <1>1 DEF Of
<1>5. FeedInOrder(u)'
  BY <1>3 DEF FeedInOrder, NoFeed
<1>6. \A v \in Readers \ {u} : FeedInOrder(v)'
  BY <1>1, <1>3, <1>4, FeedFrame DEF FeedInvariant
<1> QED
  BY <1>1, <1>3, <1>5, <1>6 DEF FeedsTyped, FeedInvariant

LEMMA FeedStep ==
  ASSUME Core, FeedsTyped, FeedInvariant, [Next]_vars
  PROVE  FeedsTyped' /\ FeedInvariant'
<1>1. \A u \in Readers : Of(u) \subseteq Of(u)'
  BY NoticesStay
<1>2. ASSUME UNCHANGED feeds, read \subseteq read', read' \subseteq Places
      PROVE  FeedsTyped' /\ FeedInvariant'
  BY <1>1, <1>2, FeedFrame DEF FeedsTyped, FeedInvariant
<1>3. CASE UNCHANGED <<feeds, read>>
  BY <1>2, <1>3 DEF FeedsTyped
<1>4. CASE NoticeNext
  <2>1. ASSUME NEW u \in Readers, NEW n \in Places, MarkRead(u, n)
        PROVE  FeedsTyped' /\ FeedInvariant'
    BY <1>2, <2>1 DEF MarkRead, FeedsTyped
  <2>2. ASSUME NEW u \in Readers, MarkAllRead(u)
        PROVE  FeedsTyped' /\ FeedInvariant'
    <3>1. Of(u) \subseteq Places
      BY DEF Of
    <3> QED
      BY <1>2, <2>2, <3>1 DEF MarkAllRead, FeedsTyped
  <2> QED
    BY <1>4, <2>1, <2>2, OpenFeedStep, NextPageStep, CloseFeedStep DEF NoticeNext
<1>5. CASE \E q \in Requests, decision \in Decisions : DecideAndNotify(q, decision)
  BY <1>3, <1>5 DEF DecideAndNotify
<1>6. CASE \E u \in Users, n \in Places : NotifyIntro(u, n)
  BY <1>3, <1>6 DEF NotifyIntro
<1> QED
  BY <1>3, <1>4, <1>5, <1>6 DEF Next, noticeVars, vars

LEMMA FeedInit == Init => FeedsTyped /\ FeedInvariant
<1> SUFFICES ASSUME Init PROVE FeedsTyped /\ FeedInvariant
  OBVIOUS
<1>1. read = {} /\ feeds = [u \in Readers |-> NoFeed]
  BY DEF Init, NoticeInit
<1>2. NoFeed \in Feed
  BY DEF NoFeed, Feed
<1> QED
  BY <1>1, <1>2 DEF FeedsTyped, FeedInvariant, FeedInOrder, NoFeed

LEMMA FeedAlways == Spec => [](FeedsTyped /\ FeedInvariant)
<1>1. Core /\ FeedsTyped /\ FeedInvariant /\ [Next]_vars => (FeedsTyped /\ FeedInvariant)'
  BY FeedStep
<1> QED
  BY <1>1, FeedInit, CoreAlways, PTL DEF Spec

\* A sequence in which nothing comes twice has as many values as places.
LEMMA NoneTwice ==
  ASSUME NEW T, NEW s \in Seq(T), \A i, j \in DOMAIN s : s[i] = s[j] => i = j
  PROVE  Cardinality({s[i] : i \in DOMAIN s}) = Len(s)
<1> DEFINE n == Len(s)
           R == {s[i] : i \in DOMAIN s}
<1>1. n \in Nat /\ DOMAIN s = 1..n
  OBVIOUS
<1>a. \A i \in 1..n : s[i] \in R
  BY <1>1
<1>b. s \in [1..n -> R]
  BY <1>1, <1>a
<1> HIDE DEF n
<1>2. IsFiniteSet(1..n) /\ Cardinality(1..n) = n
  BY <1>1, FS_Interval
<1>3. s \in Injection(1..n, R)
  BY <1>1, <1>b, Fun_IsInj
<1>4. s \in Surjection(1..n, R)
  BY <1>1, <1>b, Fun_IsSurj
<1>5. Cardinality(R) = n
  BY <1>2, <1>3, <1>4, FS_Surjection
<1> QED
  BY <1>5 DEF n

\* Whoever follows the cursor to the end has seen every notification that was there at
\* first, unless it was read meanwhile, and none twice, however many notifications there
\* are, whatever the page size, and wherever new ones appear.
THEOREM FeedCorrect == Spec => []FeedIsComplete
<1>1. FeedsTyped /\ FeedInvariant => FeedIsComplete
  <2> SUFFICES ASSUME FeedsTyped, FeedInvariant, NEW u \in Readers
               PROVE  LET feed == feeds[u]
                          shown == {feed.shown[i] : i \in DOMAIN feed.shown}
                      IN  /\ Cardinality(shown) = Len(feed.shown)
                          /\ feed.filter = "ended" => feed.due \subseteq shown \cup read
    BY DEF FeedIsComplete
  <2> DEFINE feed == feeds[u]
             s == feed.shown
             shown == {s[i] : i \in DOMAIN s}
  <2>1. feed \in Feed /\ FeedInOrder(u)
    BY DEF FeedsTyped, FeedInvariant
  <2>2. s \in Seq(Places) /\ feed.due \subseteq Places /\ Places \subseteq Nat \ {0}
    BY <2>1, PlacesAreNumbers DEF Feed
  <2>3. /\ \A i, j \in DOMAIN s : i < j => s[i] > s[j]
        /\ \A n \in feed.due : \/ n < feed.cursor
                               \/ n \in read
                               \/ \E i \in DOMAIN s : s[i] = n
        /\ feed.filter = "ended" => feed.cursor = 0
    BY <2>1 DEF FeedInOrder
  <2>4. Cardinality(shown) = Len(s)
    <3> HIDE DEF s
    <3>1. ASSUME NEW i \in DOMAIN s, NEW j \in DOMAIN s, s[i] = s[j] PROVE i = j
      <4>1. DOMAIN s = 1..Len(s) /\ Len(s) \in Nat
        BY <2>2
      <4>2. s[i] \in Places /\ s[j] \in Places
        BY <2>2, <4>1
      <4>3. s[i] \in Nat /\ s[j] \in Nat
        BY <2>2, <4>2
      <4>4. i \in Nat /\ j \in Nat
        BY <4>1
      <4> QED
        BY <2>3, <3>1, <4>3, <4>4
    <3> QED
      BY <2>2, <3>1, NoneTwice
  <2>5. ASSUME feed.filter = "ended", NEW n \in feed.due PROVE n \in shown \cup read
    <3>1. n \in Nat \ {0} /\ feed.cursor = 0
      BY <2>2, <2>3, <2>5
    <3>2. ~(n < feed.cursor)
      BY <3>1
    <3> QED
      BY <2>3, <3>2
  <2> QED
    BY <2>4, <2>5
<1> QED
  BY <1>1, FeedAlways, PTL

-----------------------------------------------------------------------------
\* The page of pending reviews

ListingTyped ==
    listing \in [step : Nat, page : Seq(1..MaxReviews), due : SUBSET (1..MaxReviews)]

\* The twelve queries are for the pairs of a risk and a queue, each once.
LEMMA StepsAreKinds ==
  /\ LastStep \in Nat
  /\ \A n, m \in 1..LastStep : StepAt(n) = StepAt(m) => n = m
  /\ \A risk \in {Risks[i] : i \in DOMAIN Risks}, queue \in {Queues[i] : i \in DOMAIN Queues} :
       \E n \in 1..LastStep : StepAt(n) = <<risk, queue>>
<1>1. /\ Len(Risks) = 3 /\ DOMAIN Risks = 1..3
      /\ Risks[1] = "high" /\ Risks[2] = "medium" /\ Risks[3] = "low"
  BY DEF Risks
<1>2. /\ Len(Queues) = 4 /\ DOMAIN Queues = 1..4
      /\ Queues[1] = "quarantine" /\ Queues[2] = "needs_review"
      /\ Queues[3] = "reports" /\ Queues[4] = "system_failures"
  BY DEF Queues
<1>3. LastStep = 12
  BY <1>1, <1>2 DEF LastStep
<1>4. \A n \in 1..12 : \/ n \in 1..4 /\ (n - 1) \div 4 = 0 /\ (n - 1) % 4 = n - 1
                       \/ n \in 5..8 /\ (n - 1) \div 4 = 1 /\ (n - 1) % 4 = n - 5
                       \/ n \in 9..12 /\ (n - 1) \div 4 = 2 /\ (n - 1) % 4 = n - 9
  OBVIOUS
<1>5. \A n \in 1..12 : StepAt(n) = <<Risks[1 + ((n - 1) \div 4)], Queues[1 + ((n - 1) % 4)]>>
  BY <1>2 DEF StepAt
<1>6. \A i, j \in 1..3 : Risks[i] = Risks[j] => i = j
  BY <1>1
<1>7. \A i, j \in 1..4 : Queues[i] = Queues[j] => i = j
  BY <1>2
<1>8. ASSUME NEW n \in 1..12, NEW m \in 1..12, StepAt(n) = StepAt(m) PROVE n = m
  <2>1. /\ 1 + ((n - 1) \div 4) \in 1..3 /\ 1 + ((n - 1) % 4) \in 1..4
        /\ 1 + ((m - 1) \div 4) \in 1..3 /\ 1 + ((m - 1) % 4) \in 1..4
    BY <1>4
  <2>2. 1 + ((n - 1) \div 4) = 1 + ((m - 1) \div 4) /\ 1 + ((n - 1) % 4) = 1 + ((m - 1) % 4)
    <3> DEFINE rn == 1 + ((n - 1) \div 4)
               rm == 1 + ((m - 1) \div 4)
               qn == 1 + ((n - 1) % 4)
               qm == 1 + ((m - 1) % 4)
    <3>1. Risks[rn] = Risks[rm] /\ Queues[qn] = Queues[qm]
      BY <1>5, <1>8
    <3>2. rn \in 1..3 /\ rm \in 1..3 /\ qn \in 1..4 /\ qm \in 1..4
      BY <2>1
    <3> HIDE DEF rn, rm, qn, qm
    <3>3. rn = rm /\ qn = qm
      BY <1>6, <1>7, <3>1, <3>2
    <3> QED
      BY <3>3 DEF rn, rm, qn, qm
  <2> QED
    BY <1>4, <2>2
<1>9. ASSUME NEW i \in 1..3, NEW j \in 1..4
      PROVE  \E n \in 1..12 : StepAt(n) = <<Risks[i], Queues[j]>>
  <2> DEFINE n == 4 * (i - 1) + j
  <2>1. n \in 1..12 /\ 1 + ((n - 1) \div 4) = i /\ 1 + ((n - 1) % 4) = j
    OBVIOUS
  <2> HIDE DEF n
  <2> QED
    BY <1>5, <2>1
<1> QED
  BY <1>1, <1>2, <1>3, <1>8, <1>9

LEMMA RankFacts ==
  ASSUME RowsTyped, NEW r \in Reviewed
  PROVE  /\ Rank(r) \in 1..LastStep
         /\ \A n \in 1..LastStep : <<reviews[r].risk, reviews[r].queue>> = StepAt(n) <=> n = Rank(r)
<1>1. reviews[r] \in Review
  BY DEF RowsTyped, Reviewed
<1>2. \E n \in 1..LastStep : StepAt(n) = <<reviews[r].risk, reviews[r].queue>>
  BY <1>1, StepsAreKinds DEF Review
<1>3. Rank(r) \in 1..LastStep /\ StepAt(Rank(r)) = <<reviews[r].risk, reviews[r].queue>>
  BY <1>2 DEF Rank
<1> QED
  BY <1>3, StepsAreKinds

\* The rows of a query: what is pending of its kind, the oldest first, as far as the
\* page has room.
LEMMA QueryFacts ==
  ASSUME RowsTyped, ListingTyped, listing.step \in 1..LastStep, Len(listing.page) < Limit
  PROVE  LET q == Query(listing.step)
             room == Limit - Len(listing.page)
         IN  /\ q \in Seq(Pending) /\ Len(q) <= room
             /\ \A i, j \in DOMAIN q : q[i] = q[j] => i = j
             /\ \A i \in DOMAIN q : Rank(q[i]) = listing.step
             /\ \/ Len(q) = room
                \/ \A r \in Pending : Rank(r) = listing.step => \E i \in DOMAIN q : q[i] = r
<1> DEFINE n == listing.step
           room == Limit - Len(listing.page)
           S == {r \in Pending : <<reviews[r].risk, reviews[r].queue>> = StepAt(n)}
           all == InOrder(S)
           q == FirstOf(all, room)
<1>1. Query(n) = q
  BY DEF Query
<1>2. Reviewed = 1..Len(reviews) /\ Len(reviews) \in Nat
  BY DEF RowsTyped, Reviewed
<1>3. S \in SUBSET Nat /\ IsFiniteSet(S)
  <2>1. IsFiniteSet(Reviewed)
    BY <1>2, FS_Interval
  <2>2. S \subseteq Reviewed /\ Reviewed \subseteq Nat
    BY <1>2 DEF Pending
  <2> QED
    BY <2>1, <2>2, FS_Subset
<1>4. \A r \in Pending : r \in S <=> Rank(r) = n
  BY RankFacts DEF Pending
<1>5. room \in Nat /\ Len(listing.page) \in Nat
  BY DEF ListingTyped
<1>6. S \subseteq Pending
  OBVIOUS
<1> HIDE DEF n, room, S
<1>7. /\ all \in Seq(S) /\ Rising(all)
      /\ \A x \in S : \E i \in 1..Len(all) : all[i] = x
  BY <1>3, InOrderFacts
<1> HIDE DEF all
<1>8. /\ q \in Seq(S)
      /\ Len(q) = IF Len(all) > room THEN room ELSE Len(all)
      /\ \A i \in 1..Len(q) : q[i] = all[i]
  <2>1. q = UpTo(all, room)
    BY <1>5, <1>7, FirstFacts
  <2> HIDE DEF q
  <2>2. /\ UpTo(all, room) \in Seq(S)
        /\ Len(UpTo(all, room)) = IF Len(all) > room THEN room ELSE Len(all)
        /\ \A i \in 1..Len(UpTo(all, room)) : UpTo(all, room)[i] = all[i]
    BY <1>5, <1>7, FirstFacts
  <2> QED
    BY <2>1, <2>2
<1> HIDE DEF q
<1> DEFINE la == Len(all)
           lq == Len(q)
<1>9. la \in Nat /\ lq \in Nat /\ DOMAIN q = 1..lq /\ DOMAIN all = 1..la
  BY <1>7, <1>8
<1>10. lq = (IF la > room THEN room ELSE la) /\ Len(q) = lq /\ Len(all) = la
  BY <1>8
<1> HIDE DEF la, lq
<1>11. lq <= room /\ lq <= la /\ (lq = room \/ lq = la)
  BY <1>5, <1>9, <1>10
<1>12. ASSUME NEW i \in 1..lq, NEW j \in 1..lq, q[i] = q[j] PROVE i = j
  <2>1. i \in 1..la /\ j \in 1..la
    BY <1>9, <1>11
  <2>2. q[i] = all[i] /\ q[j] = all[j]
    BY <1>8, <1>10
  <2>3. all[i] \in S /\ all[j] \in S
    BY <1>7, <1>9, <1>10, <2>1
  <2>4. all[i] \in Nat /\ all[j] \in Nat
    BY <1>3, <2>3
  <2>5. all[i] = all[j]
    BY <1>12, <2>2
  <2>6. ~(i < j) /\ ~(j < i)
    BY SMTT(30), <1>7, <1>9, <2>1, <2>4, <2>5 DEF Rising
  <2>7. i \in Nat /\ j \in Nat
    BY <1>9
  <2> QED
    BY <2>6, <2>7
<1>13. \A i \in 1..lq : q[i] \in S
  BY <1>8, <1>9, <1>10
<1>14. \A i \in 1..lq : q[i] \in Pending /\ Rank(q[i]) = n
  BY <1>4, <1>6, <1>13
<1>15. q \in Seq(Pending)
  BY <1>8, <1>6
<1>16. ASSUME lq = la, NEW r \in Pending, Rank(r) = n PROVE \E i \in 1..lq : q[i] = r
  BY <1>4, <1>7, <1>8, <1>10, <1>16
<1> QED
  BY <1>1, <1>9, <1>10, <1>11, <1>12, <1>14, <1>15, <1>16 DEF n, room

Listed == {listing.page[i] : i \in DOMAIN listing.page}

\* The invariant of the page, with a name for what is on it.
LEMMA PageReads ==
  PageInvariant <=>
    /\ Listed \cup listing.due \subseteq Reviewed
    /\ Len(listing.page) <= Limit
    /\ \A i, j \in DOMAIN listing.page : listing.page[i] = listing.page[j] => i = j
    /\ \A s \in Listed \cap Pending : Rank(s) < listing.step
    /\ \A r \in (listing.due \cap Pending) \ Listed : Rank(r) < listing.step =>
         /\ Len(listing.page) = Limit
         /\ \A s \in Listed \cap Pending : Rank(s) <= Rank(r)
BY DEF PageInvariant, Listed

\* What is decided leaves the queue, what is opened is not on the page yet, and the rest
\* keeps its place.
LEMMA PageFrame ==
  ASSUME ListingTyped, PageInvariant, UNCHANGED listing, Reviewed \subseteq Reviewed',
         \A r \in Reviewed : r \in Pending' => r \in Pending /\ reviews'[r] = reviews[r]
  PROVE  ListingTyped' /\ PageInvariant'
<1>1. ListingTyped'
  BY DEF ListingTyped
<1>2. \A r \in Reviewed : r \in Pending' => Rank(r)' = Rank(r)
  BY DEF Rank
<1>3. Listed' = Listed
  BY DEF Listed
<1>4. /\ Listed \cup listing.due \subseteq Reviewed
      /\ Len(listing.page) <= Limit
      /\ \A i, j \in DOMAIN listing.page : listing.page[i] = listing.page[j] => i = j
      /\ \A s \in Listed \cap Pending : Rank(s) < listing.step
      /\ \A r \in (listing.due \cap Pending) \ Listed : Rank(r) < listing.step =>
           /\ Len(listing.page) = Limit
           /\ \A s \in Listed \cap Pending : Rank(s) <= Rank(r)
  BY PageReads
<1>5. \A s \in (Listed \cup listing.due) \cap Pending' : s \in Pending /\ Rank(s)' = Rank(s)
  BY <1>2, <1>4
<1>6. \A s \in Listed \cap Pending' : Rank(s)' < listing.step
  BY <1>4, <1>5
<1>7. ASSUME NEW r \in (listing.due \cap Pending') \ Listed, Rank(r)' < listing.step
      PROVE  /\ Len(listing.page) = Limit
             /\ \A s \in Listed \cap Pending' : Rank(s)' <= Rank(r)'
  BY <1>4, <1>5, <1>7
<1>8. /\ Listed' \cup listing'.due \subseteq Reviewed'
      /\ Len(listing'.page) <= Limit
      /\ \A i, j \in DOMAIN listing'.page : listing'.page[i] = listing'.page[j] => i = j
      /\ \A s \in Listed' \cap Pending' : Rank(s)' < listing'.step
      /\ \A r \in (listing'.due \cap Pending') \ Listed' : Rank(r)' < listing'.step =>
           /\ Len(listing'.page) = Limit
           /\ \A s \in Listed' \cap Pending' : Rank(s)' <= Rank(r)'
  BY <1>3, <1>4, <1>6, <1>7
<1> QED
  BY <1>1, <1>8 DEF PageInvariant, Listed

LEMMA OpenAndCloseStep ==
  ASSUME RowsTyped, StartListing \/ CloseListing
  PROVE  ListingTyped' /\ PageInvariant'
<1>1. Pending \subseteq 1..MaxReviews /\ Pending \subseteq Reviewed /\ Limit \in Nat
  <2>1. /\ Len(reviews) <= MaxReviews /\ Len(reviews) \in Nat /\ Reviewed = 1..Len(reviews)
        /\ MaxReviews \in Nat
    BY DEF RowsTyped, Reviewed
  <2> QED
    BY <2>1 DEF Pending
<1>2. reviews' = reviews /\ Reviewed' = Reviewed /\ Pending' = Pending
  BY DEF StartListing, CloseListing, Reviewed, Pending
<1>3. \E n \in {0, 1}, due \in {{}, Pending} :
        /\ listing' = [step |-> n, page |-> <<>>, due |-> due]
        /\ n = 0 => due = {}
  BY DEF StartListing, CloseListing, NoListing
<1>4. PICK n \in {0, 1}, due \in {{}, Pending} :
        /\ listing' = [step |-> n, page |-> <<>>, due |-> due]
        /\ n = 0 => due = {}
  BY <1>3
<1>5. listing'.step = n /\ listing'.page = <<>> /\ listing'.due = due
  BY <1>4
<1>6. ListingTyped'
  <2>1. n \in Nat
    OBVIOUS
  <2>2. due \subseteq 1..MaxReviews
    BY <1>1
  <2>3. <<>> \in Seq(1..MaxReviews)
    OBVIOUS
  <2> QED
    BY <1>4, <2>1, <2>2, <2>3 DEF ListingTyped
<1>7. \A r \in Pending : ~(Rank(r)' < n)
  <2>1. \A r \in Reviewed : Rank(r) \in 1..LastStep
    BY RankFacts
  <2>2. \A r \in Reviewed : Rank(r)' = Rank(r)
    BY <1>2 DEF Rank
  <2>3. n \in Nat /\ n <= 1 /\ \A k \in 1..LastStep : k \in Nat /\ k >= 1
    BY StepsAreKinds
  <2> SUFFICES ASSUME NEW r \in Pending PROVE ~(Rank(r)' < n)
    OBVIOUS
  <2>4. Rank(r)' = Rank(r) /\ Rank(r) \in Nat /\ Rank(r) >= 1
    BY <1>1, <2>1, <2>2, <2>3
  <2> QED
    BY <2>3, <2>4
<1>8. PageInvariant'
  <2>1. Listed' = {} /\ DOMAIN listing'.page = {} /\ Len(listing'.page) = 0
    BY <1>5 DEF Listed
  <2>2. due \subseteq Reviewed' /\ \A r \in due : ~(Rank(r)' < listing'.step)
    BY <1>1, <1>2, <1>5, <1>7
  <2> QED
    BY <1>1, <1>5, <2>1, <2>2 DEF PageInvariant, Listed
<1> QED
  BY <1>6, <1>8

LEMMA ListStep ==
  ASSUME RowsTyped, ListingTyped, PageInvariant, ListNext
  PROVE  ListingTyped' /\ PageInvariant'
<1> DEFINE n == listing.step
           page == listing.page
           due == listing.due
           q == Query(n)
<1>1. /\ n \in 1..LastStep /\ LastStep \in Nat /\ Limit \in Nat \ {0} /\ n \in Nat
      /\ page \in Seq(1..MaxReviews) /\ due \subseteq 1..MaxReviews
  BY StepsAreKinds DEF ListNext, ListingTyped
<1>2. reviews' = reviews /\ Reviewed' = Reviewed /\ Pending' = Pending
  BY DEF ListNext, Reviewed, Pending
<1>3. \A r \in Reviewed : Rank(r)' = Rank(r) /\ Rank(r) \in 1..LastStep /\ Rank(r) \in Nat
  <2>1. \A r \in Reviewed : Rank(r)' = Rank(r)
    BY <1>2 DEF Rank
  <2> QED
    BY <2>1, RankFacts, StepsAreKinds
<1>4. Pending \subseteq Reviewed /\ Reviewed \subseteq 1..MaxReviews
  <2>1. /\ Len(reviews) <= MaxReviews /\ Len(reviews) \in Nat /\ Reviewed = 1..Len(reviews)
        /\ MaxReviews \in Nat
    BY DEF RowsTyped, Reviewed
  <2> QED
    BY <2>1 DEF Pending
<1>5. /\ Listed \cup due \subseteq Reviewed
      /\ Len(page) <= Limit
      /\ \A i, j \in DOMAIN page : page[i] = page[j] => i = j
      /\ \A s \in Listed \cap Pending : Rank(s) < n
      /\ \A r \in (due \cap Pending) \ Listed : Rank(r) < n =>
           /\ Len(page) = Limit
           /\ \A s \in Listed \cap Pending : Rank(s) <= Rank(r)
  BY PageReads
<1>6. listing' = [listing EXCEPT !.step = IF Len(page) < Limit THEN n + 1 ELSE LastStep + 1,
                                 !.page = IF Len(page) < Limit THEN page \o q ELSE page]
  BY DEF ListNext
<1>7. CASE ~(Len(page) < Limit)
  <2>1. listing' = [listing EXCEPT !.step = LastStep + 1, !.page = page]
    BY <1>6, <1>7
  <2>2. listing'.step = LastStep + 1 /\ listing'.page = page /\ listing'.due = due
    BY <2>1 DEF ListingTyped
  <2>3. ListingTyped'
    <3>1. listing' = [step |-> LastStep + 1, page |-> page, due |-> due]
      BY <2>1 DEF ListingTyped
    <3> HIDE DEF page, due
    <3> QED
      BY <1>1, <3>1 DEF ListingTyped
  <2>4. Listed' = Listed
    BY <2>2 DEF Listed
  <2>5. Len(page) = Limit
    BY <1>1, <1>5, <1>7
  <2>6. ASSUME NEW s \in Listed \cap Pending PROVE Rank(s)' < LastStep + 1
    <3>1. Rank(s)' = Rank(s) /\ Rank(s) \in 1..LastStep
      BY <1>3, <1>4
    <3> QED
      BY <1>1, <3>1
  <2>7. ASSUME NEW r \in (due \cap Pending) \ Listed, NEW s \in Listed \cap Pending
        PROVE  Rank(s)' <= Rank(r)'
    <3>1. /\ Rank(s)' = Rank(s) /\ Rank(r)' = Rank(r) /\ Rank(s) \in Nat /\ Rank(r) \in Nat
          /\ Rank(s) < n
      BY <1>3, <1>4, <1>5
    <3>2. Rank(r) < n => Rank(s) <= Rank(r)
      BY <1>5
    <3> QED
      BY <1>1, <3>1, <3>2
  <2>8. /\ Listed' \cup listing'.due \subseteq Reviewed'
        /\ Len(listing'.page) <= Limit
        /\ \A i, j \in DOMAIN listing'.page : listing'.page[i] = listing'.page[j] => i = j
        /\ \A s \in Listed' \cap Pending' : Rank(s)' < listing'.step
        /\ \A r \in (listing'.due \cap Pending') \ Listed' : Rank(r)' < listing'.step =>
             /\ Len(listing'.page) = Limit
             /\ \A s \in Listed' \cap Pending' : Rank(s)' <= Rank(r)'
    <3> HIDE DEF page, due
    <3> QED
      BY <1>2, <1>5, <2>2, <2>4, <2>5, <2>6, <2>7
  <2> QED
    BY <2>3, <2>8 DEF PageInvariant, Listed
<1>8. CASE Len(page) < Limit
  <2> DEFINE room == Limit - Len(page)
             longer == page \o q
  <2>1. /\ q \in Seq(Pending) /\ Len(q) <= room
        /\ \A i, j \in DOMAIN q : q[i] = q[j] => i = j
        /\ \A i \in DOMAIN q : Rank(q[i]) = n
        /\ \/ Len(q) = room
           \/ \A r \in Pending : Rank(r) = n => \E i \in DOMAIN q : q[i] = r
    BY <1>1, <1>8, QueryFacts
  <2> HIDE DEF q
  <2>2. q \in Seq(1..MaxReviews) /\ \A i \in DOMAIN q : q[i] \in Pending
    <3> DEFINE M == 1..MaxReviews
    <3>1. Pending \subseteq M
      BY <1>4
    <3> HIDE DEF M
    <3>2. q \in Seq(M) /\ \A i \in DOMAIN q : q[i] \in Pending
      BY <2>1, <3>1
    <3> QED
      BY <3>2 DEF M
  <2>3. listing' = [listing EXCEPT !.step = n + 1, !.page = longer]
    BY <1>6, <1>8
  <2>4. /\ longer \in Seq(1..MaxReviews) /\ Len(longer) = Len(page) + Len(q)
        /\ DOMAIN page = 1..Len(page) /\ DOMAIN q = 1..Len(q) /\ DOMAIN longer = 1..Len(longer)
        /\ Len(page) \in Nat /\ Len(q) \in Nat
        /\ \A i \in 1..Len(page) : longer[i] = page[i]
        /\ \A i \in 1..Len(q) : longer[Len(page) + i] = q[i]
        /\ \A i \in 1..Len(longer) :
             i \in 1..Len(page) \/ \E j \in 1..Len(q) : i = Len(page) + j
    <3> DEFINE M == 1..MaxReviews
    <3>1. page \in Seq(M) /\ q \in Seq(M)
      BY <1>1, <2>2
    <3> HIDE DEF page, M
    <3>2. Len(page) \in Nat /\ Len(q) \in Nat
      BY <3>1
    <3>3. /\ \A i \in 1..(Len(page) + Len(q)) : i \in 1..Len(page) \/ i - Len(page) \in 1..Len(q)
          /\ \A i \in 1..(Len(page) + Len(q)) : i = Len(page) + (i - Len(page))
      BY <3>2
    <3>4. longer \in Seq(M) /\ Len(longer) = Len(page) + Len(q)
      BY <3>1
    <3>5. /\ \A i \in 1..Len(page) : longer[i] = page[i]
          /\ \A i \in 1..Len(q) : longer[Len(page) + i] = q[i]
      BY <3>1
    <3> HIDE DEF longer
    <3>6. DOMAIN page = 1..Len(page) /\ DOMAIN q = 1..Len(q) /\ DOMAIN longer = 1..Len(longer)
      BY <3>1, <3>4
    <3> QED
      BY <3>2, <3>3, <3>4, <3>5, <3>6 DEF M
  <2>5. listing'.step = n + 1 /\ listing'.page = longer /\ listing'.due = due
    BY <2>3 DEF ListingTyped
  <2>6. ListingTyped'
    <3>1. listing' = [step |-> n + 1, page |-> longer, due |-> due]
      BY <2>3 DEF ListingTyped
    <3>2. n + 1 \in Nat /\ longer \in Seq(1..MaxReviews) /\ due \subseteq 1..MaxReviews
      BY <1>1, <2>4
    <3> HIDE DEF longer, n, due
    <3> QED
      BY <3>1, <3>2 DEF ListingTyped
  <2> HIDE DEF longer, page, due, n
  <2>7. Listed' = Listed \cup {q[i] : i \in DOMAIN q}
    <3>1. Listed' = {longer[i] : i \in DOMAIN longer}
      BY <2>5 DEF Listed
    <3>2. Listed = {page[i] : i \in DOMAIN page}
      BY DEF Listed, page
    <3>3. \A i \in DOMAIN longer : longer[i] \in Listed \cup {q[j] : j \in DOMAIN q}
      <4> SUFFICES ASSUME NEW i \in 1..Len(longer)
                   PROVE  longer[i] \in Listed \cup {q[j] : j \in DOMAIN q}
        BY <2>4
      <4>1. CASE i \in 1..Len(page)
        BY <2>4, <3>2, <4>1
      <4>2. ASSUME NEW j \in 1..Len(q), i = Len(page) + j
            PROVE  longer[i] \in Listed \cup {q[k] : k \in DOMAIN q}
        BY <2>4, <4>2
      <4> QED
        BY <2>4, <4>1, <4>2
    <3>4. \A i \in DOMAIN page : i \in DOMAIN longer /\ longer[i] = page[i]
      BY <2>4
    <3>5. \A i \in DOMAIN q : Len(page) + i \in DOMAIN longer /\ longer[Len(page) + i] = q[i]
      BY <2>4
    <3> QED
      BY <3>1, <3>2, <3>3, <3>4, <3>5
  <2>8. Len(longer) <= Limit
    BY <1>1, <2>1, <2>4
  <2>9. ASSUME NEW i \in DOMAIN longer, NEW j \in DOMAIN longer, longer[i] = longer[j]
        PROVE  i = j
    <3>1. ASSUME NEW k \in 1..Len(page), NEW l \in 1..Len(q) PROVE page[k] # q[l]
      <4>1. page[k] \in Listed /\ q[l] \in Pending /\ Rank(q[l]) = n
        BY <2>1, <2>2, <2>4 DEF Listed, page
      <4>2. page[k] \in Pending => Rank(page[k]) < n
        BY <1>5, <4>1
      <4> QED
        BY <1>1, <4>1, <4>2
    <3>2. CASE i \in 1..Len(page) /\ j \in 1..Len(page)
      BY <1>5, <2>4, <2>9, <3>2
    <3>3. CASE i \in 1..Len(page) /\ \E l \in 1..Len(q) : j = Len(page) + l
      BY <2>4, <2>9, <3>1, <3>3
    <3>4. CASE j \in 1..Len(page) /\ \E l \in 1..Len(q) : i = Len(page) + l
      BY <2>4, <2>9, <3>1, <3>4
    <3>5. ASSUME NEW k \in 1..Len(q), NEW l \in 1..Len(q), i = Len(page) + k, j = Len(page) + l
          PROVE  i = j
      <4>1. q[k] = q[l]
        BY <2>4, <2>9, <3>5
      <4>2. k = l
        BY <2>1, <2>4, <4>1
      <4> QED
        BY <3>5, <4>2
    <3> QED
      BY <2>4, <3>2, <3>3, <3>4, <3>5
  <2>10. \A s \in Listed' \cap Pending : Rank(s)' <= n /\ Rank(s)' < n + 1
    <3> SUFFICES ASSUME NEW s \in Listed' \cap Pending PROVE Rank(s)' <= n /\ Rank(s)' < n + 1
      OBVIOUS
    <3>1. Rank(s)' = Rank(s) /\ Rank(s) \in Nat /\ n \in Nat
      BY <1>1, <1>3, <1>4
    <3>2. CASE s \in Listed
      BY <1>5, <3>1, <3>2
    <3>3. CASE \E i \in DOMAIN q : s = q[i]
      BY <2>1, <3>1, <3>3
    <3> QED
      BY <2>7, <3>2, <3>3
  <2>11. ASSUME NEW r \in (due \cap Pending) \ Listed', Rank(r)' < n + 1
         PROVE  /\ Len(longer) = Limit
                /\ \A s \in Listed' \cap Pending : Rank(s)' <= Rank(r)'
    <3>1. r \notin Listed /\ Rank(r)' = Rank(r) /\ Rank(r) \in Nat
      BY <1>3, <1>4, <2>7
    <3>2. ~(Rank(r) < n)
      BY <1>1, <1>5, <1>8, <2>4, <3>1 DEF page
    <3>3. Rank(r) = n
      BY <1>1, <2>11, <3>1, <3>2
    <3>4. Len(q) = room
      BY <2>1, <2>7, <3>3
    <3>5. Len(longer) = Limit
      BY <1>1, <2>4, <3>4
    <3> QED
      BY <2>10, <3>1, <3>3, <3>5
  <2>12. /\ Listed' \cup listing'.due \subseteq Reviewed'
         /\ Len(listing'.page) <= Limit
         /\ \A i, j \in DOMAIN listing'.page : listing'.page[i] = listing'.page[j] => i = j
         /\ \A s \in Listed' \cap Pending' : Rank(s)' < listing'.step
         /\ \A r \in (listing'.due \cap Pending') \ Listed' : Rank(r)' < listing'.step =>
              /\ Len(listing'.page) = Limit
              /\ \A s \in Listed' \cap Pending' : Rank(s)' <= Rank(r)'
    <3>1. Listed' \cup due \subseteq Reviewed
      BY <1>4, <1>5, <2>2, <2>7
    <3> QED
      BY <1>2, <2>5, <2>8, <2>9, <2>10, <2>11, <3>1
  <2> QED
    BY <2>6, <2>12 DEF PageInvariant, Listed
<1> QED
  BY <1>7, <1>8

LEMMA PageStep ==
  ASSUME Core, ListingTyped, PageInvariant, [Next]_vars
  PROVE  ListingTyped' /\ PageInvariant'
<1>0. RowsTyped /\ reviews \in Seq(Review)
  BY DEF Core, RowsTyped
<1>1. CASE UNCHANGED <<listing, reviews>>
  BY <1>1, PageFrame DEF Reviewed, Pending
<1>2. ASSUME NEW u \in Users \cup {NoUser}, NEW kind \in Kinds, OpenReview(u, kind)
      PROVE  ListingTyped' /\ PageInvariant'
  <2> DEFINE row == [user |-> u, risk |-> kind[1], queue |-> kind[2],
                     status |-> "pending", outcome |-> "needs_review"]
  <2>1. reviews' = Append(reviews, row) /\ UNCHANGED listing
    BY <1>2 DEF OpenReview
  <2> HIDE DEF row
  <2>2. /\ Reviewed = 1..Len(reviews) /\ Reviewed' = 1..Len(reviews')
        /\ Len(reviews') = Len(reviews) + 1 /\ Len(reviews) \in Nat
    BY <1>0, <2>1 DEF Reviewed
  <2>3. Reviewed \subseteq Reviewed'
    BY <2>2
  <2>4. \A r \in Reviewed : reviews'[r] = reviews[r]
    BY <1>0, <2>1, <2>2
  <2>5. \A r \in Reviewed : r \in Pending' => r \in Pending
    BY <2>4 DEF Pending
  <2> QED
    BY <2>1, <2>3, <2>4, <2>5, PageFrame
<1>3. ASSUME NEW q \in Requests, NEW decision \in Decisions, DecideAndNotify(q, decision)
      PROVE  ListingTyped' /\ PageInvariant'
  <2>1. DecideReview(q, decision) /\ UNCHANGED listing
    BY <1>3 DEF DecideAndNotify, DecideReview
  <2>2. CASE Decidable(desks[q].actor, desks[q].review)
    <3>1. PICK a, r : a = desks[q].actor /\ r = desks[q].review
      OBVIOUS
    <3>2. /\ r \in Reviewed /\ reviews' \in Seq(Review) /\ Len(reviews') = Len(reviews)
          /\ reviews'[r].status = DecidedStatus(decision)
          /\ \A s \in Reviewed \ {r} : reviews'[s] = reviews[s]
      BY <2>1, <2>2, <3>1, DecideRows
    <3>3. Reviewed' = Reviewed
      BY <1>0, <3>2 DEF Reviewed
    <3>4. \A s \in Reviewed : s \in Pending' => s \in Pending /\ reviews'[s] = reviews[s]
      BY <3>2, DecidedTypes DEF Pending
    <3> QED
      BY <2>1, <3>3, <3>4, PageFrame
  <2>3. CASE ~Decidable(desks[q].actor, desks[q].review)
    BY <1>1, <2>1, <2>3 DEF DecideReview
  <2> QED
    BY <2>2, <2>3
<1>4. CASE ListNext
  BY <1>0, <1>4, ListStep
<1>5. CASE StartListing \/ CloseListing
  BY <1>0, <1>5, OpenAndCloseStep
<1>6. ASSUME NEW q \in Requests, NEW a \in Users,
             \/ \E r \in Reviewed : TakeReview(q, a, r)
             \/ \E u \in Users : TakeProfile(q, a, u)
      PROVE  ListingTyped' /\ PageInvariant'
  BY <1>1, <1>6 DEF TakeReview, TakeProfile
<1>7. CASE \E u \in Users, n \in Places : NotifyIntro(u, n)
  BY <1>1, <1>7 DEF NotifyIntro, reviewVars
<1> QED
  BY <1>1, <1>2, <1>3, <1>4, <1>5, <1>6, <1>7 DEF Next, vars, reviewVars

LEMMA PageInit == Init => ListingTyped /\ PageInvariant
<1> SUFFICES ASSUME Init PROVE ListingTyped /\ PageInvariant
  OBVIOUS
<1>1. listing = [step |-> 0, page |-> <<>>, due |-> {}]
  BY DEF Init, ReviewInit, NoListing
<1>2. ListingTyped
  BY <1>1 DEF ListingTyped
<1>3. PageInvariant
  BY <1>1 DEF PageInvariant
<1> QED
  BY <1>2, <1>3

LEMMA PageAlways == Spec => [](ListingTyped /\ PageInvariant)
<1>1. Core /\ ListingTyped /\ PageInvariant /\ [Next]_vars => (ListingTyped /\ PageInvariant)'
  BY PageStep
<1> QED
  BY <1>1, PageInit, CoreAlways, PTL DEF Spec

\* A page of the queue shows no review twice, and one that was pending all the time is
\* missing only from a page that is full of reviews that come before it, whatever is
\* opened and decided between its queries.
THEOREM PageCorrect == Spec => []PageIsComplete
<1>1. Core /\ ListingTyped /\ PageInvariant => PageIsComplete
  <2> SUFFICES ASSUME RowsTyped, ListingTyped, PageInvariant, listing.step > LastStep
               PROVE  /\ Cardinality(Listed) = Len(listing.page)
                      /\ \A r \in (listing.due \cap Pending) \ Listed :
                           /\ Len(listing.page) = Limit
                           /\ \A s \in Listed \cap Pending : Rank(s) <= Rank(r)
    BY DEF PageIsComplete, Listed, Core
  <2>1. /\ \A i, j \in DOMAIN listing.page : listing.page[i] = listing.page[j] => i = j
        /\ \A r \in (listing.due \cap Pending) \ Listed : Rank(r) < listing.step =>
             /\ Len(listing.page) = Limit
             /\ \A s \in Listed \cap Pending : Rank(s) <= Rank(r)
    BY PageReads
  <2>2. listing.page \in Seq(1..MaxReviews) /\ listing.step \in Nat
    BY DEF ListingTyped
  <2>3. Cardinality(Listed) = Len(listing.page)
    BY <2>1, <2>2, NoneTwice DEF Listed
  <2>4. \A r \in Pending : Rank(r) < listing.step
    BY <2>2, RankFacts, StepsAreKinds DEF Pending
  <2> QED
    BY <2>1, <2>3, <2>4
<1> QED
  BY <1>1, CoreAlways, PageAlways, PTL

-----------------------------------------------------------------------------
\* Types

\* The tables hold what their columns allow, the log, the desks and the pages point to
\* reviews that there are, and a notification is for a user with a profile.
THEOREM TypeCorrect == Spec => []TypeOK
<1>1. Core /\ FeedsTyped /\ ListingTyped => TypeOK
  <2> SUFFICES ASSUME Core, FeedsTyped, ListingTyped PROVE TypeOK
    OBVIOUS
  <2>0. RowsTyped /\ UsersHaveProfiles /\ LogInvariant
    BY DEF Core
  <2>1. Reviewed \subseteq 1..MaxReviews
    <3>1. /\ Len(reviews) <= MaxReviews /\ Len(reviews) \in Nat /\ Reviewed = 1..Len(reviews)
          /\ MaxReviews \in Nat
      BY <2>0 DEF RowsTyped, Reviewed
    <3> QED
      BY <3>1
  <2>2. decisions \in Seq((1..MaxReviews) \X Decisions \X Users)
    <3> DEFINE Told == (1..MaxReviews) \X Decisions \X Users
    <3>1. decisions \in Seq(Line)
      BY <2>0 DEF RowsTyped
    <3>2. ASSUME NEW i \in DOMAIN decisions PROVE decisions[i] \in Told
      <4>1. decisions[i] \in Line /\ decisions[i][1] \in Reviewed
        BY <2>0, <3>1 DEF LogInvariant, LogIsOfReviews
      <4> QED
        BY <2>1, <4>1 DEF Line
    <3> HIDE DEF Told
    <3>3. decisions \in Seq(Told)
      BY <3>1, <3>2
    <3> QED
      BY <3>3 DEF Told
  <2>3. desks \in [Requests -> [actor : Users \cup {NoUser}, review : 0..MaxReviews]]
    <3>1. desks \in [Requests -> Desk]
      BY <2>0 DEF RowsTyped
    <3>2. ASSUME NEW q \in Requests
          PROVE  desks[q] \in [actor : Users \cup {NoUser}, review : 0..MaxReviews]
      <4>1. desks[q].review \in 0..MaxReviews
        BY <2>0, <2>1, <3>1 DEF Desk, LogInvariant, DesksAreTaken
      <4> QED
        BY <3>1, <4>1 DEF Desk
    <3> QED
      BY <3>1, <3>2
  <2>4. ReviewTypeOK
    BY <2>0, <2>2, <2>3 DEF RowsTyped, ReviewTypeOK, ListingTyped
  <2>5. NoticeTypeOK
    BY <2>0 DEF RowsTyped, NoticeTypeOK, FeedsTyped, Feed
  <2>6. \A n \in Places \ Free : notices[n].user \in Users /\ profiles[notices[n].user] # NoProfile
    <3>1. \A n \in Places \ Free : notices[n] \in NoticeRow
      BY <2>0 DEF RowsTyped, Free
    <3> QED
      BY <2>0, <3>1 DEF NoticeRow, UsersHaveProfiles
  <2> QED
    BY <2>0, <2>4, <2>5, <2>6 DEF TypeOK, RowsTyped
<1> QED
  BY <1>1, CoreAlways, FeedAlways, PageAlways, PTL
=============================================================================
