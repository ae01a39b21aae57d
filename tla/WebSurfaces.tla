----------------------------- MODULE WebSurfaces -----------------------------
(***************************************************************************)
(* What the pages of the web app read and change, as tables.               *)
(*                                                                         *)
(* A fact is a part of the server's state; a query is a cached answer and  *)
(* shows facts; a mutation is a request that changes a fact.  The tables   *)
(* follow one manuscript, one publisher, one run and one review, so that a *)
(* query stands for one key of the cache.  A page component is a record:   *)
(*   reads    query -> the queries whose data it waits for                 *)
(*   offers   mutation -> the queries whose data the button waits for      *)
(* The tables say what the code does with each key; whether that is enough *)
(* is a question for WebQueries.                                           *)
(***************************************************************************)
EXTENDS Naturals

Facts == {"manuscript", "sample", "processing", "run", "billing", "notice", "intro",
          "access", "profile", "contacts", "review", "payment", "publishers"}

\* @@ of TLC, written out: it has no definition that a prover knows.
f \oplus g == [x \in DOMAIN f \cup DOMAIN g |-> IF x \in DOMAIN f THEN f[x] ELSE g[x]]

-------------------------------------------------------------------------------
(* Query tables, one per file of hooks: the facts each answer is made of.  *)

ManuscriptQueries == [
    manuscripts |-> {"manuscript", "sample"},
    manuscript  |-> {"manuscript", "sample"},
    document    |-> {"sample", "processing"}]

MatchQueries == [
    runs           |-> {"run"},
    profileHistory |-> {"run"},
    run            |-> {"intro"},
    candidate      |-> {"intro"}]

BillingQueries == [
    subscription |-> {"billing"},
    usage        |-> {"billing", "intro", "sample"}]

NotificationQueries == [
    bell    |-> {"notice"},
    notices |-> {"notice"}]

IntroQueries == [intros |-> {"intro"}]

ProfileQueries == [
    publicPublishers |-> {"publishers"},
    publisher        |-> {"intro"},
    author           |-> {"intro", "access"},
    manuscriptProfile |-> {"intro"},
    accessRequests   |-> {"access"}]

MeQuery == [me |-> {"profile"}]

AdminQueries == [
    dashboard    |-> {"review", "payment"},
    queue        |-> {"review"},
    reviews      |-> {"review"},
    review       |-> {"review"},
    reviewDetail |-> {"review"},
    jobsHealth   |-> {"processing"},
    paymentsHealth |-> {"payment"},
    trustSafety  |-> {"review"},
    auditLogs    |-> {"review", "payment"},
    adminIntros  |-> {"intro"},
    adminIntro   |-> {"intro"}]

\* Not a query: the answer of its own useRunMatch that MatchesPage goes on showing.
MutationData == [result |-> {"intro"}]

Shows == ManuscriptQueries \oplus MatchQueries \oplus BillingQueries \oplus NotificationQueries
         \oplus IntroQueries \oplus ProfileQueries \oplus MeQuery \oplus AdminQueries \oplus MutationData

Queries == DOMAIN Shows

-------------------------------------------------------------------------------
(* Mutations: the fact that changes, the entries written with the answer,  *)
(* the entries that are invalidated when the answer arrives, and the pages *)
(* the handler goes to after it ({} when it stays).                        *)

Mutation(changes, writes, invalidates) ==
    [changes |-> changes, writes |-> writes, invalidates |-> invalidates, goes |-> {}]

useCreateManuscript ==
    [Mutation("manuscript", {}, {"manuscripts"}) EXCEPT !.goes = {"manuscriptDetail"}]
useUpdateManuscript == Mutation("manuscript", {"manuscript"}, {"manuscripts"})
useUploadSample == Mutation("sample", {}, {"manuscript"})
useRunMatch == Mutation("run", {"result"}, {"runs"})
useStartTrial == Mutation("billing", {"subscription", "usage"}, {"subscription", "usage"})
useMarkAllNotificationsRead == Mutation("notice", {}, DOMAIN NotificationQueries)

\* buildCtaPath, by the type of the notification.
CtaPages == {"requests", "profile", "manuscriptDetail", "dashboard"}

useMarkNotificationRead == Mutation("notice", {}, DOMAIN NotificationQueries)
openNotification == [useMarkNotificationRead EXCEPT !.goes = CtaPages]

\* Mutant: the matches are forgotten.
IntroSurfacesWithoutMatches ==
    DOMAIN IntroQueries \cup (DOMAIN ProfileQueries \ {"publicPublishers"})
        \cup DOMAIN NotificationQueries

\* invalidateIntroSurfaces: the four prefixes it names.
IntroSurfaces ==
    DOMAIN IntroQueries \cup DOMAIN MatchQueries
        \cup (DOMAIN ProfileQueries \ {"publicPublishers"}) \cup DOMAIN NotificationQueries

useIntroMutation == Mutation("intro", {}, IntroSurfaces)
useAccessMutation == Mutation("access", {}, {"accessRequests"})
useCompleteOnboardingDetails == Mutation("profile", {}, {"me"})
useUpdateMatchVisibleContacts == Mutation("contacts", {}, {})
repairMutation == Mutation("payment", {}, {"paymentsHealth"})

dashboardDecision ==
    Mutation("review", {}, {"dashboard", "queue", "reviews", "jobsHealth", "paymentsHealth",
                            "trustSafety"})

reviewsDecision ==
    Mutation("review", {}, {"dashboard", "queue", "reviews", "reviewDetail", "auditLogs",
                            "trustSafety"})

Mutations == [
    createManuscript |-> useCreateManuscript, updateManuscript |-> useUpdateManuscript,
    uploadSample |-> useUploadSample, runMatch |-> useRunMatch, startTrial |-> useStartTrial,
    markAllRead |-> useMarkAllNotificationsRead, openNotice |-> openNotification,
    markRead |-> useMarkNotificationRead,
    createIntro |-> useIntroMutation, transitionIntro |-> useIntroMutation,
    requestAccess |-> useAccessMutation, decideAccess |-> useAccessMutation,
    completeDetails |-> useCompleteOnboardingDetails,
    updateContacts |-> useUpdateMatchVisibleContacts,
    repair |-> repairMutation, decideOnDashboard |-> dashboardDecision,
    decideOnReviews |-> reviewsDecision]

\* Handlers that stay pending until what they invalidated has been fetched.
Awaiting == {"decideOnDashboard", "decideOnReviews"}

-------------------------------------------------------------------------------
(* Pages.  A component's record; a page is made of those it renders.       *)

Component(reads, offers) == [reads |-> reads, offers |-> offers]
None == [x \in {} |-> {}]
Inert == Component(None, None)
a ++ b == Component(a.reads \oplus b.reads, a.offers \oplus b.offers)

NotificationBell == Component([bell |-> {"me"}], [openNotice |-> {"bell"}])
PlatformHeader == Component([me |-> {}], None) ++ NotificationBell

\* IntroRequestAction belongs to an answer q that carries the state of the intro.
IntroRequestAction(q) == Component(None, [createIntro |-> {q}, transitionIntro |-> {q}])
CandidateList(q) == IntroRequestAction(q)

DashboardPage == PlatformHeader ++ Component([subscription |-> {"me"}, usage |-> {"me"}], None)

\* AuthorGuard mounts the two pages of manuscripts when it knows that the profile is an author's.
ManuscriptListPage ==
    PlatformHeader ++ Component([manuscripts |-> {"me"}], [createManuscript |-> {"me"}])

ManuscriptMetadataCard == Component(None, [updateManuscript |-> {"manuscript"}])
UploadControl(needs) == Component(None, [uploadSample |-> needs])

\* The upload waits for the document when the manuscript has one: see Offered of WebQueries.
SampleDocumentCard == UploadControl({"manuscript"})

ManuscriptDetailPage ==
    PlatformHeader ++ Component([manuscript |-> {"me"}, document |-> {"manuscript"}], None)
        ++ ManuscriptMetadataCard ++ SampleDocumentCard

MatchesPage(role) ==
    PlatformHeader
        ++ (IF role = "author"
            THEN Component([runs |-> {}, manuscripts |-> {"me"}], [runMatch |-> {"manuscripts"}])
            ELSE Component([runs |-> {}], [runMatch |-> {"me"}]))
        ++ Component([result |-> {}], None) ++ CandidateList("result")

MatchRunPage == PlatformHeader ++ Component([run |-> {}], None) ++ CandidateList("run")

MatchCandidatePage ==
    PlatformHeader ++ Component([candidate |-> {}], None) ++ IntroRequestAction("candidate")

ProfileHistoryPage ==
    PlatformHeader ++ Component([profileHistory |-> {}], [runMatch |-> {"profileHistory"}])

\* Publishers see the buttons beside their own requests; the server lets only authors decide.
RequestsPage(role) ==
    PlatformHeader ++ Component([intros |-> {}, accessRequests |-> {}],
                                IF role = "author" THEN [decideAccess |-> {"accessRequests"}]
                                ELSE None)
        ++ IntroRequestAction("intros")

NotificationsPage ==
    PlatformHeader ++ Component([notices |-> {}],
                                [markAllRead |-> {"notices"}, markRead |-> {"notices"},
                                 openNotice |-> {"notices"}])

BillingPage ==
    PlatformHeader ++ Component([subscription |-> {}, usage |-> {}],
                                [startTrial |-> {"subscription", "usage"}])

AuthorDetailsCard == Component(None, [completeDetails |-> {"me"}])
MatchVisibleContactCard == Component(None, [updateContacts |-> {"me"}])

ProfilePage(role) ==
    PlatformHeader ++ MatchVisibleContactCard
        ++ (IF role = "author" THEN AuthorDetailsCard ELSE Inert)

PublisherProfileSurfacePage == PlatformHeader ++ Component([publisher |-> {}], None)
AuthorProfileSurfacePage ==
    PlatformHeader ++ Component([author |-> {}], [requestAccess |-> {"author"}])
ManuscriptProfileSurfacePage == PlatformHeader ++ Component([manuscriptProfile |-> {}], None)
AppPlaceholderPage == PlatformHeader
PublicPublishersPage == PlatformHeader ++ Component([publicPublishers |-> {}], None)

\* renderMarketplaceRoutes, for a member with this role.  AuthorGuard keeps publishers out of
\* the manuscripts; the profiles are those of the other side, which the server shows.
MarketplaceRoutes(role) ==
    [dashboard |-> DashboardPage, matches |-> MatchesPage(role), matchRun |-> MatchRunPage,
     matchCandidate |-> MatchCandidatePage, profileHistory |-> ProfileHistoryPage,
     requests |-> RequestsPage(role), notifications |-> NotificationsPage,
     billing |-> BillingPage, profile |-> ProfilePage(role), settings |-> AppPlaceholderPage]
    \oplus IF role = "author"
       THEN [manuscripts |-> ManuscriptListPage, manuscriptDetail |-> ManuscriptDetailPage,
             publisherProfile |-> PublisherProfileSurfacePage]
       ELSE [authorProfile |-> AuthorProfileSurfacePage,
             manuscriptProfile |-> ManuscriptProfileSurfacePage]

PublicRoutes == [publishers |-> PublicPublishersPage]

-------------------------------------------------------------------------------
AdminReviewQueueTable(q) == Component([x \in {q} |-> {}], None)
AdminHealthTables == Component([jobsHealth |-> {}, paymentsHealth |-> {}], None)
AdminSections ==
    AdminHealthTables ++ Component([dashboard |-> {}, trustSafety |-> {}], None)

AdminDashboardPage == AdminReviewQueueTable("queue") ++ AdminSections

\* The dashboard with its drawer open.
AdminDashboardReviewDrawer ==
    AdminDashboardPage
        ++ Component([review |-> {"queue"}], [decideOnDashboard |-> {"review"}])

AdminReviewDetailPanel ==
    Component([reviewDetail |-> {"reviews"}], [decideOnReviews |-> {"reviewDetail"}])
AdminProfileReviewsPage == AdminReviewQueueTable("reviews") ++ AdminReviewDetailPanel

AdminJobsPage == Component([jobsHealth |-> {}], None)
AdminPaymentsPage == Component([paymentsHealth |-> {}], [repair |-> {"paymentsHealth"}])
AdminTrustSafetyPage == Component([trustSafety |-> {}], None)
AdminAuditLogsPage == Component([auditLogs |-> {}], None)

\* The list of intro requests, without and with one selected.
AdminIntroRequestsPage == Component([adminIntros |-> {}], None)
AdminIntroRequestDetail == AdminIntroRequestsPage ++ Component([adminIntro |-> {}], None)

\* renderAdminRoutes; the two pages that open on another one are routes of the model only.
AdminRoutes ==
    [admin |-> AdminDashboardPage, adminReview |-> AdminDashboardReviewDrawer,
     adminReviews |-> AdminProfileReviewsPage, adminTrustSafety |-> AdminTrustSafetyPage,
     adminIntroRequests |-> AdminIntroRequestsPage,
     adminIntroRequest |-> AdminIntroRequestDetail, adminJobs |-> AdminJobsPage,
     adminPayments |-> AdminPaymentsPage, adminAuditLogs |-> AdminAuditLogsPage,
     adminSettings |-> Inert]

OpensOn == [adminReview |-> "admin", adminIntroRequest |-> "adminIntroRequests"]

Roles == {"author", "publisher", "admin"}

\* role -> page -> component
Routes == [r \in Roles |->
    IF r = "admin" THEN AdminRoutes ELSE MarketplaceRoutes(r) \oplus PublicRoutes]
==============================================================================
