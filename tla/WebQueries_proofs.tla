--------------------------- MODULE WebQueries_proofs ---------------------------
(***************************************************************************)
(* Theorems about WebQueries, for any number of mutations under way, any   *)
(* pages that are visited and any number of events.  The tables of         *)
(* WebSurfaces are read first: what every page holds, whoever sees it, and  *)
(* which queries each mutation writes, invalidates or leaves behind.       *)
(***************************************************************************)
EXTENDS WebQueries, TLAPS

-------------------------------------------------------------------------------
(* The tables of WebSurfaces.                                              *)

LEMMA MergeIs ==
  \A f, g : /\ DOMAIN (f \oplus g) = DOMAIN f \cup DOMAIN g
            /\ \A x \in DOMAIN f : (f \oplus g)[x] = f[x]
            /\ \A x \in DOMAIN g : x \notin DOMAIN f => (f \oplus g)[x] = g[x]
  BY DEF \oplus

LEMMA MergeAt ==
  ASSUME NEW f, NEW g, NEW x
  PROVE  /\ x \in DOMAIN f => x \in DOMAIN (f \oplus g) /\ (f \oplus g)[x] = f[x]
         /\ x \in DOMAIN g /\ x \notin DOMAIN f =>
               x \in DOMAIN (f \oplus g) /\ (f \oplus g)[x] = g[x]
         /\ x \in DOMAIN (f \oplus g) => x \in DOMAIN f \/ x \in DOMAIN g
  BY DEF \oplus

\* The queries that show a fact.
Showing(f) ==
    CASE f = "manuscript" -> {"manuscripts", "manuscript"}
      [] f = "sample" -> {"manuscripts", "manuscript", "document", "usage"}
      [] f = "processing" -> {"document", "jobsHealth"}
      [] f = "run" -> {"runs", "profileHistory"}
      [] f = "billing" -> {"subscription", "usage"}
      [] f = "notice" -> {"bell", "notices"}
      [] f = "intro" -> {"run", "candidate", "usage", "intros", "publisher", "author",
                         "manuscriptProfile", "adminIntros", "adminIntro", "result"}
      [] f = "access" -> {"author", "accessRequests"}
      [] f = "profile" -> {"me"}
      [] f = "contacts" -> {}
      [] f = "review" -> {"dashboard", "queue", "reviews", "review", "reviewDetail",
                          "trustSafety", "auditLogs"}
      [] f = "payment" -> {"dashboard", "paymentsHealth", "auditLogs"}
      [] f = "publishers" -> {"publicPublishers"}
      [] OTHER -> {}

\* Rows of a table of queries: the facts of each are some facts, and those that Showing says.
Listed(t) ==
    \A q \in DOMAIN t : /\ t[q] # {} /\ t[q] \subseteq Facts
                        /\ \A f \in t[q] : q \in Showing(f)

LEMMA MergedListed ==
  ASSUME NEW s, NEW t, Listed(s), Listed(t)
  PROVE  Listed(s \oplus t)
<1> SUFFICES ASSUME NEW q \in DOMAIN (s \oplus t)
             PROVE  /\ (s \oplus t)[q] # {} /\ (s \oplus t)[q] \subseteq Facts
                    /\ \A f \in (s \oplus t)[q] : q \in Showing(f)
  BY DEF Listed
<1>1. (q \in DOMAIN s /\ (s \oplus t)[q] = s[q]) \/ (q \in DOMAIN t /\ (s \oplus t)[q] = t[q])
  <2>1. DOMAIN (s \oplus t) = DOMAIN s \cup DOMAIN t
    BY Zenon, MergeIs
  <2>2. q \in DOMAIN s => (s \oplus t)[q] = s[q]
    BY Zenon, MergeIs
  <2>3. q \in DOMAIN t /\ q \notin DOMAIN s => (s \oplus t)[q] = t[q]
    BY MergeIs
  <2> QED
    BY <2>1, <2>2, <2>3
<1> QED
  BY <1>1 DEF Listed

LEMMA EachListed ==
  /\ Listed(ManuscriptQueries) /\ Listed(MatchQueries) /\ Listed(BillingQueries)
  /\ Listed(NotificationQueries) /\ Listed(IntroQueries) /\ Listed(ProfileQueries)
  /\ Listed(MeQuery) /\ Listed(AdminQueries) /\ Listed(MutationData)
<1>1. Listed(ManuscriptQueries)
  BY DEF Listed, Facts, Showing, ManuscriptQueries
<1>2. Listed(MatchQueries)
  BY DEF Listed, Facts, Showing, MatchQueries
<1>3. Listed(BillingQueries)
  BY DEF Listed, Facts, Showing, BillingQueries
<1>4. Listed(NotificationQueries)
  BY DEF Listed, Facts, Showing, NotificationQueries
<1>5. Listed(IntroQueries)
  BY DEF Listed, Facts, Showing, IntroQueries
<1>6. Listed(ProfileQueries)
  BY DEF Listed, Facts, Showing, ProfileQueries
<1>7. Listed(MeQuery)
  BY DEF Listed, Facts, Showing, MeQuery
<1>8. Listed(AdminQueries)
  BY DEF Listed, Facts, Showing, AdminQueries
<1>9. Listed(MutationData)
  BY DEF Listed, Facts, Showing, MutationData
<1> QED
  BY <1>1, <1>2, <1>3, <1>4, <1>5, <1>6, <1>7, <1>8, <1>9

LEMMA ShowsListed == Listed(Shows)
<1>1. Listed(ManuscriptQueries \oplus MatchQueries)
  BY EachListed, MergedListed
<1>2. Listed(ManuscriptQueries \oplus MatchQueries \oplus BillingQueries)
  BY <1>1, EachListed, MergedListed
<1>3. Listed(ManuscriptQueries \oplus MatchQueries \oplus BillingQueries \oplus NotificationQueries)
  BY <1>2, EachListed, MergedListed
<1>4. Listed(ManuscriptQueries \oplus MatchQueries \oplus BillingQueries \oplus NotificationQueries
             \oplus IntroQueries)
  BY <1>3, EachListed, MergedListed
<1>5. Listed(ManuscriptQueries \oplus MatchQueries \oplus BillingQueries \oplus NotificationQueries
             \oplus IntroQueries \oplus ProfileQueries)
  BY <1>4, EachListed, MergedListed
<1>6. Listed(ManuscriptQueries \oplus MatchQueries \oplus BillingQueries \oplus NotificationQueries
             \oplus IntroQueries \oplus ProfileQueries \oplus MeQuery)
  BY <1>5, EachListed, MergedListed
<1>7. Listed(ManuscriptQueries \oplus MatchQueries \oplus BillingQueries \oplus NotificationQueries
             \oplus IntroQueries \oplus ProfileQueries \oplus MeQuery \oplus AdminQueries)
  BY <1>6, EachListed, MergedListed
<1> QED
  BY <1>7, EachListed, MergedListed DEF Shows

LEMMA QueriesAre ==
  Queries = DOMAIN ManuscriptQueries \cup DOMAIN MatchQueries \cup DOMAIN BillingQueries
            \cup DOMAIN NotificationQueries \cup DOMAIN IntroQueries \cup DOMAIN ProfileQueries
            \cup DOMAIN MeQuery \cup DOMAIN AdminQueries \cup DOMAIN MutationData
<1> DEFINE A == ManuscriptQueries \oplus MatchQueries
           B == A \oplus BillingQueries
           C == B \oplus NotificationQueries
           D == C \oplus IntroQueries
           E == D \oplus ProfileQueries
           F == E \oplus MeQuery
           G == F \oplus AdminQueries
<1>1. Shows = G \oplus MutationData
  BY DEF Shows
<1>2. /\ DOMAIN A = DOMAIN ManuscriptQueries \cup DOMAIN MatchQueries
      /\ DOMAIN B = DOMAIN A \cup DOMAIN BillingQueries
      /\ DOMAIN C = DOMAIN B \cup DOMAIN NotificationQueries
      /\ DOMAIN D = DOMAIN C \cup DOMAIN IntroQueries
      /\ DOMAIN E = DOMAIN D \cup DOMAIN ProfileQueries
      /\ DOMAIN F = DOMAIN E \cup DOMAIN MeQuery
      /\ DOMAIN G = DOMAIN F \cup DOMAIN AdminQueries
  BY MergeIs
<1> HIDE DEF A, B, C, D, E, F, G
<1>3. Queries = DOMAIN G \cup DOMAIN MutationData
  BY <1>1, MergeIs DEF Queries
<1> QED
  BY <1>2, <1>3

LEMMA ManuscriptShows ==
  /\ Shows["manuscript"] = ManuscriptQueries["manuscript"]
  /\ "manuscript" \in Shows["manuscript"] /\ "sample" \in Shows["manuscript"]
<1> DEFINE G(f) == "manuscript" \in DOMAIN f /\ f["manuscript"] = ManuscriptQueries["manuscript"]
<1>1. G(ManuscriptQueries)
  BY DEF ManuscriptQueries
<1>2. \A f, g : G(f) => G(f \oplus g)
  <2> SUFFICES ASSUME NEW f, NEW g, G(f) PROVE G(f \oplus g)
    OBVIOUS
  <2> QED
    BY Zenon, MergeIs
<1>3. G(Shows)
  <2> HIDE DEF G
  <2> QED
    BY Zenon, <1>1, <1>2 DEF Shows
<1> QED
  BY <1>3 DEF ManuscriptQueries

LEMMA QueryNames ==
  {"manuscripts", "manuscript", "document", "runs", "profileHistory", "run", "candidate",
   "subscription", "usage", "bell", "notices", "intros", "publicPublishers", "publisher",
   "author", "manuscriptProfile", "accessRequests", "me", "dashboard", "queue", "reviews",
   "review", "reviewDetail", "jobsHealth", "paymentsHealth", "trustSafety", "auditLogs",
   "adminIntros", "adminIntro", "result"} = Queries
  BY QueriesAre DEF ManuscriptQueries, MatchQueries, BillingQueries, NotificationQueries,
     IntroQueries, ProfileQueries, MeQuery, AdminQueries, MutationData

-------------------------------------------------------------------------------
(* Mutations.                                                              *)

\* A change m is fetched, or written, for every query that shows it; but not for these pairs.
\* Nobody sees the pairs of Strangers: no role that sends m has a page that reads q.
Strangers == ({"createIntro", "transitionIntro"} \X {"adminIntros", "adminIntro"})
             \cup {<<"decideAccess", "author">>}

IsTold(m, q) == \/ q \in Mutations[m].writes
                \/ q \in Mutations[m].invalidates /\ q \notin {"subscription", "usage"}
                \/ <<m, q>> \in LeftBehind
                \/ <<m, q>> \in Strangers

LEMMA MutationNames ==
  DOMAIN Mutations = {"createManuscript", "updateManuscript", "uploadSample", "runMatch",
      "startTrial", "markAllRead", "markRead", "openNotice", "createIntro", "transitionIntro",
      "requestAccess", "decideAccess", "completeDetails", "updateContacts", "repair",
      "decideOnDashboard", "decideOnReviews"}
  BY DEF Mutations

LEMMA SurfacesAre ==
  /\ IntroSurfaces = {"intros", "runs", "profileHistory", "run", "candidate", "publisher", "author",
                      "manuscriptProfile", "accessRequests", "bell", "notices"}
  /\ DOMAIN NotificationQueries = {"bell", "notices"}
  BY DEF IntroSurfaces, IntroQueries, MatchQueries, ProfileQueries, NotificationQueries

\* What a mutation changes, writes and invalidates, as far as it matters by name.
Row(m) ==
    /\ Changes(m) \in Facts \ {"processing"}
    /\ m # "updateManuscript" => "manuscript" \notin Mutations[m].writes
    /\ "document" \notin Mutations[m].writes \cup Mutations[m].invalidates
    /\ "result" \in Mutations[m].writes <=> m = "runMatch"
    /\ Mutations[m].writes \subseteq {"manuscript", "subscription", "usage", "result"}
    /\ {"subscription", "usage"} \cap Mutations[m].writes # {} => m = "startTrial"
    /\ Changes(m) = "manuscript" <=> m \in {"createManuscript", "updateManuscript"}
    /\ Changes(m) = "billing" <=> m = "startTrial"
    /\ Changes(m) = "intro" <=> m \in {"createIntro", "transitionIntro"}
    /\ Changes(m) = "sample" <=> m = "uploadSample"

LEMMA MutationRows == \A m \in DOMAIN Mutations : Row(m)
<1> SUFFICES ASSUME NEW m \in DOMAIN Mutations PROVE Row(m)
  OBVIOUS
<1>2. CASE m \in {"createManuscript", "updateManuscript", "uploadSample", "runMatch", "startTrial"}
  BY <1>2 DEF Row, Mutations, Changes, Mutation, useCreateManuscript, Facts,
     useUpdateManuscript, useUploadSample, useRunMatch, useStartTrial
<1>3. CASE m \in {"markAllRead", "markRead", "openNotice", "createIntro", "transitionIntro"}
  BY <1>3, SurfacesAre DEF Row, Mutations, Changes, Mutation, Facts,
     useMarkAllNotificationsRead, useMarkNotificationRead, openNotification, useIntroMutation
<1>4. CASE m \in {"requestAccess", "decideAccess", "completeDetails", "updateContacts", "repair"}
  BY <1>4 DEF Row, Mutations, Changes, Mutation, useAccessMutation, Facts,
     useCompleteOnboardingDetails, useUpdateMatchVisibleContacts, repairMutation
<1>5. CASE m \in {"decideOnDashboard", "decideOnReviews"}
  BY <1>5 DEF Row, Mutations, Changes, Mutation, dashboardDecision, reviewsDecision, Facts
<1> QED
  BY <1>2, <1>3, <1>4, <1>5, MutationNames

LEMMA NamedRows ==
  /\ Mutations["startTrial"].writes = {"subscription", "usage"}
  /\ Mutations["startTrial"].invalidates = {"subscription", "usage"}
  /\ Mutations["startTrial"].goes = {}
  /\ Mutations["updateManuscript"].writes = {"manuscript"}
  /\ Mutations["runMatch"].writes = {"result"}
  /\ Mutations["runMatch"].goes = {}
  BY DEF Mutations, Mutation, useUpdateManuscript, useRunMatch, useStartTrial

LEMMA AllAreTold ==
  ASSUME NEW m \in DOMAIN Mutations, NEW q \in Queries \ {"document"}, Changes(m) \in Shows[q]
  PROVE  IsTold(m, q) \/ (m = "createManuscript" /\ q = "manuscript")
<1>1. q \in Showing(Changes(m))
  BY ShowsListed DEF Listed, Queries
<1>2. CASE m \in {"createManuscript", "updateManuscript", "uploadSample", "runMatch", "startTrial"}
  BY <1>1, <1>2 DEF Showing, IsTold, Mutations, Changes, Mutation, useCreateManuscript,
     useUpdateManuscript, useUploadSample, useRunMatch, useStartTrial, LeftBehind
<1>3. CASE m \in {"markAllRead", "markRead", "openNotice", "createIntro", "transitionIntro"}
  BY <1>1, <1>3, SurfacesAre DEF Showing, IsTold, Mutations, Changes, Mutation, LeftBehind,
     useMarkAllNotificationsRead, useMarkNotificationRead, openNotification, useIntroMutation, Strangers
<1>4. CASE m \in {"requestAccess", "decideAccess", "completeDetails", "updateContacts", "repair"}
  BY <1>1, <1>4 DEF Showing, IsTold, Mutations, Changes, Mutation, useAccessMutation,
     useCompleteOnboardingDetails, useUpdateMatchVisibleContacts, repairMutation, LeftBehind,
     Strangers
<1>5. CASE m \in {"decideOnDashboard", "decideOnReviews"}
  BY <1>1, <1>5 DEF Showing, IsTold, Mutations, Changes, Mutation, dashboardDecision,
     reviewsDecision, LeftBehind
<1> QED
  BY <1>2, <1>3, <1>4, <1>5, MutationNames

-------------------------------------------------------------------------------
(* Pages.                                                                  *)

\* The queries whose data a query waits for, wherever it is read; only those of the billing
\* page are waited with on the dashboard and not on their own page.
Needs(q) == CASE q \in {"bell", "manuscripts", "manuscript"} -> {"me"}
              [] q = "document" -> {"manuscript"}
              [] q = "review" -> {"queue"}
              [] q = "reviewDetail" -> {"reviews"}
              [] OTHER -> {}

\* What holds of every component that a page of role r renders.
FitRead(q, needs, r) ==
    /\ q \in Queries
    /\ q \notin {"subscription", "usage"} => needs = Needs(q)
    /\ q \in {"adminIntros", "adminIntro"} => r = "admin"
    /\ q = "author" => r = "publisher"

FitOffer(m, needs, r) ==
    /\ m \in DOMAIN Mutations
    /\ m \in {"createIntro", "transitionIntro"} => r # "admin"
    /\ m = "decideAccess" => r = "author"
    /\ m = "updateManuscript" => "manuscript" \in needs

Fit(c, r) == /\ \A q \in DOMAIN c.reads : FitRead(q, c.reads[q], r)
             /\ \A m \in DOMAIN c.offers : FitOffer(m, c.offers[m], r)

LEMMA Together ==
  ASSUME NEW a, NEW b
  PROVE  /\ DOMAIN (a ++ b).reads = DOMAIN a.reads \cup DOMAIN b.reads
         /\ DOMAIN (a ++ b).offers = DOMAIN a.offers \cup DOMAIN b.offers
         /\ \A r : Fit(a, r) /\ Fit(b, r) => Fit(a ++ b, r)
<1>1. (a ++ b).reads = a.reads \oplus b.reads /\ (a ++ b).offers = a.offers \oplus b.offers
  BY DEF ++, Component
<1>2. /\ DOMAIN (a ++ b).reads = DOMAIN a.reads \cup DOMAIN b.reads
      /\ DOMAIN (a ++ b).offers = DOMAIN a.offers \cup DOMAIN b.offers
  BY <1>1, MergeIs
<1>3. ASSUME NEW r, Fit(a, r), Fit(b, r)
      PROVE  Fit(a ++ b, r)
  <2> DEFINE c == a ++ b
  <2>1. \A q \in DOMAIN c.reads : \/ q \in DOMAIN a.reads /\ c.reads[q] = a.reads[q]
                                  \/ q \in DOMAIN b.reads /\ c.reads[q] = b.reads[q]
    BY <1>1, <1>2, MergeIs
  <2>2. \A m \in DOMAIN c.offers : \/ m \in DOMAIN a.offers /\ c.offers[m] = a.offers[m]
                                   \/ m \in DOMAIN b.offers /\ c.offers[m] = b.offers[m]
    BY <1>1, <1>2, MergeIs
  <2> HIDE DEF c
  <2>3. \A q \in DOMAIN c.reads : FitRead(q, c.reads[q], r)
    BY <1>3, <2>1 DEF Fit
  <2>4. \A m \in DOMAIN c.offers : FitOffer(m, c.offers[m], r)
    BY <1>3, <2>2 DEF Fit
  <2>5. Fit(c, r)
    BY <2>3, <2>4 DEF Fit
  <2> QED
    BY <2>5 DEF c
<1> QED
  BY <1>2, <1>3

\* A component that is what it is said to be.
Holds(c, r, reads, offers) == Fit(c, r) /\ DOMAIN c.reads = reads /\ DOMAIN c.offers = offers

LEMMA HoldsTogether ==
  ASSUME NEW a, NEW b, NEW r, NEW ra, NEW oa, NEW rb, NEW ob,
         Holds(a, r, ra, oa), Holds(b, r, rb, ob)
  PROVE  Holds(a ++ b, r, ra \cup rb, oa \cup ob)
  BY Together DEF Holds

LEMMA HeaderHolds ==
  ASSUME NEW r
  PROVE  Holds(PlatformHeader, r, {"me", "bell"}, {"openNotice"})
<1>1. Holds(Component([me |-> {}], None), r, {"me"}, {})
  BY QueryNames DEF Holds, Fit, FitRead, FitOffer, Component, None, Needs
<1>2. Holds(NotificationBell, r, {"bell"}, {"openNotice"})
  BY QueryNames, MutationNames DEF Holds, Fit, FitRead, FitOffer, Component, None, Needs,
     NotificationBell
<1>3. Holds(PlatformHeader, r, {"me"} \cup {"bell"}, {} \cup {"openNotice"})
  BY <1>1, <1>2, HoldsTogether DEF PlatformHeader
<1> QED
  BY <1>3 DEF Holds

LEMMA IntroActionHolds ==
  ASSUME NEW q, NEW r, r # "admin"
  PROVE  /\ Holds(IntroRequestAction(q), r, {}, {"createIntro", "transitionIntro"})
         /\ Holds(CandidateList(q), r, {}, {"createIntro", "transitionIntro"})
  BY MutationNames DEF Holds, Fit, FitRead, FitOffer, Component, None, IntroRequestAction,
     CandidateList

-------------------------------------------------------------------------------
(* The pages, one by one.                                                  *)

\* What a page p reads and offers, taken together.
Sets(p, R, O) ==
    /\ \A q \in R : Needs(q) \subseteq R
    /\ "manuscript" \in R => p = "manuscriptDetail"
    /\ "subscription" \in R \/ "usage" \in R => O \subseteq {"openNotice", "startTrial"}
    /\ "startTrial" \in O => p = "billing"
    /\ "updateManuscript" \in O => p = "manuscriptDetail"

PageHolds(r, p, c) == \E R, O : Holds(c, r, R, O) /\ Sets(p, R, O)

LEMMA OnHeader ==
  ASSUME NEW c, NEW r, NEW p, NEW R, NEW O, Holds(c, r, R, O),
         Sets(p, {"me", "bell"} \cup R, {"openNotice"} \cup O)
  PROVE  PageHolds(r, p, PlatformHeader ++ c)
  BY HeaderHolds, HoldsTogether DEF PageHolds

LEMMA OnHeaderTwo ==
  ASSUME NEW c, NEW d, NEW r, NEW p, NEW R, NEW O, NEW Q, NEW M,
         Holds(c, r, R, O), Holds(d, r, Q, M),
         Sets(p, {"me", "bell"} \cup R \cup Q, {"openNotice"} \cup O \cup M)
  PROVE  PageHolds(r, p, PlatformHeader ++ c ++ d)
  BY HeaderHolds, HoldsTogether DEF PageHolds

LEMMA OnHeaderThree ==
  ASSUME NEW c, NEW d, NEW e, NEW r, NEW p, NEW R, NEW O, NEW Q, NEW M, NEW T, NEW N,
         Holds(c, r, R, O), Holds(d, r, Q, M), Holds(e, r, T, N),
         Sets(p, {"me", "bell"} \cup R \cup Q \cup T, {"openNotice"} \cup O \cup M \cup N)
  PROVE  PageHolds(r, p, PlatformHeader ++ c ++ d ++ e)
<1>1. Holds(PlatformHeader ++ c ++ d, r, {"me", "bell"} \cup R \cup Q, {"openNotice"} \cup O \cup M)
  BY HeaderHolds, HoldsTogether
<1> QED
  BY <1>1, HoldsTogether DEF PageHolds

LEMMA HeaderAlone == \A r, p : PageHolds(r, p, PlatformHeader)
<1>1. \A p : Sets(p, {"me", "bell"}, {"openNotice"})
  BY DEF Sets, Needs
<1> QED
  BY <1>1, HeaderHolds DEF PageHolds

LEMMA DashboardHolds ==
  ASSUME NEW r
  PROVE  PageHolds(r, "dashboard", DashboardPage)
<1>1. Holds(Component([subscription |-> {"me"}, usage |-> {"me"}], None), r, {"subscription", "usage"}, {})
  BY QueryNames, MutationNames DEF Holds, Fit, FitRead, FitOffer, Component, None, Needs
<1>2. Sets("dashboard", {"me", "bell"} \cup {"subscription", "usage"},
              {"openNotice"} \cup {})
  BY DEF Sets, Needs
<1> QED
  BY <1>1, <1>2, OnHeader DEF DashboardPage

LEMMA ManuscriptListHolds ==
  ASSUME NEW r
  PROVE  PageHolds(r, "manuscripts", ManuscriptListPage)
<1>1. Holds(Component([manuscripts |-> {"me"}], [createManuscript |-> {"me"}]), r, {"manuscripts"}, {"createManuscript"})
  BY QueryNames, MutationNames DEF Holds, Fit, FitRead, FitOffer, Component, None, Needs
<1>2. Sets("manuscripts", {"me", "bell"} \cup {"manuscripts"},
              {"openNotice"} \cup {"createManuscript"})
  BY DEF Sets, Needs
<1> QED
  BY <1>1, <1>2, OnHeader DEF ManuscriptListPage

LEMMA ManuscriptDetailHolds ==
  ASSUME NEW r
  PROVE  PageHolds(r, "manuscriptDetail", ManuscriptDetailPage)
<1>1. Holds(Component([manuscript |-> {"me"}, document |-> {"manuscript"}], None), r, {"manuscript", "document"}, {})
  BY QueryNames, MutationNames DEF Holds, Fit, FitRead, FitOffer, Component, None, Needs
<1>2. Holds(ManuscriptMetadataCard, r, {}, {"updateManuscript"})
  BY QueryNames, MutationNames DEF Holds, Fit, FitRead, FitOffer, Component, None, Needs,
     ManuscriptMetadataCard
<1>3. Holds(SampleDocumentCard, r, {}, {"uploadSample"})
  BY QueryNames, MutationNames DEF Holds, Fit, FitRead, FitOffer, Component, None, Needs,
     SampleDocumentCard, UploadControl
<1>4. Sets("manuscriptDetail", {"me", "bell"} \cup {"manuscript", "document"} \cup {} \cup {},
              {"openNotice"} \cup {} \cup {"updateManuscript"} \cup {"uploadSample"})
  BY DEF Sets, Needs
<1> QED
  BY <1>1, <1>2, <1>3, <1>4, OnHeaderThree DEF ManuscriptDetailPage
LEMMA AuthorMatchesHolds ==
  ASSUME NEW r, r = "author"
  PROVE  PageHolds(r, "matches", MatchesPage("author"))
<1>1. Holds(Component([runs |-> {}, manuscripts |-> {"me"}], [runMatch |-> {"manuscripts"}]), r, {"runs", "manuscripts"}, {"runMatch"})
  BY SMTT(30), QueryNames, MutationNames DEF Holds, Fit, FitRead, FitOffer, Component, None, Needs
<1>2. Holds(Component([result |-> {}], None), r, {"result"}, {})
  BY QueryNames, MutationNames DEF Holds, Fit, FitRead, FitOffer, Component, None, Needs
<1>3. Holds(CandidateList("result"), r, {}, {"createIntro", "transitionIntro"})
  BY QueryNames, MutationNames DEF Holds, Fit, FitRead, FitOffer, Component, None, Needs,
     CandidateList, IntroRequestAction
<1>4. Sets("matches", {"me", "bell"} \cup {"runs", "manuscripts"} \cup {"result"} \cup {},
              {"openNotice"} \cup {"runMatch"} \cup {} \cup {"createIntro", "transitionIntro"})
  BY DEF Sets, Needs
<1> QED
  BY <1>1, <1>2, <1>3, <1>4, OnHeaderThree DEF MatchesPage

LEMMA PublisherMatchesHolds ==
  ASSUME NEW r, r = "publisher"
  PROVE  PageHolds(r, "matches", MatchesPage("publisher"))
<1>1. Holds(Component([runs |-> {}], [runMatch |-> {"me"}]), r, {"runs"}, {"runMatch"})
  BY QueryNames, MutationNames DEF Holds, Fit, FitRead, FitOffer, Component, None, Needs
<1>2. Holds(Component([result |-> {}], None), r, {"result"}, {})
  BY QueryNames, MutationNames DEF Holds, Fit, FitRead, FitOffer, Component, None, Needs
<1>3. Holds(CandidateList("result"), r, {}, {"createIntro", "transitionIntro"})
  BY QueryNames, MutationNames DEF Holds, Fit, FitRead, FitOffer, Component, None, Needs,
     CandidateList, IntroRequestAction
<1>4. Sets("matches", {"me", "bell"} \cup {"runs"} \cup {"result"} \cup {},
              {"openNotice"} \cup {"runMatch"} \cup {} \cup {"createIntro", "transitionIntro"})
  BY DEF Sets, Needs
<1> QED
  BY <1>1, <1>2, <1>3, <1>4, OnHeaderThree DEF MatchesPage

LEMMA MatchRunHolds ==
  ASSUME NEW r, r # "admin"
  PROVE  PageHolds(r, "matchRun", MatchRunPage)
<1>1. Holds(Component([run |-> {}], None), r, {"run"}, {})
  BY QueryNames, MutationNames DEF Holds, Fit, FitRead, FitOffer, Component, None, Needs
<1>2. Holds(CandidateList("run"), r, {}, {"createIntro", "transitionIntro"})
  BY QueryNames, MutationNames DEF Holds, Fit, FitRead, FitOffer, Component, None, Needs,
     CandidateList, IntroRequestAction
<1>3. Sets("matchRun", {"me", "bell"} \cup {"run"} \cup {},
              {"openNotice"} \cup {} \cup {"createIntro", "transitionIntro"})
  BY DEF Sets, Needs
<1> QED
  BY <1>1, <1>2, <1>3, OnHeaderTwo DEF MatchRunPage

LEMMA MatchCandidateHolds ==
  ASSUME NEW r, r # "admin"
  PROVE  PageHolds(r, "matchCandidate", MatchCandidatePage)
<1>1. Holds(Component([candidate |-> {}], None), r, {"candidate"}, {})
  BY QueryNames, MutationNames DEF Holds, Fit, FitRead, FitOffer, Component, None, Needs
<1>2. Holds(IntroRequestAction("candidate"), r, {}, {"createIntro", "transitionIntro"})
  BY QueryNames, MutationNames DEF Holds, Fit, FitRead, FitOffer, Component, None, Needs,
     IntroRequestAction
<1>3. Sets("matchCandidate", {"me", "bell"} \cup {"candidate"} \cup {},
              {"openNotice"} \cup {} \cup {"createIntro", "transitionIntro"})
  BY DEF Sets, Needs
<1> QED
  BY <1>1, <1>2, <1>3, OnHeaderTwo DEF MatchCandidatePage

LEMMA ProfileHistoryHolds ==
  ASSUME NEW r
  PROVE  PageHolds(r, "profileHistory", ProfileHistoryPage)
<1>1. Holds(Component([profileHistory |-> {}], [runMatch |-> {"profileHistory"}]), r, {"profileHistory"}, {"runMatch"})
  BY QueryNames, MutationNames DEF Holds, Fit, FitRead, FitOffer, Component, None, Needs
<1>2. Sets("profileHistory", {"me", "bell"} \cup {"profileHistory"},
              {"openNotice"} \cup {"runMatch"})
  BY DEF Sets, Needs
<1> QED
  BY <1>1, <1>2, OnHeader DEF ProfileHistoryPage

LEMMA AuthorRequestsHolds ==
  ASSUME NEW r, r = "author"
  PROVE  PageHolds(r, "requests", RequestsPage("author"))
<1>1. Holds(Component([intros |-> {}, accessRequests |-> {}], [decideAccess |-> {"accessRequests"}]), r, {"intros", "accessRequests"}, {"decideAccess"})
  BY QueryNames, MutationNames DEF Holds, Fit, FitRead, FitOffer, Component, None, Needs
<1>2. Holds(IntroRequestAction("intros"), r, {}, {"createIntro", "transitionIntro"})
  BY QueryNames, MutationNames DEF Holds, Fit, FitRead, FitOffer, Component, None, Needs,
     IntroRequestAction
<1>3. Sets("requests", {"me", "bell"} \cup {"intros", "accessRequests"} \cup {},
              {"openNotice"} \cup {"decideAccess"} \cup {"createIntro", "transitionIntro"})
  BY DEF Sets, Needs
<1> QED
  BY <1>1, <1>2, <1>3, OnHeaderTwo DEF RequestsPage

LEMMA PublisherRequestsHolds ==
  ASSUME NEW r, r = "publisher"
  PROVE  PageHolds(r, "requests", RequestsPage("publisher"))
<1>1. Holds(Component([intros |-> {}, accessRequests |-> {}], None), r, {"intros", "accessRequests"}, {})
  BY QueryNames, MutationNames DEF Holds, Fit, FitRead, FitOffer, Component, None, Needs
<1>2. Holds(IntroRequestAction("intros"), r, {}, {"createIntro", "transitionIntro"})
  BY QueryNames, MutationNames DEF Holds, Fit, FitRead, FitOffer, Component, None, Needs,
     IntroRequestAction
<1>3. Sets("requests", {"me", "bell"} \cup {"intros", "accessRequests"} \cup {},
              {"openNotice"} \cup {} \cup {"createIntro", "transitionIntro"})
  BY DEF Sets, Needs
<1> QED
  BY <1>1, <1>2, <1>3, OnHeaderTwo DEF RequestsPage

LEMMA NotificationsHolds ==
  ASSUME NEW r
  PROVE  PageHolds(r, "notifications", NotificationsPage)
<1>1. Holds(Component([notices |-> {}], [markAllRead |-> {"notices"}, markRead |-> {"notices"},
                                                  openNotice |-> {"notices"}]),
             r, {"notices"}, {"markAllRead", "markRead", "openNotice"})
  BY QueryNames, MutationNames DEF Holds, Fit, FitRead, FitOffer, Component, None, Needs
<1>2. Sets("notifications", {"me", "bell"} \cup {"notices"},
              {"openNotice"} \cup {"markAllRead", "markRead", "openNotice"})
  BY DEF Sets, Needs
<1> QED
  BY <1>1, <1>2, OnHeader DEF NotificationsPage

LEMMA BillingHolds ==
  ASSUME NEW r
  PROVE  PageHolds(r, "billing", BillingPage)
<1>1. Holds(Component([subscription |-> {}, usage |-> {}], [startTrial |-> {"subscription", "usage"}]), r, {"subscription", "usage"}, {"startTrial"})
  BY QueryNames, MutationNames DEF Holds, Fit, FitRead, FitOffer, Component, None, Needs
<1>2. Sets("billing", {"me", "bell"} \cup {"subscription", "usage"},
              {"openNotice"} \cup {"startTrial"})
  BY DEF Sets, Needs
<1> QED
  BY <1>1, <1>2, OnHeader DEF BillingPage

LEMMA AuthorProfileHolds ==
  ASSUME NEW r
  PROVE  PageHolds(r, "profile", ProfilePage("author"))
<1>1. Holds(MatchVisibleContactCard, r, {}, {"updateContacts"})
  BY QueryNames, MutationNames DEF Holds, Fit, FitRead, FitOffer, Component, None, Needs,
     MatchVisibleContactCard
<1>2. Holds(AuthorDetailsCard, r, {}, {"completeDetails"})
  BY QueryNames, MutationNames DEF Holds, Fit, FitRead, FitOffer, Component, None, Needs,
     AuthorDetailsCard
<1>3. Sets("profile", {"me", "bell"} \cup {} \cup {},
              {"openNotice"} \cup {"updateContacts"} \cup {"completeDetails"})
  BY DEF Sets, Needs
<1> QED
  BY <1>1, <1>2, <1>3, OnHeaderTwo DEF ProfilePage

LEMMA PublisherProfileHolds ==
  ASSUME NEW r
  PROVE  PageHolds(r, "profile", ProfilePage("publisher"))
<1>1. Holds(MatchVisibleContactCard, r, {}, {"updateContacts"})
  BY QueryNames, MutationNames DEF Holds, Fit, FitRead, FitOffer, Component, None, Needs,
     MatchVisibleContactCard
<1>2. Holds(Inert, r, {}, {})
  BY QueryNames, MutationNames DEF Holds, Fit, FitRead, FitOffer, Component, None, Needs, Inert
<1>3. Sets("profile", {"me", "bell"} \cup {} \cup {},
              {"openNotice"} \cup {"updateContacts"} \cup {})
  BY DEF Sets, Needs
<1> QED
  BY <1>1, <1>2, <1>3, OnHeaderTwo DEF ProfilePage

LEMMA PublisherSurfaceHolds ==
  ASSUME NEW r
  PROVE  PageHolds(r, "publisherProfile", PublisherProfileSurfacePage)
<1>1. Holds(Component([publisher |-> {}], None), r, {"publisher"}, {})
  BY QueryNames, MutationNames DEF Holds, Fit, FitRead, FitOffer, Component, None, Needs
<1>2. Sets("publisherProfile", {"me", "bell"} \cup {"publisher"},
              {"openNotice"} \cup {})
  BY DEF Sets, Needs
<1> QED
  BY <1>1, <1>2, OnHeader DEF PublisherProfileSurfacePage

LEMMA AuthorSurfaceHolds ==
  ASSUME NEW r, r = "publisher"
  PROVE  PageHolds(r, "authorProfile", AuthorProfileSurfacePage)
<1>1. Holds(Component([author |-> {}], [requestAccess |-> {"author"}]), r, {"author"}, {"requestAccess"})
  BY QueryNames, MutationNames DEF Holds, Fit, FitRead, FitOffer, Component, None, Needs
<1>2. Sets("authorProfile", {"me", "bell"} \cup {"author"},
              {"openNotice"} \cup {"requestAccess"})
  BY DEF Sets, Needs
<1> QED
  BY <1>1, <1>2, OnHeader DEF AuthorProfileSurfacePage

LEMMA ManuscriptSurfaceHolds ==
  ASSUME NEW r
  PROVE  PageHolds(r, "manuscriptProfile", ManuscriptProfileSurfacePage)
<1>1. Holds(Component([manuscriptProfile |-> {}], None), r, {"manuscriptProfile"}, {})
  BY QueryNames, MutationNames DEF Holds, Fit, FitRead, FitOffer, Component, None, Needs
<1>2. Sets("manuscriptProfile", {"me", "bell"} \cup {"manuscriptProfile"},
              {"openNotice"} \cup {})
  BY DEF Sets, Needs
<1> QED
  BY <1>1, <1>2, OnHeader DEF ManuscriptProfileSurfacePage

LEMMA PublicPublishersHolds ==
  ASSUME NEW r
  PROVE  PageHolds(r, "publishers", PublicPublishersPage)
<1>1. Holds(Component([publicPublishers |-> {}], None), r, {"publicPublishers"}, {})
  BY QueryNames, MutationNames DEF Holds, Fit, FitRead, FitOffer, Component, None, Needs
<1>2. Sets("publishers", {"me", "bell"} \cup {"publicPublishers"},
              {"openNotice"} \cup {})
  BY DEF Sets, Needs
<1> QED
  BY <1>1, <1>2, OnHeader DEF PublicPublishersPage

LEMMA AdminDashboardHolds ==
  /\ Holds(AdminDashboardPage, "admin",
           {"queue", "jobsHealth", "paymentsHealth", "dashboard", "trustSafety"}, {})
  /\ Holds(AdminDashboardReviewDrawer, "admin",
           {"queue", "jobsHealth", "paymentsHealth", "dashboard", "trustSafety", "review"},
           {"decideOnDashboard"})
<1>1. Holds(AdminReviewQueueTable("queue"), "admin", {"queue"}, {})
  BY QueryNames DEF Holds, Fit, FitRead, FitOffer, Component, None, Needs, AdminReviewQueueTable
<1>2. Holds(AdminHealthTables, "admin", {"jobsHealth", "paymentsHealth"}, {})
  BY QueryNames DEF Holds, Fit, FitRead, FitOffer, Component, None, Needs, AdminHealthTables
<1>3. Holds(Component([dashboard |-> {}, trustSafety |-> {}], None), "admin",
            {"dashboard", "trustSafety"}, {})
  BY QueryNames DEF Holds, Fit, FitRead, FitOffer, Component, None, Needs
<1>4. Holds(Component([review |-> {"queue"}], [decideOnDashboard |-> {"review"}]), "admin",
            {"review"}, {"decideOnDashboard"})
  BY QueryNames, MutationNames DEF Holds, Fit, FitRead, FitOffer, Component, None, Needs
<1>5. Holds(AdminSections, "admin", {"jobsHealth", "paymentsHealth"} \cup {"dashboard", "trustSafety"},
            {} \cup {})
  BY <1>2, <1>3, HoldsTogether DEF AdminSections
<1>6. Holds(AdminDashboardPage, "admin",
            {"queue"} \cup ({"jobsHealth", "paymentsHealth"} \cup {"dashboard", "trustSafety"}),
            {} \cup ({} \cup {}))
  BY <1>1, <1>5, HoldsTogether DEF AdminDashboardPage
<1>7. Holds(AdminDashboardReviewDrawer, "admin",
            {"queue"} \cup ({"jobsHealth", "paymentsHealth"} \cup {"dashboard", "trustSafety"})
                \cup {"review"},
            {} \cup ({} \cup {}) \cup {"decideOnDashboard"})
  BY <1>4, <1>6, HoldsTogether DEF AdminDashboardReviewDrawer
<1>8. {"queue"} \cup ({"jobsHealth", "paymentsHealth"} \cup {"dashboard", "trustSafety"})
      = {"queue", "jobsHealth", "paymentsHealth", "dashboard", "trustSafety"}
  OBVIOUS
<1> QED
  BY <1>6, <1>7, <1>8 DEF Holds

LEMMA AdminReviewsHolds == PageHolds("admin", "adminReviews", AdminProfileReviewsPage)
<1>1. Holds(AdminReviewQueueTable("reviews"), "admin", {"reviews"}, {})
  BY QueryNames DEF Holds, Fit, FitRead, FitOffer, Component, None, Needs, AdminReviewQueueTable
<1>2. Holds(AdminReviewDetailPanel, "admin", {"reviewDetail"}, {"decideOnReviews"})
  BY QueryNames, MutationNames
     DEF Holds, Fit, FitRead, FitOffer, Component, None, Needs, AdminReviewDetailPanel
<1>3. Sets("adminReviews", {"reviews"} \cup {"reviewDetail"}, {} \cup {"decideOnReviews"})
  BY DEF Sets, Needs
<1> QED
  BY <1>1, <1>2, <1>3, HoldsTogether DEF PageHolds, AdminProfileReviewsPage

LEMMA AdminIntrosHolds ==
  /\ PageHolds("admin", "adminIntroRequests", AdminIntroRequestsPage)
  /\ PageHolds("admin", "adminIntroRequest", AdminIntroRequestDetail)
<1>1. Holds(AdminIntroRequestsPage, "admin", {"adminIntros"}, {})
  BY QueryNames DEF Holds, Fit, FitRead, FitOffer, Component, None, Needs, AdminIntroRequestsPage
<1>2. Holds(Component([adminIntro |-> {}], None), "admin", {"adminIntro"}, {})
  BY QueryNames DEF Holds, Fit, FitRead, FitOffer, Component, None, Needs
<1>3. /\ Sets("adminIntroRequests", {"adminIntros"}, {})
      /\ Sets("adminIntroRequest", {"adminIntros"} \cup {"adminIntro"}, {} \cup {})
  BY DEF Sets, Needs
<1> QED
  BY <1>1, <1>2, <1>3, HoldsTogether DEF PageHolds, AdminIntroRequestDetail

\* The pages of the staff that are a component.
LEMMA AdminOthersHold ==
  /\ PageHolds("admin", "adminJobs", AdminJobsPage)
  /\ PageHolds("admin", "adminPayments", AdminPaymentsPage)
  /\ PageHolds("admin", "adminTrustSafety", AdminTrustSafetyPage)
  /\ PageHolds("admin", "adminAuditLogs", AdminAuditLogsPage)
  /\ PageHolds("admin", "adminSettings", Inert)
<1>1. Holds(AdminJobsPage, "admin", {"jobsHealth"}, {})
  BY QueryNames DEF Holds, Fit, FitRead, FitOffer, Component, None, Needs, AdminJobsPage
<1>2. Holds(AdminPaymentsPage, "admin", {"paymentsHealth"}, {"repair"})
  BY QueryNames, MutationNames
     DEF Holds, Fit, FitRead, FitOffer, Component, None, Needs, AdminPaymentsPage
<1>3. Holds(AdminTrustSafetyPage, "admin", {"trustSafety"}, {})
  BY QueryNames DEF Holds, Fit, FitRead, FitOffer, Component, None, Needs, AdminTrustSafetyPage
<1>4. Holds(AdminAuditLogsPage, "admin", {"auditLogs"}, {})
  BY QueryNames DEF Holds, Fit, FitRead, FitOffer, Component, None, Needs, AdminAuditLogsPage
<1>5. Holds(Inert, "admin", {}, {})
  BY DEF Holds, Fit, Component, None, Inert
<1>6. /\ Sets("adminJobs", {"jobsHealth"}, {}) /\ Sets("adminPayments", {"paymentsHealth"}, {"repair"})
      /\ Sets("adminTrustSafety", {"trustSafety"}, {}) /\ Sets("adminAuditLogs", {"auditLogs"}, {})
      /\ Sets("adminSettings", {}, {})
  BY DEF Sets, Needs
<1> QED
  BY <1>1, <1>2, <1>3, <1>4, <1>5, <1>6 DEF PageHolds

LEMMA AdminRoutesHold == \A p \in DOMAIN AdminRoutes : PageHolds("admin", p, AdminRoutes[p])
<1>1. /\ PageHolds("admin", "admin", AdminDashboardPage)
      /\ PageHolds("admin", "adminReview", AdminDashboardReviewDrawer)
  <2>1. /\ Sets("admin", {"queue", "jobsHealth", "paymentsHealth", "dashboard", "trustSafety"}, {})
        /\ Sets("adminReview", {"queue", "jobsHealth", "paymentsHealth", "dashboard", "trustSafety",
                                "review"}, {"decideOnDashboard"})
    BY DEF Sets, Needs
  <2> QED
    BY <2>1, AdminDashboardHolds DEF PageHolds
<1> QED
  BY <1>1, AdminReviewsHolds, AdminIntrosHolds, AdminOthersHold DEF AdminRoutes

PagesHold(t, r) == \A p \in DOMAIN t : PageHolds(r, p, t[p])

LEMMA MergedPages ==
  ASSUME NEW s, NEW t, NEW r, PagesHold(s, r), PagesHold(t, r)
  PROVE  PagesHold(s \oplus t, r)
<1> SUFFICES ASSUME NEW p \in DOMAIN (s \oplus t) PROVE PageHolds(r, p, (s \oplus t)[p])
  BY DEF PagesHold
<1>1. \/ p \in DOMAIN s /\ (s \oplus t)[p] = s[p]
      \/ p \in DOMAIN t /\ (s \oplus t)[p] = t[p]
  <2>1. DOMAIN (s \oplus t) = DOMAIN s \cup DOMAIN t
    BY MergeIs
  <2>2. /\ p \in DOMAIN s => (s \oplus t)[p] = s[p]
        /\ p \in DOMAIN t /\ p \notin DOMAIN s => (s \oplus t)[p] = t[p]
    BY MergeIs
  <2> QED
    BY <2>1, <2>2
<1> QED
  BY <1>1 DEF PagesHold

LEMMA MarketplaceHolds ==
  ASSUME NEW r \in {"author", "publisher"}
  PROVE  PagesHold(MarketplaceRoutes(r), r)
<1> DEFINE Common ==
        [dashboard |-> DashboardPage, matches |-> MatchesPage(r), matchRun |-> MatchRunPage,
         matchCandidate |-> MatchCandidatePage, profileHistory |-> ProfileHistoryPage,
         requests |-> RequestsPage(r), notifications |-> NotificationsPage,
         billing |-> BillingPage, profile |-> ProfilePage(r), settings |-> AppPlaceholderPage]
      Authors == [manuscripts |-> ManuscriptListPage, manuscriptDetail |-> ManuscriptDetailPage,
                  publisherProfile |-> PublisherProfileSurfacePage]
      Publishers == [authorProfile |-> AuthorProfileSurfacePage,
                     manuscriptProfile |-> ManuscriptProfileSurfacePage]
<1>1. PagesHold(Common, r)
  <2>1. /\ PageHolds(r, "matches", MatchesPage(r)) /\ PageHolds(r, "requests", RequestsPage(r))
        /\ PageHolds(r, "profile", ProfilePage(r))
    BY AuthorMatchesHolds, PublisherMatchesHolds, AuthorRequestsHolds, PublisherRequestsHolds,
       AuthorProfileHolds, PublisherProfileHolds
  <2>2. /\ PageHolds(r, "dashboard", DashboardPage) /\ PageHolds(r, "matchRun", MatchRunPage)
        /\ PageHolds(r, "matchCandidate", MatchCandidatePage)
        /\ PageHolds(r, "profileHistory", ProfileHistoryPage)
    BY DashboardHolds, MatchRunHolds, MatchCandidateHolds, ProfileHistoryHolds
  <2>3. /\ PageHolds(r, "notifications", NotificationsPage) /\ PageHolds(r, "billing", BillingPage)
        /\ PageHolds(r, "settings", AppPlaceholderPage)
    BY NotificationsHolds, BillingHolds, HeaderAlone DEF AppPlaceholderPage
  <2> QED
    BY <2>1, <2>2, <2>3 DEF PagesHold
<1>2. r = "author" => PagesHold(Authors, r)
  BY ManuscriptListHolds, ManuscriptDetailHolds, PublisherSurfaceHolds DEF PagesHold
<1>3. r = "publisher" => PagesHold(Publishers, r)
  BY AuthorSurfaceHolds, ManuscriptSurfaceHolds DEF PagesHold
<1>4. MarketplaceRoutes(r) = Common \oplus IF r = "author" THEN Authors ELSE Publishers
  BY DEF MarketplaceRoutes
<1> HIDE DEF Common, Authors, Publishers
<1> QED
  BY <1>1, <1>2, <1>3, <1>4, MergedPages

LEMMA RoutesHold == \A r \in Roles : PagesHold(Routes[r], r)
<1> SUFFICES ASSUME NEW r \in Roles PROVE PagesHold(Routes[r], r)
  OBVIOUS
<1>1. CASE r = "admin"
  BY <1>1, AdminRoutesHold DEF Routes, PagesHold, Roles
<1>2. CASE r # "admin"
  <2>1. r \in {"author", "publisher"} /\ Routes[r] = MarketplaceRoutes(r) \oplus PublicRoutes
    BY <1>2 DEF Roles, Routes
  <2>2. PagesHold(PublicRoutes, r)
    BY PublicPublishersHolds DEF PagesHold, PublicRoutes
  <2> QED
    BY <2>1, <2>2, MarketplaceHolds, MergedPages
<1> QED
  BY <1>1, <1>2

-------------------------------------------------------------------------------
(* What the rest of the proof knows of the routes.                         *)

ReadBy(r) == UNION {DOMAIN Routes[r][p].reads : p \in DOMAIN Routes[r]}
OfferedTo(r) == UNION {DOMAIN Routes[r][p].offers : p \in DOMAIN Routes[r]}

LEMMA PageFacts ==
  ASSUME NEW r \in Roles, NEW p \in DOMAIN Routes[r]
  PROVE  /\ \A q \in DOMAIN Routes[r][p].reads :
               /\ FitRead(q, Routes[r][p].reads[q], r)
               /\ Needs(q) \subseteq DOMAIN Routes[r][p].reads
               /\ q = "manuscript" => p = "manuscriptDetail"
         /\ \A m \in DOMAIN Routes[r][p].offers :
               /\ FitOffer(m, Routes[r][p].offers[m], r)
               /\ \A q \in DOMAIN Routes[r][p].reads :
                     q \in {"subscription", "usage"} => m \in {"openNotice", "startTrial"}
               /\ m = "startTrial" => p = "billing"
               /\ m = "updateManuscript" => p = "manuscriptDetail"
<1>1. PageHolds(r, p, Routes[r][p])
  BY RoutesHold DEF PagesHold
<1> DEFINE c == Routes[r][p]
<1> HIDE DEF c
<1>2. PICK R, O : Holds(c, r, R, O) /\ Sets(p, R, O)
  BY <1>1 DEF c, PageHolds
<1>3. R = DOMAIN c.reads /\ O = DOMAIN c.offers
  BY <1>2 DEF Holds
<1>4. \A q \in DOMAIN c.reads : FitRead(q, c.reads[q], r)
  BY <1>2 DEF Holds, Fit
<1>5. \A m \in DOMAIN c.offers : FitOffer(m, c.offers[m], r)
  BY <1>2 DEF Holds, Fit
<1>6. Sets(p, DOMAIN c.reads, DOMAIN c.offers)
  BY <1>2, <1>3
<1>7. \A q \in DOMAIN c.reads : Needs(q) \subseteq DOMAIN c.reads /\ (q = "manuscript" => p = "manuscriptDetail")
  BY <1>6 DEF Sets
<1>8. \A m \in DOMAIN c.offers :
         /\ \A q \in DOMAIN c.reads :
               q \in {"subscription", "usage"} => m \in {"openNotice", "startTrial"}
         /\ m = "startTrial" => p = "billing"
         /\ m = "updateManuscript" => p = "manuscriptDetail"
  BY <1>6 DEF Sets
<1> QED
  BY <1>4, <1>5, <1>7, <1>8 DEF c

LEMMA BillingFacts ==
  ASSUME NEW r \in Roles, "billing" \in DOMAIN Routes[r]
  PROVE  /\ {"subscription", "usage"} \subseteq DOMAIN Routes[r]["billing"].reads
         /\ Routes[r]["billing"].reads["subscription"] = {}
         /\ Routes[r]["billing"].reads["usage"] = {}
<1>1. Routes[r]["billing"] = BillingPage
  <2>1. r # "admin"
    BY DEF Routes, AdminRoutes
  <2> DEFINE Common ==
        [dashboard |-> DashboardPage, matches |-> MatchesPage(r), matchRun |-> MatchRunPage,
         matchCandidate |-> MatchCandidatePage, profileHistory |-> ProfileHistoryPage,
         requests |-> RequestsPage(r), notifications |-> NotificationsPage,
         billing |-> BillingPage, profile |-> ProfilePage(r), settings |-> AppPlaceholderPage]
  <2>2. "billing" \in DOMAIN Common /\ Common["billing"] = BillingPage
    OBVIOUS
  <2>3. \E t : Routes[r] = Common \oplus t \oplus PublicRoutes
    BY <2>1 DEF Routes, MarketplaceRoutes
  <2> HIDE DEF Common
  <2>4. \A t : /\ "billing" \in DOMAIN (Common \oplus t)
               /\ (Common \oplus t)["billing"] = BillingPage
    BY <2>2, MergeAt
  <2> QED
    BY <2>3, <2>4, MergeAt
<1>2. BillingPage.reads = PlatformHeader.reads \oplus [subscription |-> {}, usage |-> {}]
  BY DEF BillingPage, ++, Component
<1>3. DOMAIN PlatformHeader.reads = {"me", "bell"}
  BY HeaderHolds DEF Holds
<1> QED
  BY <1>1, <1>2, <1>3, MergeAt

LEMMA DrawerFacts ==
  ASSUME NEW r \in Roles
  PROVE  /\ DOMAIN OpensOn \subseteq DOMAIN Routes["admin"]
         /\ "adminReview" \in DOMAIN Routes[r] =>
               /\ "admin" \in DOMAIN Routes[r]
               /\ DOMAIN Routes[r]["admin"].reads \subseteq DOMAIN Routes[r]["adminReview"].reads
<1>1. Routes["admin"] = AdminRoutes
  BY DEF Routes, Roles
<1>2. DOMAIN OpensOn \subseteq DOMAIN AdminRoutes
  BY DEF OpensOn, AdminRoutes
<1>3. r # "admin" => "adminReview" \notin DOMAIN Routes[r]
  BY MergeAt DEF Routes, MarketplaceRoutes, PublicRoutes
<1>4. DOMAIN AdminDashboardPage.reads \subseteq DOMAIN AdminDashboardReviewDrawer.reads
  BY AdminDashboardHolds DEF Holds
<1> QED
  BY <1>1, <1>2, <1>3, <1>4 DEF AdminRoutes

-------------------------------------------------------------------------------
(* Answers and entries.                                                    *)

LEMMA AnswersAreData ==
  /\ \A S : S # {} => Snapshot(S) # NoData
  /\ \A k : DocumentAnswer(k) # NoData
<1>1. DOMAIN NoData = {}
  BY DEF NoData
<1>2. \A S : DOMAIN Snapshot(S) = S
  BY DEF Snapshot
<1>3. \A k : "sample" \in DOMAIN DocumentAnswer(k)
  BY DEF DocumentAnswer
<1> QED
  BY <1>1, <1>2, <1>3

IsEntry(e) == e = [data |-> e.data, error |-> e.error, answer |-> e.answer, behind |-> e.behind]

\* An entry of q: what it has, and what is on its way to it, is not newer than v; what is on its
\* way is not older than what it has, but for the entries that a mutation writes.
Dated(q, e, v) ==
    \A f \in Shows[q] :
        /\ HasData(e) => e.data[f] \in Nat /\ e.data[f] <= v[f]
        /\ InFlight(e) => e.answer[f] \in Nat /\ e.answer[f] <= v[f]
        /\ HasData(e) /\ InFlight(e) /\ q \notin {"manuscript", "subscription", "usage"} =>
               e.data[f] <= e.answer[f]

EntryOK(q, e, v) ==
    /\ IsEntry(e)
    /\ q = "result" => ~InFlight(e)
    /\ q # "document" => Dated(q, e, v)
    /\ q = "manuscript" => /\ HasData(e) => 1 <= e.data["manuscript"]
                           /\ InFlight(e) => 1 <= e.answer["manuscript"]

\* What a query waits for is there, once the query has been asked for.
Follows(q, c) ==
    q \notin {"subscription", "usage", "result"} =>
        \A n \in Needs(q) : n \in DOMAIN c /\ HasData(c[n])

CacheOK(c, v) ==
    /\ DOMAIN c = ReadBy(who)
    /\ \A q \in DOMAIN c : EntryOK(q, c[q], v)
    /\ \A q \in DOMAIN c : HasData(c[q]) \/ InFlight(c[q]) => Follows(q, c)

\* The entry of the document is that of the sample that the manuscript shows.
DocOK(c) ==
    "document" \in DOMAIN c =>
        /\ HasData(c["document"]) =>
               c["document"].data["sample"] = SampleShown(c) /\ SampleShown(c) > 0
        /\ InFlight(c["document"]) =>
               c["document"].answer["sample"] = SampleShown(c) /\ SampleShown(c) > 0

\* An answer on its way that is not marked is not behind.
Judged(c, o) ==
    \A q \in DOMAIN c \ {"document"} :
        InFlight(c[q]) /\ ~c[q].behind => ~IsBehind(q, c[q].answer, o)

VersionOK(v) == v \in [Facts -> Nat]

OwnDated(o, v) ==
    /\ DOMAIN o = DOMAIN Mutations
    /\ \A m \in DOMAIN Mutations : o[m] \in Nat /\ o[m] <= v[Changes(m)]

\* The queries that can be asked for.
Askable(q, c, v) ==
    /\ q # "result"
    /\ Follows(q, c)
    /\ q = "document" => SampleShown(c) > 0
    /\ q = "manuscript" => 1 <= v["manuscript"]

RolesOK == who \in Roles /\ page \in DOMAIN Routes[who]

LEMMA ReadByIsQueries == RolesOK => ReadBy(who) \subseteq Queries
  BY PageFacts DEF ReadBy, FitRead, RolesOK

LEMMA ShownFacts == \A q \in Queries : Shows[q] # {} /\ Shows[q] \subseteq Facts
  BY ShowsListed DEF Listed, Queries

LEMMA SampleOfSame ==
  ASSUME NEW c, NEW d, DOMAIN c = DOMAIN d,
         "manuscript" \in DOMAIN c => d["manuscript"].data = c["manuscript"].data
  PROVE  SampleShown(d) = SampleShown(c)
  BY DEF SampleShown, HasData

\* An entry whose query has just been asked for.
Fresh(q, e) == InFlight(e) /\ (q # "document" => e.answer = Snapshot(Shows[q]))

\* What asking for the queries of qs makes of the cache c.
Refetched(c, d, qs) ==
    /\ DOMAIN d = DOMAIN c
    /\ \A q \in DOMAIN c : /\ d[q].data = c[q].data /\ d[q].error = c[q].error
                           /\ q \in qs => InFlight(d[q])
                           /\ d[q] = c[q] \/ Fresh(q, d[q])

LEMMA AskedOK ==
  ASSUME RolesOK, VersionOK(version), NEW c, NEW qs, NEW cancel, CacheOK(c, version),
         \A q \in qs \cap DOMAIN c : Askable(q, c, version)
  PROVE  /\ CacheOK(Asked(c, qs, cancel), version)
         /\ SampleShown(Asked(c, qs, cancel)) = SampleShown(c)
         /\ DocOK(c) => DocOK(Asked(c, qs, cancel))
         /\ \A o : OwnDated(o, version) /\ Judged(c, o) => Judged(Asked(c, qs, cancel), o)
         /\ Refetched(c, Asked(c, qs, cancel), qs)
         /\ cancel => \A q \in qs \cap DOMAIN c : HasData(c[q]) => Fresh(q, Asked(c, qs, cancel)[q])
<1> DEFINE d == Asked(c, qs, cancel)
<1>1. DOMAIN d = DOMAIN c
  BY DEF Asked
<1>2. ASSUME NEW q \in DOMAIN c
      PROVE  /\ IsEntry(d[q]) /\ d[q].data = c[q].data /\ d[q].error = c[q].error
             /\ \/ d[q] = c[q] /\ (InFlight(c[q]) \/ q \notin qs)
                               /\ ~(cancel /\ q \in qs /\ HasData(c[q]))
                \/ q \in qs /\ d[q].answer = AnswerTo(q, c) /\ d[q].behind = FALSE
  <2>1. IsEntry(c[q])
    BY DEF CacheOK, EntryOK
  <2> QED
    BY <2>1 DEF Asked, IsEntry
<1> HIDE DEF d
<1>3. \A q \in DOMAIN c : AnswerTo(q, c) # NoData
  BY AnswersAreData, ReadByIsQueries, ShownFacts DEF AnswerTo, CacheOK
<1>4. SampleShown(d) = SampleShown(c)
  BY <1>1, <1>2, SampleOfSame
<1>5. \A q \in DOMAIN c : q \in qs => InFlight(d[q])
  BY <1>2, <1>3 DEF InFlight
<1>6. \A q \in DOMAIN c : d[q].answer = AnswerTo(q, c) => Fresh(q, d[q])
  BY <1>3 DEF InFlight, Fresh, AnswerTo
<1>7. ASSUME NEW q \in DOMAIN d
      PROVE  EntryOK(q, d[q], version)
  <2>1. CASE d[q] = c[q]
    BY <1>1, <2>1 DEF CacheOK
  <2>2. CASE q \in qs /\ d[q].answer = AnswerTo(q, c) /\ q # "document"
    <3>1. q \in Queries /\ Shows[q] \subseteq Facts
      BY <1>1, ReadByIsQueries, ShownFacts DEF CacheOK
    <3>2. \A f \in Shows[q] : d[q].answer[f] = version[f] /\ version[f] \in Nat
      BY <2>2, <3>1 DEF AnswerTo, Snapshot, VersionOK
    <3>3. Askable(q, c, version) /\ EntryOK(q, c[q], version) /\ d[q].data = c[q].data
      BY <1>1, <1>2, <2>2 DEF CacheOK
    <3>4. Dated(q, d[q], version)
      BY <2>2, <3>2, <3>3 DEF Dated, EntryOK, HasData
    <3>5. q = "manuscript" /\ InFlight(d[q]) => 1 <= d[q].answer["manuscript"]
      BY <3>2, <3>3, ManuscriptShows DEF Askable
    <3> QED
      BY <1>1, <1>2, <3>3, <3>4, <3>5 DEF EntryOK, Askable, HasData
  <2>3. CASE q \in qs /\ q = "document"
    BY <1>1, <1>2, <2>3 DEF EntryOK
  <2> QED
    BY <1>1, <1>2, <2>1, <2>2, <2>3
<1>8. \A q \in DOMAIN d : HasData(d[q]) \/ InFlight(d[q]) => Follows(q, d)
  <2>1. \A q \in DOMAIN d : Follows(q, c) => Follows(q, d)
    BY <1>1, <1>2 DEF Follows, HasData
  <2>2. \A q \in DOMAIN d : HasData(d[q]) \/ InFlight(d[q]) => Follows(q, c)
    BY <1>1, <1>2 DEF CacheOK, Askable, HasData
  <2> QED
    BY <2>1, <2>2
<1>9. CacheOK(d, version)
  BY <1>1, <1>7, <1>8 DEF CacheOK
<1>10. ASSUME DocOK(c) PROVE DocOK(d)
  <2> SUFFICES ASSUME "document" \in DOMAIN d
               PROVE  /\ HasData(d["document"]) =>
                            d["document"].data["sample"] = SampleShown(d) /\ SampleShown(d) > 0
                      /\ InFlight(d["document"]) =>
                            d["document"].answer["sample"] = SampleShown(d) /\ SampleShown(d) > 0
    BY DEF DocOK
  <2>1. CASE d["document"] = c["document"]
    BY <1>1, <1>4, <1>10, <2>1 DEF DocOK
  <2>2. CASE "document" \in qs /\ d["document"].answer = AnswerTo("document", c)
    <3>1. d["document"].answer["sample"] = SampleShown(c)
      BY <2>2 DEF AnswerTo, DocumentAnswer
    <3>2. SampleShown(c) > 0
      BY <1>1, <2>2 DEF Askable
    <3> QED
      BY <1>1, <1>2, <1>4, <1>10, <3>1, <3>2 DEF DocOK, HasData
  <2> QED
    BY <1>1, <1>2, <2>1, <2>2
<1>11. ASSUME NEW o, OwnDated(o, version), Judged(c, o)
       PROVE  Judged(d, o)
  <2> SUFFICES ASSUME NEW q \in DOMAIN d \ {"document"}, InFlight(d[q]), ~d[q].behind
               PROVE  ~IsBehind(q, d[q].answer, o)
    BY DEF Judged
  <2>1. CASE d[q] = c[q]
    BY <1>1, <1>11, <2>1 DEF Judged
  <2>2. CASE q \in qs /\ d[q].answer = AnswerTo(q, c)
    <3>1. \A f \in Shows[q] : d[q].answer[f] = version[f]
      BY <2>2 DEF AnswerTo, Snapshot
    <3>2. \A m \in DOMAIN o : o[m] \in Nat /\ o[m] <= version[Changes(m)]
      BY <1>11 DEF OwnDated
    <3>3. \A m \in DOMAIN o : Changes(m) \in Facts
      BY <1>11, MutationRows DEF OwnDated, Row
    <3> QED
      BY <3>1, <3>2, <3>3 DEF IsBehind, VersionOK
  <2> QED
    BY <1>1, <1>2, <2>1, <2>2
<1>12. Refetched(c, d, qs)
  BY <1>1, <1>2, <1>5, <1>6 DEF Refetched
<1>13. cancel => \A q \in qs \cap DOMAIN c : HasData(c[q]) => Fresh(q, d[q])
  BY <1>2, <1>6
<1> QED
  BY <1>4, <1>9, <1>10, <1>11, <1>12, <1>13 DEF d

LEMMA ReadsIs ==
  ASSUME RolesOK, NEW p \in DOMAIN Routes[who]
  PROVE  Reads(p) = DOMAIN Routes[who][p].reads /\ Reads(p) \subseteq ReadBy(who)
  BY DEF Reads, PageReads, ReadBy, RolesOK

LEMMA NeedsAre == \A q : Needs(q) \subseteq {"me", "manuscript", "queue", "reviews"}
  BY DEF Needs

LEMMA EnabledIsAskable ==
  ASSUME RolesOK, NEW c, CacheOK(c, version), NEW p \in DOMAIN Routes[who], NEW q,
         p = "manuscriptDetail" => 1 <= version["manuscript"]
  PROVE  /\ EnabledOn(p, q, c) => q \in Reads(p) /\ q \in DOMAIN c /\ Askable(q, c, version)
         /\ q \in Reads(p) \ {"result", "document", "subscription", "usage"} /\ HasData(c[q]) =>
                EnabledOn(p, q, c)
<1>1. ASSUME q \in Reads(p)
      PROVE  /\ FitRead(q, Routes[who][p].reads[q], who)
             /\ Needs(q) \subseteq DOMAIN c /\ q \in DOMAIN c
             /\ q = "manuscript" => p = "manuscriptDetail"
  <2>1. q \in DOMAIN Routes[who][p].reads /\ Reads(p) \subseteq DOMAIN c
    BY <1>1, ReadsIs DEF CacheOK
  <2>2. Needs(q) \subseteq Reads(p)
    BY <2>1, PageFacts, ReadsIs DEF RolesOK
  <2> QED
    BY <1>1, <2>1, <2>2, PageFacts DEF RolesOK
<1>2. ASSUME EnabledOn(p, q, c)
      PROVE  q \in DOMAIN c /\ Askable(q, c, version)
  <2>1. q \in Reads(p) /\ q # "result" /\ \A n \in Routes[who][p].reads[q] : HasData(c[n])
    BY <1>2 DEF EnabledOn
  <2>2. Follows(q, c)
    BY <1>1, <2>1 DEF Follows, FitRead
  <2> QED
    BY <1>1, <1>2, <2>1, <2>2 DEF Askable, EnabledOn
<1>3. ASSUME q \in Reads(p) \ {"result", "document", "subscription", "usage"}, HasData(c[q])
      PROVE  EnabledOn(p, q, c)
  <2>1. Follows(q, c)
    BY <1>1, <1>3 DEF CacheOK
  <2> QED
    BY <1>1, <1>3, <2>1 DEF EnabledOn, Follows, FitRead
<1> QED
  BY <1>2, <1>3 DEF EnabledOn

LEMMA EmptyIsOK ==
  /\ \A q, v : EntryOK(q, EmptyEntry, v)
  /\ IsEntry(EmptyEntry) /\ ~HasData(EmptyEntry) /\ ~InFlight(EmptyEntry)
  BY DEF EmptyEntry, EntryOK, IsEntry, HasData, InFlight, Dated

\* The queries of R, and those of the billing page wherever they are read, know what is
\* acknowledged, as far as they are not asked for, in error, behind or left behind.
Settled(q, e, o) ==
    HasData(e) /\ ~e.error /\ ~InFlight(e) /\ ~e.behind =>
        \A m \in DOMAIN o : Changes(m) \in Shows[q] /\ <<m, q>> \notin LeftBehind =>
            o[m] <= e.data[Changes(m)]

SettledOn(c, R, o) ==
    \A q \in DOMAIN c : q \in R \cup {"subscription", "usage"} /\ q \notin {"document", "result"} =>
        Settled(q, c[q], o)

LEMMA MountedOK ==
  ASSUME RolesOK, VersionOK(version), NEW c, CacheOK(c, version), DocOK(c),
         NEW p \in DOMAIN Routes[who], p = "manuscriptDetail" => 1 <= version["manuscript"]
  PROVE  /\ CacheOK(Mounted(p, c), version)
         /\ DocOK(Mounted(p, c))
         /\ "result" \in DOMAIN c => Mounted(p, c)["result"] = EmptyEntry
         /\ \A o : OwnDated(o, version) /\ Judged(c, o) => Judged(Mounted(p, c), o)
         /\ \A o : SettledOn(c, {}, o) => SettledOn(Mounted(p, c), Reads(p), o)
         /\ \A q \in DOMAIN c : q # "result" => Mounted(p, c)[q].data = c[q].data
<1> DEFINE d == [q \in DOMAIN c |-> IF q \in DOMAIN MutationData THEN EmptyEntry ELSE c[q]]
           qs == {q \in Reads(p) : EnabledOn(p, q, d)}
           e == Mounted(p, c)
<1>1. DOMAIN MutationData = {"result"}
  BY DEF MutationData
<1>2. /\ DOMAIN d = DOMAIN c
      /\ "result" \in DOMAIN c => d["result"] = EmptyEntry
      /\ \A q \in DOMAIN c : q # "result" => d[q] = c[q]
  BY <1>1
<1>3. e = Asked(d, qs, FALSE)
  BY DEF Mounted
<1> HIDE DEF d, e
<1>4. CacheOK(d, version)
  <2>1. \A q \in DOMAIN d : EntryOK(q, d[q], version)
    BY <1>2, EmptyIsOK DEF CacheOK
  <2>2. \A q \in DOMAIN d : Follows(q, c) => Follows(q, d)
    BY <1>2, NeedsAre DEF Follows
  <2>3. \A q \in DOMAIN d : HasData(d[q]) \/ InFlight(d[q]) => Follows(q, c)
    BY <1>2, EmptyIsOK DEF CacheOK
  <2> QED
    BY <1>2, <2>1, <2>2, <2>3 DEF CacheOK
<1>5. DocOK(d) /\ SampleShown(d) = SampleShown(c)
  <2>1. SampleShown(d) = SampleShown(c)
    BY <1>2, SampleOfSame
  <2> QED
    BY <1>2, <2>1 DEF DocOK
<1>6. \A q \in qs \cap DOMAIN d : Askable(q, d, version)
  BY <1>4, EnabledIsAskable
<1>7. \A o : Judged(c, o) => Judged(d, o)
  BY <1>2, EmptyIsOK DEF Judged
<1>8. /\ CacheOK(e, version) /\ DocOK(e)
      /\ \A o : OwnDated(o, version) /\ Judged(c, o) => Judged(e, o)
      /\ Refetched(d, e, qs)
  <2> HIDE DEF qs
  <2> QED
    BY <1>3, <1>4, <1>5, <1>6, <1>7, AskedOK
<1>9. "result" \in DOMAIN c => e["result"] = EmptyEntry
  <2>1. "result" \in DOMAIN c => ~InFlight(e["result"])
    BY <1>2, <1>8 DEF CacheOK, EntryOK
  <2> QED
    BY <1>2, <1>8, <2>1 DEF Refetched, Fresh
<1>10. ASSUME NEW o, SettledOn(c, {}, o)
       PROVE  SettledOn(e, Reads(p), o)
  <2> SUFFICES ASSUME NEW q \in DOMAIN e, q \in Reads(p) \cup {"subscription", "usage"},
                      q \notin {"document", "result"}
               PROVE  Settled(q, e[q], o)
    BY DEF SettledOn
  <2>1. q \in DOMAIN d /\ q \in DOMAIN c /\ d[q] = c[q]
    BY <1>2, <1>8 DEF CacheOK, Settled
  <2>2. CASE InFlight(e[q])
    BY <2>2 DEF Settled
  <2>3. CASE e[q] = d[q] /\ q \in {"subscription", "usage"}
    BY <1>10, <2>1, <2>3 DEF SettledOn
  <2>4. CASE q \in Reads(p) \ {"subscription", "usage"} /\ ~InFlight(e[q])
    <3>1. q \notin qs
      BY <1>8, <2>1, <2>4 DEF Refetched
    <3>2. ~HasData(d[q])
      BY <1>4, <2>4, <3>1, EnabledIsAskable
    <3> QED
      BY <1>8, <2>1, <3>2 DEF Settled, HasData, Refetched
  <2> QED
    BY <1>8, <2>1, <2>2, <2>3, <2>4 DEF Refetched, Fresh
<1> QED
  BY <1>2, <1>8, <1>9, <1>10 DEF e, Refetched

\* Nothing but the document loses what it has.
Kept(c, d) ==
    /\ DOMAIN d = DOMAIN c
    /\ \A q \in DOMAIN c \ {"document"} : /\ d[q].data = c[q].data /\ d[q].error = c[q].error
                                          /\ d[q] = c[q] \/ Fresh(q, d[q])

LEMMA RenderedOK ==
  ASSUME RolesOK, VersionOK(version), page = "manuscriptDetail" => 1 <= version["manuscript"],
         NEW c, NEW d, CacheOK(d, version), SampleShown(c) = SampleShown(d) => DocOK(d)
  PROVE  /\ CacheOK(Rendered(c, d), version)
         /\ DocOK(Rendered(c, d))
         /\ SampleShown(Rendered(c, d)) = SampleShown(d)
         /\ \A o : OwnDated(o, version) /\ Judged(d, o) => Judged(Rendered(c, d), o)
         /\ Kept(d, Rendered(c, d))
         /\ "document" \in DOMAIN d /\ HasData(Rendered(c, d)["document"]) =>
               SampleShown(c) = SampleShown(d)
<1> DEFINE e == Rekeyed(c, d)
           qs == {q \in OnPage : EnabledOn(page, q, e)
                                 /\ (~EnabledOn(page, q, c) \/ (q = "document" /\ e # d))}
<1>1. Rendered(c, d) = Asked(e, qs, FALSE)
  BY DEF Rendered
<1>2. /\ DOMAIN e = DOMAIN d
      /\ \A q \in DOMAIN d : q # "document" => e[q] = d[q]
      /\ "document" \in DOMAIN d => \/ e["document"] = d["document"] /\ SampleShown(c) = SampleShown(d)
                                    \/ e["document"] = EmptyEntry
  BY DEF Rekeyed
<1> HIDE DEF e
<1>3. SampleShown(e) = SampleShown(d)
  BY <1>2, SampleOfSame
<1>4. DocOK(e)
  BY <1>2, <1>3, EmptyIsOK DEF DocOK
<1>5. CacheOK(e, version)
  <2>1. \A q \in DOMAIN e : EntryOK(q, e[q], version)
    BY <1>2, EmptyIsOK DEF CacheOK
  <2>2. \A q \in DOMAIN e : Follows(q, d) => Follows(q, e)
    BY <1>2, NeedsAre DEF Follows
  <2>3. \A q \in DOMAIN e : HasData(e[q]) \/ InFlight(e[q]) => Follows(q, d)
    BY <1>2, EmptyIsOK DEF CacheOK
  <2> QED
    BY <1>2, <2>1, <2>2, <2>3 DEF CacheOK
<1>6. \A q \in qs \cap DOMAIN e : Askable(q, e, version)
  BY <1>5, EnabledIsAskable DEF RolesOK
<1>7. \A o : Judged(d, o) => Judged(e, o)
  BY <1>2 DEF Judged
<1> HIDE DEF qs
<1>8. /\ CacheOK(Asked(e, qs, FALSE), version) /\ DocOK(Asked(e, qs, FALSE))
      /\ SampleShown(Asked(e, qs, FALSE)) = SampleShown(e)
      /\ Refetched(e, Asked(e, qs, FALSE), qs)
      /\ \A o : OwnDated(o, version) /\ Judged(e, o) => Judged(Asked(e, qs, FALSE), o)
  BY <1>4, <1>5, <1>6, AskedOK
<1>9. Kept(d, Asked(e, qs, FALSE))
  BY <1>2, <1>8 DEF Kept, Refetched
<1>10. "document" \in DOMAIN d /\ HasData(Asked(e, qs, FALSE)["document"]) =>
           SampleShown(c) = SampleShown(d)
  <2>1. "document" \in DOMAIN d => Asked(e, qs, FALSE)["document"].data = e["document"].data
    BY <1>2, <1>8 DEF Refetched
  <2> QED
    BY <1>2, <2>1, EmptyIsOK DEF HasData
<1> QED
  BY <1>1, <1>3, <1>7, <1>8, <1>9, <1>10

-------------------------------------------------------------------------------
(* The inductive invariant.                                                *)

OwnOK(o, v) ==
    /\ OwnDated(o, v)
    /\ \A m \in DOMAIN Mutations : o[m] > 0 => m \in OfferedTo(who)
    /\ o["createManuscript"] <= 1

IsCall(x) == DOMAIN x = {"mutation", "step", "here", "reply", "awaits"}

\* A call was offered to the user, and its reply is made of versions there have been.
CallsTyped(cs, v) ==
    /\ DOMAIN cs = Calls
    /\ \A k \in Calls :
        /\ IsCall(cs[k])
        /\ cs[k].step \in {"sent", "applied"} => cs[k].mutation \in OfferedTo(who)
        /\ cs[k].step = "applied" =>
               \A f \in Replies(cs[k].mutation) : cs[k].reply[f] \in Nat /\ cs[k].reply[f] <= v[f]

\* The manuscript is made once.
MadeOnce(cs, v) ==
    \A k \in Calls : cs[k].mutation = "createManuscript" =>
        /\ cs[k].step = "sent" => /\ v["manuscript"] = 0
                                  /\ \A j \in Calls : cs[j].mutation = "createManuscript" => j = k
        /\ cs[k].step = "applied" => cs[k].reply["manuscript"] = 1

\* It is changed on a page that has it.
ChangedWhenThere(cs, v, c) ==
    \A k \in Calls : cs[k].mutation = "updateManuscript" /\ cs[k].step \in {"sent", "applied"} =>
        /\ 1 <= v["manuscript"]
        /\ "manuscript" \in DOMAIN c => HasData(c["manuscript"])
        /\ cs[k].step = "applied" => 1 <= cs[k].reply["manuscript"]

\* The page waits for one run at a time, and its answer is not older than the one it shows.
RunsOnce(cs, c) ==
    \A k \in Calls : cs[k].mutation = "runMatch" /\ cs[k].here =>
        /\ \A j \in Calls : cs[j].mutation = "runMatch" /\ cs[j].here => j = k
        /\ cs[k].step = "applied" /\ "result" \in DOMAIN c /\ HasData(c["result"]) =>
               \A f \in Shows["result"] : c["result"].data[f] <= cs[k].reply[f]

CallsOK(cs, v, c) == /\ CallsTyped(cs, v) /\ MadeOnce(cs, v)
                     /\ ChangedWhenThere(cs, v, c) /\ RunsOnce(cs, c)

\* Once the trial has been acknowledged on the billing page, no older answer is on its way to it.
TrialKnown(p, R, c, o) ==
    p = "billing" /\ "startTrial" \in R =>
        \A q \in DOMAIN c \cap {"subscription", "usage"} :
            InFlight(c[q]) /\ Changes("startTrial") \in Shows[q] =>
                o["startTrial"] <= c[q].answer[Changes("startTrial")]

Inv == /\ RolesOK
       /\ page = "manuscriptDetail" => 1 <= version["manuscript"]
       /\ VersionOK(version)
       /\ CacheOK(cache, version) /\ DocOK(cache)
       /\ OwnOK(own, version)
       /\ Judged(cache, own) /\ SettledOn(cache, OnPage, own)
       /\ CallsOK(call, version, cache)
       /\ TrialKnown(page, recent, cache, own)

LEMMA InvNext ==
  ASSUME who \in Roles, who' = who, page' \in DOMAIN Routes[who],
         page' = "manuscriptDetail" => 1 <= version'["manuscript"],
         VersionOK(version'), CacheOK(cache', version'), DocOK(cache'), OwnOK(own', version'),
         Judged(cache', own'), SettledOn(cache', Reads(page'), own'),
         CallsOK(call', version', cache'), TrialKnown(page', recent', cache', own')
  PROVE  Inv'
<1>1. ReadBy(who)' = ReadBy(who) /\ OfferedTo(who)' = OfferedTo(who)
  BY DEF ReadBy, OfferedTo
<1>2. OnPage' = Reads(page')
  BY DEF OnPage, Reads, PageReads
<1>3. CacheOK(cache, version)'
  BY <1>1 DEF CacheOK
<1>4. OwnOK(own, version)'
  BY <1>1 DEF OwnOK
<1>5. CallsOK(call, version, cache)'
  BY <1>1 DEF CallsOK, CallsTyped
<1> QED
  BY <1>2, <1>3, <1>4, <1>5 DEF Inv, RolesOK

-------------------------------------------------------------------------------
(* What keeps the parts of the invariant.                                  *)

LEMMA SettledKept ==
  ASSUME NEW c, NEW d, NEW R, NEW o, SettledOn(c, R, o), DOMAIN d = DOMAIN c,
         \A q \in DOMAIN c \ {"document"} : d[q] = c[q] \/ Fresh(q, d[q])
  PROVE  SettledOn(d, R, o)
  BY DEF SettledOn, Settled, Fresh

LEMMA TrialKept ==
  ASSUME VersionOK(version), NEW c, NEW d, NEW p, NEW R, NEW o, OwnDated(o, version),
         TrialKnown(p, R, c, o), DOMAIN d = DOMAIN c,
         \A q \in DOMAIN c \ {"document"} : d[q] = c[q] \/ Fresh(q, d[q])
  PROVE  TrialKnown(p, R, d, o)
<1> SUFFICES ASSUME p = "billing", "startTrial" \in R,
                    NEW q \in DOMAIN d \cap {"subscription", "usage"},
                    InFlight(d[q]), Changes("startTrial") \in Shows[q]
             PROVE  o["startTrial"] <= d[q].answer[Changes("startTrial")]
  BY DEF TrialKnown
<1>1. CASE d[q] = c[q]
  BY <1>1 DEF TrialKnown
<1>2. CASE Fresh(q, d[q])
  <2>1. d[q].answer[Changes("startTrial")] = version[Changes("startTrial")]
    BY <1>2 DEF Fresh, Snapshot
  <2> QED
    BY <2>1, MutationNames DEF OwnDated
<1> QED
  BY <1>1, <1>2

LEMMA CallsKept ==
  ASSUME NEW cs, NEW v, NEW c, NEW d, CallsOK(cs, v, c), DOMAIN d = DOMAIN c,
         "manuscript" \in DOMAIN c /\ HasData(c["manuscript"]) => HasData(d["manuscript"]),
         "result" \in DOMAIN c => d["result"] = c["result"] \/ ~HasData(d["result"])
  PROVE  CallsOK(cs, v, d)
  BY DEF CallsOK, ChangedWhenThere, RunsOnce

\* A call that goes on as it was, or waits, or is over.
GoesOn(x, y) ==
    \/ y = NoCall
    \/ /\ IsCall(y) /\ y.mutation = x.mutation /\ y.reply = x.reply
       /\ y.step = x.step \/ y.step = "refreshing"
       /\ y.here => x.here

LEMMA CallsGoOn ==
  ASSUME NEW cs, NEW ds, NEW v, NEW c, CallsOK(cs, v, c), DOMAIN ds = Calls,
         \A k \in Calls : GoesOn(cs[k], ds[k])
  PROVE  CallsOK(ds, v, c)
<1>1. /\ IsCall(NoCall) /\ NoCall.mutation = "none" /\ NoCall.step = "idle"
  BY DEF NoCall, IsCall
<1>2. CallsTyped(ds, v)
  BY <1>1 DEF CallsOK, CallsTyped, GoesOn
<1>3. MadeOnce(ds, v)
  BY <1>1 DEF CallsOK, MadeOnce, GoesOn
<1>4. ChangedWhenThere(ds, v, c)
  BY <1>1 DEF CallsOK, ChangedWhenThere, GoesOn
<1>5. RunsOnce(ds, c)
  BY <1>1 DEF CallsOK, RunsOnce, GoesOn
<1> QED
  BY <1>2, <1>3, <1>4, <1>5 DEF CallsOK

LEMMA GrownOK ==
  ASSUME RolesOK, NEW v, NEW w, VersionOK(v), VersionOK(w), \A f \in Facts : v[f] <= w[f],
         NEW c, CacheOK(c, v)
  PROVE  CacheOK(c, w)
<1>1. ASSUME NEW q \in DOMAIN c
      PROVE  EntryOK(q, c[q], w)
  <2>1. EntryOK(q, c[q], v) /\ Shows[q] \subseteq Facts
    BY ReadByIsQueries, ShownFacts DEF CacheOK
  <2>2. \A f \in Shows[q] : v[f] \in Nat /\ w[f] \in Nat /\ v[f] <= w[f]
    BY <2>1 DEF VersionOK
  <2>3. ASSUME Dated(q, c[q], v) PROVE Dated(q, c[q], w)
    <3> SUFFICES ASSUME NEW f \in Shows[q]
                 PROVE  /\ HasData(c[q]) => c[q].data[f] \in Nat /\ c[q].data[f] <= w[f]
                        /\ InFlight(c[q]) => c[q].answer[f] \in Nat /\ c[q].answer[f] <= w[f]
      BY <2>3 DEF Dated
    <3>1. /\ HasData(c[q]) => c[q].data[f] \in Nat /\ c[q].data[f] <= v[f]
          /\ InFlight(c[q]) => c[q].answer[f] \in Nat /\ c[q].answer[f] <= v[f]
      BY <2>3 DEF Dated
    <3> QED
      BY <2>2, <3>1
  <2> QED
    BY <2>1, <2>3 DEF EntryOK
<1> QED
  BY <1>1 DEF CacheOK

-------------------------------------------------------------------------------
(* Init.                                                                   *)

LEMMA InitInv == Init => Inv
<1> SUFFICES ASSUME Init PROVE Inv
  OBVIOUS
<1>1. RolesOK
  BY QueriesAssumption DEF Init, RolesOK
<1>2. VersionOK(version) /\ (page = "manuscriptDetail" => 1 <= version["manuscript"])
  <2>1. PICK made \in {0, 1}, sample \in {0, 1}, settled \in {0, 1} :
           /\ page = "manuscriptDetail" => made = 1
           /\ version = [f \in Facts |-> CASE f = "manuscript" -> made
                                            [] f = "sample" -> sample
                                            [] f = "processing" -> settled
                                            [] OTHER -> 0]
    BY DEF Init
  <2> QED
    BY <2>1 DEF VersionOK, Facts
<1>3. /\ DOMAIN cache = ReadBy(who)
      /\ \A q \in DOMAIN cache :
            \/ cache[q] = EmptyEntry
            \/ /\ q \in Reads(page) \ {"result"}
               /\ q = "document" => version["sample"] # 0
               /\ cache[q] = [EmptyEntry EXCEPT !.data = IF q = "document"
                                                         THEN DocumentAnswer(version["sample"])
                                                         ELSE Snapshot(Shows[q])]
      /\ \A q \in DOMAIN cache \ {"document", "result"} : q \in Reads(page) => HasData(cache[q])
  <2>1. cache = Loaded(page) /\ DOMAIN MutationData = {"result"}
    BY DEF Init, MutationData
  <2>2. ReadBy(who) = UNION {Reads(o) : o \in DOMAIN Routes[who]}
    BY <1>1 DEF ReadBy, Reads, PageReads, RolesOK
  <2>3. DOMAIN cache = ReadBy(who)
    BY <2>1, <2>2 DEF Loaded
  <2>4. \A q \in DOMAIN cache :
           cache[q] = IF q \notin Reads(page) \ {"result"} \/ (q = "document" /\ version["sample"] = 0)
                      THEN EmptyEntry
                      ELSE [EmptyEntry EXCEPT !.data = IF q = "document"
                                                       THEN DocumentAnswer(version["sample"])
                                                       ELSE Snapshot(Shows[q])]
    BY <2>1, <2>2, <2>3 DEF Loaded
  <2>5. \A q \in DOMAIN cache \ {"document", "result"} :
           q \in Reads(page) => cache[q].data = Snapshot(Shows[q])
    BY <2>4 DEF EmptyEntry
  <2>6. \A q \in DOMAIN cache : Shows[q] # {}
    BY <1>1, <2>3, ReadByIsQueries, ShownFacts
  <2> QED
    BY <2>3, <2>4, <2>5, <2>6, AnswersAreData DEF HasData
<1>4. \A q \in DOMAIN cache : IsEntry(cache[q]) /\ ~InFlight(cache[q])
  BY <1>3 DEF EmptyEntry, IsEntry, InFlight
<1>5. ASSUME NEW q \in DOMAIN cache, HasData(cache[q])
      PROVE  /\ q \in Reads(page) \ {"result"}
             /\ q # "document" => cache[q].data = Snapshot(Shows[q])
             /\ q = "document" => /\ cache[q].data = DocumentAnswer(version["sample"])
                                  /\ version["sample"] # 0
  BY <1>3, <1>5 DEF HasData, EmptyEntry
<1>6. \A q \in DOMAIN cache \ {"document"} : HasData(cache[q]) =>
          \A f \in Shows[q] : cache[q].data[f] = version[f] /\ version[f] \in Nat
  <2>1. \A q \in DOMAIN cache : Shows[q] \subseteq Facts
    BY <1>1, <1>3, ReadByIsQueries, ShownFacts
  <2> QED
    BY <1>2, <1>5, <2>1 DEF Snapshot, VersionOK
<1>7. \A q \in DOMAIN cache : q \in Reads(page) \ {"subscription", "usage", "result"} => Follows(q, cache)
  <2>1. \A q \in Reads(page) : Needs(q) \subseteq Reads(page)
    BY <1>1, ReadsIs, PageFacts DEF RolesOK
  <2>2. Reads(page) \subseteq DOMAIN cache
    BY <1>1, <1>3, ReadsIs DEF RolesOK
  <2> QED
    BY <1>3, <2>1, <2>2, NeedsAre DEF Follows
<1>8. CacheOK(cache, version)
  <2>1. ASSUME NEW q \in DOMAIN cache PROVE EntryOK(q, cache[q], version)
    <3>1. q # "document" => Dated(q, cache[q], version)
      BY <1>4, <1>6 DEF Dated
    <3>2. q = "manuscript" /\ HasData(cache[q]) => 1 <= cache[q].data["manuscript"]
      <4>1. q = "manuscript" /\ HasData(cache[q]) => page = "manuscriptDetail"
        BY <1>1, <1>5, ReadsIs, PageFacts DEF RolesOK
      <4> QED
        BY <1>2, <1>6, <4>1, ManuscriptShows
    <3> QED
      BY <1>4, <3>1, <3>2 DEF EntryOK
  <2>2. \A q \in DOMAIN cache : HasData(cache[q]) \/ InFlight(cache[q]) => Follows(q, cache)
    BY <1>4, <1>5, <1>7 DEF Follows
  <2> QED
    BY <1>3, <2>1, <2>2 DEF CacheOK
<1>9. DocOK(cache)
  <2> SUFFICES ASSUME "document" \in DOMAIN cache, HasData(cache["document"])
               PROVE  /\ cache["document"].data["sample"] = SampleShown(cache)
                      /\ SampleShown(cache) > 0
    BY <1>4 DEF DocOK
  <2>1. "manuscript" \in DOMAIN cache /\ HasData(cache["manuscript"])
    BY <1>8 DEF CacheOK, Follows, Needs
  <2>2. SampleShown(cache) = version["sample"] /\ version["sample"] \in Nat
    BY <1>6, <2>1, ManuscriptShows DEF SampleShown
  <2>3. cache["document"].data["sample"] = version["sample"] /\ version["sample"] # 0
    BY <1>5 DEF DocumentAnswer
  <2> QED
    BY <2>2, <2>3
<1>10. OwnOK(own, version) /\ \A m \in DOMAIN Mutations : own[m] = 0
  <2>1. \A m \in DOMAIN Mutations : Changes(m) \in Facts
    BY MutationRows DEF Row
  <2>2. own = [m \in DOMAIN Mutations |-> 0]
    BY DEF Init
  <2>3. OwnDated(own, version)
    BY <1>2, <2>1, <2>2 DEF OwnDated, VersionOK
  <2> QED
    BY <2>2, <2>3, MutationNames DEF OwnOK
<1>11. Judged(cache, own) /\ SettledOn(cache, OnPage, own) /\ TrialKnown(page, recent, cache, own)
  <2>1. Judged(cache, own)
    BY <1>4 DEF Judged
  <2>2. SettledOn(cache, OnPage, own)
    BY <1>6, <1>10 DEF SettledOn, Settled, OwnOK, OwnDated
  <2> QED
    BY <1>4, <2>1, <2>2 DEF TrialKnown
<1>12. CallsOK(call, version, cache)
  <2>1. \A k \in Calls : call[k] = NoCall
    BY DEF Init
  <2>2. IsCall(NoCall) /\ NoCall.mutation = "none" /\ NoCall.step = "idle"
    BY DEF NoCall, IsCall
  <2>3. DOMAIN call = Calls
    BY DEF Init
  <2> QED
    BY <2>1, <2>2, <2>3 DEF CallsOK, CallsTyped, MadeOnce, ChangedWhenThere, RunsOnce
<1> QED
  BY <1>1, <1>2, <1>8, <1>9, <1>10, <1>11, <1>12 DEF Inv

-------------------------------------------------------------------------------
(* The user.                                                               *)

LEMMA NavigateInv ==
  ASSUME Inv, NEW p, Navigate(p)
  PROVE  Inv'
<1>1. /\ page' = p /\ cache' = Mounted(p, cache) /\ call' = Leave /\ recent' = {}
      /\ who' = who /\ version' = version /\ own' = own
  BY DEF Navigate, Open
<1>2. p \in DOMAIN Routes[who] /\ (p = "manuscriptDetail" => 1 <= version["manuscript"])
  BY DEF Navigate, There, Inv, VersionOK, Facts
<1>3. SettledOn(cache, {}, own)
  BY DEF Inv, SettledOn
<1>4. /\ CacheOK(cache', version) /\ DocOK(cache') /\ Judged(cache', own)
      /\ SettledOn(cache', Reads(p), own)
      /\ "result" \in DOMAIN cache => cache'["result"] = EmptyEntry
      /\ \A q \in DOMAIN cache : q # "result" => cache'[q].data = cache[q].data
  BY <1>1, <1>2, <1>3, MountedOK DEF Inv, OwnOK
<1>5. CallsOK(call', version, cache')
  <2>1. ASSUME NEW k \in Calls PROVE GoesOn(call[k], Leave[k])
    <3>1. IsCall(call[k])
      BY DEF Inv, CallsOK, CallsTyped
    <3> QED
      BY <3>1 DEF Leave, GoesOn, IsCall
  <2>2. CallsOK(Leave, version, cache)
    <3>1. DOMAIN Leave = Calls
      BY DEF Leave
    <3> QED
      BY <2>1, <3>1, CallsGoOn DEF Inv
  <2>3. DOMAIN cache' = DOMAIN cache
    BY <1>4 DEF Inv, CacheOK
  <2> QED
    BY <1>1, <1>4, <2>2, <2>3, CallsKept, EmptyIsOK DEF HasData
<1>6. TrialKnown(page', recent', cache', own')
  BY <1>1 DEF TrialKnown
<1> QED
  BY <1>1, <1>2, <1>4, <1>5, <1>6, InvNext DEF Inv, RolesOK

\* Asking for some of what can be asked for.
LEMMA AskedInv ==
  ASSUME Inv, NEW qs, \A q \in qs \cap DOMAIN cache : Askable(q, cache, version),
         cache' = Asked(cache, qs, FALSE), who' = who, version' = version, own' = own, call' = call,
         page' \in DOMAIN Routes[who], page' = "manuscriptDetail" => 1 <= version["manuscript"],
         \A q \in Reads(page') : q \notin OnPage /\ q \notin qs /\ q \in DOMAIN cache =>
             ~HasData(cache[q]) \/ q \in {"document", "result", "subscription", "usage"},
         recent' = {} \/ (recent' = recent /\ page' = page)
  PROVE  Inv'
<1>1. /\ CacheOK(cache', version) /\ DocOK(cache') /\ Judged(cache', own)
      /\ Refetched(cache, cache', qs)
  BY AskedOK DEF Inv, OwnOK
<1>2. /\ DOMAIN cache' = DOMAIN cache
      /\ \A q \in DOMAIN cache : cache'[q] = cache[q] \/ Fresh(q, cache'[q])
      /\ \A q \in DOMAIN cache : cache'[q].data = cache[q].data /\ (q \in qs => InFlight(cache'[q]))
  BY <1>1 DEF Refetched
<1>3. SettledOn(cache', Reads(page'), own)
  <2>1. SettledOn(cache', OnPage, own)
    BY <1>2, SettledKept DEF Inv
  <2>2. \A q \in DOMAIN cache' : q \in Reads(page') /\ q \notin OnPage
                                  /\ q \notin {"document", "result", "subscription", "usage"} =>
            Settled(q, cache'[q], own)
    BY <1>2 DEF Settled, HasData
  <2> QED
    BY <2>1, <2>2 DEF SettledOn
<1>4. CallsOK(call', version, cache')
  <2>1. "result" \in DOMAIN cache => cache'["result"] = cache["result"]
    BY <1>1, <1>2 DEF CacheOK, EntryOK, Fresh
  <2> QED
    BY <1>2, <2>1, CallsKept DEF Inv, HasData
<1>5. TrialKnown(page', recent', cache', own')
  <2>1. CASE recent' = {}
    BY <2>1 DEF TrialKnown
  <2>2. CASE recent' = recent /\ page' = page
    BY <1>2, <2>2, TrialKept DEF Inv, OwnOK
  <2> QED
    BY <2>1, <2>2
<1> QED
  BY <1>1, <1>3, <1>4, <1>5, InvNext DEF Inv, RolesOK

LEMMA AskedHereInv ==
  ASSUME Inv, NEW qs, \A q \in qs : EnabledOn(page, q, cache),
         cache' = Asked(cache, qs, FALSE), UNCHANGED <<who, page, server, call>>
  PROVE  Inv'
<1>1. \A q \in qs \cap DOMAIN cache : Askable(q, cache, version)
  BY EnabledIsAskable DEF Inv, RolesOK
<1>2. OnPage = Reads(page')
  BY DEF OnPage
<1> QED
  BY <1>1, <1>2, AskedInv DEF Inv, RolesOK, server, acked

LEMMA FocusInv == ASSUME Inv, Focus PROVE Inv'
<1> DEFINE qs == {q \in OnPage : EnabledOn(page, q, cache)}
<1>1. \A q \in qs : EnabledOn(page, q, cache)
  OBVIOUS
<1>2. cache' = Asked(cache, qs, FALSE) /\ UNCHANGED <<who, page, server, call>>
  BY DEF Focus
<1> HIDE DEF qs
<1> QED
  BY <1>1, <1>2, AskedHereInv

LEMMA PollInv == ASSUME Inv, PollDocument \/ PollBell PROVE Inv'
<1>1. PICK q : Poll(q)
  BY DEF PollDocument, PollBell
<1> DEFINE qs == {q}
<1>2. /\ \A r \in qs : EnabledOn(page, r, cache)
      /\ cache' = Asked(cache, qs, FALSE) /\ UNCHANGED <<who, page, server, call>>
  BY <1>1 DEF Poll
<1> HIDE DEF qs
<1> QED
  BY <1>2, AskedHereInv

LEMMA OpenDetailInv ==
  ASSUME Inv, NEW p, OpenDetail(p)
  PROVE  Inv'
<1> DEFINE qs == {q \in Reads(p) \ OnPage : EnabledOn(p, q, cache)}
<1>1. /\ page' = p /\ cache' = Asked(cache, qs, FALSE) /\ recent' = {}
      /\ who' = who /\ version' = version /\ own' = own /\ call' = call
  BY DEF OpenDetail
<1>2. p \in DOMAIN Routes[who] /\ p # "manuscriptDetail"
  BY DrawerFacts DEF OpenDetail, OpensOn, Inv, RolesOK
<1>3. \A q \in qs : Askable(q, cache, version)
  BY <1>2, EnabledIsAskable DEF Inv
<1>4. \A q \in Reads(p) : q \notin OnPage /\ q \notin qs /\ q \in DOMAIN cache =>
          ~HasData(cache[q]) \/ q \in {"document", "result", "subscription", "usage"}
  BY <1>2, EnabledIsAskable DEF Inv
<1> HIDE DEF qs
<1> QED
  BY <1>1, <1>2, <1>3, <1>4, AskedInv

LEMMA CloseDrawerInv == ASSUME Inv, CloseDrawer PROVE Inv'
<1>1. /\ page = "adminReview" /\ page' = "admin" /\ who' = who /\ cache' = cache /\ call' = call
      /\ version' = version /\ own' = own
  BY DEF CloseDrawer, server, acked
<1>2. "admin" \in DOMAIN Routes[who] /\ Reads("admin") \subseteq OnPage
  BY <1>1, DrawerFacts, ReadsIs DEF Inv, RolesOK, OnPage
<1>3. SettledOn(cache', Reads(page'), own)
  BY <1>1, <1>2 DEF Inv, SettledOn
<1>4. TrialKnown(page', recent', cache', own')
  BY <1>1 DEF TrialKnown
<1> QED
  BY <1>1, <1>2, <1>3, <1>4, InvNext DEF Inv, RolesOK

LEMMA LoseAnswerInv ==
  ASSUME Inv, NEW k \in Calls, LoseAnswer(k)
  PROVE  Inv'
<1>1. /\ call' = [call EXCEPT ![k] = NoCall]
      /\ UNCHANGED <<who, page, version, own, recent, cache>>
  BY DEF LoseAnswer, server, acked
<1>2. DOMAIN call' = Calls /\ \A j \in Calls : GoesOn(call[j], call'[j])
  BY <1>1 DEF GoesOn, Inv, CallsOK, CallsTyped
<1>3. CallsOK(call', version, cache)
  BY <1>2, CallsGoOn DEF Inv
<1> QED
  BY <1>1, <1>3, InvNext DEF Inv, RolesOK, OnPage

LEMMA SubmitInv ==
  ASSUME Inv, NEW k \in Calls, NEW m, Submit(k, m)
  PROVE  Inv'
<1> DEFINE new == [NoCall EXCEPT !.mutation = m, !.step = "sent", !.here = TRUE]
<1>1. /\ call' = [call EXCEPT ![k] = new] /\ Offered(m) /\ (m \in PerItem \/ ~Busy(m))
      /\ UNCHANGED <<who, page, version, own, recent, cache>>
  BY DEF Submit, server, acked
<1>2. /\ IsCall(new) /\ new.mutation = m /\ new.step = "sent"
  BY DEF NoCall, IsCall
<1> HIDE DEF new
<1>3. DOMAIN call' = Calls /\ call'[k] = new /\ \A j \in Calls \ {k} : call'[j] = call[j]
  BY <1>1 DEF Inv, CallsOK, CallsTyped
<1>4. m \in OfferedTo(who)
  BY <1>1 DEF Offered, Page, OfferedTo, Inv, RolesOK
<1>5. CallsTyped(call', version)
  BY <1>2, <1>3, <1>4 DEF Inv, CallsOK, CallsTyped
<1>6. MadeOnce(call', version)
  <2>1. m = "createManuscript" =>
            version["manuscript"] = 0 /\ \A j \in Calls : call[j].mutation # m
    BY <1>1 DEF Offered
  <2> QED
    BY <1>2, <1>3, <2>1 DEF Inv, CallsOK, MadeOnce
<1>7. ChangedWhenThere(call', version, cache)
  <2>1. m = "updateManuscript" => HasData(cache["manuscript"]) /\ 1 <= version["manuscript"]
    BY <1>1, PageFacts DEF Offered, Page, Inv, RolesOK, FitOffer
  <2> QED
    BY <1>2, <1>3, <2>1 DEF Inv, CallsOK, ChangedWhenThere
<1>8. RunsOnce(call', cache)
  <2>1. m = "runMatch" => \A j \in Calls : ~(call[j].mutation = m /\ call[j].here)
    BY <1>1 DEF PerItem, Busy
  <2> QED
    BY <1>2, <1>3, <2>1 DEF Inv, CallsOK, RunsOnce
<1> QED
  BY <1>1, <1>5, <1>6, <1>7, <1>8, InvNext DEF Inv, RolesOK, OnPage, CallsOK

-------------------------------------------------------------------------------
(* The server and the others: versions grow.                               *)

LEMMA GrowsInv ==
  ASSUME Inv, UNCHANGED <<who, page, own, recent, cache>>, VersionOK(version'),
         \A f \in Facts : version[f] <= version'[f],
         CallsOK(call', version', cache)
  PROVE  Inv'
<1>1. CacheOK(cache', version')
  BY GrownOK DEF Inv
<1>2. OwnOK(own', version')
  <2>1. \A m \in DOMAIN Mutations : Changes(m) \in Facts
    BY MutationRows DEF Row
  <2> QED
    BY <2>1 DEF Inv, OwnOK, OwnDated, VersionOK
<1>3. page' = "manuscriptDetail" => 1 <= version'["manuscript"]
  BY DEF Inv, VersionOK, Facts
<1> QED
  BY <1>1, <1>2, <1>3, InvNext DEF Inv, RolesOK, OnPage

LEMMA BumpedIs ==
  ASSUME VersionOK(version), NEW f \in Facts, version' = Bumped(f)
  PROVE  /\ VersionOK(version') /\ version'[f] = version[f] + 1
         /\ \A g \in Facts : version[g] <= version'[g] /\ (g # f => version'[g] = version[g])
  BY DEF VersionOK, Bumped

LEMMA OfferedFacts ==
  ASSUME RolesOK, NEW m \in OfferedTo(who)
  PROVE  /\ m \in DOMAIN Mutations /\ Row(m)
         /\ Changes(m) \in Facts /\ Changes(m) \in Replies(m) /\ Replies(m) \subseteq Facts
         /\ m \in {"createIntro", "transitionIntro"} => who # "admin"
         /\ m = "decideAccess" => who = "author"
<1>1. PICK p \in DOMAIN Routes[who] : m \in DOMAIN Routes[who][p].offers
  BY DEF OfferedTo
<1>2. FitOffer(m, Routes[who][p].offers[m], who)
  BY <1>1, PageFacts DEF RolesOK
<1>3. Row(m)
  BY <1>2, MutationRows DEF FitOffer
<1>4. \A q \in Mutations[m].writes : Shows[q] \subseteq Facts
  BY <1>3, ShownFacts, QueryNames DEF Row
<1> QED
  BY <1>2, <1>3, <1>4 DEF FitOffer, Row, Replies

\* The replies of calls under way, when versions have grown.
LEMMA RepliesStayOld ==
  ASSUME Inv, VersionOK(version'), \A f \in Facts : version[f] <= version'[f],
         NEW k \in Calls, call[k].step = "applied", NEW f \in Replies(call[k].mutation)
  PROVE  call[k].reply[f] \in Nat /\ call[k].reply[f] <= version'[f]
<1>1. call[k].mutation \in OfferedTo(who) /\ call[k].reply[f] \in Nat /\ call[k].reply[f] <= version[f]
  BY DEF Inv, CallsOK, CallsTyped
<1>2. f \in Facts
  BY <1>1, OfferedFacts DEF Inv
<1> QED
  BY <1>1, <1>2 DEF Inv, VersionOK

\* Calls are not touched, and the first manuscript is not made by somebody else.
LEMMA OthersGrow ==
  ASSUME Inv, UNCHANGED <<who, page, own, recent, cache, call>>, VersionOK(version'),
         \A f \in Facts : version[f] <= version'[f],
         version["manuscript"] = 0 => version'["manuscript"] = 0
  PROVE  Inv'
<1>1. CallsTyped(call, version')
  BY RepliesStayOld DEF Inv, CallsOK, CallsTyped
<1>2. MadeOnce(call, version')
  BY DEF Inv, CallsOK, MadeOnce
<1>3. ChangedWhenThere(call, version', cache)
  BY DEF Inv, CallsOK, ChangedWhenThere, VersionOK, Facts
<1> QED
  BY <1>1, <1>2, <1>3, GrowsInv DEF Inv, CallsOK

LEMMA WorkerSettlesInv == ASSUME Inv, WorkerSettles PROVE Inv'
<1>1. /\ version' = [version EXCEPT !["processing"] = version["sample"]]
      /\ version["processing"] < version["sample"]
      /\ UNCHANGED <<who, page, own, recent, cache, call>>
  BY DEF WorkerSettles, acked
<1>2. "processing" \in Facts /\ "sample" \in Facts /\ "manuscript" \in Facts
  BY DEF Facts
<1>3. VersionOK(version') /\ \A f \in Facts : version[f] <= version'[f]
  BY <1>1, <1>2 DEF Inv, VersionOK
<1>4. version'["manuscript"] = version["manuscript"]
  BY <1>1, <1>2 DEF Inv, VersionOK
<1> QED
  BY <1>1, <1>3, <1>4, OthersGrow

LEMMA ElsewhereInv ==
  ASSUME Inv, NEW f \in Facts, Elsewhere(f)
  PROVE  Inv'
<1>1. /\ version' = Bumped(f) /\ (f = "manuscript" => version["manuscript"] > 0)
      /\ UNCHANGED <<who, page, own, recent, cache, call>>
  BY DEF Elsewhere, acked
<1>2. /\ VersionOK(version') /\ \A g \in Facts : version[g] <= version'[g]
      /\ f # "manuscript" => version'["manuscript"] = version["manuscript"]
  <2>1. "manuscript" \in Facts /\ VersionOK(version)
    BY DEF Facts, Inv
  <2> QED
    BY <1>1, <2>1, BumpedIs
<1> QED
  BY <1>1, <1>2, OthersGrow

LEMMA ApplyInv ==
  ASSUME Inv, NEW k \in Calls, Apply(k)
  PROVE  Inv'
<1> DEFINE m == call[k].mutation
<1>1. /\ call[k].step = "sent" /\ version' = Bumped(Changes(m))
      /\ call' = [call EXCEPT ![k].step = "applied", ![k].reply = [f \in Replies(m) |-> version'[f]]]
      /\ UNCHANGED <<who, page, own, recent, cache>>
  BY DEF Apply, acked
<1>2. m \in OfferedTo(who)
  BY <1>1 DEF Inv, CallsOK, CallsTyped
<1>3. /\ m \in DOMAIN Mutations /\ Row(m) /\ Changes(m) \in Facts /\ Changes(m) \in Replies(m)
      /\ Replies(m) \subseteq Facts
  BY <1>2, OfferedFacts DEF Inv
<1>4. /\ VersionOK(version') /\ version'[Changes(m)] = version[Changes(m)] + 1
      /\ \A g \in Facts : version[g] <= version'[g] /\ (g # Changes(m) => version'[g] = version[g])
  BY <1>1, <1>3, BumpedIs DEF Inv
<1>5. /\ DOMAIN call' = Calls /\ \A j \in Calls \ {k} : call'[j] = call[j]
      /\ IsCall(call'[k]) /\ call'[k].mutation = m /\ call'[k].step = "applied"
      /\ call'[k].here = call[k].here
      /\ \A f \in Replies(m) : call'[k].reply[f] = version'[f]
  BY <1>1 DEF Inv, CallsOK, CallsTyped, IsCall
<1> HIDE DEF m
<1>6. CallsTyped(call', version')
  <2>1. \A f \in Replies(m) : version'[f] \in Nat
    BY <1>3, <1>4 DEF VersionOK
  <2> QED
    BY <1>2, <1>4, <1>5, <2>1, RepliesStayOld DEF Inv, CallsOK, CallsTyped
<1>7. MadeOnce(call', version')
  <2>1. ASSUME NEW j \in Calls, j # k, call[j].mutation = "createManuscript", call[j].step = "sent"
        PROVE  version'["manuscript"] = 0
    <3>1. version["manuscript"] = 0 /\ m # "createManuscript"
      BY <2>1 DEF Inv, CallsOK, MadeOnce, m
    <3>2. m # "updateManuscript"
      BY <1>1, <3>1 DEF Inv, CallsOK, ChangedWhenThere, m
    <3> QED
      BY <1>3, <1>4, <3>1, <3>2 DEF Row, Facts
  <2>2. m = "createManuscript" => version["manuscript"] = 0 /\ Changes(m) = "manuscript"
    BY <1>1, <1>3 DEF Inv, CallsOK, MadeOnce, m, Row
  <2> QED
    BY <1>3, <1>4, <1>5, <2>1, <2>2 DEF Inv, CallsOK, MadeOnce
<1>8. ChangedWhenThere(call', version', cache)
  <2>1. m = "updateManuscript" =>
            /\ 1 <= version["manuscript"] /\ Changes(m) = "manuscript"
            /\ "manuscript" \in DOMAIN cache => HasData(cache["manuscript"])
    BY <1>1, <1>3 DEF Inv, CallsOK, ChangedWhenThere, m, Row
  <2>2. 1 <= version["manuscript"] => 1 <= version'["manuscript"]
    BY <1>4 DEF Inv, VersionOK, Facts
  <2> QED
    BY <1>3, <1>5, <2>1, <2>2 DEF Inv, CallsOK, ChangedWhenThere
<1>9. RunsOnce(call', cache)
  <2>1. ASSUME m = "runMatch", "result" \in DOMAIN cache, HasData(cache["result"]),
               NEW f \in Shows["result"]
        PROVE  cache["result"].data[f] <= call'[k].reply[f]
    <3>1. f \in Replies(m)
      BY <2>1, NamedRows DEF Replies
    <3>2. cache["result"].data[f] \in Nat /\ cache["result"].data[f] <= version[f]
      BY <2>1 DEF Inv, CacheOK, EntryOK, Dated
    <3> QED
      BY <1>3, <1>4, <1>5, <3>1, <3>2 DEF Inv, VersionOK
  <2> QED
    BY <1>5, <2>1 DEF Inv, CallsOK, RunsOnce, m
<1> QED
  BY <1>1, <1>4, <1>6, <1>7, <1>8, <1>9, GrowsInv DEF CallsOK

-------------------------------------------------------------------------------
(* Answers.                                                                *)

LEMMA ReleasedOK ==
  ASSUME NEW cs, NEW v, NEW c, NEW qs, CallsOK(cs, v, c)
  PROVE  CallsOK(Released(cs, qs), v, c) /\ DOMAIN Released(cs, qs) = Calls
         /\ \A k \in Calls : GoesOn(cs[k], Released(cs, qs)[k])
<1>1. DOMAIN Released(cs, qs) = Calls
  BY DEF Released
<1>2. ASSUME NEW k \in Calls PROVE GoesOn(cs[k], Released(cs, qs)[k])
  <2>1. IsCall(cs[k])
    BY DEF CallsOK, CallsTyped
  <2>2. \/ Released(cs, qs)[k] = cs[k] \/ Released(cs, qs)[k] = NoCall
        \/ Released(cs, qs)[k] = [cs[k] EXCEPT !.awaits = @ \ qs]
    BY DEF Released
  <2> QED
    BY <2>1, <2>2 DEF GoesOn, IsCall
<1> QED
  BY <1>1, <1>2, CallsGoOn

\* Data that nothing of the invariant of calls or of the sample can miss.
LEMMA DeliverInv ==
  ASSUME Inv, NEW q, Deliver(q)
  PROVE  /\ Inv' /\ DOMAIN cache' = DOMAIN cache
         /\ \A p \in DOMAIN cache \ {"document"} :
               \/ cache'[p].data = cache[p].data
               \/ InFlight(cache[p]) /\ cache'[p].data = cache[p].answer
         /\ "document" \in DOMAIN cache /\ HasData(cache'["document"]) =>
               SampleShown(cache') = SampleShown(cache)
<1> DEFINE d == [cache EXCEPT ![q] = [@ EXCEPT !.data = cache[q].answer, !.error = FALSE,
                                               !.answer = NoData]]
<1>1. /\ q \in DOMAIN cache /\ InFlight(cache[q])
      /\ cache' = Rendered(cache, d) /\ call' = Released(call, {q})
      /\ UNCHANGED <<who, page, version, own, recent>>
  BY DEF Deliver, server, acked
<1>2. EntryOK(q, cache[q], version) /\ q # "result" /\ Follows(q, cache)
  BY <1>1 DEF Inv, CacheOK, EntryOK
<1>3. /\ DOMAIN d = DOMAIN cache /\ \A p \in DOMAIN cache : p # q => d[p] = cache[p]
      /\ d[q].data = cache[q].answer /\ d[q].answer = NoData /\ d[q].error = FALSE
      /\ d[q].behind = cache[q].behind /\ IsEntry(d[q])
  BY <1>1, <1>2 DEF EntryOK, IsEntry
<1> HIDE DEF d
<1>4. HasData(d[q]) /\ ~InFlight(d[q])
  BY <1>1, <1>3 DEF HasData, InFlight
<1>5. CacheOK(d, version)
  <2>1. EntryOK(q, d[q], version)
    BY <1>1, <1>2, <1>3, <1>4 DEF EntryOK, Dated
  <2>2. \A p \in DOMAIN d : EntryOK(p, d[p], version)
    BY <1>3, <2>1 DEF Inv, CacheOK
  <2>3. \A p \in DOMAIN d : Follows(p, cache) => Follows(p, d)
    BY <1>3, <1>4 DEF Follows
  <2>4. \A p \in DOMAIN d : HasData(d[p]) \/ InFlight(d[p]) => Follows(p, cache)
    BY <1>2, <1>3 DEF Inv, CacheOK
  <2> QED
    BY <1>3, <2>2, <2>3, <2>4 DEF Inv, CacheOK
<1>6. ASSUME SampleShown(cache) = SampleShown(d) PROVE DocOK(d)
  <2>1. CASE q = "document"
    BY <1>1, <1>3, <1>4, <1>6, <2>1 DEF Inv, DocOK
  <2>2. CASE q # "document"
    BY <1>3, <1>6, <2>2 DEF Inv, DocOK
  <2> QED
    BY <2>1, <2>2
<1>7. Judged(d, own)
  BY <1>3, <1>4 DEF Inv, Judged
<1>8. SettledOn(d, OnPage, own)
  <2>1. q # "document" => Settled(q, d[q], own)
    <3>1. ASSUME q # "document", ~d[q].behind, NEW m \in DOMAIN own, Changes(m) \in Shows[q]
          PROVE  own[m] <= d[q].data[Changes(m)]
      <4>1. ~(cache[q].answer[Changes(m)] < own[m])
        BY <1>1, <1>3, <3>1 DEF Inv, Judged, IsBehind
      <4>2. cache[q].answer[Changes(m)] \in Nat /\ own[m] \in Nat
        BY <1>1, <1>2, <3>1 DEF Inv, EntryOK, Dated, OwnOK, OwnDated
      <4> QED
        BY <1>3, <4>1, <4>2
    <3> QED
      BY <3>1 DEF Settled
  <2> QED
    BY <1>3, <2>1 DEF Inv, SettledOn
<1>9. TrialKnown(page, recent, d, own)
  BY <1>3, <1>4 DEF Inv, TrialKnown
<1>10. /\ CacheOK(cache', version) /\ DocOK(cache') /\ Judged(cache', own) /\ Kept(d, cache')
       /\ SampleShown(cache') = SampleShown(d)
       /\ "document" \in DOMAIN d /\ HasData(cache'["document"]) =>
             SampleShown(cache) = SampleShown(d)
  BY <1>1, <1>5, <1>6, <1>7, RenderedOK DEF Inv, OwnOK
<1>11. SettledOn(cache', OnPage, own) /\ TrialKnown(page, recent, cache', own)
  BY <1>8, <1>9, <1>10, SettledKept, TrialKept DEF Inv, OwnOK, Kept
<1>12. CallsOK(call', version, cache')
  <2>1. CallsOK(call', version, cache)
    BY <1>1, ReleasedOK DEF Inv
  <2>2. "result" \in DOMAIN cache => cache'["result"] = cache["result"]
    BY <1>2, <1>3, <1>10 DEF Kept, CacheOK, EntryOK, Fresh
  <2>3. "manuscript" \in DOMAIN cache /\ HasData(cache["manuscript"]) => HasData(cache'["manuscript"])
    BY <1>3, <1>4, <1>10 DEF Kept, HasData
  <2>4. DOMAIN cache' = DOMAIN cache
    BY <1>3, <1>10 DEF Kept
  <2> QED
    BY <2>1, <2>2, <2>3, <2>4, CallsKept
<1>13. Inv'
  BY <1>1, <1>10, <1>11, <1>12, InvNext DEF Inv, RolesOK, OnPage
<1>14. /\ DOMAIN cache' = DOMAIN cache
       /\ \A p \in DOMAIN cache \ {"document"} :
             \/ cache'[p].data = cache[p].data
             \/ InFlight(cache[p]) /\ cache'[p].data = cache[p].answer
  BY <1>1, <1>3, <1>10 DEF Kept
<1> QED
  BY <1>3, <1>10, <1>13, <1>14

LEMMA DeliverErrorInv ==
  ASSUME Inv, NEW q, DeliverError(q)
  PROVE  Inv'
<1>1. /\ q \in DOMAIN cache /\ InFlight(cache[q])
      /\ cache' = [cache EXCEPT ![q] = [@ EXCEPT !.error = TRUE, !.answer = NoData]]
      /\ call' = Released(call, {q})
      /\ UNCHANGED <<who, page, version, own, recent>>
  BY DEF DeliverError, server, acked
<1>2. EntryOK(q, cache[q], version)
  BY <1>1 DEF Inv, CacheOK
<1>3. /\ DOMAIN cache' = DOMAIN cache /\ \A p \in DOMAIN cache : p # q => cache'[p] = cache[p]
      /\ cache'[q].data = cache[q].data /\ cache'[q].answer = NoData /\ cache'[q].error = TRUE
      /\ IsEntry(cache'[q])
  BY <1>1, <1>2 DEF EntryOK, IsEntry
<1>4. ~InFlight(cache'[q]) /\ (HasData(cache'[q]) <=> HasData(cache[q]))
  BY <1>3 DEF HasData, InFlight
<1>5. CacheOK(cache', version)
  <2>1. EntryOK(q, cache'[q], version)
    BY <1>2, <1>3, <1>4 DEF EntryOK, Dated
  <2>2. \A p \in DOMAIN cache' : EntryOK(p, cache'[p], version)
    BY <1>3, <2>1 DEF Inv, CacheOK
  <2>3. \A p \in DOMAIN cache : HasData(cache'[p]) <=> HasData(cache[p])
    BY <1>3, <1>4
  <2>4. \A p \in DOMAIN cache : Follows(p, cache) => Follows(p, cache')
    BY <1>3, <2>3 DEF Follows
  <2>5. \A p \in DOMAIN cache : InFlight(cache'[p]) => InFlight(cache[p])
    BY <1>1, <1>3
  <2> QED
    BY <1>3, <2>2, <2>3, <2>4, <2>5 DEF Inv, CacheOK
<1>6. DocOK(cache')
  <2>1. SampleShown(cache') = SampleShown(cache)
    BY <1>3, SampleOfSame
  <2> QED
    BY <1>3, <1>4, <2>1 DEF Inv, DocOK
<1>7. Judged(cache', own) /\ TrialKnown(page, recent, cache', own)
  BY <1>3, <1>4 DEF Inv, Judged, TrialKnown
<1>8. SettledOn(cache', OnPage, own)
  <2>1. Settled(q, cache'[q], own)
    BY <1>3 DEF Settled
  <2> QED
    BY <1>3, <2>1 DEF Inv, SettledOn
<1>9. CallsOK(call', version, cache')
  <2>1. CallsOK(call', version, cache)
    BY <1>1, ReleasedOK DEF Inv
  <2>2. "result" \in DOMAIN cache => cache'["result"] = cache["result"]
    BY <1>1, <1>3 DEF Inv, CacheOK, EntryOK
  <2> QED
    BY <1>3, <1>4, <2>1, <2>2, CallsKept
<1> QED
  BY <1>1, <1>5, <1>6, <1>7, <1>8, <1>9, InvNext DEF Inv, RolesOK, OnPage

-------------------------------------------------------------------------------
(* An acknowledged mutation.                                               *)

LEMMA ReadFacts ==
  ASSUME RolesOK, NEW q \in ReadBy(who)
  PROVE  /\ q \in Queries
         /\ q \in {"adminIntros", "adminIntro"} => who = "admin"
         /\ q = "author" => who = "publisher"
<1>1. PICK p \in DOMAIN Routes[who] : q \in DOMAIN Routes[who][p].reads
  BY DEF ReadBy
<1>2. FitRead(q, Routes[who][p].reads[q], who)
  BY <1>1, PageFacts DEF RolesOK
<1> QED
  BY <1>2 DEF FitRead

\* The versions that are acknowledged.
Newest(m, at) == [own EXCEPT ![m] = IF @ < at THEN at ELSE @]

NewestOK(m, at, o) ==
    /\ OwnOK(o, version) /\ at \in Nat
    /\ o[m] = own[m] \/ o[m] = at
    /\ own[m] <= at => o[m] <= at
    /\ \A n \in DOMAIN Mutations : own[n] <= o[n] /\ (n # m => o[n] = own[n])

LEMMA OwnStepOK ==
  ASSUME Inv, NEW k \in Calls, call[k].step = "applied",
         NEW m, m = call[k].mutation, NEW at, at = call[k].reply[Changes(m)],
         NEW o, o = Newest(m, at)
  PROVE  NewestOK(m, at, o)
<1>1. m \in OfferedTo(who) /\ m \in DOMAIN Mutations /\ Changes(m) \in Replies(m)
  BY OfferedFacts DEF Inv, CallsOK, CallsTyped
<1>2. at \in Nat /\ at <= version[Changes(m)]
  BY <1>1 DEF Inv, CallsOK, CallsTyped
<1>3. m = "createManuscript" => at <= 1
  <2>1. m = "createManuscript" => Changes(m) = "manuscript"
    BY <1>1, MutationRows DEF Row
  <2>2. call[k].mutation = "createManuscript" => call[k].reply["manuscript"] = 1
    BY DEF Inv, CallsOK, MadeOnce
  <2>3. m = "createManuscript" => at = call[k].reply["manuscript"]
    BY <2>1
  <2> QED
    BY <2>2, <2>3
<1>4. /\ DOMAIN own = DOMAIN Mutations
      /\ \A n \in DOMAIN Mutations : own[n] \in Nat /\ own[n] <= version[Changes(n)]
      /\ \A n \in DOMAIN Mutations : own[n] > 0 => n \in OfferedTo(who)
      /\ own["createManuscript"] <= 1
  BY DEF Inv, OwnOK, OwnDated
<1>5. o = [own EXCEPT ![m] = IF @ < at THEN at ELSE @]
  BY DEF Newest
<1>6. /\ DOMAIN o = DOMAIN Mutations /\ \A n \in DOMAIN Mutations : n # m => o[n] = own[n]
      /\ o[m] = IF own[m] < at THEN at ELSE own[m]
  BY <1>1, <1>4, <1>5
<1>7. OwnDated(o, version)
  BY <1>1, <1>2, <1>4, <1>6 DEF OwnDated
<1>8. o["createManuscript"] <= 1
  BY <1>3, <1>4, <1>6, MutationNames
<1>9. OwnOK(o, version)
  BY <1>1, <1>4, <1>6, <1>7, <1>8 DEF OwnOK
<1>10. /\ o[m] = own[m] \/ o[m] = at
       /\ own[m] <= at => o[m] <= at
       /\ \A n \in DOMAIN Mutations : own[n] <= o[n]
  BY SMTT(30), <1>1, <1>2, <1>4, <1>6
<1> QED
  BY <1>2, <1>6, <1>9, <1>10 DEF NewestOK

\* What the answer of a mutation writes.
Wrote(m, reply, here) ==
    IF here \/ DOMAIN MutationData \cap Mutations[m].writes = {}
    THEN Written(cache, m, reply) ELSE cache

\* An entry that was written with this answer.
WrittenEntry(q, e, reply) ==
    /\ IsEntry(e) /\ HasData(e) /\ e.error = FALSE /\ e.answer = cache[q].answer
    /\ \A f \in Shows[q] : e.data[f] = reply[f]
    /\ ~e.behind => ~IsBehind(q, e.data, own)

LEMMA WroteIs ==
  ASSUME Inv, NEW k \in Calls, call[k].step = "applied", NEW w,
         w = Wrote(call[k].mutation, call[k].reply, call[k].here)
  PROVE  /\ DOMAIN w = DOMAIN cache
         /\ \A q \in DOMAIN cache :
               \/ w[q] = cache[q] /\ (q \notin Mutations[call[k].mutation].writes \/ q = "result")
               \/ /\ q \in Mutations[call[k].mutation].writes
                  /\ WrittenEntry(q, w[q], call[k].reply)
                  /\ q = "result" => call[k].here
<1> DEFINE m == call[k].mutation
           reply == call[k].reply
<1>1. m \in DOMAIN Mutations /\ Row(m)
  BY OfferedFacts DEF Inv, CallsOK, CallsTyped
<1>2. CASE call[k].here \/ "result" \notin Mutations[m].writes
  <2>1. w = Written(cache, m, reply)
    BY <1>2 DEF Wrote, MutationData
  <2>2. DOMAIN w = DOMAIN cache
    BY <2>1 DEF Written
  <2>3. ASSUME NEW q \in DOMAIN cache, q \in Mutations[m].writes
        PROVE  WrittenEntry(q, w[q], reply)
    <3>1. IsEntry(cache[q])
      BY DEF Inv, CacheOK, EntryOK
    <3> DEFINE a == [f \in Shows[q] |-> reply[f]]
    <3>2. w[q] = [cache[q] EXCEPT !.data = a, !.error = FALSE, !.behind = IsBehind(q, a, own)]
      BY <2>1, <2>3 DEF Written
    <3>3. a # NoData
      <4>1. Shows[q] # {}
        BY <2>3, ReadFacts, ShownFacts DEF Inv, CacheOK
      <4>2. DOMAIN NoData = {} /\ DOMAIN a = Shows[q]
        BY DEF NoData
      <4> QED
        BY <4>1, <4>2
    <3>4. \A f \in Shows[q] : a[f] = reply[f]
      OBVIOUS
    <3> HIDE DEF a
    <3>5. /\ IsEntry(w[q]) /\ w[q].data = a /\ w[q].error = FALSE /\ w[q].answer = cache[q].answer
          /\ w[q].behind = IsBehind(q, a, own)
      BY <3>1, <3>2 DEF IsEntry
    <3> QED
      BY <3>3, <3>4, <3>5 DEF WrittenEntry, HasData
  <2>4. \A q \in DOMAIN cache : q \notin Mutations[m].writes => w[q] = cache[q]
    BY <2>1 DEF Written
  <2>5. "result" \in Mutations[m].writes => call[k].here
    BY <1>2
  <2> QED
    BY <2>2, <2>3, <2>4, <2>5
<1>3. CASE ~call[k].here /\ "result" \in Mutations[m].writes
  <2>1. w = cache
    BY <1>3 DEF Wrote, MutationData
  <2>2. Mutations[m].writes = {"result"}
    BY <1>1, <1>3, NamedRows DEF Row
  <2> QED
    BY <2>1, <2>2
<1> QED
  BY <1>2, <1>3

LEMMA WroteOK ==
  ASSUME Inv, NEW k \in Calls, call[k].step = "applied", NEW w,
         w = Wrote(call[k].mutation, call[k].reply, call[k].here)
  PROVE  /\ CacheOK(w, version)
         /\ SampleShown(cache) = SampleShown(w) => DocOK(w)
         /\ \A q \in DOMAIN cache : HasData(cache[q]) => HasData(w[q])
<1> DEFINE m == call[k].mutation
           reply == call[k].reply
<1>1. m \in DOMAIN Mutations /\ Row(m) /\ m \in OfferedTo(who)
  BY OfferedFacts DEF Inv, CallsOK, CallsTyped
<1>2. /\ DOMAIN w = DOMAIN cache
      /\ \A q \in DOMAIN cache :
            \/ w[q] = cache[q] /\ (q \notin Mutations[m].writes \/ q = "result")
            \/ q \in Mutations[m].writes /\ WrittenEntry(q, w[q], reply)
  BY WroteIs
<1>3. \A q \in DOMAIN cache : HasData(cache[q]) => HasData(w[q])
  BY <1>2 DEF WrittenEntry
<1>4. ASSUME NEW q \in DOMAIN cache, q \in Mutations[m].writes, WrittenEntry(q, w[q], reply)
      PROVE  EntryOK(q, w[q], version) /\ Follows(q, w)
  <2>1. q \in {"manuscript", "subscription", "usage", "result"} /\ (q = "manuscript" => m = "updateManuscript")
    BY <1>1, <1>4 DEF Row
  <2>2. EntryOK(q, cache[q], version)
    BY DEF Inv, CacheOK
  <2>3. \A f \in Shows[q] : reply[f] \in Nat /\ reply[f] <= version[f]
    <3>1. \A f \in Shows[q] : f \in Replies(m)
      BY <1>4 DEF Replies
    <3> QED
      BY <3>1 DEF Inv, CallsOK, CallsTyped
  <2>4. Dated(q, w[q], version)
    BY <1>4, <2>1, <2>2, <2>3 DEF EntryOK, Dated, WrittenEntry, InFlight
  <2>5. q = "manuscript" => 1 <= w[q].data["manuscript"] /\ HasData(cache["manuscript"])
    BY <1>4, <2>1, ManuscriptShows DEF Inv, CallsOK, ChangedWhenThere, WrittenEntry
  <2>6. EntryOK(q, w[q], version)
    BY <1>4, <2>1, <2>2, <2>4, <2>5 DEF EntryOK, WrittenEntry, InFlight
  <2>7. q = "manuscript" => Follows(q, cache)
    BY <2>5 DEF Inv, CacheOK
  <2>8. q = "manuscript" => Follows(q, w)
    BY <1>2, <1>3, <2>7 DEF Follows
  <2> QED
    BY <2>1, <2>6, <2>8 DEF Follows
<1>5. CacheOK(w, version)
  <2>1. \A q \in DOMAIN w : EntryOK(q, w[q], version)
    BY <1>2, <1>4 DEF Inv, CacheOK
  <2>2. \A q \in DOMAIN w : Follows(q, cache) => Follows(q, w)
    BY <1>2, <1>3 DEF Follows
  <2>3. \A q \in DOMAIN w : HasData(w[q]) \/ InFlight(w[q]) => Follows(q, w)
    BY <1>2, <1>4, <2>2 DEF Inv, CacheOK
  <2> QED
    BY <1>2, <2>1, <2>3 DEF Inv, CacheOK
<1>6. SampleShown(cache) = SampleShown(w) => DocOK(w)
  <2>1. "document" \in DOMAIN cache => w["document"] = cache["document"]
    BY <1>1, <1>2 DEF Row
  <2> QED
    BY <1>2, <2>1 DEF Inv, DocOK
<1> QED
  BY <1>3, <1>5, <1>6

\* Answers on their way are marked anew.
OnlyMarked(c, x) ==
    /\ DOMAIN x = DOMAIN c
    /\ \A q \in DOMAIN c : /\ x[q].data = c[q].data /\ x[q].answer = c[q].answer
                           /\ ~InFlight(c[q]) => x[q] = c[q]

LEMMA MarkedOK ==
  ASSUME NEW c, NEW o, NEW v, CacheOK(c, v), DocOK(c), NEW x, x = Marked(c, o)
  PROVE  CacheOK(x, v) /\ DocOK(x) /\ Judged(x, o) /\ OnlyMarked(c, x)
<1>1. \A q \in DOMAIN c : IsEntry(c[q])
  BY DEF CacheOK, EntryOK
<1>2. DOMAIN x = DOMAIN c
  BY DEF Marked
<1>3. ASSUME NEW q \in DOMAIN c
      PROVE  /\ IsEntry(x[q]) /\ x[q].data = c[q].data /\ x[q].error = c[q].error
             /\ x[q].answer = c[q].answer
             /\ InFlight(c[q]) => x[q].behind = IsBehind(q, c[q].answer, o)
             /\ ~InFlight(c[q]) => x[q] = c[q]
  <2>1. x[q] = IF InFlight(c[q]) THEN [c[q] EXCEPT !.behind = IsBehind(q, c[q].answer, o)]
               ELSE c[q]
    BY DEF Marked
  <2> QED
    BY <1>1, <2>1 DEF IsEntry
<1>4. \A q \in DOMAIN c : (HasData(x[q]) <=> HasData(c[q])) /\ (InFlight(x[q]) <=> InFlight(c[q]))
  BY <1>3 DEF HasData, InFlight
<1>5. CacheOK(x, v)
  <2>1. ASSUME NEW q \in DOMAIN c PROVE EntryOK(q, x[q], v)
    <3>1. EntryOK(q, c[q], v)
      BY DEF CacheOK
    <3>2. Dated(q, c[q], v) => Dated(q, x[q], v)
      BY <1>3, <1>4 DEF Dated
    <3> QED
      BY <1>3, <1>4, <3>1, <3>2 DEF EntryOK
  <2>2. ASSUME NEW q \in DOMAIN c, Follows(q, c) PROVE Follows(q, x)
    BY <1>2, <1>4, <2>2 DEF Follows
  <2> QED
    BY <1>2, <1>4, <2>1, <2>2 DEF CacheOK
<1>6. DocOK(x)
  <2>1. SampleShown(x) = SampleShown(c)
    BY <1>2, <1>3, SampleOfSame
  <2> QED
    BY <1>2, <1>3, <1>4, <2>1 DEF DocOK
<1>7. Judged(x, o)
  <2> SUFFICES ASSUME NEW q \in DOMAIN c, InFlight(x[q]), ~x[q].behind
               PROVE  ~IsBehind(q, x[q].answer, o)
    BY <1>2 DEF Judged
  <2> QED
    BY <1>3, <1>4
<1> QED
  BY <1>2, <1>3, <1>5, <1>6, <1>7 DEF OnlyMarked

\* What is written (w), asked for again (v), rendered (c) and marked (x): the data stay, and what
\* is not on its way is as it was written.
LEMMA ChainOK ==
  ASSUME NEW w, NEW v, NEW c, NEW x, NEW qs, Refetched(w, v, qs), Kept(v, c),
         OnlyMarked(c, x), NEW q \in DOMAIN w, q # "document"
  PROVE  /\ x[q].data = w[q].data
         /\ ~InFlight(x[q]) => x[q] = w[q] /\ q \notin qs
         /\ \/ x[q].answer = w[q].answer /\ x[q].answer = v[q].answer
            \/ x[q].answer = Snapshot(Shows[q])
<1>1. /\ v[q].data = w[q].data /\ (q \in qs => InFlight(v[q])) /\ (v[q] = w[q] \/ Fresh(q, v[q]))
      /\ q \in DOMAIN v
  BY DEF Refetched
<1>2. /\ c[q].data = v[q].data /\ (c[q] = v[q] \/ Fresh(q, c[q])) /\ q \in DOMAIN c
  <2>1. q \in DOMAIN v \ {"document"}
    BY <1>1
  <2> QED
    BY <2>1 DEF Kept
<1>3. x[q].data = c[q].data /\ x[q].answer = c[q].answer /\ (~InFlight(c[q]) => x[q] = c[q])
  BY <1>2 DEF OnlyMarked
<1>4. InFlight(x[q]) <=> InFlight(c[q])
  BY <1>3 DEF InFlight
<1> QED
  BY <1>1, <1>2, <1>3, <1>4 DEF Fresh

\* The data that the cache x has, and the cache had not, are of the answer of the mutation m.
OnlyWrites(m, reply, here, x) ==
    /\ \A q \in DOMAIN cache \ {"document"} :
          \/ x[q].data = cache[q].data
          \/ /\ q \in Mutations[m].writes
             /\ \A f \in Shows[q] : x[q].data[f] = reply[f]
             /\ q = "result" => here
    /\ "document" \in DOMAIN cache /\ HasData(x["document"]) => SampleShown(x) = SampleShown(cache)

\* The cache when a mutation has been acknowledged: x, of what was written (w), was asked for
\* again (v), and is rendered (c).
LEMMA AckCacheOK ==
  ASSUME Inv, NEW k \in Calls, call[k].step = "applied",
         NEW m, m = call[k].mutation, NEW reply, reply = call[k].reply,
         NEW at, at = reply[Changes(m)],
         NEW o, o = Newest(m, at),
         NEW x, x = Marked(Acknowledged(m, reply, call[k].here), o)
  PROVE  /\ CacheOK(x, version) /\ DocOK(x) /\ Judged(x, o) /\ OwnOK(o, version)
         /\ SettledOn(x, OnPage, o)
         /\ TrialKnown(page, recent \cup {m}, x, o)
         /\ \A q \in DOMAIN cache \ {"document"} : HasData(cache[q]) => HasData(x[q])
         /\ "result" \in DOMAIN cache =>
               x["result"] = cache["result"] \/ (m = "runMatch" /\ call[k].here)
         /\ OnlyWrites(m, reply, call[k].here, x)
<1> DEFINE w == Wrote(m, reply, call[k].here)
           qs == {q \in Mutations[m].invalidates \cap OnPage : EnabledOn(page, q, w)}
           v == Invalidate(w, Mutations[m].invalidates)
           c == Acknowledged(m, reply, call[k].here)
<1>1. m \in DOMAIN Mutations /\ Row(m) /\ m \in OfferedTo(who) /\ RolesOK /\ VersionOK(version)
  BY OfferedFacts DEF Inv, CallsOK, CallsTyped
<1>2. /\ OwnOK(o, version) /\ at \in Nat
      /\ o[m] = own[m] \/ o[m] = at
      /\ own[m] <= at => o[m] <= at
      /\ \A n \in DOMAIN Mutations : own[n] <= o[n] /\ (n # m => o[n] = own[n])
  <2>1. at = call[k].reply[Changes(m)]
    OBVIOUS
  <2>2. NewestOK(m, at, o)
    BY <2>1, OwnStepOK
  <2> QED
    BY <2>2 DEF NewestOK
<1>3. /\ DOMAIN w = DOMAIN cache
      /\ \A q \in DOMAIN cache :
            \/ w[q] = cache[q] /\ (q \notin Mutations[m].writes \/ q = "result")
            \/ /\ q \in Mutations[m].writes /\ WrittenEntry(q, w[q], reply)
               /\ q = "result" => call[k].here
  BY WroteIs
<1>4. /\ CacheOK(w, version) /\ (SampleShown(cache) = SampleShown(w) => DocOK(w))
      /\ \A q \in DOMAIN cache : HasData(cache[q]) => HasData(w[q])
  BY WroteOK
<1>5. v = Asked(w, qs, TRUE) /\ c = Rendered(cache, v) /\ x = Marked(c, o)
  BY DEF Invalidate, Acknowledged, Wrote
<1>6. \A q \in qs : Askable(q, w, version)
  <2> HIDE DEF w
  <2> QED
    BY <1>4, EnabledIsAskable DEF Inv, RolesOK
<1>7. \A q \in OnPage : q \in Mutations[m].invalidates /\ EnabledOn(page, q, w) => q \in qs
  OBVIOUS
<1> HIDE DEF w, qs, v, c
<1>8. /\ CacheOK(v, version) /\ SampleShown(v) = SampleShown(w) /\ (DocOK(w) => DocOK(v))
      /\ Refetched(w, v, qs) /\ \A q \in qs \cap DOMAIN w : HasData(w[q]) => Fresh(q, v[q])
  BY <1>1, <1>4, <1>5, <1>6, AskedOK
<1>9. /\ CacheOK(c, version) /\ DocOK(c) /\ Kept(v, c) /\ SampleShown(c) = SampleShown(v)
      /\ "document" \in DOMAIN v /\ HasData(c["document"]) => SampleShown(cache) = SampleShown(v)
  BY <1>1, <1>4, <1>5, <1>8, RenderedOK DEF Inv
<1>10. CacheOK(x, version) /\ DocOK(x) /\ Judged(x, o) /\ OnlyMarked(c, x)
  BY <1>5, <1>9, MarkedOK
<1>11. DOMAIN x = DOMAIN cache /\ DOMAIN w = DOMAIN cache
  BY <1>3, <1>10, <1>8, <1>9 DEF Refetched, Kept, OnlyMarked
<1>12. ASSUME NEW q \in DOMAIN w, q # "document"
       PROVE  /\ x[q].data = w[q].data
              /\ ~InFlight(x[q]) => x[q] = w[q] /\ q \notin qs
              /\ \/ x[q].answer = w[q].answer /\ x[q].answer = v[q].answer
                 \/ x[q].answer = Snapshot(Shows[q])
  <2>1. Refetched(w, v, qs) /\ Kept(v, c) /\ OnlyMarked(c, x)
    BY <1>8, <1>9, <1>10, Zenon
  <2> QED
    BY SMTT(60), <1>12, <2>1, ChainOK
<1>14. ASSUME NEW q \in DOMAIN x, q \in OnPage \cup {"subscription", "usage"},
              q \notin {"document", "result"}
       PROVE  Settled(q, x[q], o)
  <2> SUFFICES ASSUME HasData(x[q]), ~x[q].error, ~InFlight(x[q]), ~x[q].behind,
                      NEW n \in DOMAIN Mutations, Changes(n) \in Shows[q], <<n, q>> \notin LeftBehind
               PROVE  o[n] <= x[q].data[Changes(n)]
    BY <1>2 DEF Settled, OwnOK, OwnDated
  <2>1. x[q] = w[q] /\ q \notin qs
    BY <1>11, <1>12, <1>14
  <2>2. CASE q \in Mutations[m].writes /\ WrittenEntry(q, w[q], reply)
    <3>1. w[q].data[Changes(n)] = reply[Changes(n)] /\ ~(w[q].data[Changes(n)] < own[n])
      BY <2>1, <2>2 DEF WrittenEntry, IsBehind, Inv, OwnOK, OwnDated
    <3>2. reply[Changes(n)] \in Nat
      <4>1. Changes(n) \in Replies(m)
        BY <2>2 DEF Replies
      <4> QED
        BY <4>1 DEF Inv, CallsOK, CallsTyped
    <3>3. own[n] \in Nat
      BY DEF Inv, OwnOK, OwnDated
    <3>4. own[n] <= reply[Changes(n)]
      BY <3>1, <3>2, <3>3
    <3>5. n = m => o[n] <= reply[Changes(n)]
      BY <1>2, <3>4
    <3> QED
      BY <1>2, <2>1, <3>1, <3>4, <3>5
  <2>3. CASE w[q] = cache[q] /\ q \notin Mutations[m].writes
    <3>1. own[n] <= x[q].data[Changes(n)]
      BY <1>11, <1>14, <2>1, <2>3 DEF Inv, SettledOn, Settled, OwnOK, OwnDated
    <3>2. ASSUME n = m PROVE m = "createManuscript" /\ q = "manuscript"
      <4>1. q \in ReadBy(who) /\ q \in Queries
        BY <1>1, <1>11, ReadFacts DEF Inv, CacheOK
      <4>2. IsTold(m, q) \/ (m = "createManuscript" /\ q = "manuscript")
        BY <1>1, <1>14, <3>2, <4>1, AllAreTold
      <4>3. <<m, q>> \notin Strangers
        BY <1>1, <4>1, ReadFacts, OfferedFacts DEF Strangers
      <4>4. ~(q \in Mutations[m].invalidates /\ q \notin {"subscription", "usage"})
        <5>1. q \notin {"subscription", "usage"} => EnabledOn(page, q, w)
          BY <1>1, <1>4, <1>14, <2>1, EnabledIsAskable DEF Inv, RolesOK, OnPage
        <5> QED
          BY <1>7, <1>14, <2>1, <5>1
      <4> QED
        BY <2>3, <3>2, <4>2, <4>3, <4>4 DEF IsTold
    <3>3. ASSUME n = m PROVE o[n] <= x[q].data[Changes(n)]
      <4>1. m = "createManuscript" /\ q = "manuscript" /\ Changes(m) = "manuscript"
        BY <1>1, <3>2, <3>3 DEF Row
      <4>2. EntryOK(q, x[q], version)
        BY <1>10 DEF CacheOK
      <4>3. x[q].data["manuscript"] \in Nat /\ 1 <= x[q].data["manuscript"]
        BY <4>1, <4>2, ManuscriptShows DEF EntryOK, Dated
      <4>4. o[m] <= 1 /\ o[m] \in Nat
        BY <1>1, <1>2, <4>1 DEF OwnOK, OwnDated
      <4> QED
        BY <3>3, <4>1, <4>3, <4>4
    <3> QED
      BY <1>2, <3>1, <3>3
  <2> QED
    BY <1>3, <1>11, <1>14, <2>2, <2>3
<1>15. TrialKnown(page, recent \cup {m}, x, o)
  <2> SUFFICES ASSUME page = "billing", "startTrial" \in recent \cup {m},
                      NEW q \in DOMAIN x \cap {"subscription", "usage"},
                      InFlight(x[q]), Changes("startTrial") \in Shows[q]
               PROVE  o["startTrial"] <= x[q].answer[Changes("startTrial")]
    BY SMTT(30) DEF TrialKnown
  <2>1. x[q].answer = Snapshot(Shows[q]) => o["startTrial"] <= x[q].answer[Changes("startTrial")]
    <3>1. o["startTrial"] <= version[Changes("startTrial")]
      BY <1>2, MutationNames DEF OwnOK, OwnDated
    <3>2. Snapshot(Shows[q])[Changes("startTrial")] = version[Changes("startTrial")]
      BY DEF Snapshot
    <3> QED
      BY <3>1, <3>2
  <2>2. \/ x[q].answer = w[q].answer /\ x[q].answer = v[q].answer
        \/ x[q].answer = Snapshot(Shows[q])
    BY <1>11, <1>12
  <2>3. CASE m = "startTrial"
    <3>1. q \in Mutations[m].invalidates /\ q \in Mutations[m].writes
      BY <2>3, NamedRows
    <3>2. q \in OnPage /\ EnabledOn(page, q, w)
      BY <1>1, BillingFacts DEF Inv, RolesOK, OnPage, Reads, PageReads, EnabledOn
    <3>3. HasData(w[q])
      BY <1>3, <1>11, <3>1 DEF WrittenEntry
    <3>4. q \in qs /\ q \in DOMAIN w
      BY <1>7, <1>11, <3>1, <3>2
    <3>5. v[q].answer = Snapshot(Shows[q])
      BY <1>8, <3>3, <3>4 DEF Fresh
    <3> QED
      BY <2>1, <2>2, <3>5
  <2>4. CASE m # "startTrial"
    <3>1. o["startTrial"] = own["startTrial"] /\ "startTrial" \in recent
      BY <1>2, <2>4, MutationNames
    <3>2. w[q] = cache[q]
      BY <1>1, <1>3, <1>11, <2>4 DEF Row
    <3>3. InFlight(cache[q]) => own["startTrial"] <= cache[q].answer[Changes("startTrial")]
      BY <1>11, <3>1 DEF Inv, TrialKnown
    <3> QED
      BY <2>1, <2>2, <3>1, <3>2, <3>3 DEF InFlight
  <2> QED
    BY <2>3, <2>4
<1>16. \A q \in DOMAIN cache \ {"document"} : HasData(cache[q]) => HasData(x[q])
  BY <1>4, <1>11, <1>12 DEF HasData
<1>17. "result" \in DOMAIN cache =>
           x["result"] = cache["result"] \/ (m = "runMatch" /\ call[k].here)
  <2>1. "result" \in DOMAIN cache => ~InFlight(x["result"])
    BY <1>10, <1>11 DEF CacheOK, EntryOK
  <2>2. "result" \in DOMAIN cache => x["result"] = w["result"]
    BY <1>11, <1>12, <2>1
  <2> QED
    BY <1>1, <1>3, <2>2 DEF Row
<1>18. SettledOn(x, OnPage, o)
  BY <1>14 DEF SettledOn
<1>19. \A q \in DOMAIN cache \ {"document"} :
           \/ x[q].data = cache[q].data
           \/ /\ q \in Mutations[m].writes
              /\ \A f \in Shows[q] : x[q].data[f] = reply[f]
              /\ q = "result" => call[k].here
  <2> SUFFICES ASSUME NEW q \in DOMAIN cache \ {"document"}
               PROVE  \/ x[q].data = cache[q].data
                      \/ /\ q \in Mutations[m].writes
                         /\ \A f \in Shows[q] : x[q].data[f] = reply[f]
                         /\ q = "result" => call[k].here
    OBVIOUS
  <2>1. x[q].data = w[q].data
    BY <1>11, <1>12
  <2>2. CASE w[q] = cache[q]
    BY <2>1, <2>2
  <2>3. CASE q \in Mutations[m].writes /\ WrittenEntry(q, w[q], reply) /\ (q = "result" => call[k].here)
    BY <2>1, <2>3 DEF WrittenEntry
  <2> QED
    BY <1>3, <2>2, <2>3
<1>20. "document" \in DOMAIN cache /\ HasData(x["document"]) => SampleShown(x) = SampleShown(cache)
  <2>1. SampleShown(x) = SampleShown(c)
    BY <1>10, SampleOfSame DEF OnlyMarked
  <2>2. "document" \in DOMAIN cache => /\ "document" \in DOMAIN v /\ "document" \in DOMAIN c
                                      /\ x["document"].data = c["document"].data
    BY <1>8, <1>9, <1>10, <1>11 DEF OnlyMarked, Kept, Refetched
  <2> QED
    BY <1>9, <2>1, <2>2 DEF HasData
<1> QED
  BY <1>2, <1>10, <1>15, <1>16, <1>17, <1>18, <1>19, <1>20 DEF OnlyWrites

\* The calls, when the answer of k has been taken.
LEMMA AckCallsOK ==
  ASSUME Inv, NEW k \in Calls, call[k].step = "applied",
         NEW x, DOMAIN x = DOMAIN cache,
         \A q \in DOMAIN cache \ {"document"} : HasData(cache[q]) => HasData(x[q]),
         "result" \in DOMAIN cache =>
             x["result"] = cache["result"] \/ (call[k].mutation = "runMatch" /\ call[k].here),
         NEW ds, DOMAIN ds = Calls, \A j \in Calls : GoesOn(call[j], ds[j]),
         ds[k].step \notin {"sent", "applied"}
  PROVE  CallsOK(ds, version, x)
<1>1. CallsOK(ds, version, cache)
  BY CallsGoOn DEF Inv
<1>2. ChangedWhenThere(ds, version, x)
  BY <1>1 DEF CallsOK, ChangedWhenThere
<1>3. RunsOnce(ds, x)
  <2> SUFFICES ASSUME NEW j \in Calls, ds[j].mutation = "runMatch", ds[j].here,
                      ds[j].step = "applied", "result" \in DOMAIN x, HasData(x["result"])
               PROVE  \A f \in Shows["result"] : x["result"].data[f] <= ds[j].reply[f]
    BY <1>1 DEF CallsOK, RunsOnce
  <2>1. CASE x["result"] = cache["result"]
    BY <1>1, <2>1 DEF CallsOK, RunsOnce
  <2>2. CASE call[k].mutation = "runMatch" /\ call[k].here
    <3>1. call[j].mutation = "runMatch" /\ call[j].here
      BY DEF GoesOn, NoCall
    <3>2. j = k
      BY <2>2, <3>1 DEF Inv, CallsOK, RunsOnce
    <3> QED
      BY <3>2
  <2> QED
    BY <2>1, <2>2
<1> QED
  BY <1>1, <1>2, <1>3 DEF CallsOK

LEMMA AckInv ==
  ASSUME Inv, NEW k \in Calls, Ack(k)
  PROVE  Inv'
<1> DEFINE m == call[k].mutation
           reply == call[k].reply
           at == reply[Changes(m)]
           c == Acknowledged(m, reply, call[k].here)
           x == Marked(c, own')
           asked == {q \in OnPage \cap Mutations[m].invalidates : InFlight(c[q])}
           over == IF m \in Awaiting /\ asked # {}
                   THEN [call[k] EXCEPT !.step = "refreshing", !.awaits = asked] ELSE NoCall
           rest == [call EXCEPT ![k] = over]
           cancelled == {q \in asked : InFlight(cache[q]) /\ HasData(cache[q])}
<1>1. /\ call[k].step = "applied" /\ own' = Newest(m, at)
      /\ who' = who /\ version' = version
      /\ recent' = IF page' = page THEN recent \cup {m} ELSE {}
  BY DEF Ack, Newest
<1>2. \/ /\ \/ page' = page
            \/ page = "adminReview" /\ page' = "admin"
         /\ cache' = x
         /\ call' = [Released(call, cancelled) EXCEPT ![k] = over] \/ call' = rest
      \/ \E p \in There \ {page} :
            /\ page' = p
            /\ cache' = Mounted(p, x)
            /\ call' = [j \in Calls |-> [rest[j] EXCEPT !.here = FALSE]]
  <2>1. DOMAIN call = Calls
    BY DEF Inv, CallsOK, CallsTyped
  <2> QED
    BY <2>1 DEF Ack
<1>3. DOMAIN call = Calls /\ \A j \in Calls : IsCall(call[j])
  BY DEF Inv, CallsOK, CallsTyped
<1>4. GoesOn(call[k], over) /\ over.step \notin {"sent", "applied"} /\ IsCall(over)
  BY <1>3 DEF GoesOn, IsCall, NoCall
<1>5. /\ CacheOK(x, version) /\ DocOK(x) /\ Judged(x, own') /\ OwnOK(own', version)
      /\ SettledOn(x, OnPage, own')
      /\ TrialKnown(page, recent \cup {m}, x, own')
      /\ \A q \in DOMAIN cache \ {"document"} : HasData(cache[q]) => HasData(x[q])
      /\ "result" \in DOMAIN cache =>
            x["result"] = cache["result"] \/ (m = "runMatch" /\ call[k].here)
  BY <1>1, AckCacheOK
<1>6. /\ DOMAIN rest = Calls /\ rest[k] = over /\ \A j \in Calls \ {k} : rest[j] = call[j]
  BY <1>3
<1> HIDE DEF over, rest, asked, cancelled, x, c
<1>7. DOMAIN x = DOMAIN cache
  BY <1>5 DEF Inv, CacheOK
<1>8. \A ds : DOMAIN ds = Calls /\ (\A j \in Calls : GoesOn(call[j], ds[j]))
              /\ ds[k].step \notin {"sent", "applied"} => CallsOK(ds, version, x)
  BY <1>1, <1>5, <1>7, AckCallsOK
<1>9. CASE /\ page' = page \/ (page = "adminReview" /\ page' = "admin")
           /\ cache' = x
           /\ call' = [Released(call, cancelled) EXCEPT ![k] = over] \/ call' = rest
  <2>1. CallsOK(call', version, x)
    <3>1. CASE call' = rest
      <4>1. \A j \in Calls : GoesOn(call[j], call'[j])
        BY <1>3, <1>4, <1>6, <3>1 DEF GoesOn
      <4> QED
        BY <1>4, <1>6, <1>8, <3>1, <4>1
    <3>2. CASE call' = [Released(call, cancelled) EXCEPT ![k] = over]
      <4>1. /\ DOMAIN Released(call, cancelled) = Calls
            /\ \A j \in Calls : GoesOn(call[j], Released(call, cancelled)[j])
        BY ReleasedOK DEF Inv
      <4>2. /\ DOMAIN call' = Calls /\ call'[k] = over
            /\ \A j \in Calls \ {k} : call'[j] = Released(call, cancelled)[j]
        BY <3>2, <4>1
      <4>3. \A j \in Calls : GoesOn(call[j], call'[j])
        BY <1>4, <4>1, <4>2
      <4> QED
        BY <1>4, <1>8, <4>2, <4>3
    <3> QED
      BY <1>9, <3>1, <3>2
  <2>2. /\ page' \in DOMAIN Routes[who]
        /\ page' = "manuscriptDetail" => 1 <= version["manuscript"]
    BY <1>9, DrawerFacts DEF Inv, RolesOK
  <2>3. SettledOn(x, Reads(page'), own')
    <3>1. Reads(page') \subseteq OnPage
      BY <1>9, DrawerFacts DEF Inv, RolesOK, OnPage, Reads, PageReads
    <3> QED
      BY <1>5, <3>1 DEF SettledOn
  <2>4. TrialKnown(page', recent', x, own')
    BY <1>1, <1>5, <1>9 DEF TrialKnown
  <2> QED
    BY <1>1, <1>5, <1>9, <2>1, <2>2, <2>3, <2>4, InvNext DEF Inv, RolesOK
<1>10. ASSUME NEW p \in There \ {page}, page' = p, cache' = Mounted(p, x),
              call' = [j \in Calls |-> [rest[j] EXCEPT !.here = FALSE]]
       PROVE  Inv'
  <2>1. p \in DOMAIN Routes[who] /\ (p = "manuscriptDetail" => 1 <= version["manuscript"])
    BY DEF There, Inv, VersionOK, Facts
  <2>2. /\ CacheOK(cache', version) /\ DocOK(cache')
        /\ "result" \in DOMAIN x => cache'["result"] = EmptyEntry
        /\ Judged(cache', own')
        /\ SettledOn(x, {}, own') => SettledOn(cache', Reads(p), own')
        /\ \A q \in DOMAIN x : q # "result" => cache'[q].data = x[q].data
    BY <1>5, <1>10, <2>1, MountedOK DEF Inv, OwnOK
  <2>3. SettledOn(cache', Reads(p), own')
    BY <1>5, <2>2 DEF SettledOn
  <2>4. CallsOK(call', version, x)
    <3>1. /\ DOMAIN call' = Calls
          /\ \A j \in Calls : call'[j] = [rest[j] EXCEPT !.here = FALSE]
      BY <1>10
    <3>2. \A j \in Calls : IsCall(rest[j]) /\ GoesOn(call[j], rest[j])
      BY <1>3, <1>4, <1>6 DEF GoesOn
    <3>3. \A j \in Calls : GoesOn(call[j], call'[j])
      BY <3>1, <3>2 DEF GoesOn, IsCall, NoCall
    <3>4. call'[k].step \notin {"sent", "applied"}
      BY <1>4, <1>6, <3>1, <3>2 DEF IsCall
    <3> QED
      BY <1>8, <3>1, <3>3, <3>4
  <2>5. CallsOK(call', version, cache')
    <3>1. DOMAIN cache' = DOMAIN x
      BY <1>5, <2>2 DEF CacheOK
    <3> QED
      BY <2>2, <2>4, <3>1, EmptyIsOK, CallsKept DEF HasData
  <2>6. TrialKnown(page', recent', cache', own')
    BY <1>1, <1>10 DEF TrialKnown
  <2> QED
    BY <1>1, <1>5, <1>10, <2>1, <2>2, <2>3, <2>5, <2>6, InvNext DEF Inv, RolesOK
<1> QED
  BY <1>2, <1>9, <1>10

-------------------------------------------------------------------------------
(* Next.                                                                   *)

LEMMA InvStep == Inv /\ [Next]_vars => Inv'
<1> SUFFICES ASSUME Inv, [Next]_vars PROVE Inv'
  OBVIOUS
<1>1. CASE UNCHANGED vars
  BY <1>1, InvNext DEF vars, acked, Inv, RolesOK, OnPage
<1>2. ASSUME NEW p \in DOMAIN Routes[who], Navigate(p) \/ OpenDetail(p)
      PROVE  Inv'
  BY <1>2, NavigateInv, OpenDetailInv
<1>3. CASE CloseDrawer \/ Focus \/ PollBell \/ PollDocument \/ WorkerSettles
  BY <1>3, CloseDrawerInv, FocusInv, PollInv, WorkerSettlesInv
<1>4. ASSUME NEW k \in Calls, Apply(k) \/ Ack(k) \/ LoseAnswer(k)
      PROVE  Inv'
  BY <1>4, ApplyInv, AckInv, LoseAnswerInv
<1>5. ASSUME NEW k \in Calls, NEW m \in DOMAIN Mutations, Submit(k, m)
      PROVE  Inv'
  BY <1>5, SubmitInv
<1>6. ASSUME NEW f \in Facts, Elsewhere(f)
      PROVE  Inv'
  BY <1>6, ElsewhereInv
<1>7. ASSUME NEW q \in Queries, Deliver(q) \/ DeliverError(q)
      PROVE  Inv'
  BY <1>7, DeliverInv, DeliverErrorInv
<1> QED
  BY <1>1, <1>2, <1>3, <1>4, <1>5, <1>6, <1>7 DEF Next

LEMMA InvAlways == Spec => []Inv
  BY InitInv, InvStep, PTL DEF Spec

\* Useful on the pages: a query that is shown on the page is one of the cache.
LEMMA OnPageIs == Inv => OnPage \subseteq DOMAIN cache
  BY ReadsIs DEF Inv, RolesOK, CacheOK, OnPage

LEMMA InvShows == Inv => OwnChangesAreShown
<1> SUFFICES ASSUME Inv, AtRest, NEW m \in Acked, NEW q \in OnPage, ShownInTime(q),
                    <<m, q>> \notin LeftBehind, Changes(m) \in Shows[q]
             PROVE  cache[q].data[Changes(m)] >= own[m]
  BY DEF OwnChangesAreShown, Knows
<1>1. m \in DOMAIN Mutations /\ own[m] \in Nat /\ own[m] <= version[Changes(m)] /\ m \in OfferedTo(who)
  BY DEF Acked, Inv, OwnOK, OwnDated
<1>2. q \in DOMAIN cache /\ q \in Queries /\ EntryOK(q, cache[q], version)
  BY OnPageIs, ReadFacts DEF Inv, CacheOK
<1>3. HasData(cache[q]) /\ ~cache[q].error /\ ~InFlight(cache[q]) /\ ~cache[q].behind
  BY DEF AtRest, ShownInTime, Shown
<1>4. CASE q \notin {"document", "result"}
  <2>1. Settled(q, cache[q], own)
    BY <1>2, <1>4 DEF Inv, SettledOn
  <2>2. own[m] <= cache[q].data[Changes(m)]
    BY <1>1, <1>3, <2>1 DEF Settled, Inv, OwnOK, OwnDated
  <2>3. cache[q].data[Changes(m)] \in Nat
    BY <1>2, <1>3, <1>4 DEF EntryOK, Dated
  <2> QED
    BY <1>1, <2>2, <2>3

<1>5. CASE q = "document"
  <2>1. Changes(m) = "sample" /\ m = "uploadSample"
    <3>1. Changes(m) \in {"sample", "processing"}
      BY <1>2, <1>5, ShowsListed DEF Listed, Showing, Queries
    <3> QED
      BY <1>1, <3>1, MutationRows DEF Row
  <2>2. Shown("manuscript") /\ ~cache["manuscript"].behind
    BY <1>5 DEF ShownInTime
  <2>3. "manuscript" \in DOMAIN cache /\ HasData(cache["manuscript"]) /\ ~cache["manuscript"].error
        /\ ~InFlight(cache["manuscript"]) /\ "manuscript" \in OnPage
    BY <2>2, OnPageIs DEF Shown, AtRest
  <2>4. Settled("manuscript", cache["manuscript"], own)
    BY <2>3 DEF Inv, SettledOn
  <2>5. <<"uploadSample", "manuscript">> \notin LeftBehind
    BY DEF LeftBehind
  <2>6. own[m] <= cache["manuscript"].data["sample"]
    BY <1>1, <2>1, <2>2, <2>3, <2>4, <2>5, ManuscriptShows DEF Settled, Inv, OwnOK, OwnDated
  <2>7. cache["document"].data["sample"] = cache["manuscript"].data["sample"]
    BY <1>2, <1>3, <1>5, <2>3 DEF Inv, DocOK, SampleShown
  <2>8. cache["manuscript"].data["sample"] \in Nat
    BY <2>3, ManuscriptShows DEF Inv, CacheOK, EntryOK, Dated
  <2> QED
    BY <1>1, <1>5, <2>1, <2>6, <2>7, <2>8
<1>6. q # "result"
  <2> SUFFICES ASSUME q = "result" PROVE FALSE
    OBVIOUS
  <2>1. Changes(m) = "intro"
    BY <1>2, ShowsListed DEF Listed, Showing, Queries
  <2>2. m \in {"createIntro", "transitionIntro"}
    BY <1>1, <2>1, MutationRows DEF Row
  <2> QED
    BY <2>2 DEF LeftBehind
<1> QED
  BY <1>4, <1>5, <1>6

\* What the page shows when nothing is under way knows the user's own changes.
THEOREM OwnChangesShownCorrect == Spec => []OwnChangesAreShown
  BY InvAlways, InvShows, PTL

-------------------------------------------------------------------------------
(* A refetch does not take back what was shown.                            *)

\* The queries of which only a change of the bill, an upload or an introduction can be known.
LEMMA OfBilling ==
  ASSUME Inv, NEW m \in DOMAIN Page.offers, NEW q \in OnPage, q \in {"subscription", "usage"},
         Changes(m) \in Shows[q]
  PROVE  m = "startTrial" /\ page = "billing"
<1>1. q \in DOMAIN Routes[who][page].reads /\ m \in DOMAIN Routes[who][page].offers
  BY DEF Inv, RolesOK, OnPage, Reads, PageReads, Page
<1>2. m \in {"openNotice", "startTrial"} /\ m \in DOMAIN Mutations /\ (m = "startTrial" => page = "billing")
  BY <1>1, PageFacts DEF Inv, RolesOK, FitOffer
<1>3. Changes(m) \in {"billing", "sample", "intro"}
  BY QueryNames, ShowsListed DEF Listed, Showing, Queries
<1> QED
  BY <1>2, <1>3, MutationRows DEF Row

\* Only these steps change the data of a query while the page stays.
LEMMA DataChanges ==
  ASSUME Inv, Next, page' = page, NEW q \in DOMAIN cache
  PROVE  \/ cache'[q].data = cache[q].data
         \/ \E p \in Queries : Deliver(p)
         \/ \E k \in Calls : Ack(k)
<1>1. \A qs : /\ q \in DOMAIN Asked(cache, qs, FALSE)
              /\ Asked(cache, qs, FALSE)[q].data = cache[q].data
  BY DEF Asked, Inv, CacheOK, EntryOK, IsEntry
<1>2. ASSUME NEW p \in DOMAIN Routes[who], Navigate(p) \/ OpenDetail(p)
      PROVE  cache'[q].data = cache[q].data
  BY <1>1, <1>2 DEF Navigate, Open, OpenDetail
<1>3. CASE CloseDrawer \/ Focus \/ PollBell \/ PollDocument \/ WorkerSettles
  BY <1>1, <1>3 DEF CloseDrawer, Focus, PollBell, PollDocument, Poll, WorkerSettles
<1>4. ASSUME NEW k \in Calls, Apply(k) \/ LoseAnswer(k)
      PROVE  cache'[q].data = cache[q].data
  BY <1>4 DEF Apply, LoseAnswer
<1>5. ASSUME NEW k \in Calls, NEW m \in DOMAIN Mutations, Submit(k, m)
      PROVE  cache'[q].data = cache[q].data
  BY <1>5 DEF Submit
<1>6. ASSUME NEW f \in Facts, Elsewhere(f)
      PROVE  cache'[q].data = cache[q].data
  BY <1>6 DEF Elsewhere
<1>7. ASSUME NEW p, DeliverError(p)
      PROVE  cache'[q].data = cache[q].data
  <2>1. IsEntry(cache[q])
    BY DEF Inv, CacheOK, EntryOK
  <2> QED
    BY <1>7, <2>1 DEF DeliverError, IsEntry
<1> QED
  BY <1>2, <1>3, <1>4, <1>5, <1>6, <1>7 DEF Next

\* The document that is shown after as before a step is one of the same sample.
LEMMA SameDocument ==
  ASSUME Inv, Inv', "document" \in DOMAIN cache, DOMAIN cache' = DOMAIN cache,
         HasData(cache["document"]), HasData(cache'["document"]),
         SampleShown(cache') = SampleShown(cache)
  PROVE  cache'["document"].data["sample"] = cache["document"].data["sample"]
<1>1. DocOK(cache) /\ DocOK(cache')
  BY DEF Inv
<1> QED
  BY <1>1 DEF DocOK

\* What is delivered to a query of the page does not un-show the change m.
LEMMA DeliverKnows ==
  ASSUME Inv, NEW p, Deliver(p), NEW m \in recent \cap DOMAIN Page.offers,
         NEW q \in OnPage \ {"manuscript", "document"}, HasData(cache[q]),
         Changes(m) \in Shows[q], cache[q].data[Changes(m)] >= own[m]
  PROVE  cache'[q].data[Changes(m)] >= own[m]
<1>1. q \in DOMAIN cache /\ EntryOK(q, cache[q], version)
  BY OnPageIs DEF Inv, CacheOK
<1>2. \/ cache'[q].data = cache[q].data
      \/ InFlight(cache[q]) /\ cache'[q].data = cache[q].answer
  BY <1>1, DeliverInv
<1>3. m \in DOMAIN Mutations /\ own[m] \in Nat
  BY PageFacts DEF Inv, RolesOK, Page, FitOffer, OwnOK, OwnDated
<1>4. CASE InFlight(cache[q]) /\ cache'[q].data = cache[q].answer
  <2>1. /\ cache[q].data[Changes(m)] \in Nat /\ cache[q].answer[Changes(m)] \in Nat
        /\ q \notin {"subscription", "usage"} =>
              cache[q].data[Changes(m)] <= cache[q].answer[Changes(m)]
    BY <1>1, <1>4 DEF EntryOK, Dated
  <2>2. CASE q \in {"subscription", "usage"}
    <3>1. m = "startTrial" /\ page = "billing"
      BY <2>2, OfBilling
    <3>2. own[m] <= cache[q].answer[Changes(m)]
      BY <1>1, <1>4, <2>2, <3>1 DEF Inv, TrialKnown
    <3> QED
      BY <1>3, <1>4, <2>1, <3>2
  <2> QED
    BY <1>3, <1>4, <2>1, <2>2
<1> QED
  BY <1>2, <1>4

\* Nor does what another mutation writes.
LEMMA AckKnows ==
  ASSUME Inv, Inv', NEW k \in Calls, Ack(k), page' = page,
         NEW m \in DOMAIN Page.offers, m \notin UnderWay,
         NEW q \in OnPage \ {"manuscript"}, HasData(cache[q]), HasData(cache'[q]),
         Changes(m) \in Shows[q], cache[q].data[Changes(m)] >= own[m],
         q = "document" => Changes(m) = "sample"
  PROVE  cache'[q].data[Changes(m)] >= own[m]
<1> DEFINE n == call[k].mutation
           reply == call[k].reply
           at == reply[Changes(n)]
<1>1. /\ call[k].step = "applied" /\ own' = Newest(n, at)
      /\ cache' = Marked(Acknowledged(n, reply, call[k].here), own')
  BY DEF Ack, Newest
<1>2. /\ \A r \in DOMAIN cache \ {"document"} :
            \/ cache'[r].data = cache[r].data
            \/ /\ r \in Mutations[n].writes
               /\ \A f \in Shows[r] : cache'[r].data[f] = reply[f]
               /\ r = "result" => call[k].here
      /\ "document" \in DOMAIN cache /\ HasData(cache'["document"]) =>
            SampleShown(cache') = SampleShown(cache)
      /\ CacheOK(cache', version)
  <2>1. OnlyWrites(n, reply, call[k].here, cache') /\ CacheOK(cache', version)
    BY <1>1, AckCacheOK
  <2> QED
    BY <2>1 DEF OnlyWrites
<1>3. /\ n \in DOMAIN Mutations /\ Row(n) /\ Changes(n) \in Replies(n)
      /\ \A f \in Replies(n) : reply[f] \in Nat
  BY <1>1, OfferedFacts DEF Inv, CallsOK, CallsTyped
<1>4. n # m
  BY DEF UnderWay
<1>5. q \in DOMAIN cache /\ DOMAIN cache' = DOMAIN cache /\ EntryOK(q, cache[q], version)
  BY <1>2, OnPageIs DEF Inv, CacheOK
<1>6. CASE q = "document"
  BY <1>2, <1>5, <1>6, SameDocument
<1>7. CASE q # "document" /\ cache'[q].data # cache[q].data
  <2>1. /\ q \in Mutations[n].writes /\ cache'[q].data[Changes(m)] = reply[Changes(m)]
        /\ q = "result" => call[k].here
    BY <1>2, <1>5, <1>7
  <2>2. q \in {"subscription", "usage", "result"}
    BY <1>3, <2>1 DEF Row
  <2>3. q = "result"
    <3> SUFFICES ASSUME q \in {"subscription", "usage"} PROVE FALSE
      BY <2>2
    <3>1. n = "startTrial"
      BY <1>3, <2>1 DEF Row
    <3> QED
      BY <1>4, <3>1, OfBilling
  <2>4. cache[q].data[Changes(m)] <= reply[Changes(m)]
    <3>1. n = "runMatch"
      BY <1>3, <2>1, <2>3 DEF Row
    <3> QED
      BY <1>1, <1>5, <2>1, <2>3, <3>1 DEF Inv, CallsOK, RunsOnce
  <2>5. cache[q].data[Changes(m)] \in Nat /\ reply[Changes(m)] \in Nat /\ own[m] \in Nat
    <3>1. Changes(m) \in Replies(n)
      BY <2>1 DEF Replies
    <3>2. m \in DOMAIN Mutations
      BY PageFacts DEF Inv, RolesOK, Page, FitOffer
    <3> QED
      BY <1>3, <1>5, <2>3, <3>1, <3>2 DEF EntryOK, Dated, Inv, OwnOK, OwnDated
  <2> QED
    BY <2>1, <2>4, <2>5
<1> QED
  BY <1>6, <1>7

LEMMA StayStep ==
  ASSUME Inv, Inv', [Next]_vars, page' = page,
         NEW m \in (recent \cap DOMAIN Page.offers) \ UnderWay, NEW q \in OnPage \ {"manuscript"},
         Shown(q), HasData(cache'[q]), Knows(cache[q], q, m)
  PROVE  Knows(cache'[q], q, m)
<1> SUFFICES ASSUME Changes(m) \in Shows[q], cache[q].data[Changes(m)] >= own[m]
             PROVE  cache'[q].data[Changes(m)] >= own[m]
  BY DEF Knows
<1>1. q \in DOMAIN cache /\ q \in Queries /\ HasData(cache[q])
  BY OnPageIs, ReadFacts DEF Inv, CacheOK, Shown
<1>2. m \in DOMAIN Mutations
  BY PageFacts DEF Inv, RolesOK, Page, FitOffer
<1>3. q = "document" => Changes(m) = "sample"
  BY <1>1, <1>2, ShowsListed, MutationRows DEF Listed, Showing, Queries, Row
<1>4. CASE cache'[q].data = cache[q].data
  BY <1>4
<1>5. ASSUME NEW p, Deliver(p)
      PROVE  cache'[q].data[Changes(m)] >= own[m]
  <2>1. CASE q = "document"
    <3>1. DOMAIN cache' = DOMAIN cache /\ SampleShown(cache') = SampleShown(cache)
      BY <1>1, <1>5, <2>1, DeliverInv
    <3> QED
      BY <1>1, <1>3, <2>1, <3>1, SameDocument
  <2> QED
    BY <1>1, <1>5, <2>1, DeliverKnows
<1>6. ASSUME NEW k \in Calls, Ack(k)
      PROVE  cache'[q].data[Changes(m)] >= own[m]
  BY <1>1, <1>3, <1>6, AckKnows
<1> QED
  BY <1>1, <1>4, <1>5, <1>6, DataChanges DEF vars

\* While a page stays, a refetch does not take back a change of the user's own that it shows.
THEOREM OwnChangesStayShownCorrect == Spec => OwnChangesStayShown
<1>1. Inv /\ Inv' /\ [Next]_vars =>
          [page' = page =>
              \A m \in (recent \cap DOMAIN Page.offers) \ UnderWay, q \in OnPage \ {"manuscript"} :
                  Shown(q) /\ HasData(cache'[q]) /\ Knows(cache[q], q, m) => Knows(cache'[q], q, m)]_vars
  BY StayStep
<1> QED
  BY <1>1, InvAlways, PTL DEF Spec, OwnChangesStayShown
=============================================================================
