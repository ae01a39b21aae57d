---------------------------- MODULE WebEntry_proofs ----------------------------
(***************************************************************************)
(* Theorems about WebEntry, for any users, tabs and handlers: what a page  *)
(* or a handler acts on is what the server told the user whom it was asked *)
(* for, so that the wizard is not shown to staff and a member's draft is   *)
(* not lost.                                                               *)
(***************************************************************************)
EXTENDS WebEntry, TLAPS

USE WebAssumption, OpensAssumption

-----------------------------------------------------------------------------
\* The inductive invariant

Tab == [route : Routes, ready : BOOLEAN, auth : Sessions, due : SUBSET Keys,
        mfa : {"loading", "verify", "error"}, effect : BOOLEAN, landing : BOOLEAN]

Query == [data : Replies \cup {"unknown"}, from : Users \cup {NoUser}, error : BOOLEAN,
          fresh : BOOLEAN, call : Replies \cup {"idle"}, asker : Users \cup {NoUser}]

Kinds == {"none", "login", "adminLogin", "adminEffect", "signup", "callback", "reset", "mfa"}

Flow == [kind : Kinds,
         at : {"idle", "access", "resolve", "me", "create", "signOut", "refetch"},
         tab : Tabs, token : Sessions, reply : Replies \cup {"none"}]

WebTypeOK ==
    /\ account \in [Users -> {"none", "unconfirmed", "confirmed"}]
    /\ profiles \in SUBSET Users
    /\ session \in Sessions
    /\ draft \in Users \cup {NoUser}
    /\ tab \in [Tabs -> Tab]
    /\ query \in [Keys -> [Tabs -> [Users \cup {NoUser} -> Query]]]
    /\ flow \in [Handlers -> Flow]
    /\ acts \in Nat /\ faults \in Nat

\* The server can have answered d to a request of user u: members and staff are told apart, and
\* a profile that was found or created is there from then on.
Told(at, u, d) ==
    /\ u \in Users
    /\ CASE at \in {"access", "resolve"} ->
                d \in AccessStatus /\ (d = "no_access" <=> Membership[u] = "none")
         [] at \in {"profile", "me"} -> d \in {"found", "missing"} /\ (d = "found" => u \in profiles)
         [] at = "create" -> d \in {"created", "exists"} /\ u \in profiles
         [] OTHER -> FALSE

\* A handler goes on with what its own user was told, and only three kinds resolve a route.
FlowTold(f) ==
    /\ f.reply \notin {"none", "error"} => Told(f.at, f.token.user, f.reply)
    /\ f.at = "resolve" => f.kind \in {"reset", "callback", "login"}

\* A query holds what somebody was told, and is about to be told.
QueryTold(k, q) ==
    /\ q.data # "unknown" => Told(k, q.from, q.data)
    /\ q.call \notin {"idle", "error"} => Told(k, q.asker, q.call)

FlowsTold == \A h \in Handlers : FlowTold(flow[h])

EntryInvariant ==
    /\ WebTypeOK /\ FlowsTold
    /\ \A k \in Keys : \A t \in Tabs : \A u \in Users \cup {NoUser} : QueryTold(k, query[k][t][u])

-----------------------------------------------------------------------------
\* What the operators of the cache and of the handlers return

LEMMA Sorts ==
  /\ NoSession \in Sessions /\ NoSession.user = NoUser
  /\ \A s \in Sessions : s.user \in Users \cup {NoUser} /\ (s.user = NoUser => s = NoSession)
  /\ \A u \in Users : [user |-> u, aal |-> 1] \in Sessions
  /\ \A s \in Sessions : s # NoSession => [s EXCEPT !.aal = 2] \in Sessions
  BY DEF NoSession, Sessions

LEMMA TabFacts ==
  ASSUME tab \in [Tabs -> Tab], NEW t \in Tabs, NEW s \in Sessions
  PROVE  /\ tab[t].auth \in Sessions
         /\ Heard(t, s) \in Tab
         /\ \A r \in Routes : Mounted(t, r, s) \in Tab /\ Navigate(t, r) \in Tab /\ Loaded(r) \in Tab
<1>1. tab[t] \in Tab /\ tab[t].auth \in Sessions /\ tab[t].landing \in BOOLEAN
  BY DEF Tab
<1>2. \A z \in Sessions : DueFor(t, z) \subseteq Keys
  BY DEF DueFor
<1>3. \A r : HasEffect(r) \in BOOLEAN
  BY DEF HasEffect
<1>4. \A z \in Sessions : Heard(t, z) \in Tab
  BY <1>1, <1>2, <1>3 DEF Heard, Tab
<1>5. \A r \in Routes : \A z \in Sessions : Mounted(t, r, z) \in Tab
  BY <1>1, <1>2, <1>3 DEF Mounted, Tab
<1>6. \A r \in Routes : Navigate(t, r) \in Tab
  BY <1>1, <1>5 DEF Navigate
<1>7. \A r \in Routes : Loaded(r) \in Tab
  BY <1>3, Sorts DEF Loaded, Tab
<1> QED
  BY <1>1, <1>4, <1>5, <1>6, <1>7

\* A change of the tab t alone.
LEMMA OneTab ==
  ASSUME tab \in [Tabs -> Tab], NEW t \in Tabs, NEW e \in Tab
  PROVE  [tab EXCEPT ![t] = e] \in [Tabs -> Tab]
  OBVIOUS

LEMMA AnswersTell ==
  ASSUME WebTypeOK, NEW s \in Sessions
  PROVE  /\ \A k \in Keys : ReplyOf(k, s) # "error" => Told(k, s.user, ReplyOf(k, s))
         /\ \A k \in Keys : ReplyOf(k, s) \in Replies
         /\ AccessOf(s) # "error" => Told("resolve", s.user, AccessOf(s))
         /\ ProfileOf(s) # "error" => Told("me", s.user, ProfileOf(s))
         /\ AccessOf(s) \in Replies /\ ProfileOf(s) \in Replies /\ CreateOf(s) \in Replies
<1>1. s.user \in Users \cup {NoUser} /\ s.aal \in {1, 2}
  BY DEF Sessions, NoSession
<1>2. AccessOf(s) \in AccessStatus \cup {"error"}
  BY <1>1 DEF AccessOf, AccessStatus
<1>3. AccessOf(s) # "error" => s.user \in Users /\ (AccessOf(s) = "no_access" <=> Membership[s.user] = "none")
  BY <1>1 DEF AccessOf
<1>4. ProfileOf(s) # "error" => s.user \in Users /\ (ProfileOf(s) = "found" <=> s.user \in profiles)
  BY <1>1 DEF ProfileOf
<1>5. ProfileOf(s) \in {"found", "missing", "error"}
  BY DEF ProfileOf
<1>6. CreateOf(s) \in {"created", "exists", "error"}
  BY DEF CreateOf
<1>7. AccessOf(s) # "error" => Told("access", s.user, AccessOf(s)) /\ Told("resolve", s.user, AccessOf(s))
  BY <1>2, <1>3 DEF Told
<1>8. ProfileOf(s) # "error" => Told("profile", s.user, ProfileOf(s)) /\ Told("me", s.user, ProfileOf(s))
  BY <1>4, <1>5 DEF Told
<1> QED
  BY <1>2, <1>5, <1>6, <1>7, <1>8 DEF ReplyOf, Keys, Replies

\* What was told stays true: profiles are only added.
LEMMA ToldStays ==
  ASSUME profiles \subseteq profiles', NEW at, NEW u, NEW d, Told(at, u, d)
  PROVE  Told(at, u, d)'
  BY DEF Told

LEMMA CallsIsFlow ==
  ASSUME NEW t \in Tabs, NEW kind \in Kinds, NEW s \in Sessions,
         NEW at \in {"access", "resolve", "me", "create", "signOut", "refetch"},
         at = "resolve" => kind \in {"reset", "callback", "login"}
  PROVE  Calls(t, kind, at, s) \in Flow /\ FlowTold(Calls(t, kind, at, s))
  BY DEF Calls, Flow, FlowTold

LEMMA NoFlowIsFlow == NoFlow \in Flow /\ FlowTold(NoFlow)
<1>1. (CHOOSE t \in Tabs : TRUE) \in Tabs
  OBVIOUS
<1> QED
  BY <1>1, Sorts DEF NoFlow, Flow, FlowTold, Kinds

LEMMA EmptyIsQuery == EmptyQuery \in Query /\ \A k : QueryTold(k, EmptyQuery)
  BY DEF EmptyQuery, Query, QueryTold

LEMMA AskTells ==
  ASSUME WebTypeOK, NEW q \in Query, NEW k \in Keys, QueryTold(k, q), NEW s \in Sessions,
         NEW reply \in {ReplyOf(k, s), "error"}
  PROVE  Ask(q, s, reply) \in Query /\ QueryTold(k, Ask(q, s, reply))
<1>1. reply \in Replies /\ (reply # "error" => Told(k, s.user, reply)) /\ s.user \in Users \cup {NoUser}
  BY AnswersTell, Sorts DEF Replies
<1>2. Ask(q, s, reply) \in Query
  BY <1>1 DEF Ask, Query
<1>3. /\ Ask(q, s, reply).data = q.data /\ Ask(q, s, reply).from = q.from
      /\ Ask(q, s, reply).call = reply /\ Ask(q, s, reply).asker = s.user
  BY DEF Ask, Query
<1> QED
  BY <1>1, <1>2, <1>3 DEF QueryTold

LEMMA DeliverTells ==
  ASSUME NEW q \in Query, NEW k \in Keys, QueryTold(k, q), q.call # "idle"
  PROVE  Deliver(q) \in Query /\ QueryTold(k, Deliver(q))
<1>1. CASE q.call = "error"
  BY <1>1 DEF Deliver, Query, QueryTold
<1>2. CASE q.call # "error"
  <2>1. Deliver(q) = [data |-> q.call, from |-> q.asker, error |-> FALSE, fresh |-> TRUE,
                      call |-> "idle", asker |-> NoUser]
    BY <1>2 DEF Deliver, EmptyQuery
  <2>2. q.call \in Replies /\ q.asker \in Users \cup {NoUser} /\ Told(k, q.asker, q.call)
    BY <1>2 DEF Query, QueryTold
  <2> QED
    BY <2>1, <2>2 DEF Query, QueryTold
<1> QED
  BY <1>1, <1>2

-----------------------------------------------------------------------------
\* What a step does to the flows, the queries and the tabs

FlowsKeep == flow' \in [Handlers -> Flow] /\ \A h \in Handlers : FlowTold(flow'[h])

\* A handler is told of the profile that the same step creates.
FlowsServed == flow' \in [Handlers -> Flow] /\ FlowsTold'

QueriesKeep ==
    /\ query' \in [Keys -> [Tabs -> [Users \cup {NoUser} -> Query]]]
    /\ \A k \in Keys : \A t \in Tabs : \A u \in Users \cup {NoUser} : QueryTold(k, query'[k][t][u])

TabsKeep == tab' \in [Tabs -> Tab]
CountsKeep == acts' \in Nat /\ faults' \in Nat

ServerKeeps ==
    /\ account' \in [Users -> {"none", "unconfirmed", "confirmed"}]
    /\ profiles' \in SUBSET Users /\ profiles \subseteq profiles'

BrowserKeeps == session' \in Sessions /\ draft' \in Users \cup {NoUser}

LEMMA StepKeeps ==
  ASSUME ServerKeeps, BrowserKeeps, TabsKeep, QueriesKeep, FlowsKeep \/ FlowsServed, CountsKeep
  PROVE  EntryInvariant'
<1>1. WebTypeOK'
  BY DEF ServerKeeps, BrowserKeeps, TabsKeep, QueriesKeep, FlowsKeep, FlowsServed, CountsKeep,
         WebTypeOK
<1>2. ASSUME NEW h \in Handlers, FlowsKeep
      PROVE  FlowTold(flow[h])'
  <2>1. PICK f : f = flow'[h]
    OBVIOUS
  <2>2. FlowTold(f)
    BY <1>2, <2>1 DEF FlowsKeep
  <2>3. f.reply \notin {"none", "error"} => Told(f.at, f.token.user, f.reply)'
    BY <2>2, ToldStays DEF FlowTold, ServerKeeps
  <2> QED
    BY <2>1, <2>2, <2>3 DEF FlowTold, Told
<1>3. ASSUME NEW k \in Keys, NEW t \in Tabs, NEW u \in Users \cup {NoUser}
      PROVE  QueryTold(k, query[k][t][u])'
  <2>1. PICK q : q = query'[k][t][u]
    OBVIOUS
  <2>2. QueryTold(k, q)
    BY <2>1 DEF QueriesKeep
  <2>3. /\ q.data # "unknown" => Told(k, q.from, q.data)'
        /\ q.call \notin {"idle", "error"} => Told(k, q.asker, q.call)'
    BY <2>2, ToldStays DEF QueryTold, ServerKeeps
  <2> QED
    BY <2>1, <2>3 DEF QueryTold, Told
<1>4. FlowsTold'
  BY <1>2 DEF FlowsTold, FlowsServed
<1> QED
  BY <1>1, <1>3, <1>4 DEF EntryInvariant

LEMMA CountsStep ==
  ASSUME WebTypeOK, Act \/ (Fault /\ (UNCHANGED acts)) \/ NoAct
  PROVE  CountsKeep
  BY DEF WebTypeOK, Act, Fault, NoAct, CountsKeep

LEMMA SameFlows ==
  ASSUME EntryInvariant, UNCHANGED flow
  PROVE  FlowsKeep
  BY DEF EntryInvariant, WebTypeOK, FlowsTold, FlowsKeep

LEMMA OneFlow ==
  ASSUME EntryInvariant, NEW h, NEW f \in Flow, FlowTold(f), flow' = [flow EXCEPT ![h] = f]
  PROVE  FlowsKeep
<1>1. flow \in [Handlers -> Flow] /\ \A g \in Handlers : FlowTold(flow[g])
  BY DEF EntryInvariant, WebTypeOK, FlowsTold
<1>2. flow' \in [Handlers -> Flow]
  BY <1>1
<1>3. \A g \in Handlers : flow'[g] = flow[g] \/ flow'[g] = f
  BY <1>1
<1> QED
  BY <1>1, <1>2, <1>3 DEF FlowsKeep

LEMMA DoneKeeps ==
  ASSUME EntryInvariant, NEW h, flow' = Done(h)
  PROVE  FlowsKeep
  BY OneFlow, NoFlowIsFlow DEF Done

LEMMA CallsKeep ==
  ASSUME EntryInvariant, NEW h, NEW t \in Tabs, NEW kind \in Kinds, NEW s \in Sessions,
         NEW at \in {"access", "resolve", "me", "create", "signOut", "refetch"},
         at = "resolve" => kind \in {"reset", "callback", "login"},
         flow' = [flow EXCEPT ![h] = Calls(t, kind, at, s)]
  PROVE  FlowsKeep
  BY OneFlow, CallsIsFlow

LEMMA ProceedKeeps ==
  ASSUME EntryInvariant, NEW h \in Handlers,
         NEW at \in {"access", "resolve", "me", "create", "signOut", "refetch"},
         at = "resolve" => flow[h].kind \in {"reset", "callback", "login"},
         flow' = Proceed(h, at)
  PROVE  FlowsKeep
<1>1. flow[h].tab \in Tabs /\ flow[h].kind \in Kinds /\ session \in Sessions
  BY DEF EntryInvariant, WebTypeOK, Flow
<1> QED
  BY <1>1, CallsKeep DEF Proceed

LEMMA SameQueries ==
  ASSUME EntryInvariant, UNCHANGED query
  PROVE  QueriesKeep
  BY DEF EntryInvariant, WebTypeOK, QueriesKeep

LEMMA OneQuery ==
  ASSUME EntryInvariant, NEW k \in Keys, NEW t \in Tabs, NEW u \in Users \cup {NoUser},
         NEW e \in Query, QueryTold(k, e), query' = [query EXCEPT ![k][t][u] = e]
  PROVE  QueriesKeep
<1>1. /\ query \in [Keys -> [Tabs -> [Users \cup {NoUser} -> Query]]]
      /\ \A j \in Keys : \A s \in Tabs : \A v \in Users \cup {NoUser} : QueryTold(j, query[j][s][v])
  BY DEF EntryInvariant, WebTypeOK
<1>2. query' \in [Keys -> [Tabs -> [Users \cup {NoUser} -> Query]]]
  BY <1>1
<1>3. \A j \in Keys : \A s \in Tabs : \A v \in Users \cup {NoUser} :
         query'[j][s][v] = query[j][s][v] \/ (j = k /\ query'[j][s][v] = e)
  BY <1>1
<1>4. ASSUME NEW j \in Keys, NEW s \in Tabs, NEW v \in Users \cup {NoUser}
      PROVE  QueryTold(j, query'[j][s][v])
  <2>1. CASE query'[j][s][v] = query[j][s][v]
    BY <1>1, <2>1
  <2>2. CASE j = k /\ query'[j][s][v] = e
    BY <2>2
  <2> QED
    BY <1>3, <2>1, <2>2
<1> QED
  BY <1>2, <1>4 DEF QueriesKeep

LEMMA SameTabs ==
  ASSUME EntryInvariant, UNCHANGED tab
  PROVE  TabsKeep
  BY DEF EntryInvariant, WebTypeOK, TabsKeep

LEMMA NavigateKeeps ==
  ASSUME EntryInvariant, NEW t \in Tabs, NEW r \in Routes,
         tab' = [tab EXCEPT ![t] = Navigate(t, r)]
  PROVE  TabsKeep
  BY TabFacts, Sorts, OneTab DEF EntryInvariant, WebTypeOK, TabsKeep

LEMMA MountedKeeps ==
  ASSUME EntryInvariant, NEW t \in Tabs, NEW r \in Routes, NEW s \in Sessions,
         tab' = [tab EXCEPT ![t] = Mounted(t, r, s)]
  PROVE  TabsKeep
  BY TabFacts, OneTab DEF EntryInvariant, WebTypeOK, TabsKeep

LEMMA HeardKeeps ==
  ASSUME EntryInvariant, NEW t \in Tabs, NEW s \in Sessions,
         tab' = [tab EXCEPT ![t] = Heard(t, s)]
  PROVE  TabsKeep
  BY TabFacts, OneTab DEF EntryInvariant, WebTypeOK, TabsKeep

LEMMA ReloadKeeps ==
  ASSUME EntryInvariant, NEW t \in Tabs, NEW r \in Routes, Reload(t, r)
  PROVE  TabsKeep /\ QueriesKeep /\ FlowsKeep
<1>1. TabsKeep
  BY TabFacts, Sorts, OneTab DEF EntryInvariant, WebTypeOK, TabsKeep, Reload
<1>2. /\ query \in [Keys -> [Tabs -> [Users \cup {NoUser} -> Query]]]
      /\ \A j \in Keys : \A s \in Tabs : \A v \in Users \cup {NoUser} : QueryTold(j, query[j][s][v])
      /\ query' = [k \in Keys |-> [query[k] EXCEPT ![t] = EmptyCache]]
  BY DEF EntryInvariant, WebTypeOK, Reload
<1>3. EmptyCache \in [Users \cup {NoUser} -> Query]
  BY EmptyIsQuery DEF EmptyCache
<1>4. query' \in [Keys -> [Tabs -> [Users \cup {NoUser} -> Query]]]
  BY <1>2, <1>3
<1>5. \A j \in Keys : \A s \in Tabs : \A v \in Users \cup {NoUser} :
         query'[j][s][v] = query[j][s][v] \/ query'[j][s][v] = EmptyQuery
  BY <1>2 DEF EmptyCache
<1>6. ASSUME NEW j \in Keys, NEW s \in Tabs, NEW v \in Users \cup {NoUser}
      PROVE  QueryTold(j, query'[j][s][v])
  <2>1. CASE query'[j][s][v] = query[j][s][v]
    BY <1>2, <2>1
  <2>2. CASE query'[j][s][v] = EmptyQuery
    BY <2>2, EmptyIsQuery
  <2> QED
    BY <1>5, <2>1, <2>2
<1>7. FlowsKeep
  BY NoFlowIsFlow DEF EntryInvariant, WebTypeOK, FlowsTold, Reload, FlowsKeep
<1> QED
  BY <1>1, <1>4, <1>6, <1>7 DEF QueriesKeep

-----------------------------------------------------------------------------
\* Where the pages send a tab

LEMMA GuardsGoToRoutes ==
  ASSUME NEW t \in Tabs, NEW page, page.to \in Routes
  PROVE  /\ AuthGuard(t, page).to \in Routes
         /\ AdminGuard(t, page).to \in Routes
         /\ AuthorGuard(t, page).to \in Routes
         /\ GuestGuard(t, page).to \in Routes
<1>1. \A p : Shows(p).to \in Routes
  BY DEF Shows, Routes
<1>2. \A r \in Routes : Goes(r).to \in Routes
  BY DEF Goes
<1>3. LandingRoute(HasAdminAccess(t), ProfileKnown(t)) \in Routes
  BY DEF LandingRoute, Routes
<1>4. AuthGuard(t, page).to \in Routes
  BY <1>1, <1>2 DEF AuthGuard, Routes
<1>5. AdminGuard(t, page).to \in Routes
  BY <1>1, <1>2 DEF AdminGuard, Routes
<1>6. AuthorGuard(t, page).to \in Routes
  BY <1>1, <1>2 DEF AuthorGuard, Routes
<1>7. GuestGuard(t, page).to \in Routes
  BY <1>1, <1>2, <1>3 DEF GuestGuard
<1> QED
  BY <1>4, <1>5, <1>6, <1>7

LEMMA ViewGoesToRoutes ==
  ASSUME WebTypeOK, NEW t \in Tabs
  PROVE  View(t).to \in Routes
<1>1. \A p : Shows(p).to \in Routes
  BY DEF Shows, Routes
<1>2. \A r \in Routes : Goes(r).to \in Routes
  BY DEF Goes
<1>3. HomePage(t).to \in Routes
  BY <1>1, <1>2 DEF HomePage, Routes
<1>4. SignupPage(t).to \in Routes
  BY <1>1, <1>2 DEF SignupPage, Routes
<1>5. AdminMfaPage(t).to \in Routes
  BY <1>1, <1>2 DEF AdminMfaPage, Routes
<1>6. \A p : MarketplacePage(t, p).to \in Routes
  BY <1>1, <1>2 DEF MarketplacePage, Routes
<1>7. Goes("profile").to \in Routes
  BY <1>2 DEF Routes
<1>8. tab[t].route \in Routes
  BY DEF WebTypeOK, Tab
<1>9. \A r : r \in Routes =>
         \/ r = "root" \/ r = "signup" \/ r = "adminMfa" \/ r = "admin" \/ r = "onboarding"
         \/ r = "manuscripts" \/ r \in {"login", "checkEmail"} \/ r \in {"profile", "dashboard"}
         \/ r \in {"callback", "reset", "adminLogin"}
  BY DEF Routes
<1> QED
  BY <1>1, <1>3, <1>4, <1>5, <1>6, <1>7, <1>8, <1>9, GuardsGoToRoutes DEF View

LEMMA LandingsAreRoutes == \A status : AdminLandingRoute(status) \in Routes
  BY DEF AdminLandingRoute, Routes


\* A guard shows its page, or something of its own.
LEMMA GuardsShow ==
  ASSUME NEW t \in Tabs, NEW page
  PROVE  /\ AuthGuard(t, page).show \in {"blank", "redirect"} \/ (AuthGuard(t, page) = page /\ SignedIn(t))
         /\ AdminGuard(t, page).show \in {"blank", "redirect", "accessBlocked"} \/ AdminGuard(t, page) = page
         /\ AuthorGuard(t, page).show \in {"blank", "redirect"} \/ AuthorGuard(t, page) = page
         /\ GuestGuard(t, page).show \in {"blank", "redirect"} \/ (GuestGuard(t, page) = page /\ tab[t].ready)
<1>1. \A p : Shows(p).show = p
  BY DEF Shows
<1>2. \A r : Goes(r).show = "redirect"
  BY DEF Goes
<1>3. AuthGuard(t, page).show \in {"blank", "redirect"} \/ (AuthGuard(t, page) = page /\ SignedIn(t))
  BY <1>1, <1>2 DEF AuthGuard
<1>4. AdminGuard(t, page).show \in {"blank", "redirect", "accessBlocked"} \/ AdminGuard(t, page) = page
  BY <1>1, <1>2 DEF AdminGuard
<1>5. AuthorGuard(t, page).show \in {"blank", "redirect"} \/ AuthorGuard(t, page) = page
  BY <1>1, <1>2 DEF AuthorGuard
<1>6. GuestGuard(t, page).show \in {"blank", "redirect"} \/ (GuestGuard(t, page) = page /\ tab[t].ready)
  BY <1>1, <1>2 DEF GuestGuard
<1> QED
  BY <1>3, <1>4, <1>5, <1>6

\* The form of the MFA page is shown to who is signed in; the wizard is the signup page's.
LEMMA FormsAreShown ==
  ASSUME WebTypeOK, NEW t \in Tabs
  PROVE  /\ View(t).show = "mfaForm" => SignedIn(t)
         /\ View(t).show = "wizard" => tab[t].ready /\ SignupPage(t).show = "wizard"
<1>1. \A p : Shows(p).show = p
  BY DEF Shows
<1>2. \A r : Goes(r).show = "redirect"
  BY DEF Goes
<1>3. HomePage(t).show \in {"blank", "redirect", "home"}
  BY <1>1, <1>2 DEF HomePage
<1>4. SignupPage(t).show \in {"redirect", "wait", "wizard"}
  BY <1>1, <1>2 DEF SignupPage
<1>5. AdminMfaPage(t).show \in {"blank", "redirect", "mfaForm"}
  BY <1>1, <1>2 DEF AdminMfaPage
<1>6. \A p : MarketplacePage(t, p).show \in {"redirect", "wait", "error", p}
  BY <1>1, <1>2 DEF MarketplacePage
<1>7. tab[t].route \in Routes
  BY DEF WebTypeOK, Tab
<1>8. CASE tab[t].route \in {"root", "login", "checkEmail", "callback", "reset", "adminLogin",
                             "admin", "onboarding", "manuscripts"}
  BY <1>1, <1>2, <1>3, <1>8, GuardsShow DEF View
<1>9. CASE tab[t].route = "signup"
  BY <1>4, <1>9, GuardsShow DEF View
<1>10. CASE tab[t].route = "adminMfa"
  BY <1>5, <1>10, GuardsShow DEF View
<1>11. CASE tab[t].route \in {"profile", "dashboard"}
  BY <1>6, <1>11, GuardsShow DEF View
<1> QED
  BY <1>7, <1>8, <1>9, <1>10, <1>11 DEF Routes

-----------------------------------------------------------------------------
\* Users keep the invariant

LEMMA SameServer ==
  ASSUME EntryInvariant, UNCHANGED <<account, profiles>>
  PROVE  ServerKeeps
  BY DEF EntryInvariant, WebTypeOK, ServerKeeps

LEMMA SameBrowser ==
  ASSUME EntryInvariant, UNCHANGED <<session, draft>>
  PROVE  BrowserKeeps
  BY DEF EntryInvariant, WebTypeOK, BrowserKeeps

LEMMA InvariantTypes ==
  ASSUME EntryInvariant
  PROVE  /\ WebTypeOK /\ session \in Sessions /\ draft \in Users \cup {NoUser}
         /\ \A t \in Tabs : tab[t] \in Tab /\ tab[t].auth \in Sessions /\ tab[t].route \in Routes
         /\ \A h \in Handlers : flow[h] \in Flow /\ flow[h].tab \in Tabs /\ flow[h].token \in Sessions
  BY DEF EntryInvariant, WebTypeOK, Tab, Flow

LEMMA LoadSteps ==
  ASSUME EntryInvariant, NEW t \in Tabs, Load(t)
  PROVE  EntryInvariant'
<1>1. PICK r \in Opens \cup {tab[t].route} : Reload(t, r)
  BY DEF Load
<1>2. r \in Routes
  BY InvariantTypes
<1> QED
  BY <1>1, <1>2, ReloadKeeps, SameServer, SameBrowser, CountsStep, StepKeeps, InvariantTypes DEF Load

LEMMA OpenSteps ==
  ASSUME EntryInvariant, NEW t \in Tabs, Open(t)
  PROVE  EntryInvariant'
<1>1. PICK r \in Opens : tab' = [tab EXCEPT ![t] = [Navigate(t, r) EXCEPT !.landing = FALSE]]
  BY DEF Open
<1>2. Navigate(t, r) \in Tab
  BY <1>1, TabFacts, InvariantTypes DEF WebTypeOK
<1>3. [Navigate(t, r) EXCEPT !.landing = FALSE] \in Tab
  BY <1>2 DEF Tab
<1>4. TabsKeep
  BY <1>1, <1>3, OneTab, InvariantTypes DEF WebTypeOK, TabsKeep
<1> QED
  BY <1>4, SameServer, SameBrowser, SameQueries, SameFlows, CountsStep, StepKeeps, InvariantTypes
     DEF Open

LEMMA FocusSteps ==
  ASSUME EntryInvariant, NEW t \in Tabs, Focus(t)
  PROVE  EntryInvariant'
<1>1. TabsKeep
  BY HeardKeeps, InvariantTypes DEF Focus
<1> QED
  BY <1>1, SameServer, SameBrowser, SameQueries, SameFlows, CountsStep, StepKeeps, InvariantTypes
     DEF Focus

LEMMA BeginKeeps ==
  ASSUME EntryInvariant, NEW t \in Tabs, NEW s \in Sessions, NEW h, NEW kind \in Kinds,
         NEW at \in {"access", "create"}, Begin(t, s, h, kind, at)
  PROVE  session' \in Sessions /\ TabsKeep /\ FlowsKeep
  BY HeardKeeps, CallsKeep DEF Begin

LEMMA SignInSteps ==
  ASSUME EntryInvariant, NEW t \in Tabs, NEW u \in Users, NEW h \in Handlers, SignIn(t, u, h)
  PROVE  EntryInvariant'
<1>1. [user |-> u, aal |-> 1] \in Sessions /\ "login" \in Kinds /\ "checkEmail" \in Routes
  BY Sorts DEF Kinds, Routes
<1>2. session' \in Sessions /\ TabsKeep /\ FlowsKeep
  BY <1>1, BeginKeeps, NavigateKeeps, SameFlows, InvariantTypes DEF SignIn
<1>3. BrowserKeeps
  BY <1>2, InvariantTypes DEF SignIn, BrowserKeeps
<1> QED
  BY <1>2, <1>3, SameServer, SameQueries, CountsStep, StepKeeps, InvariantTypes DEF SignIn

LEMMA StaffSignInSteps ==
  ASSUME EntryInvariant, NEW t \in Tabs, NEW u \in Users, NEW h \in Handlers, StaffSignIn(t, u, h)
  PROVE  EntryInvariant'
<1>1. [user |-> u, aal |-> 1] \in Sessions /\ "adminLogin" \in Kinds
  BY Sorts DEF Kinds
<1>2. session' \in Sessions /\ TabsKeep /\ FlowsKeep
  BY <1>1, BeginKeeps DEF StaffSignIn
<1>3. BrowserKeeps
  BY <1>2, InvariantTypes DEF StaffSignIn, BrowserKeeps
<1> QED
  BY <1>2, <1>3, SameServer, SameQueries, CountsStep, StepKeeps, InvariantTypes DEF StaffSignIn

LEMMA SubmitWizardSteps ==
  ASSUME EntryInvariant, NEW t \in Tabs, NEW u \in Users, NEW h \in Handlers, SubmitWizard(t, u, h)
  PROVE  EntryInvariant'
<1>1. [user |-> u, aal |-> 1] \in Sessions /\ "signup" \in Kinds /\ "checkEmail" \in Routes
  BY Sorts DEF Kinds, Routes
<1>2. session' \in Sessions /\ TabsKeep /\ FlowsKeep
  <2>1. CASE flow' = [flow EXCEPT ![h] = Calls(t, "signup", "create", session)]
             /\ UNCHANGED <<account, session, tab>>
    BY <1>1, <2>1, CallsKeep, SameTabs, InvariantTypes
  <2>2. CASE tab' = [tab EXCEPT ![t] = Navigate(t, "checkEmail")] /\ UNCHANGED <<session, flow>>
    BY <1>1, <2>2, NavigateKeeps, SameFlows, InvariantTypes
  <2>3. CASE Begin(t, [user |-> u, aal |-> 1], h, "signup", "create")
    BY <1>1, <2>3, BeginKeeps
  <2>4. CASE UNCHANGED <<account, session, tab, flow>>
    BY <2>4, SameTabs, SameFlows, InvariantTypes
  <2> QED
    BY <2>1, <2>2, <2>3, <2>4 DEF SubmitWizard
<1>3. BrowserKeeps
  BY <1>2 DEF SubmitWizard, BrowserKeeps
<1>4. ServerKeeps
  BY InvariantTypes DEF SubmitWizard, ServerKeeps, WebTypeOK
<1> QED
  BY <1>2, <1>3, <1>4, SameQueries, CountsStep, StepKeeps, InvariantTypes DEF SubmitWizard

\* A link, or the provider, brings user u and a session to a document that is loaded.
LEMMA ArrivalSteps ==
  ASSUME EntryInvariant, NEW t \in Tabs, NEW u \in Users,
         OpenEmailLink(t, u) \/ ReturnFromProvider(t, u) \/ OpenRecoveryLink(t, u)
  PROVE  EntryInvariant'
<1>1. PICK r \in Routes : Reload(t, r)
  BY DEF OpenEmailLink, ReturnFromProvider, OpenRecoveryLink, Routes
<1>2. TabsKeep /\ QueriesKeep /\ FlowsKeep
  BY <1>1, ReloadKeeps
<1>3. BrowserKeeps
  BY Sorts, InvariantTypes DEF OpenEmailLink, ReturnFromProvider, OpenRecoveryLink, BrowserKeeps
<1>4. ServerKeeps
  BY InvariantTypes
     DEF OpenEmailLink, ReturnFromProvider, OpenRecoveryLink, ServerKeeps, WebTypeOK
<1>5. CountsKeep
  BY CountsStep, InvariantTypes DEF OpenEmailLink, ReturnFromProvider, OpenRecoveryLink
<1> QED
  BY <1>2, <1>3, <1>4, <1>5, StepKeeps

LEMMA SubmitPasswordSteps ==
  ASSUME EntryInvariant, NEW t \in Tabs, NEW h \in Handlers, SubmitPassword(t, h)
  PROVE  EntryInvariant'
<1>1. FlowsKeep
  BY CallsKeep, InvariantTypes DEF SubmitPassword, Kinds
<1> QED
  BY <1>1, SameServer, SameBrowser, SameTabs, SameQueries, CountsStep, StepKeeps, InvariantTypes
     DEF SubmitPassword

LEMMA VerifyMfaSteps ==
  ASSUME EntryInvariant, NEW t \in Tabs, NEW h \in Handlers, VerifyMfa(t, h)
  PROVE  EntryInvariant'
<1> DEFINE s == [session EXCEPT !.aal = 2]
           q == query["access"][t][s.user]
           e == [Ask(q, s, AccessOf(s)) EXCEPT !.fresh = FALSE]
<1>1. s \in Sessions
  BY FormsAreShown, InvariantTypes, Sorts DEF VerifyMfa, SignedIn
<1>2. /\ session' = s
      /\ tab' = [tab EXCEPT ![t] = [Heard(t, s) EXCEPT !.due = @ \ {"access"}]]
      /\ query' = [query EXCEPT !["access"][t][s.user] = e]
      /\ flow' = [flow EXCEPT ![h] = Calls(t, "mfa", "refetch", s)]
  BY DEF VerifyMfa
<1>3. TabsKeep
  <2>1. Heard(t, s) \in Tab
    BY <1>1, TabFacts, InvariantTypes DEF WebTypeOK
  <2>2. [Heard(t, s) EXCEPT !.due = @ \ {"access"}] \in Tab
    BY <2>1 DEF Tab
  <2> QED
    BY <1>2, <2>2, OneTab, InvariantTypes DEF WebTypeOK, TabsKeep
<1>4. QueriesKeep
  <2>1. s.user \in Users \cup {NoUser} /\ "access" \in Keys
    BY <1>1, Sorts DEF Keys
  <2>2. q \in Query /\ QueryTold("access", q)
    BY <2>1 DEF EntryInvariant, WebTypeOK
  <2>3. AccessOf(s) = ReplyOf("access", s)
    BY DEF ReplyOf
  <2>4. Ask(q, s, AccessOf(s)) \in Query /\ QueryTold("access", Ask(q, s, AccessOf(s)))
    BY <1>1, <2>1, <2>2, <2>3, AskTells, InvariantTypes
  <2>5. \A a \in Query : QueryTold("access", a) =>
           [a EXCEPT !.fresh = FALSE] \in Query /\ QueryTold("access", [a EXCEPT !.fresh = FALSE])
    BY DEF Query, QueryTold
  <2>6. e \in Query /\ QueryTold("access", e)
    BY <2>4, <2>5
  <2> QED
    BY <1>2, <2>1, <2>6, OneQuery
<1>5. FlowsKeep
  BY <1>1, <1>2, CallsKeep DEF Kinds
<1>6. BrowserKeeps
  BY <1>1, <1>2, InvariantTypes DEF VerifyMfa, BrowserKeeps
<1> QED
  BY <1>3, <1>4, <1>5, <1>6, SameServer, CountsStep, StepKeeps, InvariantTypes DEF VerifyMfa

LEMMA SignOutSteps ==
  ASSUME EntryInvariant, NEW t \in Tabs, SignOut(t)
  PROVE  EntryInvariant'
<1>1. "root" \in Routes /\ NoSession \in Sessions
  BY Sorts DEF Routes
<1>2. session' \in Sessions /\ TabsKeep
  BY <1>1, MountedKeeps, HeardKeeps, NavigateKeeps, InvariantTypes DEF SignOut
<1>3. BrowserKeeps
  BY <1>2, InvariantTypes DEF SignOut, BrowserKeeps
<1>4. CountsKeep
  BY CountsStep, InvariantTypes DEF SignOut
<1> QED
  BY <1>2, <1>3, <1>4, SameServer, SameQueries, SameFlows, StepKeeps DEF SignOut

LEMMA ElsewhereSteps ==
  ASSUME EntryInvariant, NEW u \in Users, Elsewhere(u)
  PROVE  EntryInvariant'
<1>1. BrowserKeeps
  BY Sorts, InvariantTypes DEF Elsewhere, BrowserKeeps
<1> QED
  BY <1>1, SameServer, SameTabs, SameQueries, SameFlows, CountsStep, StepKeeps, InvariantTypes
     DEF Elsewhere

-----------------------------------------------------------------------------
\* React and the query cache keep the invariant

LEMMA HearingSteps ==
  ASSUME EntryInvariant, NEW t \in Tabs, Boot(t) \/ Sync(t)
  PROVE  EntryInvariant'
<1>1. TabsKeep
  BY HeardKeeps, InvariantTypes DEF Boot, Sync
<1> QED
  BY <1>1, SameServer, SameBrowser, SameQueries, SameFlows, CountsStep, StepKeeps, InvariantTypes
     DEF Boot, Sync

LEMMA RedirectSteps ==
  ASSUME EntryInvariant, NEW t \in Tabs, Redirect(t)
  PROVE  EntryInvariant'
<1>1. TabsKeep
  BY ViewGoesToRoutes, MountedKeeps, InvariantTypes DEF Redirect
<1> QED
  BY <1>1, SameServer, SameBrowser, SameQueries, SameFlows, CountsStep, StepKeeps, InvariantTypes
     DEF Redirect

\* A field of the tab t alone.
LEMMA FieldKeeps ==
  ASSUME EntryInvariant, NEW t \in Tabs, NEW e \in Tab, tab' = [tab EXCEPT ![t] = e]
  PROVE  TabsKeep
  BY OneTab, InvariantTypes DEF WebTypeOK, TabsKeep

LEMMA FetchSteps ==
  ASSUME EntryInvariant, NEW t \in Tabs, NEW k \in Keys, Fetch(t, k)
  PROVE  EntryInvariant'
<1> DEFINE u == tab[t].auth.user
           q == query[k][t][u]
<1>1. u \in Users \cup {NoUser}
  BY Sorts, InvariantTypes
<1>2. q \in Query /\ QueryTold(k, q)
  BY <1>1 DEF EntryInvariant, WebTypeOK
<1>3. TabsKeep
  <2>1. [tab[t] EXCEPT !.due = @ \ {k}] \in Tab
    BY InvariantTypes DEF Tab
  <2>2. tab' = [tab EXCEPT ![t] = [tab[t] EXCEPT !.due = @ \ {k}]]
    BY InvariantTypes DEF Fetch, WebTypeOK
  <2> QED
    BY <2>1, <2>2, FieldKeeps
<1>4. QueriesKeep
  <2>1. ASSUME NEW reply \in {ReplyOf(k, session), "error"},
               query' = [query EXCEPT ![k][t][u] = Ask(q, session, reply)]
        PROVE  QueriesKeep
    <3>1. Ask(q, session, reply) \in Query /\ QueryTold(k, Ask(q, session, reply))
      BY <1>2, AskTells, InvariantTypes
    <3> QED
      BY <1>1, <2>1, <3>1, OneQuery
  <2>2. \/ UNCHANGED query
        \/ query' = [query EXCEPT ![k][t][u] = Ask(q, session, ReplyOf(k, session))]
        \/ query' = [query EXCEPT ![k][t][u] = Ask(q, session, "error")]
    BY DEF Fetch
  <2> QED
    BY <2>1, <2>2, SameQueries
<1>5. CountsKeep
  BY CountsStep, InvariantTypes DEF Fetch
<1> QED
  BY <1>3, <1>4, <1>5, SameServer, SameBrowser, SameFlows, StepKeeps DEF Fetch

LEMMA DeliverQuerySteps ==
  ASSUME EntryInvariant, NEW t \in Tabs, NEW k \in Keys, NEW u \in Users, DeliverQuery(t, k, u)
  PROVE  EntryInvariant'
<1> DEFINE q == query[k][t][u]
<1>1. q \in Query /\ QueryTold(k, q) /\ q.call # "idle"
  BY DEF EntryInvariant, WebTypeOK, DeliverQuery
<1>2. Deliver(q) \in Query /\ QueryTold(k, Deliver(q))
  BY <1>1, DeliverTells
<1>3. query' = [query EXCEPT ![k][t][u] = Deliver(q)]
  BY DEF DeliverQuery
<1>4. QueriesKeep
  BY <1>2, <1>3, OneQuery
<1> QED
  BY <1>4, SameServer, SameBrowser, SameTabs, SameFlows, CountsStep, StepKeeps, InvariantTypes
     DEF DeliverQuery

LEMMA ExpireSteps ==
  ASSUME EntryInvariant, NEW t \in Tabs, NEW u \in Users, Expire(t, u)
  PROVE  EntryInvariant'
<1> DEFINE q == query["access"][t][u]
           e == [q EXCEPT !.fresh = FALSE]
<1>1. "access" \in Keys
  BY DEF Keys
<1>2. q \in Query /\ QueryTold("access", q)
  BY <1>1 DEF EntryInvariant, WebTypeOK
<1>3. e \in Query /\ QueryTold("access", e)
  BY <1>2 DEF Query, QueryTold
<1>4. query' = [query EXCEPT !["access"][t][u] = e]
  BY <1>1 DEF Expire, EntryInvariant, WebTypeOK
<1>5. QueriesKeep
  BY <1>1, <1>3, <1>4, OneQuery
<1> QED
  BY <1>5, SameServer, SameBrowser, SameTabs, SameFlows, CountsStep, StepKeeps, InvariantTypes
     DEF Expire

\* The effects of the callback and of the staff login start a handler.
LEMMA EffectSteps ==
  ASSUME EntryInvariant, NEW t \in Tabs, NEW h \in Handlers,
         CallbackEffect(t, h) \/ AdminLoginEffect(t, h)
  PROVE  EntryInvariant'
<1>1. TabsKeep
  <2>1. [tab[t] EXCEPT !.effect = FALSE] \in Tab
    BY InvariantTypes DEF Tab
  <2>2. tab' = [tab EXCEPT ![t] = [tab[t] EXCEPT !.effect = FALSE]]
    BY InvariantTypes DEF CallbackEffect, AdminLoginEffect, WebTypeOK
  <2> QED
    BY <2>1, <2>2, FieldKeeps
<1>2. FlowsKeep
  <2>1. \/ UNCHANGED flow
        \/ flow' = [flow EXCEPT ![h] = Calls(t, "callback", "resolve", session)]
        \/ flow' = [flow EXCEPT ![h] = Calls(t, "adminEffect", "access", session)]
    BY DEF CallbackEffect, AdminLoginEffect
  <2>2. "callback" \in Kinds /\ "adminEffect" \in Kinds
    BY DEF Kinds
  <2> QED
    BY <2>1, <2>2, CallsKeep, SameFlows, InvariantTypes
<1>3. CountsKeep
  BY CountsStep, InvariantTypes DEF CallbackEffect, AdminLoginEffect
<1> QED
  BY <1>1, <1>2, <1>3, SameServer, SameBrowser, SameQueries, StepKeeps
     DEF CallbackEffect, AdminLoginEffect

LEMMA PrepareMfaSteps ==
  ASSUME EntryInvariant, NEW t \in Tabs, PrepareMfa(t)
  PROVE  EntryInvariant'
<1>1. PICK m \in {"verify", "error"} : tab' = [tab EXCEPT ![t].mfa = m]
  BY DEF PrepareMfa
<1>2. TabsKeep
  <2>1. [tab[t] EXCEPT !.mfa = m] \in Tab
    BY InvariantTypes DEF Tab
  <2>2. tab' = [tab EXCEPT ![t] = [tab[t] EXCEPT !.mfa = m]]
    BY <1>1, InvariantTypes DEF WebTypeOK
  <2> QED
    BY <2>1, <2>2, FieldKeeps
<1>3. CountsKeep
  BY CountsStep, InvariantTypes DEF PrepareMfa
<1> QED
  BY <1>2, <1>3, SameServer, SameBrowser, SameQueries, SameFlows, StepKeeps DEF PrepareMfa

-----------------------------------------------------------------------------
\* The handlers keep the invariant

LEMMA AnswerTells ==
  ASSUME EntryInvariant, NEW h \in Handlers, ServeHandler(h),
         flow' = [flow EXCEPT ![h].reply = Answer(flow[h].at, flow[h].token)],
         profiles' = IF flow[h].at = "create" /\ Answer(flow[h].at, flow[h].token) = "created"
                     THEN profiles \cup {flow[h].token.user} ELSE profiles
  PROVE  ServerKeeps /\ FlowsServed
<1>1. PICK f : f = [flow[h] EXCEPT !.reply = Answer(flow[h].at, flow[h].token)]
  OBVIOUS
<1>2. /\ flow[h] \in Flow /\ flow[h].at \in {"access", "resolve", "me", "create"}
      /\ flow[h].token \in Sessions
  BY InvariantTypes DEF ServeHandler
<1>3. /\ f.at = flow[h].at /\ f.token = flow[h].token /\ f.reply = Answer(f.at, f.token)
      /\ f.kind = flow[h].kind /\ f.at \in {"access", "resolve", "me", "create"}
      /\ f.token \in Sessions /\ f.token.user \in Users \cup {NoUser}
  BY <1>1, <1>2, Sorts DEF Flow
<1>4. f.reply \in Replies
  BY <1>3, AnswersTell, InvariantTypes DEF Answer
<1>5. f \in Flow
  BY <1>1, <1>2, <1>3, <1>4 DEF Flow
<1>6. profiles' = IF f.at = "create" /\ f.reply = "created" THEN profiles \cup {f.token.user}
                  ELSE profiles
  BY <1>3
<1>7. ASSUME f.at = "create"
      PROVE  ServerKeeps /\ (f.reply # "error" => Told(f.at, f.token.user, f.reply)')
  <2>1. f.reply = CreateOf(f.token)
    BY <1>3, <1>7 DEF Answer
  <2>2. /\ f.reply \in {"created", "exists", "error"}
        /\ f.reply # "error" => f.token.user \in Users
        /\ f.reply = "exists" => f.token.user \in profiles
    BY <1>3, <2>1, Sorts DEF CreateOf
  <2>3. ServerKeeps
    BY <1>6, <2>2, InvariantTypes DEF ServerKeeps, WebTypeOK, ServeHandler
  <2>4. f.reply # "error" => f.token.user \in profiles'
    BY <1>6, <1>7, <2>2
  <2>5. f.reply # "error" => Told(f.at, f.token.user, f.reply)'
    BY <1>7, <2>2, <2>4 DEF Told
  <2> QED
    BY <2>3, <2>5
<1>8. ASSUME f.at # "create"
      PROVE  ServerKeeps /\ (f.reply # "error" => Told(f.at, f.token.user, f.reply)')
  <2>1. profiles' = profiles
    BY <1>6, <1>8
  <2>2. ServerKeeps
    BY <2>1, InvariantTypes DEF ServerKeeps, WebTypeOK, ServeHandler
  <2>3. f.reply # "error" => Told(f.at, f.token.user, f.reply)
    BY <1>3, <1>8, AnswersTell, InvariantTypes DEF Answer, Told
  <2>4. f.reply # "error" => Told(f.at, f.token.user, f.reply)'
    BY <2>1, <2>3, ToldStays
  <2> QED
    BY <2>2, <2>4
<1>9. ServerKeeps /\ (f.reply # "error" => Told(f.at, f.token.user, f.reply)')
  BY <1>7, <1>8
<1>10. flow' = [flow EXCEPT ![h] = f] /\ flow \in [Handlers -> Flow]
  BY <1>1, InvariantTypes DEF WebTypeOK
<1>11. flow' \in [Handlers -> Flow]
  BY <1>5, <1>10
<1>12. ASSUME NEW g \in Handlers
       PROVE  FlowTold(flow[g])'
  <2>1. PICK e : e = flow'[g]
    OBVIOUS
  <2>2. e.reply \notin {"none", "error"} => Told(e.at, e.token.user, e.reply)'
    <3>1. CASE g = h
      BY <1>9, <1>10, <2>1, <3>1
    <3>2. CASE g # h
      <4>1. e = flow[g] /\ FlowTold(e)
        BY <1>10, <2>1, <3>2 DEF EntryInvariant, FlowsTold
      <4> QED
        BY <1>9, <4>1, ToldStays DEF FlowTold, ServerKeeps
    <3> QED
      BY <3>1, <3>2
  <2>3. e.at = "resolve" => e.kind \in {"reset", "callback", "login"}
    BY <1>3, <1>10, <2>1 DEF EntryInvariant, FlowsTold, FlowTold
  <2> QED
    BY <2>1, <2>2, <2>3 DEF FlowTold, Told
<1> QED
  BY <1>9, <1>11, <1>12 DEF FlowsServed, FlowsTold

LEMMA ServeHandlerSteps ==
  ASSUME EntryInvariant, NEW h \in Handlers, ServeHandler(h)
  PROVE  EntryInvariant'
<1>1. CASE /\ flow' = [flow EXCEPT ![h].reply = Answer(flow[h].at, flow[h].token)]
           /\ profiles' = IF /\ flow[h].at = "create"
                             /\ Answer(flow[h].at, flow[h].token) = "created"
                          THEN profiles \cup {flow[h].token.user} ELSE profiles
           /\ NoAct
  <2>1. ServerKeeps /\ FlowsServed
    BY <1>1, AnswerTells
  <2> QED
    BY <1>1, <2>1, SameBrowser, SameTabs, SameQueries, CountsStep, StepKeeps, InvariantTypes
       DEF ServeHandler
<1>2. CASE /\ flow' = [flow EXCEPT ![h].reply = "error"]
           /\ Fault /\ UNCHANGED <<acts, profiles>>
  <2> DEFINE f == [flow[h] EXCEPT !.reply = "error"]
  <2>1. f \in Flow /\ f.at = flow[h].at /\ f.kind = flow[h].kind /\ f.reply = "error"
    BY InvariantTypes DEF Flow, Replies
  <2>2. FlowTold(f)
    BY <2>1 DEF EntryInvariant, FlowsTold, FlowTold
  <2>3. flow' = [flow EXCEPT ![h] = f]
    BY <1>2, InvariantTypes DEF WebTypeOK
  <2>4. FlowsKeep
    BY <2>1, <2>2, <2>3, OneFlow
  <2> QED
    BY <1>2, <2>4, SameServer, SameBrowser, SameTabs, SameQueries, CountsStep, StepKeeps,
       InvariantTypes DEF ServeHandler
<1> QED
  BY <1>1, <1>2 DEF ServeHandler

LEMMA EndsKeeps ==
  ASSUME EntryInvariant, NEW h \in Handlers, NEW r \in Routes, Ends(h, r)
  PROVE  TabsKeep /\ FlowsKeep
  BY DoneKeeps, NavigateKeeps, InvariantTypes DEF Ends

LEMMA LandsKeeps ==
  ASSUME EntryInvariant, NEW h \in Handlers, Lands(h)
  PROVE  TabsKeep /\ FlowsKeep
<1> DEFINE t == flow[h].tab
           e == [Navigate(t, "profile") EXCEPT
                    !.landing = /\ tab[t].auth.user = flow[h].token.user
                                /\ Cached("profile", t).call # "missing"]
<1>1. t \in Tabs /\ "profile" \in Routes
  BY InvariantTypes DEF Routes
<1>2. Navigate(t, "profile") \in Tab
  BY <1>1, TabFacts, InvariantTypes DEF WebTypeOK
<1>3. e \in Tab
  BY <1>2 DEF Tab
<1>4. tab' = [tab EXCEPT ![t] = e] /\ flow' = Done(h)
  BY DEF Lands
<1> QED
  BY <1>1, <1>3, <1>4, FieldKeeps, DoneKeeps

\* What a handler was told, by the request that it waits for.
LEMMA HandlerFacts ==
  ASSUME EntryInvariant, NEW h \in Handlers
  PROVE  /\ flow[h].at = "resolve" => flow[h].kind \in {"reset", "callback", "login"}
         /\ flow[h].reply \notin {"none", "error"} => Told(flow[h].at, flow[h].token.user, flow[h].reply)
  BY DEF EntryInvariant, FlowsTold, FlowTold

LEMMA LoginGoesOnSteps ==
  ASSUME EntryInvariant, NEW h \in Handlers, LoginGoesOn(h)
  PROVE  EntryInvariant'
<1>1. FlowsKeep
  BY ProceedKeeps DEF LoginGoesOn
<1> QED
  BY <1>1, SameServer, SameBrowser, SameTabs, SameQueries, CountsStep, StepKeeps, InvariantTypes
     DEF LoginGoesOn

LEMMA FailsSteps ==
  ASSUME EntryInvariant, NEW h \in Handlers, Fails(h)
  PROVE  EntryInvariant'
<1>1. FlowsKeep
  BY DoneKeeps DEF Fails
<1> QED
  BY <1>1, SameServer, SameBrowser, SameTabs, SameQueries, CountsStep, StepKeeps, InvariantTypes
     DEF Fails

LEMMA StaffLoginGoesOnSteps ==
  ASSUME EntryInvariant, NEW h \in Handlers, StaffLoginGoesOn(h)
  PROVE  EntryInvariant'
<1>1. TabsKeep /\ FlowsKeep
  BY DoneKeeps, EndsKeeps, SameTabs, LandingsAreRoutes DEF StaffLoginGoesOn
<1> QED
  BY <1>1, SameServer, SameBrowser, SameQueries, CountsStep, StepKeeps, InvariantTypes
     DEF StaffLoginGoesOn

LEMMA ResolveGoesOnSteps ==
  ASSUME EntryInvariant, NEW h \in Handlers, ResolveGoesOn(h)
  PROVE  EntryInvariant'
<1>1. flow[h].kind \in {"reset", "callback", "login"} /\ "adminLogin" \in Routes
  BY HandlerFacts DEF ResolveGoesOn, Routes
<1>2. \/ flow' = Proceed(h, "me") /\ UNCHANGED tab
      \/ Ends(h, AdminLandingRoute(flow[h].reply))
      \/ flow' = Proceed(h, "signOut") /\ UNCHANGED tab
      \/ Ends(h, "adminLogin")
  BY <1>1 DEF ResolveGoesOn
<1>3. TabsKeep /\ FlowsKeep
  BY <1>1, <1>2, ProceedKeeps, EndsKeeps, SameTabs, LandingsAreRoutes
<1>4. BrowserKeeps
  BY InvariantTypes DEF ResolveGoesOn, BrowserKeeps
<1> QED
  BY <1>3, <1>4, SameServer, SameQueries, CountsStep, StepKeeps, InvariantTypes DEF ResolveGoesOn

LEMMA ProfileGoesOnSteps ==
  ASSUME EntryInvariant, NEW h \in Handlers, ProfileGoesOn(h)
  PROVE  EntryInvariant'
<1>1. "signup" \in Routes
  BY DEF Routes
<1>2. \/ Lands(h)
      \/ flow' = Proceed(h, "create") /\ UNCHANGED tab
      \/ Ends(h, "signup")
  BY DEF ProfileGoesOn
<1>3. TabsKeep /\ FlowsKeep
  BY <1>1, <1>2, LandsKeeps, ProceedKeeps, EndsKeeps, SameTabs
<1>4. BrowserKeeps
  BY InvariantTypes DEF ProfileGoesOn, BrowserKeeps
<1> QED
  BY <1>3, <1>4, SameServer, SameQueries, CountsStep, StepKeeps, InvariantTypes DEF ProfileGoesOn

LEMMA CreateGoesOnSteps ==
  ASSUME EntryInvariant, NEW h \in Handlers, CreateGoesOn(h)
  PROVE  EntryInvariant'
<1>1. TabsKeep /\ FlowsKeep
  BY LandsKeeps DEF CreateGoesOn
<1>2. BrowserKeeps
  BY InvariantTypes DEF CreateGoesOn, BrowserKeeps
<1> QED
  BY <1>1, <1>2, SameServer, SameQueries, CountsStep, StepKeeps, InvariantTypes DEF CreateGoesOn

LEMMA StaffLeavesSteps ==
  ASSUME EntryInvariant, NEW h \in Handlers, StaffLeaves(h)
  PROVE  EntryInvariant'
<1>1. "adminLogin" \in Routes /\ NoSession \in Sessions /\ flow[h].tab \in Tabs
  BY Sorts, InvariantTypes DEF Routes
<1>2. session' \in Sessions /\ TabsKeep /\ FlowsKeep
  BY <1>1, MountedKeeps, NavigateKeeps, DoneKeeps, InvariantTypes DEF StaffLeaves
<1>3. BrowserKeeps
  BY <1>2, InvariantTypes DEF StaffLeaves, BrowserKeeps
<1>4. CountsKeep
  BY CountsStep, InvariantTypes DEF StaffLeaves
<1> QED
  BY <1>2, <1>3, <1>4, SameServer, SameQueries, StepKeeps DEF StaffLeaves

LEMMA MfaGoesOnSteps ==
  ASSUME EntryInvariant, NEW h \in Handlers, MfaGoesOn(h)
  PROVE  EntryInvariant'
<1>1. "admin" \in Routes
  BY DEF Routes
<1>2. TabsKeep /\ FlowsKeep
  BY <1>1, EndsKeeps DEF MfaGoesOn
<1> QED
  BY <1>2, SameServer, SameBrowser, SameQueries, CountsStep, StepKeeps, InvariantTypes DEF MfaGoesOn

-----------------------------------------------------------------------------
\* The invariant

LEMMA InitiallyEntry == Init => EntryInvariant
<1> SUFFICES ASSUME Init PROVE EntryInvariant
  OBVIOUS
<1>1. \A r \in Routes : Loaded(r) \in Tab
  <2>1. \A r : HasEffect(r) \in BOOLEAN
    BY DEF HasEffect
  <2> QED
    BY <2>1, Sorts DEF Loaded, Tab
<1>2. tab \in [Tabs -> Tab]
  BY <1>1 DEF Init
<1>3. EmptyCache \in [Users \cup {NoUser} -> Query]
  BY EmptyIsQuery DEF EmptyCache
<1>4. query \in [Keys -> [Tabs -> [Users \cup {NoUser} -> Query]]]
  BY <1>3 DEF Init
<1>5. flow \in [Handlers -> Flow] /\ FlowsTold
  BY NoFlowIsFlow DEF Init, FlowsTold
<1>6. \A k \in Keys : \A t \in Tabs : \A u \in Users \cup {NoUser} : query[k][t][u] = EmptyQuery
  BY DEF Init, EmptyCache
<1>7. WebTypeOK
  <2>1. session \in Sessions
    BY OpensAssumption, Sorts DEF Init
  <2>2. account \in [Users -> {"none", "unconfirmed", "confirmed"}] /\ profiles \in SUBSET Users
    BY DEF Init
  <2>3. draft \in Users \cup {NoUser} /\ acts \in Nat /\ faults \in Nat
    BY DEF Init
  <2> QED
    BY <1>2, <1>4, <1>5, <2>1, <2>2, <2>3 DEF WebTypeOK
<1> QED
  BY <1>5, <1>6, <1>7, EmptyIsQuery DEF EntryInvariant

LEMMA NextEntry == EntryInvariant /\ [Next]_vars => EntryInvariant'
<1> SUFFICES ASSUME EntryInvariant, [Next]_vars PROVE EntryInvariant'
  OBVIOUS
<1>1. CASE UserActs
  BY <1>1, ElsewhereSteps, LoadSteps, OpenSteps, FocusSteps, SignOutSteps, ArrivalSteps,
     SubmitPasswordSteps, VerifyMfaSteps, SignInSteps, StaffSignInSteps, SubmitWizardSteps
     DEF UserActs
<1>2. ASSUME NEW t \in Tabs, TabStep(t)
      PROVE  EntryInvariant'
  BY <1>2, HearingSteps, RedirectSteps, PrepareMfaSteps, EffectSteps DEF TabStep
<1>3. ASSUME NEW t \in Tabs, NEW k \in Keys, QueryStep(t, k)
      PROVE  EntryInvariant'
  BY <1>3, FetchSteps, DeliverQuerySteps DEF QueryStep
<1>4. ASSUME NEW t \in Tabs, NEW u \in Users, Expire(t, u)
      PROVE  EntryInvariant'
  BY <1>4, ExpireSteps
<1>5. ASSUME NEW h \in Handlers, HandlerStep(h)
      PROVE  EntryInvariant'
  BY <1>5, ServeHandlerSteps, FailsSteps, LoginGoesOnSteps, StaffLoginGoesOnSteps,
     ResolveGoesOnSteps, ProfileGoesOnSteps, CreateGoesOnSteps, StaffLeavesSteps, MfaGoesOnSteps
     DEF HandlerStep
<1>6. CASE UNCHANGED vars
  BY <1>6, SameServer, SameBrowser, SameTabs, SameQueries, SameFlows, CountsStep, StepKeeps,
     InvariantTypes DEF vars, NoAct
<1> QED
  BY <1>1, <1>2, <1>3, <1>4, <1>5, <1>6 DEF Next

LEMMA EntryAlways == Spec => []EntryInvariant
  BY InitiallyEntry, NextEntry, PTL DEF Spec

-----------------------------------------------------------------------------
\* Types, and what the server can have told whom: no query and no handler holds an answer that
\* its asker could not have been given, with the session changing under requests on their way.
THEOREM EntryCorrect == Spec => []EntryInvariant
  BY EntryAlways

\* The wizard is not shown to staff.  It waits for an answer about the access status, and the
\* answer of a staff identity is never "no_access": what is cached is somebody else's, or an error.
THEOREM WizardCorrect == Spec => []WizardHidesStaff
<1>1. EntryInvariant => WizardHidesStaff
  <2> SUFFICES ASSUME EntryInvariant, NEW t \in Tabs, View(t).show = "wizard",
                      IsStaff(tab[t].auth.user), ~Cached("access", t).error
               PROVE  Cached("access", t).from \notin {NoUser, tab[t].auth.user}
    BY DEF WizardHidesStaff
  <2> DEFINE u == tab[t].auth.user
             q == Cached("access", t)
  <2>1. tab[t].ready /\ SignupPage(t).show = "wizard"
    BY FormsAreShown, InvariantTypes
  <2>2. SignedIn(t)
    BY <2>1, Sorts DEF SignedIn, IsStaff
  <2>3. ~HasMembership(t) /\ Surface(t) # "loading"
    BY <2>1, <2>2 DEF SignupPage, Shows, Goes
  <2>4. q = query["access"][t][u] /\ u \in Users /\ Membership[u] # "none" /\ "access" \in Keys
    BY DEF Cached, IsStaff, Keys
  <2>5. q \in Query /\ QueryTold("access", q)
    BY <2>4 DEF EntryInvariant, WebTypeOK
  <2>6. q.data # "unknown"
    BY <2>1, <2>2, <2>3, <2>5 DEF Surface, Pending, Query
  <2>7. q.data = "no_access" /\ q.from \in Users /\ Membership[q.from] = "none"
    BY <2>3, <2>5, <2>6 DEF QueryTold, Told, HasMembership, AccessStatus
  <2> QED
    BY <2>4, <2>7
<1> QED
  BY <1>1, EntryAlways, PTL

\* A draft is cleared by a handler that was told of a profile or of staff; when that was about
\* the draft's own user, a member, the profile is there.
LEMMA DraftSteps ==
  ASSUME EntryInvariant, Next, NEW u \in Users, draft = u, draft' = NoUser, Membership[u] = "none"
  PROVE  u \in profiles \/ \E h \in Handlers : flow[h].token.user # u /\ flow'[h] # flow[h]
<1>1. \E h \in Handlers : ResolveGoesOn(h) \/ ProfileGoesOn(h) \/ CreateGoesOn(h)
  <2>1. ASSUME UserActs
        PROVE  FALSE
    <3>1. \A t \in Tabs : \A h \in Handlers : ~SubmitPassword(t, h) /\ ~VerifyMfa(t, h)
      BY DEF SubmitPassword, VerifyMfa
    <3>2. \A t \in Tabs : ~Load(t) /\ ~Open(t) /\ ~Focus(t) /\ ~SignOut(t)
      BY DEF Load, Open, Focus, SignOut
    <3>3. \A t \in Tabs : \A v \in Users :
             ~OpenEmailLink(t, v) /\ ~ReturnFromProvider(t, v) /\ ~OpenRecoveryLink(t, v)
      BY DEF OpenEmailLink, ReturnFromProvider, OpenRecoveryLink
    <3>4. \A v \in Users : ~Elsewhere(v)
      BY DEF Elsewhere
    <3>5. \A t \in Tabs : \A v \in Users : \A h \in Handlers :
             ~SignIn(t, v, h) /\ ~StaffSignIn(t, v, h) /\ ~SubmitWizard(t, v, h)
      BY DEF SignIn, StaffSignIn, SubmitWizard
    <3> QED
      BY <2>1, <3>1, <3>2, <3>3, <3>4, <3>5 DEF UserActs
  <2>2. ASSUME NEW t \in Tabs, TabStep(t)
        PROVE  FALSE
    BY <2>2 DEF TabStep, Boot, Sync, Redirect, PrepareMfa, CallbackEffect, AdminLoginEffect
  <2>3. ASSUME NEW t \in Tabs, NEW k \in Keys, QueryStep(t, k)
        PROVE  FALSE
    BY <2>3 DEF QueryStep, Fetch, DeliverQuery
  <2>4. ASSUME NEW t \in Tabs, NEW v \in Users, Expire(t, v)
        PROVE  FALSE
    BY <2>4 DEF Expire
  <2>5. ASSUME NEW h \in Handlers, HandlerStep(h)
        PROVE  ResolveGoesOn(h) \/ ProfileGoesOn(h) \/ CreateGoesOn(h)
    BY <2>5 DEF HandlerStep, ServeHandler, Fails, LoginGoesOn, StaffLoginGoesOn, StaffLeaves,
       MfaGoesOn
  <2> QED
    BY <2>1, <2>2, <2>3, <2>4, <2>5 DEF Next
<1>2. PICK h \in Handlers : ResolveGoesOn(h) \/ ProfileGoesOn(h) \/ CreateGoesOn(h)
  BY <1>1
<1>3. CASE flow[h].token.user = u
  <2>1. CASE ResolveGoesOn(h)
    <3>1. flow[h].reply # "no_access"
      BY <2>1 DEF ResolveGoesOn
    <3>2. Told("resolve", u, flow[h].reply)
      BY <1>3, <2>1, HandlerFacts DEF ResolveGoesOn, AccessStatus
    <3> QED
      BY <3>1, <3>2 DEF Told
  <2>2. CASE ProfileGoesOn(h)
    <3>1. flow[h].reply = "found"
      BY <2>2 DEF ProfileGoesOn
    <3>2. Told("me", u, "found")
      BY <1>3, <2>2, <3>1, HandlerFacts DEF ProfileGoesOn
    <3> QED
      BY <3>2 DEF Told
  <2>3. CASE CreateGoesOn(h)
    <3>1. Told("create", u, flow[h].reply)
      BY <1>3, <2>3, HandlerFacts DEF CreateGoesOn
    <3> QED
      BY <3>1 DEF Told
  <2> QED
    BY <1>2, <2>1, <2>2, <2>3
<1>4. CASE flow[h].token.user # u
  <2>1. flow[h].at \in {"resolve", "me", "create"}
    BY <1>2 DEF ResolveGoesOn, ProfileGoesOn, CreateGoesOn
  <2>2. flow' = Done(h) \/ flow' = Proceed(h, "signOut")
    BY <1>2, HandlerFacts DEF ResolveGoesOn, ProfileGoesOn, CreateGoesOn, Ends, Lands
  <2>3. flow \in [Handlers -> Flow]
    BY InvariantTypes DEF WebTypeOK
  <2>4. flow'[h].at \in {"idle", "signOut"}
    BY <2>2, <2>3 DEF Done, Proceed, NoFlow, Calls
  <2> QED
    BY <1>4, <2>1, <2>4
<1> QED
  BY <1>3, <1>4

\* A member's draft leaves the browser only when the member has a profile, or when a handler
\* that was started for another identity clears it.
THEOREM DraftCorrect == Spec => DraftIsKept
<1>1. EntryInvariant /\ [Next]_vars =>
        [\A u \in Users :
            draft = u /\ draft' = NoUser /\ ~IsStaff(u) =>
                u \in profiles \/ \E h \in Handlers : flow[h].token.user # u /\ flow'[h] # flow[h]]_vars
  BY DraftSteps DEF IsStaff, vars
<1> QED
  BY <1>1, EntryAlways, PTL DEF Spec, DraftIsKept
=============================================================================
