------------------------------- MODULE WebEntry -------------------------------
(***************************************************************************)
(* Entry to the web app: sign in, sign up, the e-mail and provider links,  *)
(* staff login with MFA, recovery and sign out, in several tabs of one     *)
(* browser.  Each handler is an async function: it goes on after its page  *)
(* is gone, reads the shared session at every request and the shared draft *)
(* when it needs it, and navigates its tab wherever that is by then, while *)
(* the guards redirect on their own from the cached queries.               *)
(***************************************************************************)
EXTENDS WebPages

CONSTANTS Opens,    \* routes that users open by themselves
          Kept      \* sessions that the browser may have kept from an earlier visit

ASSUME OpensAssumption == Opens \subseteq Routes /\ Kept \subseteq Sessions \ {NoSession}

\* No handler, or one that is done
NoFlow == [kind |-> "none", at |-> "idle", tab |-> CHOOSE t \in Tabs : TRUE,
           token |-> NoSession, reply |-> "none"]

\* A new handler takes the first slot that is free.
Idle(h) == flow[h] = NoFlow
Free(h) == Idle(h) /\ \A g \in Handlers : g < h => ~Idle(g)

\* A page disables its button while its handler runs, so a tab runs one of each kind.
FreeFor(h, t, kind) == Free(h) /\ \A g \in Handlers : flow[g].tab = t => flow[g].kind # kind

\* Handler h of tab t has sent the request `at` with the token of session s.
Calls(t, kind, at, s) == [kind |-> kind, at |-> at, tab |-> t, token |-> s, reply |-> "none"]

Proceed(h, at) == [flow EXCEPT ![h] = Calls(flow[h].tab, flow[h].kind, at, session)]
Done(h) == [flow EXCEPT ![h] = NoFlow]

Init ==
    /\ account \in [Users -> {"none", "confirmed"}]
    /\ profiles \in SUBSET {u \in Users : account[u] = "confirmed" /\ Membership[u] = "none"}
    /\ \A u \in Users : Membership[u] # "none" => account[u] = "confirmed"
    \* Supabase keeps the session of an earlier visit.
    /\ session \in {NoSession} \cup {s \in Kept : account[s.user] = "confirmed"}
    /\ draft = NoUser
    /\ tab \in [Tabs -> {Loaded(r) : r \in Opens}]
    /\ query = [k \in Keys |-> [t \in Tabs |-> EmptyCache]]
    /\ flow = [h \in Handlers |-> NoFlow]
    /\ acts = (IF session = NoSession THEN 0 ELSE 1) /\ faults = 0

\* What users do and what fails draw on one bound.
Act == acts + faults < MaxEvents /\ acts' = acts + 1 /\ UNCHANGED faults
Fault == acts + faults < MaxEvents /\ faults' = faults + 1
NoAct == UNCHANGED <<acts, faults>>

-------------------------------------------------------------------------------
(***************************************************************************)
(* Users.                                                                  *)
(***************************************************************************)
\* Document load: what ran in the tab is gone.
Reload(t, r) ==
    /\ tab' = [tab EXCEPT ![t] = Loaded(r)]
    /\ query' = [k \in Keys |-> [query[k] EXCEPT ![t] = EmptyCache]]
    /\ flow' = [h \in Handlers |-> IF flow[h].tab = t THEN NoFlow ELSE flow[h]]

Load(t) ==
    /\ Act
    /\ \E r \in Opens \cup {tab[t].route} : Reload(t, r)
    /\ UNCHANGED <<account, profiles, session, draft>>

Open(t) ==
    /\ Act
    /\ HeaderShown(t)
    /\ \E r \in Opens : tab' = [tab EXCEPT ![t] = [Navigate(t, r) EXCEPT !.landing = FALSE]]
    /\ UNCHANGED <<account, profiles, session, draft, query, flow>>

\* The window gets the focus: stale queries are asked again and Supabase repeats SIGNED_IN.
Focus(t) ==
    /\ Act
    /\ SignedIn(t)
    /\ tab' = [tab EXCEPT ![t] = Heard(t, tab[t].auth)]
    /\ UNCHANGED <<account, profiles, session, draft, query, flow>>

\* Supabase signs in, and the handler goes on with the new session.
Begin(t, s, h, kind, at) ==
    /\ FreeFor(h, t, kind)
    /\ session' = s
    /\ tab' = [tab EXCEPT ![t] = Heard(t, s)]
    /\ flow' = [flow EXCEPT ![h] = Calls(t, kind, at, s)]

\* handleSubmit of LoginPage
SignIn(t, u, h) ==
    /\ Act
    /\ View(t).show = "login"
    /\ \/ account[u] = "confirmed" /\ Begin(t, [user |-> u, aal |-> 1], h, "login", "access")
       \/ /\ account[u] = "unconfirmed"
          /\ \A g \in Handlers : flow[g].tab = t => flow[g].kind # "login"
          /\ tab' = [tab EXCEPT ![t] = Navigate(t, "checkEmail")]
          /\ UNCHANGED <<session, flow>>
    /\ UNCHANGED <<account, profiles, draft, query>>

\* handleSubmit of AdminLoginPage
StaffSignIn(t, u, h) ==
    /\ Act
    /\ View(t).show = "adminLogin"
    /\ account[u] = "confirmed"
    /\ Begin(t, [user |-> u, aal |-> 1], h, "adminLogin", "access")
    /\ UNCHANGED <<account, profiles, draft, query>>

\* handleFinalSubmit of the wizard, for who is signed in and for a new account
SubmitWizard(t, u, h) ==
    /\ Act
    /\ View(t).show = "wizard"
    /\ FreeFor(h, t, "signup")
    /\ draft' = u
    /\ \/ /\ SignedIn(t) /\ tab[t].auth.user = u
          /\ flow' = [flow EXCEPT ![h] = Calls(t, "signup", "create", session)]
          /\ UNCHANGED <<account, session, tab>>
       \/ /\ ~SignedIn(t)
          /\ account' = [account EXCEPT ![u] = IF @ = "none" THEN "unconfirmed" ELSE @]
          /\ tab' = [tab EXCEPT ![t] = Navigate(t, "checkEmail")]
          /\ UNCHANGED <<session, flow>>
       \/ /\ ~SignedIn(t) /\ account[u] = "none"      \* no confirmation required
          /\ account' = [account EXCEPT ![u] = "confirmed"]
          /\ Begin(t, [user |-> u, aal |-> 1], h, "signup", "create")
       \/ /\ ~SignedIn(t)                              \* signUp fails: the draft stays
          /\ UNCHANGED <<account, session, tab, flow>>
    /\ UNCHANGED <<profiles, query>>

\* The link of the confirmation e-mail, in any tab.
OpenEmailLink(t, u) ==
    /\ Act
    /\ account[u] = "unconfirmed"
    /\ account' = [account EXCEPT ![u] = "confirmed"]
    /\ session' = [user |-> u, aal |-> 1]
    /\ Reload(t, "callback")
    /\ UNCHANGED <<profiles, draft>>

\* The social provider sends the browser back with a session.
ReturnFromProvider(t, u) ==
    /\ Act
    /\ View(t).show \in {"login", "wizard"}
    /\ account' = [account EXCEPT ![u] = "confirmed"]
    /\ session' = [user |-> u, aal |-> 1]
    /\ Reload(t, "callback")
    /\ UNCHANGED <<profiles, draft>>

OpenRecoveryLink(t, u) ==
    /\ Act
    /\ account[u] = "confirmed"
    /\ session' = [user |-> u, aal |-> 1]
    /\ Reload(t, "reset")
    /\ UNCHANGED <<account, profiles, draft>>

\* handleSubmit of ResetPasswordPage
SubmitPassword(t, h) ==
    /\ Act
    /\ View(t).show = "reset" /\ SignedIn(t) /\ session # NoSession
    /\ FreeFor(h, t, "reset")
    /\ flow' = [flow EXCEPT ![h] = Calls(t, "reset", "resolve", session)]
    /\ UNCHANGED <<account, profiles, session, draft, tab, query>>

\* handleVerify of AdminMfaPage: the session is raised, the cached access status asked again.
VerifyMfa(t, h) ==
    /\ Act
    /\ View(t).show = "mfaForm" /\ session = tab[t].auth
    /\ FreeFor(h, t, "mfa")
    /\ LET s == [session EXCEPT !.aal = 2] IN
           /\ session' = s
           /\ tab' = [tab EXCEPT ![t] = [Heard(t, s) EXCEPT !.due = @ \ {"access"}]]
           /\ query' = [query EXCEPT !["access"][t][s.user] =
                            [Ask(@, s, AccessOf(s)) EXCEPT !.fresh = FALSE]]
           /\ flow' = [flow EXCEPT ![h] = Calls(t, "mfa", "refetch", s)]
    /\ UNCHANGED <<account, profiles, draft>>

\* handleSignOut of PlatformHeader, which goes home, and of AdminLoginPage, which stays;
\* when Supabase does not answer the session stays.
SignOut(t) ==
    /\ HeaderShown(t) /\ SignedIn(t)
    /\ \/ /\ Act
          /\ session' = NoSession
          /\ \/ tab' = [tab EXCEPT ![t] = Mounted(t, "root", NoSession)]
             \/ tab[t].route = "adminLogin" /\ tab' = [tab EXCEPT ![t] = Heard(t, NoSession)]
       \/ /\ Fault /\ UNCHANGED acts
          /\ UNCHANGED session
          /\ tab' = [tab EXCEPT ![t] = Navigate(t, "root")]
    /\ UNCHANGED <<account, profiles, draft, query, flow>>

\* Another tab of the browser signs out, or signs u in.
Elsewhere(u) ==
    /\ Act
    /\ account[u] = "confirmed"
    /\ session' \in {NoSession, [user |-> u, aal |-> 1]} \ {session}
    /\ UNCHANGED <<account, profiles, draft, tab, query, flow>>

-------------------------------------------------------------------------------
(***************************************************************************)
(* React and the query cache.                                              *)
(***************************************************************************)
\* getSession of AuthProvider
Boot(t) ==
    /\ ~tab[t].ready
    /\ tab' = [tab EXCEPT ![t] = Heard(t, session)]
    /\ NoAct /\ UNCHANGED <<account, profiles, session, draft, query, flow>>

\* What another tab did to the session is heard later.
Sync(t) ==
    /\ tab[t].ready /\ tab[t].auth # session
    /\ tab' = [tab EXCEPT ![t] = Heard(t, session)]
    /\ NoAct /\ UNCHANGED <<account, profiles, session, draft, query, flow>>

Redirect(t) ==
    /\ View(t).show = "redirect"
    /\ tab' = [tab EXCEPT ![t] = Mounted(t, View(t).to, tab[t].auth)]
    /\ NoAct /\ UNCHANGED <<account, profiles, session, draft, query, flow>>

\* A request that is under way serves the component that asks again.
Fetch(t, k) ==
    LET u == tab[t].auth.user IN
    /\ k \in tab[t].due /\ Enabled(k, t)
    /\ tab' = [tab EXCEPT ![t].due = @ \ {k}]
    /\ \/ query[k][t][u].call # "idle" /\ NoAct /\ UNCHANGED query
       \/ /\ query[k][t][u].call = "idle"
          /\ \/ query' = [query EXCEPT ![k][t][u] = Ask(@, session, ReplyOf(k, session))] /\ NoAct
             \/ query' = [query EXCEPT ![k][t][u] = Ask(@, session, "error")]
                /\ Fault /\ UNCHANGED acts
    /\ UNCHANGED <<account, profiles, session, draft, flow>>

DeliverQuery(t, k, u) ==
    /\ query[k][t][u].call # "idle"
    /\ query' = [query EXCEPT ![k][t][u] = Deliver(@)]
    /\ NoAct /\ UNCHANGED <<account, profiles, session, draft, tab, flow>>

\* A minute passes; a bounded act like those of the users.
Expire(t, u) ==
    /\ Act
    /\ query["access"][t][u].fresh
    /\ query' = [query EXCEPT !["access"][t][u].fresh = FALSE]
    /\ UNCHANGED <<account, profiles, session, draft, tab, flow>>

\* The effect of AuthCallbackPage; without a session it shows an error.
CallbackEffect(t, h) ==
    /\ tab[t].route = "callback" /\ tab[t].ready /\ tab[t].effect
    /\ tab' = [tab EXCEPT ![t].effect = FALSE]
    /\ IF SignedIn(t)
       THEN Free(h) /\ flow' = [flow EXCEPT ![h] = Calls(t, "callback", "resolve", session)]
       ELSE UNCHANGED flow
    /\ NoAct /\ UNCHANGED <<account, profiles, session, draft, query>>

\* The effect of AdminLoginPage
AdminLoginEffect(t, h) ==
    /\ tab[t].route = "adminLogin" /\ SignedIn(t) /\ tab[t].effect
    /\ Free(h)
    /\ tab' = [tab EXCEPT ![t].effect = FALSE]
    /\ flow' = [flow EXCEPT ![h] = Calls(t, "adminEffect", "access", session)]
    /\ NoAct /\ UNCHANGED <<account, profiles, session, draft, query>>

PrepareMfa(t) ==
    /\ tab[t].route = "adminMfa" /\ Surface(t) = "mfa_required" /\ tab[t].mfa = "loading"
    /\ \/ tab' = [tab EXCEPT ![t].mfa = "verify"] /\ NoAct
       \/ tab' = [tab EXCEPT ![t].mfa = "error"] /\ Fault /\ UNCHANGED acts
    /\ UNCHANGED <<account, profiles, session, draft, query, flow>>

-------------------------------------------------------------------------------
(***************************************************************************)
(* Handlers: the server answers a request, then the function goes on.      *)
(***************************************************************************)
Answer(at, s) ==
    CASE at \in {"access", "resolve"} -> AccessOf(s)
      [] at = "me" -> ProfileOf(s)
      [] at = "create" -> CreateOf(s)

ServeHandler(h) ==
    LET f == flow[h] IN
    /\ f.at \in {"access", "resolve", "me", "create"} /\ f.reply = "none"
    /\ \/ /\ flow' = [flow EXCEPT ![h].reply = Answer(f.at, f.token)]
          /\ profiles' = IF f.at = "create" /\ Answer(f.at, f.token) = "created"
                         THEN profiles \cup {f.token.user} ELSE profiles
          /\ NoAct
       \/ /\ flow' = [flow EXCEPT ![h].reply = "error"]
          /\ Fault /\ UNCHANGED <<acts, profiles>>
    /\ UNCHANGED <<account, session, draft, tab, query>>

\* The function ends by navigating its tab.
Ends(h, r) ==
    /\ flow' = Done(h)
    /\ tab' = [tab EXCEPT ![flow[h].tab] = Navigate(flow[h].tab, r)]

\* The entry is over: who it was for, if still signed in here, is to see the profile, unless
\* an answer from before the profile existed is still on its way to the cache.
Lands(h) ==
    LET t == flow[h].tab IN
    /\ flow' = Done(h)
    /\ tab' = [tab EXCEPT ![t] =
                  [Navigate(t, "profile") EXCEPT
                       !.landing = /\ tab[t].auth.user = flow[h].token.user
                                   /\ Cached("profile", t).call # "missing"]]

\* An error is shown where the page still is.
Fails(h) ==
    /\ flow[h].reply = "error"
    /\ flow' = Done(h)
    /\ NoAct /\ UNCHANGED <<account, profiles, session, draft, tab, query>>

\* LoginPage after the access status: staff are to leave.
LoginGoesOn(h) ==
    /\ flow[h].kind = "login" /\ flow[h].at = "access" /\ flow[h].reply \in AccessStatus
    /\ flow' = Proceed(h, IF flow[h].reply = "no_access" THEN "resolve" ELSE "signOut")
    /\ NoAct /\ UNCHANGED <<account, profiles, session, draft, tab, query>>

\* routeCurrentStaffSession of AdminLoginPage
StaffLoginGoesOn(h) ==
    /\ flow[h].kind \in {"adminLogin", "adminEffect"} /\ flow[h].reply \in AccessStatus
    /\ IF flow[h].reply \in {"no_access", "revoked"}
       THEN flow' = Done(h) /\ UNCHANGED tab
       ELSE Ends(h, AdminLandingRoute(flow[h].reply))
    /\ NoAct /\ UNCHANGED <<account, profiles, session, draft, query>>

\* resolvePostAuthRoute after the access status
ResolveGoesOn(h) ==
    LET f == flow[h] IN
    /\ f.at = "resolve" /\ f.reply \in AccessStatus
    /\ IF f.reply = "no_access"
       THEN flow' = Proceed(h, "me") /\ UNCHANGED <<draft, tab>>
       ELSE /\ draft' = NoUser
            /\ CASE f.kind = "reset" -> Ends(h, AdminLandingRoute(f.reply))
                 [] f.kind = "callback" -> flow' = Proceed(h, "signOut") /\ UNCHANGED tab
                 [] f.kind = "login" -> Ends(h, "adminLogin")
    /\ NoAct /\ UNCHANGED <<account, profiles, session, query>>

\* Mutant: the draft is cleared before the request that turns it into a profile is answered.
ProfileClearsDraft(h) ==
    LET f == flow[h] IN
    /\ f.at = "me" /\ f.reply \in {"found", "missing"}
    /\ draft' = NoUser
    /\ IF f.reply = "found" THEN Lands(h)
       ELSE IF draft # NoUser THEN flow' = Proceed(h, "create") /\ UNCHANGED tab
                              ELSE Ends(h, "signup")
    /\ NoAct /\ UNCHANGED <<account, profiles, session, query>>

\* ... after profiles/me: a draft becomes a profile.
ProfileGoesOn(h) ==
    LET f == flow[h] IN
    /\ f.at = "me" /\ f.reply \in {"found", "missing"}
    /\ IF f.reply = "found"
       THEN draft' = NoUser /\ Lands(h)
       ELSE /\ UNCHANGED draft
            /\ IF draft # NoUser THEN flow' = Proceed(h, "create") /\ UNCHANGED tab
                                 ELSE Ends(h, "signup")
    /\ NoAct /\ UNCHANGED <<account, profiles, session, query>>

\* ... after the profile was created, here or by the wizard.
CreateGoesOn(h) ==
    /\ flow[h].at = "create" /\ flow[h].reply \in {"created", "exists"}
    /\ draft' = NoUser
    /\ Lands(h)
    /\ NoAct /\ UNCHANGED <<account, profiles, session, query>>

\* Staff leave the public entry; whoever is signed in by now is signed out.
StaffLeaves(h) ==
    LET t == flow[h].tab IN
    /\ flow[h].at = "signOut"
    /\ flow' = Done(h)
    /\ \/ /\ session' = NoSession
          /\ tab' = [tab EXCEPT ![t] = Mounted(t, "adminLogin", NoSession)]
          /\ NoAct
       \/ /\ UNCHANGED session
          /\ tab' = [tab EXCEPT ![t] = Navigate(t, "adminLogin")]
          /\ Fault /\ UNCHANGED acts
    /\ UNCHANGED <<account, profiles, draft, query>>

MfaGoesOn(h) ==
    LET f == flow[h] IN
    /\ f.at = "refetch"
    /\ query["access"][f.tab][f.token.user].call = "idle"
    /\ Ends(h, "admin")
    /\ NoAct /\ UNCHANGED <<account, profiles, session, draft, query>>

-------------------------------------------------------------------------------
UserActs ==
    \/ \E u \in Users : Elsewhere(u)
    \/ \E t \in Tabs :
           \/ Load(t) \/ Open(t) \/ Focus(t) \/ SignOut(t)
           \/ \E u \in Users : OpenEmailLink(t, u) \/ ReturnFromProvider(t, u) \/ OpenRecoveryLink(t, u)
           \/ \E h \in Handlers :
                  \/ SubmitPassword(t, h) \/ VerifyMfa(t, h)
                  \/ \E u \in Users : SignIn(t, u, h) \/ StaffSignIn(t, u, h) \/ SubmitWizard(t, u, h)

TabStep(t) ==
    \/ Boot(t) \/ Sync(t) \/ Redirect(t) \/ PrepareMfa(t)
    \/ \E h \in Handlers : CallbackEffect(t, h) \/ AdminLoginEffect(t, h)

QueryStep(t, k) ==
    \/ Fetch(t, k)
    \/ \E u \in Users : DeliverQuery(t, k, u)

HandlerStep(h) ==
    \/ ServeHandler(h) \/ Fails(h) \/ LoginGoesOn(h) \/ StaffLoginGoesOn(h) \/ ResolveGoesOn(h)
    \/ ProfileGoesOn(h) \/ CreateGoesOn(h) \/ StaffLeaves(h) \/ MfaGoesOn(h)

Next ==
    \/ UserActs
    \/ \E t \in Tabs : TabStep(t)
    \/ \E t \in Tabs, k \in Keys : QueryStep(t, k)
    \/ \E t \in Tabs, u \in Users : Expire(t, u)
    \/ \E h \in Handlers : HandlerStep(h)

Spec == Init /\ [][Next]_vars

\* React renders, the server answers and functions go on; users and the clock need not act.
FairSpec ==
    /\ Spec
    /\ \A t \in Tabs : WF_vars(TabStep(t))
    /\ \A t \in Tabs, k \in Keys : WF_vars(QueryStep(t, k))
    /\ \A h \in Handlers : WF_vars(HandlerStep(h))

-------------------------------------------------------------------------------
IsStaff(u) == u \in Users /\ Membership[u] # "none"

AtRest(t) == Rendered(t) /\ \A h \in Handlers : flow[h].tab = t => Idle(h)

\* Where the code leaves a tab blank for ever, because a query that is disabled is pending: the
\* guest pages for an administrator, the manuscripts for somebody signed out or an administrator,
\* and the MFA page for whoever needs none (README, section 6).
StaysBlank(t) ==
    \/ HasAdminAccess(t) /\ tab[t].route \in {"login", "checkEmail", "manuscripts"}
    \/ ~SignedIn(t) /\ tab[t].route = "manuscripts"
    \/ SignedIn(t) /\ Surface(t) # "mfa_required" /\ tab[t].route = "adminMfa"

\* An administrator whose access status could not be asked again is sent in a circle, from the
\* staff login to the admin pages and back, until the earlier answer has expired.
GoesRound(t) == HasMembership(t) /\ Cached("access", t).error

\* Entry ends: once users leave a tab alone, its redirects, its queries and its handlers come to
\* rest on a page, never on a blank one nor in a loop of redirects, but for StaysBlank and
\* GoesRound, and who has just got a profile sees it.
EntryLands ==
    \A t \in Tabs :
        <>[](~StaysBlank(t) /\ ~GoesRound(t) =>
                 /\ AtRest(t)
                 /\ faults = 0 /\ tab[t].landing => View(t).show = "profile")

\* A member's signup draft leaves the browser only when the member has a profile, or when the
\* handler of another identity, which the draft is not kept apart from, clears it.
DraftIsKept ==
    [][\A u \in Users :
           draft = u /\ draft' = NoUser /\ ~IsStaff(u) =>
               u \in profiles \/ \E h \in Handlers : flow[h].token.user # u /\ flow'[h] # flow[h]]_vars

\* The public wizard is never shown to a staff identity, unless the request for the access
\* status failed or was sent with the session of somebody else.
WizardHidesStaff ==
    \A t \in Tabs :
        View(t).show = "wizard" /\ IsStaff(tab[t].auth.user) =>
            \/ Cached("access", t).error
            \/ Cached("access", t).from \notin {NoUser, tab[t].auth.user}

===============================================================================
