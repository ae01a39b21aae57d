------------------------------- MODULE WebCache -------------------------------
(***************************************************************************)
(* What a browser keeps between two pages of the web app: the Supabase     *)
(* session and the saved signup draft, which all tabs share, and per tab   *)
(* the React copy of the session, the route and the query cache.  The two  *)
(* cached queries that decide where a user may be are "access" (GET        *)
(* /admin/access) and "profile" (GET /profiles/me).                        *)
(*                                                                         *)
(* A query is asked with the session of the moment and its answer, which   *)
(* is what the server knew then, arrives in a later step: it may be older  *)
(* than the state of the server it is shown beside.                        *)
(***************************************************************************)
EXTENDS Naturals, FiniteSets

CONSTANTS
    Tabs,
    Users,
    Membership,     \* the admin_users row of a user: "none", "active" or "revoked"
    NoUser,
    Handlers,       \* slots of event handlers and effects that wait for an answer
    MaxEvents       \* bound on what users do and on the requests that fail, together

VARIABLES
    account,        \* user -> the Supabase account: "none", "unconfirmed", "confirmed"
    profiles,       \* users with a row in profiles
    session,        \* the session in the browser's storage
    draft,          \* whose signup draft is in localStorage
    tab,            \* tab -> what React holds
    query,          \* key -> tab -> user -> cached query
    flow,           \* handler -> the async function it runs
    acts, faults

vars == <<account, profiles, session, draft, tab, query, flow, acts, faults>>

ASSUME WebAssumption ==
    /\ Tabs # {}
    /\ NoUser \notin Users
    /\ Membership \in [Users -> {"none", "active", "revoked"}]
    /\ Handlers \subseteq Nat
    /\ MaxEvents \in Nat

NoSession == [user |-> NoUser, aal |-> 1]
Sessions == [user : Users, aal : {1, 2}] \cup {NoSession}

AccessStatus == {"no_access", "mfa_required", "allowed", "revoked"}
Keys == {"access", "profile"}
Replies == AccessStatus \cup {"found", "missing", "created", "exists", "error"}

Routes == {"root", "login", "signup", "checkEmail", "callback", "reset", "adminLogin",
           "adminMfa", "admin", "onboarding", "profile", "dashboard", "manuscripts"}

(***************************************************************************)
(* The server's side of a request made with the token of session s.        *)
(***************************************************************************)
AccessOf(s) ==
    CASE s.user = NoUser -> "error"
      [] s.user # NoUser /\ Membership[s.user] = "none" -> "no_access"
      [] s.user # NoUser /\ Membership[s.user] = "revoked" -> "revoked"
      [] OTHER -> IF s.aal = 2 THEN "allowed" ELSE "mfa_required"

ProfileOf(s) ==
    IF s.user = NoUser THEN "error"
    ELSE IF s.user \in profiles THEN "found" ELSE "missing"

ReplyOf(k, s) == IF k = "access" THEN AccessOf(s) ELSE ProfileOf(s)

CreateOf(s) ==
    IF s.user = NoUser \/ AccessOf(s) # "no_access" THEN "error"
    ELSE IF s.user \in profiles THEN "exists" ELSE "created"

(***************************************************************************)
(* The cache.                                                              *)
(***************************************************************************)
\* `call` is the answer on its way; `from` and `asker` are not the code's: they record whose
\* session the data and that answer were asked with.
EmptyQuery == [data |-> "unknown", from |-> NoUser, error |-> FALSE, fresh |-> FALSE,
               call |-> "idle", asker |-> NoUser]
EmptyCache == [u \in Users \cup {NoUser} |-> EmptyQuery]

Pending(q) == q.data = "unknown" /\ ~q.error

\* No staleTime for the profile: only the access status counts as fresh, for a minute.
Stale(k, q) == k = "profile" \/ ~q.fresh

Ask(q, s, reply) == [q EXCEPT !.call = reply, !.asker = s.user,
                              !.error = (q.data # "unknown") /\ q.error]

Deliver(q) ==
    IF q.call = "error"
    THEN [q EXCEPT !.error = TRUE, !.call = "idle", !.asker = NoUser]
    ELSE [EmptyQuery EXCEPT !.data = q.call, !.from = q.asker, !.fresh = TRUE]

\* The query a component of tab t reads: keyed by the user React knows, pending for nobody.
Cached(k, t) == query[k][t][tab[t].auth.user]

-------------------------------------------------------------------------------
SignedIn(t) == tab[t].ready /\ tab[t].auth # NoSession

\* resolveAdminSurfaceState
Surface(t) ==
    LET q == Cached("access", t) IN
    CASE ~tab[t].ready                 -> "loading"
      [] tab[t].ready /\ ~SignedIn(t)  -> "requires_login"
      [] SignedIn(t) /\ Pending(q)     -> "loading"
      [] SignedIn(t) /\ ~Pending(q) /\ q.data \in {"mfa_required", "revoked"} -> q.data
      [] OTHER -> IF q.data = "allowed" /\ ~q.error THEN "allowed" ELSE "denied"

HasAdminAccess(t) == Surface(t) = "allowed"
HasMembership(t) == Cached("access", t).data \in {"allowed", "mfa_required", "revoked"}

ProfileKnown(t) == Cached("profile", t).data = "found"
ProfilePending(t) == Pending(Cached("profile", t))

(***************************************************************************)
(* A component that mounts, or that hears of another user, asks for the    *)
(* queries that are stale; the request leaves when the query is enabled.   *)
(* The effects of the callback and of the staff login run at a mount and   *)
(* whenever the session object changes.                                    *)
(***************************************************************************)
DueFor(t, s) == {k \in Keys : Stale(k, query[k][t][s.user])}

HasEffect(r) == r \in {"callback", "adminLogin"}

\* Tab t shows route r to the user of session s.
Mounted(t, r, s) ==
    [tab[t] EXCEPT !.route = r, !.auth = s, !.due = DueFor(t, s), !.mfa = "loading",
                   !.effect = HasEffect(r),
                   !.landing = @ /\ s = tab[t].auth]

Navigate(t, r) == Mounted(t, r, tab[t].auth)

\* onAuthStateChange, or the answer of getSession, brings session s.
Heard(t, s) ==
    [tab[t] EXCEPT !.ready = TRUE, !.auth = s, !.due = DueFor(t, s),
                   !.effect = HasEffect(tab[t].route),
                   !.landing = @ /\ s = tab[t].auth]

\* A document that is loaded starts with an empty cache and an unknown session.
Loaded(r) == [route |-> r, ready |-> FALSE, auth |-> NoSession, due |-> {}, mfa |-> "loading",
              effect |-> HasEffect(r), landing |-> FALSE]
===============================================================================
