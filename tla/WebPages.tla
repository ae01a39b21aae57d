------------------------------- MODULE WebPages -------------------------------
(***************************************************************************)
(* What a tab renders: the guards of the route table and the redirects of  *)
(* the pages, as a function of the route, the session React knows and the  *)
(* two cached queries.  A view is a page, a "wait" or "blank" that lasts   *)
(* until an answer arrives, or a redirect.                                 *)
(***************************************************************************)
EXTENDS WebCache

Shows(p) == [show |-> p, to |-> "root"]
Goes(r) == [show |-> "redirect", to |-> r]

LandingRoute(hasAdminAccess, hasProfile) ==
    IF hasAdminAccess THEN "admin" ELSE IF hasProfile THEN "profile" ELSE "signup"

AdminLandingRoute(status) ==
    CASE status = "allowed" -> "admin"
      [] status = "mfa_required" -> "adminMfa"
      [] OTHER -> "adminLogin"

HomePage(t) ==
    CASE Surface(t) = "loading" -> Shows("blank")
      [] HasAdminAccess(t) -> Goes("admin")
      [] OTHER -> Shows("home")

AuthGuard(t, page) ==
    CASE ~tab[t].ready -> Shows("blank")
      [] tab[t].ready /\ ~SignedIn(t) -> Goes("login")
      [] OTHER -> page

AdminGuard(t, page) ==
    CASE Surface(t) = "loading" -> Shows("blank")
      [] Surface(t) = "requires_login" -> Goes("adminLogin")
      [] Surface(t) = "mfa_required" -> Goes("adminMfa")
      [] Surface(t) = "revoked" -> Shows("accessBlocked")
      [] Surface(t) = "denied" -> Goes("dashboard")
      [] OTHER -> page

\* The order of the tests is the code's: a profile query that is disabled is pending.
AuthorGuard(t, page) ==
    IF ~tab[t].ready \/ Surface(t) = "loading" \/ ProfilePending(t) THEN Shows("blank")
    ELSE IF ~SignedIn(t) THEN Goes("login")
    ELSE IF HasAdminAccess(t) THEN Goes("admin")
    ELSE IF ~ProfileKnown(t) THEN Goes("signup")
    ELSE page

GuestGuard(t, page) ==
    IF ~tab[t].ready THEN Shows("blank")
    ELSE IF ~SignedIn(t) \/ tab[t].route = "signup" THEN page
    ELSE IF Surface(t) = "loading" \/ ProfilePending(t) THEN Shows("blank")
    ELSE Goes(LandingRoute(HasAdminAccess(t), ProfileKnown(t)))

\* Mutant: the wizard does not wait for the access status.
EagerSignupPage(t) ==
    CASE HasAdminAccess(t) -> Goes("admin")
      [] Surface(t) = "mfa_required" -> Goes("adminMfa")
      [] ~HasAdminAccess(t) /\ Surface(t) # "mfa_required" /\ HasMembership(t) -> Goes("adminLogin")
      [] ~HasMembership(t) /\ ProfileKnown(t) -> Goes("profile")
      [] OTHER -> IF SignedIn(t) /\ ProfilePending(t) THEN Shows("wait") ELSE Shows("wizard")

\* Mutant: the wizard does not look whether there is a profile by now.
SignupPageForever(t) ==
    CASE HasAdminAccess(t) -> Goes("admin")
      [] Surface(t) = "mfa_required" -> Goes("adminMfa")
      [] ~HasAdminAccess(t) /\ Surface(t) # "mfa_required" /\ HasMembership(t) -> Goes("adminLogin")
      [] OTHER -> IF SignedIn(t) /\ (ProfilePending(t) \/ Surface(t) = "loading")
                  THEN Shows("wait") ELSE Shows("wizard")

\* getRedirectTo and showProfileLoading of useSignupFlow
SignupPage(t) ==
    CASE HasAdminAccess(t) -> Goes("admin")
      [] Surface(t) = "mfa_required" -> Goes("adminMfa")
      [] ~HasAdminAccess(t) /\ Surface(t) # "mfa_required" /\ HasMembership(t) -> Goes("adminLogin")
      [] ~HasMembership(t) /\ ProfileKnown(t) -> Goes("profile")
      [] OTHER -> IF SignedIn(t) /\ (ProfilePending(t) \/ Surface(t) = "loading")
                  THEN Shows("wait") ELSE Shows("wizard")

AdminMfaPage(t) ==
    CASE Surface(t) = "loading" \/ tab[t].mfa = "loading" -> Shows("blank")
      [] Surface(t) = "allowed" -> Goes("admin")
      [] Surface(t) # "mfa_required" -> Goes("adminLogin")
      [] OTHER -> Shows("mfaForm")

\* ProfilePage and DashboardPage make the same tests.
MarketplacePage(t, page) ==
    IF HasAdminAccess(t) THEN Goes("admin")
    ELSE IF Surface(t) = "loading" \/ ProfilePending(t) THEN Shows("wait")
    ELSE IF Cached("profile", t).error THEN Shows("error")
    ELSE IF ~ProfileKnown(t) THEN Goes("signup")
    ELSE Shows(page)

View(t) ==
    LET r == tab[t].route IN
    CASE r = "root" -> HomePage(t)
      [] r \in {"login", "checkEmail"} -> GuestGuard(t, Shows(r))
      [] r = "signup" -> GuestGuard(t, SignupPage(t))
      [] r \in {"callback", "reset", "adminLogin"} -> Shows(r)
      [] r = "adminMfa" -> AuthGuard(t, AdminMfaPage(t))
      [] r = "admin" -> AdminGuard(t, Shows("admin"))
      [] r = "onboarding" -> AuthGuard(t, Goes("profile"))
      [] r \in {"profile", "dashboard"} -> AuthGuard(t, MarketplacePage(t, r))
      [] r = "manuscripts" -> AuthorGuard(t, Shows(r))

Rendered(t) == View(t).show \notin {"redirect", "blank", "wait"}

\* PlatformHeader is part of every page but the redirects, the blank ones and the admin's.
HeaderShown(t) == View(t).show \notin {"redirect", "blank", "accessBlocked", "admin"}

(***************************************************************************)
(* A query is enabled by the components that are mounted: the header asks  *)
(* for the profile while the access status is still unknown, the guards    *)
(* and pages wait for it, and nobody asks on behalf of an admin.           *)
(***************************************************************************)
Enabled(k, t) ==
    /\ SignedIn(t)
    /\ k = "profile" =>
           /\ ~HasAdminAccess(t)
           /\ \/ HeaderShown(t)
              \/ /\ Surface(t) # "loading"
                 /\ tab[t].route \in {"login", "checkEmail", "signup", "profile", "dashboard",
                                      "manuscripts"}
===============================================================================
