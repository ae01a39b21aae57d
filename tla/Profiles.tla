------------------------------- MODULE Profiles -------------------------------
(***************************************************************************)
(* Accounts: marketplace profiles and their onboarding, and admin access.   *)
(* An insert and the trigger that looks at the other table are one          *)
(* transaction, which does not see what another has not committed.          *)
(***************************************************************************)
EXTENDS Naturals, FiniteSets

CONSTANTS Users,
          Staff,  \* accounts on FIRST_ADMIN_EMAIL_ALLOWLIST
          Roles

ASSUME AccountAssumption == Staff \subseteq Users /\ Roles \subseteq {"author", "publisher"}

VARIABLES profiles, \* `profiles`, with whether there is a details row of the role
          admins,   \* `admin_users`
          signups,  \* what is left to do of a request to create a profile
          grants    \* what is left to do of a run of the first-admin script

accountVars == <<profiles, admins, signups, grants>>

Profile == [role : {"none", "author", "publisher"}, done : BOOLEAN,
            eligibility : {"limited", "eligible", "blocked", "quarantined"},
            outcome : {"needs_review", "auto_approved", "admin_approved", "admin_rejected",
                       "quarantined"}]

NewProfile(role) ==
    [role |-> role, done |-> FALSE, eligibility |-> "limited", outcome |-> "needs_review"]

NoProfile == NewProfile("none")

AccountTypeOK ==
    /\ profiles \in [Users -> Profile]
    /\ admins \in [Users -> {"none", "active", "revoked"}]
    /\ signups \in [Users -> {"idle", "insert", "commit"}]
    /\ grants \in [Users -> {"idle", "check", "insert", "commit"}]

AccountInit ==
    /\ profiles = [u \in Users |-> NoProfile]
    /\ admins = [u \in Users |-> "none"]
    /\ signups = [u \in Users |-> "idle"]
    /\ grants = [u \in Users |-> "idle"]

-----------------------------------------------------------------------------
\* What the API knows of an account in a session of an assurance level.
AdminAccess(u, level) ==
    CASE admins[u] = "none"    -> "no_access"
      [] admins[u] = "revoked" -> "revoked"
      [] level = "aal2"        -> "allowed"
      [] OTHER                 -> "mfa_required"

HasAdminMembership(u) == AdminAccess(u, "aal1") # "no_access"

MayAdminister(u, level) == AdminAccess(u, level) = "allowed"

-----------------------------------------------------------------------------

CheckSignup(u) ==
    /\ signups[u] = "idle"
    /\ ~HasAdminMembership(u)
    /\ signups' = [signups EXCEPT ![u] = "insert"]
    /\ UNCHANGED <<profiles, admins, grants>>

\* prevent_profile_for_admin_user.
InsertProfile(u) ==
    /\ signups[u] = "insert"
    /\ signups' = [signups EXCEPT ![u] = IF admins[u] = "active" THEN "idle" ELSE "commit"]
    /\ UNCHANGED <<profiles, admins, grants>>

\* An account has one profile: the unique index refuses another.
CommitProfile(u, role) ==
    /\ signups[u] = "commit"
    /\ signups' = [signups EXCEPT ![u] = "idle"]
    /\ profiles' = IF profiles[u] = NoProfile
                   THEN [profiles EXCEPT ![u] = NewProfile(role)]
                   ELSE profiles
    /\ UNCHANGED <<admins, grants>>

\* Details are for the role of the profile.
MayComplete(u, role) == ~HasAdminMembership(u) /\ profiles[u].role = role

\* complete_profile_onboarding_details: whatever was decided on the profile before.
CompleteDetails(u, role) ==
    /\ MayComplete(u, role)
    /\ profiles' = [profiles EXCEPT ![u] =
                      [role |-> role, done |-> TRUE,
                       eligibility |-> "eligible", outcome |-> "auto_approved"]]
    /\ UNCHANGED <<admins, signups, grants>>

-----------------------------------------------------------------------------

StartGrant(u) ==
    /\ grants[u] = "idle"
    /\ grants' = [grants EXCEPT ![u] = IF profiles[u] = NoProfile THEN "check" ELSE "idle"]
    /\ UNCHANGED <<profiles, admins, signups>>

CheckGrant(u) ==
    /\ grants[u] = "check"
    /\ grants' = [grants EXCEPT ![u] = IF admins[u] = "active" THEN "idle" ELSE "insert"]
    /\ UNCHANGED <<profiles, admins, signups>>

\* prevent_admin_access_for_profile_user.
InsertAdmin(u) ==
    /\ grants[u] = "insert"
    /\ grants' = [grants EXCEPT ![u] = IF profiles[u] = NoProfile THEN "commit" ELSE "idle"]
    /\ UNCHANGED <<profiles, admins, signups>>

\* A revoked row is in the way of the insert.
CommitAdmin(u) ==
    /\ grants[u] = "commit"
    /\ grants' = [grants EXCEPT ![u] = "idle"]
    /\ admins' = IF admins[u] = "none" THEN [admins EXCEPT ![u] = "active"] ELSE admins
    /\ UNCHANGED <<profiles, signups>>

RevokeAdmin(u) ==
    /\ admins[u] = "active"
    /\ admins' = [admins EXCEPT ![u] = "revoked"]
    /\ UNCHANGED <<profiles, signups, grants>>

AccountNext ==
    \/ \E u \in Users :
        \/ CheckSignup(u) \/ InsertProfile(u) \/ RevokeAdmin(u)
        \/ \E role \in Roles : CommitProfile(u, role) \/ CompleteDetails(u, role)
    \/ \E u \in Staff : StartGrant(u) \/ CheckGrant(u) \/ InsertAdmin(u) \/ CommitAdmin(u)

=============================================================================
