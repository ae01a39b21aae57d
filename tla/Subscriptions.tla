---------------------------- MODULE Subscriptions ----------------------------
(***************************************************************************)
(* The `subscriptions` and `billing_trial_starts` tables of the             *)
(* marketplace, the role trial, the entitlement that the rows give and the  *)
(* repairs an admin makes.  Time passes in months.                          *)
(***************************************************************************)
EXTENDS Naturals

CONSTANTS Profiles,
          Subscribers, \* bound: the profiles that start a trial or pay
          Creates,     \* calls of create_intro_request, which lock a row
          NoCreate,
          Repairs,     \* what admins repair: "status", "event"
          MaxTime      \* bound: months

ASSUME SubscriptionsAssumption ==
    /\ Subscribers \subseteq Profiles
    /\ NoCreate \notin Creates
    /\ Repairs \subseteq {"status", "event"}
    /\ MaxTime \in Nat

VARIABLES now,
          rows,     \* `subscriptions`: the rows of a profile by what inserted them
          trials,   \* `billing_trial_starts`: who has used the trial
          periods,  \* number of periods begun; a period stands for its two timestamps
          lock      \* the call that holds a row FOR UPDATE

subscriptionVars == <<now, rows, trials, periods, lock>>

\* start_role_trial inserts at most one row of a profile, and so does
\* apply_paytr_webhook_event, which inserts when there is none.
Origins == {"trial_start", "callback"}

Plans == {"trial", "monthly", "annual"}

PlanLength == [trial |-> 1, monthly |-> 1, annual |-> 12]

LiveStatus == {"trialing", "active", "past_due"}

Row == [status : LiveStatus \cup {"none", "cancelled", "expired"},
        plan   : Plans,
        period : Nat,
        ends   : Nat]

NoRow == [status |-> "none", plan |-> "trial", period |-> 0, ends |-> 0]

SubscriptionsTypeOK ==
    /\ now \in 0..MaxTime
    /\ rows \in [Profiles -> [Origins -> Row]]
    /\ trials \subseteq Profiles
    /\ periods \in Nat
    /\ lock \in [Profiles -> [Origins -> Creates \cup {NoCreate}]]

SubscriptionsInit ==
    /\ now = 0
    /\ rows = [p \in Profiles |-> [o \in Origins |-> NoRow]]
    /\ trials = {}
    /\ periods = 0
    /\ lock = [p \in Profiles |-> [o \in Origins |-> NoCreate]]

\* A row with trialing or active, and a period that has not ended.
Entitling(row) == row.status \in {"trialing", "active"} /\ row.ends > now

\* The rows that end last: the read models take one of these.
Latest(p) ==
    {o \in Origins : /\ rows[p][o].status # "none"
                     /\ \A q \in Origins : rows[p][q].status # "none"
                                             => rows[p][q].ends <= rows[p][o].ends}

\* subscriptions_one_activeish_per_profile_idx, when row o of p becomes live.
IndexAllows(p, o) == \A q \in Origins \ {o} : rows[p][q].status \notin LiveStatus

\* Mutant: nobody waits for a row that a create holds.
RowFreeAlways(p, o) == TRUE

\* Nobody holds the row.
RowFree(p, o) == lock[p][o] = NoCreate

SetRow(p, o, row) == rows' = [rows EXCEPT ![p][o] = row]

\* A row in a period that begins now.
BegunNow(status, plan) ==
    [status |-> status, plan |-> plan, period |-> periods + 1, ends |-> now + PlanLength[plan]]

-----------------------------------------------------------------------------

\* start_role_trial, for a profile that is eligible and complete.
StartTrial(p) ==
    /\ p \notin trials
    /\ IndexAllows(p, "trial_start")
    /\ SetRow(p, "trial_start", BegunNow("trialing", "trial"))
    /\ trials' = trials \cup {p}
    /\ periods' = periods + 1
    /\ UNCHANGED <<now, lock>>

\* reconcile_subscription_status of repair_billing_subscription.
RepairStatus(p, o, status) ==
    /\ "status" \in Repairs
    /\ rows[p][o].status # "none"
    /\ RowFree(p, o)
    /\ status \in LiveStatus => IndexAllows(p, o)
    /\ SetRow(p, o, [rows[p][o] EXCEPT !.status = status])
    /\ UNCHANGED <<now, trials, periods, lock>>

RepairedStatus == {"active", "past_due", "cancelled", "expired"}

MonthPasses ==
    /\ now < MaxTime
    /\ now' = now + 1
    /\ UNCHANGED <<rows, trials, periods, lock>>

SubscriptionsNext ==
    \/ MonthPasses
    \/ \E p \in Subscribers : StartTrial(p)
    \/ \E p \in Subscribers, o \in Origins, status \in RepairedStatus : RepairStatus(p, o, status)
=============================================================================
