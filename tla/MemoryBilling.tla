---------------------------- MODULE MemoryBilling ----------------------------
(***************************************************************************)
(* The billing of an API whose authMode is "test": subscriptions, checkout  *)
(* sessions, payment events and trial starts are arrays and a map in one    *)
(* Node.js process.  Nothing is locked: a handler runs alone between two    *)
(* awaits, and what it read before an await may be stale after it.          *)
(* Time is a sequence of moments at which something happens or ends.  The   *)
(* calendar says where a month and a year lead from a moment: setUTCMonth   *)
(* runs over the end of a short month, so that the month of 31 January ends *)
(* on 3 March and that of 1 February on 1 March.                            *)
(***************************************************************************)
EXTENDS Naturals, Sequences

CONSTANTS Profiles,
          Onboarded,    \* profiles that are eligible and complete from the start
          Orders,       \* merchant order ids
          NoProfile,
          Repairs,      \* statuses that admins give subscriptions
          MonthEnd,     \* where setUTCMonth(+1) leads from each moment
          YearEnd,      \* where setUTCFullYear(+1) leads
          MaxTime,      \* bound: moments
          MaxPeriods,   \* bound: periods that begin
          MaxStarts     \* bound: trial calls of a profile under way at once

ASSUME MemoryBillingAssumption ==
    /\ Onboarded \subseteq Profiles
    /\ NoProfile \notin Profiles
    /\ Repairs \subseteq {"active", "past_due", "cancelled", "expired"}
    /\ {MaxTime, MaxPeriods, MaxStarts} \subseteq Nat

\* A period ends after it began, and a year outlasts the months begun before it.
ASSUME CalendarAssumption ==
    /\ {MonthEnd, YearEnd} \subseteq [0..MaxTime -> Nat]
    /\ \A t \in 0..MaxTime : MonthEnd[t] > t /\ \A u \in 0..t : YearEnd[t] > MonthEnd[u]

VARIABLES now,
          eligible,       \* profiles with details: they are eligible as soon as they have them
          subscriptions,  \* billingTestState.subscriptions: those of a profile, in array order
          trialStarts,    \* trialStartsByUserId: profiles whose user started a trial
          starting,       \* trial calls of a profile past their check
          periods,        \* number of periods begun; a period stands for its two timestamps
          sessions,       \* checkoutSessions
          events          \* paymentEvents

billingVars == <<now, eligible, subscriptions, trialStarts, starting, periods, sessions, events>>

Plans == {"trial", "monthly", "annual"}

PaidPlans == Plans \ {"trial"}

Subscription == [plan   : Plans,
                 status : {"trialing", "active", "past_due", "cancelled", "expired"},
                 period : Nat,
                 ends   : Nat]

Session == [status  : {"none", "created", "paid", "failed"},
            profile : Profiles \cup {NoProfile},
            plan    : Plans]

NoSession == [status |-> "none", profile |-> NoProfile, plan |-> "trial"]

\* A callback with an invalid hash is stored under an id of its own.
EventIds == Orders \X {"callback", "invalid_hash"}

EventStatus == {"none", "stored", "processed", "failed"}

BillingTypeOK ==
    /\ now \in 0..MaxTime
    /\ eligible \subseteq Profiles
    /\ subscriptions \in [Profiles -> Seq(Subscription)]
    /\ trialStarts \subseteq Profiles
    /\ starting \in [Profiles -> Nat]
    /\ periods \in Nat
    /\ sessions \in [Orders -> Session]
    /\ events \in [EventIds -> EventStatus]
    /\ \A o \in Orders : sessions[o].status # "none" =>
         sessions[o].profile \in Profiles /\ sessions[o].plan \in PaidPlans

BillingInit ==
    /\ now = 0
    /\ eligible = Onboarded
    /\ subscriptions = [p \in Profiles |-> <<>>]
    /\ trialStarts = {}
    /\ starting = [p \in Profiles |-> 0]
    /\ periods = 0
    /\ sessions = [o \in Orders |-> NoSession]
    /\ events = [e \in EventIds |-> "none"]

-----------------------------------------------------------------------------
\* Read models

Ready(p) == p \in eligible

Live(s) == s.status \in {"trialing", "active"} /\ s.ends > now

Subscribed(p) == subscriptions[p] # <<>>

\* The sort by currentPeriodEnd is stable: of two that end last, the first.
EndsLast(s, i) ==
    \A j \in DOMAIN s : s[j].ends < s[i].ends \/ (s[j].ends = s[i].ends /\ i <= j)

LastEnding(s) == s[CHOOSE i \in DOMAIN s : EndsLast(s, i)]

Current(p) == LastEnding(subscriptions[p])

Active(p) == Subscribed(p) /\ Live(Current(p))

\* Mutant: nobody asks whether the trial is used.
EntitlementStatusFirstTrial(p) ==
    IF ~Ready(p) THEN "profile_incomplete"
    ELSE IF Active(p) THEN Current(p).status
    ELSE IF Subscribed(p) /\ Current(p).plan \in PaidPlans THEN "inactive"
    ELSE "trial_available"

EntitlementStatus(p) ==
    IF ~Ready(p) THEN "profile_incomplete"
    ELSE IF Active(p) THEN Current(p).status
    ELSE IF Subscribed(p) /\ Current(p).plan \in PaidPlans THEN "inactive"
    ELSE IF p \in trialStarts THEN "expired"
    ELSE "trial_available"

MayStartTrial(p) == Ready(p) /\ p \notin trialStarts

\* What the denial of a capability tells the user to do.
RecoveryAction(p) ==
    CASE EntitlementStatus(p) = "profile_incomplete" -> "complete_profile"
      [] EntitlementStatus(p) = "trial_available" -> "start_trial"
      [] OTHER -> "subscribe"

MayCheckout(p) ==
    /\ EntitlementStatus(p) \in {"trial_available", "trialing", "expired", "inactive"}
    /\ ~(Active(p) /\ Current(p).plan \in PaidPlans)

-----------------------------------------------------------------------------
\* Trial

\* addMonths and addBillingPeriod: the end of a period of the plan that begins now. A
\* period that begins later may end earlier.
PeriodEnd(plan) == IF plan = "annual" THEN YearEnd[now] ELSE MonthEnd[now]

\* A subscription in a period that begins now.
BegunNow(status, plan) ==
    [plan |-> plan, status |-> status, period |-> periods + 1, ends |-> PeriodEnd(plan)]

\* startBillingTrial reads the read models, and awaits.
BeginTrial(p) ==
    /\ MayStartTrial(p)
    /\ starting[p] < MaxStarts
    /\ starting' = [starting EXCEPT ![p] = @ + 1]
    /\ UNCHANGED <<now, eligible, subscriptions, trialStarts, periods, sessions, events>>

\* It appends the trial; nothing is checked again.
FinishTrial(p) ==
    /\ starting[p] > 0
    /\ periods < MaxPeriods
    /\ starting' = [starting EXCEPT ![p] = @ - 1]
    /\ subscriptions' = [subscriptions EXCEPT ![p] = Append(@, BegunNow("trialing", "trial"))]
    /\ trialStarts' = trialStarts \cup {p}
    /\ periods' = periods + 1
    /\ UNCHANGED <<now, eligible, sessions, events>>

-----------------------------------------------------------------------------
\* PayTR

\* createPaytrCheckoutToken awaits the price and the adapter between its checks and its
\* insert. They are one step here: a session means nothing to anyone before its callback,
\* so an insert after the awaits leaves what an insert before them leaves.
Checkout(o, p, plan) ==
    /\ sessions[o].status = "none"
    /\ MayCheckout(p)
    /\ sessions' = [sessions EXCEPT ![o] = [status |-> "created", profile |-> p, plan |-> plan]]
    /\ UNCHANGED <<now, eligible, subscriptions, trialStarts, starting, periods, events>>

\* addTestPaymentEvent keeps an event that is there.
StoreEvent(e, status) ==
    events' = [events EXCEPT ![e] = IF @ = "none" THEN status ELSE @]

Unsettled(o) == events[<<o, "callback">>] # "processed"

\* An order the API has no session of, or a status it does not know.
StoreCallback(o) ==
    /\ Unsettled(o)
    /\ StoreEvent(<<o, "callback">>, "stored")
    /\ UNCHANGED <<now, eligible, subscriptions, trialStarts, starting, periods, sessions>>

FailedCallback(o) ==
    /\ Unsettled(o)
    /\ sessions[o].status # "none"
    /\ sessions' = [sessions EXCEPT ![o].status = "failed"]
    /\ events' = [events EXCEPT ![<<o, "callback">>] = "failed"]
    /\ UNCHANGED <<now, eligible, subscriptions, trialStarts, starting, periods>>

\* Mutant: the subscription keeps the status it has.
RenewedKeepingStatus(o) ==
    LET s == subscriptions[sessions[o].profile] IN
    IF s = <<>> THEN <<BegunNow("active", sessions[o].plan)>>
    ELSE [s EXCEPT ![1] = BegunNow(s[1].status, sessions[o].plan)]

\* The first subscription of the profile is renewed in place.
Renewed(o) ==
    LET s == subscriptions[sessions[o].profile]
        begun == BegunNow("active", sessions[o].plan) IN
    IF s = <<>> THEN <<begun>> ELSE [s EXCEPT ![1] = begun]

SuccessCallback(o) ==
    /\ Unsettled(o)
    /\ sessions[o].status # "none"
    /\ periods < MaxPeriods
    /\ sessions' = [sessions EXCEPT ![o].status = "paid"]
    /\ events' = [events EXCEPT ![<<o, "callback">>] = "processed"]
    /\ subscriptions' = [subscriptions EXCEPT ![sessions[o].profile] = Renewed(o)]
    /\ periods' = periods + 1
    /\ UNCHANGED <<now, eligible, trialStarts, starting>>

InvalidCallback(o) ==
    /\ StoreEvent(<<o, "invalid_hash">>, "failed")
    /\ UNCHANGED <<now, eligible, subscriptions, trialStarts, starting, periods, sessions>>

-----------------------------------------------------------------------------
\* Repairs and onboarding

MarkEventProcessed(e) ==
    /\ events[e] # "none"
    /\ events' = [events EXCEPT ![e] = "processed"]
    /\ UNCHANGED <<now, eligible, subscriptions, trialStarts, starting, periods, sessions>>

ReconcileStatus(p, i, status) ==
    /\ subscriptions' = [subscriptions EXCEPT ![p][i].status = status]
    /\ UNCHANGED <<now, eligible, trialStarts, starting, periods, sessions, events>>

\* completeTestProfileDetails. A decision of an admin about a profile changes only the
\* lists of the admin pages (updateTestProfileLifecycle), never this state.
CompleteDetails(p) ==
    /\ eligible' = eligible \cup {p}
    /\ UNCHANGED <<now, subscriptions, trialStarts, starting, periods, sessions, events>>

TimePasses ==
    /\ now < MaxTime
    /\ now' = now + 1
    /\ UNCHANGED <<eligible, subscriptions, trialStarts, starting, periods, sessions, events>>

BillingNext ==
    \/ TimePasses
    \/ \E p \in Profiles :
         \/ BeginTrial(p) \/ FinishTrial(p) \/ CompleteDetails(p)
         \/ \E o \in Orders, plan \in PaidPlans : Checkout(o, p, plan)
         \/ \E i \in DOMAIN subscriptions[p], status \in Repairs :
              ReconcileStatus(p, i, status)
    \/ \E o \in Orders :
         \/ StoreCallback(o) \/ FailedCallback(o) \/ SuccessCallback(o) \/ InvalidCallback(o)
    \/ \E e \in EventIds : MarkEventProcessed(e)
-----------------------------------------------------------------------------
\* A denial tells the user what to do (entitlements.ts), and the user can do it: the
\* trial it offers can be started, the checkout it offers can be entered, the profile it
\* asks to complete is not ready.
RecoveryHelps ==
    \A p \in Profiles : ~Active(p) =>
        CASE RecoveryAction(p) = "start_trial"      -> MayStartTrial(p)
          [] RecoveryAction(p) = "subscribe"        -> MayCheckout(p)
          [] RecoveryAction(p) = "complete_profile" -> ~Ready(p)

\* The step in which order o is paid.
PaidNow(o) == sessions[o].status # "paid" /\ sessions'[o].status = "paid"

\* A payment is final and counts once (processPaytrWebhook): no later callback or repair
\* takes a session out of paid, and a subscription begins a paid period only in the step
\* in which an order of its profile becomes paid.
PaymentCountsOnce ==
    [][/\ \A o \in Orders : sessions[o].status = "paid" => sessions'[o].status = "paid"
       /\ \A p \in Profiles : \A i \in DOMAIN subscriptions'[p] :
            /\ subscriptions'[p][i].plan \in PaidPlans
            /\ subscriptions'[p][i].period > periods
            => \E o \in Orders : sessions[o].profile = p /\ PaidNow(o)
      ]_billingVars

\* A trial behind the renewed subscription ends after a month that begins now.
Overtakes(p, plan) ==
    /\ plan = "monthly"
    /\ \E i \in DOMAIN subscriptions[p] \ {1} :
         subscriptions[p][i].plan = "trial" /\ subscriptions[p][i].ends > MonthEnd[now]

\* Money buys the plan (processPaytrWebhook and buildBillingReadModels): the payment
\* renews the first subscription of the profile, the read models take the one that ends
\* last, and when an order is paid the two agree, whatever trials, repairs and payments
\* came before. The one exception is a month paid while the month of a trial that began
\* earlier runs past its end: then the read models keep to the trial.
PaymentTakesEffect ==
    [][\A o \in Orders : PaidNow(o) =>
         LET p == sessions[o].profile IN
         \/ Active(p)' /\ Current(p)'.plan = sessions[o].plan
         \/ Overtakes(p, sessions[o].plan)
      ]_billingVars
=============================================================================
