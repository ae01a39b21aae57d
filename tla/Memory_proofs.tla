----------------------------- MODULE Memory_proofs -----------------------------
(***************************************************************************)
(* Theorems about the in-memory API, for any profiles, orders, manuscripts, *)
(* calls, quotas, documents, uploads and decisions.  The first part is      *)
(* about MemoryIntros, and MemoryBilling under it; the second shows that    *)
(* the steps of MemoryDocuments are steps of MemoryIntros, which makes the  *)
(* theorems of the first part hold of it, and that its documents keep what  *)
(* handlers that overlap could break.                                       *)
(***************************************************************************)
EXTENDS MemoryDocuments, FiniteSetTheorems, WellFoundedInduction, TLAPS

USE MemoryBillingAssumption, MemoryIntrosAssumption

-----------------------------------------------------------------------------
\* Subscriptions, sessions and events

\* A paid session has a processed event, whose later callbacks are dropped.
PaidIsProcessed ==
    \A o \in Orders : sessions[o].status = "paid" => events[<<o, "callback">>] = "processed"

PeriodsAreBegun ==
    \A p \in Profiles : \A i \in DOMAIN subscriptions[p] : subscriptions[p][i].period <= periods

\* A month or a year that began by now ends at one of these.
EndsBegun(i) == {MonthEnd[t] : t \in 0..now} \cup
                (IF i = 1 THEN {YearEnd[t] : t \in 0..now} ELSE {})

\* Only the first subscription is ever renewed: the others are trials.
LaterAreTrials ==
    \A p \in Profiles : \A i \in DOMAIN subscriptions[p] :
        /\ subscriptions[p][i].ends \in EndsBegun(i)
        /\ i # 1 => subscriptions[p][i].plan = "trial"

BillingInvariant == BillingTypeOK /\ PaidIsProcessed /\ PeriodsAreBegun /\ LaterAreTrials

LEMMA PeriodEnds ==
  ASSUME BillingTypeOK, NEW q \in Plans
  PROVE  /\ PeriodEnd(q) \in Nat /\ PeriodEnd(q) > now
         /\ PeriodEnd(q) \in EndsBegun(1)
         /\ q # "annual" => \A i : PeriodEnd(q) \in EndsBegun(i)
         /\ q = "annual" => \A t \in 0..now : MonthEnd[t] < PeriodEnd(q)
         /\ q # "annual" => PeriodEnd(q) = MonthEnd[now]
         /\ \A t \in 0..now : MonthEnd[t] \in Nat
<1>1. now \in 0..MaxTime /\ MaxTime \in Nat /\ now \in 0..now
  BY DEF BillingTypeOK
<1>2. MonthEnd \in [0..MaxTime -> Nat] /\ YearEnd \in [0..MaxTime -> Nat]
  BY CalendarAssumption
<1>3. MonthEnd[now] > now /\ \A u \in 0..now : YearEnd[now] > MonthEnd[u]
  BY <1>1, CalendarAssumption
<1>4. \A u \in 0..now : MonthEnd[u] \in Nat
  BY <1>1, <1>2
<1>5. MonthEnd[now] \in Nat /\ YearEnd[now] \in Nat /\ YearEnd[now] > now
  BY <1>1, <1>2, <1>3
<1>6. CASE q = "annual"
  BY <1>1, <1>3, <1>4, <1>5, <1>6 DEF PeriodEnd, EndsBegun
<1>7. CASE q # "annual"
  BY <1>1, <1>3, <1>4, <1>5, <1>7 DEF PeriodEnd, EndsBegun
<1> QED
  BY <1>6, <1>7

LEMMA BegunIsSubscription ==
  ASSUME BillingTypeOK, NEW q \in Plans, NEW s \in {"trialing", "active"}
  PROVE  /\ BegunNow(s, q) \in Subscription
         /\ BegunNow(s, q).period = periods + 1
         /\ BegunNow(s, q).ends = PeriodEnd(q)
         /\ BegunNow(s, q).plan = q /\ BegunNow(s, q).status = s
<1>1. periods \in Nat
  BY DEF BillingTypeOK
<1>2. PeriodEnd(q) \in Nat
  BY PeriodEnds
<1> QED
  BY <1>1, <1>2 DEF BegunNow, Subscription

LEMMA BillingInitially == BillingInit => BillingInvariant
<1> SUFFICES ASSUME BillingInit PROVE BillingInvariant
  OBVIOUS
<1>1. BillingTypeOK
  <2>1. 0 \in 0..MaxTime /\ <<>> \in Seq(Subscription)
    OBVIOUS
  <2>2. NoSession \in Session /\ NoSession.status = "none"
    BY DEF NoSession, Session, Plans
  <2>3. "none" \in EventStatus
    BY DEF EventStatus
  <2> QED
    BY <2>1, <2>2, <2>3 DEF BillingInit, BillingTypeOK
<1>2. PaidIsProcessed /\ PeriodsAreBegun /\ LaterAreTrials
  BY DEF BillingInit, PaidIsProcessed, PeriodsAreBegun, LaterAreTrials, NoSession
<1> QED
  BY <1>1, <1>2 DEF BillingInvariant

LEMMA SubscriptionFacts ==
  ASSUME BillingTypeOK, NEW p \in Profiles
  PROVE  /\ subscriptions[p] \in Seq(Subscription)
         /\ \A i \in DOMAIN subscriptions[p] :
              /\ subscriptions[p][i] \in Subscription
              /\ subscriptions[p][i].period \in Nat /\ subscriptions[p][i].ends \in Nat
              /\ subscriptions[p][i].plan \in Plans
<1> DEFINE s == subscriptions[p]
<1>1. s \in Seq(Subscription)
  BY DEF BillingTypeOK
<1> HIDE DEF s
<1>2. \A i \in DOMAIN s : s[i] \in Subscription
  BY <1>1
<1>3. \A r \in Subscription : r.period \in Nat /\ r.ends \in Nat /\ r.plan \in Plans
  BY DEF Subscription
<1>4. \A i \in DOMAIN s : s[i] \in Subscription /\ s[i].period \in Nat /\ s[i].ends \in Nat
                            /\ s[i].plan \in Plans
  BY <1>2, <1>3
<1> QED
  BY <1>1, <1>4 DEF s

\* The subscriptions of one profile change: s is what becomes of them.
LEMMA SubscriptionsStep ==
  ASSUME BillingInvariant, NEW p \in Profiles, NEW s \in Seq(Subscription),
         subscriptions' = [subscriptions EXCEPT ![p] = s],
         now' = now, periods' \in Nat, periods <= periods',
         \A i \in DOMAIN s :
            /\ s[i].period <= periods'
            /\ s[i].ends \in EndsBegun(i)
            /\ i # 1 => s[i].plan = "trial"
  PROVE  /\ subscriptions' \in [Profiles -> Seq(Subscription)]
         /\ PeriodsAreBegun' /\ LaterAreTrials'
<1>1. subscriptions \in [Profiles -> Seq(Subscription)] /\ periods \in Nat
  BY DEF BillingInvariant, BillingTypeOK
<1>2. subscriptions' \in [Profiles -> Seq(Subscription)]
  BY <1>1
<1>3. \A r \in Profiles : subscriptions'[r] = IF r = p THEN s ELSE subscriptions[r]
  BY <1>1
<1>4. \A r \in Profiles : \A i \in DOMAIN subscriptions[r] : subscriptions[r][i].period \in Nat
  BY SubscriptionFacts DEF BillingInvariant
<1>5. PeriodsAreBegun'
  BY <1>1, <1>3, <1>4 DEF BillingInvariant, PeriodsAreBegun
<1>6. LaterAreTrials'
  BY <1>3 DEF BillingInvariant, LaterAreTrials, EndsBegun
<1> QED
  BY <1>2, <1>5, <1>6

\* What a payment makes of the subscriptions of a profile.
LEMMA RenewedFacts ==
  ASSUME BillingTypeOK, NEW o \in Orders, sessions[o].status # "none"
  PROVE  LET p == sessions[o].profile
             begun == BegunNow("active", sessions[o].plan) IN
         /\ p \in Profiles /\ sessions[o].plan \in PaidPlans
         /\ Renewed(o) \in Seq(Subscription) /\ Renewed(o) # <<>>
         /\ Renewed(o)[1] = begun
         /\ \A i \in DOMAIN Renewed(o) :
              i # 1 => i \in DOMAIN subscriptions[p] /\ Renewed(o)[i] = subscriptions[p][i]
<1> DEFINE p == sessions[o].profile
           begun == BegunNow("active", sessions[o].plan)
           s == subscriptions[p]
<1>1. p \in Profiles /\ sessions[o].plan \in PaidPlans
  BY DEF BillingTypeOK
<1>2. begun \in Subscription
  BY <1>1, BegunIsSubscription DEF PaidPlans
<1>3. s \in Seq(Subscription)
  BY <1>1 DEF BillingTypeOK
<1>4. Renewed(o) = IF s = <<>> THEN <<begun>> ELSE [s EXCEPT ![1] = begun]
  BY DEF Renewed
<1> HIDE DEF s, begun
<1>5. Renewed(o) \in Seq(Subscription) /\ Renewed(o) # <<>> /\ Renewed(o)[1] = begun
  BY <1>2, <1>3, <1>4
<1>6. \A i \in DOMAIN Renewed(o) : i # 1 => i \in DOMAIN s /\ Renewed(o)[i] = s[i]
  BY <1>2, <1>3, <1>4
<1> QED
  BY <1>1, <1>5, <1>6 DEF s, begun

\* A step of billing that leaves the subscriptions alone.
LEMMA SubscriptionsFrame ==
  ASSUME BillingInvariant, UNCHANGED <<subscriptions, periods>>, now' \in Nat, now <= now'
  PROVE  PeriodsAreBegun' /\ LaterAreTrials'
<1>1. now \in Nat /\ subscriptions \in [Profiles -> Seq(Subscription)]
  BY DEF BillingInvariant, BillingTypeOK
<1>2. \A i : EndsBegun(i) \subseteq EndsBegun(i)'
  <2>1. 0..now \subseteq 0..now'
    BY <1>1
  <2> QED
    BY <2>1 DEF EndsBegun
<1>3. PeriodsAreBegun'
  BY DEF BillingInvariant, PeriodsAreBegun
<1>4. LaterAreTrials'
  BY <1>2 DEF BillingInvariant, LaterAreTrials
<1> QED
  BY <1>3, <1>4

\* A callback sets the status of a session and of its event.
LEMMA CallbackTypes ==
  ASSUME sessions \in [Orders -> Session], events \in [EventIds -> EventStatus],
         NEW o \in Orders, NEW status \in {"paid", "failed"}, NEW done \in EventStatus,
         sessions' = [sessions EXCEPT ![o].status = status],
         events' = [events EXCEPT ![<<o, "callback">>] = done]
  PROVE  sessions' \in [Orders -> Session] /\ events' \in [EventIds -> EventStatus]
<1>1. [sessions[o] EXCEPT !.status = status] \in Session
  BY DEF Session
<1>2. sessions' = [sessions EXCEPT ![o] = [sessions[o] EXCEPT !.status = status]]
  OBVIOUS
<1>3. sessions' \in [Orders -> Session]
  BY <1>1, <1>2
<1>4. events' \in [EventIds -> EventStatus]
  OBVIOUS
<1> QED
  BY <1>3, <1>4

LEMMA BillingSteps ==
  ASSUME BillingInvariant, BillingNext
  PROVE  BillingInvariant'
<1>0. /\ BillingTypeOK /\ PaidIsProcessed /\ PeriodsAreBegun /\ LaterAreTrials
      /\ now \in Nat /\ periods \in Nat /\ starting \in [Profiles -> Nat]
      /\ subscriptions \in [Profiles -> Seq(Subscription)]
      /\ sessions \in [Orders -> Session] /\ events \in [EventIds -> EventStatus]
      /\ \A o \in Orders : <<o, "callback">> \in EventIds /\ <<o, "invalid_hash">> \in EventIds
  BY DEF BillingInvariant, BillingTypeOK, EventIds
<1>1. CASE TimePasses
  <2>1. now' \in 0..MaxTime /\ now' = now + 1
    BY <1>1, <1>0 DEF TimePasses
  <2>2. UNCHANGED <<eligible, subscriptions, trialStarts, starting, periods, sessions, events>>
    BY <1>1 DEF TimePasses
  <2>3. BillingTypeOK'
    BY <1>0, <2>1, <2>2 DEF BillingTypeOK
  <2>4. PeriodsAreBegun' /\ LaterAreTrials'
    BY <1>0, <2>1, <2>2, SubscriptionsFrame
  <2> QED
    BY <1>0, <2>2, <2>3, <2>4 DEF BillingInvariant, PaidIsProcessed
<1>2. ASSUME NEW p \in Profiles, BeginTrial(p) \/ CompleteDetails(p)
      PROVE  BillingInvariant'
  <2>1. UNCHANGED <<now, subscriptions, trialStarts, periods, sessions, events>>
    BY <1>2 DEF BeginTrial, CompleteDetails
  <2>2. eligible' \subseteq Profiles /\ starting' \in [Profiles -> Nat]
    <3>1. CASE BeginTrial(p)
      BY <1>0, <3>1 DEF BeginTrial, BillingTypeOK
    <3>2. CASE CompleteDetails(p)
      BY <1>0, <3>2 DEF CompleteDetails, BillingTypeOK
    <3> QED
      BY <1>2, <3>1, <3>2
  <2>3. BillingTypeOK'
    BY <1>0, <2>1, <2>2 DEF BillingTypeOK
  <2>4. PeriodsAreBegun' /\ LaterAreTrials'
    BY <1>0, <2>1, SubscriptionsFrame
  <2> QED
    BY <1>0, <2>1, <2>3, <2>4 DEF BillingInvariant, PaidIsProcessed
<1>3. ASSUME NEW p \in Profiles, FinishTrial(p)
      PROVE  BillingInvariant'
  <2> DEFINE begun == BegunNow("trialing", "trial")
             s == Append(subscriptions[p], begun)
  <2>1. /\ subscriptions' = [subscriptions EXCEPT ![p] = s] /\ periods' = periods + 1
        /\ starting' = [starting EXCEPT ![p] = @ - 1] /\ starting[p] > 0
        /\ trialStarts' = trialStarts \cup {p}
        /\ UNCHANGED <<now, eligible, sessions, events>>
    BY <1>3 DEF FinishTrial
  <2>2. begun \in Subscription /\ begun.period = periods + 1
        /\ begun.plan = "trial" /\ \A i : begun.ends \in EndsBegun(i)
    BY <1>0, BegunIsSubscription, PeriodEnds DEF Plans
  <2> HIDE DEF begun
  <2>3. s \in Seq(Subscription)
    BY <1>0, <2>2
  <2>4. \A i \in DOMAIN s : /\ s[i].period <= periods'
                            /\ s[i].ends \in EndsBegun(i)
                            /\ i # 1 => s[i].plan = "trial"
    <3>1. \A i \in DOMAIN s : (i \in DOMAIN subscriptions[p] /\ s[i] = subscriptions[p][i]) \/ s[i] = begun
      BY <1>0, <2>2
    <3>2. \A i \in DOMAIN subscriptions[p] : subscriptions[p][i].period \in Nat
      BY <1>0, SubscriptionFacts
    <3> HIDE DEF s
    <3> TAKE i \in DOMAIN s
    <3>4. CASE s[i] = begun
      BY <1>0, <2>1, <2>2, <3>4
    <3>5. CASE i \in DOMAIN subscriptions[p] /\ s[i] = subscriptions[p][i]
      BY SMTT(30), <1>0, <2>1, <3>2, <3>5 DEF PeriodsAreBegun, LaterAreTrials
    <3> QED
      BY <3>1, <3>4, <3>5
  <2> HIDE DEF s
  <2>0. now' = now /\ periods' \in Nat /\ periods <= periods'
    BY <1>0, <2>1
  <2>5. subscriptions' \in [Profiles -> Seq(Subscription)] /\ PeriodsAreBegun' /\ LaterAreTrials'
    BY <1>0, <2>1, <2>3, <2>4, <2>0, SubscriptionsStep
  <2>6. starting' \in [Profiles -> Nat]
    BY <1>0, <2>1
  <2>7. BillingTypeOK'
    BY <1>0, <2>1, <2>5, <2>6 DEF BillingTypeOK
  <2> QED
    BY <1>0, <2>1, <2>5, <2>7 DEF BillingInvariant, PaidIsProcessed
<1>4. ASSUME NEW o \in Orders, NEW p \in Profiles, NEW plan \in PaidPlans, Checkout(o, p, plan)
      PROVE  BillingInvariant'
  <2> DEFINE session == [status |-> "created", profile |-> p, plan |-> plan]
  <2>1. /\ sessions' = [sessions EXCEPT ![o] = session]
        /\ UNCHANGED <<now, eligible, subscriptions, trialStarts, starting, periods, events>>
    BY <1>4 DEF Checkout
  <2>2. session \in Session /\ session.status = "created" /\ session.profile \in Profiles
        /\ session.plan \in PaidPlans
    BY DEF Session, PaidPlans
  <2> HIDE DEF session
  <2>3. BillingTypeOK'
    BY <1>0, <2>1, <2>2 DEF BillingTypeOK
  <2>4. PaidIsProcessed'
    BY <1>0, <2>1, <2>2 DEF PaidIsProcessed
  <2> QED
    BY <1>0, <2>1, <2>3, <2>4, SubscriptionsFrame DEF BillingInvariant
<1>5. ASSUME NEW p \in Profiles, NEW i \in DOMAIN subscriptions[p], NEW status \in Repairs,
             ReconcileStatus(p, i, status)
      PROVE  BillingInvariant'
  <2> DEFINE r == [subscriptions[p][i] EXCEPT !.status = status]
             s == [subscriptions[p] EXCEPT ![i] = r]
  <2>1. /\ subscriptions' = [subscriptions EXCEPT ![p] = s]
        /\ UNCHANGED <<now, eligible, trialStarts, starting, periods, sessions, events>>
    BY <1>0, <1>5 DEF ReconcileStatus
  <2>2. subscriptions[p][i] \in Subscription
    BY <1>0
  <2>3. /\ r \in Subscription /\ r.period = subscriptions[p][i].period
        /\ r.ends = subscriptions[p][i].ends /\ r.plan = subscriptions[p][i].plan
    BY <2>2 DEF Subscription
  <2> HIDE DEF r
  <2>4. s \in Seq(Subscription)
    BY <1>0, <2>3
  <2>5. \A j \in DOMAIN s : /\ s[j].period <= periods'
                            /\ s[j].ends \in EndsBegun(j)
                            /\ j # 1 => s[j].plan = "trial"
    <3>1. \A j \in DOMAIN s : j \in DOMAIN subscriptions[p] /\ s[j].period = subscriptions[p][j].period
                              /\ s[j].ends = subscriptions[p][j].ends
                              /\ s[j].plan = subscriptions[p][j].plan
      BY <1>0, <2>3
    <3> HIDE DEF s
    <3> QED
      BY <1>0, <2>1, <3>1 DEF PeriodsAreBegun, LaterAreTrials
  <2> HIDE DEF s
  <2>0. now' = now /\ periods' \in Nat /\ periods <= periods'
    BY <1>0, <2>1
  <2>6. subscriptions' \in [Profiles -> Seq(Subscription)] /\ PeriodsAreBegun' /\ LaterAreTrials'
    BY <1>0, <2>1, <2>4, <2>5, <2>0, SubscriptionsStep
  <2>7. BillingTypeOK'
    BY <1>0, <2>1, <2>6 DEF BillingTypeOK
  <2> QED
    BY <1>0, <2>1, <2>6, <2>7 DEF BillingInvariant, PaidIsProcessed
<1>6. ASSUME NEW e \in EventIds, NEW status \in {"stored", "failed"}, StoreEvent(e, status),
             UNCHANGED <<now, eligible, subscriptions, trialStarts, starting, periods, sessions>>
      PROVE  BillingInvariant'
  <2>1. events' \in [EventIds -> EventStatus] /\ \A d \in EventIds : events[d] = "processed" => events'[d] = "processed"
    BY <1>0, <1>6 DEF StoreEvent, EventStatus
  <2>2. BillingTypeOK'
    BY <1>0, <1>6, <2>1 DEF BillingTypeOK
  <2>3. PaidIsProcessed'
    BY <1>0, <1>6, <2>1 DEF PaidIsProcessed
  <2> QED
    BY <1>0, <1>6, <2>2, <2>3, SubscriptionsFrame DEF BillingInvariant
<1>7. ASSUME NEW o \in Orders, FailedCallback(o)
      PROVE  BillingInvariant'
  <2>1. /\ sessions' = [sessions EXCEPT ![o].status = "failed"] /\ sessions[o].status # "none"
        /\ events' = [events EXCEPT ![<<o, "callback">>] = "failed"]
        /\ UNCHANGED <<now, eligible, subscriptions, trialStarts, starting, periods>>
    BY <1>7 DEF FailedCallback
  <2>2. sessions' \in [Orders -> Session] /\ events' \in [EventIds -> EventStatus]
    BY <1>0, <2>1, CallbackTypes DEF EventStatus
  <2>3. \A d \in Orders : /\ sessions'[d].profile = sessions[d].profile
                          /\ sessions'[d].plan = sessions[d].plan
                          /\ sessions'[d].status # "none" => sessions[d].status # "none"
                          /\ sessions'[d].status = "paid" => d # o /\ sessions[d].status = "paid"
    BY <1>0, <2>1 DEF Session
  <2>4. BillingTypeOK'
    BY <1>0, <2>1, <2>2, <2>3 DEF BillingTypeOK
  <2>5. \A d \in Orders : d # o => events'[<<d, "callback">>] = events[<<d, "callback">>]
    BY <1>0, <2>1
  <2>6. PaidIsProcessed'
    BY <1>0, <2>3, <2>5 DEF PaidIsProcessed
  <2> QED
    BY <1>0, <2>1, <2>4, <2>6, SubscriptionsFrame DEF BillingInvariant
<1>8. ASSUME NEW o \in Orders, SuccessCallback(o)
      PROVE  BillingInvariant'
  <2> DEFINE p == sessions[o].profile
             s == Renewed(o)
  <2>1. /\ sessions' = [sessions EXCEPT ![o].status = "paid"] /\ sessions[o].status # "none"
        /\ events' = [events EXCEPT ![<<o, "callback">>] = "processed"]
        /\ subscriptions' = [subscriptions EXCEPT ![p] = s] /\ periods' = periods + 1
        /\ UNCHANGED <<now, eligible, trialStarts, starting>>
    BY <1>8 DEF SuccessCallback
  <2>2. /\ p \in Profiles /\ s \in Seq(Subscription) /\ sessions[o].plan \in Plans
        /\ s[1] = BegunNow("active", sessions[o].plan)
        /\ \A i \in DOMAIN s : i # 1 => i \in DOMAIN subscriptions[p] /\ s[i] = subscriptions[p][i]
    BY <1>0, <2>1, RenewedFacts DEF PaidPlans
  <2>3. /\ s[1].period = periods + 1 /\ s[1].ends \in EndsBegun(1)
    BY <1>0, <2>2, BegunIsSubscription, PeriodEnds
  <2> HIDE DEF s, p
  <2>4. \A i \in DOMAIN s : /\ s[i].period <= periods'
                            /\ s[i].ends \in EndsBegun(i)
                            /\ i # 1 => s[i].plan = "trial"
    <3>1. \A i \in DOMAIN subscriptions[p] : subscriptions[p][i].period \in Nat
      BY <1>0, <2>2, SubscriptionFacts
    <3>2. s[1].ends \in EndsBegun(1)
      BY <2>3
    <3>3. s[1].period <= periods'
      BY <1>0, <2>1, <2>3
    <3> TAKE i \in DOMAIN s
    <3>4. CASE i = 1
      BY <3>2, <3>3, <3>4
    <3>5. CASE i # 1
      BY SMTT(30), <1>0, <2>1, <2>2, <3>1, <3>5 DEF PeriodsAreBegun, LaterAreTrials
    <3> QED
      BY <3>4, <3>5
  <2>0. now' = now /\ periods' \in Nat /\ periods <= periods'
    BY <1>0, <2>1
  <2>5. subscriptions' \in [Profiles -> Seq(Subscription)] /\ PeriodsAreBegun' /\ LaterAreTrials'
    BY <1>0, <2>1, <2>2, <2>4, <2>0, SubscriptionsStep
  <2>6. sessions' \in [Orders -> Session] /\ events' \in [EventIds -> EventStatus]
    BY <1>0, <2>1, CallbackTypes DEF EventStatus
  <2>7. \A d \in Orders : /\ sessions'[d].profile = sessions[d].profile
                          /\ sessions'[d].plan = sessions[d].plan
                          /\ sessions'[d].status # "none" => sessions[d].status # "none"
                          /\ sessions'[d].status = "paid" => d = o \/ sessions[d].status = "paid"
    BY <1>0, <2>1 DEF Session
  <2>8. BillingTypeOK'
    <3>1. \A d \in Orders : sessions'[d].status # "none" =>
            sessions'[d].profile \in Profiles /\ sessions'[d].plan \in PaidPlans
      BY <1>0, <2>7 DEF BillingTypeOK
    <3> QED
      BY <1>0, <2>0, <2>1, <2>5, <2>6, <3>1 DEF BillingTypeOK
  <2>9. \A d \in Orders : events'[<<d, "callback">>] = IF d = o THEN "processed" ELSE events[<<d, "callback">>]
    BY <1>0, <2>1
  <2>10. PaidIsProcessed'
    BY <1>0, <2>7, <2>9 DEF PaidIsProcessed
  <2> QED
    BY <2>5, <2>8, <2>10 DEF BillingInvariant
<1>9. ASSUME NEW e \in EventIds, MarkEventProcessed(e)
      PROVE  BillingInvariant'
  <2>1. events' = [events EXCEPT ![e] = "processed"]
        /\ UNCHANGED <<now, eligible, subscriptions, trialStarts, starting, periods, sessions>>
    BY <1>9 DEF MarkEventProcessed
  <2>2. events' \in [EventIds -> EventStatus] /\ \A d \in EventIds : events[d] = "processed" => events'[d] = "processed"
    BY <1>0, <2>1 DEF EventStatus
  <2>3. BillingTypeOK'
    BY <1>0, <2>1, <2>2 DEF BillingTypeOK
  <2>4. PaidIsProcessed'
    BY <1>0, <2>1, <2>2 DEF PaidIsProcessed
  <2> QED
    BY <1>0, <2>1, <2>3, <2>4, SubscriptionsFrame DEF BillingInvariant
<1>10. ASSUME NEW o \in Orders, StoreCallback(o) \/ InvalidCallback(o)
       PROVE  BillingInvariant'
  BY <1>0, <1>6, <1>10 DEF StoreCallback, InvalidCallback
<1> QED
  BY <1>1, <1>2, <1>3, <1>4, <1>5, <1>7, <1>8, <1>9, <1>10 DEF BillingNext

-----------------------------------------------------------------------------
\* The subscription that ends last

LEMMA HasSmallest ==
  ASSUME NEW T \in SUBSET Nat, T # {}
  PROVE  \E x \in T : \A y \in T : x <= y
<1>1. PICK x \in T : \A y \in T : <<y, x>> \notin OpToRel(<, Nat)
  BY WFMin, NatLessThanWellFounded, Zenon
<1>2. \A y \in T : x \in Nat /\ y \in Nat
  OBVIOUS
<1>3. \A y \in T : ~(y < x)
  BY <1>1, <1>2, Zenon DEF OpToRel
<1>4. \A y \in T : x <= y
  BY <1>2, <1>3, SMT
<1> QED
  BY <1>4, Zenon

\* Finitely many numbers have a bound.
LEMMA HasBound ==
  ASSUME NEW n \in Nat, NEW f \in [1..n -> Nat]
  PROVE  \E b \in Nat : \A i \in 1..n : f[i] <= b
<1> DEFINE Below(k) == \E b \in Nat : \A i \in 1..n : i <= k => f[i] <= b
           Unbounded == {k \in 0..n : ~Below(k)}
<1>1. Below(0)
  OBVIOUS
<1>2. ASSUME NEW k \in 0..n, k # 0, Below(k - 1) PROVE Below(k)
  <2>1. k \in 1..n /\ f[k] \in Nat
    BY <1>2
  <2>2. PICK b \in Nat : \A i \in 1..n : i <= k - 1 => f[i] <= b
    BY <1>2
  <2>3. ASSUME NEW i \in 1..n, i <= k PROVE f[i] <= b + f[k]
    <3>1. f[i] \in Nat /\ (i = k \/ i <= k - 1)
      BY <2>1, <2>3
    <3> QED
      BY <2>1, <2>2, <3>1
  <2>4. b + f[k] \in Nat
    BY <2>1, <2>2
  <2> QED
    BY <2>3, <2>4
<1>3. Unbounded = {}
  <2> SUFFICES ASSUME Unbounded # {} PROVE FALSE
    OBVIOUS
  <2>1. Unbounded \in SUBSET Nat
    OBVIOUS
  <2> HIDE DEF Below
  <2>2. PICK k \in Unbounded : \A m \in Unbounded : k <= m
    BY <2>1, HasSmallest
  <2>3. k \in 0..n /\ ~Below(k) /\ k # 0
    BY <1>1, <2>2
  <2>4. k - 1 \in 0..n /\ ~(k <= k - 1)
    BY <2>3
  <2>5. Below(k - 1)
    BY <2>2, <2>4
  <2> QED
    BY <1>2, <2>3, <2>5
<1> HIDE DEF Below
<1>4. Below(n)
  BY <1>3
<1> QED
  BY <1>4 DEF Below

\* The ends are bounded, so one of them is the last; of those that share it, one is first.
LEMMA SomeEndsLast ==
  ASSUME BillingInvariant, NEW p \in Profiles, Subscribed(p)
  PROVE  \E i \in DOMAIN subscriptions[p] : EndsLast(subscriptions[p], i)
<1> DEFINE s == subscriptions[p]
           E(i) == s[i].ends
<1>1. s \in Seq(Subscription) /\ s # <<>> /\ \A i \in DOMAIN s : E(i) \in Nat
  BY SubscriptionFacts DEF BillingInvariant, Subscribed
<1>2. PICK bound \in Nat : \A i \in DOMAIN s : E(i) <= bound
  <2> DEFINE f == [i \in 1..Len(s) |-> E(i)]
  <2> HIDE DEF s, E
  <2>1. Len(s) \in Nat /\ DOMAIN s = 1..Len(s) /\ f \in [1..Len(s) -> Nat]
    BY <1>1
  <2>2. \A i \in DOMAIN s : f[i] = E(i)
    BY <2>1
  <2> HIDE DEF f
  <2>3. PICK b \in Nat : \A i \in 1..Len(s) : f[i] <= b
    BY <2>1, HasBound, Zenon
  <2> QED
    BY <2>1, <2>2, <2>3, Zenon
<1> DEFINE T == {bound - E(i) : i \in DOMAIN s}
<1>4. \A i \in DOMAIN s : EndsLast(s, i) <=>
        \A j \in DOMAIN s : E(j) < E(i) \/ (E(j) = E(i) /\ i <= j)
  BY DEF EndsLast
<1>5. DOMAIN s # {} /\ DOMAIN s \subseteq Nat
  BY <1>1
<1> HIDE DEF s, E
<1>6. T \in SUBSET Nat /\ T # {}
  BY <1>1, <1>2, <1>5
<1>7. PICK m \in DOMAIN s : \A j \in DOMAIN s : bound - E(m) <= bound - E(j)
  <2>1. PICK x \in T : \A y \in T : x <= y
    BY <1>6, HasSmallest, Zenon
  <2>2. PICK m \in DOMAIN s : x = bound - E(m)
    BY <2>1
  <2>3. \A j \in DOMAIN s : bound - E(j) \in T
    OBVIOUS
  <2> QED
    BY <2>1, <2>2, <2>3
<1>8. \A j \in DOMAIN s : E(j) <= E(m)
  BY <1>1, <1>2, <1>7
<1> DEFINE F == {j \in DOMAIN s : E(j) = E(m)}
<1>9. F \in SUBSET Nat /\ F # {}
  BY <1>5
<1>10. PICK i \in F : \A j \in F : i <= j
  BY <1>9, HasSmallest
<1>11. \A j \in DOMAIN s : E(j) < E(i) \/ (E(j) = E(i) /\ i <= j)
  BY <1>1, <1>8, <1>10
<1> QED
  BY <1>4, <1>10, <1>11 DEF s

LEMMA CurrentFacts ==
  ASSUME BillingInvariant, NEW p \in Profiles, Subscribed(p)
  PROVE  /\ \E i \in DOMAIN subscriptions[p] : Current(p) = subscriptions[p][i]
         /\ Current(p).period \in Nat /\ Current(p).plan \in Plans
<1>1. \E i \in DOMAIN subscriptions[p] : Current(p) = subscriptions[p][i]
  BY SomeEndsLast DEF Current, LastEnding
<1> QED
  BY <1>1, SubscriptionFacts DEF BillingInvariant

-----------------------------------------------------------------------------
\* Periods and their plans

Reading(c) == calls[c].pc \in {"count", "charge"}

\* Period n of profile p has plan q: says a subscription, the ledger or the copy of a call.
Bears(p, n, q) ==
    \/ \E i \in DOMAIN subscriptions[p] : subscriptions[p][i].period = n /\ subscriptions[p][i].plan = q
    \/ \E u \in ledger : u.profile = p /\ u.period = n /\ u.plan = q
    \/ \E c \in Calls : Reading(c) /\ calls[c].requester = p /\ calls[c].period = n /\ calls[c].plan = q

PeriodsHaveOnePlan ==
    \A p \in Profiles, n \in Nat, q \in Plans : Bears(p, n, q) =>
        /\ n <= periods
        /\ \A other \in Plans : Bears(p, n, other) => other = q

\* The calls that have counted the usage of the period, and not charged it yet.
Charging(p, n) == {c \in Calls : calls[c].pc = "charge" /\ calls[c].requester = p /\ calls[c].period = n}

\* A period is charged, or about to be.
Spends(p, n, q) ==
    \/ \E u \in UsageOf(p, n) : u.plan = q
    \/ \E c \in Charging(p, n) : calls[c].plan = q

\* What is charged and what is about to be stay below the quota and the calls together.
SpendingIsBounded ==
    \A p \in Profiles, n \in Nat, q \in Plans : Spends(p, n, q) =>
        Cardinality(UsageOf(p, n)) + Cardinality(Charging(p, n)) < Quota(q) + Cardinality(Calls)

QuotaInvariant == IsFiniteSet(ledger) /\ PeriodsHaveOnePlan /\ SpendingIsBounded

\* Requests and what is told of them

CallsAreStored ==
    \A c \in Calls : calls[c].pc \in {"plan", "count", "charge"} =>
        /\ calls[c].request \in DOMAIN requests
        /\ requests[calls[c].request].pair = calls[c].pair
        /\ requests[calls[c].request].requester = calls[c].requester

CreatedNote(i) ==
    [request |-> i, status |-> "pending", to |-> Counterpart(requests[i].pair, requests[i].requester)]

StoredIsNotified == \A i \in DOMAIN requests : CreatedNote(i) \in notices

NoticesAreOfRequests ==
    \A n \in notices : /\ n.request \in DOMAIN requests
                       /\ n.status = "pending" => n = CreatedNote(n.request)

ChargedIsStored == \A u \in ledger : u.request \in DOMAIN requests

TellingInvariant ==
    CallsAreStored /\ StoredIsNotified /\ NoticesAreOfRequests /\ ChargedIsStored /\ MailFollowsNotice

-----------------------------------------------------------------------------
\* The effect of the steps of an intro request

LEMMA PairFacts ==
  ASSUME NEW pair \in Pairs
  PROVE  /\ Author(pair) \in Profiles /\ pair[2] \in Profiles /\ Author(pair) # pair[2]
         /\ Participants(pair) \subseteq Profiles
         /\ \A p \in Participants(pair) :
              /\ Counterpart(pair, p) \in Participants(pair)
              /\ Counterpart(pair, Counterpart(pair, p)) = p
<1>1. pair[1] \in Manuscripts /\ pair[2] \in Publishers
  BY DEF Pairs
<1>2. AuthorOf[pair[1]] \in Profiles \ Publishers
  BY <1>1
<1> QED
  BY <1>1, <1>2 DEF Author, Participants, Counterpart

LEMMA RequestFacts ==
  ASSUME IntroTypeOK, NEW i \in DOMAIN requests
  PROVE  /\ requests[i] \in Request /\ requests[i].pair \in Pairs
         /\ requests[i].requester \in Profiles /\ requests[i].status \in Status
         /\ requests[i].requester \in Participants(requests[i].pair)
         /\ i \in Nat
<1>1. requests \in Seq(Request)
  BY DEF IntroTypeOK
<1>2. requests[i] \in Request /\ i \in Nat
  BY <1>1
<1> QED
  BY <1>2 DEF IntroTypeOK, Request

LEMMA CallFacts ==
  ASSUME IntroTypeOK, NEW c \in Calls, calls[c].pc # "idle"
  PROVE  /\ calls[c] \in Call /\ calls[c].pair \in Pairs
         /\ calls[c].requester \in Participants(calls[c].pair) /\ calls[c].requester \in Profiles
         /\ calls[c].request \in Nat /\ calls[c].period \in Nat /\ calls[c].plan \in Plans
<1>1. calls[c] \in Call
  BY DEF IntroTypeOK
<1>2. calls[c].pair \in Pairs /\ calls[c].requester \in Participants(calls[c].pair)
  BY DEF IntroTypeOK
<1>3. calls[c].requester \in Profiles
  BY <1>2, PairFacts
<1> QED
  BY <1>1, <1>2, <1>3 DEF Call

\* What both the notification and the mail of an answer say.
AnswerNote(i, status) ==
    [request |-> i, status |-> status,
     to |-> IF status \in {"accepted", "rejected"} THEN requests[i].requester ELSE Recipient(i)]

\* Request i is answered with status.
Answered(i, status) ==
    /\ requests[i].status = "pending"
    /\ requests' \in Seq(Request) /\ DOMAIN requests' = DOMAIN requests
    /\ \A j \in DOMAIN requests : /\ requests'[j].pair = requests[j].pair
                                  /\ requests'[j].requester = requests[j].requester
                                  /\ requests'[j].status = IF j = i THEN status ELSE requests[j].status
    /\ notices' = notices \cup {AnswerNote(i, status)}
    /\ mails' = mails \cup {AnswerNote(i, status)}
    /\ AnswerNote(i, status) \in Note
    /\ UNCHANGED <<ledger, calls, clear, evidence>>

LEMMA AnswersAnswer ==
  ASSUME IntroTypeOK, NEW i \in DOMAIN requests, Accept(i) \/ Reject(i) \/ Cancel(i)
  PROVE  \E status \in {"accepted", "rejected", "cancelled"} : Answered(i, status)
<1> DEFINE r == requests[i]
<1>1. r \in Request /\ r.pair \in Pairs /\ r.requester \in Participants(r.pair)
      /\ r.requester \in Profiles /\ i \in Nat
  BY RequestFacts
<1>2. Counterpart(r.pair, r.requester) \in Profiles
      /\ Counterpart(r.pair, Counterpart(r.pair, r.requester)) = r.requester
  BY <1>1, PairFacts
<1>3. PICK status \in {"accepted", "rejected", "cancelled"} :
        Answer(i, status, IF status = "cancelled" THEN r.requester ELSE Recipient(i))
  BY DEF Accept, Reject, Cancel
<1> DEFINE actor == IF status = "cancelled" THEN r.requester ELSE Recipient(i)
<1>4. /\ r.status = "pending"
      /\ requests' = [requests EXCEPT ![i].status = status, ![i].cooling = status # "accepted"]
      /\ Notify(i, status, r.pair, actor) /\ Mail(i, status, r.pair, r.requester)
      /\ UNCHANGED <<ledger, calls, clear, evidence>>
  BY <1>3 DEF Answer
<1>5. Counterpart(r.pair, actor) = MailedTo(status, r.pair, r.requester)
  BY <1>2 DEF MailedTo, Recipient
<1>6. AnswerNote(i, status) = [request |-> i, status |-> status, to |-> MailedTo(status, r.pair, r.requester)]
  BY DEF AnswerNote, MailedTo, Recipient
<1>7. notices' = notices \cup {AnswerNote(i, status)} /\ mails' = mails \cup {AnswerNote(i, status)}
  BY <1>4, <1>5, <1>6 DEF Notify, Mail
<1>8. AnswerNote(i, status) \in Note
  BY <1>1, <1>2 DEF AnswerNote, Note, Status, Recipient
<1> DEFINE cooling == status # "accepted"
           row == [r EXCEPT !.status = status, !.cooling = cooling]
<1>9. requests \in Seq(Request)
  BY DEF IntroTypeOK
<1>10. requests' = [requests EXCEPT ![i] = row]
  BY <1>4, <1>9
<1>11. row \in Request /\ row.pair = r.pair /\ row.requester = r.requester /\ row.status = status
  BY <1>1 DEF Request, Status
<1> HIDE DEF row
<1>12. requests' \in Seq(Request) /\ DOMAIN requests' = DOMAIN requests
       /\ \A j \in DOMAIN requests : requests'[j] = IF j = i THEN row ELSE requests[j]
  BY <1>9, <1>10, <1>11
<1> QED
  BY <1>3, <1>4, <1>7, <1>8, <1>11, <1>12 DEF Answered

LEMMA CoolingStops ==
  ASSUME IntroTypeOK, NEW i \in DOMAIN requests, CooldownEnds(i)
  PROVE  /\ requests' \in Seq(Request) /\ DOMAIN requests' = DOMAIN requests
         /\ \A j \in DOMAIN requests : /\ requests'[j].pair = requests[j].pair
                                       /\ requests'[j].requester = requests[j].requester
                                       /\ requests'[j].status = requests[j].status
         /\ UNCHANGED <<ledger, calls, clear, evidence, notices, mails>>
<1> DEFINE row == [requests[i] EXCEPT !.cooling = FALSE]
<1>1. requests \in Seq(Request) /\ requests[i] \in Request
  BY RequestFacts DEF IntroTypeOK
<1>2. requests' = [requests EXCEPT ![i] = row] /\ UNCHANGED <<ledger, calls, clear, evidence, notices, mails>>
  BY <1>1 DEF CooldownEnds
<1>3. row \in Request /\ row.pair = requests[i].pair /\ row.requester = requests[i].requester
      /\ row.status = requests[i].status
  BY <1>1 DEF Request
<1> HIDE DEF row
<1> QED
  BY <1>1, <1>2, <1>3

\* Call c stores its request.
RequestStored(c) ==
    LET i == Len(requests) + 1
        row == [pair |-> calls[c].pair, requester |-> calls[c].requester,
                status |-> "pending", cooling |-> FALSE] IN
    /\ calls[c].pc = "store" /\ CanRequest(calls[c].pair, calls[c].requester)
    /\ row \in Request /\ i \in Nat /\ i \notin DOMAIN requests
    /\ requests' \in Seq(Request) /\ DOMAIN requests' = DOMAIN requests \cup {i}
    /\ requests'[i] = row /\ \A j \in DOMAIN requests : requests'[j] = requests[j]
    /\ notices' = notices \cup {[request |-> i, status |-> "pending",
                                 to |-> Counterpart(calls[c].pair, calls[c].requester)]}
    /\ calls' = [calls EXCEPT ![c].pc = "plan", ![c].request = i]
    /\ UNCHANGED <<ledger, clear, evidence, mails>>

LEMMA StoreStores ==
  ASSUME IntroTypeOK, NEW c \in Calls, StoreRequest(c)
  PROVE  RequestStored(c)
<1> DEFINE i == Len(requests) + 1
           row == [pair |-> calls[c].pair, requester |-> calls[c].requester,
                   status |-> "pending", cooling |-> FALSE]
<1>1. requests \in Seq(Request) /\ calls[c].pc = "store"
  BY DEF IntroTypeOK, StoreRequest
<1>2. row \in Request
  BY <1>1, CallFacts DEF Request, Status
<1>3. /\ requests' = Append(requests, row)
      /\ notices' = notices \cup {[request |-> i, status |-> "pending",
                                   to |-> Counterpart(calls[c].pair, calls[c].requester)]}
      /\ calls' = [calls EXCEPT ![c].pc = "plan", ![c].request = i]
      /\ UNCHANGED <<ledger, clear, evidence, mails>>
      /\ CanRequest(calls[c].pair, calls[c].requester)
  BY DEF StoreRequest, Notify, MayStore
<1> HIDE DEF row
<1>4. /\ requests' \in Seq(Request) /\ DOMAIN requests' = DOMAIN requests \cup {i}
      /\ i \in Nat /\ i \notin DOMAIN requests
      /\ requests'[i] = row /\ \A j \in DOMAIN requests : requests'[j] = requests[j]
  BY <1>1, <1>2, <1>3
<1> QED
  BY <1>1, <1>2, <1>3, <1>4 DEF RequestStored, row

\* Call c charges its request.
LEMMA ChargeCharges ==
  ASSUME IntroTypeOK, NEW c \in Calls, Charge(c)
  PROVE  LET call == calls[c]
             usage == [profile |-> call.requester, period |-> call.period,
                       plan |-> call.plan, request |-> call.request]
             note == [request |-> call.request, status |-> "pending",
                      to |-> Counterpart(call.pair, call.requester)] IN
         /\ call.pc = "charge" /\ usage \in Usage /\ note \in Note
         /\ ledger' = ledger \cup {usage} /\ mails' = mails \cup {note}
         /\ calls' = [calls EXCEPT ![c] = IdleCall]
         /\ UNCHANGED <<requests, clear, evidence, notices>>
<1>1. calls[c].pc = "charge"
  BY DEF Charge
<1>2. /\ calls[c].pair \in Pairs /\ calls[c].requester \in Participants(calls[c].pair)
      /\ calls[c].requester \in Profiles
      /\ calls[c].request \in Nat /\ calls[c].period \in Nat /\ calls[c].plan \in Plans
  BY <1>1, CallFacts
<1>3. Counterpart(calls[c].pair, calls[c].requester) \in Profiles
  BY <1>2, PairFacts
<1>4. MailedTo("pending", calls[c].pair, calls[c].requester) = Counterpart(calls[c].pair, calls[c].requester)
  BY DEF MailedTo
<1> QED
  BY <1>1, <1>2, <1>3, <1>4 DEF Charge, Mail, Stop, Usage, Note, Status

\* A step of a call that does nothing but move on or stop.
Moved(c) ==
    /\ \/ calls' = [calls EXCEPT ![c] = IdleCall]
       \/ /\ calls[c].pc = "idle"
          /\ \E pair \in Pairs : \E p \in Participants(pair) :
               calls' = [calls EXCEPT ![c] = [IdleCall EXCEPT !.pc = "store", !.pair = pair,
                                                              !.requester = p]]
       \/ /\ calls[c].pc = "plan" /\ Active(calls[c].requester)
          /\ calls' = [calls EXCEPT ![c].pc = "count",
                                    ![c].period = Current(calls[c].requester).period,
                                    ![c].plan = Current(calls[c].requester).plan]
       \/ /\ calls[c].pc = "count" /\ WithinQuota(c)
          /\ calls' = [calls EXCEPT ![c].pc = "charge"]
    /\ UNCHANGED <<requests, ledger, clear, evidence, notices, mails>>

LEMMA MovesMove ==
  ASSUME NEW c \in Calls,
         \/ \E pair \in Pairs : \E p \in Participants(pair) : BeginCreate(c, pair, p)
         \/ RefuseRequest(c) \/ ReadPlan(c) \/ CountUsage(c)
  PROVE  Moved(c)
<1>1. CASE \E pair \in Pairs : \E p \in Participants(pair) : BeginCreate(c, pair, p)
  BY <1>1 DEF BeginCreate, Moved
<1>2. CASE RefuseRequest(c)
  BY <1>2 DEF RefuseRequest, Stop, Moved
<1>3. CASE ReadPlan(c)
  BY <1>3 DEF ReadPlan, Stop, Moved
<1>4. CASE CountUsage(c)
  BY <1>4 DEF CountUsage, Stop, Moved
<1> QED
  BY <1>1, <1>2, <1>3, <1>4

\* Every step of an intro request is one of these.
LEMMA IntroCases ==
  ASSUME IntroTypeOK, IntroNext
  PROVE  \/ \E c \in Calls : Moved(c) \/ RequestStored(c) \/ Charge(c)
         \/ \E i \in DOMAIN requests, status \in {"accepted", "rejected", "cancelled"} : Answered(i, status)
         \/ \E i \in DOMAIN requests : CooldownEnds(i)
         \/ /\ clear' \subseteq Manuscripts /\ evidence' \subseteq Pairs
            /\ UNCHANGED <<requests, ledger, calls, notices, mails>>
<1>1. CASE \E c \in Calls : \/ \E pair \in Pairs : \E p \in Participants(pair) : BeginCreate(c, pair, p)
                            \/ RefuseRequest(c) \/ ReadPlan(c) \/ CountUsage(c)
  BY <1>1, MovesMove
<1>2. CASE \E c \in Calls : StoreRequest(c) \/ Charge(c)
  BY <1>2, StoreStores
<1>3. CASE \E i \in DOMAIN requests : Accept(i) \/ Reject(i) \/ Cancel(i)
  BY <1>3, AnswersAnswer
<1>4. CASE SamplesChange
  BY <1>4 DEF SamplesChange, IntroTypeOK
<1>5. ASSUME NEW pair \in Pairs, FindEvidence(pair)
      PROVE  clear' \subseteq Manuscripts /\ evidence' \subseteq Pairs
             /\ UNCHANGED <<requests, ledger, calls, notices, mails>>
  BY <1>5 DEF FindEvidence, IntroTypeOK
<1> QED
  BY <1>1, <1>2, <1>3, <1>4, <1>5 DEF IntroNext, RequestNext

-----------------------------------------------------------------------------
\* Types

LEMMA CallsStep ==
  ASSUME IntroTypeOK, NEW c \in Calls, NEW row \in Call,
         row.pc # "idle" => row.pair \in Pairs /\ row.requester \in Participants(row.pair),
         calls' = [calls EXCEPT ![c] = row]
  PROVE  /\ calls' \in [Calls -> Call]
         /\ \A d \in Calls : calls'[d].pc # "idle" =>
              calls'[d].pair \in Pairs /\ calls'[d].requester \in Participants(calls'[d].pair)
<1>1. calls \in [Calls -> Call]
  BY DEF IntroTypeOK
<1>2. calls' \in [Calls -> Call]
  BY <1>1
<1>3. \A d \in Calls : calls'[d] = IF d = c THEN row ELSE calls[d]
  BY <1>1
<1> QED
  BY <1>2, <1>3 DEF IntroTypeOK

LEMMA IdleIsCall == IdleCall \in Call /\ IdleCall.pc = "idle"
  BY DEF IdleCall, Call, Plans

\* What a call that moves becomes.
LEMMA MovedCalls ==
  ASSUME BillingInvariant, IntroTypeOK, NEW c \in Calls, Moved(c)
  PROVE  \E row \in Call :
           /\ calls' = [calls EXCEPT ![c] = row]
           /\ row.pc # "idle" => row.pair \in Pairs /\ row.requester \in Participants(row.pair)
           /\ row.pc \in {"plan", "count", "charge"} =>
                /\ calls[c].pc \in {"plan", "count"}
                /\ row.pair = calls[c].pair /\ row.requester = calls[c].requester
                /\ row.request = calls[c].request
           /\ row.pc = "count" =>
                /\ row.requester \in Profiles
                /\ \E i \in DOMAIN subscriptions[row.requester] :
                     /\ row.period = subscriptions[row.requester][i].period
                     /\ row.plan = subscriptions[row.requester][i].plan
           /\ row.pc = "charge" =>
                /\ calls[c].pc = "count" /\ WithinQuota(c)
                /\ row.period = calls[c].period /\ row.plan = calls[c].plan
<1>0. calls \in [Calls -> Call] /\ calls[c] \in Call
  BY DEF IntroTypeOK
<1>1. CASE calls' = [calls EXCEPT ![c] = IdleCall]
  BY <1>1, IdleIsCall
<1>2. ASSUME NEW pair \in Pairs, NEW p \in Participants(pair), calls[c].pc = "idle",
             calls' = [calls EXCEPT ![c] = [IdleCall EXCEPT !.pc = "store", !.pair = pair, !.requester = p]]
      PROVE  \E row \in Call :
               /\ calls' = [calls EXCEPT ![c] = row]
               /\ row.pc = "store" /\ row.pair \in Pairs /\ row.requester \in Participants(row.pair)
  <2> DEFINE row == [IdleCall EXCEPT !.pc = "store", !.pair = pair, !.requester = p]
  <2>1. p \in Profiles
    BY PairFacts
  <2>2. row \in Call /\ row.pc = "store" /\ row.pair = pair /\ row.requester = p
    BY <2>1 DEF IdleCall, Call, Plans
  <2> QED
    BY <1>2, <2>2
<1>3. CASE /\ calls[c].pc = "plan" /\ Active(calls[c].requester)
           /\ calls' = [calls EXCEPT ![c].pc = "count",
                                     ![c].period = Current(calls[c].requester).period,
                                     ![c].plan = Current(calls[c].requester).plan]
  <2> DEFINE p == calls[c].requester
             row == [calls[c] EXCEPT !.pc = "count", !.period = Current(p).period, !.plan = Current(p).plan]
  <2>1. /\ calls[c].pair \in Pairs /\ p \in Participants(calls[c].pair) /\ p \in Profiles
    BY <1>3, CallFacts
  <2>2. Subscribed(p)
    BY <1>3 DEF Active
  <2>3. /\ \E i \in DOMAIN subscriptions[p] : Current(p) = subscriptions[p][i]
        /\ Current(p).period \in Nat /\ Current(p).plan \in Plans
    BY <2>1, <2>2, CurrentFacts
  <2>4. row \in Call
    BY <1>0, <2>3 DEF Call
  <2>5. /\ row.pc = "count" /\ row.pair = calls[c].pair
        /\ row.requester = p /\ p = calls[c].requester
        /\ row.request = calls[c].request
        /\ row.period = Current(p).period /\ row.plan = Current(p).plan
    BY <1>0 DEF Call
  <2>6. calls' = [calls EXCEPT ![c] = row]
    BY <1>0, <1>3
  <2>7. PICK i \in DOMAIN subscriptions[p] : Current(p) = subscriptions[p][i]
    BY <2>3
  <2>8. i \in DOMAIN subscriptions[row.requester]
        /\ row.period = subscriptions[row.requester][i].period
        /\ row.plan = subscriptions[row.requester][i].plan
    BY <2>5, <2>7
  <2> HIDE DEF row, p
  <2> WITNESS row \in Call
  <2> QED
    BY <1>3, <2>1, <2>5, <2>6, <2>8
<1>4. CASE calls[c].pc = "count" /\ WithinQuota(c) /\ calls' = [calls EXCEPT ![c].pc = "charge"]
  <2> DEFINE row == [calls[c] EXCEPT !.pc = "charge"]
  <2>1. calls[c].pair \in Pairs /\ calls[c].requester \in Participants(calls[c].pair)
    BY <1>4, CallFacts
  <2>2. row \in Call
    BY <1>0 DEF Call
  <2>3. /\ row.pc = "charge" /\ row.pair = calls[c].pair /\ row.requester = calls[c].requester
        /\ row.request = calls[c].request /\ row.period = calls[c].period /\ row.plan = calls[c].plan
    BY <1>0 DEF Call
  <2>4. calls' = [calls EXCEPT ![c] = row]
    BY <1>0, <1>4
  <2> HIDE DEF row
  <2> QED
    BY <1>4, <2>1, <2>2, <2>3, <2>4
<1> QED
  <2>1. CASE \E pair \in Pairs : \E p \in Participants(pair) :
               calls[c].pc = "idle" /\
               calls' = [calls EXCEPT ![c] = [IdleCall EXCEPT !.pc = "store", !.pair = pair, !.requester = p]]
    <3>1. PICK row \in Call :
             /\ calls' = [calls EXCEPT ![c] = row]
             /\ row.pc = "store" /\ row.pair \in Pairs /\ row.requester \in Participants(row.pair)
      BY <1>2, <2>1
    <3> QED
      BY <3>1
  <2> QED
    BY <1>1, <1>3, <1>4, <2>1 DEF Moved

LEMMA IntroTypeSteps ==
  ASSUME BillingInvariant, IntroTypeOK, IntroNext
  PROVE  IntroTypeOK'
<1>0. /\ requests \in Seq(Request) /\ ledger \subseteq Usage /\ calls \in [Calls -> Call]
      /\ clear \subseteq Manuscripts /\ evidence \subseteq Pairs
      /\ notices \subseteq Note /\ mails \subseteq Note
      /\ \A i \in DOMAIN requests : requests[i].requester \in Participants(requests[i].pair)
      /\ \A c \in Calls : calls[c].pc # "idle" =>
           calls[c].pair \in Pairs /\ calls[c].requester \in Participants(calls[c].pair)
  BY DEF IntroTypeOK
<1>1. ASSUME NEW c \in Calls, Moved(c)
      PROVE  IntroTypeOK'
  <2>1. PICK row \in Call :
          /\ calls' = [calls EXCEPT ![c] = row]
          /\ row.pc # "idle" => row.pair \in Pairs /\ row.requester \in Participants(row.pair)
    BY <1>1, MovedCalls
  <2>2. /\ calls' \in [Calls -> Call]
        /\ \A d \in Calls : calls'[d].pc # "idle" =>
             calls'[d].pair \in Pairs /\ calls'[d].requester \in Participants(calls'[d].pair)
    BY <2>1, CallsStep
  <2>3. UNCHANGED <<requests, ledger, clear, evidence, notices, mails>>
    BY <1>1 DEF Moved
  <2> QED
    BY <1>0, <2>2, <2>3 DEF IntroTypeOK
<1>2. ASSUME NEW c \in Calls, RequestStored(c)
      PROVE  IntroTypeOK'
  <2> DEFINE i == Len(requests) + 1
             row == [calls[c] EXCEPT !.pc = "plan", !.request = i]
  <2>1. /\ calls[c].pc = "store" /\ i \in Nat
        /\ requests' \in Seq(Request) /\ DOMAIN requests' = DOMAIN requests \cup {i}
        /\ requests'[i].pair = calls[c].pair /\ requests'[i].requester = calls[c].requester
        /\ \A j \in DOMAIN requests : requests'[j] = requests[j]
        /\ notices' = notices \cup {[request |-> i, status |-> "pending",
                                     to |-> Counterpart(calls[c].pair, calls[c].requester)]}
        /\ calls' = [calls EXCEPT ![c].pc = "plan", ![c].request = i]
        /\ UNCHANGED <<ledger, clear, evidence, mails>>
    BY <1>2 DEF RequestStored
  <2> HIDE DEF i
  <2>2. calls[c] \in Call /\ calls[c].pair \in Pairs /\ calls[c].requester \in Participants(calls[c].pair)
    BY <2>1, CallFacts
  <2>3. row \in Call /\ row.pair = calls[c].pair /\ row.requester = calls[c].requester
    BY <2>1, <2>2 DEF Call
  <2>4. calls' = [calls EXCEPT ![c] = row]
    BY <1>0, <2>1
  <2> HIDE DEF row
  <2>5. /\ calls' \in [Calls -> Call]
        /\ \A d \in Calls : calls'[d].pc # "idle" =>
             calls'[d].pair \in Pairs /\ calls'[d].requester \in Participants(calls'[d].pair)
    BY <2>2, <2>3, <2>4, CallsStep
  <2>6. notices' \subseteq Note
    <3>1. Counterpart(calls[c].pair, calls[c].requester) \in Profiles
      BY <2>2, PairFacts
    <3> QED
      BY <1>0, <2>1, <3>1 DEF Note, Status
  <2>7. \A j \in DOMAIN requests' : requests'[j].requester \in Participants(requests'[j].pair)
    BY <1>0, <2>1, <2>2
  <2> QED
    BY <1>0, <2>1, <2>5, <2>6, <2>7 DEF IntroTypeOK
<1>3. ASSUME NEW c \in Calls, Charge(c)
      PROVE  IntroTypeOK'
  <2>1. /\ ledger' \subseteq Usage /\ mails' \subseteq Note
        /\ calls' = [calls EXCEPT ![c] = IdleCall]
        /\ UNCHANGED <<requests, clear, evidence, notices>>
    BY <1>0, <1>3, ChargeCharges
  <2>2. /\ calls' \in [Calls -> Call]
        /\ \A d \in Calls : calls'[d].pc # "idle" =>
             calls'[d].pair \in Pairs /\ calls'[d].requester \in Participants(calls'[d].pair)
    BY <2>1, CallsStep, IdleIsCall
  <2> QED
    BY <1>0, <2>1, <2>2 DEF IntroTypeOK
<1>4. ASSUME NEW i \in DOMAIN requests, NEW status \in {"accepted", "rejected", "cancelled"},
             Answered(i, status)
      PROVE  IntroTypeOK'
  BY <1>0, <1>4 DEF Answered, IntroTypeOK
<1>5. ASSUME NEW i \in DOMAIN requests, CooldownEnds(i)
      PROVE  IntroTypeOK'
  BY <1>0, <1>5, CoolingStops DEF IntroTypeOK
<1>6. CASE /\ clear' \subseteq Manuscripts /\ evidence' \subseteq Pairs
           /\ UNCHANGED <<requests, ledger, calls, notices, mails>>
  BY <1>0, <1>6 DEF IntroTypeOK
<1> QED
  BY <1>1, <1>2, <1>3, <1>4, <1>5, <1>6, IntroCases

-----------------------------------------------------------------------------
\* One open request of a pair

LEMMA OpenOnceSteps ==
  ASSUME IntroTypeOK, PairIsOpenOnce, IntroNext
  PROVE  PairIsOpenOnce'
<1> DEFINE Open(r) == r.status \in {"pending", "accepted"}
<1>0. \A i, j \in DOMAIN requests :
        requests[i].pair = requests[j].pair /\ Open(requests[i]) /\ Open(requests[j]) => i = j
  BY DEF PairIsOpenOnce
<1>1. SUFFICES \A i, j \in DOMAIN requests' :
        requests'[i].pair = requests'[j].pair /\ Open(requests'[i]) /\ Open(requests'[j]) => i = j
  BY DEF PairIsOpenOnce
<1>2. CASE \E c \in Calls : Moved(c) \/ Charge(c)
  <2>1. requests' = requests
    BY <1>2 DEF Moved, Charge
  <2> QED
    BY <1>0, <2>1
<1>3. ASSUME NEW c \in Calls, RequestStored(c)
      PROVE  \A i, j \in DOMAIN requests' :
               requests'[i].pair = requests'[j].pair /\ Open(requests'[i]) /\ Open(requests'[j]) => i = j
  <2> DEFINE n == Len(requests) + 1
  <2>1. /\ DOMAIN requests' = DOMAIN requests \cup {n} /\ requests'[n].pair = calls[c].pair
        /\ \A j \in DOMAIN requests : requests'[j] = requests[j]
        /\ CanRequest(calls[c].pair, calls[c].requester)
    BY <1>3 DEF RequestStored
  <2>2. \A j \in DOMAIN requests : requests[j].pair = calls[c].pair => ~Open(requests[j])
    BY <2>1 DEF CanRequest, RequestsOf
  <2> HIDE DEF n, Open
  <2> QED
    BY <1>0, <2>1, <2>2
<1>4. ASSUME NEW k \in DOMAIN requests, NEW status \in {"accepted", "rejected", "cancelled"},
             Answered(k, status)
      PROVE  \A i, j \in DOMAIN requests' :
               requests'[i].pair = requests'[j].pair /\ Open(requests'[i]) /\ Open(requests'[j]) => i = j
  <2>1. DOMAIN requests' = DOMAIN requests
        /\ \A j \in DOMAIN requests : requests'[j].pair = requests[j].pair
                                      /\ (Open(requests'[j]) => Open(requests[j]))
    BY <1>4 DEF Answered
  <2> HIDE DEF Open
  <2> QED
    BY <1>0, <2>1
<1>5. ASSUME NEW k \in DOMAIN requests, CooldownEnds(k)
      PROVE  \A i, j \in DOMAIN requests' :
               requests'[i].pair = requests'[j].pair /\ Open(requests'[i]) /\ Open(requests'[j]) => i = j
  <2>1. DOMAIN requests' = DOMAIN requests
        /\ \A j \in DOMAIN requests : requests'[j].pair = requests[j].pair
                                      /\ (Open(requests'[j]) => Open(requests[j]))
    BY <1>5, CoolingStops
  <2> HIDE DEF Open
  <2> QED
    BY <1>0, <2>1
<1>6. CASE UNCHANGED <<requests, ledger, calls, notices, mails>>
  BY <1>0, <1>6
<1> QED
  BY <1>2, <1>3, <1>4, <1>5, <1>6, IntroCases

-----------------------------------------------------------------------------
\* Mail and notifications

\* A call that neither stores nor charges keeps what is told.
LEMMA TellingFrame ==
  ASSUME TellingInvariant, UNCHANGED <<ledger, notices, mails>>,
         DOMAIN requests' = DOMAIN requests,
         \A j \in DOMAIN requests : requests'[j].pair = requests[j].pair
                                  /\ requests'[j].requester = requests[j].requester,
         CallsAreStored'
  PROVE  TellingInvariant'
<1>1. \A j \in DOMAIN requests :
        [request |-> j, status |-> "pending", to |-> Counterpart(requests'[j].pair, requests'[j].requester)]
          = CreatedNote(j)
  BY DEF CreatedNote
<1>2. StoredIsNotified'
  BY <1>1 DEF TellingInvariant, StoredIsNotified, CreatedNote
<1>3. NoticesAreOfRequests'
  BY <1>1 DEF TellingInvariant, NoticesAreOfRequests, CreatedNote
<1>4. ChargedIsStored' /\ MailFollowsNotice'
  BY DEF TellingInvariant, ChargedIsStored, MailFollowsNotice
<1> QED
  BY <1>2, <1>3, <1>4 DEF TellingInvariant

LEMMA TellingSteps ==
  ASSUME BillingInvariant, IntroTypeOK, TellingInvariant, IntroNext
  PROVE  TellingInvariant'
<1>0. /\ CallsAreStored /\ StoredIsNotified /\ NoticesAreOfRequests /\ ChargedIsStored
      /\ MailFollowsNotice /\ calls \in [Calls -> Call]
  BY DEF TellingInvariant, IntroTypeOK
<1>1. ASSUME NEW c \in Calls, Moved(c)
      PROVE  TellingInvariant'
  <2>1. PICK row \in Call :
          /\ calls' = [calls EXCEPT ![c] = row]
          /\ row.pc \in {"plan", "count", "charge"} =>
                /\ calls[c].pc \in {"plan", "count"}
                /\ row.pair = calls[c].pair /\ row.requester = calls[c].requester
                /\ row.request = calls[c].request
    BY <1>1, MovedCalls
  <2>2. \A d \in Calls : calls'[d] = IF d = c THEN row ELSE calls[d]
    BY <1>0, <2>1
  <2>3. UNCHANGED <<requests, ledger, notices, mails>>
    BY <1>1 DEF Moved
  <2>4. CallsAreStored'
    BY <1>0, <2>1, <2>2, <2>3 DEF CallsAreStored
  <2> QED
    BY <2>3, <2>4, TellingFrame
<1>2. ASSUME NEW c \in Calls, RequestStored(c)
      PROVE  TellingInvariant'
  <2> DEFINE i == Len(requests) + 1
             note == [request |-> i, status |-> "pending",
                      to |-> Counterpart(calls[c].pair, calls[c].requester)]
  <2>1. /\ i \notin DOMAIN requests /\ DOMAIN requests' = DOMAIN requests \cup {i}
        /\ requests'[i].pair = calls[c].pair /\ requests'[i].requester = calls[c].requester
        /\ \A j \in DOMAIN requests : requests'[j] = requests[j]
        /\ notices' = notices \cup {note}
        /\ calls' = [calls EXCEPT ![c].pc = "plan", ![c].request = i]
        /\ UNCHANGED <<ledger, mails>>
    BY <1>2 DEF RequestStored
  <2>2. note.request = i /\ note.status = "pending"
    OBVIOUS
  <2>3. [request |-> i, status |-> "pending", to |-> Counterpart(requests'[i].pair, requests'[i].requester)]
          = note
    BY <2>1
  <2>4. \A j \in DOMAIN requests :
          [request |-> j, status |-> "pending", to |-> Counterpart(requests'[j].pair, requests'[j].requester)]
            = CreatedNote(j)
    BY <2>1 DEF CreatedNote
  <2>5. calls[c] \in Call
    BY <1>0
  <2>6. /\ calls'[c].pair = calls[c].pair /\ calls'[c].requester = calls[c].requester
        /\ calls'[c].request = i
        /\ \A d \in Calls : d # c => calls'[d] = calls[d]
    BY <1>0, <2>1, <2>5 DEF Call
  <2> HIDE DEF i, note
  <2>8. CallsAreStored'
    BY <1>0, <2>1, <2>6 DEF CallsAreStored
  <2>9. StoredIsNotified'
    BY <1>0, <2>1, <2>4, <2>3 DEF StoredIsNotified, CreatedNote
  <2>10. NoticesAreOfRequests'
    BY <1>0, <2>1, <2>2, <2>4, <2>3 DEF NoticesAreOfRequests, CreatedNote
  <2>11. ChargedIsStored'
    BY <1>0, <2>1 DEF ChargedIsStored
  <2>12. MailFollowsNotice'
    BY <1>0, <2>1, <2>2 DEF ChargedIsStored, MailFollowsNotice
  <2> QED
    BY <2>8, <2>9, <2>10, <2>11, <2>12 DEF TellingInvariant
<1>3. ASSUME NEW c \in Calls, Charge(c)
      PROVE  TellingInvariant'
  <2> DEFINE i == calls[c].request
             note == [request |-> i, status |-> "pending",
                      to |-> Counterpart(calls[c].pair, calls[c].requester)]
             usage == [profile |-> calls[c].requester, period |-> calls[c].period,
                       plan |-> calls[c].plan, request |-> i]
  <2>1. /\ calls[c].pc = "charge" /\ ledger' = ledger \cup {usage} /\ mails' = mails \cup {note}
        /\ calls' = [calls EXCEPT ![c] = IdleCall]
        /\ UNCHANGED <<requests, notices>>
    BY <1>3, ChargeCharges
  <2>2. i \in DOMAIN requests /\ CreatedNote(i) = note
    BY <1>0, <2>1 DEF CallsAreStored, CreatedNote
  <2>3. note \in notices /\ usage.request = i
    BY <1>0, <2>2 DEF StoredIsNotified
  <2>4. \A n \in notices : n.status = "pending" /\ n.request = i => n = note
    BY <1>0, <2>2 DEF NoticesAreOfRequests
  <2>5. \A d \in Calls : calls'[d] = calls[d] \/ calls'[d] = IdleCall
    BY <1>0, <2>1
  <2> HIDE DEF i, note, usage
  <2>6. CallsAreStored'
    BY <1>0, <2>1, <2>5, IdleIsCall DEF CallsAreStored
  <2>7. StoredIsNotified' /\ NoticesAreOfRequests'
    BY <1>0, <2>1 DEF StoredIsNotified, NoticesAreOfRequests, CreatedNote
  <2>8. ChargedIsStored'
    BY <1>0, <2>1, <2>2, <2>3 DEF ChargedIsStored
  <2>9. MailFollowsNotice'
    BY <1>0, <2>1, <2>3, <2>4 DEF MailFollowsNotice
  <2> QED
    BY <2>6, <2>7, <2>8, <2>9 DEF TellingInvariant
<1>4. ASSUME NEW i \in DOMAIN requests, NEW status \in {"accepted", "rejected", "cancelled"},
             Answered(i, status)
      PROVE  TellingInvariant'
  <2> DEFINE note == AnswerNote(i, status)
  <2>1. /\ DOMAIN requests' = DOMAIN requests
        /\ \A j \in DOMAIN requests : requests'[j].pair = requests[j].pair
                                     /\ requests'[j].requester = requests[j].requester
        /\ notices' = notices \cup {note} /\ mails' = mails \cup {note}
        /\ UNCHANGED <<ledger, calls>>
    BY <1>4 DEF Answered
  <2>2. note.request = i /\ note.status # "pending"
    BY DEF AnswerNote
  <2>3. \A j \in DOMAIN requests :
          [request |-> j, status |-> "pending", to |-> Counterpart(requests'[j].pair, requests'[j].requester)]
            = CreatedNote(j)
    BY <2>1 DEF CreatedNote
  <2> HIDE DEF note
  <2>4. CallsAreStored'
    BY <1>0, <2>1 DEF CallsAreStored
  <2>5. StoredIsNotified'
    BY <1>0, <2>1, <2>3 DEF StoredIsNotified, CreatedNote
  <2>6. NoticesAreOfRequests'
    BY <1>0, <2>1, <2>2, <2>3 DEF NoticesAreOfRequests, CreatedNote
  <2>7. ChargedIsStored' /\ MailFollowsNotice'
    BY <1>0, <2>1 DEF ChargedIsStored, MailFollowsNotice
  <2> QED
    BY <2>4, <2>5, <2>6, <2>7 DEF TellingInvariant
<1>5. ASSUME NEW i \in DOMAIN requests, CooldownEnds(i)
      PROVE  TellingInvariant'
  <2>1. /\ DOMAIN requests' = DOMAIN requests
        /\ \A j \in DOMAIN requests : requests'[j].pair = requests[j].pair
                                     /\ requests'[j].requester = requests[j].requester
        /\ UNCHANGED <<ledger, calls, notices, mails>>
    BY <1>5, CoolingStops
  <2>2. CallsAreStored'
    BY <1>0, <2>1 DEF CallsAreStored
  <2> QED
    BY <2>1, <2>2, TellingFrame
<1>6. CASE UNCHANGED <<requests, ledger, calls, notices, mails>>
  <2>1. CallsAreStored'
    BY <1>0, <1>6 DEF CallsAreStored
  <2> QED
    BY <1>6, <2>1, TellingFrame
<1> QED
  BY <1>1, <1>2, <1>3, <1>4, <1>5, <1>6, IntroCases

-----------------------------------------------------------------------------
\* Periods and quotas

\* A step that begins no period, or begins one of one profile with one plan.
LEMMA PlansStep ==
  ASSUME PeriodsHaveOnePlan, periods \in Nat,
         periods' = periods \/ periods' = periods + 1,
         \E owner, plan : \A p \in Profiles, n \in Nat, q \in Plans : Bears(p, n, q)' =>
            \/ Bears(p, n, q)
            \/ periods' = periods + 1 /\ p = owner /\ n = periods + 1 /\ q = plan
  PROVE  PeriodsHaveOnePlan'
<1>0. PICK owner, plan : \A p \in Profiles, n \in Nat, q \in Plans : Bears(p, n, q)' =>
            \/ Bears(p, n, q)
            \/ periods' = periods + 1 /\ p = owner /\ n = periods + 1 /\ q = plan
  OBVIOUS
<1> SUFFICES ASSUME NEW p \in Profiles, NEW n \in Nat, NEW q \in Plans, Bears(p, n, q)'
             PROVE  /\ n <= periods'
                    /\ \A other \in Plans : Bears(p, n, other)' => other = q
  BY DEF PeriodsHaveOnePlan
<1>1. \A other \in Plans : Bears(p, n, other) =>
        n <= periods /\ \A third \in Plans : Bears(p, n, third) => third = other
  BY DEF PeriodsHaveOnePlan
<1>2. \A other \in Plans : Bears(p, n, other)' =>
        Bears(p, n, other) \/ (periods' = periods + 1 /\ n = periods + 1 /\ other = plan)
  BY <1>0
<1>3. CASE Bears(p, n, q)
  <2>1. n <= periods
    BY <1>1, <1>3
  <2>2. n # periods + 1
    BY <2>1
  <2>3. \A other \in Plans : Bears(p, n, other)' => other = q
    BY <1>1, <1>2, <1>3, <2>2
  <2>4. n <= periods'
    BY <2>1
  <2> QED
    BY <2>3, <2>4
<1>4. CASE periods' = periods + 1 /\ n = periods + 1 /\ q = plan
  <2>1. \A other \in Plans : ~Bears(p, n, other)
    <3>1. ~(n <= periods)
      BY <1>4
    <3> QED
      BY <1>1, <3>1
  <2>2. \A other \in Plans : Bears(p, n, other)' => other = q
    BY <1>2, <1>4, <2>1
  <2> QED
    BY <1>4, <2>2
<1> QED
  BY <1>2, <1>3, <1>4

\* Only the subscriptions of owner change; a period that begins there has this plan.
PeriodBegins(owner, plan) ==
    /\ periods' = periods \/ periods' = periods + 1
    /\ \A p \in Profiles : p # owner => subscriptions'[p] = subscriptions[p]
    /\ \A i \in DOMAIN subscriptions'[owner] :
         \/ /\ i \in DOMAIN subscriptions[owner]
            /\ subscriptions'[owner][i].period = subscriptions[owner][i].period
            /\ subscriptions'[owner][i].plan = subscriptions[owner][i].plan
         \/ /\ periods' = periods + 1
            /\ subscriptions'[owner][i].period = periods + 1
            /\ subscriptions'[owner][i].plan = plan

LEMMA BillingPlans ==
  ASSUME periods \in Nat, PeriodsHaveOnePlan, UNCHANGED introVars,
         \E owner \in Profiles, plan \in Plans : PeriodBegins(owner, plan)
  PROVE  PeriodsHaveOnePlan'
<1>1. PICK owner \in Profiles, plan \in Plans : PeriodBegins(owner, plan)
  OBVIOUS
<1>2. /\ periods' = periods \/ periods' = periods + 1
      /\ \A p \in Profiles : p # owner => subscriptions'[p] = subscriptions[p]
      /\ \A i \in DOMAIN subscriptions'[owner] :
           \/ /\ i \in DOMAIN subscriptions[owner]
              /\ subscriptions'[owner][i].period = subscriptions[owner][i].period
              /\ subscriptions'[owner][i].plan = subscriptions[owner][i].plan
           \/ /\ periods' = periods + 1
              /\ subscriptions'[owner][i].period = periods + 1
              /\ subscriptions'[owner][i].plan = plan
  BY <1>1 DEF PeriodBegins
<1>3. ASSUME NEW p \in Profiles, NEW n \in Nat, NEW q \in Plans, Bears(p, n, q)'
      PROVE  \/ Bears(p, n, q)
             \/ periods' = periods + 1 /\ p = owner /\ n = periods + 1 /\ q = plan
  <2>1. UNCHANGED <<ledger, calls>>
    BY DEF introVars
  <2>2. CASE \E i \in DOMAIN subscriptions'[p] :
               subscriptions'[p][i].period = n /\ subscriptions'[p][i].plan = q
    <3>1. PICK i \in DOMAIN subscriptions'[p] :
            subscriptions'[p][i].period = n /\ subscriptions'[p][i].plan = q
      BY <2>2
    <3>2. CASE p = owner
      BY <1>2, <3>1, <3>2 DEF Bears
    <3>3. CASE p # owner
      BY <1>2, <3>1, <3>3 DEF Bears
    <3> QED
      BY <3>2, <3>3
  <2>3. CASE \E u \in ledger : u.profile = p /\ u.period = n /\ u.plan = q
    BY <2>3 DEF Bears
  <2>4. CASE \E c \in Calls : Reading(c) /\ calls[c].requester = p /\ calls[c].period = n
                              /\ calls[c].plan = q
    BY <2>4 DEF Bears
  <2> QED
    BY <1>3, <2>1, <2>2, <2>3, <2>4 DEF Bears, Reading
<1>4. \E o, t : \A p \in Profiles, n \in Nat, q \in Plans : Bears(p, n, q)' =>
            \/ Bears(p, n, q)
            \/ periods' = periods + 1 /\ p = o /\ n = periods + 1 /\ q = t
  <2>1. \A p \in Profiles, n \in Nat, q \in Plans : Bears(p, n, q)' =>
            \/ Bears(p, n, q)
            \/ periods' = periods + 1 /\ p = owner /\ n = periods + 1 /\ q = plan
    BY <1>3
  <2> WITNESS owner, plan
  <2> QED
    BY <2>1
<1> QED
  BY <1>2, <1>4, PlansStep

LEMMA SpendingFrame ==
  ASSUME SpendingIsBounded, UNCHANGED introVars
  PROVE  SpendingIsBounded'
BY SMTT(30) DEF SpendingIsBounded, Spends, UsageOf, Charging, introVars

LEMMA BillingQuota ==
  ASSUME BillingInvariant, QuotaInvariant, BillingNext, UNCHANGED introVars
  PROVE  QuotaInvariant'
<1>0. /\ PeriodsHaveOnePlan /\ periods \in Nat /\ subscriptions \in [Profiles -> Seq(Subscription)]
      /\ BillingTypeOK
  BY DEF QuotaInvariant, BillingInvariant, BillingTypeOK
<1>1. IsFiniteSet(ledger)' /\ SpendingIsBounded'
  BY SpendingFrame DEF QuotaInvariant, introVars
<1>2. ASSUME UNCHANGED <<subscriptions, periods>>
      PROVE  PeriodsHaveOnePlan'
  <2>1. UNCHANGED <<ledger, calls, subscriptions, periods>>
    BY <1>2 DEF introVars
  <2>2. ASSUME NEW p \in Profiles, NEW m \in Nat, NEW q \in Plans
        PROVE  Bears(p, m, q)' <=> Bears(p, m, q)
    BY <2>1 DEF Bears, Reading
  <2>3. ASSUME NEW p \in Profiles, NEW m \in Nat, NEW q \in Plans, Bears(p, m, q)'
        PROVE  m <= periods' /\ \A other \in Plans : Bears(p, m, other)' => other = q
    BY <1>0, <2>1, <2>2, <2>3 DEF PeriodsHaveOnePlan
  <2> QED
    BY <2>3 DEF PeriodsHaveOnePlan
<1>3. ASSUME NEW p \in Profiles, FinishTrial(p)
      PROVE  PeriodsHaveOnePlan'
  <2> DEFINE begun == BegunNow("trialing", "trial")
             s == Append(subscriptions[p], begun)
  <2>1. subscriptions' = [subscriptions EXCEPT ![p] = s] /\ periods' = periods + 1
    BY <1>3 DEF FinishTrial
  <2>2. begun \in Subscription /\ begun.period = periods + 1 /\ begun.plan = "trial"
    BY <1>0, BegunIsSubscription DEF Plans
  <2> HIDE DEF begun
  <2>3. subscriptions[p] \in Seq(Subscription)
    BY <1>0
  <2>4. \A i \in DOMAIN s : (i \in DOMAIN subscriptions[p] /\ s[i] = subscriptions[p][i]) \/ s[i] = begun
    BY <2>2, <2>3
  <2> HIDE DEF s
  <2>5. \A q \in Profiles : subscriptions'[q] = IF q = p THEN s ELSE subscriptions[q]
    BY <1>0, <2>1
  <2>6. PeriodBegins(p, "trial")
    BY <2>1, <2>2, <2>4, <2>5 DEF PeriodBegins
  <2> QED
    BY <1>0, <2>6, BillingPlans DEF Plans
<1>4. ASSUME NEW p \in Profiles, NEW i \in DOMAIN subscriptions[p], NEW status \in Repairs,
             ReconcileStatus(p, i, status)
      PROVE  PeriodsHaveOnePlan'
  <2> DEFINE r == [subscriptions[p][i] EXCEPT !.status = status]
             s == [subscriptions[p] EXCEPT ![i] = r]
  <2>1. subscriptions' = [subscriptions EXCEPT ![p] = s] /\ periods' = periods
    BY <1>0, <1>4 DEF ReconcileStatus
  <2>2. subscriptions[p] \in Seq(Subscription) /\ subscriptions[p][i] \in Subscription
    BY <1>0
  <2>3. r.period = subscriptions[p][i].period /\ r.plan = subscriptions[p][i].plan
    BY <2>2 DEF Subscription
  <2> HIDE DEF r
  <2>4. \A j \in DOMAIN s : /\ j \in DOMAIN subscriptions[p]
                            /\ s[j].period = subscriptions[p][j].period
                            /\ s[j].plan = subscriptions[p][j].plan
    BY <2>2, <2>3
  <2> HIDE DEF s
  <2>5. \A q \in Profiles : subscriptions'[q] = IF q = p THEN s ELSE subscriptions[q]
    BY <1>0, <2>1
  <2>6. PeriodBegins(p, "trial")
    BY <2>1, <2>4, <2>5 DEF PeriodBegins
  <2> QED
    BY <1>0, <2>6, BillingPlans DEF Plans
<1>5. ASSUME NEW o \in Orders, SuccessCallback(o)
      PROVE  PeriodsHaveOnePlan'
  <2> DEFINE p == sessions[o].profile
             s == Renewed(o)
             begun == BegunNow("active", sessions[o].plan)
  <2>1. /\ subscriptions' = [subscriptions EXCEPT ![p] = s] /\ periods' = periods + 1
        /\ sessions[o].status # "none"
    BY <1>5 DEF SuccessCallback
  <2>2. /\ p \in Profiles /\ sessions[o].plan \in Plans /\ s[1] = begun
        /\ \A i \in DOMAIN s : i # 1 => i \in DOMAIN subscriptions[p] /\ s[i] = subscriptions[p][i]
    BY <1>0, <2>1, RenewedFacts DEF PaidPlans
  <2>3. begun.period = periods + 1 /\ begun.plan = sessions[o].plan
    BY <1>0, <2>2, BegunIsSubscription
  <2> HIDE DEF p, s, begun
  <2>4. PICK owner \in Profiles, plan \in Plans : owner = p /\ plan = sessions[o].plan
    BY <2>2
  <2>5. \A q \in Profiles : subscriptions'[q] = IF q = owner THEN s ELSE subscriptions[q]
    BY <1>0, <2>1, <2>4
  <2>6. \A i \in DOMAIN s :
          \/ i \in DOMAIN subscriptions[owner] /\ s[i] = subscriptions[owner][i]
          \/ s[i].period = periods + 1 /\ s[i].plan = plan
    BY <2>2, <2>3, <2>4
  <2>7. PeriodBegins(owner, plan)
    BY <2>1, <2>5, <2>6 DEF PeriodBegins
  <2> QED
    BY <1>0, <2>7, BillingPlans
<1>6. PeriodsHaveOnePlan'
  <2>1. CASE TimePasses
    BY <1>2, <2>1 DEF TimePasses
  <2>2. CASE \E p \in Profiles : BeginTrial(p) \/ CompleteDetails(p)
    BY <1>2, <2>2 DEF BeginTrial, CompleteDetails
  <2>3. CASE \E p \in Profiles, o \in Orders, plan \in PaidPlans : Checkout(o, p, plan)
    BY <1>2, <2>3 DEF Checkout
  <2>4. CASE \E o \in Orders : StoreCallback(o) \/ FailedCallback(o) \/ InvalidCallback(o)
    BY <1>2, <2>4 DEF StoreCallback, FailedCallback, InvalidCallback
  <2>5. CASE \E e \in EventIds : MarkEventProcessed(e)
    BY <1>2, <2>5 DEF MarkEventProcessed
  <2> QED
    BY <1>3, <1>4, <1>5, <2>1, <2>2, <2>3, <2>4, <2>5 DEF BillingNext
<1> QED
  BY <1>1, <1>6 DEF QuotaInvariant

LEMMA Sizes ==
  ASSUME IsFiniteSet(ledger), NEW p, NEW n
  PROVE  /\ IsFiniteSet(UsageOf(p, n)) /\ Cardinality(UsageOf(p, n)) \in Nat
         /\ IsFiniteSet(Charging(p, n)) /\ Cardinality(Charging(p, n)) \in Nat
         /\ Cardinality(Charging(p, n)) <= Cardinality(Calls) /\ Cardinality(Calls) \in Nat
<1>1. IsFiniteSet(Calls) /\ Cardinality(Calls) \in Nat
  BY FS_CardinalityType
<1>2. UsageOf(p, n) \subseteq ledger /\ Charging(p, n) \subseteq Calls
  BY DEF UsageOf, Charging
<1>3. IsFiniteSet(UsageOf(p, n)) /\ IsFiniteSet(Charging(p, n))
      /\ Cardinality(Charging(p, n)) <= Cardinality(Calls)
  BY <1>1, <1>2, FS_Subset
<1> QED
  BY <1>1, <1>3, FS_CardinalityType

LEMMA QuotaIsNat == \A q : Quota(q) \in Nat
  BY DEF Quota

\* The plans of the periods of what a step leaves.
LEMMA IntroPlans ==
  ASSUME IntroTypeOK, PeriodsHaveOnePlan, periods \in Nat, UNCHANGED <<subscriptions, periods>>,
         \A u \in ledger' : u \in ledger \/ \E c \in Calls :
            /\ Reading(c) /\ u.profile = calls[c].requester
            /\ u.period = calls[c].period /\ u.plan = calls[c].plan,
         \A c \in Calls : calls'[c].pc \in {"count", "charge"} =>
            \/ /\ Reading(c) /\ calls'[c].requester = calls[c].requester
               /\ calls'[c].period = calls[c].period /\ calls'[c].plan = calls[c].plan
            \/ \E i \in DOMAIN subscriptions[calls'[c].requester] :
                 /\ calls'[c].period = subscriptions[calls'[c].requester][i].period
                 /\ calls'[c].plan = subscriptions[calls'[c].requester][i].plan
  PROVE  PeriodsHaveOnePlan'
<1>1. ASSUME NEW p \in Profiles, NEW n \in Nat, NEW q \in Plans, Bears(p, n, q)'
      PROVE  Bears(p, n, q)
  <2>1. CASE \E i \in DOMAIN subscriptions[p] :
               subscriptions[p][i].period = n /\ subscriptions[p][i].plan = q
    BY <2>1 DEF Bears
  <2>2. ASSUME NEW u \in ledger', u.profile = p, u.period = n, u.plan = q
        PROVE  Bears(p, n, q)
    BY <2>2 DEF Bears
  <2>3. ASSUME NEW c \in Calls, calls'[c].pc \in {"count", "charge"}, calls'[c].requester = p,
               calls'[c].period = n, calls'[c].plan = q
        PROVE  Bears(p, n, q)
    BY <2>3 DEF Bears
  <2> QED
    BY <1>1, <2>1, <2>2, <2>3 DEF Bears, Reading
<1>2. \E o, t : \A p \in Profiles, n \in Nat, q \in Plans : Bears(p, n, q)' =>
            \/ Bears(p, n, q)
            \/ periods' = periods + 1 /\ p = o /\ n = periods + 1 /\ q = t
  BY <1>1
<1> QED
  BY <1>2, PlansStep

\* A step that charges nothing and lets no call charge.
LEMMA SpendingKept ==
  ASSUME QuotaInvariant, UNCHANGED ledger,
         \A c \in Calls : calls'[c].pc = "charge" => calls'[c] = calls[c]
  PROVE  SpendingIsBounded'
<1> SUFFICES ASSUME NEW p \in Profiles, NEW n \in Nat, NEW q \in Plans, Spends(p, n, q)'
             PROVE  (Cardinality(UsageOf(p, n)) + Cardinality(Charging(p, n)) < Quota(q) + Cardinality(Calls))'
  BY DEF SpendingIsBounded
<1> DEFINE U == UsageOf(p, n)
           F == Charging(p, n)
           G == {c \in Calls : calls'[c].pc = "charge" /\ calls'[c].requester = p /\ calls'[c].period = n}
<1>1. UsageOf(p, n)' = U /\ Charging(p, n)' = G
  BY DEF UsageOf, Charging
<1>2. G \subseteq F
  BY DEF Charging
<1>3. Spends(p, n, q)
  BY <1>1 DEF Spends, UsageOf, Charging
<1>4. Cardinality(U) + Cardinality(F) < Quota(q) + Cardinality(Calls)
  BY <1>3 DEF QuotaInvariant, SpendingIsBounded
<1>5. /\ Cardinality(U) \in Nat /\ IsFiniteSet(F) /\ Cardinality(F) \in Nat
      /\ Cardinality(Calls) \in Nat
  BY Sizes DEF QuotaInvariant
<1>6. Cardinality(G) \in Nat /\ Cardinality(G) <= Cardinality(F)
  BY <1>2, <1>5, FS_Subset, FS_CardinalityType
<1>7. Quota(q) \in Nat
  BY QuotaIsNat
<1> HIDE DEF U, F, G
<1>8. Cardinality(U) + Cardinality(G) < Quota(q) + Cardinality(Calls)
  BY <1>4, <1>5, <1>6, <1>7
<1> QED
  BY <1>1, <1>8

\* A call that counts within the quota is one of at most as many as there are calls.
LEMMA SpendingCounts ==
  ASSUME IntroTypeOK, QuotaInvariant, UNCHANGED ledger, NEW c \in Calls, NEW row \in Call,
         calls[c].pc = "count", WithinQuota(c), calls' = [calls EXCEPT ![c] = row],
         row.pc = "charge", row.requester = calls[c].requester,
         row.period = calls[c].period, row.plan = calls[c].plan
  PROVE  SpendingIsBounded'
<1> SUFFICES ASSUME NEW p \in Profiles, NEW n \in Nat, NEW q \in Plans, Spends(p, n, q)'
             PROVE  (Cardinality(UsageOf(p, n)) + Cardinality(Charging(p, n)) < Quota(q) + Cardinality(Calls))'
  BY DEF SpendingIsBounded
<1> DEFINE U == UsageOf(p, n)
           F == Charging(p, n)
           G == {d \in Calls : calls'[d].pc = "charge" /\ calls'[d].requester = p /\ calls'[d].period = n}
<1>0. /\ calls \in [Calls -> Call] /\ IsFiniteSet(Calls) /\ Cardinality(Calls) \in Nat
      /\ Quota(q) \in Nat
  BY QuotaIsNat, FS_CardinalityType DEF IntroTypeOK
<1>1. UsageOf(p, n)' = U /\ Charging(p, n)' = G
  BY DEF UsageOf, Charging
<1>2. \A d \in Calls : calls'[d] = IF d = c THEN row ELSE calls[d]
  BY <1>0
<1>3. Cardinality(U) \in Nat /\ Cardinality(F) \in Nat
  BY Sizes DEF QuotaInvariant
<1>4. CASE calls[c].requester = p /\ calls[c].period = n
  <2>1. calls[c].plan \in Plans /\ Bears(p, n, calls[c].plan)
    BY <1>4, CallFacts DEF Bears, Reading
  <2>2. Bears(p, n, q)
    <3>1. CASE \E u \in UsageOf(p, n) : u.plan = q
      BY <3>1 DEF Bears, UsageOf
    <3>2. CASE \E d \in G : calls'[d].plan = q
      <4>1. PICK d \in G : calls'[d].plan = q
        BY <3>2
      <4>2. CASE d = c
        BY <1>2, <2>1, <4>1, <4>2
      <4>3. CASE d # c
        BY <1>2, <4>1, <4>3 DEF Bears, Reading
      <4> QED
        BY <4>2, <4>3
    <3> QED
      BY <1>1, <3>1, <3>2 DEF Spends
  <2>3. calls[c].plan = q
    BY <2>1, <2>2 DEF QuotaInvariant, PeriodsHaveOnePlan
  <2>4. ~(Cardinality(U) >= Quota(q))
    BY <1>4, <2>3 DEF WithinQuota, Exhausted
  <2>5. Cardinality(G) \in Nat /\ Cardinality(G) <= Cardinality(Calls)
    <3>1. G \subseteq Calls
      OBVIOUS
    <3> QED
      BY <1>0, <3>1, FS_Subset, FS_CardinalityType
  <2> HIDE DEF U, G
  <2>6. Cardinality(U) + Cardinality(G) < Quota(q) + Cardinality(Calls)
    BY <1>0, <1>3, <2>4, <2>5
  <2> QED
    BY <1>1, <2>6
<1>5. CASE ~(calls[c].requester = p /\ calls[c].period = n)
  <2>1. G = F
    BY <1>2, <1>5 DEF Charging
  <2>2. \A d \in F : calls'[d] = calls[d]
    BY <1>2, <1>5 DEF Charging
  <2>3. Spends(p, n, q)
    BY <1>1, <2>1, <2>2 DEF Spends
  <2>4. Cardinality(U) + Cardinality(F) < Quota(q) + Cardinality(Calls)
    BY <2>3 DEF QuotaInvariant, SpendingIsBounded
  <2> QED
    BY <1>1, <2>1, <2>4
<1> QED
  BY <1>4, <1>5

\* A charge takes what the call had counted.
LEMMA SpendingCharges ==
  ASSUME IntroTypeOK, QuotaInvariant, NEW c \in Calls, Charge(c)
  PROVE  IsFiniteSet(ledger') /\ SpendingIsBounded'
<1> DEFINE usage == [profile |-> calls[c].requester, period |-> calls[c].period,
                     plan |-> calls[c].plan, request |-> calls[c].request]
<1>1. /\ calls[c].pc = "charge" /\ ledger' = ledger \cup {usage}
      /\ calls' = [calls EXCEPT ![c] = IdleCall]
  BY ChargeCharges
<1>2. /\ usage.profile = calls[c].requester /\ usage.period = calls[c].period
      /\ usage.plan = calls[c].plan
  OBVIOUS
<1> HIDE DEF usage
<1>3. IsFiniteSet(ledger')
  BY <1>1, FS_AddElement DEF QuotaInvariant
<1>4. ASSUME NEW p \in Profiles, NEW n \in Nat, NEW q \in Plans, Spends(p, n, q)'
      PROVE  (Cardinality(UsageOf(p, n)) + Cardinality(Charging(p, n)) < Quota(q) + Cardinality(Calls))'
  <2> DEFINE U == UsageOf(p, n)
             F == Charging(p, n)
             V == {u \in ledger' : u.profile = p /\ u.period = n}
             G == {d \in Calls : calls'[d].pc = "charge" /\ calls'[d].requester = p /\ calls'[d].period = n}
  <2>0. /\ calls \in [Calls -> Call] /\ Cardinality(Calls) \in Nat /\ Quota(q) \in Nat
        /\ Cardinality(U) \in Nat /\ IsFiniteSet(U) /\ Cardinality(F) \in Nat /\ IsFiniteSet(F)
    BY Sizes, QuotaIsNat DEF QuotaInvariant, IntroTypeOK
  <2>1. UsageOf(p, n)' = V /\ Charging(p, n)' = G
    BY DEF UsageOf, Charging
  <2>2. \A d \in Calls : calls'[d] = IF d = c THEN IdleCall ELSE calls[d]
    BY <1>1, <2>0
  <2>3. G = F \ {c}
    BY <2>2, IdleIsCall DEF Charging
  <2>4. \A d \in G : calls'[d] = calls[d]
    BY <2>2, IdleIsCall
  <2>5. CASE calls[c].requester = p /\ calls[c].period = n
    <3>1. c \in F /\ V = U \cup {usage}
      BY <1>1, <1>2, <2>5 DEF Charging, UsageOf
    <3>2. Spends(p, n, q)
      BY <1>2, <1>4, <2>1, <2>3, <2>4, <3>1 DEF Spends
    <3>3. Cardinality(U) + Cardinality(F) < Quota(q) + Cardinality(Calls)
      BY <3>2 DEF QuotaInvariant, SpendingIsBounded
    <3> HIDE DEF U, F, V, G
    <3>4. Cardinality(V) \in Nat /\ Cardinality(V) <= Cardinality(U) + 1
      <4>1. CASE usage \in U
        <5>1. V = U
          BY <3>1, <4>1
        <5> QED
          BY <2>0, <5>1
      <4>2. CASE usage \notin U
        <5>1. Cardinality(V) = Cardinality(U) + 1
          BY <2>0, <3>1, <4>2, FS_AddElement
        <5> QED
          BY <2>0, <5>1
      <4> QED
        BY <4>1, <4>2
    <3>5. Cardinality(G) = Cardinality(F) - 1
      BY <2>0, <2>3, <3>1, FS_RemoveElement
    <3>6. Cardinality(V) + Cardinality(G) < Quota(q) + Cardinality(Calls)
      BY <2>0, <3>3, <3>4, <3>5
    <3> QED
      BY <2>1, <3>6
  <2>6. CASE ~(calls[c].requester = p /\ calls[c].period = n)
    <3>1. G = F /\ V = U
      BY <1>1, <1>2, <2>3, <2>6 DEF Charging, UsageOf
    <3>2. Spends(p, n, q)
      BY <1>4, <2>1, <2>4, <3>1 DEF Spends
    <3>3. Cardinality(U) + Cardinality(F) < Quota(q) + Cardinality(Calls)
      BY <3>2 DEF QuotaInvariant, SpendingIsBounded
    <3> QED
      BY <2>1, <3>1, <3>3
  <2> QED
    BY <2>5, <2>6
<1> QED
  BY <1>3, <1>4 DEF SpendingIsBounded

LEMMA IntroQuota ==
  ASSUME BillingInvariant, IntroTypeOK, QuotaInvariant, IntroNext, UNCHANGED billingVars
  PROVE  QuotaInvariant'
<1>0. /\ calls \in [Calls -> Call] /\ periods \in Nat /\ UNCHANGED <<subscriptions, periods>>
      /\ PeriodsHaveOnePlan /\ IsFiniteSet(ledger)
  BY DEF IntroTypeOK, BillingInvariant, BillingTypeOK, QuotaInvariant, billingVars
<1>1. ASSUME NEW c \in Calls, Moved(c)
      PROVE  QuotaInvariant'
  <2>1. PICK row \in Call :
           /\ calls' = [calls EXCEPT ![c] = row]
           /\ row.pc \in {"plan", "count", "charge"} => row.requester = calls[c].requester
           /\ row.pc = "count" =>
                \E i \in DOMAIN subscriptions[row.requester] :
                     /\ row.period = subscriptions[row.requester][i].period
                     /\ row.plan = subscriptions[row.requester][i].plan
           /\ row.pc = "charge" =>
                /\ calls[c].pc = "count" /\ WithinQuota(c)
                /\ row.period = calls[c].period /\ row.plan = calls[c].plan
    BY <1>1, MovedCalls
  <2>2. UNCHANGED ledger
    BY <1>1 DEF Moved
  <2>3. \A d \in Calls : calls'[d] = IF d = c THEN row ELSE calls[d]
    BY <1>0, <2>1
  <2>4. PeriodsHaveOnePlan'
    <3>1. \A d \in Calls : calls'[d].pc \in {"count", "charge"} =>
            \/ /\ Reading(d) /\ calls'[d].requester = calls[d].requester
               /\ calls'[d].period = calls[d].period /\ calls'[d].plan = calls[d].plan
            \/ \E i \in DOMAIN subscriptions[calls'[d].requester] :
                 /\ calls'[d].period = subscriptions[calls'[d].requester][i].period
                 /\ calls'[d].plan = subscriptions[calls'[d].requester][i].plan
      BY <2>1, <2>3 DEF Reading
    <3> QED
      BY <1>0, <2>2, <3>1, IntroPlans
  <2>5. CASE row.pc = "charge"
    BY <1>0, <2>1, <2>2, <2>4, <2>5, SpendingCounts DEF QuotaInvariant
  <2>6. CASE row.pc # "charge"
    BY <1>0, <2>2, <2>3, <2>4, <2>6, SpendingKept DEF QuotaInvariant
  <2> QED
    BY <2>5, <2>6
<1>2. ASSUME NEW c \in Calls, Charge(c)
      PROVE  QuotaInvariant'
  <2>1. IsFiniteSet(ledger') /\ SpendingIsBounded'
    BY <1>2, SpendingCharges
  <2> DEFINE usage == [profile |-> calls[c].requester, period |-> calls[c].period,
                       plan |-> calls[c].plan, request |-> calls[c].request]
  <2>2. /\ calls[c].pc = "charge" /\ ledger' = ledger \cup {usage}
        /\ calls' = [calls EXCEPT ![c] = IdleCall]
    BY <1>2, ChargeCharges
  <2>3. /\ usage.profile = calls[c].requester /\ usage.period = calls[c].period
        /\ usage.plan = calls[c].plan
    OBVIOUS
  <2> HIDE DEF usage
  <2>4. \A d \in Calls : calls'[d] = IF d = c THEN IdleCall ELSE calls[d]
    BY <1>0, <2>2
  <2>5. PeriodsHaveOnePlan'
    <3>1. \A u \in ledger' : u \in ledger \/ \E d \in Calls :
            /\ Reading(d) /\ u.profile = calls[d].requester
            /\ u.period = calls[d].period /\ u.plan = calls[d].plan
      BY <2>2, <2>3 DEF Reading
    <3>2. \A d \in Calls : calls'[d].pc \in {"count", "charge"} =>
            /\ Reading(d) /\ calls'[d].requester = calls[d].requester
            /\ calls'[d].period = calls[d].period /\ calls'[d].plan = calls[d].plan
      BY <2>4, IdleIsCall DEF Reading
    <3> QED
      BY <1>0, <3>1, <3>2, IntroPlans
  <2> QED
    BY <2>1, <2>5 DEF QuotaInvariant
<1>3. ASSUME NEW c \in Calls, RequestStored(c)
      PROVE  QuotaInvariant'
  <2>1. calls' = [calls EXCEPT ![c].pc = "plan", ![c].request = Len(requests) + 1] /\ UNCHANGED ledger
    BY <1>3 DEF RequestStored
  <2>2. calls[c] \in Call
    BY <1>0
  <2>3. calls'[c].pc = "plan" /\ \A d \in Calls : d # c => calls'[d] = calls[d]
    BY <1>0, <2>1, <2>2 DEF Call
  <2>4. \A d \in Calls : calls'[d].pc \in {"count", "charge"} => Reading(d) /\ calls'[d] = calls[d]
    BY <2>3 DEF Reading
  <2>5. PeriodsHaveOnePlan'
    BY <1>0, <2>1, <2>4, IntroPlans
  <2>6. SpendingIsBounded'
    BY <2>1, <2>4, SpendingKept
  <2> QED
    BY <1>0, <2>1, <2>5, <2>6 DEF QuotaInvariant
<1>4. CASE UNCHANGED <<ledger, calls>>
  <2>1. PeriodsHaveOnePlan'
    BY <1>0, <1>4, IntroPlans DEF Reading
  <2>2. SpendingIsBounded'
    BY <1>4, SpendingKept
  <2> QED
    BY <1>0, <1>4, <2>1, <2>2 DEF QuotaInvariant
<1> QED
  <2>1. CASE \E i \in DOMAIN requests, status \in {"accepted", "rejected", "cancelled"} : Answered(i, status)
    BY <1>4, <2>1 DEF Answered
  <2>2. CASE \E i \in DOMAIN requests : CooldownEnds(i)
    BY <1>4, <2>2 DEF CooldownEnds
  <2> QED
    BY <1>1, <1>2, <1>3, <1>4, <2>1, <2>2, IntroCases

-----------------------------------------------------------------------------
\* Payments

\* What the steps do to the sessions: the paid ones stay, and only a success pays.
LEMMA SessionsStep ==
  ASSUME BillingInvariant, BillingNext, NEW o \in Orders
  PROVE  /\ sessions[o].status = "paid" => sessions'[o].status = "paid"
         /\ PaidNow(o) => SuccessCallback(o)
<1>0. /\ sessions \in [Orders -> Session]
      /\ sessions[o].status = "paid" => ~Unsettled(o)
  BY DEF BillingInvariant, BillingTypeOK, PaidIsProcessed, Unsettled
<1>1. CASE UNCHANGED sessions
  BY <1>1 DEF PaidNow
<1>2. ASSUME NEW d \in Orders, NEW p \in Profiles, NEW plan \in PaidPlans, Checkout(d, p, plan)
      PROVE  /\ sessions[o].status = "paid" => sessions'[o].status = "paid"
             /\ ~PaidNow(o)
  BY <1>0, <1>2 DEF Checkout, PaidNow
<1>3. ASSUME NEW d \in Orders, FailedCallback(d)
      PROVE  /\ sessions[o].status = "paid" => sessions'[o].status = "paid"
             /\ ~PaidNow(o)
  <2>1. sessions' = [sessions EXCEPT ![d].status = "failed"] /\ Unsettled(d)
    BY <1>3 DEF FailedCallback
  <2>2. sessions'[o].status = IF o = d THEN "failed" ELSE sessions[o].status
    BY <1>0, <2>1 DEF Session
  <2> QED
    BY <1>0, <2>1, <2>2 DEF PaidNow
<1>4. ASSUME NEW d \in Orders, SuccessCallback(d)
      PROVE  /\ sessions[o].status = "paid" => sessions'[o].status = "paid"
             /\ PaidNow(o) => SuccessCallback(o)
  <2>1. sessions' = [sessions EXCEPT ![d].status = "paid"]
    BY <1>4 DEF SuccessCallback
  <2>2. sessions'[o].status = IF o = d THEN "paid" ELSE sessions[o].status
    BY <1>0, <2>1 DEF Session
  <2> QED
    BY <1>4, <2>2 DEF PaidNow
<1>5. CASE TimePasses
  BY <1>1, <1>5 DEF TimePasses
<1>6. CASE \E p \in Profiles : BeginTrial(p) \/ FinishTrial(p) \/ CompleteDetails(p)
  BY <1>1, <1>6 DEF BeginTrial, FinishTrial, CompleteDetails
<1>7. CASE \E p \in Profiles : \E i \in DOMAIN subscriptions[p], status \in Repairs : ReconcileStatus(p, i, status)
  BY <1>1, <1>7 DEF ReconcileStatus
<1>8. CASE \E d \in Orders : StoreCallback(d) \/ InvalidCallback(d)
  BY <1>1, <1>8 DEF StoreCallback, InvalidCallback
<1>9. CASE \E e \in EventIds : MarkEventProcessed(e)
  BY <1>1, <1>9 DEF MarkEventProcessed
<1> QED
  BY <1>2, <1>3, <1>4, <1>5, <1>6, <1>7, <1>8, <1>9 DEF BillingNext

\* What a success makes of the subscriptions of the profile that pays.
LEMMA SuccessFacts ==
  ASSUME BillingInvariant, NEW o \in Orders, SuccessCallback(o)
  PROVE  LET p == sessions[o].profile IN
         /\ p \in Profiles /\ sessions[o].plan \in PaidPlans
         /\ sessions[o].status # "none" /\ sessions[o].status # "paid"
         /\ sessions'[o].status = "paid" /\ sessions'[o].profile = p
         /\ \A q \in Profiles : q # p => subscriptions'[q] = subscriptions[q]
         /\ subscriptions'[p] \in Seq(Subscription) /\ subscriptions'[p] # <<>>
         /\ subscriptions'[p][1] = BegunNow("active", sessions[o].plan)
         /\ \A i \in DOMAIN subscriptions'[p] : i # 1 =>
              i \in DOMAIN subscriptions[p] /\ subscriptions'[p][i] = subscriptions[p][i]
<1>0. /\ sessions \in [Orders -> Session] /\ subscriptions \in [Profiles -> Seq(Subscription)]
      /\ BillingTypeOK /\ PaidIsProcessed
  BY DEF BillingInvariant, BillingTypeOK
<1>1. /\ Unsettled(o) /\ sessions[o].status # "none"
      /\ sessions' = [sessions EXCEPT ![o].status = "paid"]
      /\ subscriptions' = [subscriptions EXCEPT ![sessions[o].profile] = Renewed(o)]
  BY DEF SuccessCallback
<1>2. /\ sessions[o].status # "paid" /\ sessions'[o].status = "paid"
      /\ sessions'[o].profile = sessions[o].profile
  BY <1>0, <1>1 DEF PaidIsProcessed, Unsettled, Session
<1> QED
  BY <1>0, <1>1, <1>2, RenewedFacts

\* A paid period that is new is begun by a payment of the profile.
LEMMA PaidPeriodsStep ==
  ASSUME BillingInvariant, BillingNext, NEW p \in Profiles, NEW i \in DOMAIN subscriptions'[p],
         subscriptions'[p][i].plan \in PaidPlans, subscriptions'[p][i].period > periods
  PROVE  \E o \in Orders : sessions[o].profile = p /\ PaidNow(o)
<1>0. /\ periods \in Nat /\ subscriptions \in [Profiles -> Seq(Subscription)] /\ BillingTypeOK
      /\ \A j \in DOMAIN subscriptions[p] : /\ subscriptions[p][j].period <= periods
                                           /\ subscriptions[p][j].period \in Nat
  BY SubscriptionFacts DEF BillingInvariant, BillingTypeOK, PeriodsAreBegun
<1>1. ~(i \in DOMAIN subscriptions[p] /\ subscriptions'[p][i].period = subscriptions[p][i].period)
  BY <1>0
<1>2. subscriptions' # subscriptions
  BY <1>1
<1>3. ASSUME NEW q \in Profiles, FinishTrial(q)
      PROVE  FALSE
  <2> DEFINE begun == BegunNow("trialing", "trial")
  <2>1. subscriptions' = [subscriptions EXCEPT ![q] = Append(subscriptions[q], begun)]
    BY <1>3 DEF FinishTrial
  <2>2. begun \in Subscription /\ begun.plan = "trial"
    BY <1>0, BegunIsSubscription DEF Plans
  <2> HIDE DEF begun
  <2>3. subscriptions'[p] = IF p = q THEN Append(subscriptions[p], begun) ELSE subscriptions[p]
    BY <1>0, <2>1
  <2>4. subscriptions[p] \in Seq(Subscription)
    BY <1>0
  <2>5. (i \in DOMAIN subscriptions[p] /\ subscriptions'[p][i] = subscriptions[p][i])
        \/ subscriptions'[p][i] = begun
    BY <2>2, <2>3, <2>4
  <2> QED
    BY <1>1, <2>2, <2>5 DEF PaidPlans
<1>4. ASSUME NEW q \in Profiles, NEW j \in DOMAIN subscriptions[q], NEW status \in Repairs,
             ReconcileStatus(q, j, status)
      PROVE  FALSE
  <2> DEFINE r == [subscriptions[q][j] EXCEPT !.status = status]
  <2>1. subscriptions' = [subscriptions EXCEPT ![q] = [subscriptions[q] EXCEPT ![j] = r]]
    BY <1>0, <1>4 DEF ReconcileStatus
  <2>2. subscriptions[q] \in Seq(Subscription) /\ subscriptions[q][j] \in Subscription
    BY <1>0
  <2>3. r.period = subscriptions[q][j].period
    BY <2>2 DEF Subscription
  <2> HIDE DEF r
  <2>4. subscriptions'[p] = IF p = q THEN [subscriptions[q] EXCEPT ![j] = r] ELSE subscriptions[p]
    BY <1>0, <2>1
  <2>5. i \in DOMAIN subscriptions[p] /\ subscriptions'[p][i].period = subscriptions[p][i].period
    BY <2>2, <2>3, <2>4
  <2> QED
    BY <1>1, <2>5
<1>5. ASSUME NEW o \in Orders, SuccessCallback(o)
      PROVE  \E d \in Orders : sessions[d].profile = p /\ PaidNow(d)
  <2>1. PaidNow(o)
    BY <1>5, SuccessFacts DEF PaidNow
  <2>2. sessions[o].profile = p
    <3>1. CASE sessions[o].profile # p
      <4>1. subscriptions'[p] = subscriptions[p]
        BY <1>5, <3>1, SuccessFacts
      <4> QED
        BY <1>1, <4>1
    <3> QED
      BY <3>1
  <2> QED
    BY <2>1, <2>2
<1>6. CASE UNCHANGED subscriptions
  BY <1>2, <1>6
<1>7. CASE TimePasses
  BY <1>6, <1>7 DEF TimePasses
<1>8. CASE \E q \in Profiles : BeginTrial(q) \/ CompleteDetails(q)
  BY <1>6, <1>8 DEF BeginTrial, CompleteDetails
<1>9. CASE \E q \in Profiles, o \in Orders, plan \in PaidPlans : Checkout(o, q, plan)
  BY <1>6, <1>9 DEF Checkout
<1>10. CASE \E o \in Orders : StoreCallback(o) \/ FailedCallback(o) \/ InvalidCallback(o)
  BY <1>6, <1>10 DEF StoreCallback, FailedCallback, InvalidCallback
<1>11. CASE \E e \in EventIds : MarkEventProcessed(e)
  BY <1>6, <1>11 DEF MarkEventProcessed
<1> QED
  BY <1>3, <1>4, <1>5, <1>7, <1>8, <1>9, <1>10, <1>11 DEF BillingNext

LEMMA FirstEndsLast ==
  ASSUME NEW s \in Seq(Subscription), 1 \in DOMAIN s, EndsLast(s, 1)
  PROVE  LastEnding(s) = s[1]
<1>1. \A r \in Subscription : r.ends \in Nat
  BY DEF Subscription
<1>2. \A i \in DOMAIN s : i \in Nat /\ s[i].ends \in Nat
  BY <1>1
<1>3. \A i \in DOMAIN s : EndsLast(s, i) => i = 1
  BY <1>2 DEF EndsLast
<1>4. (CHOOSE i \in DOMAIN s : EndsLast(s, i)) = 1
  BY <1>3
<1> QED
  BY <1>4 DEF LastEnding

\* What is renewed ends last, unless a trial that began earlier overtakes it.
LEMMA RenewedIsCurrent ==
  ASSUME BillingInvariant, NEW o \in Orders, SuccessCallback(o),
         ~Overtakes(sessions[o].profile, sessions[o].plan)
  PROVE  LET p == sessions[o].profile IN
         /\ subscriptions'[p] # <<>> /\ 1 \in DOMAIN subscriptions'[p]
         /\ now' = now
         /\ \A j \in DOMAIN subscriptions'[p] :
              \/ subscriptions'[p][j].ends < subscriptions'[p][1].ends
              \/ subscriptions'[p][j].ends = subscriptions'[p][1].ends /\ 1 <= j
         /\ subscriptions'[p][1].plan = sessions[o].plan
         /\ subscriptions'[p][1].status = "active"
         /\ subscriptions'[p][1].ends > now
<1> DEFINE p == sessions[o].profile
           s == subscriptions'[p]
           plan == sessions[o].plan
           end == PeriodEnd(plan)
<1>1. /\ p \in Profiles /\ plan \in PaidPlans /\ s \in Seq(Subscription) /\ s # <<>>
      /\ s[1] = BegunNow("active", plan)
      /\ \A i \in DOMAIN s : i # 1 => i \in DOMAIN subscriptions[p] /\ s[i] = subscriptions[p][i]
  BY SuccessFacts
<1>2. now \in Nat /\ now' = now /\ BillingTypeOK /\ plan \in Plans
  BY <1>1 DEF BillingInvariant, BillingTypeOK, SuccessCallback, PaidPlans
<1>3. s[1].ends = end /\ s[1].plan = plan /\ s[1].status = "active"
  BY <1>1, <1>2, BegunIsSubscription
<1>4. /\ end \in Nat /\ end > now
      /\ plan = "annual" => \A t \in 0..now : MonthEnd[t] < end
      /\ plan # "annual" => end = MonthEnd[now]
  BY <1>2, PeriodEnds
<1>5. ASSUME NEW j \in DOMAIN subscriptions[p], j # 1
      PROVE  subscriptions[p][j].ends \in Nat /\ subscriptions[p][j].ends <= end
  <2>1. subscriptions[p][j].ends \in Nat
    BY <1>1, <1>2, SubscriptionFacts
  <2>2. /\ subscriptions[p][j].plan = "trial"
        /\ \E t \in 0..now : subscriptions[p][j].ends = MonthEnd[t]
    BY <1>1, <1>5 DEF BillingInvariant, LaterAreTrials, EndsBegun
  <2>3. CASE plan = "annual"
    BY <1>4, <2>1, <2>2, <2>3
  <2>4. CASE plan # "annual"
    <3>1. plan = "monthly"
      BY <1>1, <2>4 DEF PaidPlans, Plans
    <3>2. ~(subscriptions[p][j].ends > MonthEnd[now])
      BY <1>5, <2>2, <3>1 DEF Overtakes
    <3> QED
      BY <1>4, <2>1, <2>4, <3>2
  <2> QED
    BY <2>1, <2>3, <2>4
<1> HIDE DEF s, p, plan, end
<1>6. 1 \in DOMAIN s /\ \A j \in DOMAIN s : j \in Nat /\ 1 <= j
  BY <1>1
<1>7. \A j \in DOMAIN s : s[j].ends < s[1].ends \/ (s[j].ends = s[1].ends /\ 1 <= j)
  <2> TAKE j \in DOMAIN s
  <2>1. CASE j = 1
    BY <1>3, <1>4, <2>1
  <2>2. CASE j # 1
    <3>1. s[j].ends \in Nat /\ s[j].ends <= end
      BY <1>1, <1>5, <2>2
    <3> QED
      BY <1>3, <1>4, <1>6, <3>1
  <2> QED
    BY <2>1, <2>2
<1>8. s[1].ends > now
  BY <1>3, <1>4
<1> QED
  BY <1>1, <1>2, <1>3, <1>6, <1>7, <1>8 DEF s, p, plan

-----------------------------------------------------------------------------
\* The invariant of both

MemoryInvariant ==
    BillingInvariant /\ IntroTypeOK /\ PairIsOpenOnce /\ TellingInvariant /\ QuotaInvariant

LEMMA InitiallyMemory == Init => MemoryInvariant
<1> SUFFICES ASSUME Init PROVE MemoryInvariant
  OBVIOUS
<1>1. BillingInvariant
  BY BillingInitially DEF Init
<1>2. /\ requests = <<>> /\ ledger = {} /\ calls = [c \in Calls |-> IdleCall] /\ clear \subseteq Manuscripts
      /\ evidence = {} /\ notices = {} /\ mails = {} /\ subscriptions = [p \in Profiles |-> <<>>]
      /\ DOMAIN requests = {}
  BY DEF Init, IntroInit, BillingInit
<1>3. /\ calls \in [Calls -> Call] /\ \A c \in Calls : calls[c].pc = "idle"
  BY <1>2, IdleIsCall
<1>4. IntroTypeOK
  <2>1. requests \in Seq(Request)
    BY <1>2
  <2> QED
    BY <1>2, <1>3, <2>1 DEF IntroTypeOK
<1>5. PairIsOpenOnce
  BY <1>2 DEF PairIsOpenOnce
<1>6. TellingInvariant
  BY <1>2, <1>3 DEF TellingInvariant, CallsAreStored, StoredIsNotified, NoticesAreOfRequests,
                    ChargedIsStored, MailFollowsNotice
<1>7. PeriodsHaveOnePlan
  <2>1. \A p \in Profiles : \A n, q : ~Bears(p, n, q)
    BY <1>2, <1>3 DEF Bears, Reading
  <2> QED
    BY <2>1 DEF PeriodsHaveOnePlan
<1>8. SpendingIsBounded
  BY <1>2, <1>3 DEF SpendingIsBounded, Spends, UsageOf, Charging
<1>9. IsFiniteSet(ledger)
  BY <1>2, FS_EmptySet
<1> QED
  BY <1>1, <1>4, <1>5, <1>6, <1>7, <1>8, <1>9 DEF MemoryInvariant, QuotaInvariant

LEMMA NextMemory == MemoryInvariant /\ [Next]_vars => MemoryInvariant'
<1> SUFFICES ASSUME MemoryInvariant, [Next]_vars PROVE MemoryInvariant'
  OBVIOUS
<1>0. BillingInvariant /\ IntroTypeOK /\ PairIsOpenOnce /\ TellingInvariant /\ QuotaInvariant
  BY DEF MemoryInvariant
<1>1. UNCHANGED introVars => IntroTypeOK' /\ PairIsOpenOnce' /\ TellingInvariant'
  <2> SUFFICES ASSUME UNCHANGED introVars PROVE IntroTypeOK' /\ PairIsOpenOnce' /\ TellingInvariant'
    OBVIOUS
  <2>1. UNCHANGED <<requests, ledger, calls, clear, evidence, notices, mails>>
    BY DEF introVars
  <2>2. IntroTypeOK' /\ PairIsOpenOnce'
    BY <1>0, <2>1 DEF IntroTypeOK, PairIsOpenOnce
  <2>3. CallsAreStored'
    BY <1>0, <2>1 DEF TellingInvariant, CallsAreStored
  <2> QED
    BY <1>0, <2>1, <2>2, <2>3, TellingFrame
<1>2. UNCHANGED billingVars => BillingInvariant'
  <2> SUFFICES ASSUME UNCHANGED billingVars PROVE BillingInvariant'
    OBVIOUS
  <2>1. UNCHANGED <<now, eligible, subscriptions, trialStarts, starting, periods, sessions, events>>
    BY DEF billingVars
  <2>2. BillingTypeOK' /\ PaidIsProcessed' /\ PeriodsAreBegun'
    BY <1>0, <2>1 DEF BillingInvariant, BillingTypeOK, PaidIsProcessed, PeriodsAreBegun
  <2>3. LaterAreTrials'
    BY <1>0, <2>1 DEF BillingInvariant, LaterAreTrials, EndsBegun
  <2> QED
    BY <2>2, <2>3 DEF BillingInvariant
<1>3. CASE BillingNext /\ UNCHANGED introVars
  BY <1>0, <1>1, <1>3, BillingSteps, BillingQuota DEF MemoryInvariant
<1>4. CASE IntroNext /\ UNCHANGED billingVars
  BY <1>0, <1>2, <1>4, IntroTypeSteps, OpenOnceSteps, TellingSteps, IntroQuota DEF MemoryInvariant
<1>5. CASE UNCHANGED vars
  <2>1. UNCHANGED introVars /\ UNCHANGED billingVars
    BY <1>5 DEF vars
  <2>2. UNCHANGED <<subscriptions, periods, ledger, calls>>
    BY <2>1 DEF introVars, billingVars
  <2>3. QuotaInvariant'
    <3>1. PeriodsHaveOnePlan'
      BY <1>0, <2>2, IntroPlans DEF Reading, QuotaInvariant, BillingInvariant, BillingTypeOK
    <3>2. SpendingIsBounded'
      BY <1>0, <2>2, SpendingKept
    <3> QED
      BY <1>0, <2>2, <3>1, <3>2 DEF QuotaInvariant
  <2> QED
    BY <1>1, <1>2, <2>1, <2>3 DEF MemoryInvariant
<1> QED
  BY <1>3, <1>4, <1>5 DEF Next

LEMMA Invariant == Spec => []MemoryInvariant
<1> QED
  BY InitiallyMemory, NextMemory, PTL DEF Spec

-----------------------------------------------------------------------------
\* Theorems

\* The arrays and the maps of the process keep their shapes, whatever handlers overlap:
\* a session that exists has a profile and a paid plan, a request a requester who is one
\* of its two participants, and the plan a call copies is a plan.
THEOREM TypeCorrect == Spec => []TypeOK
<1>1. MemoryInvariant => TypeOK
  BY DEF MemoryInvariant, BillingInvariant, TypeOK
<1> QED
  BY <1>1, Invariant, PTL

\* A denial never sends a user where the billing denies again (entitlements.ts).
THEOREM RecoveryCorrect == Spec => []RecoveryHelps
<1>1. RecoveryHelps
  <2> SUFFICES ASSUME NEW p \in Profiles, ~Active(p)
               PROVE  CASE RecoveryAction(p) = "start_trial"      -> MayStartTrial(p)
                        [] RecoveryAction(p) = "subscribe"        -> MayCheckout(p)
                        [] RecoveryAction(p) = "complete_profile" -> ~Ready(p)
    BY DEF RecoveryHelps
  <2>1. CASE ~Ready(p)
    BY <2>1 DEF RecoveryAction, EntitlementStatus
  <2>2. CASE Ready(p) /\ Subscribed(p) /\ Current(p).plan \in PaidPlans
    BY <2>2 DEF RecoveryAction, EntitlementStatus, MayCheckout
  <2>3. CASE Ready(p) /\ ~(Subscribed(p) /\ Current(p).plan \in PaidPlans)
    BY <2>3 DEF RecoveryAction, EntitlementStatus, MayCheckout, MayStartTrial
  <2> QED
    BY <2>1, <2>2, <2>3
<1> QED
  BY <1>1, PTL

\* No two open requests of a pair, however many creates are under way (getTestIntroState
\* and createTestIntroRequest have no await between them).
THEOREM OpenOnceCorrect == Spec => []PairIsOpenOnce
<1>1. MemoryInvariant => PairIsOpenOnce
  BY DEF MemoryInvariant
<1> QED
  BY <1>1, Invariant, PTL

\* The quota of a period is exceeded by less than the number of creates that overlap,
\* whatever the quota and whatever begins, ends or renews the subscription meanwhile
\* (consumeIntroRequestUsage).
THEOREM OverrunCorrect == Spec => []OverrunIsBounded
<1>1. MemoryInvariant => OverrunIsBounded
  <2> SUFFICES ASSUME MemoryInvariant, NEW u \in ledger
               PROVE  Cardinality(UsageOf(u.profile, u.period)) < Quota(u.plan) + Cardinality(Calls)
    BY DEF OverrunIsBounded
  <2> DEFINE U == UsageOf(u.profile, u.period)
             F == Charging(u.profile, u.period)
  <2>1. u.profile \in Profiles /\ u.period \in Nat /\ u.plan \in Plans
    BY DEF MemoryInvariant, IntroTypeOK, Usage
  <2>2. Spends(u.profile, u.period, u.plan)
    BY DEF Spends, UsageOf
  <2>3. Cardinality(U) + Cardinality(F) < Quota(u.plan) + Cardinality(Calls)
    BY <2>1, <2>2 DEF MemoryInvariant, QuotaInvariant, SpendingIsBounded
  <2>4. Cardinality(U) \in Nat /\ Cardinality(F) \in Nat /\ Cardinality(Calls) \in Nat
    BY Sizes DEF MemoryInvariant, QuotaInvariant
  <2>5. Quota(u.plan) \in Nat
    BY QuotaIsNat
  <2> HIDE DEF U, F
  <2>6. Cardinality(U) < Quota(u.plan) + Cardinality(Calls)
    BY <2>3, <2>4, <2>5
  <2> QED
    BY <2>6 DEF U
<1> QED
  BY <1>1, Invariant, PTL

\* Mail and notification never disagree (recordTestLifecycle and enqueueIntroEmailSafely).
THEOREM MailCorrect == Spec => []MailFollowsNotice
<1>1. MemoryInvariant => MailFollowsNotice
  BY DEF MemoryInvariant, TellingInvariant
<1> QED
  BY <1>1, Invariant, PTL

\* A payment is final and counts once, whatever callbacks are repeated or reordered and
\* whatever admins repair: from the events that stay processed while a session is paid,
\* and from the periods, which are never begun twice (processPaytrWebhook).
THEOREM PaymentsCorrect == Spec => PaymentCountsOnce
<1> DEFINE A == /\ \A o \in Orders : sessions[o].status = "paid" => sessions'[o].status = "paid"
                /\ \A p \in Profiles : \A i \in DOMAIN subscriptions'[p] :
                     /\ subscriptions'[p][i].plan \in PaidPlans
                     /\ subscriptions'[p][i].period > periods
                     => \E o \in Orders : sessions[o].profile = p /\ PaidNow(o)
<1>1. ASSUME MemoryInvariant, [Next]_vars
      PROVE  [A]_billingVars
  <2>1. CASE BillingNext
    BY <1>1, <2>1, SessionsStep, PaidPeriodsStep DEF MemoryInvariant
  <2>2. CASE UNCHANGED billingVars
    BY <2>2
  <2> QED
    BY <1>1, <2>1, <2>2 DEF Next, vars
<1> QED
  BY <1>1, Invariant, PTL DEF Spec, PaymentCountsOnce

\* Money buys the plan, whatever trials, repairs and payments came before: what is
\* renewed is the first subscription, what is read is the one that ends last, and the two
\* agree after a payment because all others are trials, which end no later but for a month
\* that runs over (processPaytrWebhook renews the first of several paid ones in place;
\* buildBillingReadModels). It holds for any calendar in which a year outlasts the months
\* that began before it.
THEOREM MoneyCorrect == Spec => PaymentTakesEffect
<1> DEFINE A == \A o \in Orders : PaidNow(o) =>
                  LET p == sessions[o].profile IN
                  \/ Active(p)' /\ Current(p)'.plan = sessions[o].plan
                  \/ Overtakes(p, sessions[o].plan)
<1>1. ASSUME MemoryInvariant, [Next]_vars
      PROVE  [A]_billingVars
  <2>1. CASE BillingNext
    <3> SUFFICES ASSUME NEW o \in Orders, PaidNow(o),
                        ~Overtakes(sessions[o].profile, sessions[o].plan)
                 PROVE  LET p == sessions[o].profile IN Active(p)' /\ Current(p)'.plan = sessions[o].plan
      OBVIOUS
    <3>1. SuccessCallback(o)
      BY <1>1, <2>1, SessionsStep DEF MemoryInvariant
    <3>2. PICK p \in Profiles : p = sessions[o].profile /\ p = sessions'[o].profile
      BY <1>1, <3>1, SuccessFacts DEF MemoryInvariant
    <3> DEFINE s == subscriptions'[p]
    <3>3. /\ 1 \in DOMAIN s /\ s # <<>> /\ now' = now /\ EndsLast(s, 1)
          /\ s[1].plan = sessions[o].plan /\ s[1].status = "active" /\ s[1].ends > now
      BY ZenonT(40), <1>1, <3>1, <3>2, RenewedIsCurrent DEF MemoryInvariant, EndsLast
    <3>4. s \in Seq(Subscription)
      BY <1>1, <3>1, <3>2, SuccessFacts DEF MemoryInvariant
    <3>5. LastEnding(s) = s[1]
      BY <3>3, <3>4, FirstEndsLast
    <3>6. Active(p)' /\ Current(p)'.plan = sessions[o].plan
      BY <3>3, <3>5 DEF Active, Subscribed, Live, Current
    <3> QED
      BY <3>2, <3>6 DEF Active, Subscribed, Live, Current
  <2>2. CASE UNCHANGED billingVars
    BY <2>2
  <2> QED
    BY <1>1, <2>1, <2>2 DEF Next, vars
<1> QED
  BY <1>1, Invariant, PTL DEF Spec, PaymentTakesEffect


USE MemoryDocumentsAssumption

-----------------------------------------------------------------------------
\* The steps of the documents are those that MemoryIntros leaves to them

LEMMA ClearIsOfManuscripts == \A docs, sampleOf : Clear(docs, sampleOf) \subseteq Manuscripts
  BY DEF Clear

LEMMA StepsAreSteps == [ApiNext]_apiVars => [Next]_vars
<1>1. CASE BillingNext /\ UNCHANGED <<introVars, documentVars>>
  BY <1>1 DEF Next
<1>2. CASE RequestNext /\ UNCHANGED <<billingVars, documentVars>>
  BY <1>2 DEF Next, IntroNext
<1>3. CASE /\ DocumentStep /\ clear' = Clear(documents', samples')
           /\ UNCHANGED <<billingVars, requests, ledger, calls, evidence, notices, mails>>
  <2>1. clear' \in SUBSET Manuscripts
    BY <1>3, ClearIsOfManuscripts
  <2> QED
    BY <1>3, <2>1 DEF Next, IntroNext, SamplesChange
<1>4. CASE UNCHANGED apiVars
  BY <1>4 DEF apiVars
<1> QED
  BY <1>1, <1>2, <1>3, <1>4 DEF ApiNext

\* The API with its documents is the API in which samples change at will: whatever holds of
\* billing and intro requests there holds here.
THEOREM ApiImplements == ApiSpec => Spec
<1>1. ApiInit => Init
  BY DEF ApiInit
<1> QED
  BY <1>1, StepsAreSteps, PTL DEF ApiSpec, Spec

-----------------------------------------------------------------------------
\* What a step does to the documents

\* A document has at most one job, whose place moves as others are put in front of it.
OneJobEach == \A i, j \in DOMAIN jobs : jobs[i].document = jobs[j].document => i = j

\* The job of d is there and nobody will start it any more.
JobBegun(d) == JobsOf(d) # {} /\ \A i \in JobsOf(d) : jobs[i].status # "queued"

RunningHasBegun == \A d \in Documents : places[d] # NoPlace => JobBegun(d)

UploadsHaveNoJob ==
    \A d \in Documents : documents[d].storage \in {"none", "pending_upload"} => JobsOf(d) = {}

\* The one processing of d is over.
HasRun(d) == JobBegun(d) /\ places[d] = NoPlace

\* Reviews and audits are of documents whose processing is over: no upload and no
\* processing touches a document that was decided about, whatever job it writes.
DecidedHasRun ==
    /\ \A i \in DOMAIN reviews : HasRun(reviews[i].document)
    /\ \A i \in DOMAIN audits : HasRun(audits[i].document)

JobsInvariant == OneJobEach /\ RunningHasBegun /\ UploadsHaveNoJob /\ DecidedHasRun

DocumentsInvariant == DocumentsTypeOK /\ SampleIsTheUpload /\ JobsInvariant /\ DecisionStands

\* The invariant needs nothing but the documents, their samples, jobs, reviews and audits.
LEMMA DocumentsFrame ==
  ASSUME DocumentsInvariant, UNCHANGED documentVars
  PROVE  DocumentsInvariant'
<1>1. UNCHANGED <<documents, samples, files, puts, uploads, jobs, places, reviews, audits>>
  BY DEF documentVars
<1>2. JobsInvariant'
  BY <1>1 DEF DocumentsInvariant, JobsInvariant, OneJobEach, RunningHasBegun, UploadsHaveNoJob,
              DecidedHasRun, HasRun, JobBegun, JobsOf
<1>3. DocumentsTypeOK' /\ SampleIsTheUpload' /\ DecisionStands'
  BY <1>1 DEF DocumentsInvariant, DocumentsTypeOK, SampleIsTheUpload, DecisionStands, AuditsOf
<1> QED
  BY <1>2, <1>3 DEF DocumentsInvariant

\* A step that changes neither which documents are uploaded nor the samples.
LEMMA SamplesKept ==
  ASSUME SampleIsTheUpload, samples' = samples,
         \A d \in Documents : documents'[d].storage = "uploaded" <=> documents[d].storage = "uploaded"
  PROVE  SampleIsTheUpload'
  BY DEF SampleIsTheUpload

\* A step that decides nothing and leaves the documents that were decided about alone.
LEMMA DecisionsKept ==
  ASSUME DecisionStands, DecidedHasRun, audits \in Seq(Audit), audits' = audits,
         \A d \in Documents : HasRun(d) =>
            /\ documents'[d].adminReview = documents[d].adminReview
            /\ documents'[d].eligibility = documents[d].eligibility
  PROVE  DecisionStands'
<1> SUFFICES ASSUME NEW d \in Documents, NEW i \in AuditsOf(d)', (\A j \in AuditsOf(d)' : j <= i)
             PROVE  /\ documents'[d].adminReview = Outcome(audits'[i].decision)
                    /\ documents'[d].eligibility =
                         IF audits'[i].decision = "approved" THEN "eligible" ELSE "blocked"
  BY DEF DecisionStands
<1>1. i \in AuditsOf(d) /\ \A j \in AuditsOf(d) : j <= i
  BY DEF AuditsOf
<1>2. HasRun(d)
  BY <1>1 DEF AuditsOf, DecidedHasRun
<1>3. /\ documents[d].adminReview = Outcome(audits[i].decision)
      /\ documents[d].eligibility = IF audits[i].decision = "approved" THEN "eligible" ELSE "blocked"
  BY <1>1 DEF DecisionStands
<1> QED
  BY <1>2, <1>3

\* One document gets a new row; its processing is not over.
LEMMA OneDocument ==
  ASSUME DocumentsInvariant, NEW d \in Documents, NEW row \in Document, ~HasRun(d),
         documents' = [documents EXCEPT ![d] = row],
         row.storage = "uploaded" <=> documents[d].storage = "uploaded",
         UNCHANGED <<samples, audits>>
  PROVE  /\ documents' \in [Documents -> Document]
         /\ \A e \in Documents : documents'[e] = IF e = d THEN row ELSE documents[e]
         /\ SampleIsTheUpload' /\ DecisionStands'
<1>1. /\ documents \in [Documents -> Document] /\ audits \in Seq(Audit)
      /\ SampleIsTheUpload /\ DecidedHasRun /\ DecisionStands
  BY DEF DocumentsInvariant, DocumentsTypeOK, JobsInvariant
<1>2. \A e \in Documents : documents'[e] = IF e = d THEN row ELSE documents[e]
  BY <1>1
<1>3. documents' \in [Documents -> Document]
  BY <1>1
<1>4. SampleIsTheUpload'
  BY <1>1, <1>2, SamplesKept
<1>5. DecisionStands'
  BY <1>1, <1>2, DecisionsKept
<1> QED
  BY <1>2, <1>3, <1>4, <1>5

\* What is reviewed or decided is still over, and what joins it is over.
LEMMA RunsKept ==
  ASSUME DocumentsTypeOK, DecidedHasRun,
         \A e \in Documents : HasRun(e) => HasRun(e)',
         \A i \in DOMAIN reviews' :
            \/ i \in DOMAIN reviews /\ reviews'[i].document = reviews[i].document
            \/ HasRun(reviews[i].document)',
         \A i \in DOMAIN audits' :
            \/ i \in DOMAIN audits /\ audits'[i].document = audits[i].document
            \/ HasRun(audits[i].document)'
  PROVE  DecidedHasRun'
<1>1. /\ \A i \in DOMAIN reviews : reviews[i] \in Review
      /\ \A i \in DOMAIN audits : audits[i] \in Audit
  BY DEF DocumentsTypeOK
<1>2. /\ \A i \in DOMAIN reviews : reviews[i].document \in Documents
      /\ \A i \in DOMAIN audits : audits[i].document \in Documents
  BY <1>1 DEF Review, Audit
<1>3. \A i \in DOMAIN reviews' : HasRun(reviews[i].document)'
  BY <1>2 DEF DecidedHasRun
<1>4. \A i \in DOMAIN audits' : HasRun(audits[i].document)'
  BY <1>2 DEF DecidedHasRun
<1> QED
  BY <1>3, <1>4 DEF DecidedHasRun

\* What has begun and has no processing under way is over.
LEMMA OverKept ==
  ASSUME NEW e, HasRun(e), JobBegun(e) => JobBegun(e)', places'[e] = places[e]
  PROVE  HasRun(e)'
  BY DEF HasRun

-----------------------------------------------------------------------------
\* Jobs

\* A write of a status leaves the documents of the jobs as they are.
LEMMA StatusWritten ==
  ASSUME jobs \in Seq(Job), OneJobEach, NEW k \in Nat,
         NEW status \in {"running", "succeeded", "failed"},
         jobs' = [jobs EXCEPT ![k].status = status]
  PROVE  /\ jobs' \in Seq(Job) /\ OneJobEach'
         /\ \A e : JobsOf(e)' = JobsOf(e)
         /\ \A e : JobBegun(e) => JobBegun(e)'
         /\ k \in DOMAIN jobs => JobBegun(jobs[k].document)'
<1>1. \A i \in DOMAIN jobs : jobs[i] \in Job
  OBVIOUS
<1>2. DOMAIN jobs' = DOMAIN jobs /\ Len(jobs') = Len(jobs) /\ DOMAIN jobs = 1..Len(jobs)
  OBVIOUS
<1>3. \A i \in DOMAIN jobs :
        /\ jobs'[i] \in Job /\ jobs'[i].document = jobs[i].document
        /\ i # k => jobs'[i].status = jobs[i].status
        /\ i = k => jobs'[i].status = status
  BY <1>1 DEF Job
<1>4. jobs' \in Seq(Job)
  <2>1. jobs' = [i \in 1..Len(jobs) |-> jobs'[i]]
    BY <1>2
  <2>2. jobs' \in [1..Len(jobs) -> Job]
    BY <1>2, <1>3, <2>1, Zenon
  <2>3. Len(jobs) \in Nat
    OBVIOUS
  <2> QED
    BY SMTT(30), <2>2, <2>3
<1>5. OneJobEach'
  BY <1>2, <1>3 DEF OneJobEach
<1>6. \A e : JobsOf(e)' = JobsOf(e)
  BY <1>2, <1>3 DEF JobsOf
<1>7. \A e : JobBegun(e) => JobBegun(e)'
  <2> SUFFICES ASSUME NEW e, JobBegun(e) PROVE JobBegun(e)'
    OBVIOUS
  <2>1. \A i \in JobsOf(e) : i \in DOMAIN jobs /\ jobs'[i].status # "queued"
    BY <1>3 DEF JobBegun, JobsOf
  <2> QED
    BY <1>6, <2>1 DEF JobBegun
<1>8. ASSUME k \in DOMAIN jobs PROVE JobBegun(jobs[k].document)'
  <2> DEFINE d == jobs[k].document
  <2>1. k \in JobsOf(d) /\ \A i \in JobsOf(d) : i = k
    BY <1>8 DEF JobsOf, OneJobEach
  <2>2. k \in JobsOf(d)' /\ \A i \in JobsOf(d)' : i = k
    BY <1>6, <2>1
  <2>3. jobs'[k].status # "queued"
    BY <1>3, <1>8
  <2> HIDE DEF d
  <2>4. JobBegun(d)'
    BY <2>2, <2>3 DEF JobBegun
  <2> QED
    BY <2>4 DEF d
<1> QED
  BY <1>4, <1>5, <1>6, <1>7, <1>8

\* A job is put in front of the others.
LEMMA JobQueued ==
  ASSUME jobs \in Seq(Job), OneJobEach, NEW d \in Documents, JobsOf(d) = {}, QueueJob(d)
  PROVE  /\ jobs' \in Seq(Job) /\ OneJobEach'
         /\ \A e : e # d => (JobsOf(e) = {} => JobsOf(e)' = {})
         /\ \A e : e # d => (JobBegun(e) => JobBegun(e)')
<1> DEFINE job == [document |-> d, status |-> "queued"]
<1>1. jobs' = <<job>> \o jobs
  BY DEF QueueJob
<1>2. job \in Job /\ job.document = d
  BY DEF Job
<1> HIDE DEF job
<1>3. /\ jobs' \in Seq(Job) /\ Len(jobs') = Len(jobs) + 1 /\ Len(jobs) \in Nat
      /\ jobs'[1] = job /\ \A i \in DOMAIN jobs : jobs'[i + 1] = jobs[i]
  BY SMTT(60), <1>1, <1>2
<1>4. /\ DOMAIN jobs' = 1..(Len(jobs) + 1) /\ DOMAIN jobs = 1..Len(jobs)
      /\ \A i \in DOMAIN jobs' : i # 1 => i - 1 \in DOMAIN jobs /\ jobs'[i] = jobs[i - 1]
      /\ \A i \in DOMAIN jobs : i + 1 \in DOMAIN jobs' /\ i + 1 # 1
  <2>1. DOMAIN jobs' = 1..(Len(jobs) + 1) /\ DOMAIN jobs = 1..Len(jobs) /\ Len(jobs) \in Nat
    BY <1>3
  <2>2. ASSUME NEW i \in DOMAIN jobs', i # 1
        PROVE  i - 1 \in DOMAIN jobs /\ jobs'[i] = jobs[i - 1]
    <3>1. i \in Int /\ i - 1 \in 1..Len(jobs) /\ (i - 1) + 1 = i
      BY <2>1, <2>2
    <3>2. i - 1 \in DOMAIN jobs
      BY <2>1, <3>1, Zenon
    <3>3. jobs'[(i - 1) + 1] = jobs[i - 1]
      BY <1>3, <3>2, Zenon
    <3> QED
      BY <3>1, <3>2, <3>3, Zenon
  <2>3. \A i \in DOMAIN jobs : i + 1 \in DOMAIN jobs' /\ i + 1 # 1
    BY <2>1
  <2> QED
    BY <2>1, <2>2, <2>3
<1>5. \A i \in DOMAIN jobs : jobs[i].document # d
  BY DEF JobsOf
<1>6. OneJobEach'
  <2> SUFFICES ASSUME NEW i \in DOMAIN jobs', NEW j \in DOMAIN jobs',
                      jobs'[i].document = jobs'[j].document
               PROVE  i = j
    BY DEF OneJobEach
  <2>1. CASE i = 1
    BY <1>2, <1>3, <1>4, <1>5, <2>1
  <2>2. CASE j = 1
    BY <1>2, <1>3, <1>4, <1>5, <2>2
  <2>3. CASE i # 1 /\ j # 1
    <3>1. i - 1 = j - 1
      BY <1>4, <2>3 DEF OneJobEach
    <3> QED
      BY <1>4, <3>1
  <2> QED
    BY <2>1, <2>2, <2>3
<1>7. \A e : e # d => \A i \in JobsOf(e)' :
        i \in DOMAIN jobs' /\ i # 1 /\ i - 1 \in JobsOf(e) /\ jobs'[i] = jobs[i - 1]
  BY <1>2, <1>3, <1>4 DEF JobsOf
<1>8. \A e : \A i \in JobsOf(e) : i + 1 \in JobsOf(e)'
  BY <1>3, <1>4 DEF JobsOf
<1>9. \A e : e # d => (JobsOf(e) = {} => JobsOf(e)' = {})
  BY <1>7
<1>10. \A e : e # d => (JobBegun(e) => JobBegun(e)')
  BY <1>7, <1>8 DEF JobBegun
<1> QED
  BY <1>3, <1>6, <1>9, <1>10

-----------------------------------------------------------------------------
\* Uploads and jobs

LEMMA CreateUploadSteps ==
  ASSUME DocumentsInvariant, NEW d \in Documents, CreateUpload(d)
  PROVE  DocumentsInvariant'
<1> DEFINE row == NewDocument("pending_upload")
<1>1. /\ documents[d].storage = "none" /\ documents' = [documents EXCEPT ![d] = row]
      /\ UNCHANGED <<samples, files, puts, uploads, jobs, places, reviews, audits>>
  BY DEF CreateUpload
<1>2. row \in Document /\ row.storage = "pending_upload"
  BY DEF NewDocument, Document
<1>3. DocumentsTypeOK /\ JobsInvariant /\ JobsOf(d) = {}
  BY <1>1 DEF DocumentsInvariant, JobsInvariant, UploadsHaveNoJob
<1>4. ~HasRun(d)
  BY <1>3 DEF HasRun, JobBegun
<1> HIDE DEF row
<1>5. /\ documents' \in [Documents -> Document] /\ SampleIsTheUpload' /\ DecisionStands'
      /\ \A e \in Documents : documents'[e] = IF e = d THEN row ELSE documents[e]
  BY <1>1, <1>2, <1>4, OneDocument
<1>6. DocumentsTypeOK'
  BY <1>1, <1>3, <1>5 DEF DocumentsTypeOK
<1>7. OneJobEach' /\ RunningHasBegun' /\ DecidedHasRun'
  BY <1>1, <1>3 DEF JobsInvariant, OneJobEach, RunningHasBegun, DecidedHasRun, HasRun, JobBegun, JobsOf
<1>8. UploadsHaveNoJob'
  BY <1>1, <1>3, <1>5 DEF JobsInvariant, UploadsHaveNoJob, JobsOf
<1> QED
  BY <1>5, <1>6, <1>7, <1>8 DEF DocumentsInvariant, JobsInvariant

\* Requests that look, wait and write the file.
LEMMA WaitingSteps ==
  ASSUME DocumentsInvariant, UNCHANGED <<documents, samples, jobs, places, reviews, audits>>,
         files' \subseteq Documents, puts' \subseteq Documents,
         uploads' \in [Uploads -> Documents \cup {NoDocument}]
  PROVE  DocumentsInvariant'
<1>1. JobsInvariant'
  BY DEF DocumentsInvariant, JobsInvariant, OneJobEach, RunningHasBegun, UploadsHaveNoJob,
         DecidedHasRun, HasRun, JobBegun, JobsOf
<1>2. DocumentsTypeOK' /\ SampleIsTheUpload' /\ DecisionStands'
  BY DEF DocumentsInvariant, DocumentsTypeOK, SampleIsTheUpload, DecisionStands, AuditsOf
<1> QED
  BY <1>1, <1>2 DEF DocumentsInvariant

LEMMA StartJobSteps ==
  ASSUME DocumentsInvariant, NEW k \in DOMAIN jobs, StartJob(k)
  PROVE  DocumentsInvariant'
<1>1. /\ DocumentsTypeOK /\ JobsInvariant /\ OneJobEach /\ jobs \in Seq(Job) /\ k \in Nat
      /\ RunningHasBegun /\ UploadsHaveNoJob /\ DecidedHasRun
  BY DEF DocumentsInvariant, DocumentsTypeOK, JobsInvariant
<1>2. PICK d \in Documents : d = jobs[k].document
  <2>1. jobs[k] \in Job
    BY <1>1
  <2> QED
    BY <2>1 DEF Job
<1> DEFINE row == [documents[d] EXCEPT !.processing = "processing"]
<1>3. /\ jobs[k].status = "queued" /\ jobs' = [jobs EXCEPT ![k].status = "running"]
      /\ places' = [places EXCEPT ![d] = k]
      /\ documents' = [documents EXCEPT ![d].processing = "processing"]
      /\ UNCHANGED <<samples, files, puts, uploads, reviews, audits>>
  BY <1>2 DEF StartJob, Runnable
<1>4. k \in JobsOf(d) /\ ~JobBegun(d) /\ ~HasRun(d)
  BY <1>2, <1>3 DEF JobsOf, JobBegun, HasRun
<1>5. documents[d] \in Document /\ documents[d].storage \notin {"none", "pending_upload"}
  BY <1>1, <1>4 DEF DocumentsTypeOK, UploadsHaveNoJob
<1>6. row \in Document /\ row.storage = documents[d].storage
  BY <1>5 DEF Document
<1>7. documents' = [documents EXCEPT ![d] = row]
  BY <1>1, <1>3 DEF DocumentsTypeOK
<1> HIDE DEF row
<1>8. /\ documents' \in [Documents -> Document] /\ SampleIsTheUpload' /\ DecisionStands'
      /\ \A e \in Documents : documents'[e] = IF e = d THEN row ELSE documents[e]
  BY ZenonT(40), <1>3, <1>4, <1>6, <1>7, OneDocument
<1>9. /\ jobs' \in Seq(Job) /\ OneJobEach' /\ \A e : JobsOf(e)' = JobsOf(e)
      /\ \A e : JobBegun(e) => JobBegun(e)'
      /\ JobBegun(d)'
  <2>1. k \in Nat /\ k \in DOMAIN jobs /\ jobs[k].document = d
    BY <1>1, <1>2
  <2>2. jobs' = [jobs EXCEPT ![k].status = "running"]
    BY <1>3
  <2>3. "running" \in {"running", "succeeded", "failed"}
    OBVIOUS
  <2>4. /\ jobs' \in Seq(Job) /\ OneJobEach' /\ \A e : JobsOf(e)' = JobsOf(e)
        /\ \A e : JobBegun(e) => JobBegun(e)'
        /\ JobBegun(jobs[k].document)'
    BY <1>1, <2>1, <2>2, <2>3, StatusWritten, Zenon
  <2>5. jobs'[k].document = d
    <3>1. jobs[k] \in Job /\ jobs'[k] = [jobs[k] EXCEPT !.status = "running"]
      BY <1>1, <2>1, <2>2
    <3> QED
      BY <2>1, <3>1 DEF Job
  <2> QED
    BY <2>4, <2>5, Zenon
<1>10. /\ places' \in [Documents -> Nat]
       /\ \A e \in Documents : e # d => places'[e] = places[e]
  BY <1>1, <1>3 DEF DocumentsTypeOK
<1>11. DocumentsTypeOK'
  BY <1>1, <1>3, <1>8, <1>9, <1>10 DEF DocumentsTypeOK
<1>12. RunningHasBegun'
  BY <1>1, <1>9, <1>10 DEF RunningHasBegun
<1>13. UploadsHaveNoJob'
  BY <1>1, <1>6, <1>8, <1>9 DEF UploadsHaveNoJob
<1>14. DecidedHasRun'
  <2>1. \A e \in Documents : HasRun(e) => HasRun(e)'
    BY <1>4, <1>9, <1>10, OverKept
  <2> QED
    BY <1>1, <1>3, <2>1, RunsKept
<1> QED
  BY <1>8, <1>9, <1>11, <1>12, <1>13, <1>14 DEF DocumentsInvariant, JobsInvariant

\* The end of a processing writes its document, and a job that need not be its own.
LEMMA CloseJobSteps ==
  ASSUME DocumentsInvariant, NEW d \in Documents, NEW status \in {"succeeded", "failed"},
         CloseJob(d, status), NEW row \in Document, row.storage = documents[d].storage,
         documents' = [documents EXCEPT ![d] = row],
         UNCHANGED <<samples, files, puts, uploads, audits>>, reviews' \in Seq(Review),
         \A i \in DOMAIN reviews' :
            (i \in DOMAIN reviews /\ reviews'[i] = reviews[i]) \/ reviews'[i].document = d
  PROVE  DocumentsInvariant'
<1>1. /\ DocumentsTypeOK /\ JobsInvariant /\ OneJobEach /\ jobs \in Seq(Job)
      /\ RunningHasBegun /\ UploadsHaveNoJob /\ DecidedHasRun
      /\ places \in [Documents -> Nat] /\ places[d] \in Nat
  BY DEF DocumentsInvariant, DocumentsTypeOK, JobsInvariant
<1>2. /\ places[d] # NoPlace
      /\ jobs' = [jobs EXCEPT ![places[d]].status = status]
      /\ places' = [places EXCEPT ![d] = NoPlace]
  BY DEF CloseJob
<1>3. ~HasRun(d) /\ JobBegun(d)
  BY <1>1, <1>2 DEF HasRun, RunningHasBegun
<1>4. /\ documents' \in [Documents -> Document] /\ SampleIsTheUpload' /\ DecisionStands'
      /\ \A e \in Documents : documents'[e] = IF e = d THEN row ELSE documents[e]
  BY ZenonT(40), <1>3, OneDocument
<1>5. /\ jobs' \in Seq(Job) /\ OneJobEach' /\ \A e : JobsOf(e)' = JobsOf(e)
      /\ \A e : JobBegun(e) => JobBegun(e)'
  BY <1>1, <1>2, StatusWritten
<1>6. /\ places' \in [Documents -> Nat] /\ places'[d] = NoPlace
      /\ \A e \in Documents : e # d => places'[e] = places[e]
  BY <1>1, <1>2 DEF NoPlace
<1>7. DocumentsTypeOK'
  BY <1>1, <1>4, <1>5, <1>6 DEF DocumentsTypeOK
<1>8. RunningHasBegun'
  BY <1>1, <1>5, <1>6 DEF RunningHasBegun
<1>9. UploadsHaveNoJob'
  BY <1>1, <1>4, <1>5 DEF UploadsHaveNoJob
<1>10. HasRun(d)'
  BY <1>3, <1>5, <1>6 DEF HasRun
<1>11. DecidedHasRun'
  <2>1. \A e \in Documents : HasRun(e) => HasRun(e)'
    BY <1>3, <1>5, <1>6, OverKept
  <2>2. \A i \in DOMAIN reviews' :
          \/ i \in DOMAIN reviews /\ reviews'[i].document = reviews[i].document
          \/ HasRun(reviews[i].document)'
    BY <1>10
  <2>3. \A i \in DOMAIN audits' : i \in DOMAIN audits /\ audits'[i].document = audits[i].document
    OBVIOUS
  <2> QED
    BY <1>1, <2>1, <2>2, <2>3, RunsKept
<1> QED
  BY <1>4, <1>5, <1>7, <1>8, <1>9, <1>11 DEF DocumentsInvariant, JobsInvariant

LEMMA SucceedJobSteps ==
  ASSUME DocumentsInvariant, NEW d \in Documents, SucceedJob(d)
  PROVE  DocumentsInvariant'
<1> DEFINE row == [documents[d] EXCEPT !.processing = "succeeded", !.eligibility = "eligible"]
<1>1. /\ CloseJob(d, "succeeded")
      /\ documents' = [documents EXCEPT ![d].processing = "succeeded", ![d].eligibility = "eligible"]
      /\ UNCHANGED <<samples, files, puts, uploads, reviews, audits>>
  BY DEF SucceedJob
<1>2. DocumentsTypeOK /\ documents[d] \in Document /\ reviews \in Seq(Review)
  BY DEF DocumentsInvariant, DocumentsTypeOK
<1>3. row \in Document /\ row.storage = documents[d].storage
  BY <1>2 DEF Document
<1>4. documents' = [documents EXCEPT ![d] = row]
  BY <1>1, <1>2 DEF DocumentsTypeOK
<1>5. \A i \in DOMAIN reviews' : i \in DOMAIN reviews /\ reviews'[i] = reviews[i]
  BY <1>1
<1> HIDE DEF row
<1> QED
  BY ZenonT(40), <1>1, <1>2, <1>3, <1>4, <1>5, CloseJobSteps

LEMMA FailJobSteps ==
  ASSUME DocumentsInvariant, NEW d \in Documents, NEW failure \in DOMAIN FailureQueue, FailJob(d, failure)
  PROVE  DocumentsInvariant'
<1> DEFINE row == [documents[d] EXCEPT !.processing = "failed", !.eligibility = "limited"]
           review == [document |-> d, status |-> "pending", queue |-> FailureQueue[failure]]
<1>1. /\ CloseJob(d, "failed")
      /\ documents' = [documents EXCEPT ![d].processing = "failed", ![d].eligibility = "limited"]
      /\ UNCHANGED <<samples, files, puts, uploads, audits>>
  BY DEF FailJob
<1>2. DocumentsTypeOK /\ documents[d] \in Document
  BY DEF DocumentsInvariant, DocumentsTypeOK
<1>3. row \in Document /\ row.storage = documents[d].storage
  BY <1>2 DEF Document
<1>4. documents' = [documents EXCEPT ![d] = row]
  BY <1>1, <1>2 DEF DocumentsTypeOK
<1> HIDE DEF row
<1>5. /\ reviews' \in Seq(Review)
      /\ \A i \in DOMAIN reviews' :
           (i \in DOMAIN reviews /\ reviews'[i] = reviews[i]) \/ reviews'[i].document = d
  <2>1. reviews \in Seq(Review)
    BY <1>2 DEF DocumentsTypeOK
  <2>2. reviews' = reviews \/ (FailureQueue[failure] # "none" /\ reviews' = Append(reviews, review))
    BY DEF FailJob, OpenReview
  <2>3. CASE reviews' = reviews
    BY <2>1, <2>3
  <2>4. CASE FailureQueue[failure] # "none" /\ reviews' = Append(reviews, review)
    <3>1. review \in Review /\ review.document = d
      BY <2>4 DEF Review, FailureQueue
    <3> HIDE DEF review
    <3> QED
      BY <2>1, <2>4, <3>1
  <2> QED
    BY <2>2, <2>3, <2>4
<1> HIDE DEF review
<1> QED
  BY ZenonT(40), <1>1, <1>3, <1>4, <1>5, CloseJobSteps

LEMMA FinishCompleteSteps ==
  ASSUME DocumentsInvariant, NEW c \in Uploads, FinishComplete(c)
  PROVE  DocumentsInvariant'
<1>1. PICK d \in Documents : d = uploads[c]
  BY DEF FinishComplete, DocumentsInvariant, DocumentsTypeOK
<1>2. /\ documents[d].storage = "pending_upload"
      /\ QueueJob(d) /\ documents' = UploadCompleted(d)
      /\ samples' = [samples EXCEPT ![ManuscriptOf[d]] = d]
      /\ uploads' = [uploads EXCEPT ![c] = NoDocument]
      /\ UNCHANGED <<files, puts, places, reviews, audits>>
  BY <1>1 DEF FinishComplete, Pending
<1>3. /\ DocumentsTypeOK /\ SampleIsTheUpload /\ JobsInvariant /\ DecisionStands
      /\ OneJobEach /\ RunningHasBegun /\ UploadsHaveNoJob /\ DecidedHasRun /\ jobs \in Seq(Job)
      /\ \A e \in Documents : documents[e] \in Document
      /\ ManuscriptOf[d] \in Manuscripts /\ \A e \in Documents : ManuscriptOf[e] \in Manuscripts
  BY DEF DocumentsInvariant, JobsInvariant, DocumentsTypeOK
<1>4. /\ JobsOf(d) = {} /\ ~JobBegun(d) /\ ~HasRun(d)
      /\ jobs' \in Seq(Job) /\ OneJobEach'
      /\ \A e : e # d => (JobsOf(e) = {} => JobsOf(e)' = {})
      /\ \A e : e # d => (JobBegun(e) => JobBegun(e)')
  <2>1. JobsOf(d) = {}
    BY <1>2, <1>3 DEF UploadsHaveNoJob
  <2> QED
    BY <1>2, <1>3, <2>1, JobQueued DEF JobBegun, HasRun
<1>5. \A e \in Documents :
        /\ documents'[e] \in Document
        /\ e # d => /\ documents'[e].adminReview = documents[e].adminReview
                    /\ documents'[e].eligibility = documents[e].eligibility
                    /\ documents'[e].storage =
                         IF ManuscriptOf[e] = ManuscriptOf[d] /\ documents[e].storage = "uploaded"
                         THEN "pending_delete" ELSE documents[e].storage
        /\ e = d => documents'[e].storage = "uploaded"
  <2> SUFFICES ASSUME NEW e \in Documents
               PROVE  /\ documents'[e] \in Document
                      /\ e # d => /\ documents'[e].adminReview = documents[e].adminReview
                                  /\ documents'[e].eligibility = documents[e].eligibility
                                  /\ documents'[e].storage =
                                       IF ManuscriptOf[e] = ManuscriptOf[d] /\ documents[e].storage = "uploaded"
                                       THEN "pending_delete" ELSE documents[e].storage
                      /\ e = d => documents'[e].storage = "uploaded"
    OBVIOUS
  <2>1. documents[e] \in Document
    BY <1>3
  <2>2. CASE e = d
    BY <1>2, <2>1, <2>2 DEF UploadCompleted, Document
  <2>3. CASE e # d /\ e \in Replaced(d)
    BY <1>2, <2>1, <2>3 DEF UploadCompleted, Replaced, Document
  <2>4. CASE e # d /\ e \notin Replaced(d)
    BY <1>2, <2>1, <2>4 DEF UploadCompleted, Replaced
  <2> QED
    BY <2>2, <2>3, <2>4
<1>6. DocumentsTypeOK'
  <2>1. documents' \in [Documents -> Document]
    BY <1>2, <1>5 DEF UploadCompleted
  <2> QED
    BY <1>2, <1>3, <1>4, <2>1 DEF DocumentsTypeOK
<1>7. SampleIsTheUpload'
  <2> SUFFICES ASSUME NEW m \in Manuscripts
               PROVE  {e \in Documents : ManuscriptOf[e] = m /\ documents'[e].storage = "uploaded"}
                        = {samples'[m]} \ {NoDocument}
    BY DEF SampleIsTheUpload
  <2>1. CASE m = ManuscriptOf[d]
    <3>1. samples'[m] = d /\ d # NoDocument
      BY <1>2, <1>3, <2>1 DEF DocumentsTypeOK
    <3>2. \A e \in Documents :
            ManuscriptOf[e] = m /\ documents'[e].storage = "uploaded" <=> e = d
      BY <1>5, <2>1
    <3> QED
      BY <3>1, <3>2
  <2>2. CASE m # ManuscriptOf[d]
    <3>1. samples'[m] = samples[m]
      BY <1>2, <1>3, <2>2 DEF DocumentsTypeOK
    <3>2. \A e \in Documents : ManuscriptOf[e] = m => documents'[e].storage = documents[e].storage
      BY <1>5, <2>2
    <3> QED
      BY <1>3, <3>1, <3>2 DEF SampleIsTheUpload
  <2> QED
    BY <2>1, <2>2
<1>8. DecisionStands'
  BY <1>2, <1>3, <1>4, <1>5, DecisionsKept DEF DocumentsTypeOK
<1>9. JobsInvariant'
  <2>1. \A e \in Documents : HasRun(e) => HasRun(e)'
    BY <1>2, <1>4, OverKept
  <2>2. DecidedHasRun'
    BY <1>2, <1>3, <2>1, RunsKept
  <2>3. RunningHasBegun'
    BY <1>2, <1>3, <1>4 DEF RunningHasBegun
  <2>4. UploadsHaveNoJob'
    BY <1>2, <1>3, <1>4, <1>5 DEF UploadsHaveNoJob
  <2> QED
    BY <1>4, <2>2, <2>3, <2>4 DEF JobsInvariant
<1> QED
  BY <1>6, <1>7, <1>8, <1>9 DEF DocumentsInvariant

-----------------------------------------------------------------------------
\* Decisions

LEMMA DecideSteps ==
  ASSUME DocumentsInvariant, NEW i \in DOMAIN reviews, NEW decision \in Decisions, Decide(i, decision)
  PROVE  DocumentsInvariant'
<1> DEFINE n == Len(audits) + 1
           eligibility == IF decision = "approved" THEN "eligible" ELSE "blocked"
<1>1. /\ DocumentsTypeOK /\ SampleIsTheUpload /\ JobsInvariant /\ DecisionStands
      /\ OneJobEach /\ RunningHasBegun /\ UploadsHaveNoJob /\ DecidedHasRun
      /\ reviews[i] \in Review
  BY DEF DocumentsInvariant, JobsInvariant, DocumentsTypeOK
<1>2. PICK d \in Documents : d = reviews[i].document
  BY <1>1 DEF Review
<1> DEFINE row == [documents[d] EXCEPT !.adminReview = Outcome(decision), !.eligibility = eligibility]
           review == [reviews[i] EXCEPT !.status = Outcome(decision),
                                        !.queue = IF decision = "quarantined" THEN "quarantine" ELSE @]
           audit == [document |-> d, decision |-> decision]
<1>3. /\ reviews' = [reviews EXCEPT ![i] = review]
      /\ audits' = Append(audits, audit)
      /\ documents' = [documents EXCEPT ![d] = row]
      /\ UNCHANGED <<samples, files, puts, uploads, jobs, places>>
  BY <1>1, <1>2 DEF Decide, DocumentsTypeOK
<1>4. /\ row \in Document /\ row.storage = documents[d].storage
      /\ row.adminReview = Outcome(decision) /\ row.eligibility = eligibility
  <2>1. documents[d] \in Document
    BY <1>1 DEF DocumentsTypeOK
  <2> QED
    BY <2>1 DEF Document, Outcome
<1>5. review \in Review /\ review.document = d
  BY <1>1, <1>2 DEF Review, Outcome
<1>6. audit \in Audit /\ audit.document = d /\ audit.decision = decision
  BY DEF Audit
<1> HIDE DEF row, review, audit
<1>7. /\ \A e \in Documents : documents'[e] = IF e = d THEN row ELSE documents[e]
      /\ documents' \in [Documents -> Document]
  BY SMTT(30), <1>1, <1>3, <1>4 DEF DocumentsTypeOK
<1>8. /\ reviews' \in Seq(Review) /\ DOMAIN reviews' = DOMAIN reviews
      /\ \A j \in DOMAIN reviews : reviews'[j].document = reviews[j].document
  BY <1>1, <1>2, <1>3, <1>5 DEF DocumentsTypeOK
<1>9. /\ audits' \in Seq(Audit) /\ DOMAIN audits' = DOMAIN audits \cup {n} /\ audits'[n] = audit
      /\ \A j \in DOMAIN audits : j < n /\ audits'[j] = audits[j]
      /\ n \in Nat /\ DOMAIN audits \subseteq Nat
  <2>1. audits \in Seq(Audit) /\ audits' = Append(audits, audit) /\ n = Len(audits) + 1
    BY <1>1, <1>3 DEF DocumentsTypeOK
  <2>2. audits' \in Seq(Audit) /\ audits'[n] = audit
    BY <1>6, <2>1
  <2>3. DOMAIN audits = 1..Len(audits) /\ DOMAIN audits' = 1..n /\ n \in Nat
    BY <1>6, <2>1
  <2>4. \A j \in DOMAIN audits : j < n /\ audits'[j] = audits[j]
    BY <1>6, <2>1, <2>3
  <2> QED
    BY <2>2, <2>3, <2>4
<1> HIDE DEF n
<1>10. DocumentsTypeOK'
  BY <1>1, <1>3, <1>7, <1>8, <1>9 DEF DocumentsTypeOK
<1>11. SampleIsTheUpload'
  BY <1>1, <1>3, <1>4, <1>7, SamplesKept
<1>12. JobsInvariant'
  <2>1. /\ \A e : JobsOf(e)' = JobsOf(e)
        /\ \A e : JobBegun(e) => JobBegun(e)'
        /\ \A e : HasRun(e) => HasRun(e)'
    BY <1>3 DEF JobsOf, JobBegun, HasRun
  <2>2. HasRun(d)'
    BY <1>1, <1>2, <2>1 DEF DecidedHasRun
  <2>3. \A j \in DOMAIN reviews' : j \in DOMAIN reviews /\ reviews'[j].document = reviews[j].document
    BY <1>8
  <2>4. \A j \in DOMAIN audits' :
          \/ j \in DOMAIN audits /\ audits'[j].document = audits[j].document
          \/ HasRun(audits[j].document)'
    BY <1>6, <1>9, <2>2
  <2>5. DecidedHasRun'
    BY <1>1, <2>1, <2>3, <2>4, RunsKept
  <2>6. OneJobEach' /\ RunningHasBegun'
    BY <1>1, <1>3, <2>1 DEF OneJobEach, RunningHasBegun
  <2>7. UploadsHaveNoJob'
    BY <1>1, <1>4, <1>7, <2>1 DEF UploadsHaveNoJob
  <2> QED
    BY <2>5, <2>6, <2>7 DEF JobsInvariant
<1>13. DecisionStands'
  <2> SUFFICES ASSUME NEW e \in Documents, NEW k \in AuditsOf(e)', (\A j \in AuditsOf(e)' : j <= k)
               PROVE  /\ documents'[e].adminReview = Outcome(audits'[k].decision)
                      /\ documents'[e].eligibility =
                           IF audits'[k].decision = "approved" THEN "eligible" ELSE "blocked"
    BY DEF DecisionStands
  <2>1. CASE e = d
    <3>1. n \in AuditsOf(e)' /\ n <= k
      BY <1>6, <1>9, <2>1 DEF AuditsOf
    <3>2. k = n
      BY <1>9, <3>1 DEF AuditsOf
    <3> QED
      BY <1>4, <1>6, <1>7, <1>9, <2>1, <3>2
  <2>2. CASE e # d
    <3>1. AuditsOf(e)' = AuditsOf(e) /\ audits'[k] = audits[k]
      BY <1>6, <1>9, <2>2 DEF AuditsOf
    <3>2. documents'[e] = documents[e]
      BY <1>7, <2>2
    <3> QED
      BY <1>1, <3>1, <3>2 DEF DecisionStands
  <2> QED
    BY <2>1, <2>2
<1> QED
  BY <1>10, <1>11, <1>12, <1>13 DEF DocumentsInvariant

-----------------------------------------------------------------------------
\* The invariant

LEMMA DocumentsInitially == DocumentsInit => DocumentsInvariant
<1> SUFFICES ASSUME DocumentsInit PROVE DocumentsInvariant
  OBVIOUS
<1>1. NewDocument("none") \in Document /\ NewDocument("none").storage = "none"
  BY DEF NewDocument, Document
<1>2. /\ documents = [d \in Documents |-> NewDocument("none")] /\ samples = [m \in Manuscripts |-> NoDocument]
      /\ files = {} /\ puts = {} /\ uploads = [c \in Uploads |-> NoDocument]
      /\ jobs = <<>> /\ jobs \in Seq(Job) /\ DOMAIN jobs = {} /\ places = [d \in Documents |-> NoPlace]
      /\ reviews \in Seq(Review) /\ DOMAIN reviews = {} /\ audits \in Seq(Audit) /\ DOMAIN audits = {}
  BY DEF DocumentsInit
<1>3. DocumentsTypeOK
  BY <1>1, <1>2 DEF DocumentsTypeOK, NoPlace
<1>4. SampleIsTheUpload
  BY <1>1, <1>2 DEF SampleIsTheUpload
<1>5. JobsInvariant
  BY <1>2 DEF JobsInvariant, OneJobEach, RunningHasBegun, UploadsHaveNoJob, DecidedHasRun, JobsOf
<1>6. DecisionStands
  BY <1>2 DEF DecisionStands, AuditsOf
<1> QED
  BY <1>3, <1>4, <1>5, <1>6 DEF DocumentsInvariant

LEMMA DocumentsNext == DocumentsInvariant /\ [ApiNext]_apiVars => DocumentsInvariant'
<1> SUFFICES ASSUME DocumentsInvariant, [ApiNext]_apiVars PROVE DocumentsInvariant'
  OBVIOUS
<1>0. DocumentsTypeOK
  BY DEF DocumentsInvariant
<1>1. CASE UNCHANGED documentVars
  BY <1>1, DocumentsFrame
<1>2. ASSUME NEW d \in Documents, CreateUpload(d) \/ SucceedJob(d)
      PROVE  DocumentsInvariant'
  BY <1>2, CreateUploadSteps, SucceedJobSteps
<1>3. ASSUME NEW d \in Documents, BeginPut(d) \/ WriteFile(d)
      PROVE  DocumentsInvariant'
  <2>1. /\ UNCHANGED <<documents, samples, jobs, places, reviews, audits, uploads>>
        /\ files' \subseteq Documents /\ puts' \subseteq Documents
    BY <1>0, <1>3 DEF BeginPut, WriteFile, DocumentsTypeOK
  <2> QED
    BY <1>0, <2>1, WaitingSteps DEF DocumentsTypeOK
<1>4. ASSUME NEW d \in Documents, NEW c \in Uploads, BeginComplete(c, d)
      PROVE  DocumentsInvariant'
  BY <1>0, <1>4, WaitingSteps DEF BeginComplete, DocumentsTypeOK
<1>5. ASSUME NEW d \in Documents, NEW failure \in DOMAIN FailureQueue, FailJob(d, failure)
      PROVE  DocumentsInvariant'
  BY <1>5, FailJobSteps
<1>6. ASSUME NEW c \in Uploads, RefuseComplete(c)
      PROVE  DocumentsInvariant'
  BY <1>0, <1>6, WaitingSteps DEF RefuseComplete, DocumentsTypeOK
<1>7. ASSUME NEW c \in Uploads, FinishComplete(c)
      PROVE  DocumentsInvariant'
  BY <1>7, FinishCompleteSteps
<1>8. ASSUME NEW i \in DOMAIN reviews, NEW decision \in Decisions, Decide(i, decision)
      PROVE  DocumentsInvariant'
  BY <1>8, DecideSteps
<1>9. ASSUME NEW i \in DOMAIN jobs, StartJob(i)
      PROVE  DocumentsInvariant'
  BY <1>9, StartJobSteps
<1>10. CASE DocumentStep
  BY <1>10, <1>2, <1>3, <1>4, <1>5, <1>6, <1>7, <1>8, <1>9 DEF DocumentStep
<1> QED
  BY <1>1, <1>10 DEF ApiNext, apiVars

LEMMA DocumentsAlways == ApiSpec => []DocumentsInvariant
<1>1. ApiInit => DocumentsInvariant
  BY DocumentsInitially DEF ApiInit
<1> QED
  BY <1>1, DocumentsNext, PTL DEF ApiSpec

-----------------------------------------------------------------------------
\* Theorems

\* The documents, their files, jobs, reviews and decisions keep their shapes.
THEOREM DocumentTypesCorrect == ApiSpec => []DocumentsTypeOK
<1>1. DocumentsInvariant => DocumentsTypeOK
  BY DEF DocumentsInvariant
<1> QED
  BY <1>1, DocumentsAlways, PTL

\* The uploaded document of a manuscript is its sample, for any number of uploads and
\* completions that wait for their files (completeTestDocumentUpload).
THEOREM SamplesCorrect == ApiSpec => []SampleIsTheUpload
<1>1. DocumentsInvariant => SampleIsTheUpload
  BY DEF DocumentsInvariant
<1> QED
  BY <1>1, DocumentsAlways, PTL

\* The last decision about a document stands, although no processing looks at decisions and
\* its end may close the job of another document: a document is processed once, and gets a
\* review only when that is over (applyTestAdminReviewDecision).
THEOREM DecisionsCorrect == ApiSpec => []DecisionStands
<1>1. DocumentsInvariant => DecisionStands
  BY DEF DocumentsInvariant
<1> QED
  BY <1>1, DocumentsAlways, PTL

\* What was proved of billing and intro requests while samples change at will holds while
\* they change as uploads, jobs and decisions make them.
THEOREM ApiCorrect ==
  /\ ApiSpec => []RecoveryHelps
  /\ ApiSpec => []PairIsOpenOnce
  /\ ApiSpec => []OverrunIsBounded
  /\ ApiSpec => []MailFollowsNotice
  /\ ApiSpec => PaymentCountsOnce
  /\ ApiSpec => PaymentTakesEffect
<1> QED
  BY ApiImplements, RecoveryCorrect, OpenOnceCorrect, OverrunCorrect, MailCorrect, PaymentsCorrect, MoneyCorrect

-----------------------------------------------------------------------------
\* The sum of sizes: Size is a value of the function that CHOOSE finds on the parts of a set,
\* and any two such functions agree where both are defined.

\* Among sets of documents there is one that contains no other: what holds of the empty set
\* and of a set whenever it holds of its parts, holds of all.
LEMMA SomeIsMinimal ==
  ASSUME NEW F \in SUBSET SUBSET Documents, F # {}
  PROVE  \E A \in F : \A B \in F : B \subseteq A => B = A
<1>1. \A A \in F : IsFiniteSet(A) /\ Cardinality(A) \in Nat
  BY FS_Subset, FS_CardinalityType
<1> DEFINE T == {Cardinality(A) : A \in F}
<1>2. T \in SUBSET Nat /\ T # {}
  BY <1>1
<1>3. PICK n \in T : \A y \in T : n <= y
  BY <1>2, HasSmallest
<1>4. PICK A \in F : n = Cardinality(A)
  BY <1>3
<1>5. ASSUME NEW B \in F, B \subseteq A, B # A
      PROVE  FALSE
  <2>1. Cardinality(B) < Cardinality(A)
    BY <1>1, <1>5, FS_Subset
  <2> QED
    BY <1>1, <1>3, <1>4, <2>1
<1> QED
  BY <1>5

\* The function that Size is a value of, on the parts of A.
First(s) == CHOOSE d \in s : TRUE
Rest(s) == s \ {First(s)}

IsSize(A, g) ==
    g = [s \in SUBSET A |-> IF s = {} THEN 0 ELSE SizeOf[First(s)] + g[s \ {First(s)}]]

LEMMA SizeIs == \A A : Size(A) = (CHOOSE g : IsSize(A, g))[A]
  BY Zenon DEF Size, MapThenSumSet, MapThenFoldSet, IsSize, First

LEMMA FirstIs == \A s : s # {} => First(s) \in s /\ Rest(s) \subseteq s /\ Rest(s) # s
  BY DEF First, Rest

SizeAt(g, s) == IF s = {} THEN 0 ELSE SizeOf[First(s)] + g[Rest(s)]

LEMMA IsSizeAt == \A A, g : IsSize(A, g) => \A s \in SUBSET A : g[s] = SizeAt(g, s)
  BY DEF IsSize, Rest, SizeAt

LEMMA SizesAgree ==
  ASSUME NEW A \in SUBSET Documents, NEW B \in SUBSET Documents, NEW g, NEW h,
         IsSize(A, g), IsSize(B, h), NEW s \in SUBSET (A \cap B)
  PROVE  g[s] = h[s]
<1> DEFINE F == {a \in SUBSET (A \cap B) : g[a] # h[a]}
<1> SUFFICES ASSUME F # {} PROVE FALSE
  OBVIOUS
<1>0. F \in SUBSET SUBSET Documents
  OBVIOUS
<1>1. PICK a \in F : \A b \in F : b \subseteq a => b = a
  BY Zenon, <1>0, SomeIsMinimal
<1>2. a # {} => Rest(a) \notin F /\ Rest(a) \in SUBSET (A \cap B)
  BY <1>1, FirstIs
<1>3. a \in SUBSET A /\ a \in SUBSET B
  OBVIOUS
<1>4. g[a] = SizeAt(g, a) /\ h[a] = SizeAt(h, a)
  <2>1. \A r \in SUBSET A : g[r] = SizeAt(g, r)
    BY Zenon, IsSizeAt
  <2>2. \A r \in SUBSET B : h[r] = SizeAt(h, r)
    BY Zenon, IsSizeAt
  <2> HIDE DEF F
  <2> QED
    BY Zenon, <1>3, <2>1, <2>2
<1>5. a # {} => g[Rest(a)] = h[Rest(a)]
  BY <1>2
<1>6. SizeAt(g, a) = SizeAt(h, a)
  BY <1>5 DEF SizeAt
<1> QED
  BY <1>4, <1>6

HasSize(A) == \E g : IsSize(A, g)

LEMMA SizeStep ==
  ASSUME NEW A \in SUBSET Documents, HasSize(A), A # {} => HasSize(Rest(A))
  PROVE  Size(A) = IF A = {} THEN 0 ELSE SizeOf[First(A)] + Size(Rest(A))
<1> DEFINE g == CHOOSE g : IsSize(A, g)
           h == CHOOSE h : IsSize(Rest(A), h)
<1>1. IsSize(A, g) /\ Size(A) = g[A]
  BY Zenon, SizeIs DEF HasSize
<1>2. A # {} => IsSize(Rest(A), h)
  BY DEF HasSize
<1>3. Size(Rest(A)) = h[Rest(A)]
  BY Zenon, SizeIs
<1> HIDE DEF g, h
<1>4. A # {} => g[Rest(A)] = h[Rest(A)]
  BY <1>1, <1>2, FirstIs, SizesAgree
<1>5. g[A] = SizeAt(g, A)
  BY <1>1, IsSizeAt
<1> QED
  BY <1>1, <1>3, <1>4, <1>5 DEF SizeAt

LEMMA AllHaveSize == \A A \in SUBSET Documents : HasSize(A)
<1> DEFINE F == {A \in SUBSET Documents : ~HasSize(A)}
<1> SUFFICES ASSUME F # {} PROVE FALSE
  OBVIOUS
<1>0. F \in SUBSET SUBSET Documents
  OBVIOUS
<1>1. PICK A \in F : \A B \in F : B \subseteq A => B = A
  BY Zenon, <1>0, SomeIsMinimal
<1>2. \A B \in SUBSET A : B # A => HasSize(B)
  BY <1>1
<1> DEFINE g == [s \in SUBSET A |-> IF s = {} THEN 0 ELSE SizeOf[First(s)] + Size(Rest(s))]
<1>3. ASSUME NEW s \in SUBSET A, s # {}
      PROVE  Size(Rest(s)) = g[Rest(s)]
  <2>1. Rest(s) \in SUBSET A /\ Rest(s) # A
    BY <1>3, FirstIs
  <2>2. Rest(s) # {} => Rest(Rest(s)) \in SUBSET A /\ Rest(Rest(s)) # A
    BY <2>1, FirstIs
  <2>3. HasSize(Rest(s)) /\ (Rest(s) # {} => HasSize(Rest(Rest(s))))
    BY <1>2, <2>1, <2>2
  <2> QED
    BY <2>1, <2>3, SizeStep
<1>4. IsSize(A, g)
  <2>1. \A s \in SUBSET A : g[s] = IF s = {} THEN 0 ELSE SizeOf[First(s)] + g[s \ {First(s)}]
    BY <1>3 DEF Rest
  <2> QED
    BY <2>1 DEF IsSize
<1> QED
  BY <1>1, <1>4 DEF HasSize

LEMMA SizeFirst ==
  ASSUME NEW A \in SUBSET Documents
  PROVE  Size(A) = IF A = {} THEN 0 ELSE SizeOf[First(A)] + Size(Rest(A))
  BY AllHaveSize, SizeStep, FirstIs

LEMMA SizeIsNat == \A A \in SUBSET Documents : Size(A) \in Nat
<1> DEFINE F == {A \in SUBSET Documents : Size(A) \notin Nat}
<1> SUFFICES ASSUME F # {} PROVE FALSE
  OBVIOUS
<1>0. F \in SUBSET SUBSET Documents
  OBVIOUS
<1>1. PICK A \in F : \A B \in F : B \subseteq A => B = A
  BY Zenon, <1>0, SomeIsMinimal
<1>2. A # {} => First(A) \in Documents /\ Size(Rest(A)) \in Nat
  BY <1>1, FirstIs
<1>3. Size(A) = IF A = {} THEN 0 ELSE SizeOf[First(A)] + Size(Rest(A))
  BY SizeFirst
<1> QED
  BY <1>2, <1>3

\* The order in which sizes are added does not matter.
LEMMA SizeWithout ==
  \A A \in SUBSET Documents : \A d \in A : Size(A) = SizeOf[d] + Size(A \ {d})
<1> DEFINE F == {A \in SUBSET Documents : \E d \in A : Size(A) # SizeOf[d] + Size(A \ {d})}
<1> SUFFICES ASSUME F # {} PROVE FALSE
  OBVIOUS
<1>0. F \in SUBSET SUBSET Documents
  OBVIOUS
<1>1. PICK A \in F : \A B \in F : B \subseteq A => B = A
  BY Zenon, <1>0, SomeIsMinimal
<1>2. PICK d \in A : Size(A) # SizeOf[d] + Size(A \ {d})
  OBVIOUS
<1> DEFINE e == First(A)
<1>3. e \in A /\ Size(A) = SizeOf[e] + Size(A \ {e})
  BY <1>2, SizeFirst, FirstIs DEF Rest
<1> HIDE DEF e
<1>4. d # e
  BY <1>2, <1>3
<1>5. /\ A \ {e} \in SUBSET Documents /\ A \ {e} \notin F /\ d \in A \ {e}
      /\ A \ {d} \in SUBSET Documents /\ A \ {d} \notin F /\ e \in A \ {d}
  BY SMTT(30), <1>1, <1>2, <1>3, <1>4
<1>6. Size(A \ {e}) = SizeOf[d] + Size((A \ {e}) \ {d})
  BY <1>5
<1>7. Size(A \ {d}) = SizeOf[e] + Size((A \ {d}) \ {e})
  BY <1>5
<1>8. (A \ {e}) \ {d} = (A \ {d}) \ {e}
  OBVIOUS
<1>9. SizeOf[d] \in Nat /\ SizeOf[e] \in Nat /\ Size((A \ {d}) \ {e}) \in Nat
  BY <1>2, <1>3, SizeIsNat
<1> DEFINE a == SizeOf[d]
           b == SizeOf[e]
           r == Size((A \ {d}) \ {e})
<1>10. Size(A \ {e}) = a + r /\ Size(A \ {d}) = b + r /\ a \in Nat /\ b \in Nat /\ r \in Nat
  BY Zenon, <1>6, <1>7, <1>8, <1>9
<1>11. Size(A) = b + Size(A \ {e}) /\ Size(A) # a + Size(A \ {d})
  BY Zenon, <1>2, <1>3
<1> HIDE DEF a, b, r
<1>12. b + (a + r) = a + (b + r)
  BY <1>10
<1> QED
  BY Zenon, <1>10, <1>11, <1>12

LEMMA SizeWith ==
  ASSUME NEW A \in SUBSET Documents, NEW d \in Documents
  PROVE  Size(A \cup {d}) <= Size(A) + SizeOf[d]
<1>1. SizeOf[d] \in Nat /\ Size(A) \in Nat
  BY SizeIsNat
<1>2. CASE d \in A
  <2>1. Size(A \cup {d}) = Size(A)
    <3>1. A \cup {d} = A
      BY <1>2
    <3> QED
      BY Zenon, <3>1
  <2> QED
    BY <1>1, <2>1
<1>3. CASE d \notin A
  <2>1. (A \cup {d}) \ {d} = A /\ A \cup {d} \in SUBSET Documents
    BY <1>3
  <2>2. Size(A \cup {d}) = SizeOf[d] + Size(A)
    BY <2>1, SizeWithout
  <2> QED
    BY <1>1, <2>2
<1> QED
  BY <1>2, <1>3

LEMMA SizeMonotone ==
  ASSUME NEW A \in SUBSET Documents, NEW B \in SUBSET Documents, A \subseteq B
  PROVE  Size(A) <= Size(B)
<1> DEFINE F == {C \in SUBSET Documents : A \subseteq C /\ ~(Size(A) <= Size(C))}
<1> SUFFICES ASSUME F # {} PROVE FALSE
  OBVIOUS
<1>0. F \in SUBSET SUBSET Documents
  OBVIOUS
<1>1. PICK C \in F : \A D \in F : D \subseteq C => D = C
  BY Zenon, <1>0, SomeIsMinimal
<1>2. Size(A) \in Nat /\ A # C
  BY SizeIsNat
<1>3. PICK d \in C \ A : TRUE
  BY <1>2
<1>4. C \ {d} \in SUBSET Documents /\ A \subseteq C \ {d} /\ C \ {d} \notin F
  BY <1>1, <1>3
<1>5. Size(A) <= Size(C \ {d}) /\ Size(C \ {d}) \in Nat /\ SizeOf[d] \in Nat
  BY <1>4, SizeIsNat
<1>6. Size(C) = SizeOf[d] + Size(C \ {d})
  BY <1>3, SizeWithout
<1> QED
  BY <1>2, <1>5, <1>6

LEMMA SizesAreBounded == \E n \in Nat : \A d \in Documents : SizeOf[d] <= n
<1> DEFINE Bounded(A) == \E n \in Nat : \A d \in A : SizeOf[d] <= n
           F == {A \in SUBSET Documents : ~Bounded(A)}
<1> SUFFICES ASSUME F # {} PROVE FALSE
  OBVIOUS
<1>0. F \in SUBSET SUBSET Documents
  OBVIOUS
<1>1. PICK A \in F : \A B \in F : B \subseteq A => B = A
  BY Zenon, <1>0, SomeIsMinimal
<1>2. ~Bounded(A) /\ A \subseteq Documents
  OBVIOUS
<1>3. PICK d \in A : TRUE
  BY <1>2
<1>4. Bounded(A \ {d})
  <2>1. A \ {d} \in SUBSET Documents /\ A \ {d} # A /\ A \ {d} \subseteq A
    BY <1>3
  <2>2. A \ {d} \notin F
    BY <1>1, <2>1
  <2> QED
    BY Zenon, <2>1, <2>2
<1>5. PICK n \in Nat : \A e \in A \ {d} : SizeOf[e] <= n
  BY <1>4
<1>6. SizeOf[d] \in Nat /\ \A e \in A : SizeOf[e] \in Nat
  BY <1>2, <1>3
<1>7. \A e \in A : SizeOf[e] <= n + SizeOf[d]
  BY <1>5, <1>6
<1>8. n + SizeOf[d] \in Nat
  BY <1>5, <1>6
<1> QED
  BY <1>2, <1>7, <1>8

LEMMA LargestIs ==
  /\ LargestSize \in Nat
  /\ \A d \in Documents : SizeOf[d] <= LargestSize
<1> DEFINE T == {SizeOf[d] : d \in Documents} \cup {0}
           U == {n \in Nat : \A y \in T : y <= n}
<1>1. T \in SUBSET Nat /\ 0 \in T
  OBVIOUS
<1>2. U \in SUBSET Nat /\ U # {}
  <2>1. PICK n \in Nat : \A d \in Documents : SizeOf[d] <= n
    BY SizesAreBounded
  <2>2. \A y \in T : y <= n
    BY <2>1
  <2> HIDE DEF T
  <2> QED
    BY <2>1, <2>2
<1>3. PICK m \in U : \A n \in U : m <= n
  BY <1>2, HasSmallest
<1>4. m \in Nat /\ \A y \in T : y <= m
  OBVIOUS
<1>5. m \in T
  <2>1. SUFFICES ASSUME m \notin T PROVE FALSE
    OBVIOUS
  <2> HIDE DEF T
  <2>2. m - 1 \in Nat /\ \A y \in T : y <= m - 1
    BY <1>1, <1>4, <2>1
  <2> USE DEF T
  <2>3. m - 1 \in U
    BY <2>2
  <2> QED
    BY <1>3, <1>4, <2>3
<1>6. LargestSize = CHOOSE x \in T : \A y \in T : x >= y
  BY DEF LargestSize, Max
<1>7. LargestSize \in T /\ \A y \in T : LargestSize >= y
  <2>1. \E x \in T : \A y \in T : x >= y
    BY <1>1, <1>4, <1>5
  <2> QED
    BY <1>6, <2>1
<1> QED
  BY <1>1, <1>7

LEMMA Times == \A l, n \in Nat : l * (n + 1) = l * n + l /\ l * n \in Nat
  OBVIOUS

LEMMA SizeOfBoth ==
  ASSUME NEW A \in SUBSET Documents, NEW D \in SUBSET Documents
  PROVE  Size(A \cup D) <= Size(A) + LargestSize * Cardinality(D)
<1> DEFINE F == {C \in SUBSET Documents : ~(Size(A \cup C) <= Size(A) + LargestSize * Cardinality(C))}
<1> SUFFICES ASSUME F # {} PROVE FALSE
  OBVIOUS
<1>0. F \in SUBSET SUBSET Documents
  OBVIOUS
<1>1. PICK C \in F : \A E \in F : E \subseteq C => E = C
  BY Zenon, <1>0, SomeIsMinimal
<1>2. Size(A) \in Nat /\ LargestSize \in Nat /\ IsFiniteSet(C) /\ Cardinality(C) \in Nat
  BY SizeIsNat, LargestIs, FS_Subset, FS_CardinalityType
<1>3. C # {}
  <2>1. SUFFICES ASSUME C = {} PROVE FALSE
    OBVIOUS
  <2>2. Size(A \cup C) = Size(A)
    <3>1. A \cup C = A
      BY <2>1
    <3> QED
      BY Zenon, <3>1
  <2>3. Cardinality(C) = 0
    BY <2>1, FS_EmptySet
  <2>4. LargestSize * Cardinality(C) = 0
    BY <1>2, <2>3
  <2>5. ~(Size(A \cup C) <= Size(A) + LargestSize * Cardinality(C))
    OBVIOUS
  <2> QED
    BY <1>2, <2>2, <2>4, <2>5
<1>4. PICK d \in C : TRUE
  BY <1>3
<1> DEFINE E == C \ {d}
<1>5. E \in SUBSET Documents /\ E \notin F
  BY <1>1, <1>4
<1>6. Cardinality(E) \in Nat /\ Cardinality(C) = Cardinality(E) + 1
  <2>1. IsFiniteSet(E) /\ Cardinality(E) = Cardinality(C) - 1
    BY Zenon, <1>2, <1>4, FS_RemoveElement
  <2>2. Cardinality(E) \in Nat
    BY Zenon, <2>1, FS_CardinalityType
  <2> HIDE DEF E
  <2> QED
    BY <1>2, <2>1, <2>2
<1>7. Size(A \cup E) <= Size(A) + LargestSize * Cardinality(E) /\ Size(A \cup E) \in Nat
  BY <1>5, SizeIsNat
<1>8. A \cup C = (A \cup E) \cup {d} /\ A \cup E \in SUBSET Documents
  BY <1>4
<1>9. Size(A \cup C) <= Size(A \cup E) + SizeOf[d] /\ SizeOf[d] <= LargestSize /\ SizeOf[d] \in Nat
  BY <1>8, SizeWith, LargestIs
<1>10. Size(A \cup C) \in Nat /\ ~(Size(A \cup C) <= Size(A) + LargestSize * Cardinality(C))
  BY <1>8, SizeIsNat
<1> HIDE DEF E
<1>11. LargestSize * Cardinality(C) = LargestSize * Cardinality(E) + LargestSize
       /\ LargestSize * Cardinality(E) \in Nat
  BY <1>2, <1>6, Times
<1> QED
  BY <1>2, <1>7, <1>9, <1>10, <1>11

-----------------------------------------------------------------------------
\* How far an author is over the quota

\* Completions that wait for a file of p.
Begun(p) == {c \in Uploads : uploads[c] # NoDocument /\ Uploader(uploads[c]) = p}

Files(X) == {uploads[c] : c \in X}

\* What p has stored when each completion of X has ended, the other ones not.
Kept(p, X) == {d \in Stored(p) : \A c \in X : ManuscriptOf[d] # ManuscriptOf[uploads[c]]} \cup Files(X)

Limit == Max({TrialStorage, PaidStorage}) + LargestSize * Max({Cardinality(Uploads) - 1, 0})

\* Whichever of the completions that have begun come to their end: the last that began found
\* room beside what was stored then, and the others are no more than all uploads but one.
StorageInvariant ==
    \A p \in Profiles : \A X \in SUBSET Begun(p) : \A K : K = Kept(p, X) => Size(K) <= Limit

LEMMA MaxOfTwo ==
  ASSUME NEW m \in Int, NEW n \in Int
  PROVE  Max({m, n}) \in {m, n} /\ Max({m, n}) >= m /\ Max({m, n}) >= n
<1>1. Max({m, n}) = CHOOSE x \in {m, n} : \A y \in {m, n} : x >= y
  BY DEF Max
<1>2. \E x \in {m, n} : \A y \in {m, n} : x >= y
  <2>1. CASE m >= n
    BY <2>1
  <2>2. CASE ~(m >= n)
    BY <2>2
  <2> QED
    BY <2>1, <2>2
<1> QED
  BY <1>1, <1>2

LEMMA TimesMonotone == \A l, m, n \in Nat : m <= n => l * m \in Nat /\ l * m <= l * n
<1> SUFFICES ASSUME NEW l \in Nat, NEW m \in Nat, NEW n \in Nat, m <= n
             PROVE  l * m \in Nat /\ l * m <= l * n
  OBVIOUS
<1>1. n - m \in Nat /\ n = m + (n - m)
  OBVIOUS
<1>2. PICK k \in Nat : n = m + k
  BY <1>1
<1>3. l * n = l * m + l * k
  BY <1>2
<1>4. l * k \in Nat /\ l * m \in Nat
  BY <1>2
<1> QED
  BY <1>3, <1>4

\* A file that fits, beside those of other completions.
LEMMA LimitIs ==
  ASSUME NEW plan, NEW n \in Nat, n + 1 <= Cardinality(Uploads)
  PROVE  Storage(plan) \in Nat /\ LargestSize * n \in Nat /\ Limit \in Nat
         /\ Storage(plan) + LargestSize * n <= Limit
<1> DEFINE m == Max({TrialStorage, PaidStorage})
           k == Max({Cardinality(Uploads) - 1, 0})
<1>1. m \in Nat /\ Storage(plan) \in Nat /\ Storage(plan) <= m
  <2>1. TrialStorage \in Nat /\ PaidStorage \in Nat /\ TrialStorage \in Int /\ PaidStorage \in Int
    OBVIOUS
  <2>2. m \in {TrialStorage, PaidStorage} /\ m >= TrialStorage /\ m >= PaidStorage
    BY Zenon, <2>1, MaxOfTwo
  <2>3. Storage(plan) = TrialStorage \/ Storage(plan) = PaidStorage
    BY DEF Storage
  <2> HIDE DEF m
  <2> QED
    BY <2>1, <2>2, <2>3
<1>2. Cardinality(Uploads) \in Nat
  BY FS_CardinalityType
<1>3. k \in Nat /\ n <= k
  <2>1. Cardinality(Uploads) - 1 \in Int /\ 0 \in Int
    BY <1>2
  <2>2. k \in {Cardinality(Uploads) - 1, 0} /\ k >= Cardinality(Uploads) - 1 /\ k >= 0
    BY Zenon, <2>1, MaxOfTwo
  <2> HIDE DEF k
  <2> QED
    BY <1>2, <2>2
<1>4. Limit = m + LargestSize * k
  BY DEF Limit
<1> HIDE DEF m, k
<1>5. /\ LargestSize * n \in Nat /\ LargestSize * k \in Nat
      /\ LargestSize * n <= LargestSize * k
  BY <1>3, LargestIs, TimesMonotone
<1> QED
  BY <1>1, <1>4, <1>5

\* The completions of X have no more files than they are.
LEMMA FilesAreFew ==
  ASSUME DocumentsTypeOK, NEW p, NEW X \in SUBSET Begun(p)
  PROVE  /\ Files(X) \in SUBSET Documents
         /\ Cardinality(X) \in Nat /\ Cardinality(Files(X)) \in Nat
         /\ Cardinality(Files(X)) <= Cardinality(X)
<1>1. X \in SUBSET Uploads /\ \A c \in X : uploads[c] \in Documents
  BY DEF Begun, DocumentsTypeOK
<1>2. Files(X) \in SUBSET Documents
  BY <1>1 DEF Files
<1>3. IsFiniteSet(X) /\ Cardinality(X) \in Nat /\ IsFiniteSet(Files(X)) /\ Cardinality(Files(X)) \in Nat
  BY <1>1, <1>2, FS_Subset, FS_CardinalityType
<1> DEFINE f == [c \in X |-> uploads[c]]
<1>4. f \in Surjection(X, Files(X))
  BY DEF Surjection, Files
<1>5. Cardinality(Files(X)) <= Cardinality(X)
  BY Zenon, <1>3, <1>4, FS_Surjection
<1> QED
  BY <1>2, <1>3, <1>5

LEMMA KeptAreDocuments ==
  ASSUME DocumentsTypeOK, NEW p, NEW X \in SUBSET Begun(p)
  PROVE  Kept(p, X) \in SUBSET Documents
  BY FilesAreFew DEF Kept, Stored

\* A step that leaves the uploaded documents as they are, and begins no completion.
LEMMA StorageSame ==
  ASSUME StorageInvariant,
         \A d \in Documents : documents'[d].storage = "uploaded" <=> documents[d].storage = "uploaded",
         \A c \in Uploads : uploads'[c] \in {uploads[c], NoDocument}
  PROVE  StorageInvariant'
<1> SUFFICES ASSUME NEW p \in Profiles, NEW X \in SUBSET Begun(p)',
                    NEW K, K = Kept(p, X)'
             PROVE  Size(K) <= Limit
  BY DEF StorageInvariant
<1>1. X \in SUBSET Begun(p) /\ \A c \in X : uploads'[c] = uploads[c]
  BY DEF Begun, Uploader
<1>2. Stored(p)' = Stored(p)
  BY DEF Stored, Uploader
<1>3. K = Kept(p, X)
  BY <1>1, <1>2 DEF Kept, Files
<1> QED
  BY <1>1, <1>3 DEF StorageInvariant

LEMMA LimitIsNat == Limit \in Nat
<1>1. Max({TrialStorage, PaidStorage}) \in Nat
  <2>1. TrialStorage \in Nat /\ PaidStorage \in Nat /\ TrialStorage \in Int /\ PaidStorage \in Int
    OBVIOUS
  <2>2. Max({TrialStorage, PaidStorage}) \in {TrialStorage, PaidStorage}
    BY Zenon, <2>1, MaxOfTwo
  <2> QED
    BY <2>1, <2>2
<1>2. Max({Cardinality(Uploads) - 1, 0}) \in Nat
  <2> DEFINE k == Max({Cardinality(Uploads) - 1, 0})
  <2>1. Cardinality(Uploads) - 1 \in Int /\ 0 \in Int /\ Cardinality(Uploads) \in Nat
    BY FS_CardinalityType
  <2>2. k \in {Cardinality(Uploads) - 1, 0} /\ k >= 0
    BY Zenon, <2>1, MaxOfTwo
  <2> HIDE DEF k
  <2>3. k \in Nat
    BY <2>1, <2>2
  <2> QED
    BY <2>3 DEF k
<1>3. LargestSize \in Nat
  BY LargestIs
<1>4. \A l, n \in Nat : l * n \in Nat
  OBVIOUS
<1> QED
  BY <1>1, <1>2, <1>3, <1>4 DEF Limit

\* What has been there is more than what is there now.
LEMMA StorageLess ==
  ASSUME DocumentsTypeOK, StorageInvariant, NEW p \in Profiles, NEW Y \in SUBSET Begun(p),
         NEW K \in SUBSET Kept(p, Y)
  PROVE  Size(K) <= Limit
<1>1. K \in SUBSET Documents /\ Kept(p, Y) \in SUBSET Documents
  BY KeptAreDocuments
<1>2. Size(K) <= Size(Kept(p, Y)) /\ Size(K) \in Nat /\ Size(Kept(p, Y)) \in Nat
  BY <1>1, SizeMonotone, SizeIsNat
<1>3. Size(Kept(p, Y)) <= Limit
  BY DEF StorageInvariant
<1>4. Limit \in Nat
  BY LimitIsNat
<1> QED
  BY <1>2, <1>3, <1>4

\* The completion that begins finds room for its file.
LEMMA BeginSteps ==
  ASSUME DocumentsTypeOK, StorageInvariant, NEW c \in Uploads, NEW d \in Documents, BeginComplete(c, d)
  PROVE  StorageInvariant'
<1>1. /\ uploads[c] = NoDocument /\ Fits(d) /\ documents' = documents
      /\ \A b \in Uploads : uploads'[b] = IF b = c THEN d ELSE uploads[b]
  BY DEF BeginComplete, MayUpload, DocumentsTypeOK
<1> SUFFICES ASSUME NEW p \in Profiles, NEW X \in SUBSET Begun(p)',
                    NEW K, K = Kept(p, X)'
             PROVE  Size(K) <= Limit
  BY DEF StorageInvariant
<1> DEFINE Y == X \ {c}
<1>2. Y \in SUBSET Begun(p) /\ \A b \in Y : uploads'[b] = uploads[b]
  BY <1>1 DEF Begun, Uploader
<1>3. Stored(p)' = Stored(p)
  BY <1>1 DEF Stored, Uploader
<1>4. CASE c \notin X
  <2>1. K \in SUBSET Kept(p, Y)
    BY <1>2, <1>3, <1>4 DEF Kept, Files
  <2>2. Size(K) <= Limit
    BY <1>2, <2>1, StorageLess
  <2> QED
    BY <2>2
<1>5. CASE c \in X
  <2> DEFINE E == StoredElsewhere(p, ManuscriptOf[d])
             plan == Current(p).plan
             n == Cardinality(Y)
  <2>1. uploads'[c] = d /\ Uploader(d) = p
    BY <1>1, <1>5 DEF Begun, Uploader
  <2>2. K \subseteq (E \cup {d}) \cup Files(Y)
    BY <1>1, <1>2, <1>3, <1>5, <2>1 DEF Kept, Files, StoredElsewhere
  <2>3. E \in SUBSET Documents
    BY DEF StoredElsewhere, Stored
  <2>4. Size(E) + SizeOf[d] <= Storage(plan)
    BY Zenon, <1>1, <2>1 DEF Fits
  <2>5. /\ Files(Y) \in SUBSET Documents /\ n \in Nat
        /\ Cardinality(Files(Y)) \in Nat /\ Cardinality(Files(Y)) <= n
    BY <1>2, FilesAreFew
  <2>6. n + 1 <= Cardinality(Uploads)
    <3>1. Y \in SUBSET Uploads /\ Y # Uploads
      BY DEF Begun
    <3>2. n <= Cardinality(Uploads) /\ n # Cardinality(Uploads)
      BY Zenon, <3>1, FS_Subset, MemoryDocumentsAssumption
    <3>3. Cardinality(Uploads) \in Nat
      BY FS_CardinalityType
    <3> HIDE DEF n
    <3> QED
      BY <2>5, <3>2, <3>3
  <2>7. /\ Storage(plan) \in Nat /\ LargestSize * n \in Nat /\ Limit \in Nat
        /\ Storage(plan) + LargestSize * n <= Limit
    BY Zenon, <2>5, <2>6, LimitIs
  <2> HIDE DEF E, n, plan, Y
  <2> DEFINE F == Files(Y)
             k == Cardinality(F)
  <2>8. F \in SUBSET Documents /\ k \in Nat /\ k <= n /\ n \in Nat
    BY <2>5
  <2> HIDE DEF F, k
  <2>9. K \subseteq (E \cup {d}) \cup F /\ K \in SUBSET Documents
    BY <2>2, <2>3, <2>8 DEF F
  <2>10. Size(K) <= Size((E \cup {d}) \cup F)
    BY <2>3, <2>8, <2>9, SizeMonotone
  <2>11. Size((E \cup {d}) \cup F) <= Size(E \cup {d}) + LargestSize * k
    BY <2>3, <2>8, SizeOfBoth DEF k
  <2>12. Size(E \cup {d}) <= Size(E) + SizeOf[d]
    BY <2>3, SizeWith
  <2>13. LargestSize * k \in Nat /\ LargestSize * k <= LargestSize * n
    BY <2>8, LargestIs, TimesMonotone
  <2>14. /\ Size(K) \in Nat /\ Size((E \cup {d}) \cup F) \in Nat
         /\ Size(E \cup {d}) \in Nat /\ Size(E) \in Nat /\ SizeOf[d] \in Nat
    BY <2>3, <2>8, <2>9, SizeIsNat
  <2>15. Size(K) <= Limit
    BY <2>4, <2>7, <2>10, <2>11, <2>12, <2>13, <2>14
  <2> QED
    BY <2>15
<1> QED
  BY <1>4, <1>5

\* What the completion puts there was counted when it began.
LEMMA FinishSteps ==
  ASSUME DocumentsTypeOK, StorageInvariant, NEW c \in Uploads, uploads[c] # NoDocument, FinishComplete(c)
  PROVE  StorageInvariant'
<1> DEFINE d == uploads[c]
<1>1. /\ d \in Documents /\ documents' = UploadCompleted(d)
      /\ uploads' = [uploads EXCEPT ![c] = NoDocument]
  BY DEF FinishComplete, DocumentsTypeOK
<1>2. \A b \in Uploads : uploads'[b] = IF b = c THEN NoDocument ELSE uploads[b]
  BY <1>1 DEF DocumentsTypeOK
<1>3. \A e \in Documents : documents'[e].storage = "uploaded" =>
        e = d \/ (documents[e].storage = "uploaded" /\ ManuscriptOf[e] # ManuscriptOf[d])
  <2> SUFFICES ASSUME NEW e \in Documents, documents'[e].storage = "uploaded", e # d
               PROVE  documents[e].storage = "uploaded" /\ ManuscriptOf[e] # ManuscriptOf[d]
    OBVIOUS
  <2>1. documents'[e] = IF e \in Replaced(d) THEN [documents[e] EXCEPT !.storage = "pending_delete"]
                        ELSE documents[e]
    BY <1>1 DEF UploadCompleted
  <2>2. documents[e] \in Document
    BY DEF DocumentsTypeOK
  <2>3. e \notin Replaced(d) /\ documents[e].storage = "uploaded"
    BY <2>1, <2>2 DEF Document
  <2> QED
    BY <2>3 DEF Replaced
<1>4. \A e \in Documents : documents'[e].storage = "uploaded" => e = d \/ documents[e].storage = "uploaded"
  BY <1>3
<1> SUFFICES ASSUME NEW p \in Profiles, NEW X \in SUBSET Begun(p)',
                    NEW K, K = Kept(p, X)'
             PROVE  Size(K) <= Limit
  BY DEF StorageInvariant
<1>5. c \notin X /\ X \in SUBSET Begun(p) /\ \A b \in X : uploads'[b] = uploads[b]
  BY <1>2 DEF Begun, Uploader
<1> HIDE DEF d
<1>6. \E Y \in SUBSET Begun(p) : K \in SUBSET Kept(p, Y)
  <2>1. CASE Uploader(d) = p
    <3>1. X \cup {c} \in SUBSET Begun(p)
      BY <1>5, <2>1 DEF Begun, d
    <3>2. K \in SUBSET Kept(p, X \cup {c})
      BY <1>3, <1>5 DEF Kept, Files, Stored, Uploader, d
    <3> QED
      BY <3>1, <3>2
  <2>2. CASE Uploader(d) # p
    <3>1. K \in SUBSET Kept(p, X)
      BY <1>4, <1>5, <2>2 DEF Kept, Files, Stored, Uploader
    <3> QED
      BY <1>5, <3>1
  <2> QED
    BY <2>1, <2>2
<1>7. Size(K) <= Limit
  BY <1>6, StorageLess
<1> QED
  BY <1>7

LEMMA StorageNext ==
  ASSUME DocumentsTypeOK, StorageInvariant, [ApiNext]_apiVars
  PROVE  StorageInvariant'
<1> DEFINE Same == /\ \A d \in Documents : documents'[d].storage = "uploaded" <=> documents[d].storage = "uploaded"
                   /\ \A c \in Uploads : uploads'[c] \in {uploads[c], NoDocument}
<1>1. ASSUME Same PROVE StorageInvariant'
  BY <1>1, StorageSame
<1>2. CASE UNCHANGED <<documents, uploads>>
  BY <1>1, <1>2
<1>3. CASE DocumentStep
  <2>1. ASSUME NEW d \in Documents, CreateUpload(d) \/ BeginPut(d) \/ WriteFile(d) PROVE Same
    <3>1. CASE CreateUpload(d)
      <4>1. /\ \A e \in Documents : documents'[e] = IF e = d THEN NewDocument("pending_upload") ELSE documents[e]
            /\ documents[d].storage = "none" /\ uploads' = uploads
        BY <3>1 DEF CreateUpload, DocumentsTypeOK
      <4>2. NewDocument("pending_upload").storage = "pending_upload"
        BY DEF NewDocument
      <4> QED
        BY <4>1, <4>2
    <3>2. CASE BeginPut(d) \/ WriteFile(d)
      BY <3>2 DEF BeginPut, WriteFile
    <3> QED
      BY <2>1, <3>1, <3>2
  <2>2. ASSUME NEW d \in Documents, NEW c \in Uploads, BeginComplete(c, d) PROVE StorageInvariant'
    BY <2>2, BeginSteps
  <2>3. /\ \A d \in Documents : SucceedJob(d) => Same
        /\ \A i \in DOMAIN jobs : StartJob(i) => Same
    <3>1. /\ documents \in [Documents -> Document]
          /\ \A e \in Documents : documents[e] \in Document
          /\ \A i \in DOMAIN jobs : jobs[i] \in Job
      BY DEF DocumentsTypeOK
    <3>2. ASSUME NEW d \in Documents, SucceedJob(d) PROVE Same
      BY <3>1, <3>2 DEF SucceedJob, Document
    <3>3. ASSUME NEW i \in DOMAIN jobs, StartJob(i) PROVE Same
      <4>1. PICK d \in Documents : d = jobs[i].document
        BY <3>1 DEF Job
      <4>2. documents' = [documents EXCEPT ![d].processing = "processing"] /\ uploads' = uploads
        BY <3>3, <4>1 DEF StartJob
      <4> QED
        BY <3>1, <4>2 DEF Document
    <3> QED
      BY <3>2, <3>3
  <2>4. ASSUME NEW d \in Documents, NEW failure \in DOMAIN FailureQueue, FailJob(d, failure) PROVE Same
    BY <2>4 DEF FailJob, DocumentsTypeOK, Document
  <2>5. ASSUME NEW c \in Uploads, FinishComplete(c) PROVE StorageInvariant'
    <3>1. uploads[c] # NoDocument
      BY <2>5 DEF FinishComplete, DocumentsTypeOK
    <3> QED
      BY <2>5, <3>1, FinishSteps
  <2>6. ASSUME NEW c \in Uploads, RefuseComplete(c) PROVE Same
    BY <2>6 DEF RefuseComplete, DocumentsTypeOK
  <2>7. ASSUME NEW i \in DOMAIN reviews, NEW decision \in Decisions, Decide(i, decision) PROVE Same
    BY <2>7 DEF Decide, DocumentsTypeOK, Document
  <2> HIDE DEF Same
  <2> QED
    BY <1>1, <1>3, <2>1, <2>2, <2>3, <2>4, <2>5, <2>6, <2>7 DEF DocumentStep
<1> QED
  BY <1>2, <1>3 DEF ApiNext, apiVars, documentVars

LEMMA StorageInitially == DocumentsInit => StorageInvariant
<1> SUFFICES ASSUME DocumentsInit, NEW p \in Profiles, NEW X \in SUBSET Begun(p)
             PROVE  Size(Kept(p, X)) <= Limit
  BY DEF StorageInvariant
<1>1. X = {} /\ Stored(p) = {}
  BY DEF DocumentsInit, Begun, Stored, NewDocument
<1>2. Kept(p, X) = {}
  BY <1>1 DEF Kept, Files
<1>3. Size({}) = 0
  BY SizeFirst
<1>4. Size(Kept(p, X)) = 0
  BY Zenon, <1>2, <1>3
<1> QED
  BY <1>4, LimitIsNat

\* What an author has stored passes the quota of the better plan by no more than the files of
\* all completions under way but one, whatever the files, plans and overlaps.
THEOREM StorageCorrect == ApiSpec => []StorageOverrunIsBounded
<1>1. ApiInit => StorageInvariant
  BY StorageInitially DEF ApiInit
<1>2. ASSUME DocumentsInvariant, StorageInvariant PROVE StorageOverrunIsBounded
  <2> SUFFICES ASSUME NEW p \in Profiles PROVE Size(Stored(p)) <= Limit
    BY DEF StorageOverrunIsBounded, Limit
  <2>1. Kept(p, {}) = Stored(p) /\ {} \in SUBSET Begun(p)
    BY DEF Kept, Files
  <2>2. Size(Kept(p, {})) <= Limit
    BY <1>2, <2>1 DEF StorageInvariant
  <2> QED
    BY Zenon, <2>1, <2>2
<1>3. DocumentsInvariant => DocumentsTypeOK
  BY DEF DocumentsInvariant
<1> QED
  BY <1>1, <1>2, <1>3, DocumentsAlways, StorageNext, PTL DEF ApiSpec
===============================================================================
