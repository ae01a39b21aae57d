-------------------------- MODULE Marketplace_proofs --------------------------
(***************************************************************************)
(* Theorems about Marketplace, for every set of profiles, calls, sessions   *)
(* and requests, every quota and every length of time.                      *)
(***************************************************************************)
EXTENDS Marketplace, FiniteSetTheorems, TLAPS

USE SubscriptionsAssumption, BillingAssumption, IntroAssumption

LEMMA TypeInit == Init => TypeOK
<1> SUFFICES ASSUME Init PROVE TypeOK
  OBVIOUS
<1>1. SubscriptionsTypeOK
  BY DEF Init, SubscriptionsInit, SubscriptionsTypeOK, NoRow, Row, Plans, LiveStatus, Origins
<1>2. BillingTypeOK
  BY DEF Init, BillingInit, BillingTypeOK, Session, Plans
<1>3. IntroTypeOK
  BY DEF Init, IntroInit, SubscriptionsInit, IntroTypeOK, NoRequest, Request, IdleCreate, Create,
         CreateStep, Origins, Plans, Holds
<1> QED
  BY <1>1, <1>2, <1>3 DEF TypeOK

-----------------------------------------------------------------------------
\* Subscriptions.

LEMMA BegunNowType ==
  ASSUME SubscriptionsTypeOK, NEW status \in LiveStatus, NEW plan \in Plans
  PROVE  BegunNow(status, plan) \in Row
<1>1. PlanLength[plan] \in Nat
  BY DEF PlanLength, Plans
<1> QED
  BY <1>1 DEF BegunNow, Row, SubscriptionsTypeOK

LEMMA SetRowType ==
  ASSUME SubscriptionsTypeOK, NEW p \in Profiles, NEW o \in Origins, NEW row \in Row,
         SetRow(p, o, row)
  PROVE  rows' \in [Profiles -> [Origins -> Row]]
  BY DEF SubscriptionsTypeOK, SetRow

LEMMA RepairedType ==
  ASSUME SubscriptionsTypeOK, NEW p \in Profiles, NEW o \in Origins, NEW status \in RepairedStatus
  PROVE  [rows[p][o] EXCEPT !.status = status] \in Row
<1>1. rows[p][o] \in Row
  BY DEF SubscriptionsTypeOK
<1> QED
  BY <1>1 DEF Row, RepairedStatus, LiveStatus

\* No step of the subscriptions touches a lock or a call.
LEMMA IntroFrame ==
  ASSUME IntroTypeOK, UNCHANGED introVars, UNCHANGED lock
  PROVE  IntroTypeOK'
  BY DEF IntroTypeOK, introVars, Holds

LEMMA BillingFrame ==
  ASSUME BillingTypeOK, UNCHANGED billingVars
  PROVE  BillingTypeOK'
  BY DEF BillingTypeOK, billingVars

LEMMA SubscriptionsFrame ==
  ASSUME SubscriptionsTypeOK, UNCHANGED subscriptionVars
  PROVE  SubscriptionsTypeOK'
  BY DEF SubscriptionsTypeOK, subscriptionVars

LEMMA SubscriptionsStepType ==
  ASSUME TypeOK, SubscriptionsNext
  PROVE  SubscriptionsTypeOK' /\ UNCHANGED lock
<1>0. SubscriptionsTypeOK
  BY DEF TypeOK
<1>1. CASE MonthPasses
  BY <1>0, <1>1 DEF MonthPasses, SubscriptionsTypeOK
<1>2. ASSUME NEW p \in Subscribers, StartTrial(p)
      PROVE  SubscriptionsTypeOK' /\ UNCHANGED lock
  <2>1. BegunNow("trialing", "trial") \in Row
    BY <1>0, BegunNowType DEF LiveStatus, Plans
  <2>2. rows' \in [Profiles -> [Origins -> Row]]
    BY <1>0, <1>2, <2>1, SetRowType DEF StartTrial, Origins
  <2> QED
    BY <1>0, <1>2, <2>2 DEF StartTrial, SubscriptionsTypeOK
<1>3. ASSUME NEW p \in Subscribers, NEW o \in Origins, NEW status \in RepairedStatus,
             RepairStatus(p, o, status)
      PROVE  SubscriptionsTypeOK' /\ UNCHANGED lock
  <2>1. rows' \in [Profiles -> [Origins -> Row]]
    BY <1>0, <1>3, RepairedType, SetRowType DEF RepairStatus
  <2> QED
    BY <1>0, <1>3, <2>1 DEF RepairStatus, SubscriptionsTypeOK
<1> QED
  BY <1>1, <1>2, <1>3 DEF SubscriptionsNext

-----------------------------------------------------------------------------
\* Payments.

LEMMA BillingStepType ==
  ASSUME TypeOK, BillingNext
  PROVE  SubscriptionsTypeOK' /\ BillingTypeOK' /\ UNCHANGED lock
<1>0. SubscriptionsTypeOK /\ BillingTypeOK
  BY DEF TypeOK
<1>1. ASSUME NEW s \in Sessions, NEW p \in Subscribers, NEW plan \in PaidPlans,
             RequestCheckout(s, p, plan)
      PROVE  SubscriptionsTypeOK' /\ BillingTypeOK' /\ UNCHANGED lock
  <2>1. BillingTypeOK'
    BY <1>0, <1>1 DEF RequestCheckout, BillingTypeOK, Session, PaidPlans, Plans
  <2> QED
    BY <1>0, <1>1, <2>1, SubscriptionsFrame DEF RequestCheckout, subscriptionVars
<1>2. ASSUME NEW s \in Sessions, NEW outcome \in Callbacks, Pay(s, outcome)
      PROVE  SubscriptionsTypeOK' /\ BillingTypeOK' /\ UNCHANGED lock
  <2>1. BillingTypeOK'
    BY <1>0, <1>2 DEF Pay, BillingTypeOK
  <2> QED
    BY <1>0, <1>2, <2>1, SubscriptionsFrame DEF Pay, subscriptionVars
<1>3. ASSUME NEW s \in Sessions, PersistCheckout(s)
      PROVE  SubscriptionsTypeOK' /\ BillingTypeOK' /\ UNCHANGED lock
  <2>1. BillingTypeOK'
    BY <1>0, <1>3 DEF PersistCheckout, BillingTypeOK, Session
  <2> QED
    BY <1>0, <1>3, <2>1, SubscriptionsFrame DEF PersistCheckout, subscriptionVars
<1>4. ASSUME NEW s \in Sessions, StoreCallback(s)
      PROVE  SubscriptionsTypeOK' /\ BillingTypeOK' /\ UNCHANGED lock
  <2>1. BillingTypeOK'
    BY <1>0, <1>4 DEF StoreCallback, SettleEvent, BillingTypeOK
  <2> QED
    BY <1>0, <1>4, <2>1, SubscriptionsFrame DEF StoreCallback, subscriptionVars
<1>5. ASSUME NEW s \in Sessions, ApplyFailed(s)
      PROVE  SubscriptionsTypeOK' /\ BillingTypeOK' /\ UNCHANGED lock
  <2>1. BillingTypeOK'
    BY <1>0, <1>5 DEF ApplyFailed, SettleEvent, CloseSession, BillingTypeOK, Session
  <2> QED
    BY <1>0, <1>5, <2>1, SubscriptionsFrame DEF ApplyFailed, subscriptionVars
<1>6. ASSUME NEW s \in Sessions, ApplySuccess(s)
      PROVE  SubscriptionsTypeOK' /\ BillingTypeOK' /\ UNCHANGED lock
  <2>1. /\ sessions[s].profile \in Profiles
        /\ sessions[s].plan \in Plans
    BY <1>0, <1>6 DEF ApplySuccess, BillingTypeOK, PaidPlans, Plans
  <2>2. PICK o \in Renewed(sessions[s].profile) :
          SetRow(sessions[s].profile, o, BegunNow("active", sessions[s].plan))
    BY <1>6 DEF ApplySuccess
  <2>3. o \in Origins
    BY <2>2 DEF Renewed, Latest, Origins
  <2>4. BegunNow("active", sessions[s].plan) \in Row
    BY <1>0, <2>1, BegunNowType DEF LiveStatus
  <2>5. SubscriptionsTypeOK'
    <3>1. rows' \in [Profiles -> [Origins -> Row]]
      BY <1>0, <2>1, <2>2, <2>3, <2>4, SetRowType
    <3> QED
      BY <1>0, <1>6, <3>1 DEF ApplySuccess, SubscriptionsTypeOK
  <2>6. BillingTypeOK'
    <3>1. sessions' \in [Sessions -> Session]
      BY <1>0, <1>6 DEF ApplySuccess, CloseSession, BillingTypeOK, Session
    <3>2. \A t \in Sessions :
            /\ sessions'[t].profile = sessions[t].profile
            /\ sessions'[t].plan = sessions[t].plan
            /\ sessions'[t].status = IF t = s THEN "paid" ELSE sessions[t].status
      BY <1>0, <1>6 DEF ApplySuccess, CloseSession, BillingTypeOK, Session
    <3>3. granted' \in [Sessions -> Nat]
      BY <1>0, <1>6 DEF ApplySuccess, BillingTypeOK
    <3>4. sessions[s].status # "none"
      BY <1>0, <1>6 DEF ApplySuccess, BillingTypeOK
    <3>5. events' \in [Sessions -> {"none", "stored", "processed", "failed"}]
      BY <1>0, <1>6 DEF ApplySuccess, SettleEvent, BillingTypeOK
    <3> QED
      BY <1>0, <1>6, <3>1, <3>2, <3>3, <3>4, <3>5 DEF ApplySuccess, BillingTypeOK
  <2> QED
    BY <1>6, <2>5, <2>6 DEF ApplySuccess
<1>7. ASSUME NEW s \in Sessions, RepairEvent(s)
      PROVE  SubscriptionsTypeOK' /\ BillingTypeOK' /\ UNCHANGED lock
  <2>1. BillingTypeOK'
    BY <1>0, <1>7 DEF RepairEvent, SettleEvent, BillingTypeOK
  <2> QED
    BY <1>0, <1>7, <2>1, SubscriptionsFrame DEF RepairEvent, subscriptionVars
<1> QED
  BY <1>1, <1>2, <1>3, <1>4, <1>5, <1>6, <1>7 DEF BillingNext

-----------------------------------------------------------------------------
\* Intro requests.

LEMMA ParticipantsAreProfiles ==
  ASSUME NEW pair \in Pairs
  PROVE  Participants(pair) \subseteq Profiles
  BY DEF Pairs, Participants

\* Advancing a call within its checks, or within its count, holds what it held.
LEMMA AdvanceType ==
  ASSUME TypeOK, NEW c \in Creates, NEW pc \in CreateStep, Advance(c, pc), UNCHANGED lock,
         creates[c].pc # "idle", pc # "idle",
         pc \in {"count", "insert"} <=> creates[c].pc \in {"count", "insert"},
         UNCHANGED <<requests, ledger, sampleReady>>
  PROVE  IntroTypeOK'
<1>0. IntroTypeOK
  BY DEF TypeOK
<1>1. creates' \in [Creates -> Create]
  BY <1>0 DEF Advance, IntroTypeOK, Create
<1>2. \A d \in Creates : /\ creates'[d].pair = creates[d].pair
                         /\ creates'[d].requester = creates[d].requester
                         /\ creates'[d].origin = creates[d].origin
                         /\ creates'[d].pc = IF d = c THEN pc ELSE creates[d].pc
  BY <1>0 DEF Advance, IntroTypeOK, Create
<1>3. \A d \in Creates, p \in Profiles, o \in Origins : Holds(d, p, o)' <=> Holds(d, p, o)
  BY <1>2 DEF Holds
<1> QED
  BY <1>0, <1>1, <1>2, <1>3 DEF IntroTypeOK

\* A refused call holds nothing.
LEMMA RefuseType ==
  ASSUME TypeOK, NEW c \in Creates, Refuse(c)
  PROVE  /\ lock' \in [Profiles -> [Origins -> Creates \cup {NoCreate}]]
         /\ creates' \in [Creates -> Create]
         /\ \A d \in Creates : creates'[d].pc # "idle" =>
              /\ creates'[d].pair \in Pairs
              /\ creates'[d].requester \in Participants(creates'[d].pair)
         /\ \A p \in Profiles, o \in Origins, d \in Creates :
              lock'[p][o] = d <=> Holds(d, p, o)'
<1>0. SubscriptionsTypeOK /\ IntroTypeOK
  BY DEF TypeOK
<1>1. IdleCreate \in Create
  BY DEF IdleCreate, Create, CreateStep, Origins, Plans
<1>2. lock' \in [Profiles -> [Origins -> Creates \cup {NoCreate}]]
  BY <1>0 DEF Refuse, SubscriptionsTypeOK
<1>3. creates' \in [Creates -> Create]
  BY <1>0, <1>1 DEF Refuse, IntroTypeOK
<1>4. \A d \in Creates : creates'[d] = IF d = c THEN IdleCreate ELSE creates[d]
  BY <1>0 DEF Refuse, IntroTypeOK
<1>5. \A d \in Creates : creates'[d].pc # "idle" =>
              /\ creates'[d].pair \in Pairs
              /\ creates'[d].requester \in Participants(creates'[d].pair)
  BY <1>0, <1>4 DEF IntroTypeOK, IdleCreate
<1>6. ASSUME NEW p \in Profiles, NEW o \in Origins, NEW d \in Creates
      PROVE  lock'[p][o] = d <=> Holds(d, p, o)'
  <2>1. lock'[p][o] = IF lock[p][o] = c THEN NoCreate ELSE lock[p][o]
    BY <1>0 DEF Refuse
  <2>2. lock[p][o] = d <=> Holds(d, p, o)
    BY <1>0 DEF IntroTypeOK
  <2>3. CASE d = c
    BY <1>4, <2>1, <2>3 DEF Holds, IdleCreate
  <2>4. CASE d # c
    BY <1>4, <2>1, <2>2, <2>4 DEF Holds
  <2> QED
    BY <2>3, <2>4
<1> QED
  BY <1>2, <1>3, <1>5, <1>6

LEMMA RequestsFrame ==
  ASSUME TypeOK, NEW c \in Creates, Refuse(c), UNCHANGED <<now, rows, trials, periods>>,
         UNCHANGED <<requests, ledger, sampleReady>>
  PROVE  SubscriptionsTypeOK' /\ IntroTypeOK'
<1>1. SubscriptionsTypeOK'
  BY RefuseType DEF TypeOK, SubscriptionsTypeOK
<1>2. IntroTypeOK'
  BY RefuseType DEF TypeOK, IntroTypeOK
<1> QED
  BY <1>1, <1>2

LEMMA AnswerType ==
  ASSUME TypeOK, NEW r \in Requests, NEW status \in {"accepted", "rejected", "cancelled"},
         Answer(r, status)
  PROVE  SubscriptionsTypeOK' /\ IntroTypeOK'
<1>1. requests' \in [Requests -> Request]
  BY DEF TypeOK, IntroTypeOK, Answer, Request
<1>2. IntroTypeOK'
  BY <1>1 DEF TypeOK, IntroTypeOK, Answer, subscriptionVars, Holds
<1> QED
  BY <1>2, SubscriptionsFrame DEF TypeOK, Answer

LEMMA IntroStepType ==
  ASSUME TypeOK, IntroNext
  PROVE  SubscriptionsTypeOK' /\ IntroTypeOK'
<1>0. SubscriptionsTypeOK /\ IntroTypeOK
  BY DEF TypeOK
<1>1. ASSUME NEW c \in Creates, NEW pair \in Pairs, NEW p \in Profiles, BeginCreate(c, pair, p)
      PROVE  SubscriptionsTypeOK' /\ IntroTypeOK'
  <2> DEFINE begun == [pc |-> "accepted", pair |-> pair, requester |-> p,
                       origin |-> "callback", period |-> 0, plan |-> "trial"]
  <2>1. begun \in Create
    BY DEF Create, CreateStep, Origins, Plans
  <2>2. creates' = [creates EXCEPT ![c] = begun]
    BY <1>1 DEF BeginCreate
  <2>3. begun.pc = "accepted" /\ begun.pair = pair /\ begun.requester = p
    OBVIOUS
  <2> HIDE DEF begun
  <2>4. creates' \in [Creates -> Create]
    BY <1>0, <2>1, <2>2 DEF IntroTypeOK
  <2>5. \A d \in Creates : creates'[d] = IF d = c THEN begun ELSE creates[d]
    BY <1>0, <2>2 DEF IntroTypeOK
  <2>6. \A d \in Creates, q \in Profiles, o \in Origins : Holds(d, q, o)' <=> Holds(d, q, o)
    BY <1>1, <2>3, <2>5 DEF BeginCreate, Holds
  <2>7. IntroTypeOK'
    BY <1>0, <1>1, <2>3, <2>4, <2>5, <2>6 DEF BeginCreate, IntroTypeOK, subscriptionVars
  <2> QED
    BY <1>0, <1>1, <2>7, SubscriptionsFrame DEF BeginCreate
<1>2. ASSUME NEW c \in Creates, CheckPair(c)
      PROVE  SubscriptionsTypeOK' /\ IntroTypeOK'
  <2>1. CASE Refuse(c)
    BY <1>2, <2>1, RequestsFrame DEF CheckPair
  <2>2. CASE Advance(c, AfterCheck[creates[c].pc]) /\ UNCHANGED lock
    <3>1. /\ creates[c].pc \in {"accepted", "pending", "cooldown"}
          /\ AfterCheck[creates[c].pc] \in {"pending", "cooldown", "lock"}
      BY <1>2 DEF CheckPair, AfterCheck
    <3>2. IntroTypeOK'
      BY <1>2, <2>2, <3>1, AdvanceType DEF CheckPair, CreateStep
    <3> QED
      BY <1>0, <1>2, <2>2, <3>2 DEF CheckPair, SubscriptionsTypeOK
  <2> QED
    BY <1>2, <2>1, <2>2 DEF CheckPair
<1>3. ASSUME NEW c \in Creates, LockSubscription(c)
      PROVE  SubscriptionsTypeOK' /\ IntroTypeOK'
  <2> DEFINE p == creates[c].requester
  <2>1. CASE Refuse(c)
    BY <1>3, <2>1, RequestsFrame DEF LockSubscription
  <2>2. ASSUME NEW o \in Origins, RowFree(p, o), lock' = [lock EXCEPT ![p][o] = c],
               creates' = [creates EXCEPT ![c] =
                             [pc |-> "count", pair |-> creates[c].pair, requester |-> p,
                              origin |-> o, period |-> rows[p][o].period, plan |-> rows[p][o].plan]]
        PROVE  SubscriptionsTypeOK' /\ IntroTypeOK'
    <3> DEFINE holder == [pc |-> "count", pair |-> creates[c].pair, requester |-> p,
                          origin |-> o, period |-> rows[p][o].period, plan |-> rows[p][o].plan]
    <3>1. /\ creates[c].pc = "lock"
          /\ UNCHANGED <<now, rows, trials, periods, requests, ledger, sampleReady>>
      BY <1>3 DEF LockSubscription
    <3>2. creates[c].pair \in Pairs /\ p \in Participants(creates[c].pair) /\ p \in Profiles
      BY <1>0, <3>1, ParticipantsAreProfiles DEF IntroTypeOK
    <3>3. rows[p][o] \in Row
      BY <1>0, <3>2 DEF SubscriptionsTypeOK
    <3>4. holder \in Create
      BY <3>2, <3>3 DEF Create, CreateStep, Row
    <3>5. /\ holder.pc = "count" /\ holder.pair = creates[c].pair
          /\ holder.requester = p /\ holder.origin = o
      OBVIOUS
    <3> HIDE DEF holder, p
    <3>6. creates' \in [Creates -> Create]
      BY <1>0, <2>2, <3>4 DEF IntroTypeOK, holder
    <3>7. \A d \in Creates : creates'[d] = IF d = c THEN holder ELSE creates[d]
      BY <1>0, <2>2 DEF IntroTypeOK, holder
    <3>8. lock' \in [Profiles -> [Origins -> Creates \cup {NoCreate}]]
      BY <1>0, <2>2, <3>2 DEF SubscriptionsTypeOK
    <3>9. ASSUME NEW q \in Profiles, NEW v \in Origins, NEW d \in Creates
          PROVE  lock'[q][v] = d <=> Holds(d, q, v)'
      <4>1. lock'[q][v] = IF q = p /\ v = o THEN c ELSE lock[q][v]
        BY <1>0, <2>2, <3>2 DEF SubscriptionsTypeOK
      <4>2. lock[q][v] = d <=> Holds(d, q, v)
        BY <1>0 DEF IntroTypeOK
      <4>3. CASE d = c
        BY <3>1, <3>5, <3>7, <4>1, <4>2, <4>3 DEF Holds
      <4>4. CASE d # c
        <5>1. Holds(d, q, v)' <=> Holds(d, q, v)
          BY <3>7, <4>4 DEF Holds
        <5>2. lock[p][o] = NoCreate
          BY <2>2 DEF RowFree
        <5> QED
          BY <4>1, <4>2, <4>4, <5>1, <5>2
      <4> QED
        BY <4>3, <4>4
    <3>10. IntroTypeOK'
      BY <1>0, <3>1, <3>2, <3>5, <3>6, <3>7, <3>9 DEF IntroTypeOK
    <3> QED
      BY <1>0, <3>1, <3>8, <3>10 DEF SubscriptionsTypeOK
  <2> QED
    BY <1>3, <2>1, <2>2 DEF LockSubscription
<1>4. ASSUME NEW c \in Creates, CountUsage(c)
      PROVE  SubscriptionsTypeOK' /\ IntroTypeOK'
  <2>1. CASE Refuse(c)
    BY <1>4, <2>1, RequestsFrame DEF CountUsage
  <2>2. CASE Advance(c, "insert") /\ UNCHANGED lock
    <3>1. IntroTypeOK'
      BY <1>4, <2>2, AdvanceType DEF CountUsage, CreateStep
    <3> QED
      BY <1>0, <1>4, <2>2, <3>1 DEF CountUsage, SubscriptionsTypeOK
  <2> QED
    BY <1>4, <2>1, <2>2 DEF CountUsage
<1>5. ASSUME NEW c \in Creates, AbortCreate(c)
      PROVE  SubscriptionsTypeOK' /\ IntroTypeOK'
  BY <1>5, RequestsFrame DEF AbortCreate
<1>6. ASSUME NEW c \in Creates, NEW r \in Requests, InsertRequest(c, r)
      PROVE  SubscriptionsTypeOK' /\ IntroTypeOK'
  <2>1. creates[c] \in Create /\ creates[c].pc = "insert"
    BY <1>0, <1>6 DEF InsertRequest, IntroTypeOK
  <2>2. /\ creates[c].pair \in Pairs /\ creates[c].requester \in Profiles
        /\ creates[c].period \in Nat /\ creates[c].plan \in Plans
    BY <1>0, <2>1, ParticipantsAreProfiles DEF IntroTypeOK, Create
  <2>3. requests' \in [Requests -> Request]
    BY <1>0, <1>6, <2>2 DEF InsertRequest, IntroTypeOK, Request
  <2>4. ledger' \subseteq Usage
    BY <1>0, <1>6, <2>2 DEF InsertRequest, IntroTypeOK, Usage
  <2>5. IntroTypeOK'
    BY <1>0, <1>6, <2>3, <2>4, RefuseType DEF InsertRequest, IntroTypeOK
  <2> QED
    BY <1>0, <1>6, <2>5, RefuseType DEF InsertRequest, SubscriptionsTypeOK
<1>7. ASSUME NEW r \in Requests, Accept(r) \/ Close(r)
      PROVE  SubscriptionsTypeOK' /\ IntroTypeOK'
  BY <1>7, AnswerType DEF Accept, Close
<1>8. ASSUME NEW r \in Requests, CooldownEnds(r)
      PROVE  SubscriptionsTypeOK' /\ IntroTypeOK'
  <2> DEFINE cooled == [requests[r] EXCEPT !.cooling = FALSE]
  <2>0. cooled \in Request
    <3>1. requests[r] \in Request
      BY <1>0 DEF IntroTypeOK
    <3> QED
      BY <3>1 DEF Request
  <2>1. requests' \in [Requests -> Request]
    <3>1. requests' = [requests EXCEPT ![r] = cooled]
      BY <1>8 DEF CooldownEnds
    <3> HIDE DEF cooled
    <3> QED
      BY <1>0, <2>0, <3>1 DEF IntroTypeOK
  <2>2. IntroTypeOK'
    BY <1>0, <1>8, <2>1 DEF CooldownEnds, IntroTypeOK, subscriptionVars, Holds
  <2> QED
    BY <1>0, <1>8, <2>2, SubscriptionsFrame DEF CooldownEnds
<1>9. ASSUME NEW a \in Authors, SampleChanges(a)
      PROVE  SubscriptionsTypeOK' /\ IntroTypeOK'
  <2>1. sampleReady' \in [Authors -> BOOLEAN]
    BY <1>0, <1>9 DEF SampleChanges, IntroTypeOK
  <2>2. IntroTypeOK'
    BY <1>0, <1>9, <2>1 DEF SampleChanges, IntroTypeOK, subscriptionVars, Holds
  <2> QED
    BY <1>0, <1>9, <2>2, SubscriptionsFrame DEF SampleChanges
<1> QED
  BY <1>1, <1>2, <1>3, <1>4, <1>5, <1>6, <1>7, <1>8, <1>9 DEF IntroNext

-----------------------------------------------------------------------------

LEMMA TypeStep == TypeOK /\ [Next]_vars => TypeOK'
<1> SUFFICES ASSUME TypeOK, [Next]_vars PROVE TypeOK'
  OBVIOUS
<1>1. CASE SubscriptionsNext /\ UNCHANGED billingVars /\ UNCHANGED introVars
  BY <1>1, SubscriptionsStepType, BillingFrame, IntroFrame DEF TypeOK
<1>2. CASE BillingNext /\ UNCHANGED introVars
  BY <1>2, BillingStepType, IntroFrame DEF TypeOK
<1>3. CASE IntroNext /\ UNCHANGED billingVars
  BY <1>3, IntroStepType, BillingFrame DEF TypeOK
<1>4. CASE UNCHANGED vars
  <2>1. UNCHANGED subscriptionVars /\ UNCHANGED billingVars /\ UNCHANGED introVars
    BY <1>4 DEF vars
  <2> QED
    BY <2>1, SubscriptionsFrame, BillingFrame, IntroFrame DEF TypeOK, subscriptionVars
<1> QED
  BY <1>1, <1>2, <1>3, <1>4 DEF Next

\* In every reachable state the tables and the calls in progress hold values of
\* their types, a payment is only reported for a stored session, and a row is
\* locked by exactly the call that has counted or is about to insert for it.
THEOREM TypeCorrect == Spec => []TypeOK
<1> QED
  BY TypeInit, TypeStep, PTL DEF Spec

-----------------------------------------------------------------------------
\* Payments begin one period each.

LEMMA PaidStep == TypeOK /\ PaidOnce /\ PaidIsProcessed /\ [Next]_vars
                    => PaidOnce' /\ PaidIsProcessed'
<1> SUFFICES ASSUME TypeOK, PaidOnce, PaidIsProcessed, [Next]_vars
             PROVE  PaidOnce' /\ PaidIsProcessed'
  OBVIOUS
<1>0. BillingTypeOK
  BY DEF TypeOK
<1>1. CASE UNCHANGED billingVars
  BY <1>1 DEF billingVars, PaidOnce, PaidIsProcessed
<1>2. ASSUME NEW s \in Sessions, NEW p \in Subscribers, NEW plan \in PaidPlans,
             RequestCheckout(s, p, plan)
      PROVE  PaidOnce' /\ PaidIsProcessed'
  BY <1>0, <1>2 DEF RequestCheckout, BillingTypeOK, Session, PaidOnce, PaidIsProcessed
<1>3. ASSUME NEW s \in Sessions, PersistCheckout(s)
      PROVE  PaidOnce' /\ PaidIsProcessed'
  BY <1>0, <1>3 DEF PersistCheckout, BillingTypeOK, Session, PaidOnce, PaidIsProcessed
<1>4. ASSUME NEW s \in Sessions, NEW outcome \in Callbacks, Pay(s, outcome)
      PROVE  PaidOnce' /\ PaidIsProcessed'
  BY <1>4 DEF Pay, PaidOnce, PaidIsProcessed
<1>5. ASSUME NEW s \in Sessions, StoreCallback(s)
      PROVE  PaidOnce' /\ PaidIsProcessed'
  BY <1>0, <1>5 DEF StoreCallback, SettleEvent, BillingTypeOK, PaidOnce, PaidIsProcessed
<1>6. ASSUME NEW s \in Sessions, ApplyFailed(s)
      PROVE  PaidOnce' /\ PaidIsProcessed'
  <2>1. granted[s] # 1
    BY <1>6 DEF ApplyFailed, Unsettled, PaidIsProcessed
  <2> QED
    BY <1>0, <1>6, <2>1 DEF ApplyFailed, CloseSession, SettleEvent, BillingTypeOK, Session,
       PaidOnce, PaidIsProcessed
<1>7. ASSUME NEW s \in Sessions, ApplySuccess(s)
      PROVE  PaidOnce' /\ PaidIsProcessed'
  <2>1. granted[s] = 0
    BY <1>0, <1>7 DEF ApplySuccess, Unsettled, PaidIsProcessed, PaidOnce, BillingTypeOK
  <2>2. /\ CloseSession(s, "paid")
        /\ SettleEvent(s, "processed")
        /\ granted' = [granted EXCEPT ![s] = @ + 1]
    BY <1>7 DEF ApplySuccess
  <2> QED
    BY <1>0, <2>1, <2>2 DEF CloseSession, SettleEvent, BillingTypeOK, Session, PaidOnce,
       PaidIsProcessed
<1>8. ASSUME NEW s \in Sessions, RepairEvent(s)
      PROVE  PaidOnce' /\ PaidIsProcessed'
  BY <1>0, <1>8 DEF RepairEvent, SettleEvent, BillingTypeOK, PaidOnce, PaidIsProcessed
<1> QED
  BY <1>1, <1>2, <1>3, <1>4, <1>5, <1>6, <1>7, <1>8 DEF Next, BillingNext, vars

\* A payment begins at most one period, and its session says paid exactly when it
\* has, whatever callbacks are repeated and whatever events are repaired.
THEOREM PaidOnceCorrect == Spec => []PaidOnce
<1>1. Init => PaidOnce /\ PaidIsProcessed
  BY DEF Init, BillingInit, PaidOnce, PaidIsProcessed
<1> QED
  BY <1>1, PaidStep, TypeCorrect, PTL DEF Spec

-----------------------------------------------------------------------------
\* Periods and locks.

\* Row o of profile p, which no call holds, begins a new period.
PeriodBegins(p, o) ==
    /\ lock[p][o] = NoCreate
    /\ \E row \in Row :
         /\ SetRow(p, o, row)
         /\ row.status # "none"
         /\ row.period = periods + 1
    /\ periods' = periods + 1
    /\ trials \subseteq trials'
    /\ o = "trial_start" => p \in trials'

\* ... or gets another status.
StatusChanges(p, o) ==
    /\ lock[p][o] = NoCreate
    /\ rows[p][o].status # "none"
    /\ \E row \in Row :
         /\ SetRow(p, o, row)
         /\ row.period = rows[p][o].period
         /\ row.plan = rows[p][o].plan
    /\ UNCHANGED <<periods, trials>>

\* A row that entitles nobody is held by nobody.
LEMMA HeldRowIsLive ==
  ASSUME TypeOK, LockInvariant, NEW p \in Profiles, NEW o \in Origins, rows[p][o].status = "none"
  PROVE  lock[p][o] = NoCreate
<1>1. /\ lock[p][o] \in Creates \cup {NoCreate}
      /\ \A c \in Creates : lock[p][o] = c => Holds(c, p, o)
  BY DEF TypeOK, SubscriptionsTypeOK, IntroTypeOK
<1> QED
  BY <1>1 DEF Holds, LockInvariant

LEMMA BegunNowPeriod ==
  ASSUME NEW status \in LiveStatus, NEW plan
  PROVE  /\ BegunNow(status, plan).status # "none"
         /\ BegunNow(status, plan).period = periods + 1
  BY DEF BegunNow, LiveStatus

\* What a step can do to the subscriptions.
LEMMA RowsStep ==
  ASSUME TypeOK, PeriodInvariant, LockInvariant, [Next]_vars
  PROVE  \/ UNCHANGED <<rows, periods, trials>> /\ (IntroNext \/ UNCHANGED <<introVars, lock>>)
         \/ /\ \E p \in Profiles, o \in Origins : PeriodBegins(p, o) \/ StatusChanges(p, o)
            /\ UNCHANGED <<introVars, lock>>
<1>0. SubscriptionsTypeOK /\ BillingTypeOK
  BY DEF TypeOK
<1>1. CASE SubscriptionsNext /\ UNCHANGED introVars
  <2>1. CASE MonthPasses
    BY <1>1, <2>1 DEF MonthPasses
  <2>2. ASSUME NEW p \in Subscribers, StartTrial(p)
        PROVE  PeriodBegins(p, "trial_start") /\ UNCHANGED lock
    <3>1. rows[p]["trial_start"].status = "none"
      BY <1>0, <2>2 DEF StartTrial, PeriodInvariant
    <3>2. lock[p]["trial_start"] = NoCreate
      BY <3>1, HeldRowIsLive DEF Origins
    <3>3. BegunNow("trialing", "trial") \in Row
      BY <1>0, BegunNowType DEF LiveStatus, Plans
    <3>4. /\ BegunNow("trialing", "trial").status # "none"
          /\ BegunNow("trialing", "trial").period = periods + 1
      BY BegunNowPeriod DEF LiveStatus
    <3> QED
      BY <2>2, <3>2, <3>3, <3>4 DEF StartTrial, PeriodBegins
  <2>3. ASSUME NEW p \in Subscribers, NEW o \in Origins, NEW status \in RepairedStatus,
               RepairStatus(p, o, status)
        PROVE  StatusChanges(p, o) /\ UNCHANGED lock
    <3>1. rows[p][o] \in Row
      BY <1>0 DEF SubscriptionsTypeOK
    <3>2. [rows[p][o] EXCEPT !.status = status] \in Row
      BY <1>0, RepairedType
    <3>3. /\ [rows[p][o] EXCEPT !.status = status].period = rows[p][o].period
          /\ [rows[p][o] EXCEPT !.status = status].plan = rows[p][o].plan
      BY <3>1 DEF Row
    <3> QED
      BY <2>3, <3>2, <3>3 DEF RepairStatus, RowFree, StatusChanges
  <2> QED
    BY <1>1, <2>1, <2>2, <2>3 DEF SubscriptionsNext, Origins
<1>2. CASE BillingNext /\ UNCHANGED introVars
  <2>1. ASSUME NEW s \in Sessions, ApplySuccess(s)
        PROVE  \E p \in Profiles, o \in Origins : PeriodBegins(p, o) /\ UNCHANGED lock
    <3> DEFINE p == sessions[s].profile
    <3>1. p \in Profiles /\ sessions[s].plan \in Plans
      BY <1>0, <2>1 DEF ApplySuccess, BillingTypeOK, PaidPlans, Plans
    <3>2. PICK o \in Renewed(p) :
            RowFree(p, o) /\ SetRow(p, o, BegunNow("active", sessions[s].plan))
      BY <2>1 DEF ApplySuccess
    <3>3. o \in Origins /\ (o = "trial_start" => rows[p][o].status # "none")
      BY <3>2 DEF Renewed, Latest, Origins
    <3>4. o = "trial_start" => p \in trials
      BY <3>1, <3>3 DEF PeriodInvariant
    <3>5. BegunNow("active", sessions[s].plan) \in Row
      BY <1>0, <3>1, BegunNowType DEF LiveStatus
    <3>6. /\ BegunNow("active", sessions[s].plan).status # "none"
          /\ BegunNow("active", sessions[s].plan).period = periods + 1
      BY BegunNowPeriod DEF LiveStatus
    <3>7. periods' = periods + 1 /\ UNCHANGED <<trials, lock>>
      BY <2>1 DEF ApplySuccess
    <3>8. PeriodBegins(p, o)
      BY <3>2, <3>4, <3>5, <3>6, <3>7 DEF PeriodBegins, RowFree
    <3> QED
      BY <3>1, <3>3, <3>7, <3>8
  <2>2. CASE UNCHANGED subscriptionVars
    BY <1>2, <2>2 DEF subscriptionVars
  <2> QED
    BY <1>2, <2>1, <2>2 DEF BillingNext, RequestCheckout, PersistCheckout, Pay, StoreCallback,
       ApplyFailed, RepairEvent
<1>3. CASE IntroNext
  BY <1>3 DEF IntroNext, BeginCreate, CheckPair, LockSubscription, CountUsage, AbortCreate,
     InsertRequest, Accept, Close, CooldownEnds, SampleChanges, Answer, subscriptionVars
<1>4. CASE UNCHANGED vars
  BY <1>4 DEF vars, subscriptionVars
<1> QED
  BY <1>1, <1>2, <1>3, <1>4 DEF Next

\* What a changed row looks like.
LEMMA ChangedRow ==
  ASSUME SubscriptionsTypeOK, NEW p \in Profiles, NEW o \in Origins, NEW row, SetRow(p, o, row)
  PROVE  \A q \in Profiles, v \in Origins :
           rows'[q][v] = IF q = p /\ v = o THEN row ELSE rows[q][v]
  BY DEF SubscriptionsTypeOK, SetRow

LEMMA PeriodStep == TypeOK /\ PeriodInvariant /\ LockInvariant /\ [Next]_vars => PeriodInvariant'
<1> SUFFICES ASSUME TypeOK, PeriodInvariant, LockInvariant, [Next]_vars
             PROVE  PeriodInvariant'
  OBVIOUS
<1>0. SubscriptionsTypeOK
  BY DEF TypeOK
<1>1. CASE UNCHANGED <<rows, periods, trials>>
  BY <1>1 DEF PeriodInvariant
<1>2. ASSUME NEW p \in Profiles, NEW o \in Origins, PeriodBegins(p, o)
      PROVE  PeriodInvariant'
  <2>1. PICK row \in Row : SetRow(p, o, row) /\ row.status # "none" /\ row.period = periods + 1
    BY <1>2 DEF PeriodBegins
  <2>2. \A q \in Profiles, v \in Origins :
          rows'[q][v] = IF q = p /\ v = o THEN row ELSE rows[q][v]
    BY <1>0, <2>1, ChangedRow
  <2>3. \A q \in Profiles, v \in Origins : rows[q][v].period \in Nat /\ periods \in Nat
    BY <1>0 DEF SubscriptionsTypeOK, Row
  <2>4. /\ periods' = periods + 1
        /\ trials \subseteq trials'
        /\ o = "trial_start" => p \in trials'
    BY <1>2 DEF PeriodBegins
  <2>5. ASSUME NEW q \in Profiles, NEW v \in Origins
        PROVE  /\ rows'[q][v].period <= periods'
               /\ rows'[q][v].status # "none" => rows'[q][v].period > 0
               /\ \A w \in Origins \ {v} :
                    rows'[q][v].period = rows'[q][w].period => rows'[q][v].period = 0
    BY <2>1, <2>2, <2>3, <2>4 DEF PeriodInvariant
  <2>6. ASSUME NEW q \in Profiles
        PROVE  rows'[q]["trial_start"].status # "none" => q \in trials'
    BY <2>2, <2>4 DEF PeriodInvariant, Origins
  <2> QED
    BY <2>5, <2>6 DEF PeriodInvariant
<1>3. ASSUME NEW p \in Profiles, NEW o \in Origins, StatusChanges(p, o)
      PROVE  PeriodInvariant'
  <2>1. PICK row \in Row : SetRow(p, o, row) /\ row.period = rows[p][o].period
    BY <1>3 DEF StatusChanges
  <2>2. \A q \in Profiles, v \in Origins :
          rows'[q][v] = IF q = p /\ v = o THEN row ELSE rows[q][v]
    BY <1>0, <2>1, ChangedRow
  <2>3. rows[p][o].status # "none" /\ UNCHANGED <<periods, trials>>
    BY <1>3 DEF StatusChanges
  <2>4. ASSUME NEW q \in Profiles, NEW v \in Origins
        PROVE  /\ rows'[q][v].period = rows[q][v].period
               /\ rows'[q][v].status # "none" => rows[q][v].status # "none"
    BY <2>1, <2>2, <2>3
  <2> QED
    BY <2>3, <2>4 DEF PeriodInvariant, Origins
<1> QED
  BY <1>1, <1>2, <1>3, RowsStep

\* What an intro step does to the calls: all but two kinds of them leave a call alone
\* or take it out of its critical steps.
LEMMA CreatesStep ==
  ASSUME TypeOK, IntroNext, NEW d \in Creates
  PROVE  \/ creates'[d] = creates[d]
         \/ creates'[d].pc \notin {"count", "insert"}
         \/ LockSubscription(d)
         \/ CountUsage(d)
<1>0. IntroTypeOK
  BY DEF TypeOK
<1>1. ASSUME NEW c \in Creates, Refuse(c)
      PROVE  creates'[d] = creates[d] \/ creates'[d].pc \notin {"count", "insert"}
  BY <1>0, <1>1 DEF Refuse, IntroTypeOK, IdleCreate
<1>2. ASSUME NEW c \in Creates, NEW pair \in Pairs, NEW p \in Profiles, BeginCreate(c, pair, p)
      PROVE  creates'[d] = creates[d] \/ creates'[d].pc \notin {"count", "insert"}
  BY <1>0, <1>2 DEF BeginCreate, IntroTypeOK
<1>3. ASSUME NEW c \in Creates, CheckPair(c)
      PROVE  creates'[d] = creates[d] \/ creates'[d].pc \notin {"count", "insert"}
  <2>1. CASE Advance(c, AfterCheck[creates[c].pc])
    <3>1. AfterCheck[creates[c].pc] \in {"pending", "cooldown", "lock"}
      BY <1>3 DEF CheckPair, AfterCheck
    <3>2. creates[d] \in Create /\ creates[c] \in Create
      BY <1>0 DEF IntroTypeOK
    <3> QED
      BY <1>0, <2>1, <3>1, <3>2 DEF Advance, IntroTypeOK, Create
  <2> QED
    BY <1>1, <1>3, <2>1 DEF CheckPair
<1>4. ASSUME NEW c \in Creates, c # d, LockSubscription(c) \/ CountUsage(c)
      PROVE  creates'[d] = creates[d]
  <2>1. ASSUME NEW call, creates' = [creates EXCEPT ![c] = call]
        PROVE  creates'[d] = creates[d]
    BY <1>0, <1>4, <2>1 DEF IntroTypeOK
  <2>2. \E call : creates' = [creates EXCEPT ![c] = call]
    <3>1. CASE Refuse(c)
      BY <3>1 DEF Refuse
    <3>2. CASE Advance(c, "insert")
      BY <3>2 DEF Advance
    <3>3. CASE LockSubscription(c) /\ ~Refuse(c)
      BY <3>3 DEF LockSubscription
    <3> QED
      BY <1>4, <3>1, <3>2, <3>3 DEF CountUsage
  <2> QED
    BY <2>1, <2>2
<1> QED
  BY <1>1, <1>2, <1>3, <1>4 DEF IntroNext, InsertRequest, AbortCreate, Accept, Close, Answer,
     CooldownEnds, SampleChanges

LEMMA LockStep == TypeOK /\ PeriodInvariant /\ LockInvariant /\ [Next]_vars => LockInvariant'
<1> SUFFICES ASSUME TypeOK, PeriodInvariant, LockInvariant, [Next]_vars,
                    NEW c \in Creates, creates'[c].pc \in {"count", "insert"}
             PROVE  LET row == rows'[creates'[c].requester][creates'[c].origin] IN
                    /\ row.status \in {"trialing", "active"}
                    /\ row.period = creates'[c].period
                    /\ row.plan = creates'[c].plan
  BY DEF LockInvariant
<1>0. SubscriptionsTypeOK /\ IntroTypeOK
  BY DEF TypeOK
<1>1. ASSUME NEW p \in Profiles, NEW o \in Origins, lock[p][o] = NoCreate, NEW row,
             SetRow(p, o, row), UNCHANGED introVars
      PROVE  /\ UNCHANGED creates
             /\ rows'[creates[c].requester][creates[c].origin]
                  = rows[creates[c].requester][creates[c].origin]
  <2>1. UNCHANGED creates /\ creates[c].pc \in {"count", "insert"}
    BY <1>1 DEF introVars
  <2>2. creates[c].requester \in Profiles /\ creates[c].origin \in Origins
    BY <1>0, <2>1, ParticipantsAreProfiles DEF IntroTypeOK, Create
  <2>3. lock[creates[c].requester][creates[c].origin] = c
    BY <1>0, <2>1, <2>2 DEF IntroTypeOK, Holds
  <2> QED
    BY <1>0, <1>1, <2>1, <2>2, <2>3, ChangedRow
<1>2. ASSUME NEW p \in Profiles, NEW o \in Origins, PeriodBegins(p, o) \/ StatusChanges(p, o),
             UNCHANGED introVars
      PROVE  /\ UNCHANGED creates
             /\ rows'[creates[c].requester][creates[c].origin]
                  = rows[creates[c].requester][creates[c].origin]
  BY <1>1, <1>2 DEF PeriodBegins, StatusChanges
<1>3. CASE UNCHANGED rows /\ UNCHANGED creates
  BY <1>3 DEF LockInvariant
<1>4. CASE UNCHANGED rows /\ IntroNext
  <2>1. CASE creates'[c] = creates[c]
    BY <1>4, <2>1 DEF LockInvariant
  <2>2. CASE LockSubscription(c)
    <3>1. ~Refuse(c)
      BY <1>0 DEF Refuse, IdleCreate, IntroTypeOK
    <3>2. PICK o \in Origins :
            /\ Entitling(rows[creates[c].requester][o])
            /\ creates' = [creates EXCEPT ![c] =
                             [pc |-> "count", pair |-> creates[c].pair,
                              requester |-> creates[c].requester, origin |-> o,
                              period |-> rows[creates[c].requester][o].period,
                              plan |-> rows[creates[c].requester][o].plan]]
      BY <2>2, <3>1 DEF LockSubscription
    <3>3. creates'[c] = [pc |-> "count", pair |-> creates[c].pair,
                         requester |-> creates[c].requester, origin |-> o,
                         period |-> rows[creates[c].requester][o].period,
                         plan |-> rows[creates[c].requester][o].plan]
      BY <1>0, <3>2 DEF IntroTypeOK
    <3> QED
      BY <1>4, <3>2, <3>3 DEF Entitling
  <2>3. CASE CountUsage(c)
    <3>1. ~Refuse(c)
      BY <1>0 DEF Refuse, IdleCreate, IntroTypeOK
    <3>2. Advance(c, "insert") /\ creates[c].pc = "count"
      BY <2>3, <3>1 DEF CountUsage
    <3>3. /\ creates'[c].requester = creates[c].requester
          /\ creates'[c].origin = creates[c].origin
          /\ creates'[c].period = creates[c].period
          /\ creates'[c].plan = creates[c].plan
      BY <1>0, <3>2 DEF Advance, IntroTypeOK, Create
    <3> QED
      BY <1>4, <3>2, <3>3 DEF LockInvariant
  <2> QED
    BY <1>4, <2>1, <2>2, <2>3, CreatesStep
<1>5. CASE \E p \in Profiles, o \in Origins :
             (PeriodBegins(p, o) \/ StatusChanges(p, o)) /\ UNCHANGED introVars
  <2>1. UNCHANGED creates /\ rows'[creates[c].requester][creates[c].origin]
                               = rows[creates[c].requester][creates[c].origin]
    BY <1>2, <1>5
  <2> QED
    BY <2>1 DEF LockInvariant
<1>6. UNCHANGED introVars => UNCHANGED creates
  BY DEF introVars
<1> QED
  BY <1>3, <1>4, <1>5, <1>6, RowsStep

-----------------------------------------------------------------------------
\* Charges.

LEMMA LedgerChanges ==
  ASSUME [Next]_vars
  PROVE  UNCHANGED ledger \/ \E c \in Creates, r \in Requests : InsertRequest(c, r)
<1>1. CASE IntroNext
  BY <1>1 DEF IntroNext, BeginCreate, CheckPair, LockSubscription, CountUsage, AbortCreate,
     Accept, Close, Answer, CooldownEnds, SampleChanges
<1>2. CASE UNCHANGED introVars
  BY <1>2 DEF introVars
<1> QED
  BY <1>1, <1>2 DEF Next, vars

\* The rows of a charged period keep its plan.
LEMMA ChargedPlan ==
  ASSUME TypeOK, QuotaInvariant, [Next]_vars, NEW u \in ledger
  PROVE  /\ u.period <= periods'
         /\ \A o \in Origins : rows'[u.profile][o].period = u.period
                              => rows'[u.profile][o].plan = u.plan
<1>0. /\ SubscriptionsTypeOK
      /\ u.profile \in Profiles /\ u.period \in Nat /\ periods \in Nat
  BY DEF TypeOK, SubscriptionsTypeOK, IntroTypeOK, Usage
<1>1. /\ u.period <= periods
      /\ \A o \in Origins : rows[u.profile][o].period = u.period
                           => rows[u.profile][o].plan = u.plan
  BY DEF QuotaInvariant, LedgerInvariant
<1>2. CASE UNCHANGED <<rows, periods, trials>>
  BY <1>1, <1>2
<1>3. ASSUME NEW p \in Profiles, NEW v \in Origins, PeriodBegins(p, v)
      PROVE  /\ u.period <= periods'
             /\ \A o \in Origins : rows'[u.profile][o].period = u.period
                                  => rows'[u.profile][o].plan = u.plan
  <2>1. PICK row \in Row : SetRow(p, v, row) /\ row.period = periods + 1
    BY <1>3 DEF PeriodBegins
  <2>2. periods' = periods + 1
    BY <1>3 DEF PeriodBegins
  <2> QED
    BY <1>0, <1>1, <2>1, <2>2, ChangedRow
<1>4. ASSUME NEW p \in Profiles, NEW v \in Origins, StatusChanges(p, v)
      PROVE  /\ u.period <= periods'
             /\ \A o \in Origins : rows'[u.profile][o].period = u.period
                                  => rows'[u.profile][o].plan = u.plan
  <2>1. PICK row \in Row : /\ SetRow(p, v, row)
                          /\ row.period = rows[p][v].period
                          /\ row.plan = rows[p][v].plan
    BY <1>4 DEF StatusChanges
  <2>2. periods' = periods
    BY <1>4 DEF StatusChanges
  <2> QED
    BY <1>0, <1>1, <2>1, <2>2, ChangedRow
<1> QED
  BY <1>2, <1>3, <1>4, RowsStep DEF QuotaInvariant

\* A call reaches the insert with room for its request.
LEMMA InsertHasRoom ==
  ASSUME TypeOK, LedgerInvariant, [Next]_vars, UNCHANGED ledger,
         NEW d \in Creates, creates'[d].pc = "insert"
  PROVE  WithinQuota(d)'
<1>0. IntroTypeOK
  BY DEF TypeOK
<1>1. CASE creates'[d] = creates[d]
  BY <1>1 DEF LedgerInvariant, WithinQuota, UsageOf
<1>2. CASE LockSubscription(d)
  <2>1. ~Refuse(d)
    BY <1>0 DEF Refuse, IdleCreate, IntroTypeOK
  <2>2. PICK o \in Origins :
          creates' = [creates EXCEPT ![d] =
                        [pc |-> "count", pair |-> creates[d].pair,
                         requester |-> creates[d].requester, origin |-> o,
                         period |-> rows[creates[d].requester][o].period,
                         plan |-> rows[creates[d].requester][o].plan]]
    BY <1>2, <2>1 DEF LockSubscription
  <2> QED
    BY <1>0, <2>2 DEF IntroTypeOK
<1>3. CASE CountUsage(d)
  <2>1. ~Refuse(d)
    BY <1>0 DEF Refuse, IdleCreate, IntroTypeOK
  <2>2. Advance(d, "insert") /\ WithinQuota(d)
    BY <1>3, <2>1 DEF CountUsage
  <2>3. /\ creates'[d].requester = creates[d].requester
        /\ creates'[d].period = creates[d].period
        /\ creates'[d].plan = creates[d].plan
    BY <1>0, <2>2 DEF Advance, IntroTypeOK, Create
  <2> QED
    BY <2>2, <2>3 DEF WithinQuota, UsageOf
<1>4. CASE IntroNext
  BY <1>1, <1>2, <1>3, <1>4, CreatesStep
<1>5. CASE UNCHANGED introVars
  BY <1>1, <1>5 DEF introVars
<1> QED
  BY <1>4, <1>5 DEF Next, vars

\* The row that a call about to insert holds is the only one in its period, and the
\* call is the only one that can charge it.
LEMMA InsertPeriod ==
  ASSUME TypeOK, PeriodInvariant, LockInvariant, NEW c \in Creates, creates[c].pc = "insert"
  PROVE  /\ creates[c].requester \in Profiles /\ creates[c].origin \in Origins
         /\ creates[c].period \in Nat /\ creates[c].plan \in Plans
         /\ rows[creates[c].requester][creates[c].origin].period = creates[c].period
         /\ rows[creates[c].requester][creates[c].origin].plan = creates[c].plan
         /\ rows[creates[c].requester][creates[c].origin].status \in {"trialing", "active"}
         /\ creates[c].period <= periods
         /\ \A o \in Origins : rows[creates[c].requester][o].period = creates[c].period
                              => o = creates[c].origin
         /\ lock[creates[c].requester][creates[c].origin] = c
<1>0. SubscriptionsTypeOK /\ IntroTypeOK
  BY DEF TypeOK
<1>1. /\ creates[c].requester \in Profiles /\ creates[c].origin \in Origins
      /\ creates[c].period \in Nat /\ creates[c].plan \in Plans
  BY <1>0, ParticipantsAreProfiles DEF IntroTypeOK, Create
<1> DEFINE p == creates[c].requester
           o == creates[c].origin
<1>2. /\ rows[p][o].period = creates[c].period
      /\ rows[p][o].plan = creates[c].plan
      /\ rows[p][o].status \in {"trialing", "active"}
  BY DEF LockInvariant
<1>3. rows[p][o].period <= periods /\ rows[p][o].period > 0
  BY <1>1, <1>2 DEF PeriodInvariant
<1>4. ASSUME NEW q \in Origins, rows[p][q].period = creates[c].period
      PROVE  q = o
  BY <1>1, <1>2, <1>3, <1>4 DEF PeriodInvariant
<1>5. lock[p][o] = c
  BY <1>0, <1>1 DEF IntroTypeOK, Holds
<1> QED
  BY <1>1, <1>2, <1>3, <1>4, <1>5

\* The charge that an insert adds.
Charge(c, r) == [profile |-> creates[c].requester, period |-> creates[c].period,
                 plan |-> creates[c].plan, request |-> r]

\* It is counted in the period of its call, and in no other.
LEMMA ChargeCounted ==
  ASSUME NEW c, NEW r, ledger' = ledger \cup {Charge(c, r)}, NEW p, NEW k
  PROVE  {u \in ledger' : u.profile = p /\ u.period = k} =
           IF p = creates[c].requester /\ k = creates[c].period
             THEN UsageOf(p, k) \cup {Charge(c, r)} ELSE UsageOf(p, k)
  BY DEF Charge, UsageOf

LEMMA QuotaIsNat == ASSUME NEW plan PROVE Quota(plan) \in Nat
  BY IntroAssumption DEF Quota

LEMMA InsertCharges ==
  ASSUME TypeOK, QuotaInvariant, QuotaKept, [Next]_vars,
         NEW c \in Creates, NEW r \in Requests, InsertRequest(c, r)
  PROVE  LedgerInvariant' /\ QuotaKept'
<1> DEFINE p == creates[c].requester
           k == creates[c].period
           plan == creates[c].plan
           charge == Charge(c, r)
<1>0. /\ PeriodInvariant /\ LockInvariant /\ LedgerInvariant
      /\ creates[c].pc = "insert"
      /\ creates \in [Creates -> Create]
  BY DEF QuotaInvariant, InsertRequest, TypeOK, IntroTypeOK
<1>1. ledger' = ledger \cup {charge} /\ UNCHANGED <<rows, periods>> /\ Refuse(c)
  BY DEF InsertRequest, Charge
<1>2. charge.profile = p /\ charge.period = k /\ charge.plan = plan
  BY DEF Charge
<1>3. /\ rows[p][creates[c].origin].plan = plan
      /\ rows[p][creates[c].origin].period = k
      /\ k <= periods
      /\ creates[c].origin \in Origins
      /\ \A o \in Origins : rows[p][o].period = k => o = creates[c].origin
  BY <1>0, InsertPeriod
<1>4. \A v \in UsageOf(p, k) : v \in ledger /\ v.plan = plan
  BY <1>0, <1>3 DEF LedgerInvariant, UsageOf
<1>5. /\ IsFiniteSet(UsageOf(p, k))
      /\ Cardinality(UsageOf(p, k)) < Quota(plan)
  <2>1. UsageOf(p, k) \subseteq ledger
    BY DEF UsageOf
  <2> QED
    BY <1>0, <2>1, FS_Subset DEF LedgerInvariant, WithinQuota
<1>6. Cardinality(UsageOf(p, k) \cup {charge}) <= Quota(plan)
  <2>1. /\ Cardinality(UsageOf(p, k)) \in Nat
        /\ \/ Cardinality(UsageOf(p, k) \cup {charge}) = Cardinality(UsageOf(p, k))
           \/ Cardinality(UsageOf(p, k) \cup {charge}) = Cardinality(UsageOf(p, k)) + 1
    BY <1>5, FS_AddElement, FS_CardinalityType
  <2> HIDE DEF p, k, plan, charge
  <2> QED
    BY <1>5, <2>1, QuotaIsNat
<1>7. \A q, j : {u \in ledger' : u.profile = q /\ u.period = j} =
                  IF q = p /\ j = k THEN UsageOf(q, j) \cup {charge} ELSE UsageOf(q, j)
  BY <1>1, ChargeCounted
<1> HIDE DEF charge
<1>8. IsFiniteSet(ledger')
  BY <1>0, <1>1, FS_AddElement DEF LedgerInvariant
<1>9. ASSUME NEW u \in ledger'
      PROVE  /\ u.period <= periods'
             /\ \A o \in Origins : rows'[u.profile][o].period = u.period
                                  => rows'[u.profile][o].plan = u.plan
             /\ \A v \in {w \in ledger' : w.profile = u.profile /\ w.period = u.period} :
                  v.plan = u.plan
             /\ Cardinality({w \in ledger' : w.profile = u.profile /\ w.period = u.period})
                  <= Quota(u.plan)
  <2>1. CASE u.profile = p /\ u.period = k
    <3>1. u.plan = plan
      BY <1>1, <1>2, <1>4, <2>1 DEF UsageOf
    <3>2. \A o \in Origins : rows'[u.profile][o].period = u.period
                              => rows'[u.profile][o].plan = u.plan
      BY <1>1, <1>3, <2>1, <3>1
    <3>3. {w \in ledger' : w.profile = u.profile /\ w.period = u.period}
            = UsageOf(p, k) \cup {charge}
      BY <1>7, <2>1
    <3> QED
      BY <1>1, <1>2, <1>3, <1>4, <1>6, <2>1, <3>1, <3>2, <3>3
  <2>2. CASE ~(u.profile = p /\ u.period = k)
    <3>1. u \in ledger
      BY <1>1, <1>2, <2>2
    <3>2. {w \in ledger' : w.profile = u.profile /\ w.period = u.period}
            = UsageOf(u.profile, u.period)
      BY <1>7, <2>2
    <3> QED
      BY <1>0, <1>1, <3>1, <3>2 DEF LedgerInvariant, QuotaKept
  <2> QED
    BY <2>1, <2>2
<1>10. ASSUME NEW d \in Creates, creates'[d].pc = "insert"
       PROVE  WithinQuota(d)'
  <2>1. d # c /\ creates'[d] = creates[d]
    BY <1>0, <1>1, <1>10 DEF Refuse, IdleCreate
  <2>2. ~(creates[d].requester = p /\ creates[d].period = k)
    <3>1. /\ lock[creates[d].requester][creates[d].origin] = d
          /\ rows[creates[d].requester][creates[d].origin].period = creates[d].period
          /\ creates[d].origin \in Origins
      BY <1>0, <1>10, <2>1, InsertPeriod
    <3>2. lock[p][creates[c].origin] = c
      BY <1>0, InsertPeriod
    <3> QED
      BY <1>3, <2>1, <3>1, <3>2
  <2>3. {u \in ledger' : u.profile = creates[d].requester /\ u.period = creates[d].period}
          = UsageOf(creates[d].requester, creates[d].period)
    BY <1>7, <2>2
  <2> QED
    BY <1>0, <1>10, <2>1, <2>3 DEF LedgerInvariant, WithinQuota, UsageOf
<1> QED
  BY <1>8, <1>9, <1>10 DEF LedgerInvariant, QuotaKept, UsageOf

LEMMA LedgerStep ==
  TypeOK /\ QuotaInvariant /\ QuotaKept /\ [Next]_vars => LedgerInvariant' /\ QuotaKept'
<1> SUFFICES ASSUME TypeOK, QuotaInvariant, QuotaKept, [Next]_vars
             PROVE  LedgerInvariant' /\ QuotaKept'
  OBVIOUS
<1>1. CASE UNCHANGED ledger
  <2>1. LedgerInvariant
    BY DEF QuotaInvariant
  <2>2. \A u \in ledger : \A v \in UsageOf(u.profile, u.period)' : v.plan = u.plan
    BY <1>1, <2>1 DEF LedgerInvariant, UsageOf
  <2>3. QuotaKept'
    BY <1>1 DEF QuotaKept, UsageOf
  <2> QED
    BY <1>1, <2>1, <2>2, <2>3, ChargedPlan, InsertHasRoom DEF LedgerInvariant
<1>2. ASSUME NEW c \in Creates, NEW r \in Requests, InsertRequest(c, r)
      PROVE  LedgerInvariant' /\ QuotaKept'
  BY <1>2, InsertCharges
<1> QED
  BY <1>1, <1>2, LedgerChanges

LEMMA QuotaInit == Init => QuotaInvariant /\ QuotaKept
<1> SUFFICES ASSUME Init PROVE QuotaInvariant /\ QuotaKept
  OBVIOUS
<1>0. SubscriptionsInit /\ IntroInit
  BY DEF Init
<1>1. PeriodInvariant
  BY <1>0 DEF SubscriptionsInit, NoRow, PeriodInvariant, Origins
<1>2. LockInvariant
  BY <1>0 DEF IntroInit, IdleCreate, LockInvariant
<1>3. LedgerInvariant /\ QuotaKept
  BY <1>0, FS_EmptySet DEF IntroInit, IdleCreate, LedgerInvariant, QuotaKept
<1> QED
  BY <1>1, <1>2, <1>3 DEF QuotaInvariant

LEMMA QuotaStep ==
  TypeOK /\ QuotaInvariant /\ QuotaKept /\ [Next]_vars => QuotaInvariant' /\ QuotaKept'
  BY PeriodStep, LockStep, LedgerStep DEF QuotaInvariant

\* No period of a subscription is charged more requests than its plan allows,
\* whatever calls run at once and whatever renews or repairs the subscription
\* while they count: for any number of profiles, calls, requests and payments.
THEOREM QuotaCorrect == Spec => []QuotaKept
<1> QED
  BY QuotaInit, QuotaStep, TypeCorrect, PTL DEF Spec

\* What an insert charges is the period of the row that it holds.
LEMMA ChargeStep ==
  ASSUME TypeOK, PeriodInvariant, LockInvariant, [Next]_vars, NEW u \in ledger' \ ledger
  PROVE  \E o \in Origins : /\ rows[u.profile][o].period = u.period
                            /\ rows[u.profile][o].status \in {"trialing", "active"}
<1>1. PICK c \in Creates, r \in Requests : InsertRequest(c, r)
  BY LedgerChanges
<1>2. creates[c].pc = "insert" /\ u = Charge(c, r)
  BY <1>1 DEF InsertRequest, Charge
<1>3. u.profile = creates[c].requester /\ u.period = creates[c].period
  BY <1>2 DEF Charge
<1> QED
  BY <1>2, <1>3, InsertPeriod

\* A request is charged to a period that its requester has, in a status that
\* entitles, when the transaction commits.
THEOREM ChargesCorrect == Spec => ChargesCurrentPeriod
<1>1. TypeOK /\ QuotaInvariant /\ [Next]_vars
        => [\A u \in ledger' \ ledger :
              \E o \in Origins : /\ rows[u.profile][o].period = u.period
                                 /\ rows[u.profile][o].status \in {"trialing", "active"}
           ]_<<introVars, subscriptionVars>>
  BY ChargeStep DEF QuotaInvariant
<1> QED
  BY <1>1, QuotaInit, QuotaStep, TypeCorrect, PTL DEF Spec, ChargesCurrentPeriod
=============================================================================
