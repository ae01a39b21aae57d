----------------------------- MODULE PaytrBilling -----------------------------
(***************************************************************************)
(* Paid plans: checkout sessions, the callbacks in which PayTR reports what *)
(* became of a payment, and apply_paytr_webhook_event, which turns a paid   *)
(* session into a period of a subscription.  PayTR repeats a callback until *)
(* it is answered, and may repeat it after that.                            *)
(***************************************************************************)
EXTENDS Subscriptions

CONSTANTS Sessions,      \* merchant_oids
          NoProfile,
          Callbacks      \* the callbacks PayTR makes

ASSUME BillingAssumption ==
    /\ NoProfile \notin Profiles
    /\ Callbacks \subseteq {"success", "failed", "unknown"}

VARIABLES sessions,   \* `paytr_checkout_sessions`, and requests that are not stored yet
          events,     \* `payment_events`: the processing_status of a merchant_oid
          reported,   \* PayTR: what it reports of a payment
          granted     \* history: how many periods a session has begun

billingVars == <<sessions, events, reported, granted>>

PaidPlans == {"monthly", "annual"}

Session == [status : {"none", "requested", "created", "paid", "failed"},
            profile : Profiles \cup {NoProfile},
            plan : Plans]

BillingTypeOK ==
    /\ sessions \in [Sessions -> Session]
    /\ \A s \in Sessions : sessions[s].status # "none" =>
         sessions[s].profile \in Profiles /\ sessions[s].plan \in PaidPlans
    /\ events \in [Sessions -> {"none", "stored", "processed", "failed"}]
    /\ reported \in [Sessions -> SUBSET Callbacks]
    /\ \A s \in Sessions : reported[s] # {} => sessions[s].status \notin {"none", "requested"}
    /\ granted \in [Sessions -> Nat]

BillingInit ==
    /\ sessions = [s \in Sessions |->
                     [status |-> "none", profile |-> NoProfile, plan |-> "trial"]]
    /\ events = [s \in Sessions |-> "none"]
    /\ reported = [s \in Sessions |-> {}]
    /\ granted = [s \in Sessions |-> 0]

-----------------------------------------------------------------------------

\* createPaytrCheckoutToken reads the subscription that ends last and refuses
\* while it is active.
MayCheckout(p) ==
    \/ Latest(p) = {}
    \/ \E o \in Latest(p) : Entitling(rows[p][o]) => rows[p][o].status = "trialing"

RequestCheckout(s, p, plan) ==
    /\ sessions[s].status = "none"
    /\ MayCheckout(p)
    /\ sessions' = [sessions EXCEPT ![s] = [status |-> "requested", profile |-> p, plan |-> plan]]
    /\ UNCHANGED <<events, reported, granted>>
    /\ UNCHANGED subscriptionVars

\* PayTR has made the token, and the session is stored before the browser gets it.
PersistCheckout(s) ==
    /\ sessions[s].status = "requested"
    /\ sessions' = [sessions EXCEPT ![s].status = "created"]
    /\ UNCHANGED <<events, reported, granted>>
    /\ UNCHANGED subscriptionVars

\* The payment fails, or succeeds for good.
Pay(s, outcome) ==
    /\ sessions[s].status \notin {"none", "requested"}
    /\ "success" \notin reported[s]
    /\ outcome \notin reported[s]
    /\ reported' = [reported EXCEPT ![s] = @ \cup {outcome}]
    /\ UNCHANGED <<sessions, events, granted>>
    /\ UNCHANGED subscriptionVars

-----------------------------------------------------------------------------
\* apply_paytr_webhook_event, one transaction.

\* Mutants: the outcome of an event is applied whenever it comes, or only once.
UnsettledAlways(s) == TRUE
UnsettledOnce(s) == events[s] = "none"

\* A processed event returns at once.
Unsettled(s) == events[s] # "processed"

SettleEvent(s, status) == events' = [events EXCEPT ![s] = status]

CloseSession(s, status) == sessions' = [sessions EXCEPT ![s].status = status]

\* An unknown type is stored, and left alone if it is there.
StoreCallback(s) ==
    /\ "unknown" \in reported[s]
    /\ events[s] = "none"
    /\ SettleEvent(s, "stored")
    /\ UNCHANGED <<sessions, reported, granted>>
    /\ UNCHANGED subscriptionVars

ApplyFailed(s) ==
    /\ "failed" \in reported[s]
    /\ Unsettled(s)
    /\ CloseSession(s, "failed")
    /\ SettleEvent(s, "failed")
    /\ UNCHANGED <<reported, granted>>
    /\ UNCHANGED subscriptionVars

\* The row that a payment of p renews, or the one it inserts.
Renewed(p) == IF Latest(p) = {} THEN {"callback"} ELSE Latest(p)

\* The transaction is rolled back when the index refuses the row.
ApplySuccess(s) ==
    LET p == sessions[s].profile IN
    /\ "success" \in reported[s]
    /\ Unsettled(s)
    /\ \E o \in Renewed(p) :
         /\ RowFree(p, o)
         /\ IndexAllows(p, o)
         /\ SetRow(p, o, BegunNow("active", sessions[s].plan))
    /\ periods' = periods + 1
    /\ CloseSession(s, "paid")
    /\ SettleEvent(s, "processed")
    /\ granted' = [granted EXCEPT ![s] = @ + 1]
    /\ UNCHANGED <<now, trials, lock, reported>>

\* mark_event_processed of repair_billing_subscription.
RepairEvent(s) ==
    /\ "event" \in Repairs
    /\ events[s] # "none"
    /\ SettleEvent(s, "processed")
    /\ UNCHANGED <<sessions, reported, granted>>
    /\ UNCHANGED subscriptionVars

-----------------------------------------------------------------------------

BillingNext ==
    \/ \E s \in Sessions, p \in Subscribers, plan \in PaidPlans : RequestCheckout(s, p, plan)
    \/ \E s \in Sessions, outcome \in Callbacks : Pay(s, outcome)
    \/ \E s \in Sessions :
         PersistCheckout(s) \/ StoreCallback(s) \/ ApplyFailed(s) \/ ApplySuccess(s)
           \/ RepairEvent(s)

-----------------------------------------------------------------------------
\* Properties

\* A payment begins one period, and the session says paid exactly when it has:
\* repeated, late and contradicting callbacks (apply_paytr_webhook_event) and
\* repaired events change neither.
PaidOnce ==
    \A s \in Sessions : /\ granted[s] <= 1
                        /\ sessions[s].status = "paid" <=> granted[s] = 1

\* The strengthening PaidOnce needs: nothing leaves `processed`.
PaidIsProcessed == \A s \in Sessions : granted[s] = 1 => events[s] = "processed"

\* The callback of a payment that succeeded ends up in a period of the
\* subscription ("API updates `subscriptions` idempotently",
\* docs/architecture/payments-paytr.md:58), if PayTR repeats it.
PaidIsActivated == \A s \in Sessions : "success" \in reported[s] ~> granted[s] > 0
=============================================================================
