----------------------------- MODULE Marketplace -----------------------------
(* Payments and intro requests over the same subscriptions.                 *)
EXTENDS PaytrBilling, IntroRequests

vars == <<subscriptionVars, billingVars, introVars>>

TypeOK == SubscriptionsTypeOK /\ BillingTypeOK /\ IntroTypeOK

Init == SubscriptionsInit /\ BillingInit /\ IntroInit

Next ==
    \/ SubscriptionsNext /\ UNCHANGED billingVars /\ UNCHANGED introVars
    \/ BillingNext /\ UNCHANGED introVars
    \/ IntroNext /\ UNCHANGED billingVars

Spec == Init /\ [][Next]_vars

\* PayTR repeats a callback until it is answered.
FairSpec == Spec /\ \A s \in Sessions : SF_vars(ApplySuccess(s) /\ UNCHANGED introVars)
=============================================================================
