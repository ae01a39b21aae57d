---------------------------- MODULE MCEmailOutbox ----------------------------
(* A small instance of EmailOutbox. Fairness tells runs and emails apart, so *)
(* there is no symmetry; two message ids are enough for an email to get the  *)
(* report of its first try during its second.                                *)
EXTENDS EmailOutbox, TLC

CONSTANTS m1, m2

MCEmails == 1..2

\* Resend hands out its ids in order: which of two unused ones it takes tells nobody anything.
\* One of the two messages fails, if any, and either may be delivered.  An event that is stored
\* without its email is read by nobody and changes no row: the run stops there.
MCBound ==
    /\ messageOf[m2] # NoEmail => messageOf[m1] # NoEmail
    /\ "failed" \notin reported[m1] \cap reported[m2]
    /\ \A v \in recorded : v.email # NoEmail
=============================================================================
