---------------------------- MODULE OutboxPromise ----------------------------
(***************************************************************************)
(* What the email outbox promises, whatever its tables, its runs and its    *)
(* webhooks do: an email is worked on by at most one run at a time, is      *)
(* tried at most MaxTries times, and once it is settled nobody tries it     *)
(* again.  A run that dies takes its emails with it: they are lost, unless  *)
(* the provider reports on them later.  Of an email that the provider says  *)
(* it failed to deliver, nothing is promised but that tries are counted.    *)
(***************************************************************************)
EXTENDS Naturals

CONSTANTS Emails, MaxTries

VARIABLES state,   \* where each email stands
          tries    \* how often it was taken up

States == {"absent", "waiting", "held", "lost", "settled", "disputed"}

Init ==
    /\ state = [e \in Emails |-> "absent"]
    /\ tries = [e \in Emails |-> 0]

Owe(e) ==
    /\ state[e] = "absent"
    /\ state' = [state EXCEPT ![e] = "waiting"]
    /\ UNCHANGED tries

\* A run takes up a batch of waiting emails in one step.
Take(batch) ==
    /\ \A e \in batch : state[e] = "disputed" \/ (state[e] = "waiting" /\ tries[e] < MaxTries)
    /\ state' = [e \in Emails |-> IF e \in batch /\ state[e] = "waiting" THEN "held" ELSE state[e]]
    /\ tries' = [e \in Emails |-> IF e \in batch THEN tries[e] + 1 ELSE tries[e]]

\* The send failed and may be tried again.
PutBack(e) ==
    /\ state[e] = "held"
    /\ tries[e] < MaxTries
    /\ state' = [state EXCEPT ![e] = "waiting"]
    /\ UNCHANGED tries

\* The email is sent or given up, or the provider reports on an earlier try.
Settle(e) ==
    /\ state[e] \in {"waiting", "held", "lost"}
    /\ state' = [state EXCEPT ![e] = "settled"]
    /\ UNCHANGED tries

\* The provider reports that it failed to deliver the email, at any time after a try.
Dispute(e) ==
    /\ state[e] # "absent"
    /\ state' = [state EXCEPT ![e] = "disputed"]
    /\ UNCHANGED tries

\* A run dies; what the provider has reported on meanwhile counts as settled.
Lose(batch, reported) ==
    /\ \A e \in batch : state[e] = "held"
    /\ reported \subseteq batch
    /\ state' = [e \in Emails |-> IF e \in reported THEN "settled"
                                  ELSE IF e \in batch THEN "lost" ELSE state[e]]
    /\ UNCHANGED tries

Next ==
    \/ \E e \in Emails : Owe(e) \/ PutBack(e) \/ Settle(e) \/ Dispute(e)
    \/ \E batch \in SUBSET Emails :
         Take(batch) \/ \E reported \in SUBSET batch : Lose(batch, reported)

Spec == Init /\ [][Next]_<<state, tries>>
=============================================================================
