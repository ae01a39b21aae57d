------------------------------ MODULE MCMemory ------------------------------
(* A small instance of MemoryDocuments: an author a with three manuscripts    *)
(* and a publisher b.                                                        *)
EXTENDS MemoryDocuments, TLC

CONSTANTS a, b, d1, d2, d3, d4, m1, m2, m3

MCAuthorOf == [m \in Manuscripts |-> a]

MCManuscriptOf == [d \in Documents |-> IF d = d3 THEN m2 ELSE IF d = d4 THEN m3 ELSE m1]

MCSizeOf == [d \in Documents |-> IF d = d1 THEN 1 ELSE 2]

\* 31 January, 1 February and 1 March: a month leads to 3 March, 1 March and 1 April. The
\* moments after the last are 3 for 3 March and 4 for 1 April.
MCMonthEnd == [t \in 0..MaxTime |-> CASE t = 0 -> 3 [] t = 1 -> 2 [] OTHER -> 4]

MCYearEnd == [t \in 0..MaxTime |-> 5 + t]

MCSymmetry == Permutations(Calls) \cup Permutations(Orders) \cup Permutations(Uploads)

-----------------------------------------------------------------------------
\* Billing, documents and requests meet in a subscription, a sample and a period.  The bound
\* looks at them one at a time, the others being what the one needs.

NoMoney == now = 0 /\ \A e \in EventIds : events[e] = "none" /\ sessions[e[1]] = NoSession

NoRequests == requests = <<>> /\ evidence = {} /\ \A c \in Calls : calls[c] = IdleCall

NoDocuments == \A d \in Documents : documents[d].storage = "none"

\* A profile has at most its trial.
OnTrial(p) == Len(subscriptions[p]) <= 1 /\ \A i \in DOMAIN subscriptions[p] : Live(subscriptions[p][i])

\* Money: the author pays for a month, or for two of them, or for a month and a year, while
\* trials and repairs go on.
MoneyMoves ==
    /\ NoRequests /\ NoDocuments /\ subscriptions[b] = <<>> /\ starting[b] = 0
    /\ \A o \in Orders : events[<<o, "invalid_hash">>] = "none"
    /\ \E o \in Orders : sessions[o].plan # "annual"

\* Nobody has begun to process d.
Unprocessed(d) == documents[d].processing \in {"not_started", "queued"}

\* Uploads: the author is on trial; a sample is processed, decided about and replaced, or those
\* of two manuscripts are processed, and a file may come late, or three manuscripts get theirs.
SamplesMove ==
    /\ NoMoney /\ NoRequests /\ OnTrial(a) /\ Ready(a) /\ subscriptions[b] = <<>>
    /\ \A p \in Profiles : starting[p] = 0
    /\ Unprocessed(d2) /\ Unprocessed(d4)
    /\ ~Unprocessed(d3) => documents[d2].storage = "none"
    /\ documents[d3].storage # "none" => audits = <<>>
    /\ documents[d4].storage # "none" =>
         Unprocessed(d1) /\ Unprocessed(d3) /\ documents[d2].storage = "none"
    /\ \/ puts \subseteq {d1}
       \/ Cardinality(puts) = 1 /\ jobs = <<>>

\* Requests: a sample of m1 is there, and another upload may be about to replace it.
RequestsMove ==
    /\ NoMoney /\ \A i \in DOMAIN subscriptions[a] : subscriptions[a][i].status = "trialing"
    /\ \A p \in Profiles :
         /\ Len(subscriptions[p]) <= 1 /\ starting[p] <= 1
         /\ starting[p] = 1 => NoRequests
    /\ documents[d3].storage = "none" /\ documents[d4].storage = "none"
    /\ puts = {} /\ audits = <<>>
    /\ Len(requests) = 3 =>
         /\ documents[d2].storage = "none"
         /\ \A i \in 1..3 : requests[i].requester = b /\ requests[i].status # "cancelled"
    /\ documents[d1].processing = "succeeded"
    /\ Unprocessed(d2)
    /\ IF documents[d2].storage = "pending_upload"
       THEN d2 \in files /\ \E c \in Uploads : {x \in Uploads : uploads[x] # NoDocument} = {c}
       ELSE \A c \in Uploads : uploads[c] = NoDocument
    /\ evidence \subseteq {<<m1, b>>} /\ \A c \in Calls : calls[c].pair \in {NoPair, <<m1, b>>}

MCBound == MoneyMoves \/ SamplesMove \/ RequestsMove
=============================================================================
