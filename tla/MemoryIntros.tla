---------------------------- MODULE MemoryIntros ----------------------------
(***************************************************************************)
(* Intro requests of an API whose authMode is "test", over MemoryBilling.   *)
(* A create checks the pair and stores the request without an await in      *)
(* between; it reads the plan, counts the usage and charges the request     *)
(* only after it has stored it, with awaits in between.                     *)
(***************************************************************************)
EXTENDS MemoryBilling, FiniteSets

CONSTANTS Publishers,
          Manuscripts,
          AuthorOf,                \* the author profile of a manuscript
          Calls,                   \* creates under way
          NoPair,
          MaxRequests,             \* bound: requests stored
          TrialQuota, PaidQuota    \* introRequestsPerPeriod

Pairs == Manuscripts \X Publishers

ASSUME MemoryIntrosAssumption ==
    /\ Publishers \subseteq Profiles
    /\ AuthorOf \in [Manuscripts -> Profiles \ Publishers]
    /\ IsFiniteSet(Calls)
    /\ NoPair \notin Pairs
    /\ MaxRequests \in Nat
    /\ {TrialQuota, PaidQuota} \subseteq Nat \ {0}

VARIABLES requests,   \* introTestState.requests, oldest first
          ledger,     \* billingTestState.usageLedger
          calls,
          clear,      \* manuscripts that are eligible, with a sample that is checked and eligible
          evidence,   \* pairs that a match or an approved access request brought together
          notices,    \* introTestState.notifications
          mails       \* intro mails put in the outbox

introVars == <<requests, ledger, calls, clear, evidence, notices, mails>>

vars == <<billingVars, introVars>>

Author(pair) == AuthorOf[pair[1]]

Participants(pair) == {Author(pair), pair[2]}

Counterpart(pair, p) == IF p = pair[2] THEN Author(pair) ELSE pair[2]

Quota(plan) == IF plan = "trial" THEN TrialQuota ELSE PaidQuota

Status == {"pending", "accepted", "rejected", "cancelled"}

Request == [pair : Pairs, requester : Profiles, status : Status,
            cooling : BOOLEAN]   \* answered less than 14 days ago

Usage == [profile : Profiles, period : Nat, plan : Plans, request : Nat]

\* What a profile is told of a request.
Note == [request : Nat, status : Status, to : Profiles]

\* A create of requester for pair: the request it stored, the plan it read.
Call == [pc        : {"idle", "store", "plan", "count", "charge"},
         pair      : Pairs \cup {NoPair},
         requester : Profiles \cup {NoProfile},
         request   : Nat,
         period    : Nat,
         plan      : Plans]

IdleCall == [pc |-> "idle", pair |-> NoPair, requester |-> NoProfile,
             request |-> 0, period |-> 0, plan |-> "trial"]

IntroTypeOK ==
    /\ requests \in Seq(Request)
    /\ ledger \subseteq Usage
    /\ calls \in [Calls -> Call]
    /\ clear \subseteq Manuscripts
    /\ evidence \subseteq Pairs
    /\ notices \subseteq Note
    /\ mails \subseteq Note
    /\ \A i \in DOMAIN requests : requests[i].requester \in Participants(requests[i].pair)
    /\ \A c \in Calls : calls[c].pc # "idle" =>
         calls[c].pair \in Pairs /\ calls[c].requester \in Participants(calls[c].pair)

TypeOK == BillingTypeOK /\ IntroTypeOK

IntroInit ==
    /\ requests = <<>>
    /\ ledger = {}
    /\ calls = [c \in Calls |-> IdleCall]
    /\ clear \in SUBSET Manuscripts
    /\ evidence = {}
    /\ notices = {}
    /\ mails = {}

-----------------------------------------------------------------------------
\* The state of a pair

RequestsOf(pair, status) ==
    {i \in DOMAIN requests : requests[i].pair = pair /\ requests[i].status = status}

\* Only the answered request that was created last is asked whether it cools.
Cools(pair) ==
    LET answered == RequestsOf(pair, "rejected") \cup RequestsOf(pair, "cancelled") IN
    \E i \in answered : requests[i].cooling /\ \A j \in answered : j <= i

UsageOf(p, period) == {u \in ledger : u.profile = p /\ u.period = period}

\* Mutant: one request more than the limit.
ExhaustedLate(p, period, plan) == Cardinality(UsageOf(p, period)) > Quota(plan)

Exhausted(p, period, plan) == Cardinality(UsageOf(p, period)) >= Quota(plan)

\* The first live subscription in array order, not the one that ends last.
QuotaLeft(p) ==
    \E i \in DOMAIN subscriptions[p] :
        /\ Live(subscriptions[p][i])
        /\ \A j \in 1..(i - 1) : ~Live(subscriptions[p][j])
        /\ ~Exhausted(p, subscriptions[p][i].period, subscriptions[p][i].plan)

\* getTestIntroState says can_request.
CanRequest(pair, p) ==
    /\ RequestsOf(pair, "accepted") = {}
    /\ RequestsOf(pair, "pending") = {}
    /\ ~Cools(pair)
    /\ QuotaLeft(p)

PairEligible(pair) == Participants(pair) \subseteq eligible /\ pair[1] \in clear

-----------------------------------------------------------------------------
\* POST /api/v1/intro-requests

Stop(c) == calls' = [calls EXCEPT ![c] = IdleCall]

\* recordTestLifecycle tells the one who did not act.
Notify(i, status, pair, actor) ==
    notices' = notices \cup {[request |-> i, status |-> status, to |-> Counterpart(pair, actor)]}

\* assertEntitlementForAction lets the requester through.
BeginCreate(c, pair, p) ==
    /\ calls[c].pc = "idle"
    /\ p \in Participants(pair)
    /\ Active(p)
    /\ calls' = [calls EXCEPT ![c] = [IdleCall EXCEPT !.pc = "store", !.pair = pair, !.requester = p]]
    /\ UNCHANGED <<requests, ledger, clear, evidence, notices, mails>>

MayStore(c) ==
    /\ PairEligible(calls[c].pair)
    /\ calls[c].pair \in evidence
    /\ CanRequest(calls[c].pair, calls[c].requester)

StoreRequest(c) ==
    LET pair == calls[c].pair
        p == calls[c].requester
        i == Len(requests) + 1 IN
    /\ calls[c].pc = "store"
    /\ MayStore(c)
    /\ Len(requests) < MaxRequests
    /\ requests' = Append(requests, [pair |-> pair, requester |-> p,
                                     status |-> "pending", cooling |-> FALSE])
    /\ Notify(i, "pending", pair, p)
    /\ calls' = [calls EXCEPT ![c].pc = "plan", ![c].request = i]
    /\ UNCHANGED <<ledger, clear, evidence, mails>>

RefuseRequest(c) ==
    /\ calls[c].pc = "store"
    /\ ~MayStore(c)
    /\ Stop(c)
    /\ UNCHANGED <<requests, ledger, clear, evidence, notices, mails>>

\* consumeIntroRequestUsage takes a copy of the subscription that ends last.
ReadPlan(c) ==
    LET p == calls[c].requester IN
    /\ calls[c].pc = "plan"
    /\ \/ /\ Active(p)
          /\ calls' = [calls EXCEPT ![c].pc = "count", ![c].period = Current(p).period,
                                    ![c].plan = Current(p).plan]
       \/ ~Active(p) /\ Stop(c)
    /\ UNCHANGED <<requests, ledger, clear, evidence, notices, mails>>

WithinQuota(c) == ~Exhausted(calls[c].requester, calls[c].period, calls[c].plan)

\* A refusal leaves the request stored and its recipient notified.
CountUsage(c) ==
    /\ calls[c].pc = "count"
    /\ \/ WithinQuota(c) /\ calls' = [calls EXCEPT ![c].pc = "charge"]
       \/ ~WithinQuota(c) /\ Stop(c)
    /\ UNCHANGED <<requests, ledger, clear, evidence, notices, mails>>

\* Whom enqueueIntroEmailSafely writes to: the requester of an answer, else the recipient.
\* Mutant: a cancellation is mailed to the one who cancelled.
MailedToRequester(status, pair, requester) ==
    IF status = "pending" THEN Counterpart(pair, requester) ELSE requester

MailedTo(status, pair, requester) ==
    IF status \in {"accepted", "rejected"} THEN requester ELSE Counterpart(pair, requester)

Mail(i, status, pair, requester) ==
    mails' = mails \cup {[request |-> i, status |-> status,
                          to |-> MailedTo(status, pair, requester)]}

Charge(c) ==
    LET call == calls[c] IN
    /\ call.pc = "charge"
    /\ ledger' = ledger \cup {[profile |-> call.requester, period |-> call.period,
                               plan |-> call.plan, request |-> call.request]}
    /\ Mail(call.request, "pending", call.pair, call.requester)
    /\ Stop(c)
    /\ UNCHANGED <<requests, clear, evidence, notices>>

-----------------------------------------------------------------------------
\* transitionIntroRequest

\* actor answers request i.
Answer(i, status, actor) ==
    LET r == requests[i] IN
    /\ r.status = "pending"
    /\ requests' = [requests EXCEPT ![i].status = status, ![i].cooling = status # "accepted"]
    /\ Notify(i, status, r.pair, actor)
    /\ Mail(i, status, r.pair, r.requester)
    /\ UNCHANGED <<ledger, calls, clear, evidence>>

Recipient(i) == Counterpart(requests[i].pair, requests[i].requester)

Accept(i) == PairEligible(requests[i].pair) /\ Answer(i, "accepted", Recipient(i))

Reject(i) == Answer(i, "rejected", Recipient(i))

Cancel(i) == Answer(i, "cancelled", requests[i].requester)

CooldownEnds(i) ==
    /\ requests[i].cooling
    /\ requests' = [requests EXCEPT ![i].cooling = FALSE]
    /\ UNCHANGED <<ledger, calls, clear, evidence, notices, mails>>

\* Uploads, the processing of samples and decisions change which manuscripts are clear.
\* Here they change at will; MemoryDocuments has the steps that do it.
SamplesChange ==
    /\ clear' \in SUBSET Manuscripts
    /\ UNCHANGED <<requests, ledger, calls, evidence, notices, mails>>

\* A run of the matching or an approved access request.
FindEvidence(pair) ==
    /\ evidence' = evidence \cup {pair}
    /\ UNCHANGED <<requests, ledger, calls, clear, notices, mails>>

RequestNext ==
    \/ \E c \in Calls :
         \/ \E pair \in Pairs : \E p \in Participants(pair) : BeginCreate(c, pair, p)
         \/ StoreRequest(c) \/ RefuseRequest(c) \/ ReadPlan(c) \/ CountUsage(c) \/ Charge(c)
    \/ \E i \in DOMAIN requests : Accept(i) \/ Reject(i) \/ Cancel(i) \/ CooldownEnds(i)
    \/ \E pair \in Pairs : FindEvidence(pair)

IntroNext == RequestNext \/ SamplesChange

Init == BillingInit /\ IntroInit

Next ==
    \/ BillingNext /\ UNCHANGED introVars
    \/ IntroNext /\ UNCHANGED billingVars

Spec == Init /\ [][Next]_vars
-----------------------------------------------------------------------------
\* At most one request of a pair is pending or accepted (getTestIntroState), although no
\* index guards the array and many creates are under way: the check and the insert have
\* no await between them.
PairIsOpenOnce ==
    \A i, j \in DOMAIN requests :
        /\ requests[i].pair = requests[j].pair
        /\ {requests[i].status, requests[j].status} \subseteq {"pending", "accepted"}
        => i = j

\* The quota of a period is exceeded by no more than the creates that overlap
\* (consumeIntroRequestUsage counts, awaits, and charges).
OverrunIsBounded ==
    \A u \in ledger :
        Cardinality(UsageOf(u.profile, u.period)) < Quota(u.plan) + Cardinality(Calls)

\* Mail and notification tell the same profile the same thing, and a notification without
\* a mail is about a request that is still being charged or was refused its charge
\* (recordTestLifecycle and enqueueIntroEmailSafely work out the receiver on their own).
MailFollowsNotice ==
    /\ mails \subseteq notices
    /\ \A n \in notices \ mails :
         /\ n.status = "pending"
         /\ \A u \in ledger : u.request # n.request
=============================================================================
