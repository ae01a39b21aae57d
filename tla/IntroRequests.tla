---------------------------- MODULE IntroRequests ----------------------------
(***************************************************************************)
(* Intro requests between an author, with one manuscript, and a publisher.  *)
(* create_intro_request is a transaction of several statements, each of     *)
(* which sees what was committed before it; it counts the usage of the      *)
(* period under a lock of the subscription.                                 *)
(***************************************************************************)
EXTENDS Subscriptions, FiniteSets

CONSTANTS Authors, Publishers,
          Requests,                  \* bound: ids of requests
          NoPair, NoRequester,
          TrialQuota, PaidQuota      \* introRequestsPerPeriod

ASSUME IntroAssumption ==
    /\ Profiles = Authors \cup Publishers
    /\ Authors \cap Publishers = {}
    /\ NoPair \notin Authors \X Publishers
    /\ NoRequester \notin Profiles
    /\ {TrialQuota, PaidQuota} \subseteq Nat

VARIABLES requests,     \* `intro_requests`
          ledger,       \* `usage_ledger`
          creates,      \* calls of create_intro_request
          sampleReady   \* whether the current sample of an author is checked and eligible

introVars == <<requests, ledger, creates, sampleReady>>

Pairs == Authors \X Publishers

Participants(pair) == {pair[1], pair[2]}

Quota(plan) == IF plan = "trial" THEN TrialQuota ELSE PaidQuota

Request == [status    : {"none", "pending", "accepted", "rejected", "cancelled"},
            pair      : Pairs \cup {NoPair},
            requester : Profiles \cup {NoRequester},
            cooling   : BOOLEAN]     \* answered less than 14 days ago

NoRequest == [status |-> "none", pair |-> NoPair, requester |-> NoRequester, cooling |-> FALSE]

Usage == [profile : Profiles, period : Nat, plan : Plans, request : Requests]

CreateStep == {"idle", "accepted", "pending", "cooldown", "lock", "count", "insert"}

\* A call of requester for pair, and the subscription row it holds.
Create == [pc        : CreateStep,
           pair      : Pairs \cup {NoPair},
           requester : Profiles \cup {NoRequester},
           origin    : Origins,
           period    : Nat,
           plan      : Plans]

IdleCreate == [pc |-> "idle", pair |-> NoPair, requester |-> NoRequester,
               origin |-> "callback", period |-> 0, plan |-> "trial"]

Holds(c, p, o) ==
    /\ creates[c].pc \in {"count", "insert"}
    /\ creates[c].requester = p
    /\ creates[c].origin = o

IntroTypeOK ==
    /\ requests \in [Requests -> Request]
    /\ ledger \subseteq Usage
    /\ creates \in [Creates -> Create]
    /\ sampleReady \in [Authors -> BOOLEAN]
    /\ \A c \in Creates : creates[c].pc # "idle" =>
         /\ creates[c].pair \in Pairs
         /\ creates[c].requester \in Participants(creates[c].pair)
    /\ \A p \in Profiles, o \in Origins, c \in Creates : lock[p][o] = c <=> Holds(c, p, o)

IntroInit ==
    /\ requests = [r \in Requests |-> NoRequest]
    /\ ledger = {}
    /\ creates = [c \in Creates |-> IdleCreate]
    /\ sampleReady = [a \in Authors |-> TRUE]

RequestsOf(pair, status) == {r \in Requests : requests[r].pair = pair /\ requests[r].status = status}

-----------------------------------------------------------------------------
\* create_intro_request

Advance(c, pc) == creates' = [creates EXCEPT ![c].pc = pc]

\* The call fails: its transaction is rolled back and its lock is gone.
Refuse(c) ==
    /\ creates' = [creates EXCEPT ![c] = IdleCreate]
    /\ lock' = [p \in Profiles |->
                  [o \in Origins |-> IF lock[p][o] = c THEN NoCreate ELSE lock[p][o]]]

\* The API looks at the entitlement, at the eligibility of the pair and at the
\* evidence that brought it together, and then calls the RPC.
BeginCreate(c, pair, p) ==
    /\ creates[c].pc = "idle"
    /\ p \in Participants(pair)
    /\ \E o \in Latest(p) : Entitling(rows[p][o])
    /\ sampleReady[pair[1]]
    /\ creates' = [creates EXCEPT ![c] = [pc |-> "accepted", pair |-> pair, requester |-> p,
                                          origin |-> "callback", period |-> 0, plan |-> "trial"]]
    /\ UNCHANGED <<requests, ledger, sampleReady>>
    /\ UNCHANGED subscriptionVars

\* What each of the three statements looks for, and the statement after it.
InTheWay(check, pair) ==
    CASE check = "accepted" -> RequestsOf(pair, "accepted")
      [] check = "pending"  -> RequestsOf(pair, "pending")
      [] check = "cooldown" -> {r \in RequestsOf(pair, "rejected") \cup RequestsOf(pair, "cancelled") :
                                  requests[r].cooling}

AfterCheck == [accepted |-> "pending", pending |-> "cooldown", cooldown |-> "lock"]

CheckPair(c) ==
    /\ creates[c].pc \in DOMAIN AfterCheck
    /\ \/ /\ InTheWay(creates[c].pc, creates[c].pair) = {}
          /\ Advance(c, AfterCheck[creates[c].pc])
          /\ UNCHANGED lock
       \/ /\ InTheWay(creates[c].pc, creates[c].pair) # {}
          /\ Refuse(c)
    /\ UNCHANGED <<now, rows, trials, periods, requests, ledger, sampleReady>>

\* SELECT ... FOR UPDATE of the entitling row that ends last.
LockSubscription(c) ==
    LET p == creates[c].requester
        entitling == {o \in Origins : Entitling(rows[p][o])} IN
    /\ creates[c].pc = "lock"
    /\ \/ \E o \in entitling :
            /\ \A q \in entitling : rows[p][q].ends <= rows[p][o].ends
            /\ RowFree(p, o)
            /\ lock' = [lock EXCEPT ![p][o] = c]
            /\ creates' = [creates EXCEPT ![c] =
                             [pc |-> "count", pair |-> creates[c].pair, requester |-> p,
                              origin |-> o, period |-> rows[p][o].period, plan |-> rows[p][o].plan]]
       \/ entitling = {} /\ Refuse(c)
    /\ UNCHANGED <<now, rows, trials, periods, requests, ledger, sampleReady>>

UsageOf(p, period) == {u \in ledger : u.profile = p /\ u.period = period}

\* Mutant: the request that would exceed the quota is let through.
WithinQuotaInclusive(c) ==
    Cardinality(UsageOf(creates[c].requester, creates[c].period)) <= Quota(creates[c].plan)

WithinQuota(c) ==
    Cardinality(UsageOf(creates[c].requester, creates[c].period)) < Quota(creates[c].plan)

CountUsage(c) ==
    /\ creates[c].pc = "count"
    /\ \/ WithinQuota(c) /\ Advance(c, "insert") /\ UNCHANGED lock
       \/ ~WithinQuota(c) /\ Refuse(c)
    /\ UNCHANGED <<now, rows, trials, periods, requests, ledger, sampleReady>>

\* The inserts of the request and of its usage, and the commit; the unique index
\* refuses a second pending request of the pair.
InsertRequest(c, r) ==
    LET pair == creates[c].pair IN
    /\ creates[c].pc = "insert"
    /\ requests[r].status = "none"
    /\ RequestsOf(pair, "pending") = {}
    /\ requests' = [requests EXCEPT ![r] = [status |-> "pending", pair |-> pair,
                                            requester |-> creates[c].requester, cooling |-> FALSE]]
    /\ ledger' = ledger \cup {[profile |-> creates[c].requester, period |-> creates[c].period,
                               plan |-> creates[c].plan, request |-> r]}
    /\ Refuse(c)
    /\ UNCHANGED <<now, rows, trials, periods, sampleReady>>

\* The index refuses the row, or the connection is lost.
AbortCreate(c) ==
    /\ creates[c].pc # "idle"
    /\ Refuse(c)
    /\ UNCHANGED <<now, rows, trials, periods, requests, ledger, sampleReady>>

-----------------------------------------------------------------------------
\* transition_intro_request, one transaction under a lock of the request.

Answer(r, status) ==
    /\ requests' = [requests EXCEPT ![r] =
                      [status |-> status, pair |-> requests[r].pair,
                       requester |-> requests[r].requester, cooling |-> status # "accepted"]]
    /\ UNCHANGED <<ledger, creates, sampleReady>>
    /\ UNCHANGED subscriptionVars

\* The recipient accepts while the pair is eligible; a unique index allows one
\* accepted request of a pair.
Accept(r) ==
    /\ requests[r].status = "pending"
    /\ sampleReady[requests[r].pair[1]]
    /\ RequestsOf(requests[r].pair, "accepted") = {}
    /\ Answer(r, "accepted")

\* The recipient rejects, or the requester cancels.
Close(r) ==
    /\ requests[r].status = "pending"
    /\ \E status \in {"rejected", "cancelled"} : Answer(r, status)

CooldownEnds(r) ==
    /\ requests[r].cooling
    /\ requests' = [requests EXCEPT ![r].cooling = FALSE]
    /\ UNCHANGED <<ledger, creates, sampleReady>>
    /\ UNCHANGED subscriptionVars

\* The author replaces the sample, or the new one has been checked.
SampleChanges(a) ==
    /\ sampleReady' = [sampleReady EXCEPT ![a] = ~@]
    /\ UNCHANGED <<requests, ledger, creates>>
    /\ UNCHANGED subscriptionVars

-----------------------------------------------------------------------------

IntroNext ==
    \/ \E c \in Creates, pair \in Pairs, p \in Profiles : BeginCreate(c, pair, p)
    \/ \E c \in Creates :
         CheckPair(c) \/ LockSubscription(c) \/ CountUsage(c) \/ AbortCreate(c)
    \/ \E c \in Creates, r \in Requests : InsertRequest(c, r)
    \/ \E r \in Requests : Accept(r) \/ Close(r) \/ CooldownEnds(r)
    \/ \E a \in Authors : SampleChanges(a)

-----------------------------------------------------------------------------
\* Properties

\* No period is charged more requests than its plan allows, although calls
\* count and insert in different statements, and payments and repairs change the
\* subscription meanwhile (create_intro_request).
QuotaKept ==
    \A u \in ledger : Cardinality(UsageOf(u.profile, u.period)) <= Quota(u.plan)

\* A request is charged to the period that its requester has at the commit, in a
\* status that entitles: nothing moves the period on between the count and the
\* insert.
ChargesCurrentPeriod ==
    [][\A u \in ledger' \ ledger :
          \E o \in Origins : /\ rows[u.profile][o].period = u.period
                             /\ rows[u.profile][o].status \in {"trialing", "active"}]_<<introVars, subscriptionVars>>

\* The strengthening the last two need: a period belongs to one row of a profile
\* and was begun later than all others, and a trial row has used up the trial ...
PeriodInvariant ==
    \A p \in Profiles :
        /\ \A o \in Origins :
             /\ rows[p][o].period <= periods
             /\ rows[p][o].status # "none" => rows[p][o].period > 0
             /\ \A q \in Origins \ {o} :
                  rows[p][o].period = rows[p][q].period => rows[p][o].period = 0
        /\ rows[p]["trial_start"].status # "none" => p \in trials

\* ... the row a call holds entitles, in the period and with the plan it has read ...
LockInvariant ==
    \A c \in Creates : creates[c].pc \in {"count", "insert"} =>
        LET row == rows[creates[c].requester][creates[c].origin] IN
        /\ row.status \in {"trialing", "active"}
        /\ row.period = creates[c].period
        /\ row.plan = creates[c].plan

\* ... and charges name periods that were begun, each with one plan, and leave
\* room for what is about to be inserted.
LedgerInvariant ==
    /\ IsFiniteSet(ledger)
    /\ \A u \in ledger :
         /\ u.period <= periods
         /\ \A o \in Origins : rows[u.profile][o].period = u.period => rows[u.profile][o].plan = u.plan
         /\ \A v \in UsageOf(u.profile, u.period) : v.plan = u.plan
    /\ \A c \in Creates : creates[c].pc = "insert" => WithinQuota(c)

\* The three together are inductive: a period, its charges and the calls that are
\* about to charge it agree, whatever payments, repairs and other calls do.
QuotaInvariant == PeriodInvariant /\ LockInvariant /\ LedgerInvariant

\* "Accepted requests are terminal for the pair"
\* (docs/architecture/database.md:776): no request is pending beside it.
AcceptedIsTerminal ==
    \A pair \in Pairs : RequestsOf(pair, "accepted") # {} => RequestsOf(pair, "pending") = {}
=============================================================================
