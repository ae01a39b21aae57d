----------------------------- MODULE EmailOutbox -----------------------------
(***************************************************************************)
(* Product email: rows of `email_outbox` are claimed by runs of the script  *)
(* processEmailOutbox.ts, handed to Resend one by one, and updated again by *)
(* the webhook through which Resend reports what became of a message.       *)
(* Reports come late, repeatedly and in any order.                          *)
(***************************************************************************)
EXTENDS Naturals, FiniteSets

CONSTANTS Emails,      \* outbox rows, numbered in the order of their created_at
          Runs,        \* runs of the script
          Handlers,    \* requests to the webhook that are in progress
          Messages,    \* bound: the message ids Resend can hand out
          NoEmail, NoMessage,
          BatchLimit,  \* the script's limit argument
          EventTypes,  \* the reports Resend makes
          MaxFailures, \* bound: how often Resend reports the failure of one message
          MayCrash     \* whether runs and requests can die

AllEventTypes == {"sent", "delivered", "bounced", "complained", "failed"}

ASSUME OutboxAssumption ==
    /\ Emails \subseteq Nat
    /\ NoEmail \notin Emails
    /\ NoMessage \notin Messages
    /\ BatchLimit \in Nat \ {0}
    /\ EventTypes \subseteq AllEventTypes
    /\ MaxFailures \in Nat
    /\ MayCrash \in BOOLEAN

VARIABLES outbox,     \* the `email_outbox` table
          recorded,   \* the `email_delivery_events` table
          runs,       \* local state of each run
          handlers,   \* local state of each webhook request
          messageOf,  \* Resend: the email a message id was given to
          reported,   \* Resend: what it has reported of a message
          failures    \* Resend: how often it has called the webhook about a failed message

vars == <<outbox, recorded, runs, handlers, messageOf, reported, failures>>

OutboxStatus == {"absent", "pending", "sending", "sent", "delivered", "failed_retryable",
                 "failed_permanent", "bounced", "complained"}

Row == [status   : OutboxStatus,
        attempts : Nat,
        due      : BOOLEAN,                        \* next_attempt_at has passed
        message  : Messages \cup {NoMessage}]

\* batch[e] is the attempt_count of e that the claim returned, or 0.
Run == [pc      : {"idle", "send", "mark_sent", "mark_failed"},
        batch   : [Emails -> Nat],
        email   : Emails \cup {NoEmail},
        message : Messages \cup {NoMessage}]

Handler == [pc      : {"idle", "record", "update"},
            message : Messages \cup {NoMessage},
            type    : AllEventTypes \cup {"none"},
            email   : Emails \cup {NoEmail}]

Event == [message : Messages, type : EventTypes, email : Emails \cup {NoEmail}]

IdleRun == [pc |-> "idle", batch |-> [e \in Emails |-> 0], email |-> NoEmail,
            message |-> NoMessage]

IdleHandler == [pc |-> "idle", message |-> NoMessage, type |-> "none", email |-> NoEmail]

TypeOK ==
    /\ outbox \in [Emails -> Row]
    /\ recorded \subseteq Event
    /\ runs \in [Runs -> Run]
    /\ \A r \in Runs : runs[r].pc \in {"mark_sent", "mark_failed"} =>
         runs[r].email \in Emails /\ runs[r].batch[runs[r].email] > 0
    /\ \A r \in Runs : runs[r].pc = "idle" => runs[r] = IdleRun
    /\ handlers \in [Handlers -> Handler]
    /\ \A h \in Handlers : handlers[h].pc # "idle" => handlers[h].type \in EventTypes
    /\ messageOf \in [Messages -> Emails \cup {NoEmail}]
    /\ reported \in [Messages -> SUBSET EventTypes]
    /\ failures \in [Messages -> Nat]

Init ==
    /\ outbox = [e \in Emails |-> [status |-> "absent", attempts |-> 0, due |-> TRUE,
                                   message |-> NoMessage]]
    /\ recorded = {}
    /\ runs = [r \in Runs |-> IdleRun]
    /\ handlers = [h \in Handlers |-> IdleHandler]
    /\ messageOf = [m \in Messages |-> NoEmail]
    /\ reported = [m \in Messages |-> {}]
    /\ failures = [m \in Messages |-> 0]

Held(r, e) == runs[r].batch[e] > 0

-----------------------------------------------------------------------------
\* Product events.

\* enqueue_email_outbox: the triggers insert a row, or do nothing when the
\* idempotency key is there.
EnqueueEmail(e) ==
    /\ outbox[e].status = "absent"
    /\ \A f \in Emails : f < e => outbox[f].status # "absent"
    /\ outbox' = [outbox EXCEPT ![e] = [status |-> "pending", attempts |-> 0, due |-> TRUE,
                                        message |-> NoMessage]]
    /\ UNCHANGED <<recorded, runs, handlers, messageOf, reported, failures>>

\* next_attempt_at passes.
BackoffElapses(e) ==
    /\ ~outbox[e].due
    /\ outbox' = [outbox EXCEPT ![e].due = TRUE]
    /\ UNCHANGED <<recorded, runs, handlers, messageOf, reported, failures>>

-----------------------------------------------------------------------------
\* A run of the script.

\* Mutants: rows that were left in `sending` are picked up too; retries are not.
ClaimableWithSending ==
    {e \in Emails : outbox[e].status \in {"pending", "failed_retryable", "sending"} /\ outbox[e].due}
ClaimablePendingOnly == {e \in Emails : outbox[e].status = "pending" /\ outbox[e].due}

Claimable == {e \in Emails : outbox[e].status \in {"pending", "failed_retryable"} /\ outbox[e].due}

\* The oldest rows of a set, at most BatchLimit of them.
OldestOf(rows) ==
    {e \in rows : Cardinality({f \in rows : f < e}) < BatchLimit}

\* Mutant: the claim leaves the count to the failure path.
ClaimedRowUncounted(row) ==
    [status |-> "sending", attempts |-> row.attempts, due |-> row.due, message |-> row.message]

\* The claim counts the attempt.
ClaimedRow(row) ==
    [status |-> "sending", attempts |-> row.attempts + 1, due |-> row.due,
     message |-> row.message]

\* claim_email_outbox: one statement, FOR UPDATE SKIP LOCKED, returns the rows
\* it has just updated.
Claim(r) ==
    LET batch == OldestOf(Claimable) IN
    /\ runs[r].pc = "idle"
    /\ batch # {}
    /\ outbox' = [e \in Emails |->
                    IF e \in batch THEN ClaimedRow(outbox[e]) ELSE outbox[e]]
    /\ runs' = [runs EXCEPT ![r] =
                  [pc |-> "send",
                   batch |-> [e \in Emails |-> IF e \in batch THEN outbox[e].attempts + 1 ELSE 0],
                   email |-> NoEmail, message |-> NoMessage]]
    /\ UNCHANGED <<recorded, handlers, messageOf, reported, failures>>

\* The run goes on to pc with the email it is sending.
Proceed(r, pc, e, m) ==
    runs' = [runs EXCEPT ![r] = [pc |-> pc, batch |-> runs[r].batch, email |-> e, message |-> m]]

\* Resend takes the email and gives it the message id m.
Accept(e, m) ==
    /\ messageOf[m] = NoEmail
    /\ messageOf' = [messageOf EXCEPT ![m] = e]

SendAccepted(r, e, m) ==
    /\ runs[r].pc = "send"
    /\ Held(r, e)
    /\ Accept(e, m)
    /\ Proceed(r, "mark_sent", e, m)
    /\ UNCHANGED <<outbox, recorded, handlers, reported, failures>>

\* Mutant: an error answer is taken for an accepted email.
SendRefusedUnseen(r, e) ==
    /\ runs[r].pc = "send"
    /\ Held(r, e)
    /\ Proceed(r, "mark_sent", e, NoMessage)
    /\ UNCHANGED <<outbox, recorded, handlers, messageOf, reported, failures>>

\* Rendering or the request fails and Resend has no message.
SendRefused(r, e) ==
    /\ runs[r].pc = "send"
    /\ Held(r, e)
    /\ Proceed(r, "mark_failed", e, NoMessage)
    /\ UNCHANGED <<outbox, recorded, handlers, messageOf, reported, failures>>

\* Resend took the email, but its answer did not arrive.
SendLost(r, e, m) ==
    /\ runs[r].pc = "send"
    /\ Held(r, e)
    /\ Accept(e, m)
    /\ Proceed(r, "mark_failed", e, NoMessage)
    /\ UNCHANGED <<outbox, recorded, handlers, reported, failures>>

\* The next email of the batch, if there is one.
NextEmail(r) ==
    LET batch == [runs[r].batch EXCEPT ![runs[r].email] = 0] IN
    runs' = [runs EXCEPT ![r] =
               IF \E e \in Emails : batch[e] > 0
               THEN [pc |-> "send", batch |-> batch, email |-> NoEmail, message |-> NoMessage]
               ELSE IdleRun]

\* The row becomes `sent`, by id.
UpdateSent(r) ==
    outbox' = [outbox EXCEPT ![runs[r].email] =
                 [status |-> "sent", attempts |-> @.attempts, due |-> @.due,
                  message |-> runs[r].message]]

MarkSent(r) ==
    /\ runs[r].pc = "mark_sent"
    /\ UpdateSent(r)
    /\ NextEmail(r)
    /\ UNCHANGED <<recorded, handlers, messageOf, reported, failures>>

\* The update of a sent row reports an error, whether it took effect or not,
\* and the error is handled like a failed send.
MarkSentFails(r) ==
    /\ runs[r].pc = "mark_sent"
    /\ UpdateSent(r) \/ UNCHANGED outbox
    /\ Proceed(r, "mark_failed", runs[r].email, NoMessage)
    /\ UNCHANGED <<recorded, handlers, messageOf, reported, failures>>

StatusAfterFailure(attempts) ==
    IF attempts + 1 >= 3 THEN "failed_permanent" ELSE "failed_retryable"

MarkFailed(r) ==
    LET e == runs[r].email IN
    /\ runs[r].pc = "mark_failed"
    /\ outbox' = [outbox EXCEPT ![e] =
                    [status |-> StatusAfterFailure(runs[r].batch[e]), attempts |-> @.attempts,
                     due |-> FALSE, message |-> @.message]]
    /\ NextEmail(r)
    /\ UNCHANGED <<recorded, handlers, messageOf, reported, failures>>

\* The script dies, or the update after a failure throws: what is left of the
\* batch stays behind.
RunCrash(r) ==
    /\ MayCrash
    /\ runs[r].pc # "idle"
    /\ runs' = [runs EXCEPT ![r] = IdleRun]
    /\ UNCHANGED <<outbox, recorded, handlers, messageOf, reported, failures>>

-----------------------------------------------------------------------------
\* Resend and the webhook.

\* What can follow what Resend has reported of a message.
Reportable(m) ==
    {type \in EventTypes \ reported[m] :
       /\ type \in {"delivered", "bounced", "failed"}
            => reported[m] \cap {"delivered", "bounced", "failed"} = {}
       /\ type = "complained" => "delivered" \in reported[m]}

Report(m) ==
    /\ messageOf[m] # NoEmail
    /\ \E type \in Reportable(m) : reported' = [reported EXCEPT ![m] = @ \cup {type}]
    /\ UNCHANGED <<outbox, recorded, runs, handlers, messageOf, failures>>

\* A report arrives, for the first time or again: the row is looked up.  A lookup
\* that fails is taken for one that finds nothing.
ReceiveEvent(h, m) ==
    /\ handlers[h] = IdleHandler
    /\ \E type \in reported[m], e \in {f \in Emails : outbox[f].message = m} \cup {NoEmail} :
         /\ type = "failed" => failures[m] < MaxFailures
         /\ failures' = IF type = "failed" THEN [failures EXCEPT ![m] = @ + 1] ELSE failures
         /\ handlers' = [handlers EXCEPT ![h] = [pc |-> "record", message |-> m, type |-> type,
                                                 email |-> e]]
    /\ UNCHANGED <<outbox, recorded, runs, messageOf, reported>>

\* The event is upserted by its provider event id; one that is known goes on
\* like a new one.
RecordEvent(h) ==
    LET event == [message |-> handlers[h].message, type |-> handlers[h].type,
                  email |-> handlers[h].email] IN
    /\ handlers[h].pc = "record"
    /\ recorded' = {v \in recorded : v.message # event.message \/ v.type # event.type}
                     \cup {event}
    /\ handlers' = [handlers EXCEPT ![h] =
                      IF event.email = NoEmail THEN IdleHandler
                      ELSE [pc |-> "update", message |-> event.message, type |-> event.type,
                            email |-> event.email]]
    /\ UNCHANGED <<outbox, runs, messageOf, reported, failures>>

\* mapEventToStatus
StatusOfEvent(type) == IF type = "failed" THEN "failed_retryable" ELSE type

UpdateStatus(h) ==
    LET e == handlers[h].email IN
    /\ handlers[h].pc = "update"
    /\ outbox' = [outbox EXCEPT ![e] =
                    [status |-> StatusOfEvent(handlers[h].type), attempts |-> @.attempts,
                     due |-> @.due, message |-> @.message]]
    /\ handlers' = [handlers EXCEPT ![h] = IdleHandler]
    /\ UNCHANGED <<recorded, runs, messageOf, reported, failures>>

HandlerCrash(h) ==
    /\ MayCrash
    /\ handlers[h].pc # "idle"
    /\ handlers' = [handlers EXCEPT ![h] = IdleHandler]
    /\ UNCHANGED <<outbox, recorded, runs, messageOf, reported, failures>>

-----------------------------------------------------------------------------

RunStep(r) ==
    \/ Claim(r)
    \/ \E e \in Emails : SendRefused(r, e)
    \/ \E e \in Emails, m \in Messages : SendAccepted(r, e, m) \/ SendLost(r, e, m)
    \/ MarkSent(r)
    \/ MarkSentFails(r)
    \/ MarkFailed(r)

HandlerStep(h) ==
    \/ \E m \in Messages : ReceiveEvent(h, m)
    \/ RecordEvent(h)
    \/ UpdateStatus(h)

Next ==
    \/ \E e \in Emails : EnqueueEmail(e) \/ BackoffElapses(e)
    \/ \E r \in Runs : RunStep(r) \/ RunCrash(r)
    \/ \E m \in Messages : Report(m)
    \/ \E h \in Handlers : HandlerStep(h) \/ HandlerCrash(h)

Spec == Init /\ [][Next]_vars

\* Somebody starts the script again and again, and time passes.
FairSpec ==
    /\ Spec
    /\ \A r \in Runs : WF_vars(RunStep(r))
    /\ \A e \in Emails : WF_vars(BackoffElapses(e))

-----------------------------------------------------------------------------
\* Properties

MessagesOf(e) == {m \in Messages : messageOf[m] = e}

\* Resend has reported that a message of the email failed: its report puts the row
\* back among the claimable ones whenever it comes.
Disputed(e) == \E m \in MessagesOf(e) : "failed" \in reported[m]

\* A row is in the batch of at most one run, although every update after the claim
\* is by id, until Resend reports a failed message of this very email
\* (claim_email_outbox, processDbEmail).
ExclusiveClaim ==
    \A r, s \in Runs, e \in Emails : Held(r, e) /\ Held(s, e) => r = s \/ Disputed(e)

\* Resend never gets an email more often than it was claimed: attempt_count
\* bounds what the recipient can see, under crashes, lost answers and whatever
\* the webhook writes into the row meanwhile.
SendsAreClaimed == \A e \in Emails : Cardinality(MessagesOf(e)) <= outbox[e].attempts

\* A row is only `sent` after Resend took the email, and only delivered,
\* bounced or complained when Resend reported that of a message of this email,
\* however late the report comes and whichever attempt it is about.
StatusIsReported ==
    \A e \in Emails :
        /\ outbox[e].status = "sent" => MessagesOf(e) # {}
        /\ outbox[e].status \in {"delivered", "bounced", "complained"} =>
             \E m \in MessagesOf(e) : outbox[e].status \in reported[m]

SettledStatus == {"sent", "delivered", "bounced", "complained", "failed_permanent"}

Settled(e) == outbox[e].status \in SettledStatus /\ \A r \in Runs : ~Held(r, e)

\* What a row, its runs and its reports amount to.
PromisedState(e) ==
    CASE Disputed(e) -> "disputed"
      [] ~Disputed(e) /\ (\E r \in Runs : Held(r, e)) -> "held"
      [] OTHER -> CASE outbox[e].status \in {"pending", "failed_retryable"} -> "waiting"
                    [] outbox[e].status = "sending" -> "lost"
                    [] outbox[e].status = "absent" -> "absent"
                    [] OTHER -> "settled"

Promise == INSTANCE OutboxPromise WITH
             MaxTries <- 2,
             state <- [e \in Emails |-> PromisedState(e)],
             tries <- [e \in Emails |-> outbox[e].attempts]

\* The outbox implements its promise: one run at a time, two tries, and a settled
\* email stays settled, each until Resend reports a failed message of it.
KeepsPromise == Promise!Spec

\* What a run that died left behind: nobody has the row, and no claim takes it.
Abandoned(e) == outbox[e].status = "sending" /\ \A r \in Runs : ~Held(r, e)

\* An email is settled in the end, unless a run that holds it dies: a row is not left behind
\* by backoff, by a late report of failure, by a failing neighbour in its batch or by the
\* death of another run.
EmailIsSettled ==
    \A e \in Emails : (outbox[e].status # "absent") ~> (Settled(e) \/ Abandoned(e))
-----------------------------------------------------------------------------
\* What the properties rest on: the invariants that a step preserves.

\* Rows, runs and requests name a message only together with the email it was
\* given to, and a request carries what was reported.
MessagesAreKnown ==
    /\ \A e \in Emails : outbox[e].message # NoMessage => messageOf[outbox[e].message] = e
    /\ \A r \in Runs : runs[r].pc = "mark_sent" =>
         runs[r].message \in Messages /\ messageOf[runs[r].message] = runs[r].email
    /\ \A h \in Handlers : handlers[h].pc # "idle" =>
         /\ handlers[h].message \in Messages
         /\ handlers[h].type \in reported[handlers[h].message]
         /\ handlers[h].pc = "update" => handlers[h].email \in Emails
         /\ handlers[h].email # NoEmail => messageOf[handlers[h].message] = handlers[h].email

\* The runs that have claimed e and not sent it yet.
Unsent(e) ==
    {r \in Runs : Held(r, e) /\ ~(runs[r].pc \in {"mark_sent", "mark_failed"} /\ runs[r].email = e)}

\* Every message of e, and every run that is still to send it, has an attempt
\* of its own that was counted.
Counted(e) ==
    /\ IsFiniteSet(MessagesOf(e))
    /\ IsFiniteSet(Unsent(e))
    /\ Cardinality(MessagesOf(e)) + Cardinality(Unsent(e)) <= outbox[e].attempts
    /\ outbox[e].status = "absent" => outbox[e].attempts = 0

AttemptsAreCounted == \A e \in Emails : Counted(e)

\* A row in a batch is not claimable and has the attempts that the claim returned;
\* a row that is claimable has a try left.
Guarded(e) ==
    /\ \A r \in Runs : Held(r, e) =>
         /\ outbox[e].status \notin {"absent", "pending", "failed_retryable"}
         /\ runs[r].batch[e] = outbox[e].attempts
    /\ outbox[e].attempts <= 2
    /\ outbox[e].status \in {"absent", "pending"} => outbox[e].attempts = 0
    /\ outbox[e].status = "failed_retryable" => outbox[e].attempts < 2
    /\ outbox[e].status = "absent" => MessagesOf(e) = {}

HeldIsNotClaimable == \A e \in Emails : Disputed(e) \/ Guarded(e)
=============================================================================
