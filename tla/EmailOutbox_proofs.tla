-------------------------- MODULE EmailOutbox_proofs --------------------------
(***************************************************************************)
(* Theorems about EmailOutbox, for every number of emails, runs, requests   *)
(* and messages, every batch limit, with and without crashes, whatever      *)
(* Resend reports.                                                          *)
(***************************************************************************)
EXTENDS EmailOutbox, FiniteSetTheorems, TLAPS

USE OutboxAssumption

-----------------------------------------------------------------------------
\* The local state of a run.

\* A step of a run that only moves it on.
LEMMA ProceedType ==
  ASSUME TypeOK, NEW r \in Runs, NEW pc \in {"send", "mark_sent", "mark_failed"},
         NEW e \in Emails, Held(r, e), NEW m \in Messages \cup {NoMessage}, Proceed(r, pc, e, m)
  PROVE  /\ runs' \in [Runs -> Run]
         /\ \A s \in Runs : runs'[s].pc \in {"mark_sent", "mark_failed"} =>
              runs'[s].email \in Emails /\ runs'[s].batch[runs'[s].email] > 0
<1>1. runs[r] \in Run
  BY DEF TypeOK
<1>2. runs' = [runs EXCEPT ![r] = [pc |-> pc, batch |-> runs[r].batch, email |-> e, message |-> m]]
  BY DEF Proceed
<1>3. [pc |-> pc, batch |-> runs[r].batch, email |-> e, message |-> m] \in Run
  BY <1>1 DEF Run
<1> QED
  BY <1>2, <1>3 DEF TypeOK, Held

\* What NextEmail leaves: the other runs as they were, and the run without its email.
LEMMA NextEmailFacts ==
  ASSUME TypeOK, NEW r \in Runs, runs[r].pc \in {"mark_sent", "mark_failed"}, NextEmail(r)
  PROVE  /\ runs' \in [Runs -> Run]
         /\ \A s \in Runs \ {r} : runs'[s] = runs[s]
         /\ runs'[r].pc \in {"idle", "send"} /\ (runs'[r].pc = "idle" => runs'[r] = IdleRun)
         /\ \A e \in Emails : runs'[r].batch[e] = IF e = runs[r].email THEN 0 ELSE runs[r].batch[e]
<1> DEFINE batch == [runs[r].batch EXCEPT ![runs[r].email] = 0]
<1>1. runs[r] \in Run /\ runs[r].email \in Emails
  BY DEF TypeOK
<1>2. batch \in [Emails -> Nat]
        /\ \A e \in Emails : batch[e] = IF e = runs[r].email THEN 0 ELSE runs[r].batch[e]
  BY <1>1 DEF Run
<1>3. CASE \E e \in Emails : batch[e] > 0
  <2> DEFINE next == [pc |-> "send", batch |-> batch, email |-> NoEmail, message |-> NoMessage]
  <2>1. runs' = [runs EXCEPT ![r] = next]
    BY <1>3 DEF NextEmail
  <2>2. next \in Run
    BY <1>2 DEF Run
  <2>3. runs' \in [Runs -> Run] /\ runs'[r] = next /\ \A s \in Runs \ {r} : runs'[s] = runs[s]
    BY <2>1, <2>2 DEF TypeOK
  <2> QED
    BY <2>3, <1>2
<1>4. CASE ~\E e \in Emails : batch[e] > 0
  <2>1. runs' = [runs EXCEPT ![r] = IdleRun]
    BY <1>4 DEF NextEmail
  <2>2. IdleRun \in Run
    BY DEF IdleRun, Run
  <2>3. \A e \in Emails : batch[e] = 0
    BY <1>2, <1>4
  <2>4. runs' \in [Runs -> Run] /\ runs'[r] = IdleRun /\ \A s \in Runs \ {r} : runs'[s] = runs[s]
    BY <2>1, <2>2 DEF TypeOK
  <2> QED
    BY <2>3, <2>4, <1>2 DEF IdleRun
<1> QED
  BY <1>3, <1>4

\* The claim: a subset of the claimable rows, with what it returns.
LEMMA ClaimFacts ==
  ASSUME TypeOK, NEW r \in Runs, Claim(r)
  PROVE  \E batch \in SUBSET Claimable :
           /\ runs[r].pc = "idle"
           /\ outbox' \in [Emails -> Row]
           /\ \A e \in Emails : outbox'[e] = IF e \in batch THEN ClaimedRow(outbox[e]) ELSE outbox[e]
           /\ runs' \in [Runs -> Run]
           /\ \A s \in Runs \ {r} : runs'[s] = runs[s]
           /\ runs'[r].pc = "send"
           /\ \A e \in Emails :
                runs'[r].batch[e] = IF e \in batch THEN outbox[e].attempts + 1 ELSE 0
<1> DEFINE batch == OldestOf(Claimable)
           claimed == [e \in Emails |-> IF e \in batch THEN outbox[e].attempts + 1 ELSE 0]
           next == [pc |-> "send", batch |-> claimed, email |-> NoEmail, message |-> NoMessage]
<1>1. batch \in SUBSET Claimable
  BY DEF OldestOf
<1>2. \A e \in Emails : outbox[e] \in Row /\ ClaimedRow(outbox[e]) \in Row
                          /\ outbox[e].attempts + 1 \in Nat
  BY DEF TypeOK, Row, OutboxStatus, ClaimedRow
<1>3. outbox' = [e \in Emails |-> IF e \in batch THEN ClaimedRow(outbox[e]) ELSE outbox[e]]
  BY DEF Claim
<1>4. runs' = [runs EXCEPT ![r] = next]
  BY DEF Claim
<1>5. next \in Run
  <2>1. claimed \in [Emails -> Nat]
    BY <1>2
  <2> QED
    BY <2>1 DEF Run
<1>6. outbox' \in [Emails -> Row]
  BY <1>2, <1>3
<1>7. runs' \in [Runs -> Run] /\ runs'[r] = next /\ \A s \in Runs \ {r} : runs'[s] = runs[s]
  BY <1>4, <1>5 DEF TypeOK
<1>8. runs[r].pc = "idle"
  BY DEF Claim
<1> QED
  BY <1>1, <1>3, <1>6, <1>7, <1>8

\* A row is set to another status by id.
LEMMA SetStatusType ==
  ASSUME TypeOK, NEW e \in Emails, NEW status \in OutboxStatus, NEW due \in BOOLEAN,
         NEW m \in Messages \cup {NoMessage},
         outbox' = [outbox EXCEPT ![e] = [status |-> status, attempts |-> @.attempts, due |-> due,
                                          message |-> m]]
  PROVE  /\ outbox' \in [Emails -> Row]
         /\ \A f \in Emails :
              /\ outbox'[f].attempts = outbox[f].attempts
              /\ outbox'[f].status = IF f = e THEN status ELSE outbox[f].status
              /\ outbox'[f].message = IF f = e THEN m ELSE outbox[f].message
<1>1. outbox[e] \in Row
  BY DEF TypeOK
<1>2. /\ outbox' \in [Emails -> Row]
      /\ outbox'[e] = [status |-> status, attempts |-> outbox[e].attempts, due |-> due,
                       message |-> m]
      /\ \A f \in Emails \ {e} : outbox'[f] = outbox[f]
  BY <1>1 DEF TypeOK, Row
<1> QED
  BY <1>2

LEMMA UpdateSentFacts ==
  ASSUME TypeOK, NEW r \in Runs, runs[r].pc = "mark_sent", UpdateSent(r)
  PROVE  /\ outbox' \in [Emails -> Row]
         /\ \A f \in Emails :
              /\ outbox'[f].attempts = outbox[f].attempts
              /\ outbox'[f].status = IF f = runs[r].email THEN "sent" ELSE outbox[f].status
              /\ outbox'[f].message = IF f = runs[r].email THEN runs[r].message
                                     ELSE outbox[f].message
<1> DEFINE e == runs[r].email
<1>1. e \in Emails /\ outbox[e] \in Row /\ runs[r] \in Run
  BY DEF TypeOK
<1>2. /\ outbox[e].due \in BOOLEAN
      /\ runs[r].message \in Messages \cup {NoMessage}
      /\ "sent" \in OutboxStatus
  BY <1>1 DEF Row, Run, OutboxStatus
<1>3. outbox' = [outbox EXCEPT ![e] = [status |-> "sent", attempts |-> @.attempts,
                                       due |-> outbox[e].due, message |-> runs[r].message]]
  BY <1>1 DEF UpdateSent, TypeOK
<1> QED
  BY <1>1, <1>2, <1>3, SetStatusType

LEMMA MarkFailedFacts ==
  ASSUME TypeOK, NEW r \in Runs, MarkFailed(r)
  PROVE  /\ outbox' \in [Emails -> Row]
         /\ \A f \in Emails :
              /\ outbox'[f].attempts = outbox[f].attempts
              /\ outbox'[f].status = IF f = runs[r].email THEN StatusAfterFailure(runs[r].batch[f])
                                     ELSE outbox[f].status
              /\ outbox'[f].message = outbox[f].message
<1> DEFINE e == runs[r].email
           status == StatusAfterFailure(runs[r].batch[e])
<1>1. e \in Emails /\ outbox[e] \in Row
  BY DEF TypeOK, MarkFailed
<1>2. status \in OutboxStatus
  BY DEF StatusAfterFailure, OutboxStatus
<1>3. outbox[e].message \in Messages \cup {NoMessage}
  BY <1>1 DEF Row
<1>4. outbox' = [outbox EXCEPT ![e] = [status |-> status, attempts |-> @.attempts, due |-> FALSE,
                                       message |-> outbox[e].message]]
  BY <1>1 DEF MarkFailed, TypeOK
<1> HIDE DEF status
<1>5. /\ outbox' \in [Emails -> Row]
      /\ \A f \in Emails :
           /\ outbox'[f].attempts = outbox[f].attempts
           /\ outbox'[f].status = IF f = e THEN status ELSE outbox[f].status
           /\ outbox'[f].message = outbox[f].message
  BY <1>1, <1>2, <1>3, <1>4, SetStatusType
<1> QED
  BY <1>5 DEF status

LEMMA UpdateStatusFacts ==
  ASSUME TypeOK, NEW h \in Handlers, UpdateStatus(h), handlers[h].email \in Emails
  PROVE  /\ outbox' \in [Emails -> Row]
         /\ \A f \in Emails :
              /\ outbox'[f].attempts = outbox[f].attempts
              /\ outbox'[f].status = IF f = handlers[h].email THEN StatusOfEvent(handlers[h].type)
                                     ELSE outbox[f].status
              /\ outbox'[f].message = outbox[f].message
<1> DEFINE e == handlers[h].email
           status == StatusOfEvent(handlers[h].type)
<1>1. outbox[e] \in Row /\ handlers[h].type \in EventTypes
  BY DEF TypeOK, UpdateStatus
<1>2. status \in OutboxStatus
  BY <1>1 DEF StatusOfEvent, OutboxStatus, AllEventTypes
<1>3. outbox[e].due \in BOOLEAN /\ outbox[e].message \in Messages \cup {NoMessage}
  BY <1>1 DEF Row
<1>4. outbox' = [outbox EXCEPT ![e] = [status |-> status, attempts |-> @.attempts,
                                       due |-> outbox[e].due, message |-> outbox[e].message]]
  BY <1>1 DEF UpdateStatus, TypeOK
<1> HIDE DEF status
<1>5. /\ outbox' \in [Emails -> Row]
      /\ \A f \in Emails :
           /\ outbox'[f].attempts = outbox[f].attempts
           /\ outbox'[f].status = IF f = e THEN status ELSE outbox[f].status
           /\ outbox'[f].message = outbox[f].message
  BY <1>1, <1>2, <1>3, <1>4, SetStatusType
<1> QED
  BY <1>5 DEF status

-----------------------------------------------------------------------------
\* Types, with what messages are known to be: the email that a request or a row
\* names is the one Resend gave the message to.

TypeInvariant == TypeOK /\ MessagesAreKnown

LEMMA TypeInit == Init => TypeInvariant
  BY DEF Init, TypeInvariant, TypeOK, MessagesAreKnown, Row, OutboxStatus, IdleRun, Run,
         IdleHandler, Handler

LEMMA RunStepType ==
  ASSUME TypeInvariant, NEW r \in Runs, RunStep(r) \/ RunCrash(r)
  PROVE  TypeInvariant'
<1>0. TypeOK /\ MessagesAreKnown
  BY DEF TypeInvariant
<1>1. CASE Claim(r)
  <2>1. UNCHANGED <<recorded, handlers, messageOf, reported, failures>>
    BY <1>1 DEF Claim
  <2>2. PICK batch \in SUBSET Claimable :
               /\ outbox' \in [Emails -> Row]
               /\ \A e \in Emails :
                    outbox'[e] = IF e \in batch THEN ClaimedRow(outbox[e]) ELSE outbox[e]
               /\ runs' \in [Runs -> Run]
               /\ \A s \in Runs \ {r} : runs'[s] = runs[s]
               /\ runs'[r].pc = "send"
    BY <1>0, <1>1, ClaimFacts
  <2>3. TypeOK'
    BY <1>0, <2>1, <2>2 DEF TypeOK
  <2>4. \A e \in Emails : outbox'[e].message = outbox[e].message
    BY <2>2 DEF ClaimedRow
  <2>5. MessagesAreKnown'
    BY <1>0, <2>1, <2>2, <2>4 DEF MessagesAreKnown
  <2> QED
    BY <2>3, <2>5 DEF TypeInvariant
<1>2. ASSUME NEW e \in Emails, SendRefused(r, e)
      PROVE  TypeInvariant'
  <2>1. Proceed(r, "mark_failed", e, NoMessage) /\ Held(r, e)
        /\ UNCHANGED <<outbox, recorded, handlers, messageOf, reported, failures>>
    BY <1>2 DEF SendRefused
  <2>2. /\ runs' \in [Runs -> Run]
        /\ \A s \in Runs : runs'[s].pc \in {"mark_sent", "mark_failed"} =>
             runs'[s].email \in Emails /\ runs'[s].batch[runs'[s].email] > 0
    BY <1>0, <2>1, ProceedType
  <2>3. runs'[r].pc = "mark_failed" /\ \A s \in Runs \ {r} : runs'[s] = runs[s]
    BY <1>0, <2>1 DEF Proceed, TypeOK
  <2> QED
    BY <1>0, <2>1, <2>2, <2>3 DEF TypeInvariant, TypeOK, MessagesAreKnown
<1>3. ASSUME NEW e \in Emails, NEW m \in Messages, NEW pc \in {"mark_sent", "mark_failed"},
             NEW n \in Messages \cup {NoMessage}, pc = "mark_sent" => n = m,
             Held(r, e), Accept(e, m), Proceed(r, pc, e, n),
             UNCHANGED <<outbox, recorded, handlers, reported, failures>>
      PROVE  TypeInvariant'
  <2>1. /\ runs' \in [Runs -> Run]
        /\ \A s \in Runs : runs'[s].pc \in {"mark_sent", "mark_failed"} =>
             runs'[s].email \in Emails /\ runs'[s].batch[runs'[s].email] > 0
    BY <1>0, <1>3, ProceedType
  <2>2. /\ runs'[r].pc = pc /\ runs'[r].email = e /\ runs'[r].message = n
        /\ \A s \in Runs \ {r} : runs'[s] = runs[s]
    BY <1>0, <1>3 DEF Proceed, TypeOK
  <2>3. /\ messageOf' \in [Messages -> Emails \cup {NoEmail}]
        /\ messageOf'[m] = e
        /\ \A k \in Messages : messageOf[k] # NoEmail => messageOf'[k] = messageOf[k]
    BY <1>0, <1>3 DEF Accept, TypeOK
  <2>4. TypeOK'
    BY <1>0, <1>3, <2>1, <2>2, <2>3 DEF TypeOK
  <2>5. \A f \in Emails : outbox'[f].message # NoMessage => messageOf'[outbox'[f].message] = f
    BY <1>0, <1>3, <2>3 DEF MessagesAreKnown, TypeOK, Row
  <2>6. \A s \in Runs : runs'[s].pc = "mark_sent" =>
          runs'[s].message \in Messages /\ messageOf'[runs'[s].message] = runs'[s].email
    BY <1>0, <1>3, <2>2, <2>3 DEF MessagesAreKnown, TypeOK
  <2>7. \A h \in Handlers : handlers[h].pc # "idle" /\ handlers[h].email # NoEmail =>
          handlers[h].email \in Emails /\ messageOf'[handlers[h].message] = handlers[h].email
    BY <1>0, <2>3 DEF MessagesAreKnown, TypeOK, Handler
  <2> QED
    BY <1>0, <1>3, <2>4, <2>5, <2>6, <2>7 DEF TypeInvariant, MessagesAreKnown
<1>4. ASSUME NEW e \in Emails, NEW m \in Messages, SendAccepted(r, e, m)
      PROVE  TypeInvariant'
  BY <1>3, <1>4 DEF SendAccepted
<1>5. ASSUME NEW e \in Emails, NEW m \in Messages, SendLost(r, e, m)
      PROVE  TypeInvariant'
  BY <1>3, <1>5 DEF SendLost
<1>6. CASE MarkSent(r)
  <2>1. runs[r].pc = "mark_sent" /\ UpdateSent(r) /\ NextEmail(r)
        /\ UNCHANGED <<recorded, handlers, messageOf, reported, failures>>
    BY <1>6 DEF MarkSent
  <2>2. TypeOK'
    BY <1>0, <2>1, UpdateSentFacts, NextEmailFacts DEF TypeOK
  <2>3. \A f \in Emails : outbox'[f].message # NoMessage => messageOf'[outbox'[f].message] = f
    <3>1. \A f \in Emails :
            outbox'[f].message = IF f = runs[r].email THEN runs[r].message ELSE outbox[f].message
      BY <1>0, <2>1, UpdateSentFacts
    <3>2. messageOf[runs[r].message] = runs[r].email /\ messageOf' = messageOf
      BY <1>0, <2>1 DEF MessagesAreKnown
    <3> QED
      BY <1>0, <3>1, <3>2 DEF MessagesAreKnown
  <2>4. \A s \in Runs : runs'[s].pc = "mark_sent" =>
          runs'[s].message \in Messages /\ messageOf'[runs'[s].message] = runs'[s].email
    BY <1>0, <2>1, NextEmailFacts DEF MessagesAreKnown
  <2> QED
    BY <1>0, <2>1, <2>2, <2>3, <2>4 DEF TypeInvariant, MessagesAreKnown
<1>7. CASE MarkSentFails(r)
  <2>1. runs[r].pc = "mark_sent" /\ (UpdateSent(r) \/ UNCHANGED outbox)
        /\ Proceed(r, "mark_failed", runs[r].email, NoMessage)
        /\ UNCHANGED <<recorded, handlers, messageOf, reported, failures>>
    BY <1>7 DEF MarkSentFails
  <2>2. runs[r].email \in Emails /\ Held(r, runs[r].email)
    BY <1>0, <2>1 DEF TypeOK, Held
  <2>3. /\ runs' \in [Runs -> Run]
        /\ \A s \in Runs : runs'[s].pc \in {"mark_sent", "mark_failed"} =>
             runs'[s].email \in Emails /\ runs'[s].batch[runs'[s].email] > 0
    BY <1>0, <2>1, <2>2, ProceedType
  <2>4. runs'[r].pc = "mark_failed" /\ \A s \in Runs \ {r} : runs'[s] = runs[s]
    BY <1>0, <2>1 DEF Proceed, TypeOK
  <2>5. /\ outbox' \in [Emails -> Row]
        /\ \A f \in Emails : outbox'[f].message # NoMessage => messageOf'[outbox'[f].message] = f
    BY <1>0, <2>1, UpdateSentFacts DEF MessagesAreKnown, TypeOK
  <2> QED
    BY <1>0, <2>1, <2>3, <2>4, <2>5 DEF TypeInvariant, TypeOK, MessagesAreKnown
<1>8. CASE MarkFailed(r)
  <2>1. runs[r].pc = "mark_failed" /\ NextEmail(r)
        /\ UNCHANGED <<recorded, handlers, messageOf, reported, failures>>
    BY <1>8 DEF MarkFailed
  <2>2. TypeOK'
    BY <1>0, <1>8, <2>1, MarkFailedFacts, NextEmailFacts DEF TypeOK
  <2>3. \A f \in Emails : outbox'[f].message # NoMessage => messageOf'[outbox'[f].message] = f
    BY <1>0, <1>8, <2>1, MarkFailedFacts DEF MessagesAreKnown
  <2>4. \A s \in Runs : runs'[s].pc = "mark_sent" =>
          runs'[s].message \in Messages /\ messageOf'[runs'[s].message] = runs'[s].email
    BY <1>0, <2>1, NextEmailFacts DEF MessagesAreKnown
  <2> QED
    BY <1>0, <2>1, <2>2, <2>3, <2>4 DEF TypeInvariant, MessagesAreKnown
<1>9. CASE RunCrash(r)
  BY <1>0, <1>9 DEF RunCrash, TypeInvariant, TypeOK, MessagesAreKnown, IdleRun, Run
<1> QED
  BY <1>1, <1>2, <1>4, <1>5, <1>6, <1>7, <1>8, <1>9 DEF RunStep

LEMMA HandlerStepType ==
  ASSUME TypeInvariant, NEW h \in Handlers, HandlerStep(h) \/ HandlerCrash(h)
  PROVE  TypeInvariant'
<1>0. TypeOK /\ MessagesAreKnown
  BY DEF TypeInvariant
<1>1. IdleHandler \in Handler
  BY DEF IdleHandler, Handler
<1>2. ASSUME NEW m \in Messages, ReceiveEvent(h, m)
      PROVE  TypeInvariant'
  <2>1. PICK type \in reported[m], e \in {f \in Emails : outbox[f].message = m} \cup {NoEmail} :
               handlers' = [handlers EXCEPT ![h] = [pc |-> "record", message |-> m, type |-> type,
                                                    email |-> e]]
    BY <1>2 DEF ReceiveEvent
  <2> DEFINE next == [pc |-> "record", message |-> m, type |-> type, email |-> e]
  <2>2. type \in EventTypes /\ next \in Handler
    BY <1>0 DEF TypeOK, Handler
  <2>3. /\ handlers' \in [Handlers -> Handler] /\ handlers'[h] = next
        /\ \A k \in Handlers \ {h} : handlers'[k] = handlers[k]
    BY <1>0, <2>1, <2>2 DEF TypeOK
  <2>4. e # NoEmail => messageOf[m] = e
    BY <1>0 DEF MessagesAreKnown
  <2>5. UNCHANGED <<outbox, recorded, runs, messageOf, reported>> /\ failures' \in [Messages -> Nat]
    BY <1>0, <1>2 DEF ReceiveEvent, TypeOK
  <2>6. TypeOK'
    BY <1>0, <2>2, <2>3, <2>5 DEF TypeOK
  <2>7. MessagesAreKnown'
    BY <1>0, <2>3, <2>4, <2>5 DEF MessagesAreKnown
  <2> QED
    BY <2>6, <2>7 DEF TypeInvariant
<1>3. CASE RecordEvent(h)
  <2> DEFINE event == [message |-> handlers[h].message, type |-> handlers[h].type,
                       email |-> handlers[h].email]
             next == IF event.email = NoEmail THEN IdleHandler
                     ELSE [pc |-> "update", message |-> event.message, type |-> event.type,
                           email |-> event.email]
  <2>1. /\ handlers[h].pc = "record"
        /\ handlers' = [handlers EXCEPT ![h] = next]
        /\ recorded' \subseteq recorded \cup {event}
        /\ UNCHANGED <<outbox, runs, messageOf, reported, failures>>
    BY <1>3 DEF RecordEvent
  <2>2. /\ handlers[h] \in Handler /\ handlers[h].message \in Messages
        /\ handlers[h].type \in EventTypes
    BY <1>0, <2>1 DEF TypeOK, MessagesAreKnown
  <2>3. event \in Event /\ next \in Handler
    BY <1>1, <2>2 DEF Event, Handler
  <2>4. /\ handlers' \in [Handlers -> Handler] /\ handlers'[h] = next
        /\ \A k \in Handlers \ {h} : handlers'[k] = handlers[k]
    BY <1>0, <2>1, <2>3 DEF TypeOK
  <2>5. TypeOK'
    BY <1>0, <2>1, <2>2, <2>3, <2>4 DEF TypeOK, IdleHandler
  <2>6. next.pc # "idle" =>
          /\ next.message = handlers[h].message /\ next.type = handlers[h].type
          /\ next.email = handlers[h].email /\ next.email \in Emails
    BY <2>2 DEF Handler, IdleHandler
  <2>7. MessagesAreKnown'
    BY <1>0, <2>1, <2>4, <2>6 DEF MessagesAreKnown
  <2> QED
    BY <2>5, <2>7 DEF TypeInvariant
<1>4. ASSUME UNCHANGED <<recorded, runs, messageOf, reported, failures>>,
             handlers' = [handlers EXCEPT ![h] = IdleHandler],
             outbox' \in [Emails -> Row], \A f \in Emails : outbox'[f].message = outbox[f].message
      PROVE  TypeInvariant'
  BY <1>0, <1>1, <1>4 DEF TypeInvariant, TypeOK, MessagesAreKnown, IdleHandler
<1>5. CASE UpdateStatus(h)
  <2>1. handlers[h].email \in Emails
    BY <1>0, <1>5 DEF MessagesAreKnown, UpdateStatus
  <2>2. \A f \in Emails : outbox'[f].message = outbox[f].message
    BY <1>0, <1>5, <2>1, UpdateStatusFacts
  <2> QED
    BY <1>0, <1>4, <1>5, <2>1, <2>2, UpdateStatusFacts DEF UpdateStatus
<1>6. CASE HandlerCrash(h)
  BY <1>0, <1>4, <1>6 DEF HandlerCrash, TypeOK
<1> QED
  BY <1>2, <1>3, <1>5, <1>6 DEF HandlerStep

LEMMA TypeStep == TypeInvariant /\ [Next]_vars => TypeInvariant'
<1> SUFFICES ASSUME TypeInvariant, [Next]_vars PROVE TypeInvariant'
  OBVIOUS
<1>0. TypeOK /\ MessagesAreKnown
  BY DEF TypeInvariant
<1>1. ASSUME NEW e \in Emails, EnqueueEmail(e)
      PROVE  TypeInvariant'
  BY <1>0, <1>1 DEF EnqueueEmail, TypeInvariant, TypeOK, MessagesAreKnown, Row, OutboxStatus
<1>2. ASSUME NEW e \in Emails, BackoffElapses(e)
      PROVE  TypeInvariant'
  <2>1. outbox' = [outbox EXCEPT ![e].due = TRUE] /\ outbox[e] \in Row
        /\ UNCHANGED <<recorded, runs, handlers, messageOf, reported, failures>>
    BY <1>0, <1>2 DEF BackoffElapses, TypeOK
  <2>2. /\ outbox' \in [Emails -> Row]
        /\ \A f \in Emails : outbox'[f].message = outbox[f].message
    BY <1>0, <2>1 DEF TypeOK, Row
  <2> QED
    BY <1>0, <2>1, <2>2 DEF TypeInvariant, TypeOK, MessagesAreKnown
<1>3. ASSUME NEW m \in Messages, Report(m)
      PROVE  TypeInvariant'
  BY <1>0, <1>3 DEF Report, Reportable, TypeInvariant, TypeOK, MessagesAreKnown
<1>4. CASE UNCHANGED vars
  BY <1>0, <1>4 DEF vars, TypeInvariant, TypeOK, MessagesAreKnown
<1> QED
  BY <1>1, <1>2, <1>3, <1>4, RunStepType, HandlerStepType DEF Next

LEMMA TypeInvariantHolds == Spec => []TypeInvariant
  BY TypeInit, TypeStep, PTL DEF Spec

\* Every step of every program leaves tables, runs, requests and Resend's memory in
\* their types: no status that the table does not know, no update without its email.
THEOREM TypeCorrect == Spec => []TypeOK
<1>1. TypeInvariant => TypeOK
  BY DEF TypeInvariant
<1> QED
  BY <1>1, TypeInvariantHolds, PTL

-----------------------------------------------------------------------------
\* A status is reported.

\* Messages stay with their email and reports stay reported.
LEMMA HistoryGrows ==
  ASSUME TypeInvariant, [Next]_vars
  PROVE  \A m \in Messages : /\ messageOf[m] # NoEmail => messageOf'[m] = messageOf[m]
                             /\ reported[m] \subseteq reported'[m]
<1>0. TypeOK
  BY DEF TypeInvariant
<1>1. ASSUME NEW e \in Emails, NEW m \in Messages, Accept(e, m), UNCHANGED reported
      PROVE  \A n \in Messages : /\ messageOf[n] # NoEmail => messageOf'[n] = messageOf[n]
                                 /\ reported[n] \subseteq reported'[n]
  BY <1>0, <1>1 DEF Accept, TypeOK
<1>2. ASSUME NEW m \in Messages, Report(m)
      PROVE  \A n \in Messages : /\ messageOf[n] # NoEmail => messageOf'[n] = messageOf[n]
                                 /\ reported[n] \subseteq reported'[n]
  BY <1>0, <1>2 DEF Report, TypeOK
<1>3. CASE UNCHANGED <<messageOf, reported, failures>>
  BY <1>3
<1> QED
  BY <1>1, <1>2, <1>3 DEF Next, vars, EnqueueEmail, BackoffElapses, RunStep, RunCrash, HandlerStep,
     HandlerCrash, Claim, SendRefused, SendAccepted, SendLost, MarkSent, MarkSentFails, MarkFailed,
     ReceiveEvent, RecordEvent, UpdateStatus

ReportInvariant == TypeInvariant /\ StatusIsReported

\* A row whose status stays, or becomes one that says nothing of Resend.
LEMMA ReportedFrame ==
  ASSUME ReportInvariant, [Next]_vars, NEW e \in Emails,
         outbox'[e].status \in {outbox[e].status, "pending", "sending", "failed_retryable",
                                "failed_permanent"}
  PROVE  /\ outbox'[e].status = "sent" => MessagesOf(e)' # {}
         /\ outbox'[e].status \in {"delivered", "bounced", "complained"} =>
              \E m \in MessagesOf(e)' : outbox'[e].status \in reported'[m]
<1>1. \A m \in MessagesOf(e) : m \in MessagesOf(e)' /\ reported[m] \subseteq reported'[m]
  BY HistoryGrows DEF ReportInvariant, MessagesOf
<1> QED
  BY <1>1 DEF ReportInvariant, StatusIsReported

LEMMA ReportStep == ReportInvariant /\ [Next]_vars => ReportInvariant'
<1> SUFFICES ASSUME ReportInvariant, [Next]_vars PROVE ReportInvariant'
  OBVIOUS
<1> DEFINE Quiet == {"pending", "sending", "failed_retryable", "failed_permanent"}
           Backed(e) == /\ outbox'[e].status = "sent" => MessagesOf(e)' # {}
                        /\ outbox'[e].status \in {"delivered", "bounced", "complained"} =>
                             \E m \in MessagesOf(e)' : outbox'[e].status \in reported'[m]
<1>0. TypeInvariant /\ TypeOK /\ MessagesAreKnown /\ TypeInvariant'
  BY TypeStep DEF ReportInvariant, TypeInvariant
<1>1. ASSUME NEW e \in Emails, outbox'[e].status \in {outbox[e].status} \cup Quiet
      PROVE  Backed(e)
  BY <1>1, ReportedFrame
<1>2. ASSUME NEW e \in Emails, EnqueueEmail(e)
      PROVE  \A f \in Emails : Backed(f)
  BY <1>0, <1>1, <1>2 DEF EnqueueEmail, TypeOK
<1>3. ASSUME NEW e \in Emails, BackoffElapses(e)
      PROVE  \A f \in Emails : Backed(f)
  <2>1. \A f \in Emails : outbox'[f].status = outbox[f].status
    BY <1>0, <1>3 DEF BackoffElapses, TypeOK, Row
  <2> QED
    BY <1>1, <2>1
<1>4. ASSUME NEW r \in Runs, Claim(r)
      PROVE  \A f \in Emails : Backed(f)
  <2>1. \A f \in Emails : outbox'[f].status \in {outbox[f].status, "sending"}
    BY <1>4 DEF Claim, ClaimedRow
  <2> QED
    BY <1>1, <2>1
<1>5. ASSUME NEW r \in Runs, runs[r].pc = "mark_sent", UpdateSent(r), UNCHANGED messageOf
      PROVE  \A f \in Emails : Backed(f)
  <2>1. PICK e \in Emails : e = runs[r].email
    BY <1>0, <1>5 DEF TypeOK
  <2>2. \A f \in Emails : outbox'[f].status = IF f = e THEN "sent" ELSE outbox[f].status
    BY <1>0, <1>5, <2>1, UpdateSentFacts
  <2>3. runs[r].message \in Messages /\ messageOf[runs[r].message] = e
    BY <1>0, <1>5, <2>1 DEF MessagesAreKnown
  <2>4. runs[r].message \in MessagesOf(e)'
    BY <1>5, <2>3 DEF MessagesOf
  <2>5. Backed(e)
    BY <2>2, <2>4
  <2> QED
    BY <1>1, <2>2, <2>5
<1>6. ASSUME NEW r \in Runs, MarkFailed(r)
      PROVE  \A f \in Emails : Backed(f)
  <2>1. \A f \in Emails : outbox'[f].status = IF f = runs[r].email
                                              THEN StatusAfterFailure(runs[r].batch[f])
                                              ELSE outbox[f].status
    BY <1>0, <1>6, MarkFailedFacts
  <2> QED
    BY <1>1, <2>1 DEF StatusAfterFailure
<1>7. ASSUME NEW h \in Handlers, UpdateStatus(h)
      PROVE  \A f \in Emails : Backed(f)
  <2>0. handlers[h].email \in Emails /\ handlers[h].message \in Messages
    BY <1>0, <1>7 DEF UpdateStatus, MessagesAreKnown
  <2>1. PICK e \in Emails, m \in Messages : e = handlers[h].email /\ m = handlers[h].message
    BY <2>0
  <2>2. PICK type \in EventTypes : type = handlers[h].type
    BY <1>0, <1>7 DEF UpdateStatus, TypeOK
  <2>3. messageOf[m] = e /\ type \in reported[m]
    BY <1>0, <1>7, <2>1, <2>2 DEF UpdateStatus, MessagesAreKnown
  <2>4. \A f \in Emails : outbox'[f].status = IF f = e THEN StatusOfEvent(type) ELSE outbox[f].status
    BY <1>0, <1>7, <2>1, <2>2, UpdateStatusFacts
  <2>5. messageOf' = messageOf /\ reported' = reported
    BY <1>7 DEF UpdateStatus
  <2>6. m \in MessagesOf(e)'
    BY <2>3, <2>5 DEF MessagesOf
  <2>7. Backed(e)
    <3>1. CASE type = "failed"
      BY <1>1, <2>4, <3>1 DEF StatusOfEvent
    <3>2. CASE type # "failed"
      BY <2>3, <2>4, <2>5, <2>6, <3>2 DEF StatusOfEvent
    <3> QED
      BY <3>1, <3>2
  <2> QED
    BY <1>1, <2>4, <2>7
<1>8. ASSUME outbox' = outbox
      PROVE  \A f \in Emails : Backed(f)
  <2>1. \A f \in Emails : outbox'[f].status = outbox[f].status
    BY <1>8
  <2> QED
    BY <1>1, <2>1
<1>9. \A f \in Emails : Backed(f)
  <2> HIDE DEF Backed
  <2> QED
    BY <1>2, <1>3, <1>4, <1>5, <1>6, <1>7, <1>8
       DEF Next, vars, RunStep, RunCrash, HandlerStep, HandlerCrash, Report, SendRefused,
           SendAccepted, SendLost, MarkSent, MarkSentFails, ReceiveEvent, RecordEvent
<1> QED
  BY <1>0, <1>9 DEF ReportInvariant, StatusIsReported

\* A row is only `sent` after Resend took the email, and only delivered, bounced or
\* complained when Resend reported that of a message of this email, however late
\* and however often the report comes, and whoever else writes the row.
THEOREM ReportsCorrect == Spec => []StatusIsReported
<1>1. Init => ReportInvariant
  BY TypeInit DEF Init, ReportInvariant, StatusIsReported
<1>2. ReportInvariant => StatusIsReported
  BY DEF ReportInvariant
<1> QED
  BY <1>1, <1>2, ReportStep, PTL DEF Spec

-----------------------------------------------------------------------------
\* Sends are claimed.

CountInvariant == TypeInvariant /\ AttemptsAreCounted

\* A row that gets no message, no run that is to send it and no other count.
LEMMA CountFrame ==
  ASSUME TypeOK, AttemptsAreCounted, NEW e \in Emails, MessagesOf(e)' = MessagesOf(e),
         Unsent(e)' \subseteq Unsent(e), outbox'[e].attempts = outbox[e].attempts,
         outbox'[e].status = "absent" => outbox[e].status = "absent"
  PROVE  Counted(e)'
<1>1. Counted(e) /\ outbox[e].attempts \in Nat
  BY DEF AttemptsAreCounted, TypeOK, Row
<1>2. IsFiniteSet(Unsent(e)') /\ Cardinality(Unsent(e)') <= Cardinality(Unsent(e))
  BY <1>1, FS_Subset DEF Counted
<1>3. /\ Cardinality(Unsent(e)) \in Nat /\ Cardinality(Unsent(e)') \in Nat
      /\ Cardinality(MessagesOf(e)) \in Nat
  BY <1>1, <1>2, FS_CardinalityType DEF Counted
<1> QED
  BY <1>1, <1>2, <1>3 DEF Counted

\* The runs that are to send e, when one run goes to another email of its batch.
LEMMA UnsentShrinks ==
  ASSUME NEW r \in Runs, NEW e \in Emails, \A s \in Runs \ {r} : runs'[s] = runs[s],
         runs'[r].batch[e] > 0 => /\ Held(r, e)
                                  /\ runs[r].pc \in {"mark_sent", "mark_failed"} =>
                                       \/ runs[r].email # e
                                       \/ /\ runs'[r].pc \in {"mark_sent", "mark_failed"}
                                          /\ runs'[r].email = e
  PROVE  Unsent(e)' \subseteq Unsent(e)
  BY DEF Unsent, Held

\* Resend takes the email that the run is sending.
LEMMA AcceptCounts ==
  ASSUME TypeOK, AttemptsAreCounted, NEW r \in Runs, NEW e \in Emails, NEW m \in Messages,
         NEW n \in Messages \cup {NoMessage}, NEW pc \in {"mark_sent", "mark_failed"},
         runs[r].pc = "send", Held(r, e), Accept(e, m), Proceed(r, pc, e, n), UNCHANGED outbox
  PROVE  \A f \in Emails : Counted(f)'
<1>1. /\ \A s \in Runs \ {r} : runs'[s] = runs[s]
      /\ runs'[r].pc = pc /\ runs'[r].email = e /\ runs'[r].batch = runs[r].batch
  BY DEF Proceed, TypeOK
<1>2. /\ messageOf[m] = NoEmail /\ messageOf'[m] = e
      /\ \A k \in Messages \ {m} : messageOf'[k] = messageOf[k]
  BY DEF Accept, TypeOK
<1>3. ASSUME NEW f \in Emails, f # e
      PROVE  Counted(f)'
  <2>1. Unsent(f)' \subseteq Unsent(f)
    BY <1>1, UnsentShrinks DEF Held
  <2>2. MessagesOf(f)' = MessagesOf(f)
    BY <1>2, <1>3 DEF MessagesOf
  <2> QED
    BY <2>1, <2>2, CountFrame
<1>4. Counted(e)'
  <2>1. Unsent(e)' = Unsent(e) \ {r} /\ r \in Unsent(e)
    BY <1>1 DEF Unsent, Held
  <2>2. MessagesOf(e)' = MessagesOf(e) \cup {m} /\ m \notin MessagesOf(e)
    BY <1>2 DEF MessagesOf
  <2>3. Counted(e) /\ outbox[e].attempts \in Nat
    BY DEF AttemptsAreCounted, TypeOK, Row
  <2>4. IsFiniteSet(Unsent(e)') /\ Cardinality(Unsent(e)') = Cardinality(Unsent(e)) - 1
    BY <2>1, <2>3, FS_RemoveElement DEF Counted
  <2>5. IsFiniteSet(MessagesOf(e)') /\ Cardinality(MessagesOf(e)') = Cardinality(MessagesOf(e)) + 1
    BY <2>2, <2>3, FS_AddElement DEF Counted
  <2>6. Cardinality(Unsent(e)) \in Nat /\ Cardinality(MessagesOf(e)) \in Nat
    BY <2>3, FS_CardinalityType DEF Counted
  <2> QED
    BY <2>3, <2>4, <2>5, <2>6 DEF Counted
<1> QED
  BY <1>3, <1>4

\* A claim counts the attempt of every row that it takes.
LEMMA ClaimCounts ==
  ASSUME TypeOK, AttemptsAreCounted, NEW r \in Runs, Claim(r)
  PROVE  \A e \in Emails : Counted(e)'
<1>1. PICK batch \in SUBSET Claimable :
             /\ \A e \in Emails :
                  outbox'[e] = IF e \in batch THEN ClaimedRow(outbox[e]) ELSE outbox[e]
             /\ \A s \in Runs \ {r} : runs'[s] = runs[s]
             /\ \A e \in Emails :
                  runs'[r].batch[e] = IF e \in batch THEN outbox[e].attempts + 1 ELSE 0
  BY ClaimFacts
<1>2. \A e \in Emails : MessagesOf(e)' = MessagesOf(e)
  BY DEF Claim, MessagesOf
<1>3. ASSUME NEW e \in Emails, e \in batch
      PROVE  Counted(e)'
  <2>0. outbox'[e] = ClaimedRow(outbox[e])
    BY <1>1, <1>3
  <2>1. /\ outbox'[e].attempts = outbox[e].attempts + 1 /\ outbox'[e].status = "sending"
        /\ outbox[e].attempts \in Nat /\ Counted(e)
    BY <2>0 DEF ClaimedRow, AttemptsAreCounted, TypeOK, Row
  <2>2. Unsent(e)' \subseteq Unsent(e) \cup {r}
    BY <1>1 DEF Unsent, Held
  <2>3. /\ IsFiniteSet(Unsent(e) \cup {r})
        /\ Cardinality(Unsent(e) \cup {r}) \in {Cardinality(Unsent(e)), Cardinality(Unsent(e)) + 1}
    BY <2>1, FS_AddElement DEF Counted
  <2>4. IsFiniteSet(Unsent(e)') /\ Cardinality(Unsent(e)') <= Cardinality(Unsent(e) \cup {r})
    BY <2>2, <2>3, FS_Subset
  <2>5. /\ Cardinality(Unsent(e)) \in Nat /\ Cardinality(Unsent(e)') \in Nat
        /\ Cardinality(MessagesOf(e)) \in Nat
    BY <2>1, <2>4, FS_CardinalityType DEF Counted
  <2> QED
    BY <1>2, <2>1, <2>3, <2>4, <2>5 DEF Counted
<1>4. ASSUME NEW e \in Emails, e \notin batch
      PROVE  Counted(e)'
  <2>0. runs'[r].batch[e] = 0
    BY <1>1, <1>4
  <2>1. Unsent(e)' \subseteq Unsent(e)
    BY <1>1, <2>0 DEF Unsent, Held
  <2> QED
    BY <1>1, <1>2, <1>4, <2>1, CountFrame
<1> QED
  BY <1>3, <1>4

\* A run that has recorded what became of an email goes on to the next.
LEMMA NextEmailUnsent ==
  ASSUME TypeOK, NEW r \in Runs, runs[r].pc \in {"mark_sent", "mark_failed"}, NextEmail(r),
         NEW e \in Emails
  PROVE  Unsent(e)' \subseteq Unsent(e)
<1>1. /\ \A s \in Runs \ {r} : runs'[s] = runs[s]
      /\ runs'[r].batch[e] = IF e = runs[r].email THEN 0 ELSE runs[r].batch[e]
  BY NextEmailFacts
<1> QED
  BY <1>1, UnsentShrinks DEF Held

LEMMA CountStep == CountInvariant /\ [Next]_vars => CountInvariant'
<1> SUFFICES ASSUME CountInvariant, [Next]_vars PROVE CountInvariant'
  OBVIOUS
<1>0. TypeInvariant /\ TypeOK /\ TypeInvariant' /\ AttemptsAreCounted
  BY TypeStep DEF CountInvariant, TypeInvariant
<1>1. ASSUME NEW e \in Emails, EnqueueEmail(e), NEW f \in Emails
      PROVE  Counted(f)'
  <2>1. MessagesOf(f)' = MessagesOf(f) /\ Unsent(f)' = Unsent(f)
    BY <1>1 DEF EnqueueEmail, MessagesOf, Unsent, Held
  <2>2. outbox'[f].attempts = outbox[f].attempts /\ (outbox'[f].status = "absent" => outbox[f].status = "absent")
    BY <1>0, <1>1 DEF EnqueueEmail, AttemptsAreCounted, Counted, TypeOK
  <2> QED
    BY <1>0, <2>1, <2>2, CountFrame
<1>2. ASSUME NEW e \in Emails, BackoffElapses(e), NEW f \in Emails
      PROVE  Counted(f)'
  <2>1. MessagesOf(f)' = MessagesOf(f) /\ Unsent(f)' = Unsent(f)
    BY <1>2 DEF BackoffElapses, MessagesOf, Unsent, Held
  <2>2. outbox'[f].attempts = outbox[f].attempts /\ outbox'[f].status = outbox[f].status
    BY <1>0, <1>2 DEF BackoffElapses, TypeOK, Row
  <2> QED
    BY <1>0, <2>1, <2>2, CountFrame
<1>3. ASSUME NEW r \in Runs, NEW e \in Emails, SendRefused(r, e), NEW f \in Emails
      PROVE  Counted(f)'
  <2>1. /\ \A s \in Runs \ {r} : runs'[s] = runs[s]
        /\ runs'[r].batch = runs[r].batch /\ runs[r].pc = "send"
    BY <1>0, <1>3 DEF SendRefused, Proceed, TypeOK
  <2>2. Unsent(f)' \subseteq Unsent(f)
    BY <2>1, UnsentShrinks DEF Held
  <2>3. MessagesOf(f)' = MessagesOf(f) /\ outbox' = outbox
    BY <1>3 DEF SendRefused, MessagesOf
  <2> QED
    BY <1>0, <2>2, <2>3, CountFrame
<1>4. ASSUME NEW r \in Runs, NEW e \in Emails, NEW m \in Messages,
             SendAccepted(r, e, m) \/ SendLost(r, e, m)
      PROVE  \A f \in Emails : Counted(f)'
  BY <1>0, <1>4, AcceptCounts DEF SendAccepted, SendLost
<1>5. ASSUME NEW r \in Runs, MarkSent(r), NEW f \in Emails
      PROVE  Counted(f)'
  <2>1. Unsent(f)' \subseteq Unsent(f)
    BY <1>0, <1>5, NextEmailUnsent DEF MarkSent
  <2>2. MessagesOf(f)' = MessagesOf(f)
    BY <1>5 DEF MarkSent, MessagesOf
  <2>3. outbox'[f].attempts = outbox[f].attempts /\ outbox'[f].status \in {"sent", outbox[f].status}
    BY <1>0, <1>5, UpdateSentFacts DEF MarkSent
  <2> QED
    BY <1>0, <2>1, <2>2, <2>3, CountFrame
<1>6. ASSUME NEW r \in Runs, MarkSentFails(r), NEW f \in Emails
      PROVE  Counted(f)'
  <2>1. /\ \A s \in Runs \ {r} : runs'[s] = runs[s]
        /\ runs'[r].batch = runs[r].batch /\ runs'[r].pc = "mark_failed"
        /\ runs'[r].email = runs[r].email
    BY <1>0, <1>6 DEF MarkSentFails, Proceed, TypeOK
  <2>2. Unsent(f)' \subseteq Unsent(f)
    BY <2>1, UnsentShrinks DEF Held
  <2>3. MessagesOf(f)' = MessagesOf(f)
    BY <1>6 DEF MarkSentFails, MessagesOf
  <2>4. outbox'[f].attempts = outbox[f].attempts /\ outbox'[f].status \in {"sent", outbox[f].status}
    BY <1>0, <1>6, UpdateSentFacts DEF MarkSentFails
  <2> QED
    BY <1>0, <2>2, <2>3, <2>4, CountFrame
<1>7. ASSUME NEW r \in Runs, MarkFailed(r), NEW f \in Emails
      PROVE  Counted(f)'
  <2>1. Unsent(f)' \subseteq Unsent(f)
    BY <1>0, <1>7, NextEmailUnsent DEF MarkFailed
  <2>2. MessagesOf(f)' = MessagesOf(f)
    BY <1>7 DEF MarkFailed, MessagesOf
  <2>3. /\ outbox'[f].attempts = outbox[f].attempts
        /\ outbox'[f].status \in {"failed_permanent", "failed_retryable", outbox[f].status}
    BY <1>0, <1>7, MarkFailedFacts DEF StatusAfterFailure
  <2> QED
    BY <1>0, <2>1, <2>2, <2>3, CountFrame
<1>8. ASSUME NEW r \in Runs, RunCrash(r), NEW f \in Emails
      PROVE  Counted(f)'
  <2>1. (\A s \in Runs \ {r} : runs'[s] = runs[s]) /\ runs'[r].batch[f] = 0
    BY <1>0, <1>8 DEF RunCrash, IdleRun, TypeOK
  <2>2. Unsent(f)' \subseteq Unsent(f)
    BY <2>1 DEF Unsent, Held
  <2>3. MessagesOf(f)' = MessagesOf(f) /\ outbox' = outbox
    BY <1>8 DEF RunCrash, MessagesOf
  <2> QED
    BY <1>0, <2>2, <2>3, CountFrame
<1>9. ASSUME NEW h \in Handlers, UpdateStatus(h), NEW f \in Emails
      PROVE  Counted(f)'
  <2>1. MessagesOf(f)' = MessagesOf(f) /\ Unsent(f)' = Unsent(f)
    BY <1>9 DEF UpdateStatus, MessagesOf, Unsent, Held
  <2>2. handlers[h].email \in Emails /\ handlers[h].type \in EventTypes
    BY <1>0, <1>9 DEF UpdateStatus, TypeInvariant, MessagesAreKnown, TypeOK
  <2>3. /\ outbox'[f].attempts = outbox[f].attempts
        /\ outbox'[f].status \in {StatusOfEvent(handlers[h].type), outbox[f].status}
    BY <1>0, <1>9, <2>2, UpdateStatusFacts
  <2>4. StatusOfEvent(handlers[h].type) # "absent"
    BY <2>2 DEF StatusOfEvent, AllEventTypes
  <2> QED
    BY <1>0, <2>1, <2>3, <2>4, CountFrame
<1>10. ASSUME UNCHANGED <<outbox, runs, messageOf>>, NEW f \in Emails
       PROVE  Counted(f)'
  BY <1>0, <1>10, CountFrame DEF MessagesOf, Unsent, Held
<1>11. \A f \in Emails : Counted(f)'
  BY <1>0, <1>1, <1>2, <1>3, <1>4, <1>5, <1>6, <1>7, <1>8, <1>9, <1>10, ClaimCounts
     DEF Next, vars, RunStep, HandlerStep, HandlerCrash, Report, ReceiveEvent, RecordEvent
<1> QED
  BY <1>0, <1>11 DEF CountInvariant, AttemptsAreCounted

LEMMA CountInit == Init => CountInvariant
<1> SUFFICES ASSUME Init PROVE CountInvariant
  OBVIOUS
<1>1. TypeInvariant
  BY TypeInit
<1>2. ASSUME NEW e \in Emails PROVE Counted(e)
  <2>1. MessagesOf(e) = {} /\ Unsent(e) = {}
    BY DEF Init, MessagesOf, Unsent, Held, IdleRun
  <2>2. outbox[e].attempts = 0
    BY DEF Init
  <2> QED
    BY <2>1, <2>2, FS_EmptySet DEF Counted
<1> QED
  BY <1>1, <1>2 DEF CountInvariant, AttemptsAreCounted

LEMMA CountHolds == Spec => []CountInvariant
  BY CountInit, CountStep, PTL DEF Spec

\* Resend never gets an email more often than it was claimed, however many runs hold
\* it, whatever is lost and whatever the webhook writes meanwhile.
THEOREM SendsCorrect == Spec => []SendsAreClaimed
<1>1. CountInvariant => SendsAreClaimed
  <2> SUFFICES ASSUME CountInvariant, NEW e \in Emails
               PROVE  Cardinality(MessagesOf(e)) <= outbox[e].attempts
    BY DEF SendsAreClaimed
  <2>1. Counted(e) /\ outbox[e].attempts \in Nat
    BY DEF CountInvariant, AttemptsAreCounted, TypeInvariant, TypeOK, Row
  <2>2. Cardinality(MessagesOf(e)) \in Nat /\ Cardinality(Unsent(e)) \in Nat
    BY <2>1, FS_CardinalityType DEF Counted
  <2> QED
    BY <2>1, <2>2 DEF Counted
<1> QED
  BY <1>1, CountHolds, PTL

-----------------------------------------------------------------------------
\* One run at a time.

\* What Resend has said of a message is not taken back.
LEMMA DisputeStays ==
  ASSUME TypeInvariant, [Next]_vars, NEW e \in Emails, Disputed(e)
  PROVE  Disputed(e)'
<1>1. PICK m \in MessagesOf(e) : "failed" \in reported[m]
  BY DEF Disputed
<1>2. m \in MessagesOf(e)' /\ "failed" \in reported'[m]
  BY <1>1, HistoryGrows DEF MessagesOf
<1> QED
  BY <1>2 DEF Disputed

ExclusionInvariant == TypeInvariant /\ ExclusiveClaim /\ HeldIsNotClaimable

\* A row that is settled or stays as it is, while runs only let go of it.
LEMMA GuardedFrame ==
  ASSUME TypeOK, NEW e \in Emails, Guarded(e),
         \A r \in Runs : runs'[r].batch[e] \in {0, runs[r].batch[e]},
         outbox'[e].attempts = outbox[e].attempts,
         outbox'[e].status \in {outbox[e].status} \cup SettledStatus,
         outbox[e].status # "absent" \/ MessagesOf(e)' = MessagesOf(e)
  PROVE  Guarded(e)'
<1>1. \A r \in Runs : Held(r, e)' => Held(r, e) /\ runs'[r].batch[e] = runs[r].batch[e]
  BY DEF Held
<1> QED
  BY <1>1 DEF Guarded, SettledStatus

LEMMA ExclusiveFrame ==
  ASSUME ExclusiveClaim, \A r \in Runs, e \in Emails : runs'[r].batch[e] \in {0, runs[r].batch[e]},
         \A e \in Emails : Disputed(e) => Disputed(e)'
  PROVE  ExclusiveClaim'
<1>1. \A r \in Runs, e \in Emails : Held(r, e)' => Held(r, e)
  BY DEF Held
<1> QED
  BY <1>1 DEF ExclusiveClaim

\* Who claims a row is alone with it, because a row in a batch is not claimable.
LEMMA ClaimExcludes ==
  ASSUME TypeOK, ExclusiveClaim, HeldIsNotClaimable, NEW r \in Runs, Claim(r)
  PROVE  ExclusiveClaim' /\ HeldIsNotClaimable'
<1>1. PICK batch \in SUBSET Claimable :
             /\ \A e \in Emails :
                  outbox'[e] = IF e \in batch THEN ClaimedRow(outbox[e]) ELSE outbox[e]
             /\ \A s \in Runs \ {r} : runs'[s] = runs[s]
             /\ \A e \in Emails :
                  runs'[r].batch[e] = IF e \in batch THEN outbox[e].attempts + 1 ELSE 0
  BY ClaimFacts
<1>2. \A e \in Emails : MessagesOf(e)' = MessagesOf(e) /\ (Disputed(e) <=> Disputed(e)')
  BY DEF Claim, MessagesOf, Disputed
<1>3. ASSUME NEW e \in Emails, e \in batch, ~Disputed(e)
      PROVE  Guarded(e)' /\ \A s \in Runs : Held(s, e)' => s = r
  <2>1. /\ outbox[e].status \in {"pending", "failed_retryable"} /\ outbox[e].attempts \in Nat
        /\ Guarded(e)
    BY <1>3 DEF Claimable, HeldIsNotClaimable, TypeOK, Row
  <2>2. outbox'[e] = ClaimedRow(outbox[e])
    BY <1>1, <1>3
  <2>3. outbox'[e].attempts = outbox[e].attempts + 1 /\ outbox'[e].status = "sending"
    BY <2>2 DEF ClaimedRow
  <2>4. \A s \in Runs : Held(s, e)' => s = r
    BY <1>1, <2>1 DEF Held, Guarded
  <2>5. runs'[r].batch[e] = outbox'[e].attempts
    BY <1>1, <1>3, <2>3
  <2>6. outbox[e].attempts < 2
    BY <2>1 DEF Guarded
  <2> QED
    BY <2>1, <2>3, <2>4, <2>5, <2>6 DEF Guarded
<1>4. ASSUME NEW e \in Emails, e \notin batch, ~Disputed(e)
      PROVE  Guarded(e)' /\ \A s \in Runs : Held(s, e)' => Held(s, e) /\ s # r
  <2>1. outbox'[e] = outbox[e] /\ runs'[r].batch[e] = 0
    BY <1>1, <1>4
  <2>2. \A s \in Runs : runs'[s].batch[e] \in {0, runs[s].batch[e]}
    BY <1>1, <2>1
  <2>3. Guarded(e)'
    BY <1>2, <1>4, <2>1, <2>2, GuardedFrame DEF HeldIsNotClaimable
  <2>4. \A s \in Runs : Held(s, e)' => Held(s, e) /\ s # r
    BY <1>1, <2>1 DEF Held
  <2> QED
    BY <2>3, <2>4
<1> QED
  BY <1>2, <1>3, <1>4 DEF ExclusiveClaim, HeldIsNotClaimable

\* Who gives an email back for another try is the only one that had it, and counts as
\* the row does.
LEMMA MarkFailedExcludes ==
  ASSUME TypeOK, ExclusiveClaim, HeldIsNotClaimable, NEW r \in Runs, MarkFailed(r),
         NEW e \in Emails, ~Disputed(e)
  PROVE  Guarded(e)'
<1>1. /\ runs[r].pc = "mark_failed" /\ NextEmail(r) /\ messageOf' = messageOf
      /\ runs[r].email \in Emails /\ Held(r, runs[r].email)
  BY DEF MarkFailed, TypeOK, Held
<1>2. /\ \A s \in Runs \ {r} : runs'[s] = runs[s]
      /\ runs'[r].batch[e] = IF e = runs[r].email THEN 0 ELSE runs[r].batch[e]
  BY <1>1, NextEmailFacts
<1>3. /\ outbox'[e].attempts = outbox[e].attempts
      /\ outbox'[e].status = IF e = runs[r].email THEN StatusAfterFailure(runs[r].batch[e])
                             ELSE outbox[e].status
  BY MarkFailedFacts
<1>4. MessagesOf(e)' = MessagesOf(e) /\ Guarded(e)
  BY <1>1 DEF MessagesOf, HeldIsNotClaimable
<1>5. CASE e = runs[r].email
  <2>1. \A s \in Runs : ~Held(s, e)'
    <3>1. \A s \in Runs \ {r} : ~Held(s, e)
      BY <1>1, <1>5 DEF ExclusiveClaim
    <3>2. runs'[r].batch[e] = 0
      BY <1>2, <1>5
    <3> QED
      BY <1>2, <3>1, <3>2 DEF Held
  <2>2. runs[r].batch[e] = outbox[e].attempts /\ outbox[e].attempts \in Nat
    BY <1>1, <1>4, <1>5 DEF Guarded, TypeOK, Row
  <2> QED
    BY <1>3, <1>4, <1>5, <2>1, <2>2 DEF Guarded, StatusAfterFailure
<1>6. CASE e # runs[r].email
  BY <1>2, <1>3, <1>4, <1>6, GuardedFrame
<1> QED
  BY <1>5, <1>6

\* The run goes on and keeps its batch, less the email that it has done with.
LEMMA BatchShrinks ==
  ASSUME TypeOK, [Next]_vars, \A r \in Runs : ~Claim(r)
  PROVE  \A r \in Runs, e \in Emails : runs'[r].batch[e] \in {0, runs[r].batch[e]}
<1>1. ASSUME NEW r \in Runs, runs[r].pc \in {"mark_sent", "mark_failed"}, NextEmail(r)
      PROVE  \A s \in Runs, e \in Emails : runs'[s].batch[e] \in {0, runs[s].batch[e]}
  BY <1>1, NextEmailFacts
<1>2. ASSUME NEW r \in Runs, NEW pc, NEW f, NEW m, Proceed(r, pc, f, m)
      PROVE  \A s \in Runs, e \in Emails : runs'[s].batch[e] \in {0, runs[s].batch[e]}
  BY <1>2 DEF Proceed, TypeOK
<1>3. ASSUME NEW r \in Runs, RunCrash(r)
      PROVE  \A s \in Runs, e \in Emails : runs'[s].batch[e] \in {0, runs[s].batch[e]}
  BY <1>3 DEF RunCrash, IdleRun, TypeOK
<1>4. CASE runs' = runs
  BY <1>4
<1> QED
  BY <1>1, <1>2, <1>3, <1>4
     DEF Next, vars, EnqueueEmail, BackoffElapses, RunStep, HandlerStep, HandlerCrash, Report,
         SendRefused, SendAccepted, SendLost, MarkSent, MarkSentFails, MarkFailed, ReceiveEvent,
         RecordEvent, UpdateStatus

LEMMA ExclusionStep == ExclusionInvariant /\ [Next]_vars => ExclusionInvariant'
<1> SUFFICES ASSUME ExclusionInvariant, [Next]_vars PROVE ExclusionInvariant'
  OBVIOUS
<1>0. TypeInvariant /\ TypeOK /\ TypeInvariant' /\ ExclusiveClaim /\ HeldIsNotClaimable
  BY TypeStep DEF ExclusionInvariant, TypeInvariant
<1>3. \A e \in Emails : Disputed(e) => Disputed(e)'
  BY <1>0, DisputeStays
<1>1. CASE \E r \in Runs : Claim(r)
  BY <1>0, <1>1, ClaimExcludes DEF ExclusionInvariant
<1>2. CASE \A r \in Runs : ~Claim(r)
  <2>1. \A r \in Runs, e \in Emails : runs'[r].batch[e] \in {0, runs[r].batch[e]}
    BY <1>0, <1>2, BatchShrinks
  <2>2. ExclusiveClaim'
    BY <1>0, <1>3, <2>1, ExclusiveFrame
  <2>3. ASSUME NEW e \in Emails, ~Disputed(e), outbox'[e].attempts = outbox[e].attempts,
               outbox'[e].status \in {outbox[e].status} \cup SettledStatus,
               outbox[e].status # "absent" \/ MessagesOf(e)' = MessagesOf(e)
        PROVE  Guarded(e)'
    BY <1>0, <2>1, <2>3, GuardedFrame DEF HeldIsNotClaimable
  <2>4. ASSUME NEW e \in Emails, EnqueueEmail(e), NEW f \in Emails, ~Disputed(f)'
        PROVE  Guarded(f)'
    <3>1. MessagesOf(f)' = MessagesOf(f) /\ runs' = runs /\ Guarded(f)
      BY <1>0, <1>3, <2>4 DEF EnqueueEmail, MessagesOf, HeldIsNotClaimable
    <3>2. CASE f = e
      <4>1. outbox[f].status = "absent" /\ outbox'[f].status = "pending" /\ outbox'[f].attempts = 0
        BY <1>0, <2>4, <3>2 DEF EnqueueEmail, TypeOK
      <4> QED
        BY <3>1, <4>1 DEF Guarded, Held
    <3>3. CASE f # e
      BY <1>0, <1>3, <2>3, <2>4, <3>1, <3>3 DEF EnqueueEmail, TypeOK
    <3> QED
      BY <3>2, <3>3
  <2>5. ASSUME NEW e \in Emails, BackoffElapses(e), NEW f \in Emails, ~Disputed(f)'
        PROVE  Guarded(f)'
    <3>1. outbox'[f].attempts = outbox[f].attempts /\ outbox'[f].status = outbox[f].status
      BY <1>0, <2>5 DEF BackoffElapses, TypeOK, Row
    <3>2. MessagesOf(f)' = MessagesOf(f)
      BY <2>5 DEF BackoffElapses, MessagesOf
    <3> QED
      BY <1>3, <2>3, <2>5, <3>1, <3>2
  <2>6. ASSUME NEW r \in Runs, NEW e \in Emails, NEW m \in Messages, Held(r, e), Accept(e, m),
               outbox' = outbox, NEW f \in Emails, ~Disputed(f)'
        PROVE  Guarded(f)'
    <3>1. f # e => MessagesOf(f)' = MessagesOf(f)
      BY <1>0, <2>6 DEF Accept, MessagesOf, TypeOK
    <3>2. ~Disputed(f)
      BY <1>3, <2>6
    <3>3. f = e => outbox[f].status # "absent"
      BY <1>0, <2>6, <3>2 DEF HeldIsNotClaimable, Guarded
    <3> QED
      BY <2>3, <2>6, <3>1, <3>2, <3>3
  <2>7. ASSUME NEW r \in Runs, MarkSent(r) \/ MarkSentFails(r), NEW f \in Emails, ~Disputed(f)'
        PROVE  Guarded(f)'
    <3>1. MessagesOf(f)' = MessagesOf(f)
      BY <2>7 DEF MarkSent, MarkSentFails, MessagesOf
    <3>2. outbox'[f].attempts = outbox[f].attempts /\ outbox'[f].status \in {"sent", outbox[f].status}
      BY <1>0, <2>7, UpdateSentFacts DEF MarkSent, MarkSentFails
    <3> QED
      BY <1>3, <2>3, <2>7, <3>1, <3>2 DEF SettledStatus
  <2>8. ASSUME NEW r \in Runs, MarkFailed(r), NEW f \in Emails, ~Disputed(f)'
        PROVE  Guarded(f)'
    BY <1>0, <1>3, <2>8, MarkFailedExcludes
  <2>9. ASSUME NEW h \in Handlers, UpdateStatus(h), NEW f \in Emails, ~Disputed(f)'
        PROVE  Guarded(f)'
    <3>1. /\ handlers[h].email \in Emails /\ handlers[h].type \in EventTypes
          /\ handlers[h].type \in reported[handlers[h].message]
          /\ handlers[h].message \in MessagesOf(handlers[h].email)
      BY <1>0, <2>9 DEF UpdateStatus, TypeInvariant, MessagesAreKnown, TypeOK, MessagesOf
    <3>2. /\ outbox'[f].attempts = outbox[f].attempts
          /\ outbox'[f].status = IF f = handlers[h].email THEN StatusOfEvent(handlers[h].type)
                                 ELSE outbox[f].status
      BY <1>0, <2>9, <3>1, UpdateStatusFacts
    <3>3. ~Disputed(f)
      BY <1>3, <2>9
    <3>4. f = handlers[h].email => handlers[h].type # "failed"
      BY <3>1, <3>3 DEF Disputed
    <3>5. f = handlers[h].email => StatusOfEvent(handlers[h].type) \in SettledStatus
      BY <3>1, <3>4 DEF StatusOfEvent, AllEventTypes, SettledStatus
    <3>6. MessagesOf(f)' = MessagesOf(f)
      BY <2>9 DEF UpdateStatus, MessagesOf
    <3> QED
      BY <2>3, <3>2, <3>3, <3>5, <3>6
  <2>10. ASSUME UNCHANGED <<outbox, messageOf>>, NEW f \in Emails, ~Disputed(f)'
         PROVE  Guarded(f)'
    BY <1>3, <2>3, <2>10 DEF MessagesOf
  <2>11. \A f \in Emails : Disputed(f)' \/ Guarded(f)'
    BY <1>2, <2>4, <2>5, <2>6, <2>7, <2>8, <2>9, <2>10
       DEF Next, vars, RunStep, RunCrash, HandlerStep, HandlerCrash, Report, SendRefused,
           SendAccepted, SendLost, ReceiveEvent, RecordEvent
  <2> QED
    BY <1>0, <2>2, <2>11 DEF ExclusionInvariant, HeldIsNotClaimable
<1> QED
  BY <1>1, <1>2

LEMMA ExclusionHolds == Spec => []ExclusionInvariant
<1>1. Init => ExclusionInvariant
  <2> SUFFICES ASSUME Init PROVE ExclusionInvariant
    OBVIOUS
  <2>1. \A r \in Runs, e \in Emails : ~Held(r, e)
    BY DEF Init, IdleRun, Held
  <2>2. \A e \in Emails : MessagesOf(e) = {}
    BY DEF Init, MessagesOf
  <2> QED
    BY <2>1, <2>2, TypeInit
       DEF Init, ExclusionInvariant, ExclusiveClaim, HeldIsNotClaimable, Guarded
<1> QED
  BY <1>1, ExclusionStep, PTL DEF Spec

\* A row is in the batch of at most one run, although every update after the claim is by
\* id and the webhook writes at any time, until Resend reports a failed message of that
\* very email: a failure of another email disturbs nothing.
THEOREM ExclusionCorrect == Spec => []ExclusiveClaim
<1>1. ExclusionInvariant => ExclusiveClaim
  BY DEF ExclusionInvariant
<1> QED
  BY <1>1, ExclusionHolds, PTL

-----------------------------------------------------------------------------
\* The outbox implements its promise.

\* The mapping, case by case.
LEMMA PromisedCases ==
  ASSUME NEW e \in Emails
  PROVE  PromisedState(e) =
           IF Disputed(e) THEN "disputed"
           ELSE IF \E r \in Runs : Held(r, e) THEN "held"
           ELSE IF outbox[e].status \in {"pending", "failed_retryable"} THEN "waiting"
           ELSE IF outbox[e].status = "sending" THEN "lost"
           ELSE IF outbox[e].status = "absent" THEN "absent"
           ELSE "settled"
<1>1. CASE Disputed(e)
  BY <1>1 DEF PromisedState
<1>2. CASE ~Disputed(e) /\ \E r \in Runs : Held(r, e)
  BY <1>2 DEF PromisedState
<1>3. CASE ~Disputed(e) /\ ~\E r \in Runs : Held(r, e)
  BY <1>3 DEF PromisedState
<1> QED
  BY <1>1, <1>2, <1>3

LEMMA PromisedNext ==
  ASSUME NEW e \in Emails
  PROVE  PromisedState(e)' =
           IF Disputed(e)' THEN "disputed"
           ELSE IF \E r \in Runs : Held(r, e)' THEN "held"
           ELSE IF outbox'[e].status \in {"pending", "failed_retryable"} THEN "waiting"
           ELSE IF outbox'[e].status = "sending" THEN "lost"
           ELSE IF outbox'[e].status = "absent" THEN "absent"
           ELSE "settled"
<1>1. CASE Disputed(e)'
  BY <1>1 DEF PromisedState
<1>2. CASE ~Disputed(e)' /\ \E r \in Runs : Held(r, e)'
  BY <1>2 DEF PromisedState
<1>3. CASE ~Disputed(e)' /\ ~\E r \in Runs : Held(r, e)'
  BY <1>3 DEF PromisedState
<1> QED
  BY <1>1, <1>2, <1>3

\* An email whose row and runs stay as they are, or of which nothing is promised.
LEMMA PromisedFrame ==
  ASSUME NEW e \in Emails, Disputed(e)' <=> Disputed(e),
         \/ Disputed(e)
         \/ /\ outbox'[e].status = outbox[e].status
            /\ \A r \in Runs : Held(r, e)' <=> Held(r, e)
  PROVE  PromisedState(e)' = PromisedState(e)
<1>1. CASE Disputed(e)
  BY <1>1, PromisedCases, PromisedNext
<1>2. CASE ~Disputed(e)
  BY <1>2, PromisedCases, PromisedNext
<1> QED
  BY <1>1, <1>2

\* Nothing new is said about messages of emails.
SameDisputes == \A e \in Emails : Disputed(e)' <=> Disputed(e)

LEMMA DisputesFrame == UNCHANGED <<messageOf, reported>> => SameDisputes
  BY DEF SameDisputes, Disputed, MessagesOf

Tried == \A e \in Emails : outbox'[e].attempts = outbox[e].attempts

LEMMA Stutters ==
  ASSUME \A e \in Emails : PromisedState(e)' = PromisedState(e), Tried
  PROVE  UNCHANGED <<[e \in Emails |-> PromisedState(e)], [e \in Emails |-> outbox[e].attempts]>>
  BY DEF Tried

LEMMA Settles ==
  ASSUME NEW e \in Emails, PromisedState(e) \in {"waiting", "held", "lost"},
         PromisedState(e)' = "settled", Tried,
         \A f \in Emails \ {e} : PromisedState(f)' = PromisedState(f)
  PROVE  Promise!Settle(e)
  BY DEF Promise!Settle, Tried

LEMMA PutsBack ==
  ASSUME NEW e \in Emails, PromisedState(e) = "held", PromisedState(e)' = "waiting", Tried,
         outbox[e].attempts < 2,
         \A f \in Emails \ {e} : PromisedState(f)' = PromisedState(f)
  PROVE  Promise!PutBack(e)
  BY DEF Promise!PutBack, Tried

LEMMA Owes ==
  ASSUME NEW e \in Emails, PromisedState(e) = "absent", PromisedState(e)' = "waiting", Tried,
         \A f \in Emails \ {e} : PromisedState(f)' = PromisedState(f)
  PROVE  Promise!Owe(e)
  BY DEF Promise!Owe, Tried

LEMMA Disputes ==
  ASSUME NEW e \in Emails, PromisedState(e) # "absent", PromisedState(e)' = "disputed", Tried,
         \A f \in Emails \ {e} : PromisedState(f)' = PromisedState(f)
  PROVE  Promise!Dispute(e)
  BY DEF Promise!Dispute, Tried

LEMMA Takes ==
  ASSUME NEW batch \in SUBSET Emails,
         \A e \in batch : /\ \/ /\ PromisedState(e) = "waiting" /\ outbox[e].attempts < 2
                                /\ PromisedState(e)' = "held"
                             \/ PromisedState(e) = "disputed" /\ PromisedState(e)' = "disputed"
                          /\ outbox'[e].attempts = outbox[e].attempts + 1,
         \A e \in Emails \ batch : /\ PromisedState(e)' = PromisedState(e)
                                   /\ outbox'[e].attempts = outbox[e].attempts
  PROVE  Promise!Take(batch)
  BY DEF Promise!Take

LEMMA Loses ==
  ASSUME NEW batch \in SUBSET Emails, NEW settled \in SUBSET batch, Tried,
         \A e \in batch : PromisedState(e) = "held",
         \A e \in settled : PromisedState(e)' = "settled",
         \A e \in batch \ settled : PromisedState(e)' = "lost",
         \A e \in Emails \ batch : PromisedState(e)' = PromisedState(e)
  PROVE  Promise!Lose(batch, settled)
  BY DEF Promise!Lose, Tried

\* A run drops the email it is at: what the row says is what becomes of it.
LEMMA LetGo ==
  ASSUME TypeOK, ExclusiveClaim, NEW r \in Runs, runs[r].pc \in {"mark_sent", "mark_failed"},
         NextEmail(r), NEW e \in Emails, ~Disputed(e)
  PROVE  /\ e = runs[r].email => Held(r, e) /\ \A s \in Runs : ~Held(s, e)'
         /\ e # runs[r].email => \A s \in Runs : Held(s, e)' <=> Held(s, e)
<1>1. /\ \A s \in Runs \ {r} : runs'[s] = runs[s]
      /\ runs'[r].batch[e] = IF e = runs[r].email THEN 0 ELSE runs[r].batch[e]
  BY NextEmailFacts
<1>2. CASE e = runs[r].email
  <2>1. Held(r, e)
    BY <1>2 DEF TypeOK, Held
  <2>2. \A s \in Runs \ {r} : ~Held(s, e)
    BY <2>1 DEF ExclusiveClaim
  <2>3. runs'[r].batch[e] = 0
    BY <1>1, <1>2
  <2> QED
    BY <1>1, <1>2, <2>1, <2>2, <2>3 DEF Held
<1>3. CASE e # runs[r].email
  BY <1>1, <1>3 DEF Held
<1> QED
  BY <1>2, <1>3

\* Something is said about the messages of one email, and no more.
LEMMA MayDispute ==
  ASSUME NEW e \in Emails, Tried, PromisedState(e) # "absent", Disputed(e) => Disputed(e)',
         \A f \in Emails \ {e} : Disputed(f)' <=> Disputed(f),
         \A f \in Emails : /\ outbox'[f].status = outbox[f].status
                           /\ \A r \in Runs : Held(r, f)' <=> Held(r, f)
  PROVE  \/ Promise!Dispute(e)
         \/ \A f \in Emails : PromisedState(f)' = PromisedState(f)
<1>1. \A f \in Emails \ {e} : PromisedState(f)' = PromisedState(f)
  BY PromisedFrame
<1>2. CASE Disputed(e)' /\ ~Disputed(e)
  <2>1. PromisedState(e)' = "disputed"
    BY <1>2, PromisedNext
  <2> QED
    BY <1>1, <2>1, Disputes
<1>3. CASE Disputed(e)' <=> Disputed(e)
  BY <1>1, <1>3, PromisedFrame
<1> QED
  BY <1>2, <1>3

\* What has not been enqueued has not been sent.
LEMMA AbsentIsUnsent ==
  ASSUME CountInvariant, NEW e \in Emails, outbox[e].status = "absent"
  PROVE  outbox[e].attempts = 0 /\ MessagesOf(e) = {} /\ ~Disputed(e)
<1>1. Counted(e) /\ outbox[e].attempts = 0
  BY DEF CountInvariant, AttemptsAreCounted, Counted
<1>2. /\ Cardinality(MessagesOf(e)) \in Nat /\ Cardinality(Unsent(e)) \in Nat
      /\ Cardinality(MessagesOf(e)) + Cardinality(Unsent(e)) <= 0
  BY <1>1, FS_CardinalityType DEF Counted
<1>3. MessagesOf(e) = {}
  <2>1. Cardinality(MessagesOf(e)) = 0
    BY <1>2
  <2> QED
    BY <1>1, <2>1, FS_EmptySet DEF Counted
<1> QED
  BY <1>1, <1>3 DEF Disputed

LEMMA PromiseStep ==
  ASSUME ExclusionInvariant, CountInvariant, [Next]_vars
  PROVE  Promise!Next \/ UNCHANGED <<[e \in Emails |-> PromisedState(e)],
                                     [e \in Emails |-> outbox[e].attempts]>>
<1> DEFINE Kept == Promise!Next \/ UNCHANGED <<[e \in Emails |-> PromisedState(e)],
                                               [e \in Emails |-> outbox[e].attempts]>>
<1>0. /\ TypeInvariant /\ TypeOK /\ MessagesAreKnown /\ ExclusiveClaim /\ HeldIsNotClaimable
      /\ \A e \in Emails : outbox[e] \in Row /\ (Disputed(e) \/ Guarded(e))
      /\ \A e \in Emails : Disputed(e) => Disputed(e)'
  BY DisputeStays DEF ExclusionInvariant, TypeInvariant, HeldIsNotClaimable, TypeOK
<1>1. ASSUME NEW e \in Emails,
             \/ Promise!Settle(e) \/ Promise!PutBack(e)
             \/ Promise!Owe(e) \/ Promise!Dispute(e)
      PROVE  Kept
  BY <1>1 DEF Promise!Next
<1>2. ASSUME NEW batch \in SUBSET Emails,
             Promise!Take(batch) \/ \E settled \in SUBSET batch : Promise!Lose(batch, settled)
      PROVE  Kept
  BY <1>2 DEF Promise!Next
<1>3. ASSUME \A e \in Emails : PromisedState(e)' = PromisedState(e), Tried
      PROVE  Kept
  BY <1>3, Stutters
<1> HIDE DEF Kept
<1>4. ASSUME NEW e \in Emails, EnqueueEmail(e)
      PROVE  Kept
  <2>0. SameDisputes
    BY <1>4, DisputesFrame DEF EnqueueEmail
  <2>1. /\ outbox[e].status = "absent" /\ outbox'[e].status = "pending" /\ outbox'[e].attempts = 0
        /\ \A f \in Emails \ {e} : outbox'[f] = outbox[f]
        /\ runs' = runs
    BY <1>0, <1>4 DEF EnqueueEmail, TypeOK
  <2>2. \A f \in Emails, r \in Runs : Held(r, f)' <=> Held(r, f)
    BY <2>1 DEF Held
  <2>3. outbox[e].attempts = 0 /\ ~Disputed(e)
    BY <2>1, AbsentIsUnsent
  <2>4. \A r \in Runs : ~Held(r, e)
    BY <1>0, <2>1, <2>3 DEF Guarded
  <2>5. PromisedState(e) = "absent" /\ PromisedState(e)' = "waiting"
    BY <2>0, <2>1, <2>2, <2>3, <2>4, PromisedCases, PromisedNext DEF SameDisputes
  <2>6. \A f \in Emails \ {e} : PromisedState(f)' = PromisedState(f)
    BY <2>0, <2>1, <2>2, PromisedFrame DEF SameDisputes
  <2>7. Tried
    BY <2>1, <2>3 DEF Tried
  <2> QED
    BY <1>1, <2>5, <2>6, <2>7, Owes
<1>5. ASSUME NEW e \in Emails, BackoffElapses(e)
      PROVE  Kept
  <2>0. SameDisputes
    BY <1>5, DisputesFrame DEF BackoffElapses
  <2>1. \A f \in Emails : outbox'[f].status = outbox[f].status /\ outbox'[f].attempts = outbox[f].attempts
    BY <1>0, <1>5 DEF BackoffElapses, TypeOK, Row
  <2>2. \A f \in Emails, r \in Runs : Held(r, f)' <=> Held(r, f)
    BY <1>5 DEF BackoffElapses, Held
  <2> QED
    BY <1>3, <2>0, <2>1, <2>2, PromisedFrame DEF Tried, SameDisputes
<1>6. ASSUME NEW r \in Runs, Claim(r)
      PROVE  Kept
  <2>0. SameDisputes
    BY <1>6, DisputesFrame DEF Claim
  <2>1. PICK batch \in SUBSET Claimable :
               /\ \A e \in Emails :
                    outbox'[e] = IF e \in batch THEN ClaimedRow(outbox[e]) ELSE outbox[e]
               /\ \A s \in Runs \ {r} : runs'[s] = runs[s]
               /\ \A e \in Emails :
                    runs'[r].batch[e] = IF e \in batch THEN outbox[e].attempts + 1 ELSE 0
               /\ runs[r].pc = "idle"
    BY <1>0, <1>6, ClaimFacts
  <2>2. batch \in SUBSET Emails
    BY DEF Claimable
  <2>3. ASSUME NEW e \in batch
        PROVE  /\ \/ /\ PromisedState(e) = "waiting" /\ outbox[e].attempts < 2
                     /\ PromisedState(e)' = "held"
                  \/ PromisedState(e) = "disputed" /\ PromisedState(e)' = "disputed"
               /\ outbox'[e].attempts = outbox[e].attempts + 1
    <3>1. e \in Emails /\ outbox[e].status \in {"pending", "failed_retryable"} /\ outbox[e].attempts \in Nat
      BY <1>0 DEF Claimable, Row
    <3>2. outbox'[e] = ClaimedRow(outbox[e]) /\ runs'[r].batch[e] = outbox[e].attempts + 1
      BY <2>1, <3>1
    <3>3. outbox'[e].attempts = outbox[e].attempts + 1 /\ Held(r, e)'
      BY <3>1, <3>2 DEF ClaimedRow, Held
    <3>4. CASE Disputed(e)
      BY <2>0, <3>1, <3>3, <3>4, PromisedCases, PromisedNext DEF SameDisputes
    <3>5. CASE ~Disputed(e)
      <4>1. Guarded(e)
        BY <1>0, <3>1, <3>5
      <4>2. \A s \in Runs : ~Held(s, e)
        BY <3>1, <4>1 DEF Guarded
      <4>3. PromisedState(e) = "waiting" /\ PromisedState(e)' = "held"
        BY <2>0, <3>1, <3>3, <3>5, <4>2, PromisedCases, PromisedNext DEF SameDisputes
      <4>4. outbox[e].attempts < 2
        BY <3>1, <4>1 DEF Guarded
      <4> QED
        BY <3>3, <4>3, <4>4
    <3> QED
      BY <3>4, <3>5
  <2>4. ASSUME NEW e \in Emails \ batch
        PROVE  PromisedState(e)' = PromisedState(e) /\ outbox'[e].attempts = outbox[e].attempts
    <3>1. outbox'[e] = outbox[e] /\ runs'[r].batch[e] = 0
      BY <2>1
    <3>2. ~Held(r, e)
      BY <1>0, <2>1 DEF Held, TypeOK, IdleRun
    <3>3. \A s \in Runs : Held(s, e)' <=> Held(s, e)
      BY <2>1, <3>1, <3>2 DEF Held
    <3> QED
      BY <2>0, <3>1, <3>3, PromisedFrame DEF SameDisputes
  <2> QED
    BY <1>2, <2>2, <2>3, <2>4, Takes
<1>7. ASSUME NEW r \in Runs, NEW e \in Emails, NEW m, NEW pc, Proceed(r, pc, e, m), UNCHANGED outbox
      PROVE  /\ Tried
             /\ \A f \in Emails : /\ outbox'[f].status = outbox[f].status
                                  /\ \A s \in Runs : Held(s, f)' <=> Held(s, f)
  <2>1. \A s \in Runs : runs'[s].batch = runs[s].batch
    BY <1>0, <1>7 DEF Proceed, TypeOK
  <2> QED
    BY <1>7, <2>1 DEF Tried, Held
<1>8. ASSUME NEW r \in Runs, NEW e \in Emails, SendRefused(r, e)
      PROVE  Kept
  <2>1. SameDisputes
    BY <1>8, DisputesFrame DEF SendRefused
  <2>2. /\ Tried
        /\ \A f \in Emails : /\ outbox'[f].status = outbox[f].status
                             /\ \A s \in Runs : Held(s, f)' <=> Held(s, f)
    BY <1>7, <1>8 DEF SendRefused
  <2> QED
    BY <1>3, <2>1, <2>2, PromisedFrame DEF SameDisputes
<1>9. ASSUME NEW r \in Runs, NEW e \in Emails, NEW m \in Messages,
             SendAccepted(r, e, m) \/ SendLost(r, e, m)
      PROVE  Kept
  <2>1. Held(r, e) /\ Accept(e, m) /\ reported' = reported
    BY <1>9 DEF SendAccepted, SendLost
  <2>2. /\ Tried
        /\ \A f \in Emails : /\ outbox'[f].status = outbox[f].status
                             /\ \A s \in Runs : Held(s, f)' <=> Held(s, f)
    BY <1>7, <1>9 DEF SendAccepted, SendLost
  <2>3. \A f \in Emails \ {e} : MessagesOf(f)' = MessagesOf(f)
    BY <1>0, <2>1 DEF Accept, MessagesOf, TypeOK
  <2>4. \A f \in Emails \ {e} : Disputed(f)' <=> Disputed(f)
    BY <2>1, <2>3 DEF Disputed
  <2>5. PromisedState(e) # "absent"
    BY <2>1, PromisedCases
  <2> QED
    BY <1>0, <1>1, <1>3, <2>2, <2>4, <2>5, MayDispute
<1>10. ASSUME NEW m \in Messages, Report(m)
       PROVE  Kept
  <2>1. /\ messageOf[m] # NoEmail /\ messageOf' = messageOf /\ outbox' = outbox /\ runs' = runs
        /\ \A n \in Messages \ {m} : reported'[n] = reported[n]
    BY <1>0, <1>10 DEF Report, TypeOK
  <2>2. PICK e \in Emails : e = messageOf[m]
    BY <1>0, <2>1 DEF TypeOK
  <2>3. /\ Tried
        /\ \A f \in Emails : /\ outbox'[f].status = outbox[f].status
                             /\ \A s \in Runs : Held(s, f)' <=> Held(s, f)
    BY <2>1 DEF Tried, Held
  <2>4. \A f \in Emails \ {e} : Disputed(f)' <=> Disputed(f)
    BY <2>1, <2>2 DEF Disputed, MessagesOf
  <2>5. PromisedState(e) # "absent"
    <3>1. m \in MessagesOf(e)
      BY <2>2 DEF MessagesOf
    <3>2. outbox[e].status # "absent"
      BY <3>1, AbsentIsUnsent
    <3> QED
      BY <3>2, PromisedCases
  <2> QED
    BY <1>0, <1>1, <1>3, <2>3, <2>4, <2>5, MayDispute
<1>11. ASSUME NEW r \in Runs, MarkSent(r)
       PROVE  Kept
  <2>0. runs[r].pc = "mark_sent" /\ UpdateSent(r) /\ NextEmail(r) /\ SameDisputes
    BY <1>11, DisputesFrame DEF MarkSent
  <2>1. PICK e \in Emails : e = runs[r].email
    BY <1>0, <2>0 DEF TypeOK
  <2>2. \A f \in Emails : /\ outbox'[f].attempts = outbox[f].attempts
                          /\ outbox'[f].status = IF f = e THEN "sent" ELSE outbox[f].status
    BY <1>0, <2>0, <2>1, UpdateSentFacts
  <2>3. Tried
    BY <2>2 DEF Tried
  <2>4. \A f \in Emails : f # e \/ Disputed(f) => PromisedState(f)' = PromisedState(f)
    BY <1>0, <2>0, <2>1, <2>2, LetGo, PromisedFrame DEF SameDisputes
  <2>5. CASE Disputed(e)
    BY <1>3, <2>3, <2>4, <2>5
  <2>6. CASE ~Disputed(e)
    <3>1. Held(r, e) /\ \A s \in Runs : ~Held(s, e)'
      BY <1>0, <2>0, <2>1, <2>6, LetGo
    <3>2. PromisedState(e) = "held" /\ PromisedState(e)' = "settled"
      BY <2>0, <2>2, <2>6, <3>1, PromisedCases, PromisedNext DEF SameDisputes
    <3> QED
      BY <1>1, <2>3, <2>4, <3>2, Settles
  <2> QED
    BY <2>5, <2>6
<1>12. ASSUME NEW r \in Runs, MarkSentFails(r)
       PROVE  Kept
  <2>0. SameDisputes
    BY <1>12, DisputesFrame DEF MarkSentFails
  <2>1. PICK e \in Emails : e = runs[r].email
    BY <1>0, <1>12 DEF MarkSentFails, TypeOK
  <2>2. \A s \in Runs : runs'[s].batch = runs[s].batch
    BY <1>0, <1>12 DEF MarkSentFails, Proceed, TypeOK
  <2>3. Held(r, e)
    BY <1>0, <1>12, <2>1 DEF MarkSentFails, TypeOK, Held
  <2>4. \A f \in Emails : /\ outbox'[f].attempts = outbox[f].attempts
                          /\ f # e => outbox'[f].status = outbox[f].status
    BY <1>0, <1>12, <2>1, UpdateSentFacts DEF MarkSentFails
  <2>5. \A f \in Emails : \A s \in Runs : Held(s, f)' <=> Held(s, f)
    BY <2>2 DEF Held
  <2>6. PromisedState(e)' = PromisedState(e)
    BY <2>0, <2>3, <2>5, PromisedCases, PromisedNext DEF SameDisputes
  <2>7. \A f \in Emails : PromisedState(f)' = PromisedState(f)
    BY <2>0, <2>4, <2>5, <2>6, PromisedFrame DEF SameDisputes
  <2> QED
    BY <1>3, <2>4, <2>7 DEF Tried
<1>13. ASSUME NEW r \in Runs, MarkFailed(r)
       PROVE  Kept
  <2>0. runs[r].pc = "mark_failed" /\ NextEmail(r) /\ SameDisputes
    BY <1>13, DisputesFrame DEF MarkFailed
  <2>1. PICK e \in Emails : e = runs[r].email
    BY <1>0, <2>0 DEF TypeOK
  <2>2. \A f \in Emails : /\ outbox'[f].attempts = outbox[f].attempts
                          /\ outbox'[f].status = IF f = e THEN StatusAfterFailure(runs[r].batch[e])
                                                 ELSE outbox[f].status
    BY ZenonT(40), <1>0, <1>13, <2>1, MarkFailedFacts
  <2>3. Tried
    BY <2>2 DEF Tried
  <2>4. \A f \in Emails : f # e \/ Disputed(f) => PromisedState(f)' = PromisedState(f)
    BY <1>0, <2>0, <2>1, <2>2, LetGo, PromisedFrame DEF SameDisputes
  <2>5. CASE Disputed(e)
    BY <1>3, <2>3, <2>4, <2>5
  <2>6. CASE ~Disputed(e)
    <3>1. Held(r, e) /\ \A s \in Runs : ~Held(s, e)'
      BY <1>0, <2>0, <2>1, <2>6, LetGo
    <3>2. PromisedState(e) = "held"
      BY <2>6, <3>1, PromisedCases
    <3>3. runs[r].batch[e] = outbox[e].attempts /\ outbox[e].attempts \in Nat
      BY <1>0, <2>6, <3>1 DEF Guarded, Row
    <3>4. CASE outbox[e].attempts + 1 >= 3
      <4>1. outbox'[e].status = "failed_permanent"
        BY <2>2, <3>3, <3>4 DEF StatusAfterFailure
      <4>2. PromisedState(e)' = "settled"
        BY <2>0, <2>6, <3>1, <4>1, PromisedNext DEF SameDisputes
      <4> QED
        BY <1>1, <2>3, <2>4, <3>2, <4>2, Settles
    <3>5. CASE ~(outbox[e].attempts + 1 >= 3)
      <4>1. outbox'[e].status = "failed_retryable" /\ outbox[e].attempts < 2
        BY <2>2, <3>3, <3>5 DEF StatusAfterFailure
      <4>2. PromisedState(e)' = "waiting"
        BY <2>0, <2>6, <3>1, <4>1, PromisedNext DEF SameDisputes
      <4> QED
        BY <1>1, <2>3, <2>4, <3>2, <4>1, <4>2, PutsBack
    <3> QED
      BY <3>4, <3>5
  <2> QED
    BY <2>5, <2>6
<1>14. ASSUME NEW r \in Runs, RunCrash(r)
       PROVE  Kept
  <2> DEFINE batch == {e \in Emails : Held(r, e) /\ ~Disputed(e)}
             settled == {e \in batch : outbox[e].status # "sending"}
  <2>0. SameDisputes
    BY <1>14, DisputesFrame DEF RunCrash
  <2>1. /\ runs'[r] = IdleRun /\ \A s \in Runs \ {r} : runs'[s] = runs[s]
        /\ outbox' = outbox
    BY <1>0, <1>14 DEF RunCrash, TypeOK
  <2>2. Tried
    BY <2>1 DEF Tried
  <2>3. ASSUME NEW e \in batch
        PROVE  PromisedState(e) = "held" /\ ~Disputed(e)' /\ \A s \in Runs : ~Held(s, e)'
    <3>1. \A s \in Runs \ {r} : ~Held(s, e)
      BY <1>0 DEF ExclusiveClaim
    <3>2. runs'[r].batch[e] = 0
      BY <2>1 DEF IdleRun
    <3>3. \A s \in Runs : ~Held(s, e)'
      BY <2>1, <3>1, <3>2 DEF Held
    <3>4. PromisedState(e) = "held" /\ ~Disputed(e)'
      BY <2>0, PromisedCases DEF SameDisputes
    <3> QED
      BY <3>3, <3>4
  <2>4. ASSUME NEW e \in settled
        PROVE  PromisedState(e)' = "settled"
    <3>1. outbox'[e].status \notin {"absent", "pending", "failed_retryable", "sending"}
      BY <1>0, <2>1 DEF Guarded
    <3> QED
      BY <2>3, <3>1, PromisedNext
  <2>5. ASSUME NEW e \in batch \ settled
        PROVE  PromisedState(e)' = "lost"
    BY <2>1, <2>3, PromisedNext
  <2>6. ASSUME NEW e \in Emails \ batch
        PROVE  PromisedState(e)' = PromisedState(e)
    <3>1. CASE Disputed(e)
      BY <2>0, <3>1, PromisedFrame DEF SameDisputes
    <3>2. CASE ~Disputed(e)
      <4>1. \A s \in Runs : Held(s, e)' <=> Held(s, e)
        BY <2>1, <3>2 DEF Held, IdleRun
      <4> QED
        BY <2>0, <2>1, <4>1, PromisedFrame DEF SameDisputes
    <3> QED
      BY <3>1, <3>2
  <2>7. batch \in SUBSET Emails /\ settled \in SUBSET batch
    OBVIOUS
  <2>8. \A e \in batch : PromisedState(e) = "held"
    BY <2>3
  <2> HIDE DEF batch, settled
  <2> QED
    BY <1>2, <2>2, <2>4, <2>5, <2>6, <2>7, <2>8, Loses
<1>15. ASSUME NEW h \in Handlers, UpdateStatus(h)
       PROVE  Kept
  <2>0. /\ handlers[h].email \in Emails /\ handlers[h].type \in EventTypes
        /\ handlers[h].type \in reported[handlers[h].message]
        /\ handlers[h].message \in MessagesOf(handlers[h].email)
        /\ SameDisputes
    BY <1>0, <1>15, DisputesFrame DEF UpdateStatus, MessagesAreKnown, TypeOK, MessagesOf
  <2>1. PICK e \in Emails : e = handlers[h].email
    BY <2>0
  <2>2. /\ runs' = runs
        /\ \A f \in Emails : /\ outbox'[f].attempts = outbox[f].attempts
                             /\ outbox'[f].status = IF f = e THEN StatusOfEvent(handlers[h].type)
                                                    ELSE outbox[f].status
    BY <1>0, <1>15, <2>0, <2>1, UpdateStatusFacts DEF UpdateStatus
  <2>3. Tried /\ \A f \in Emails : \A s \in Runs : Held(s, f)' <=> Held(s, f)
    BY <2>2 DEF Tried, Held
  <2>4. \A f \in Emails : f # e \/ Disputed(f) => PromisedState(f)' = PromisedState(f)
    BY <2>0, <2>2, <2>3, PromisedFrame DEF SameDisputes
  <2>5. CASE Disputed(e)
    BY <1>3, <2>3, <2>4, <2>5
  <2>6. CASE ~Disputed(e)
    <3>1. handlers[h].type # "failed"
      BY <2>0, <2>1, <2>6 DEF Disputed
    <3>2. outbox'[e].status \in SettledStatus
      <4>1. StatusOfEvent(handlers[h].type) \in SettledStatus
        BY <2>0, <3>1 DEF StatusOfEvent, AllEventTypes, SettledStatus
      <4> QED
        BY <2>2, <4>1
    <3>3. outbox[e].status # "absent"
      BY <2>0, <2>1, AbsentIsUnsent
    <3>4. CASE PromisedState(e) \in {"waiting", "lost"}
      <4>1. \A s \in Runs : ~Held(s, e)'
        BY <2>3, <3>4, PromisedCases
      <4>2. PromisedState(e)' = "settled"
        BY <2>0, <2>6, <3>2, <4>1, PromisedNext DEF SettledStatus, SameDisputes
      <4> QED
        BY <1>1, <2>3, <2>4, <3>4, <4>2, Settles
    <3>5. CASE PromisedState(e) \notin {"waiting", "lost"}
      <4>1. PromisedState(e)' = PromisedState(e)
        BY <2>0, <2>3, <2>6, <3>2, <3>3, <3>5, PromisedCases, PromisedNext
           DEF SettledStatus, SameDisputes
      <4> QED
        BY <1>3, <2>3, <2>4, <4>1
    <3> QED
      BY <3>4, <3>5
  <2> QED
    BY <2>5, <2>6
<1>16. ASSUME UNCHANGED <<outbox, runs, messageOf, reported>>
       PROVE  Kept
  <2>1. \A f \in Emails : PromisedState(f)' = PromisedState(f)
    BY <1>16, DisputesFrame, PromisedFrame DEF Held, SameDisputes
  <2> QED
    BY <1>3, <1>16, <2>1 DEF Tried
<1>17. Kept
  BY <1>4, <1>5, <1>6, <1>8, <1>9, <1>10, <1>11, <1>12, <1>13, <1>14, <1>15, <1>16
     DEF Next, vars, RunStep, HandlerStep, HandlerCrash, ReceiveEvent, RecordEvent
<1> QED
  BY <1>17 DEF Kept

\* The outbox implements its promise: one run at a time, two tries, a settled email
\* stays settled, and only an email whose run died is lost, each until Resend reports
\* a failed message of that very email; the attempts of any email only count up.
THEOREM PromiseKept == Spec => KeepsPromise
<1>1. Init => Promise!Init
  <2> SUFFICES ASSUME Init PROVE Promise!Init
    OBVIOUS
  <2>1. \A e \in Emails : outbox[e].status = "absent" /\ outbox[e].attempts = 0
    BY DEF Init
  <2>2. \A e \in Emails, r \in Runs : ~Held(r, e)
    BY DEF Init, IdleRun, Held
  <2>3. \A e \in Emails : ~Disputed(e)
    BY DEF Init, Disputed, MessagesOf
  <2>4. \A e \in Emails : PromisedState(e) = "absent"
    BY <2>1, <2>2, <2>3, PromisedCases
  <2> QED
    BY <2>1, <2>4 DEF Promise!Init
<1>2. ExclusionInvariant /\ CountInvariant /\ [Next]_vars =>
        [Promise!Next]_<<[e \in Emails |-> PromisedState(e)], [e \in Emails |-> outbox[e].attempts]>>
  BY PromiseStep
<1> QED
  BY <1>1, <1>2, ExclusionHolds, CountHolds, PTL DEF Spec, KeepsPromise, Promise!Spec
=============================================================================
