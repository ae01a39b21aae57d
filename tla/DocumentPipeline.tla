--------------------------- MODULE DocumentPipeline ---------------------------
(***************************************************************************)
(* Sample uploads from the author's request to the admin's desk: the upload *)
(* endpoints, the Cloud Tasks queue, the batch script, the AI service and   *)
(* the review decision, all over the tables of DocumentStore.               *)
(***************************************************************************)
EXTENDS DocumentRunner

CONSTANTS UseCloudTasks,   \* config.documentProcessingProvider = "cloud_tasks"
          MaxFaults        \* bound: errors, timeouts and crashes in a behaviour

ASSUME PipelineAssumption ==
    /\ UseCloudTasks \in BOOLEAN
    /\ MaxFaults \in Nat

VARIABLES enqueueing,   \* completions committed whose task is not created yet
          tasks,        \* the Cloud Tasks queue, one named task per job
          faults        \* faults so far

pipelineVars == <<enqueueing, tasks>>
vars == <<storeVars, workers, runners, reviews, pipelineVars, faults>>

TaskState == {"none", "waiting", "delivered"}

TypeOK ==
    /\ StoreTypeOK
    /\ WorkerTypeOK
    /\ RunnerTypeOK
    /\ enqueueing \subseteq Documents
    /\ tasks \in [Documents -> TaskState]
    /\ faults \in 0..MaxFaults

Init ==
    /\ StoreInit
    /\ WorkerInit
    /\ RunnerInit
    /\ enqueueing = {}
    /\ tasks = [d \in Documents |-> "none"]
    /\ faults = 0

Fault == faults < MaxFaults /\ faults' = faults + 1

-----------------------------------------------------------------------------
\* The author's requests.

CreateUpload(d) ==
    /\ InsertPendingDocument(d)
    /\ UNCHANGED <<workers, runners, reviews, pipelineVars, faults>>

\* completeAuthorDocumentUpload up to the commit of the RPC.
CompleteUpload(d) ==
    /\ CompleteDocumentUpload(d)
    /\ enqueueing' = IF UseCloudTasks THEN enqueueing \cup {d} ELSE enqueueing
    /\ UNCHANGED <<workers, runners, reviews, tasks, faults>>

\* ... and then the task is created; a task of that name may already exist.
EnqueueTask(d) ==
    /\ d \in enqueueing
    /\ enqueueing' = enqueueing \ {d}
    /\ tasks' = [tasks EXCEPT ![d] = "waiting"]
    /\ UNCHANGED <<storeVars, workers, runners, reviews, faults>>

\* The job id lookup or createTask fails: the upload stays completed and a
\* second try of the author is a conflict.
EnqueueFails(d) ==
    /\ d \in enqueueing
    /\ enqueueing' = enqueueing \ {d}
    /\ Fault
    /\ UNCHANGED <<storeVars, workers, runners, reviews, tasks>>

-----------------------------------------------------------------------------
\* Cloud Tasks: at-least-once delivery of POST /internal/ingestion/run.

DeliverTask(d) ==
    /\ tasks[d] = "waiting"
    /\ \E w \in Workers : ReceiveRequest(w, d, d)
    /\ tasks' = [tasks EXCEPT ![d] = "delivered"]
    /\ UNCHANGED <<storeVars, runners, reviews, enqueueing, faults>>

\* Any answer of process_job is a 200 and ends the task; a 5xx brings it back.
AnswerTask(w) ==
    LET d == workers[w].caller IN
    /\ workers[w].pc = "reply"
    /\ d \in Documents
    /\ tasks' = [tasks EXCEPT ![d] = IF workers[w].result = "error" THEN "waiting" ELSE "none"]
    /\ workers' = [workers EXCEPT ![w] = IdleWorker]
    /\ UNCHANGED <<storeVars, runners, reviews, enqueueing, faults>>

\* The delivery times out, or its answer is lost: the task is delivered again
\* while the first request may still be running.
LoseDelivery(d) ==
    /\ tasks[d] = "delivered"
    /\ Fault
    /\ tasks' = [tasks EXCEPT ![d] = "waiting"]
    /\ Abandon(d)
    /\ UNCHANGED <<storeVars, runners, reviews, enqueueing>>

-----------------------------------------------------------------------------
\* apply_admin_review_decision on a review of a document.

Decisions == {"approved", "restored", "rejected", "suspended", "quarantined"}

DecidedStatus(decision) ==
    IF decision \in {"approved", "restored"} THEN "approved" ELSE "rejected"

DecidedEligibility(decision) ==
    CASE decision \in {"approved", "restored"} -> "eligible"
      [] decision = "quarantined" -> "quarantined"
      [] OTHER -> "blocked"

DecidedOutcome(decision) ==
    CASE decision \in {"approved", "restored"} -> "admin_approved"
      [] decision = "quarantined" -> "quarantined"
      [] OTHER -> "admin_rejected"

AwaitsDecision(row) == row.eligibility = "limited" /\ row.outcome = "needs_review"

\* The review must be pending, limited and in needs_review; the document is
\* updated only if it still is, and it is no error when it is not.
DecideReview(d, i, decision) ==
    LET eligibility == DecidedEligibility(decision)
        outcome == DecidedOutcome(decision) IN
    /\ reviews[d][i].status = "pending"
    /\ AwaitsDecision(reviews[d][i])
    /\ reviews' = [reviews EXCEPT ![d] = [@ EXCEPT ![i] =
                     [status |-> DecidedStatus(decision), eligibility |-> eligibility,
                      outcome |-> outcome,
                      queue |-> IF decision = "quarantined" THEN "quarantine" ELSE "needs_review"]]]
    /\ documents' = IF AwaitsDecision(documents[d])
                    THEN [documents EXCEPT ![d] =
                            [storage |-> @.storage, processing |-> @.processing,
                             failure |-> @.failure, eligibility |-> eligibility,
                             outcome |-> outcome]]
                    ELSE documents
    /\ UNCHANGED <<sampleDocument, jobs, outputs, workers, runners, pipelineVars, faults>>

AdminDecision ==
    \E d \in Documents : \E i \in 1..Len(reviews[d]), decision \in Decisions :
        DecideReview(d, i, decision)

-----------------------------------------------------------------------------

WorkerNext(w) ==
    /\ WorkerStep(w)
    /\ UNCHANGED <<runners, reviews, pipelineVars, faults>>

RunnerNext(r) ==
    /\ RunnerStep(r)
    /\ UNCHANGED <<pipelineVars, faults>>

Failure ==
    \/ \E d \in Documents : EnqueueFails(d) \/ LoseDelivery(d)
    \/ \E w \in Workers :
         WorkerError(w) /\ Fault /\ UNCHANGED <<runners, reviews, pipelineVars>>
    \/ \E r \in Runners :
         (DispatchFails(r) \/ RunnerCrash(r)) /\ Fault /\ UNCHANGED pipelineVars

Next ==
    \/ \E d \in Documents :
         CreateUpload(d) \/ CompleteUpload(d) \/ EnqueueTask(d) \/ DeliverTask(d)
    \/ \E w \in Workers : WorkerNext(w) \/ AnswerTask(w)
    \/ \E r \in Runners : RunnerNext(r)
    \/ AdminDecision
    \/ Failure

Spec == Init /\ [][Next]_vars

\* The AI service's threads run and the queue delivers.  Nobody is bound to
\* complete an upload or to run the batch script, and faults just happen.
Fairness ==
    /\ \A w \in Workers : WF_vars(WorkerNext(w)) /\ WF_vars(AnswerTask(w))
    /\ \A d \in Documents : WF_vars(DeliverTask(d))

FairSpec == Spec /\ Fairness

-----------------------------------------------------------------------------
\* Properties

Claimed(r) == runners[r].pc \notin {"idle", "claim"}

\* Two runs of the batch script never work on the same job, however their
\* reads, their claims and the AI service's updates of the job interleave
\* (claimSupabaseJob).
OneRunPerJob ==
    \A r, s \in Runners :
        Claimed(r) /\ Claimed(s) /\ r # s => runners[r].doc # runners[s].doc

\* A failed document never has two document_processing reviews, although
\* createDocumentProcessingAdminException checks and inserts in two calls
\* with no unique index behind them.
OneReviewPerDocument == \A d \in Documents : Len(reviews[d]) <= 1

\* Bytes the scanner did not pass are never chunked, and only an admin's
\* decision can make their document eligible: no timeout, lost reply, retry
\* or crash fails open (_process_document, processSupabaseDocumentProcessingJob).
UnsafeIsNeverExposed ==
    \A d \in Documents : ScanVerdict[d] # "clean" =>
        /\ d \notin outputs
        /\ documents[d].eligibility = "eligible" => documents[d].outcome = "admin_approved"

\* The strengthening the last three need: replies only go to the run that
\* waits for them, for the document it asked about ...
ReplyIsAwaited ==
    \A w \in Workers : workers[w].caller \in Runners =>
        LET r == workers[w].caller IN
        /\ runners[r].pc = "await"
        /\ runners[r].doc = workers[w].doc
        /\ \A v \in Workers : workers[v].caller = r => v = w

\* ... a success is only ever claimed for a clean document, and once it is
\* reported the chunks are there ...
SuccessIsBacked ==
    /\ \A w \in Workers :
         /\ workers[w].pc \in {"replace_outputs", "document_processed", "job_succeeded"}
              => workers[w].result = "succeeded"
         /\ workers[w].result = "succeeded"
              => /\ ScanVerdict[workers[w].doc] = "clean"
                 /\ workers[w].pc = "replace_outputs" \/ workers[w].doc \in outputs
    /\ \A r \in Runners : runners[r].result = "succeeded" => runners[r].doc \in outputs

\* ... and a job that is still to be claimed has no run and no review, and a
\* claimed one has no review until its run creates it and ends.
ClaimInvariant ==
    /\ \A d \in Documents : jobs[d].status \in {"none", "queued"} =>
         /\ reviews[d] = <<>>
         /\ \A r \in Runners : Claimed(r) => runners[r].doc # d
    /\ \A r \in Runners : Claimed(r) => reviews[runners[r].doc] = <<>>

EvidenceInvariant == ReplyIsAwaited /\ SuccessIsBacked

Checked(d) == documents[d].processing \in {"succeeded", "failed"}

\* Once the task of a completed upload exists, the document is checked in the
\* end, whatever errors, lost answers and overlapping deliveries come between:
\* process_job writes the document before it closes the job.
EnqueuedIsChecked == \A d \in Documents : (tasks[d] # "none") ~> [](Checked(d))
=============================================================================
