---------------------------- MODULE DocumentRunner ----------------------------
(***************************************************************************)
(* The API's batch script: it reads queued jobs, claims one with a          *)
(* conditional update, asks the AI service to process it, waits at most     *)
(* five minutes, writes the outcome and opens an admin review for the       *)
(* failures that deserve one.  Every database call is a step of its own.    *)
(***************************************************************************)
EXTENDS IngestionWorker, Sequences

VARIABLES runners,   \* the local state of each run of the script
          reviews    \* admin_reviews of source document_processing, per document

RunnerPC == {"idle", "claim", "mark_processing", "dispatch", "await", "finish_job",
             "finish_document", "find_review", "create_review"}

Runner == [pc       : RunnerPC,
           doc      : Documents \cup {NoDocument},
           attempts : Nat,      \* attempt_count as read, then as claimed
           result   : Result]

IdleRunner == [pc |-> "idle", doc |-> NoDocument, attempts |-> 0, result |-> "none"]

ExceptionQueue == {"quarantine", "needs_review", "system_failures"}

Review == [status      : {"pending", "approved", "rejected"},
           eligibility : EligibilityStatus,
           outcome     : ReviewOutcome,
           queue       : ExceptionQueue]

RunnerTypeOK ==
    /\ runners \in [Runners -> Runner]
    /\ \A r \in Runners : runners[r].pc # "idle" => runners[r].doc \in Documents
    /\ reviews \in [Documents -> Seq(Review)]

RunnerInit ==
    /\ runners = [r \in Runners |-> IdleRunner]
    /\ reviews = [d \in Documents |-> <<>>]

-----------------------------------------------------------------------------
\* classifyDocumentProcessingFailure

DeservesReview(result, attempts) ==
    \/ result \in {"suspicious", "quarantined", "unexpected"}
    \/ result = "provider" /\ attempts >= MaxAttempts

ReviewFor(result) ==
    IF result = "quarantined"
    THEN [status |-> "pending", eligibility |-> "quarantined", outcome |-> "quarantined",
          queue |-> "quarantine"]
    ELSE [status |-> "pending", eligibility |-> "limited", outcome |-> "needs_review",
          queue |-> IF result = "suspicious" THEN "needs_review" ELSE "system_failures"]

HasPendingReview(d) ==
    \E i \in 1..Len(reviews[d]) : reviews[d][i].status = "pending"

-----------------------------------------------------------------------------

SetRunner(r, runner) == runners' = [runners EXCEPT ![r] = runner]

\* The run goes on to pc with these values, for the same document.
Continue(r, pc, attempts, result) ==
    SetRunner(r, [pc |-> pc, doc |-> runners[r].doc, attempts |-> attempts, result |-> result])

\* The list of queued jobs, then getSupabaseJob for one that is still queued.
ReadJob(r, d) ==
    /\ runners[r].pc = "idle"
    /\ jobs[d].status = "queued"
    /\ SetRunner(r, [pc |-> "claim", doc |-> d, attempts |-> jobs[d].attempts, result |-> "none"])
    /\ UNCHANGED <<storeVars, workers, reviews>>

\* Mutant of ClaimJob: an update by id, without the status guard.
ClaimJobUnguarded(r) ==
    LET d == runners[r].doc IN
    /\ runners[r].pc = "claim"
    /\ jobs' = [jobs EXCEPT ![d] = [status |-> "running",
                                    attempts |-> runners[r].attempts + 1]]
    /\ Continue(r, "mark_processing", runners[r].attempts + 1, "none")
    /\ UNCHANGED <<documents, sampleDocument, outputs, workers, reviews>>

\* claimSupabaseJob: UPDATE ... WHERE status = 'queued'.
ClaimJob(r) ==
    LET d == runners[r].doc IN
    /\ runners[r].pc = "claim"
    /\ IF jobs[d].status = "queued"
       THEN /\ jobs' = [jobs EXCEPT ![d] = [status |-> "running",
                                            attempts |-> runners[r].attempts + 1]]
            /\ Continue(r, "mark_processing", runners[r].attempts + 1, "none")
       ELSE /\ SetRunner(r, IdleRunner)
            /\ UNCHANGED jobs
    /\ UNCHANGED <<documents, sampleDocument, outputs, workers, reviews>>

MarkDocumentProcessing(r) ==
    /\ runners[r].pc = "mark_processing"
    /\ documents' = [documents EXCEPT ![runners[r].doc] =
                       [storage |-> @.storage, processing |-> "processing", failure |-> "none",
                        eligibility |-> @.eligibility, outcome |-> @.outcome]]
    /\ Continue(r, "dispatch", runners[r].attempts, "none")
    /\ UNCHANGED <<sampleDocument, jobs, outputs, workers, reviews>>

Dispatch(r) ==
    /\ runners[r].pc = "dispatch"
    /\ \E w \in Workers : ReceiveRequest(w, runners[r].doc, r)
    /\ Continue(r, "await", runners[r].attempts, "none")
    /\ UNCHANGED <<storeVars, reviews>>

\* A response that is not ok counts as an unexpected processing error.
ReceiveReply(r, w) ==
    /\ runners[r].pc = "await"
    /\ workers[w].pc = "reply"
    /\ workers[w].caller = r
    /\ Continue(r, "finish_job", runners[r].attempts,
                IF workers[w].result = "error" THEN "unexpected" ELSE workers[w].result)
    /\ workers' = [workers EXCEPT ![w] = IdleWorker]
    /\ UNCHANGED <<storeVars, reviews>>

\* dispatchDocumentProcessingJobSafely turns a failed or timed-out call into an
\* unexpected failure; the worker, if it was reached, goes on.
DispatchFails(r) ==
    /\ runners[r].pc \in {"dispatch", "await"}
    /\ Continue(r, "finish_job", runners[r].attempts, "unexpected")
    /\ Abandon(r)
    /\ UNCHANGED <<storeVars, reviews>>

\* markSupabaseJobSucceeded / markSupabaseJobFailed: WHERE status = 'running'.
FinishJob(r) ==
    LET d == runners[r].doc IN
    /\ runners[r].pc = "finish_job"
    /\ IF jobs[d].status = "running"
       THEN SetJobStatus(d, IF runners[r].result = "succeeded" THEN "succeeded" ELSE "failed")
       ELSE UNCHANGED jobs
    /\ Continue(r, "finish_document", runners[r].attempts, runners[r].result)
    /\ UNCHANGED <<documents, sampleDocument, outputs, workers, reviews>>

\* The document is written whether or not the job update found its row.
FinishDocument(r) ==
    LET d == runners[r].doc
        result == runners[r].result IN
    /\ runners[r].pc = "finish_document"
    /\ IF result = "succeeded"
       THEN MarkDocumentProcessed(d)
       ELSE MarkDocumentFailed(d, CodeOf(result))
    /\ IF DeservesReview(result, runners[r].attempts)
       THEN Continue(r, "find_review", runners[r].attempts, result)
       ELSE SetRunner(r, IdleRunner)
    /\ UNCHANGED <<sampleDocument, jobs, outputs, workers, reviews>>

\* createDocumentProcessingAdminException looks for a pending review ...
FindReview(r) ==
    /\ runners[r].pc = "find_review"
    /\ IF HasPendingReview(runners[r].doc)
       THEN SetRunner(r, IdleRunner)
       ELSE Continue(r, "create_review", runners[r].attempts, runners[r].result)
    /\ UNCHANGED <<storeVars, workers, reviews>>

\* ... and inserts one in a second call, with no constraint behind it.
CreateReview(r) ==
    /\ runners[r].pc = "create_review"
    /\ reviews' = [reviews EXCEPT ![runners[r].doc] = Append(@, ReviewFor(runners[r].result))]
    /\ SetRunner(r, IdleRunner)
    /\ UNCHANGED <<storeVars, workers>>

\* A database call throws or the script dies: the run ends where it is.
RunnerCrash(r) ==
    /\ runners[r].pc # "idle"
    /\ SetRunner(r, IdleRunner)
    /\ Abandon(r)
    /\ UNCHANGED <<storeVars, reviews>>

RunnerStep(r) ==
    \/ \E d \in Documents : ReadJob(r, d)
    \/ ClaimJob(r)
    \/ MarkDocumentProcessing(r)
    \/ Dispatch(r)
    \/ \E w \in Workers : ReceiveReply(r, w)
    \/ FinishJob(r)
    \/ FinishDocument(r)
    \/ FindReview(r)
    \/ CreateReview(r)
=============================================================================
