--------------------------- MODULE IngestionWorker ---------------------------
(***************************************************************************)
(* The AI service's handler of POST /internal/ingestion/run: one request    *)
(* runs IngestionWorker.process_job, a sequence of separate reads and       *)
(* updates by id.  Requests run side by side in the service's threads and   *)
(* are never cancelled when the caller stops waiting.                       *)
(***************************************************************************)
EXTENDS DocumentStore

CONSTANTS Workers,      \* request threads of the AI service
          Runners,      \* runs of the API's batch script, processDocumentJobs.ts
          NoCaller,     \* the caller has stopped waiting
          ScanVerdict   \* what the scanner answers for a document's bytes

\* Who can be waiting for a reply: a run of the batch script, or a delivery of
\* the Cloud Tasks task of a document, named by the document.
Callers == Runners \cup Documents

ASSUME WorkerAssumption ==
    /\ NoCaller \notin Callers
    /\ Runners \cap Documents = {}
    /\ ScanVerdict \in [Documents -> {"clean", "suspicious", "quarantined"}]

VARIABLE workers

Result == {"none", "succeeded", "correctable", "provider", "suspicious", "quarantined",
           "unexpected", "error"}

WorkerPC == {"idle", "get_job", "mark_running", "process", "replace_outputs",
             "document_processed", "job_succeeded", "document_failed", "job_failed", "reply"}

Worker == [pc     : WorkerPC,
           doc    : Documents \cup {NoDocument},
           result : Result,
           caller : Callers \cup {NoCaller}]

IdleWorker == [pc |-> "idle", doc |-> NoDocument, result |-> "none", caller |-> NoCaller]

WorkerTypeOK ==
    /\ workers \in [Workers -> Worker]
    /\ \A w \in Workers : workers[w].pc # "idle" => workers[w].doc \in Documents

WorkerInit == workers = [w \in Workers |-> IdleWorker]

\* The code stored in documents.processing_failure_code for a result; what is
\* no known failure code counts as unexpected (normalizeFailureCode).
CodeOf(result) ==
    CASE result \in {"suspicious", "quarantined"} -> "scanner_suspicious"
      [] result \in {"correctable", "provider"} -> result
      [] OTHER -> "unexpected"

\* Mutant of PossibleResults: only a suspicious verdict stops the document.
PossibleResultsSuspiciousOnly(d) ==
    {"correctable", "provider"} \cup
    (IF ScanVerdict[d] # "suspicious" THEN {"succeeded"} ELSE {"suspicious"})

\* What _process_document can answer: the size check and the storage read come
\* before the scan; only clean bytes are decoded, normalised and chunked.
PossibleResults(d) ==
    {"correctable", "provider"} \cup
    (IF ScanVerdict[d] = "clean" THEN {"succeeded"} ELSE {ScanVerdict[d]})

-----------------------------------------------------------------------------

Goto(w, from, to) ==
    /\ workers[w].pc = from
    /\ workers' = [workers EXCEPT ![w].pc = to]

Answer(w, from, to, result) ==
    /\ workers[w].pc = from
    /\ workers' = [workers EXCEPT ![w] = [pc |-> to, doc |-> @.doc, result |-> result,
                                          caller |-> @.caller]]

\* A request of `caller` for the job of d reaches an idle thread.
ReceiveRequest(w, d, caller) ==
    /\ workers[w] = IdleWorker
    /\ workers' = [workers EXCEPT ![w] = [pc |-> "get_job", doc |-> d,
                                          result |-> "none", caller |-> caller]]

\* Mutant of GetJob: a job that is already running is not seen.
GetJobQueuedOnly(w) ==
    /\ workers[w].pc = "get_job"
    /\ IF jobs[workers[w].doc].status = "queued"
       THEN Goto(w, "get_job", "mark_running")
       ELSE Answer(w, "get_job", "reply", "unexpected")
    /\ UNCHANGED storeVars

\* repository.get_job only sees queued and running jobs.
GetJob(w) ==
    /\ workers[w].pc = "get_job"
    /\ IF jobs[workers[w].doc].status \in {"queued", "running"}
       THEN Goto(w, "get_job", "mark_running")
       ELSE Answer(w, "get_job", "reply", "unexpected")
    /\ UNCHANGED storeVars

\* repository.mark_job_running updates by id, whatever the status is by now.  Before
\* it the document is looked up; the job's foreign key and that nothing deletes a
\* document leave no job without one, so process_job's answer to that is no step here.
MarkJobRunning(w) ==
    /\ Goto(w, "mark_running", "process")
    /\ SetJobStatus(workers[w].doc, "running")
    /\ UNCHANGED <<documents, sampleDocument, outputs>>

\* Mutant of ProcessDocument: the outcome is written without the chunks.
ProcessDocumentUnstored(w) ==
    /\ workers[w].pc = "process"
    /\ \E result \in PossibleResults(workers[w].doc) :
         Answer(w, "process",
                IF result = "succeeded" THEN "document_processed" ELSE "document_failed", result)
    /\ UNCHANGED storeVars

ProcessDocument(w) ==
    /\ workers[w].pc = "process"
    /\ \E result \in PossibleResults(workers[w].doc) :
         Answer(w, "process",
                IF result = "succeeded" THEN "replace_outputs" ELSE "document_failed", result)
    /\ UNCHANGED storeVars

\* replace_document_ingestion_outputs deletes and inserts in one transaction.
ReplaceOutputs(w) ==
    /\ Goto(w, "replace_outputs", "document_processed")
    /\ outputs' = outputs \cup {workers[w].doc}
    /\ UNCHANGED <<documents, sampleDocument, jobs>>

WorkerDocumentProcessed(w) ==
    /\ Goto(w, "document_processed", "job_succeeded")
    /\ MarkDocumentProcessed(workers[w].doc)
    /\ UNCHANGED <<sampleDocument, jobs, outputs>>

WorkerJobSucceeded(w) ==
    /\ Goto(w, "job_succeeded", "reply")
    /\ SetJobStatus(workers[w].doc, "succeeded")
    /\ UNCHANGED <<documents, sampleDocument, outputs>>

WorkerDocumentFailed(w) ==
    /\ Goto(w, "document_failed", "job_failed")
    /\ MarkDocumentFailed(workers[w].doc, CodeOf(workers[w].result))
    /\ UNCHANGED <<sampleDocument, jobs, outputs>>

WorkerJobFailed(w) ==
    /\ Goto(w, "job_failed", "reply")
    /\ SetJobStatus(workers[w].doc, "failed")
    /\ UNCHANGED <<documents, sampleDocument, outputs>>

\* A storage, provider or database call raises outside the handled errors, or
\* the instance dies: nothing more is written and the caller sees a 5xx.
WorkerError(w) ==
    /\ workers[w].pc \notin {"idle", "reply"}
    /\ Answer(w, workers[w].pc, "reply", "error")
    /\ UNCHANGED storeVars

\* The reply of an abandoned request goes nowhere.
DropReply(w) ==
    /\ workers[w].pc = "reply"
    /\ workers[w].caller = NoCaller
    /\ workers' = [workers EXCEPT ![w] = IdleWorker]
    /\ UNCHANGED storeVars

WorkerStep(w) ==
    \/ GetJob(w)
    \/ MarkJobRunning(w)
    \/ ProcessDocument(w)
    \/ ReplaceOutputs(w)
    \/ WorkerDocumentProcessed(w)
    \/ WorkerJobSucceeded(w)
    \/ WorkerDocumentFailed(w)
    \/ WorkerJobFailed(w)
    \/ DropReply(w)

\* The caller c of every request it waits for stops waiting for it.
Abandon(c) ==
    workers' = [w \in Workers |->
                  IF workers[w].caller = c THEN [workers[w] EXCEPT !.caller = NoCaller]
                                           ELSE workers[w]]
=============================================================================
