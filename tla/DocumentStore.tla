---------------------------- MODULE DocumentStore ----------------------------
(***************************************************************************)
(* The rows of the database that sample uploads and document checking      *)
(* share: `documents`, `manuscripts.sample_document_id`,                    *)
(* `document_processing_jobs`, and the chunk and embedding rows of a        *)
(* document.  Every operator that changes them is one SQL statement or one  *)
(* RPC transaction of the code, so it is atomic here.                       *)
(*                                                                          *)
(* A document has one job: the upload completes once and the job's          *)
(* idempotency key is computed from the document and its upload id, so jobs *)
(* are indexed by document.                                                 *)
(***************************************************************************)
EXTENDS Naturals

CONSTANTS Documents,     \* ids of sample documents
          Manuscripts,   \* ids of manuscripts
          ManuscriptOf,  \* documents.manuscript_id, fixed when the row is inserted
          NoDocument     \* the null of manuscripts.sample_document_id

ASSUME DocumentAssumption ==
    /\ ManuscriptOf \in [Documents -> Manuscripts]
    /\ NoDocument \notin Documents

VARIABLES documents,       \* the `documents` table
          sampleDocument,  \* manuscripts.sample_document_id
          jobs,            \* the `document_processing_jobs` table
          outputs          \* documents with chunk and embedding rows

storeVars == <<documents, sampleDocument, jobs, outputs>>

-----------------------------------------------------------------------------

StorageStatus == {"absent", "pending_upload", "uploaded", "pending_delete"}
ProcessingStatus == {"not_started", "queued", "processing", "succeeded", "failed"}
EligibilityStatus == {"limited", "eligible", "blocked", "quarantined"}
ReviewOutcome ==
    {"needs_review", "auto_approved", "admin_approved", "admin_rejected", "quarantined"}

\* The failure codes, grouped by how classifyDocumentProcessingFailure treats
\* them: "correctable" by the author, "provider" (download, embedding, scanner).
FailureCode ==
    {"none", "correctable", "provider", "scanner_suspicious", "unexpected"}

Document == [storage     : StorageStatus,
             processing  : ProcessingStatus,
             failure     : FailureCode,
             eligibility : EligibilityStatus,
             outcome     : ReviewOutcome]

JobStatus == {"none", "queued", "running", "succeeded", "failed"}
Job == [status : JobStatus, attempts : Nat]

\* document_processing_jobs.max_attempts, as complete_document_upload sets it.
MaxAttempts == 3

StoreTypeOK ==
    /\ documents \in [Documents -> Document]
    /\ sampleDocument \in [Manuscripts -> Documents \cup {NoDocument}]
    /\ jobs \in [Documents -> Job]
    /\ outputs \subseteq Documents

StoreInit ==
    /\ documents = [d \in Documents |->
                      [storage |-> "absent", processing |-> "not_started", failure |-> "none",
                       eligibility |-> "limited", outcome |-> "needs_review"]]
    /\ sampleDocument = [m \in Manuscripts |-> NoDocument]
    /\ jobs = [d \in Documents |-> [status |-> "none", attempts |-> 0]]
    /\ outputs = {}

-----------------------------------------------------------------------------

\* createAuthorDocumentUpload: the row is inserted under a fresh id.
InsertPendingDocument(d) ==
    /\ documents[d].storage = "absent"
    /\ documents' = [documents EXCEPT ![d].storage = "pending_upload"]
    /\ UNCHANGED <<sampleDocument, jobs, outputs>>

\* Mutant of CompletedRow: the replaced sample is not retired.
CompletedRowKeepsOld(d, e) ==
    IF e = d THEN [storage |-> "uploaded", processing |-> "queued", failure |-> "none",
                   eligibility |-> "limited", outcome |-> "needs_review"]
             ELSE documents[e]

\* What complete_document_upload makes of row e when it completes the upload of d.
CompletedRow(d, e) ==
    CASE e = d -> [storage |-> "uploaded", processing |-> "queued", failure |-> "none",
                   eligibility |-> "limited", outcome |-> "needs_review"]
      [] /\ e # d
         /\ ManuscriptOf[e] = ManuscriptOf[d]
         /\ documents[e].storage = "uploaded" -> [documents[e] EXCEPT !.storage = "pending_delete"]
      [] OTHER -> documents[e]

\* The transaction of complete_document_upload: it locks the row, queues the
\* job, retires the previous sample and points the manuscript at the new one.
CompleteDocumentUpload(d) ==
    /\ documents[d].storage = "pending_upload"
    /\ jobs' = [jobs EXCEPT ![d] = IF @.status = "none"
                                   THEN [status |-> "queued", attempts |-> 0] ELSE @]
    /\ documents' = [e \in Documents |-> CompletedRow(d, e)]
    /\ sampleDocument' = [sampleDocument EXCEPT ![ManuscriptOf[d]] = d]
    /\ UNCHANGED outputs

-----------------------------------------------------------------------------
\* The updates by id that the API's runner and the AI service's worker share.
\* Neither looks at the row it overwrites.

MarkDocumentProcessed(d) ==
    documents' = [documents EXCEPT ![d] =
                    [storage |-> @.storage, processing |-> "succeeded", failure |-> "none",
                     eligibility |-> "eligible", outcome |-> "auto_approved"]]

MarkDocumentFailed(d, code) ==
    documents' = [documents EXCEPT ![d] =
                    [storage |-> @.storage, processing |-> "failed", failure |-> code,
                     eligibility |-> "limited", outcome |-> "needs_review"]]

SetJobStatus(d, status) == jobs' = [jobs EXCEPT ![d].status = status]

-----------------------------------------------------------------------------
\* Properties of the tables that whoever writes them must keep.

\* A manuscript has at most one uploaded sample, and that is the one its
\* sample_document_id names, through every replacement of a sample
\* (documents_one_active_sample_idx and complete_document_upload).
SampleIsTheUploadedDocument ==
    \A d \in Documents :
        documents[d].storage = "uploaded" <=> sampleDocument[ManuscriptOf[d]] = d

\* A document that reads as successfully processed has its chunks and
\* embeddings: matching and intro requests rely on the status alone.
ProcessedHasOutputs ==
    \A d \in Documents : documents[d].processing = "succeeded" => d \in outputs
=============================================================================
