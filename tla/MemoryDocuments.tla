--------------------------- MODULE MemoryDocuments ---------------------------
(***************************************************************************)
(* The documents of an API whose authMode is "test", over MemoryIntros: the *)
(* uploads of samples, the local runner that has them processed, and the    *)
(* reviews it opens.  A handler that waits for the file system or for the   *)
(* AI service goes on with what it has checked before.  Which manuscripts   *)
(* are clear for intro requests follows from all this.                      *)
(***************************************************************************)
EXTENDS MemoryIntros, FiniteSetsExt

CONSTANTS Documents,
          ManuscriptOf,
          SizeOf,                  \* fileSizeBytes, declared with the upload
          Uploads,                 \* completions under way
          NoDocument,
          TrialStorage, PaidStorage, \* storageBytes of an author's plans
          MaxDecisions             \* bound: decisions about reviews

ASSUME MemoryDocumentsAssumption ==
    /\ ManuscriptOf \in [Documents -> Manuscripts]
    /\ SizeOf \in [Documents -> Nat]
    /\ NoDocument \notin Documents
    /\ IsFiniteSet(Documents) /\ IsFiniteSet(Uploads)
    /\ {TrialStorage, PaidStorage, MaxDecisions} \subseteq Nat

VARIABLES documents,  \* manuscriptTestState.documents
          samples,    \* sampleDocumentId of each manuscript
          files,      \* documents whose file is in local-uploads
          puts,       \* requests that found the upload pending and are writing the file
          uploads,    \* completions that wait for the stat of the file
          jobs,       \* the ingestion jobs of adminTestState.jobRuns, newest first
          places,     \* jobIndex of the processing of a document under way: the place in
                      \* jobs that its job had when it was started
          reviews,    \* adminTestState.reviews of documents, oldest first
          audits      \* adminTestState.auditLogs of their decisions, oldest first

documentVars == <<documents, samples, files, puts, uploads, jobs, places, reviews, audits>>

apiVars == <<vars, documentVars>>

Document == [storage     : {"none", "pending_upload", "uploaded", "pending_delete"},
             processing  : {"not_started", "queued", "processing", "succeeded", "failed"},
             adminReview : {"not_submitted", "approved", "rejected"},
             eligibility : {"limited", "eligible", "blocked"}]

NewDocument(storage) == [storage |-> storage, processing |-> "not_started",
                         adminReview |-> "not_submitted", eligibility |-> "limited"]

\* What the AI service answers, or what becomes of a call that throws, and the queue in
\* which a failure is reviewed. "provider" is a failure that is reviewed only after the
\* third attempt; a job is run once.
FailureQueue == [unsafe      |-> "quarantine",
                 suspicious  |-> "needs_review",
                 mismatched  |-> "needs_review",
                 unexpected  |-> "system_failures",
                 provider    |-> "none",
                 correctable |-> "none"]

Review == [document : Documents,
           status   : {"pending", "approved", "rejected"},
           queue    : {"quarantine", "needs_review", "system_failures"}]

Job == [document : Documents, status : {"queued", "running", "succeeded", "failed"}]

\* findIndex from 0 is a place from 1; without processing under way there is none.
NoPlace == 0

Decisions == {"approved", "restored", "rejected", "suspended", "quarantined"}

Audit == [document : Documents, decision : Decisions]

DocumentsTypeOK ==
    /\ documents \in [Documents -> Document]
    /\ samples \in [Manuscripts -> Documents \cup {NoDocument}]
    /\ files \subseteq Documents
    /\ puts \subseteq Documents
    /\ uploads \in [Uploads -> Documents \cup {NoDocument}]
    /\ jobs \in Seq(Job)
    /\ places \in [Documents -> Nat]
    /\ reviews \in Seq(Review)
    /\ audits \in Seq(Audit)

DocumentsInit ==
    /\ documents = [d \in Documents |-> NewDocument("none")]
    /\ samples = [m \in Manuscripts |-> NoDocument]
    /\ files = {}
    /\ puts = {}
    /\ uploads = [c \in Uploads |-> NoDocument]
    /\ jobs = <<>>
    /\ places = [d \in Documents |-> NoPlace]
    /\ reviews = <<>>
    /\ audits = <<>>

\* isTestPairCurrentlyEligible: the sample of a manuscript is uploaded, processed and eligible.
Clear(docs, sampleOf) ==
    {m \in Manuscripts : sampleOf[m] # NoDocument
                           /\ docs[sampleOf[m]].storage = "uploaded"
                           /\ docs[sampleOf[m]].processing = "succeeded"
                           /\ docs[sampleOf[m]].eligibility = "eligible"}

-----------------------------------------------------------------------------
\* Upload

Uploader(d) == AuthorOf[ManuscriptOf[d]]

Stored(p) == {d \in Documents : Uploader(d) = p /\ documents[d].storage = "uploaded"}

Size(docs) == MapThenSumSet(LAMBDA d : SizeOf[d], docs)

\* What p has stored beside the documents of m.
StoredElsewhere(p, m) == {d \in Stored(p) : ManuscriptOf[d] # m}

Storage(plan) == IF plan = "trial" THEN TrialStorage ELSE PaidStorage

\* Mutant: what the upload replaces is taken off, what it adds is not put on.
FitsUnadded(d) == Size(StoredElsewhere(Uploader(d), ManuscriptOf[d])) <= Storage(Current(Uploader(d)).plan)

Fits(d) ==
    Size(StoredElsewhere(Uploader(d), ManuscriptOf[d])) + SizeOf[d]
        <= Storage(Current(Uploader(d)).plan)

\* assertCanUploadSample
MayUpload(d) == Active(Uploader(d)) /\ Fits(d)

CreateUpload(d) ==
    /\ documents[d].storage = "none"
    /\ MayUpload(d)
    /\ documents' = [documents EXCEPT ![d] = NewDocument("pending_upload")]
    /\ UNCHANGED <<samples, files, puts, uploads, jobs, places, reviews, audits>>

\* PUT of the file; it may arrive several times.
BeginPut(d) ==
    /\ documents[d].storage = "pending_upload"
    /\ puts' = puts \cup {d}
    /\ UNCHANGED <<documents, samples, files, uploads, jobs, places, reviews, audits>>

WriteFile(d) ==
    /\ d \in puts
    /\ puts' = puts \ {d}
    /\ files' = files \cup {d}
    /\ UNCHANGED <<documents, samples, uploads, jobs, places, reviews, audits>>

\* The quota is looked at, whatever the state of the document; then the file.
BeginComplete(c, d) ==
    /\ uploads[c] = NoDocument
    /\ documents[d].storage # "none"
    /\ MayUpload(d)
    /\ uploads' = [uploads EXCEPT ![c] = d]
    /\ UNCHANGED <<documents, samples, files, puts, jobs, places, reviews, audits>>

Pending(d) == documents[d].storage = "pending_upload"

\* Mutant: the upload retires what is pending.
ReplacedPending(d) ==
    {e \in Documents : ManuscriptOf[e] = ManuscriptOf[d] /\ e # d
                         /\ documents[e].storage = "pending_upload"}

\* The samples that the upload of d retires.
Replaced(d) ==
    {e \in Documents : ManuscriptOf[e] = ManuscriptOf[d] /\ e # d
                         /\ documents[e].storage = "uploaded"}

\* completeTestDocumentUpload: the rest of the document stays as it is.
UploadCompleted(d) ==
    [e \in Documents |->
       IF e = d THEN [documents[d] EXCEPT !.storage = "uploaded", !.processing = "queued",
                                          !.eligibility = "limited"]
       ELSE IF e \in Replaced(d) THEN [documents[e] EXCEPT !.storage = "pending_delete"]
       ELSE documents[e]]

JobsOf(d) == {i \in DOMAIN jobs : jobs[i].document = d}

\* queueTestDocumentIngestionJob puts the job of d in front, unless there is one.
QueueJob(d) ==
    jobs' = IF JobsOf(d) = {} THEN <<[document |-> d, status |-> "queued"]>> \o jobs ELSE jobs

FinishComplete(c) ==
    LET d == uploads[c] IN
    /\ d \in files
    /\ Pending(d)
    /\ QueueJob(d)
    /\ documents' = UploadCompleted(d)
    /\ samples' = [samples EXCEPT ![ManuscriptOf[d]] = d]
    /\ uploads' = [uploads EXCEPT ![c] = NoDocument]
    /\ UNCHANGED <<files, puts, places, reviews, audits>>

\* There is no file, the document is not pending any more, or the job cannot be stored.
RefuseComplete(c) ==
    /\ uploads[c] # NoDocument
    /\ uploads' = [uploads EXCEPT ![c] = NoDocument]
    /\ UNCHANGED <<documents, samples, files, puts, jobs, places, reviews, audits>>

-----------------------------------------------------------------------------
\* processTestDocumentProcessingJob

\* Mutant: a job that failed is run again.
RunnableAgain(i) == jobs[i].status \in {"queued", "failed"}

Runnable(i) == jobs[i].status = "queued"

\* The job at place i is started, and the AI service awaited.
StartJob(i) ==
    LET d == jobs[i].document IN
    /\ Runnable(i)
    /\ jobs' = [jobs EXCEPT ![i].status = "running"]
    /\ places' = [places EXCEPT ![d] = i]
    /\ documents' = [documents EXCEPT ![d].processing = "processing"]
    /\ UNCHANGED <<samples, files, puts, uploads, reviews, audits>>

\* createTestDocumentProcessingAdminException keeps to a review that is pending.
OpenReview(d, queue) ==
    reviews' = IF queue = "none" \/ \E i \in DOMAIN reviews :
                      reviews[i].document = d /\ reviews[i].status = "pending"
               THEN reviews
               ELSE Append(reviews, [document |-> d, status |-> "pending", queue |-> queue])

\* updateTestJob writes at the place taken before the await: after an upload has put a job
\* in front, that is the job of another document.
CloseJob(d, status) ==
    /\ places[d] # NoPlace
    /\ jobs' = [jobs EXCEPT ![places[d]].status = status]
    /\ places' = [places EXCEPT ![d] = NoPlace]

SucceedJob(d) ==
    /\ CloseJob(d, "succeeded")
    /\ documents' = [documents EXCEPT ![d].processing = "succeeded", ![d].eligibility = "eligible"]
    /\ UNCHANGED <<samples, files, puts, uploads, reviews, audits>>

FailJob(d, failure) ==
    /\ CloseJob(d, "failed")
    /\ documents' = [documents EXCEPT ![d].processing = "failed", ![d].eligibility = "limited"]
    /\ OpenReview(d, FailureQueue[failure])
    /\ UNCHANGED <<samples, files, puts, uploads, audits>>

-----------------------------------------------------------------------------
\* applyTestAdminReviewDecision

\* setTestDocumentReviewStatus knows two decisions: what is not approved is rejected.
Outcome(decision) == IF decision = "approved" THEN "approved" ELSE "rejected"

\* Nobody asks whether the review is still pending.
Decide(i, decision) ==
    LET d == reviews[i].document IN
    /\ Len(audits) < MaxDecisions
    /\ reviews' = [reviews EXCEPT
                     ![i].status = Outcome(decision),
                     ![i].queue = IF decision = "quarantined" THEN "quarantine" ELSE @]
    /\ audits' = Append(audits, [document |-> d, decision |-> decision])
    /\ documents' = [documents EXCEPT
                       ![d].adminReview = Outcome(decision),
                       ![d].eligibility = IF decision = "approved" THEN "eligible" ELSE "blocked"]
    /\ UNCHANGED <<samples, files, puts, uploads, jobs, places>>

DocumentStep ==
    \/ \E d \in Documents :
         \/ CreateUpload(d) \/ BeginPut(d) \/ WriteFile(d)
         \/ \E c \in Uploads : BeginComplete(c, d)
         \/ SucceedJob(d)
         \/ \E failure \in DOMAIN FailureQueue : FailJob(d, failure)
    \/ \E c \in Uploads : FinishComplete(c) \/ RefuseComplete(c)
    \/ \E i \in DOMAIN jobs : StartJob(i)
    \/ \E i \in DOMAIN reviews, decision \in Decisions : Decide(i, decision)

ApiInit == Init /\ clear = {} /\ DocumentsInit

ApiNext ==
    \/ BillingNext /\ UNCHANGED <<introVars, documentVars>>
    \/ RequestNext /\ UNCHANGED <<billingVars, documentVars>>
    \/ DocumentStep /\ clear' = Clear(documents', samples')
         /\ UNCHANGED <<billingVars, requests, ledger, calls, evidence, notices, mails>>

ApiSpec == ApiInit /\ [][ApiNext]_apiVars
-----------------------------------------------------------------------------
\* A manuscript has at most one uploaded document, and that is its sample, whichever of
\* several completions ends first (completeTestDocumentUpload). Mutations of the array by
\* one completion are all there is to keep it so.
SampleIsTheUpload ==
    \A m \in Manuscripts :
        {d \in Documents : ManuscriptOf[d] = m /\ documents[d].storage = "uploaded"}
            = {samples[m]} \ {NoDocument}

AuditsOf(d) == {i \in DOMAIN audits : audits[i].document = d}

\* The last decision of an admin about a document stands: no job that ends late, no
\* completion and no later review takes it back (processTestDocumentProcessingJob writes
\* the eligibility of the document without a look at what was decided).
DecisionStands ==
    \A d \in Documents : \A i \in AuditsOf(d) :
        (\A j \in AuditsOf(d) : j <= i) =>
            /\ documents[d].adminReview = Outcome(audits[i].decision)
            /\ documents[d].eligibility =
                 IF audits[i].decision = "approved" THEN "eligible" ELSE "blocked"

LargestSize == Max({SizeOf[d] : d \in Documents} \cup {0})

\* The quota is looked at, the file is waited for, and the upload is completed without a
\* second look (completeAuthorDocumentUpload): an author is over the quota by no more than
\* the completions that overlap.
StorageOverrunIsBounded ==
    \A p \in Profiles :
        Size(Stored(p)) <= Max({TrialStorage, PaidStorage})
                             + LargestSize * Max({Cardinality(Uploads) - 1, 0})
=============================================================================
