------------------------ MODULE DocumentPipeline_proofs ------------------------
(***************************************************************************)
(* Theorems about DocumentPipeline, for every set of documents, manuscripts,*)
(* worker threads and runs of the batch script, and any number of faults.   *)
(***************************************************************************)
EXTENDS DocumentPipeline, SequenceTheorems, TLAPS

USE DocumentAssumption, WorkerAssumption, PipelineAssumption

\* Every row, queue entry and local state keeps its type: a busy thread or run
\* always has a document, and a review is always a complete row.
LEMMA TypeInit == Init => TypeOK
<1> SUFFICES ASSUME Init PROVE TypeOK
  OBVIOUS
<1>1. StoreTypeOK
  BY DEF Init, StoreInit, StoreTypeOK, Document, StorageStatus, ProcessingStatus, FailureCode,
         EligibilityStatus, ReviewOutcome, Job, JobStatus
<1>2. WorkerTypeOK
  BY DEF Init, WorkerInit, WorkerTypeOK, Worker, IdleWorker, WorkerPC, Result
<1>3. RunnerTypeOK
  BY DEF Init, RunnerInit, RunnerTypeOK, Runner, IdleRunner, RunnerPC, Result
<1> QED
  BY <1>1, <1>2, <1>3 DEF Init, TypeOK, TaskState

-----------------------------------------------------------------------------
\* The shared updates keep the types of the tables they write.

LEMMA MarkProcessedType ==
  ASSUME TypeOK, NEW d \in Documents, MarkDocumentProcessed(d)
  PROVE  documents' \in [Documents -> Document]
  BY DEF TypeOK, StoreTypeOK, MarkDocumentProcessed, Document, ProcessingStatus, FailureCode,
         EligibilityStatus, ReviewOutcome

LEMMA MarkFailedType ==
  ASSUME TypeOK, NEW d \in Documents, NEW code \in FailureCode, MarkDocumentFailed(d, code)
  PROVE  documents' \in [Documents -> Document]
  BY DEF TypeOK, StoreTypeOK, MarkDocumentFailed, Document, ProcessingStatus, EligibilityStatus,
         ReviewOutcome

LEMMA SetJobType ==
  ASSUME TypeOK, NEW d \in Documents, NEW status \in JobStatus, SetJobStatus(d, status)
  PROVE  jobs' \in [Documents -> Job]
  BY DEF TypeOK, StoreTypeOK, SetJobStatus, Job

LEMMA AbandonType ==
  ASSUME TypeOK, NEW c, Abandon(c)
  PROVE  WorkerTypeOK'
  BY DEF TypeOK, WorkerTypeOK, Abandon, Worker, IdleWorker

LEMMA CodeOfType ==
  ASSUME NEW result
  PROVE  CodeOf(result) \in FailureCode
  BY DEF CodeOf, FailureCode

LEMMA ReviewForType ==
  ASSUME NEW result
  PROVE  ReviewFor(result) \in Review
  BY DEF ReviewFor, Review, EligibilityStatus, ReviewOutcome, ExceptionQueue

\* Steps of the AI service's threads.

LEMMA GotoType ==
  ASSUME TypeOK, NEW w \in Workers, NEW from, NEW to \in WorkerPC, from # "idle",
         Goto(w, from, to)
  PROVE  workers[w].doc \in Documents /\ WorkerTypeOK'
<1>1. workers \in [Workers -> Worker] /\ workers[w].doc \in Documents
  BY DEF TypeOK, WorkerTypeOK, Goto
<1>2. workers' \in [Workers -> Worker]
  BY <1>1 DEF Goto, Worker
<1>3. ASSUME NEW v \in Workers, workers'[v].pc # "idle"
      PROVE  workers'[v].doc \in Documents
  BY <1>1, <1>3 DEF Goto, Worker, TypeOK, WorkerTypeOK
<1> QED
  BY <1>1, <1>2, <1>3 DEF WorkerTypeOK

LEMMA AnswerType ==
  ASSUME TypeOK, NEW w \in Workers, NEW from, NEW to \in WorkerPC, NEW result \in Result,
         from # "idle", Answer(w, from, to, result)
  PROVE  WorkerTypeOK'
<1>1. workers \in [Workers -> Worker] /\ workers[w].doc \in Documents
  BY DEF TypeOK, WorkerTypeOK, Answer
<1>2. workers' \in [Workers -> Worker]
  BY <1>1 DEF Answer, Worker
<1>3. ASSUME NEW v \in Workers, workers'[v].pc # "idle"
      PROVE  workers'[v].doc \in Documents
  BY <1>1, <1>3 DEF Answer, Worker, TypeOK, WorkerTypeOK
<1> QED
  BY <1>1, <1>2, <1>3 DEF WorkerTypeOK

LEMMA WorkerStepType ==
  ASSUME TypeOK, NEW w \in Workers, WorkerStep(w)
  PROVE  StoreTypeOK' /\ WorkerTypeOK'
<1> DEFINE doc == workers[w].doc
<1>0. StoreTypeOK /\ (workers[w].pc # "idle" => doc \in Documents) /\ workers[w].result \in Result
  BY DEF TypeOK, WorkerTypeOK, Worker
<1> HIDE DEF doc
<1>1. CASE GetJob(w)
  BY <1>0, <1>1, GotoType, AnswerType DEF GetJob, WorkerPC, Result, StoreTypeOK, storeVars
<1>2. CASE MarkJobRunning(w)
  <2>1. WorkerTypeOK' /\ doc \in Documents
    BY <1>2, GotoType DEF MarkJobRunning, WorkerPC, doc
  <2>2. jobs' \in [Documents -> Job]
    BY <1>2, <2>1, SetJobType DEF MarkJobRunning, JobStatus, doc
  <2> QED
    BY <1>0, <1>2, <2>1, <2>2 DEF MarkJobRunning, StoreTypeOK
<1>3. CASE ProcessDocument(w)
  <2>1. PossibleResults(doc) \subseteq Result
    BY <1>0, <1>3 DEF ProcessDocument, PossibleResults, Result
  <2> QED
    BY <1>0, <1>3, <2>1, AnswerType DEF ProcessDocument, WorkerPC, StoreTypeOK, storeVars, doc
<1>4. CASE ReplaceOutputs(w)
  BY <1>0, <1>4, GotoType DEF ReplaceOutputs, WorkerPC, StoreTypeOK
<1>5. CASE WorkerDocumentProcessed(w)
  <2>1. WorkerTypeOK' /\ doc \in Documents
    BY <1>5, GotoType DEF WorkerDocumentProcessed, WorkerPC, doc
  <2>2. documents' \in [Documents -> Document]
    BY <1>5, <2>1, MarkProcessedType DEF WorkerDocumentProcessed, doc
  <2> QED
    BY <1>0, <1>5, <2>1, <2>2 DEF WorkerDocumentProcessed, StoreTypeOK
<1>6. CASE WorkerJobSucceeded(w)
  <2>1. WorkerTypeOK' /\ doc \in Documents
    BY <1>6, GotoType DEF WorkerJobSucceeded, WorkerPC, doc
  <2>2. jobs' \in [Documents -> Job]
    BY <1>6, <2>1, SetJobType DEF WorkerJobSucceeded, JobStatus, doc
  <2> QED
    BY <1>0, <1>6, <2>1, <2>2 DEF WorkerJobSucceeded, StoreTypeOK
<1>7. CASE WorkerDocumentFailed(w)
  <2>1. WorkerTypeOK' /\ doc \in Documents
    BY <1>7, GotoType DEF WorkerDocumentFailed, WorkerPC, doc
  <2>2. documents' \in [Documents -> Document]
    BY <1>7, <2>1, MarkFailedType, CodeOfType, <1>0 DEF WorkerDocumentFailed, doc
  <2> QED
    BY <1>0, <1>7, <2>1, <2>2 DEF WorkerDocumentFailed, StoreTypeOK
<1>8. CASE WorkerJobFailed(w)
  <2>1. WorkerTypeOK' /\ doc \in Documents
    BY <1>8, GotoType DEF WorkerJobFailed, WorkerPC, doc
  <2>2. jobs' \in [Documents -> Job]
    BY <1>8, <2>1, SetJobType DEF WorkerJobFailed, JobStatus, doc
  <2> QED
    BY <1>0, <1>8, <2>1, <2>2 DEF WorkerJobFailed, StoreTypeOK
<1>9. CASE DropReply(w)
  BY <1>0, <1>9 DEF DropReply, StoreTypeOK, storeVars, TypeOK, WorkerTypeOK, Worker, IdleWorker,
                    WorkerPC, Result
<1> QED
  BY <1>1, <1>2, <1>3, <1>4, <1>5, <1>6, <1>7, <1>8, <1>9 DEF WorkerStep

-----------------------------------------------------------------------------
\* Steps of the batch script.

LEMMA IdleRunnerType ==
  ASSUME TypeOK, NEW r \in Runners, SetRunner(r, IdleRunner)
  PROVE  /\ runners' \in [Runners -> Runner]
         /\ \A s \in Runners : runners'[s].pc # "idle" => runners'[s].doc \in Documents
<1>1. IdleRunner \in Runner
  BY DEF IdleRunner, Runner, RunnerPC, Result
<1> QED
  BY <1>1 DEF SetRunner, TypeOK, RunnerTypeOK, IdleRunner

LEMMA ContinueType ==
  ASSUME TypeOK, NEW r \in Runners, NEW pc \in RunnerPC, NEW attempts \in Nat,
         NEW result \in Result, runners[r].pc # "idle", Continue(r, pc, attempts, result)
  PROVE  /\ runners[r].doc \in Documents
         /\ runners' \in [Runners -> Runner]
         /\ \A s \in Runners : runners'[s].pc # "idle" => runners'[s].doc \in Documents
<1>1. runners[r].doc \in Documents
  BY DEF TypeOK, RunnerTypeOK
<1>2. [pc |-> pc, doc |-> runners[r].doc, attempts |-> attempts, result |-> result] \in Runner
  BY <1>1 DEF Runner
<1> QED
  BY <1>1, <1>2 DEF Continue, SetRunner, TypeOK, RunnerTypeOK

LEMMA IdleWorkerType ==
  ASSUME TypeOK, NEW w \in Workers, workers' = [workers EXCEPT ![w] = IdleWorker]
  PROVE  WorkerTypeOK'
<1>1. IdleWorker \in Worker
  BY DEF IdleWorker, Worker, WorkerPC, Result
<1> QED
  BY <1>1 DEF TypeOK, WorkerTypeOK, IdleWorker

LEMMA ReceiveRequestType ==
  ASSUME TypeOK, NEW w \in Workers, NEW d \in Documents, NEW caller \in Callers,
         ReceiveRequest(w, d, caller)
  PROVE  WorkerTypeOK'
<1>1. [pc |-> "get_job", doc |-> d, result |-> "none", caller |-> caller] \in Worker
  BY DEF Worker, WorkerPC, Result
<1> QED
  BY <1>1 DEF ReceiveRequest, TypeOK, WorkerTypeOK

LEMMA RunnerStepType ==
  ASSUME TypeOK, NEW r \in Runners, RunnerStep(r)
  PROVE  StoreTypeOK' /\ WorkerTypeOK' /\ RunnerTypeOK'
<1>0. /\ StoreTypeOK /\ WorkerTypeOK
      /\ runners \in [Runners -> Runner] /\ reviews \in [Documents -> Seq(Review)]
      /\ runners[r].attempts \in Nat /\ runners[r].result \in Result
      /\ runners[r].pc # "idle" => runners[r].doc \in Documents
  BY DEF TypeOK, RunnerTypeOK, Runner
<1>1. ASSUME NEW d \in Documents, ReadJob(r, d)
      PROVE  StoreTypeOK' /\ WorkerTypeOK' /\ RunnerTypeOK'
  <2>1. [pc |-> "claim", doc |-> d, attempts |-> jobs[d].attempts, result |-> "none"] \in Runner
    BY <1>0 DEF StoreTypeOK, Job, Runner, RunnerPC, Result
  <2>2. RunnerTypeOK'
    BY <1>0, <1>1, <2>1 DEF ReadJob, SetRunner, TypeOK, RunnerTypeOK
  <2> QED
    BY <1>0, <1>1, <2>2 DEF ReadJob, storeVars, StoreTypeOK, WorkerTypeOK
<1>2. CASE ClaimJob(r)
  <2>1. RunnerTypeOK'
    BY <1>0, <1>2, ContinueType, IdleRunnerType DEF ClaimJob, RunnerTypeOK, RunnerPC, Result
  <2>2. jobs' \in [Documents -> Job]
    <3>1. [status |-> "running", attempts |-> runners[r].attempts + 1] \in Job
      BY <1>0 DEF Job, JobStatus
    <3> QED
      BY <1>0, <1>2, <3>1 DEF ClaimJob, StoreTypeOK
  <2> QED
    BY <1>0, <1>2, <2>1, <2>2 DEF ClaimJob, StoreTypeOK, WorkerTypeOK
<1>3. CASE MarkDocumentProcessing(r)
  <2>1. RunnerTypeOK'
    BY <1>0, <1>3, ContinueType DEF MarkDocumentProcessing, RunnerTypeOK, RunnerPC, Result
  <2>2. documents' \in [Documents -> Document]
    BY <1>0, <1>3 DEF MarkDocumentProcessing, StoreTypeOK, Document, ProcessingStatus, FailureCode
  <2> QED
    BY <1>0, <1>3, <2>1, <2>2 DEF MarkDocumentProcessing, StoreTypeOK, WorkerTypeOK
<1>4. CASE Dispatch(r)
  <2>1. RunnerTypeOK'
    BY <1>0, <1>4, ContinueType DEF Dispatch, RunnerTypeOK, RunnerPC, Result
  <2>2. WorkerTypeOK'
    BY <1>0, <1>4, ReceiveRequestType DEF Dispatch, Callers
  <2> QED
    BY <1>0, <1>4, <2>1, <2>2 DEF Dispatch, StoreTypeOK, storeVars
<1>5. ASSUME NEW w \in Workers, ReceiveReply(r, w)
      PROVE  StoreTypeOK' /\ WorkerTypeOK' /\ RunnerTypeOK'
  <2>1. workers[w].result \in Result
    BY <1>0 DEF WorkerTypeOK, Worker
  <2>2. RunnerTypeOK'
    BY <1>0, <1>5, <2>1, ContinueType DEF ReceiveReply, RunnerTypeOK, RunnerPC, Result
  <2> QED
    BY <1>0, <1>5, <2>2, IdleWorkerType DEF ReceiveReply, StoreTypeOK, storeVars
<1>6. CASE FinishJob(r)
  <2>1. RunnerTypeOK'
    BY <1>0, <1>6, ContinueType DEF FinishJob, RunnerTypeOK, RunnerPC
  <2>2. jobs' \in [Documents -> Job]
    BY <1>0, <1>6, SetJobType DEF FinishJob, StoreTypeOK, JobStatus
  <2> QED
    BY <1>0, <1>6, <2>1, <2>2 DEF FinishJob, StoreTypeOK, WorkerTypeOK
<1>7. CASE FinishDocument(r)
  <2>1. RunnerTypeOK'
    BY <1>0, <1>7, ContinueType, IdleRunnerType DEF FinishDocument, RunnerTypeOK, RunnerPC
  <2>2. documents' \in [Documents -> Document]
    BY <1>0, <1>7, MarkProcessedType, MarkFailedType, CodeOfType DEF FinishDocument
  <2> QED
    BY <1>0, <1>7, <2>1, <2>2 DEF FinishDocument, StoreTypeOK, WorkerTypeOK
<1>8. CASE FindReview(r)
  <2>1. RunnerTypeOK'
    BY <1>0, <1>8, ContinueType, IdleRunnerType DEF FindReview, RunnerTypeOK, RunnerPC
  <2> QED
    BY <1>0, <1>8, <2>1 DEF FindReview, StoreTypeOK, storeVars, WorkerTypeOK
<1>9. CASE CreateReview(r)
  <2>1. reviews' \in [Documents -> Seq(Review)]
    BY <1>0, <1>9, ReviewForType DEF CreateReview
  <2> QED
    BY <1>0, <1>9, <2>1, IdleRunnerType
       DEF CreateReview, RunnerTypeOK, StoreTypeOK, storeVars, WorkerTypeOK
<1> QED
  BY <1>1, <1>2, <1>3, <1>4, <1>5, <1>6, <1>7, <1>8, <1>9 DEF RunnerStep

-----------------------------------------------------------------------------
\* Every step of the pipeline keeps every type.

LEMMA CompleteType ==
  ASSUME TypeOK, NEW d \in Documents, CompleteDocumentUpload(d)
  PROVE  StoreTypeOK'
<1>1. documents' \in [Documents -> Document]
  <2>1. ASSUME NEW e \in Documents PROVE CompletedRow(d, e) \in Document
    <3>1. documents[e] \in Document /\ "pending_delete" \in StorageStatus
      BY DEF TypeOK, StoreTypeOK, StorageStatus
    <3>2. [documents[e] EXCEPT !.storage = "pending_delete"] \in Document
      BY <3>1 DEF Document
    <3>3. [storage |-> "uploaded", processing |-> "queued", failure |-> "none",
           eligibility |-> "limited", outcome |-> "needs_review"] \in Document
      BY DEF Document, StorageStatus, ProcessingStatus, FailureCode, EligibilityStatus,
             ReviewOutcome
    <3> QED
      BY <3>1, <3>2, <3>3 DEF CompletedRow
  <2> QED
    BY <2>1 DEF CompleteDocumentUpload
<1>2. jobs' \in [Documents -> Job]
  BY DEF CompleteDocumentUpload, TypeOK, StoreTypeOK, Job, JobStatus
<1>3. sampleDocument' \in [Manuscripts -> Documents \cup {NoDocument}]
  BY DEF CompleteDocumentUpload, TypeOK, StoreTypeOK
<1> QED
  BY <1>1, <1>2, <1>3 DEF CompleteDocumentUpload, TypeOK, StoreTypeOK

LEMMA DecideType ==
  ASSUME TypeOK, NEW d \in Documents, NEW i \in 1..Len(reviews[d]), NEW decision \in Decisions,
         DecideReview(d, i, decision)
  PROVE  StoreTypeOK' /\ RunnerTypeOK'
<1>1. /\ DecidedEligibility(decision) \in EligibilityStatus
      /\ DecidedOutcome(decision) \in ReviewOutcome
      /\ DecidedStatus(decision) \in {"pending", "approved", "rejected"}
  BY DEF DecidedEligibility, DecidedOutcome, DecidedStatus, EligibilityStatus, ReviewOutcome
<1>2. documents' \in [Documents -> Document]
  BY <1>1 DEF DecideReview, TypeOK, StoreTypeOK, Document
<1>3. reviews' \in [Documents -> Seq(Review)]
  <2> DEFINE decided == [status |-> DecidedStatus(decision),
                         eligibility |-> DecidedEligibility(decision),
                         outcome |-> DecidedOutcome(decision),
                         queue |-> IF decision = "quarantined" THEN "quarantine"
                                                               ELSE "needs_review"]
  <2>1. decided \in Review
    BY <1>1 DEF Review, ExceptionQueue
  <2>2. reviews[d] \in Seq(Review) /\ reviews \in [Documents -> Seq(Review)]
    BY DEF TypeOK, RunnerTypeOK
  <2>3. reviews' = [reviews EXCEPT ![d] = [reviews[d] EXCEPT ![i] = decided]]
    BY DEF DecideReview
  <2> HIDE DEF decided
  <2>4. [reviews[d] EXCEPT ![i] = decided] \in Seq(Review)
    BY <2>1, <2>2, ExceptSeq
  <2> QED
    BY <2>2, <2>3, <2>4
<1> QED
  BY <1>2, <1>3 DEF DecideReview, TypeOK, StoreTypeOK, RunnerTypeOK

LEMMA FaultType ==
  ASSUME TypeOK, Fault
  PROVE  faults' \in 0..MaxFaults
  BY DEF TypeOK, Fault

LEMMA TypeStep == TypeOK /\ [Next]_vars => TypeOK'
<1> SUFFICES ASSUME TypeOK, [Next]_vars PROVE TypeOK'
  OBVIOUS
<1>0. /\ StoreTypeOK /\ WorkerTypeOK /\ RunnerTypeOK
      /\ enqueueing \subseteq Documents /\ tasks \in [Documents -> TaskState]
      /\ faults \in 0..MaxFaults
  BY DEF TypeOK
<1>1. ASSUME NEW d \in Documents, CreateUpload(d) PROVE TypeOK'
  <2>1. documents' \in [Documents -> Document]
    BY <1>0, <1>1 DEF CreateUpload, InsertPendingDocument, StoreTypeOK, Document, StorageStatus
  <2> QED
    BY <1>0, <1>1, <2>1 DEF CreateUpload, InsertPendingDocument, TypeOK, StoreTypeOK,
       WorkerTypeOK, RunnerTypeOK, pipelineVars
<1>2. ASSUME NEW d \in Documents, CompleteUpload(d) PROVE TypeOK'
  BY <1>0, <1>2, CompleteType DEF CompleteUpload, TypeOK, WorkerTypeOK, RunnerTypeOK
<1>3. ASSUME NEW d \in Documents, EnqueueTask(d) PROVE TypeOK'
  BY <1>0, <1>3 DEF EnqueueTask, TypeOK, TaskState, StoreTypeOK, storeVars, WorkerTypeOK,
     RunnerTypeOK
<1>4. ASSUME NEW d \in Documents, DeliverTask(d) PROVE TypeOK'
  <2>1. WorkerTypeOK'
    BY <1>4, ReceiveRequestType DEF DeliverTask, Callers
  <2> QED
    BY <1>0, <1>4, <2>1 DEF DeliverTask, TypeOK, TaskState, StoreTypeOK, storeVars, RunnerTypeOK
<1>5. ASSUME NEW w \in Workers, WorkerNext(w) PROVE TypeOK'
  BY <1>0, <1>5, WorkerStepType DEF WorkerNext, TypeOK, RunnerTypeOK, pipelineVars
<1>6. ASSUME NEW w \in Workers, AnswerTask(w) PROVE TypeOK'
  <2>1. tasks' \in [Documents -> TaskState]
    BY <1>0, <1>6 DEF AnswerTask, TaskState
  <2> QED
    BY <1>0, <1>6, <2>1, IdleWorkerType
       DEF AnswerTask, TypeOK, StoreTypeOK, storeVars, RunnerTypeOK
<1>7. ASSUME NEW r \in Runners, RunnerNext(r) PROVE TypeOK'
  BY <1>0, <1>7, RunnerStepType DEF RunnerNext, TypeOK, pipelineVars
<1>8. CASE AdminDecision
  BY <1>0, <1>8, DecideType DEF AdminDecision, DecideReview, TypeOK, WorkerTypeOK, pipelineVars
<1>9. CASE Failure
  <2>1. ASSUME NEW d \in Documents, EnqueueFails(d) PROVE TypeOK'
    BY <1>0, <2>1, FaultType DEF EnqueueFails, TypeOK, StoreTypeOK, storeVars, WorkerTypeOK,
       RunnerTypeOK
  <2>2. ASSUME NEW d \in Documents, LoseDelivery(d) PROVE TypeOK'
    BY <1>0, <2>2, FaultType, AbandonType DEF LoseDelivery, TypeOK, TaskState, StoreTypeOK,
       storeVars, RunnerTypeOK
  <2>3. ASSUME NEW w \in Workers, WorkerError(w), Fault,
               UNCHANGED <<runners, reviews, pipelineVars>>
        PROVE  TypeOK'
    <3>1. WorkerTypeOK'
      BY <2>3, AnswerType DEF WorkerError, WorkerPC, Result
    <3> QED
      BY <1>0, <2>3, <3>1, FaultType DEF WorkerError, TypeOK, StoreTypeOK, storeVars,
         RunnerTypeOK, pipelineVars
  <2>4. ASSUME NEW r \in Runners, DispatchFails(r), Fault, UNCHANGED pipelineVars
        PROVE  TypeOK'
    <3>1. runners[r].attempts \in Nat /\ runners[r].pc # "idle"
      BY <1>0, <2>4 DEF DispatchFails, RunnerTypeOK, Runner
    <3>2. RunnerTypeOK'
      BY <1>0, <2>4, <3>1, ContinueType DEF DispatchFails, RunnerTypeOK, RunnerPC, Result
    <3> QED
      BY <1>0, <2>4, <3>2, FaultType, AbandonType DEF DispatchFails, TypeOK, StoreTypeOK,
         storeVars, pipelineVars
  <2>5. ASSUME NEW r \in Runners, RunnerCrash(r), Fault, UNCHANGED pipelineVars
        PROVE  TypeOK'
    BY <1>0, <2>5, FaultType, AbandonType, IdleRunnerType DEF RunnerCrash, TypeOK, StoreTypeOK,
       storeVars, RunnerTypeOK, pipelineVars
  <2> QED
    BY <1>9, <2>1, <2>2, <2>3, <2>4, <2>5 DEF Failure
<1>10. CASE UNCHANGED vars
  BY <1>0, <1>10 DEF vars, TypeOK, StoreTypeOK, storeVars, WorkerTypeOK, RunnerTypeOK,
     pipelineVars
<1> QED
  BY <1>1, <1>2, <1>3, <1>4, <1>5, <1>6, <1>7, <1>8, <1>9, <1>10 DEF Next

\* In every reachable state the tables, the queue and the local states of the
\* processes hold values of their types.
THEOREM TypeCorrect == Spec => []TypeOK
<1> QED
  BY TypeInit, TypeStep, PTL DEF Spec

-----------------------------------------------------------------------------
\* The current sample.

\* Only the upload endpoints change the storage status and the current sample.
LEMMA StorageUnchanged ==
  ASSUME TypeOK, [Next]_vars,
         ~ \E d \in Documents : CreateUpload(d) \/ CompleteUpload(d)
  PROVE  /\ sampleDocument' = sampleDocument
         /\ \A d \in Documents : documents'[d].storage = documents[d].storage
<1>0. documents \in [Documents -> Document]
  BY DEF TypeOK, StoreTypeOK
<1>1. ASSUME NEW w \in Workers, WorkerStep(w)
      PROVE  /\ sampleDocument' = sampleDocument
             /\ \A d \in Documents : documents'[d].storage = documents[d].storage
  BY <1>0, <1>1 DEF WorkerStep, GetJob, MarkJobRunning, ProcessDocument, ReplaceOutputs,
     WorkerDocumentProcessed, WorkerJobSucceeded, WorkerDocumentFailed, WorkerJobFailed,
     DropReply, MarkDocumentProcessed, MarkDocumentFailed, storeVars
<1>2. ASSUME NEW r \in Runners, RunnerStep(r)
      PROVE  /\ sampleDocument' = sampleDocument
             /\ \A d \in Documents : documents'[d].storage = documents[d].storage
  <2>1. CASE MarkDocumentProcessing(r)
    BY <1>0, <2>1 DEF MarkDocumentProcessing
  <2>2. CASE FinishDocument(r)
    BY <1>0, <2>2 DEF FinishDocument, MarkDocumentProcessed, MarkDocumentFailed
  <2>3. CASE UNCHANGED <<documents, sampleDocument>>
    BY <2>3
  <2> QED
    BY <1>2, <2>1, <2>2, <2>3 DEF RunnerStep, ReadJob, ClaimJob, Dispatch, ReceiveReply,
       FinishJob, FindReview, CreateReview, storeVars
<1>3. ASSUME AdminDecision
      PROVE  /\ sampleDocument' = sampleDocument
             /\ \A d \in Documents : documents'[d].storage = documents[d].storage
  BY <1>0, <1>3 DEF AdminDecision, DecideReview
<1>4. ASSUME Failure
      PROVE  UNCHANGED storeVars
  BY <1>4 DEF Failure, EnqueueFails, LoseDelivery, WorkerError, DispatchFails, RunnerCrash,
     storeVars
<1>5. ASSUME \/ \E d \in Documents : EnqueueTask(d) \/ DeliverTask(d)
             \/ \E w \in Workers : AnswerTask(w)
             \/ UNCHANGED vars
      PROVE  UNCHANGED storeVars
  BY <1>5 DEF EnqueueTask, DeliverTask, AnswerTask, vars, storeVars
<1> QED
  BY <1>1, <1>2, <1>3, <1>4, <1>5 DEF Next, WorkerNext, RunnerNext, storeVars

\* A manuscript's sample_document_id names its one uploaded document, and no
\* other document of it is uploaded, through every replacement.
THEOREM SampleCorrect == Spec => []SampleIsTheUploadedDocument
<1>1. Init => SampleIsTheUploadedDocument
  <2> SUFFICES ASSUME Init, NEW d \in Documents
               PROVE  documents[d].storage # "uploaded" /\ sampleDocument[ManuscriptOf[d]] # d
    BY DEF SampleIsTheUploadedDocument
  <2>1. documents[d].storage = "absent"
    BY DEF Init, StoreInit
  <2>2. sampleDocument[ManuscriptOf[d]] = NoDocument
    BY DocumentAssumption DEF Init, StoreInit
  <2> QED
    BY <2>1, <2>2, DocumentAssumption
<1>2. TypeOK /\ SampleIsTheUploadedDocument /\ [Next]_vars => SampleIsTheUploadedDocument'
  <2> SUFFICES ASSUME TypeOK, SampleIsTheUploadedDocument, [Next]_vars
               PROVE  SampleIsTheUploadedDocument'
    OBVIOUS
  <2>0. /\ documents \in [Documents -> Document]
        /\ sampleDocument \in [Manuscripts -> Documents \cup {NoDocument}]
    BY DEF TypeOK, StoreTypeOK
  <2>1. ASSUME NEW d \in Documents, CreateUpload(d) PROVE SampleIsTheUploadedDocument'
    BY <2>0, <2>1 DEF CreateUpload, InsertPendingDocument, SampleIsTheUploadedDocument, Document
  <2>2. ASSUME NEW d \in Documents, CompleteUpload(d) PROVE SampleIsTheUploadedDocument'
    <3> SUFFICES ASSUME NEW e \in Documents
                 PROVE  documents'[e].storage = "uploaded" <=>
                          sampleDocument'[ManuscriptOf[e]] = e
      BY DEF SampleIsTheUploadedDocument
    <3>1. /\ documents'[e] = CompletedRow(d, e)
          /\ sampleDocument' = [sampleDocument EXCEPT ![ManuscriptOf[d]] = d]
      BY <2>2 DEF CompleteUpload, CompleteDocumentUpload
    <3>2. CASE e = d
      BY <2>0, <3>1, <3>2, DocumentAssumption DEF CompletedRow
    <3>3. CASE e # d /\ ManuscriptOf[e] = ManuscriptOf[d]
      <4>1. documents'[e].storage # "uploaded"
        BY <2>0, <3>1, <3>3 DEF CompletedRow, Document
      <4> QED
        BY <2>0, <3>1, <3>3, <4>1, DocumentAssumption
    <3>4. CASE ManuscriptOf[e] # ManuscriptOf[d]
      BY <2>0, <3>1, <3>4, DocumentAssumption DEF CompletedRow, SampleIsTheUploadedDocument
    <3> QED
      BY <3>2, <3>3, <3>4
  <2>3. CASE ~ \E d \in Documents : CreateUpload(d) \/ CompleteUpload(d)
    BY <2>3, StorageUnchanged DEF SampleIsTheUploadedDocument
  <2> QED
    BY <2>1, <2>2, <2>3
<1> QED
  BY <1>1, <1>2, TypeCorrect, PTL DEF Spec

-----------------------------------------------------------------------------
\* One run per job, and one review per document.

ClaimSafety == ClaimInvariant /\ OneRunPerJob /\ OneReviewPerDocument

\* A job never becomes claimable again.
LEMMA NeverRequeued ==
  ASSUME TypeOK, [Next]_vars, NEW d \in Documents, jobs'[d].status \in {"none", "queued"}
  PROVE  jobs[d].status \in {"none", "queued"}
<1>0. jobs \in [Documents -> Job]
  BY DEF TypeOK, StoreTypeOK
<1>1. ASSUME NEW w \in Workers, WorkerStep(w) PROVE jobs[d].status \in {"none", "queued"}
  BY <1>0, <1>1 DEF WorkerStep, GetJob, MarkJobRunning, ProcessDocument, ReplaceOutputs,
     WorkerDocumentProcessed, WorkerJobSucceeded, WorkerDocumentFailed, WorkerJobFailed,
     DropReply, SetJobStatus, storeVars, Job
<1>2. ASSUME NEW r \in Runners, RunnerStep(r) PROVE jobs[d].status \in {"none", "queued"}
  <2>1. CASE ClaimJob(r)
    BY <1>0, <2>1 DEF ClaimJob, Job
  <2>2. CASE FinishJob(r)
    BY <1>0, <2>2 DEF FinishJob, SetJobStatus, Job
  <2>3. CASE UNCHANGED jobs
    BY <2>3
  <2> QED
    BY <1>2, <2>1, <2>2, <2>3 DEF RunnerStep, ReadJob, MarkDocumentProcessing, Dispatch,
       ReceiveReply, FinishDocument, FindReview, CreateReview, storeVars
<1>3. ASSUME NEW e \in Documents, CompleteUpload(e) PROVE jobs[d].status \in {"none", "queued"}
  BY <1>0, <1>3 DEF CompleteUpload, CompleteDocumentUpload, Job
<1>4. CASE UNCHANGED jobs
  BY <1>4
<1> QED
  BY <1>1, <1>2, <1>3, <1>4 DEF Next, CreateUpload, InsertPendingDocument, EnqueueTask,
     DeliverTask, WorkerNext, AnswerTask, RunnerNext, AdminDecision, DecideReview, Failure,
     EnqueueFails, LoseDelivery, WorkerError, DispatchFails, RunnerCrash, storeVars, vars

\* A step of run r that neither claims nor files leaves r where it was claimed,
\* or not claimed, and touches no other run.
LEMMA RunnerFrame ==
  ASSUME TypeOK, NEW r \in Runners,
         \/ RunnerStep(r) /\ ~ClaimJob(r) /\ ~CreateReview(r)
         \/ DispatchFails(r)
         \/ RunnerCrash(r)
  PROVE  /\ reviews' = reviews
         /\ \A s \in Runners : Claimed(s)' => Claimed(s) /\ runners'[s].doc = runners[s].doc
<1>0. runners \in [Runners -> Runner]
  BY DEF TypeOK, RunnerTypeOK
<1>1. reviews' = reviews
  BY DEF RunnerStep, ReadJob, MarkDocumentProcessing, Dispatch, ReceiveReply, FinishJob,
     FinishDocument, FindReview, DispatchFails, RunnerCrash
<1>2. ASSUME NEW s \in Runners, s # r PROVE runners'[s] = runners[s]
  BY <1>0, <1>2 DEF RunnerStep, ReadJob, MarkDocumentProcessing, Dispatch, ReceiveReply,
     FinishJob, FinishDocument, FindReview, DispatchFails, RunnerCrash, Continue, SetRunner
<1>3. \/ runners'[r].pc \in {"idle", "claim"}
      \/ runners'[r].doc = runners[r].doc /\ runners[r].pc \notin {"idle", "claim"}
  BY <1>0 DEF RunnerStep, ReadJob, MarkDocumentProcessing, Dispatch, ReceiveReply,
     FinishJob, FinishDocument, FindReview, DispatchFails, RunnerCrash, Continue, SetRunner,
     IdleRunner
<1> QED
  BY <1>1, <1>2, <1>3 DEF Claimed

LEMMA ClaimStep == TypeOK /\ ClaimSafety /\ [Next]_vars => ClaimSafety'
<1> SUFFICES ASSUME TypeOK, ClaimSafety, [Next]_vars PROVE ClaimSafety'
  OBVIOUS
<1>0. /\ runners \in [Runners -> Runner] /\ reviews \in [Documents -> Seq(Review)]
      /\ jobs \in [Documents -> Job]
      /\ \A r \in Runners : Claimed(r) => runners[r].doc \in Documents
  BY DEF TypeOK, RunnerTypeOK, StoreTypeOK, Claimed
<1>1. \A d \in Documents : jobs'[d].status \in {"none", "queued"}
                             => jobs[d].status \in {"none", "queued"}
  BY NeverRequeued
<1>2. ASSUME reviews' = reviews,
             \A s \in Runners : Claimed(s)' => Claimed(s) /\ runners'[s].doc = runners[s].doc
      PROVE  ClaimSafety'
  BY <1>1, <1>2 DEF ClaimSafety, ClaimInvariant, OneRunPerJob, OneReviewPerDocument
<1>3. ASSUME NEW r \in Runners, ClaimJob(r) PROVE ClaimSafety'
  <2> DEFINE d == runners[r].doc
  <2>1. CASE jobs[d].status # "queued"
    <3>1. reviews' = reviews /\ runners' = [runners EXCEPT ![r] = IdleRunner]
      BY <1>3, <2>1 DEF ClaimJob, SetRunner
    <3> QED
      BY <1>0, <1>2, <3>1 DEF Claimed, IdleRunner
  <2>2. CASE jobs[d].status = "queued"
    <3>1. d \in Documents
      BY <1>3 DEF ClaimJob, TypeOK, RunnerTypeOK
    <3>2. /\ reviews' = reviews
          /\ jobs'[d].status = "running"
          /\ runners'[r].doc = d
          /\ \A s \in Runners \ {r} : runners'[s] = runners[s]
      BY <1>0, <1>3, <2>2, <3>1 DEF ClaimJob, Continue, SetRunner
    <3>3. reviews[d] = <<>> /\ \A s \in Runners : Claimed(s) => runners[s].doc # d
      BY <2>2, <3>1 DEF ClaimSafety, ClaimInvariant
    <3>4. \A s \in Runners \ {r} : Claimed(s)' <=> Claimed(s)
      BY <3>2 DEF Claimed
    <3>5. OneRunPerJob'
      BY <3>2, <3>3, <3>4 DEF ClaimSafety, OneRunPerJob
    <3>6. ClaimInvariant'
      BY <1>1, <3>1, <3>2, <3>3, <3>4 DEF ClaimSafety, ClaimInvariant
    <3> QED
      BY <3>2, <3>5, <3>6 DEF ClaimSafety, OneReviewPerDocument
  <2> QED
    BY <2>1, <2>2
<1>4. ASSUME NEW r \in Runners, CreateReview(r) PROVE ClaimSafety'
  <2> DEFINE d == runners[r].doc
  <2>1. Claimed(r) /\ d \in Documents /\ reviews[d] = <<>>
    BY <1>0, <1>4 DEF CreateReview, Claimed, ClaimSafety, ClaimInvariant
  <2>2. /\ reviews' = [reviews EXCEPT ![d] = <<ReviewFor(runners[r].result)>>]
        /\ runners' = [runners EXCEPT ![r] = IdleRunner]
        /\ jobs' = jobs
    BY <1>4, <2>1 DEF CreateReview, SetRunner, storeVars
  <2>3. \A s \in Runners : Claimed(s)' => s # r /\ Claimed(s) /\ runners'[s] = runners[s]
    BY <1>0, <2>2 DEF Claimed, IdleRunner
  <2>4. \A s \in Runners : Claimed(s)' => runners'[s].doc # d
    BY <2>1, <2>3 DEF ClaimSafety, OneRunPerJob
  <2>5. jobs[d].status \notin {"none", "queued"}
    BY <2>1 DEF ClaimSafety, ClaimInvariant
  <2>6. OneRunPerJob'
    BY <2>3 DEF ClaimSafety, OneRunPerJob
  <2>7. ClaimInvariant'
    BY <1>0, <2>2, <2>3, <2>4, <2>5 DEF ClaimSafety, ClaimInvariant
  <2>8. OneReviewPerDocument'
    BY <1>0, <2>1, <2>2 DEF ClaimSafety, OneReviewPerDocument
  <2> QED
    BY <2>6, <2>7, <2>8 DEF ClaimSafety
<1>5. CASE AdminDecision
  <2>1. PICK d \in Documents : \E i \in 1..Len(reviews[d]) :
               \E decision \in Decisions : DecideReview(d, i, decision)
    BY <1>5 DEF AdminDecision
  <2>2. PICK i \in 1..Len(reviews[d]) : \E decision \in Decisions : DecideReview(d, i, decision)
    BY <2>1
  <2>3. reviews[d] \in Seq(Review) /\ reviews[d] # <<>>
    BY <1>0, <2>2
  <2>4. PICK row : reviews' = [reviews EXCEPT ![d] = [reviews[d] EXCEPT ![i] = row]]
    BY <2>2 DEF DecideReview
  <2>5. Len(reviews'[d]) = Len(reviews[d])
    BY <1>0, <2>3, <2>4
  <2>6. \A e \in Documents : e # d => reviews'[e] = reviews[e]
    BY <1>0, <2>4
  <2>7. runners' = runners
    BY <2>2 DEF DecideReview
  <2>8. /\ \A r \in Runners : Claimed(r) => runners[r].doc # d
        /\ jobs[d].status \notin {"none", "queued"}
    BY <2>3 DEF ClaimSafety, ClaimInvariant
  <2>9. OneReviewPerDocument'
    BY <2>5, <2>6 DEF ClaimSafety, OneReviewPerDocument
  <2>10. ClaimInvariant'
    BY <1>0, <1>1, <2>6, <2>7, <2>8 DEF ClaimSafety, ClaimInvariant, Claimed
  <2> QED
    BY <2>7, <2>9, <2>10 DEF ClaimSafety, OneRunPerJob, Claimed
<1>6. ASSUME NEW r \in Runners,
             \/ RunnerStep(r) /\ ~ClaimJob(r) /\ ~CreateReview(r)
             \/ DispatchFails(r)
             \/ RunnerCrash(r)
      PROVE  ClaimSafety'
  BY <1>2, <1>6, RunnerFrame
<1>7. CASE UNCHANGED <<reviews, runners>>
  BY <1>2, <1>7 DEF Claimed
<1> QED
  BY <1>3, <1>4, <1>5, <1>6, <1>7 DEF Next, CreateUpload, CompleteUpload, EnqueueTask,
     DeliverTask, WorkerNext, AnswerTask, RunnerNext, Failure, EnqueueFails, LoseDelivery, vars

\* However the script's runs, the AI service and the admin interleave, a job is
\* worked on by one run and its document gets at most one review, although the
\* review is inserted after a separate look for an existing one.
THEOREM ClaimCorrect == Spec => [](ClaimInvariant /\ OneRunPerJob /\ OneReviewPerDocument)
<1>1. Init => ClaimSafety
  BY DEF Init, StoreInit, RunnerInit, IdleRunner, ClaimSafety, ClaimInvariant, OneRunPerJob,
     OneReviewPerDocument, Claimed
<1>2. ClaimSafety => ClaimInvariant /\ OneRunPerJob /\ OneReviewPerDocument
  BY DEF ClaimSafety
<1> QED
  BY <1>1, <1>2, ClaimStep, TypeCorrect, PTL DEF Spec

\* No two runs of the script ever work on the same job.
THEOREM RunsCorrect == Spec => []OneRunPerJob
BY ClaimCorrect, PTL

-----------------------------------------------------------------------------
\* Evidence behind a processed document, and safety of the scan.

EvidenceSafety ==
    EvidenceInvariant /\ ProcessedHasOutputs /\ UnsafeIsNeverExposed

\* Requests, replies and abandonment keep the pairing of callers and threads.
LEMMA AwaitedStep == TypeOK /\ ReplyIsAwaited /\ [Next]_vars => ReplyIsAwaited'
<1> SUFFICES ASSUME TypeOK, ReplyIsAwaited, [Next]_vars PROVE ReplyIsAwaited'
  OBVIOUS
<1>0. /\ workers \in [Workers -> Worker] /\ runners \in [Runners -> Runner]
      /\ NoCaller \notin Runners
      /\ \A r \in Runners : runners[r].pc # "idle" => runners[r].doc \in Documents
  BY DEF TypeOK, WorkerTypeOK, RunnerTypeOK, Callers
\* A thread that keeps its caller and document, or is left without a caller,
\* needs only that its caller goes on waiting.
<1>1. ASSUME \A w \in Workers : workers'[w].caller \in Runners =>
               /\ workers'[w].caller = workers[w].caller
               /\ workers'[w].doc = workers[w].doc
               /\ runners'[workers[w].caller] = runners[workers[w].caller]
      PROVE  ReplyIsAwaited'
  BY <1>1 DEF ReplyIsAwaited
<1>2. ASSUME NEW w \in Workers, WorkerNext(w) PROVE ReplyIsAwaited'
  <2>1. /\ runners' = runners
        /\ \A v \in Workers \ {w} : workers'[v] = workers[v]
        /\ \/ workers'[w].caller = workers[w].caller /\ workers'[w].doc = workers[w].doc
           \/ workers'[w].caller = NoCaller
    BY <1>0, <1>2 DEF WorkerNext, WorkerStep, GetJob, MarkJobRunning, ProcessDocument,
       ReplaceOutputs, WorkerDocumentProcessed, WorkerJobSucceeded, WorkerDocumentFailed,
       WorkerJobFailed, DropReply, Goto, Answer, IdleWorker, Worker
  <2> QED
    BY <1>0, <1>1, <2>1
<1>3. ASSUME NEW w \in Workers, WorkerError(w), UNCHANGED runners PROVE ReplyIsAwaited'
  <2>1. /\ \A v \in Workers \ {w} : workers'[v] = workers[v]
        /\ workers'[w].caller = workers[w].caller /\ workers'[w].doc = workers[w].doc
    BY <1>0, <1>3 DEF WorkerError, Answer
  <2> QED
    BY <1>0, <1>1, <1>3, <2>1
<1>4. ASSUME NEW w \in Workers, AnswerTask(w) PROVE ReplyIsAwaited'
  BY <1>0, <1>1, <1>4 DEF AnswerTask, IdleWorker
<1>5. ASSUME NEW d \in Documents, DeliverTask(d) PROVE ReplyIsAwaited'
  <2>1. d \notin Runners
    BY WorkerAssumption
  <2>2. \A w \in Workers : workers'[w].caller \in Runners => workers'[w] = workers[w]
    BY <1>0, <1>5, <2>1 DEF DeliverTask, ReceiveRequest
  <2> QED
    BY <1>0, <1>1, <1>5, <2>2 DEF DeliverTask
<1>6. ASSUME NEW d \in Documents, LoseDelivery(d) PROVE ReplyIsAwaited'
  BY <1>0, <1>1, <1>6 DEF LoseDelivery, Abandon
<1>7. ASSUME NEW r \in Runners, DispatchFails(r) \/ RunnerCrash(r) PROVE ReplyIsAwaited'
  <2>1. \A w \in Workers : workers'[w].caller \in Runners =>
          workers'[w] = workers[w] /\ workers[w].caller # r
    <3>1. ASSUME NEW w \in Workers, workers[w].caller = r
          PROVE  workers'[w].caller = NoCaller
      <4>1. workers[w] \in Worker
        BY <1>0
      <4>2. workers'[w] = [workers[w] EXCEPT !.caller = NoCaller]
        BY <1>7, <3>1 DEF DispatchFails, RunnerCrash, Abandon
      <4> QED
        BY <4>1, <4>2 DEF Worker
    <3>2. ASSUME NEW w \in Workers, workers[w].caller # r
          PROVE  workers'[w] = workers[w]
      BY <1>7, <3>2 DEF DispatchFails, RunnerCrash, Abandon
    <3> QED
      BY <1>0, <3>1, <3>2
  <2>2. \A s \in Runners \ {r} : runners'[s] = runners[s]
    BY <1>0, <1>7 DEF DispatchFails, RunnerCrash, Continue, SetRunner
  <2> QED
    BY <1>1, <2>1, <2>2
<1>8. ASSUME NEW r \in Runners, RunnerStep(r) PROVE ReplyIsAwaited'
  <2>1. CASE Dispatch(r)
    <3>1. PICK w \in Workers : ReceiveRequest(w, runners[r].doc, r)
      BY <2>1 DEF Dispatch
    <3>2. /\ runners[r].pc = "dispatch"
          /\ runners'[r].pc = "await" /\ runners'[r].doc = runners[r].doc
          /\ \A s \in Runners \ {r} : runners'[s] = runners[s]
      BY <1>0, <2>1 DEF Dispatch, Continue, SetRunner
    <3>3. /\ workers'[w].doc = runners[r].doc /\ workers'[w].caller = r
          /\ \A v \in Workers \ {w} : workers'[v] = workers[v]
      BY <1>0, <3>1 DEF ReceiveRequest
    <3>4. \A v \in Workers : workers[v].caller # r
      BY <3>2 DEF ReplyIsAwaited
    <3> QED
      BY <3>2, <3>3, <3>4 DEF ReplyIsAwaited
  <2>2. ASSUME NEW w \in Workers, ReceiveReply(r, w) PROVE ReplyIsAwaited'
    <3>1. workers' = [workers EXCEPT ![w] = IdleWorker] /\ workers[w].caller = r
      BY <2>2 DEF ReceiveReply
    <3>2. \A v \in Workers : workers'[v].caller \in Runners =>
            workers'[v] = workers[v] /\ workers[v].caller # r
      BY <1>0, <3>1 DEF IdleWorker, ReplyIsAwaited
    <3>3. \A s \in Runners \ {r} : runners'[s] = runners[s]
      BY <1>0, <2>2 DEF ReceiveReply, Continue, SetRunner
    <3> QED
      BY <1>1, <3>2, <3>3
  <2>3. CASE runners[r].pc # "await" /\ UNCHANGED workers
             /\ \A s \in Runners \ {r} : runners'[s] = runners[s]
    BY <1>1, <2>3 DEF ReplyIsAwaited
  <2> QED
    BY <1>0, <1>8, <2>1, <2>2, <2>3 DEF RunnerStep, ReadJob, ClaimJob, MarkDocumentProcessing,
       FinishJob, FinishDocument, FindReview, CreateReview, Continue, SetRunner
<1>9. CASE UNCHANGED <<workers, runners>>
  BY <1>1, <1>9
<1> QED
  BY <1>2, <1>3, <1>4, <1>5, <1>6, <1>7, <1>8, <1>9 DEF Next, CreateUpload, CompleteUpload,
     EnqueueTask, RunnerNext, AdminDecision, DecideReview, Failure, EnqueueFails, vars

\* A step that leaves outputs, and the success claims of threads and runs, as
\* they were needs no more than that.
LEMMA SuccessStep ==
  TypeOK /\ ReplyIsAwaited /\ SuccessIsBacked /\ [Next]_vars => SuccessIsBacked'
<1> SUFFICES ASSUME TypeOK, ReplyIsAwaited, SuccessIsBacked, [Next]_vars
             PROVE  SuccessIsBacked'
  OBVIOUS
<1> DEFINE Backed(w) ==
      /\ workers[w].pc \in {"replace_outputs", "document_processed", "job_succeeded"}
           => workers[w].result = "succeeded"
      /\ workers[w].result = "succeeded"
           => /\ ScanVerdict[workers[w].doc] = "clean"
              /\ workers[w].pc = "replace_outputs" \/ workers[w].doc \in outputs
<1>0. /\ workers \in [Workers -> Worker] /\ runners \in [Runners -> Runner]
      /\ \A w \in Workers : Backed(w)
      /\ \A r \in Runners : runners[r].result = "succeeded" => runners[r].doc \in outputs
  BY DEF TypeOK, WorkerTypeOK, RunnerTypeOK, SuccessIsBacked
<1>1. outputs \subseteq outputs'
  BY DEF Next, CreateUpload, InsertPendingDocument, CompleteUpload, CompleteDocumentUpload,
     EnqueueTask, DeliverTask, WorkerNext, WorkerStep, GetJob, MarkJobRunning, ProcessDocument,
     ReplaceOutputs, WorkerDocumentProcessed, WorkerJobSucceeded, WorkerDocumentFailed,
     WorkerJobFailed, DropReply, AnswerTask, RunnerNext, RunnerStep, ReadJob, ClaimJob,
     MarkDocumentProcessing, Dispatch, ReceiveReply, FinishJob, FinishDocument, FindReview,
     CreateReview, AdminDecision, DecideReview, Failure, EnqueueFails, LoseDelivery,
     WorkerError, DispatchFails, RunnerCrash, storeVars, vars
<1>2. ASSUME \A w \in Workers : \/ workers'[w] = workers[w]
                                \/ workers'[w] = IdleWorker
                                \/ /\ workers'[w].pc = workers[w].pc
                                   /\ workers'[w].result = workers[w].result
                                   /\ workers'[w].doc = workers[w].doc
                                \/ Backed(w)',
             \A r \in Runners : \/ runners'[r] = runners[r]
                                \/ runners'[r].result # "succeeded"
                                \/ runners'[r].doc \in outputs'
      PROVE  SuccessIsBacked'
  <2>1. ASSUME NEW w \in Workers PROVE Backed(w)'
    BY <1>0, <1>1, <1>2 DEF IdleWorker
  <2>2. ASSUME NEW r \in Runners, runners'[r].result = "succeeded"
        PROVE  runners'[r].doc \in outputs'
    BY <1>0, <1>1, <1>2, <2>2
  <2> QED
    BY <2>1, <2>2 DEF SuccessIsBacked
<1>3. ASSUME NEW w \in Workers, WorkerNext(w) PROVE SuccessIsBacked'
  <2>0. runners' = runners /\ \A v \in Workers \ {w} : workers'[v] = workers[v]
    BY <1>0, <1>3 DEF WorkerNext, WorkerStep, GetJob, MarkJobRunning, ProcessDocument,
       ReplaceOutputs, WorkerDocumentProcessed, WorkerJobSucceeded, WorkerDocumentFailed,
       WorkerJobFailed, DropReply, Goto, Answer
  <2>1. CASE ProcessDocument(w)
    <3>1. PICK result \in PossibleResults(workers[w].doc) :
            Answer(w, "process",
                   IF result = "succeeded" THEN "replace_outputs" ELSE "document_failed", result)
      BY <2>1 DEF ProcessDocument
    <3>2. result = "succeeded" => ScanVerdict[workers[w].doc] = "clean"
      BY <2>1 DEF PossibleResults, ProcessDocument, WorkerAssumption, TypeOK, WorkerTypeOK
    <3>3. Backed(w)'
      BY <1>0, <3>1, <3>2 DEF Answer
    <3> QED
      BY <1>2, <2>0, <3>3
  <2>2. CASE ReplaceOutputs(w)
    <3>1. Backed(w)'
      BY <1>0, <2>2 DEF ReplaceOutputs, Goto, Worker
    <3> QED
      BY <1>2, <2>0, <3>1
  <2>3. CASE GetJob(w)
    <3>1. workers[w].result # "succeeded" \/ workers[w].doc \in outputs
      BY <1>0, <2>3 DEF GetJob
    <3>2. Backed(w)'
      BY <1>0, <1>1, <2>3, <3>1 DEF GetJob, Goto, Answer, Worker
    <3> QED
      BY <1>2, <2>0, <3>2
  <2>4. CASE MarkJobRunning(w) \/ WorkerDocumentProcessed(w) \/ WorkerJobSucceeded(w)
             \/ WorkerDocumentFailed(w) \/ WorkerJobFailed(w)
    <3>1. Backed(w)'
      BY <1>0, <1>1, <2>4 DEF MarkJobRunning, WorkerDocumentProcessed, WorkerJobSucceeded,
         WorkerDocumentFailed, WorkerJobFailed, Goto, Worker
    <3> QED
      BY <1>2, <2>0, <3>1
  <2>5. CASE DropReply(w)
    BY <1>0, <1>2, <2>0, <2>5 DEF DropReply
  <2> QED
    BY <1>3, <2>1, <2>2, <2>3, <2>4, <2>5 DEF WorkerNext, WorkerStep
<1>4. ASSUME NEW w \in Workers, WorkerError(w), UNCHANGED runners PROVE SuccessIsBacked'
  <2>1. Backed(w)' /\ \A v \in Workers \ {w} : workers'[v] = workers[v]
    BY <1>0, <1>4 DEF WorkerError, Answer
  <2> QED
    BY <1>2, <1>4, <2>1
<1>5. ASSUME NEW w \in Workers, AnswerTask(w) PROVE SuccessIsBacked'
  BY <1>0, <1>2, <1>5 DEF AnswerTask
<1>6. ASSUME NEW w \in Workers, NEW d, NEW caller, ReceiveRequest(w, d, caller),
             \A r \in Runners : runners'[r] = runners[r] \/ runners'[r].result # "succeeded"
      PROVE  SuccessIsBacked'
  <2>1. Backed(w)' /\ \A v \in Workers \ {w} : workers'[v] = workers[v]
    BY <1>0, <1>6 DEF ReceiveRequest
  <2> QED
    BY <1>2, <1>6, <2>1
<1>7. ASSUME NEW c, Abandon(c),
             \A r \in Runners : runners'[r] = runners[r] \/ runners'[r].result # "succeeded"
      PROVE  SuccessIsBacked'
  <2>1. ASSUME NEW w \in Workers
        PROVE  /\ workers'[w].pc = workers[w].pc
               /\ workers'[w].result = workers[w].result
               /\ workers'[w].doc = workers[w].doc
    <3>1. workers[w] \in Worker /\ (\/ workers'[w] = workers[w]
                                    \/ workers'[w] = [workers[w] EXCEPT !.caller = NoCaller])
      BY <1>0, <1>7 DEF Abandon
    <3> QED
      BY <3>1 DEF Worker
  <2> QED
    BY <1>2, <1>7, <2>1
<1>8. ASSUME NEW r \in Runners, RunnerStep(r) PROVE SuccessIsBacked'
  <2>1. CASE Dispatch(r)
    <3>1. runners'[r].result # "succeeded" /\ \A s \in Runners \ {r} : runners'[s] = runners[s]
      BY <1>0, <2>1 DEF Dispatch, Continue, SetRunner
    <3> QED
      BY <1>6, <2>1, <3>1 DEF Dispatch
  <2>2. ASSUME NEW w \in Workers, ReceiveReply(r, w) PROVE SuccessIsBacked'
    <3>1. /\ workers' = [workers EXCEPT ![w] = IdleWorker]
          /\ \A s \in Runners \ {r} : runners'[s] = runners[s]
          /\ runners'[r].doc = runners[r].doc
          /\ runners'[r].result = "succeeded" => workers[w].result = "succeeded"
      BY <1>0, <2>2 DEF ReceiveReply, Continue, SetRunner
    <3>2. runners[r].doc = workers[w].doc
      BY <2>2 DEF ReceiveReply, ReplyIsAwaited
    <3>3. workers[w].result = "succeeded" => workers[w].doc \in outputs
      BY <1>0, <2>2 DEF ReceiveReply
    <3> QED
      BY <1>0, <1>1, <1>2, <3>1, <3>2, <3>3
  <2>3. CASE /\ UNCHANGED workers
             /\ \A s \in Runners \ {r} : runners'[s] = runners[s]
             /\ \/ runners'[r].result # "succeeded"
                \/ /\ runners'[r].result = runners[r].result
                   /\ runners'[r].doc = runners[r].doc
    BY <1>0, <1>1, <1>2, <2>3
  <2>4. ASSUME ~Dispatch(r), ~ \E w \in Workers : ReceiveReply(r, w)
        PROVE  /\ UNCHANGED workers
               /\ \A s \in Runners \ {r} : runners'[s] = runners[s]
               /\ \/ runners'[r].result # "succeeded"
                  \/ /\ runners'[r].result = runners[r].result
                     /\ runners'[r].doc = runners[r].doc
    BY <1>0, <1>8, <2>4 DEF RunnerStep, ReadJob, ClaimJob, MarkDocumentProcessing, FinishJob,
       FinishDocument, FindReview, CreateReview, Continue, SetRunner, IdleRunner
  <2> QED
    BY <2>1, <2>2, <2>3, <2>4
<1>9. ASSUME NEW r \in Runners, DispatchFails(r) \/ RunnerCrash(r) PROVE SuccessIsBacked'
  <2>1. Abandon(r) /\ \A s \in Runners : runners'[s] = runners[s] \/ runners'[s].result # "succeeded"
    BY <1>0, <1>9 DEF DispatchFails, RunnerCrash, Continue, SetRunner, IdleRunner
  <2> QED
    BY <1>7, <2>1
<1>10. CASE UNCHANGED <<workers, runners>>
  BY <1>2, <1>10
<1> QED
  BY <1>3, <1>4, <1>5, <1>6, <1>7, <1>8, <1>9, <1>10 DEF Next, CreateUpload, CompleteUpload,
     EnqueueTask, DeliverTask, RunnerNext, AdminDecision, DecideReview, Failure, EnqueueFails,
     LoseDelivery, vars

\* A row of documents may read as processed, or as eligible without an admin,
\* only if it did before or the chunks are already there; only clean bytes are
\* ever chunked.
LEMMA ExposureStep ==
  /\ TypeOK /\ SuccessIsBacked /\ ProcessedHasOutputs /\ UnsafeIsNeverExposed
  /\ [Next]_vars
  => ProcessedHasOutputs' /\ UnsafeIsNeverExposed'
<1> SUFFICES ASSUME TypeOK, SuccessIsBacked, ProcessedHasOutputs, UnsafeIsNeverExposed,
                    [Next]_vars
             PROVE  ProcessedHasOutputs' /\ UnsafeIsNeverExposed'
  OBVIOUS
<1> DEFINE Kept(d) ==
      /\ documents'[d].processing = "succeeded"
           => documents[d].processing = "succeeded" \/ d \in outputs
      /\ documents'[d].eligibility = "eligible"
           => \/ /\ documents[d].eligibility = "eligible"
                 /\ documents'[d].outcome = documents[d].outcome
              \/ documents'[d].outcome = "admin_approved"
              \/ d \in outputs
<1>0. /\ documents \in [Documents -> Document] /\ workers \in [Workers -> Worker]
      /\ runners \in [Runners -> Runner]
      /\ \A r \in Runners : runners[r].pc # "idle" => runners[r].doc \in Documents
      /\ \A w \in Workers : workers[w].pc # "idle" => workers[w].doc \in Documents
  BY DEF TypeOK, StoreTypeOK, WorkerTypeOK, RunnerTypeOK
<1>1. ASSUME \A d \in Documents : Kept(d),
             outputs \subseteq outputs',
             \A d \in Documents : d \in outputs' \ outputs => ScanVerdict[d] = "clean"
      PROVE  ProcessedHasOutputs' /\ UnsafeIsNeverExposed'
  <2>1. ProcessedHasOutputs'
    BY <1>1 DEF ProcessedHasOutputs
  <2>2. ASSUME NEW d \in Documents, ScanVerdict[d] # "clean"
        PROVE  /\ d \notin outputs'
               /\ documents'[d].eligibility = "eligible"
                    => documents'[d].outcome = "admin_approved"
    <3>1. d \notin outputs /\ (documents[d].eligibility = "eligible"
                                 => documents[d].outcome = "admin_approved")
      BY <2>2 DEF UnsafeIsNeverExposed
    <3>2. d \notin outputs'
      BY <1>1, <2>2, <3>1
    <3>3. Kept(d)
      BY <1>1
    <3> QED
      BY <3>1, <3>2, <3>3
  <2> QED
    BY <2>1, <2>2 DEF UnsafeIsNeverExposed
<1>2. CASE UNCHANGED <<documents, outputs>>
  BY <1>1, <1>2
\* One row is written and nothing is chunked.
<1>3. ASSUME NEW d \in Documents, outputs' = outputs,
             \A e \in Documents \ {d} : documents'[e] = documents[e],
             Kept(d)
      PROVE  ProcessedHasOutputs' /\ UnsafeIsNeverExposed'
  <2>1. \A e \in Documents : Kept(e)
    BY <1>3
  <2> HIDE DEF Kept
  <2> QED
    BY <1>1, <1>3, <2>1
<1>4. ASSUME NEW d \in Documents, CreateUpload(d)
      PROVE  ProcessedHasOutputs' /\ UnsafeIsNeverExposed'
  <2>1. Kept(d) /\ outputs' = outputs /\ \A e \in Documents \ {d} : documents'[e] = documents[e]
    BY <1>0, <1>4 DEF CreateUpload, InsertPendingDocument, Document
  <2> HIDE DEF Kept
  <2> QED
    BY <1>3, <2>1
<1>5. ASSUME NEW d \in Documents, CompleteUpload(d)
      PROVE  ProcessedHasOutputs' /\ UnsafeIsNeverExposed'
  <2>1. ASSUME NEW e \in Documents PROVE Kept(e)
    <3>1. documents'[e] = CompletedRow(d, e) /\ documents[e] \in Document
      BY <1>0, <1>5 DEF CompleteUpload, CompleteDocumentUpload
    <3>2. CASE e = d
      BY <3>1, <3>2 DEF CompletedRow
    <3>3. CASE e # d
      <4>1. documents'[e] = documents[e]
            \/ documents'[e] = [documents[e] EXCEPT !.storage = "pending_delete"]
        BY <3>1, <3>3 DEF CompletedRow
      <4> QED
        BY <3>1, <4>1 DEF Document
    <3> QED
      BY <3>2, <3>3
  <2> HIDE DEF Kept
  <2> QED
    BY <1>1, <1>5, <2>1 DEF CompleteUpload, CompleteDocumentUpload
<1>6. ASSUME NEW w \in Workers, WorkerNext(w)
      PROVE  ProcessedHasOutputs' /\ UnsafeIsNeverExposed'
  <2>1. CASE ReplaceOutputs(w)
    <3>1. /\ workers[w].pc = "replace_outputs" /\ documents' = documents
          /\ outputs' = outputs \cup {workers[w].doc}
      BY <2>1 DEF ReplaceOutputs, Goto
    <3>2. ScanVerdict[workers[w].doc] = "clean"
      BY <3>1 DEF SuccessIsBacked
    <3> QED
      BY <1>1, <3>1, <3>2
  <2>2. CASE WorkerDocumentProcessed(w)
    <3>0. workers[w].pc = "document_processed"
      BY <2>2 DEF WorkerDocumentProcessed, Goto
    <3>1. /\ workers[w].pc = "document_processed" /\ workers[w].doc \in Documents
          /\ MarkDocumentProcessed(workers[w].doc) /\ outputs' = outputs
      BY <1>0, <2>2, <3>0 DEF WorkerDocumentProcessed
    <3>2. workers[w].doc \in outputs
      BY <3>1 DEF SuccessIsBacked
    <3>3. Kept(workers[w].doc)
          /\ \A e \in Documents \ {workers[w].doc} : documents'[e] = documents[e]
      BY <1>0, <3>1, <3>2 DEF MarkDocumentProcessed
    <3> HIDE DEF Kept
    <3> QED
      BY <1>3, <3>1, <3>3
  <2>3. CASE WorkerDocumentFailed(w)
    <3>0. workers[w].pc = "document_failed"
      BY <2>3 DEF WorkerDocumentFailed, Goto
    <3>1. /\ workers[w].doc \in Documents /\ outputs' = outputs
          /\ MarkDocumentFailed(workers[w].doc, CodeOf(workers[w].result))
      BY <1>0, <2>3, <3>0 DEF WorkerDocumentFailed
    <3>2. Kept(workers[w].doc)
          /\ \A e \in Documents \ {workers[w].doc} : documents'[e] = documents[e]
      BY <1>0, <3>1 DEF MarkDocumentFailed
    <3> HIDE DEF Kept
    <3> QED
      BY <1>3, <3>1, <3>2
  <2> QED
    BY <1>2, <1>6, <2>1, <2>2, <2>3 DEF WorkerNext, WorkerStep, GetJob, MarkJobRunning,
       ProcessDocument, WorkerJobSucceeded, WorkerJobFailed, DropReply, storeVars
<1>7. ASSUME NEW r \in Runners, RunnerStep(r)
      PROVE  ProcessedHasOutputs' /\ UnsafeIsNeverExposed'
  <2>1. CASE MarkDocumentProcessing(r)
    <3>1. runners[r].doc \in Documents /\ outputs' = outputs
      BY <1>0, <2>1 DEF MarkDocumentProcessing
    <3>2. Kept(runners[r].doc)
          /\ \A e \in Documents \ {runners[r].doc} : documents'[e] = documents[e]
      BY <1>0, <2>1, <3>1 DEF MarkDocumentProcessing
    <3> HIDE DEF Kept
    <3> QED
      BY <1>3, <3>1, <3>2
  <2>2. CASE FinishDocument(r)
    <3>1. /\ runners[r].doc \in Documents /\ outputs' = outputs
          /\ IF runners[r].result = "succeeded"
             THEN MarkDocumentProcessed(runners[r].doc)
             ELSE MarkDocumentFailed(runners[r].doc, CodeOf(runners[r].result))
      BY <1>0, <2>2 DEF FinishDocument
    <3>2. runners[r].result = "succeeded" => runners[r].doc \in outputs
      BY DEF SuccessIsBacked
    <3>3. Kept(runners[r].doc)
          /\ \A e \in Documents \ {runners[r].doc} : documents'[e] = documents[e]
      BY <1>0, <3>1, <3>2 DEF MarkDocumentProcessed, MarkDocumentFailed
    <3> HIDE DEF Kept
    <3> QED
      BY <1>3, <3>1, <3>3
  <2> QED
    BY <1>2, <1>7, <2>1, <2>2 DEF RunnerStep, ReadJob, ClaimJob, Dispatch, ReceiveReply,
       FinishJob, FindReview, CreateReview, storeVars
<1>8. ASSUME NEW d \in Documents, NEW i \in 1..Len(reviews[d]), NEW decision \in Decisions,
             DecideReview(d, i, decision)
      PROVE  ProcessedHasOutputs' /\ UnsafeIsNeverExposed'
  <2>1. DecidedEligibility(decision) = "eligible" => DecidedOutcome(decision) = "admin_approved"
    BY DEF DecidedEligibility, DecidedOutcome
  <2>2. outputs' = outputs /\ Kept(d) /\ \A e \in Documents \ {d} : documents'[e] = documents[e]
    BY <1>0, <1>8, <2>1 DEF DecideReview
  <2> HIDE DEF Kept
  <2> QED
    BY <1>3, <2>2
<1> QED
  BY <1>2, <1>4, <1>5, <1>6, <1>7, <1>8 DEF Next, EnqueueTask, DeliverTask, AnswerTask,
     RunnerNext, AdminDecision, Failure, EnqueueFails, LoseDelivery, WorkerError, DispatchFails,
     RunnerCrash, storeVars, vars

LEMMA EvidenceHolds == Spec => []EvidenceSafety
<1>1. Init => EvidenceSafety
  BY DEF Init, StoreInit, WorkerInit, RunnerInit, IdleWorker, IdleRunner, EvidenceSafety,
     EvidenceInvariant, ReplyIsAwaited, SuccessIsBacked, ProcessedHasOutputs,
     UnsafeIsNeverExposed, Callers
<1>2. TypeOK /\ EvidenceSafety /\ [Next]_vars => EvidenceSafety'
  BY AwaitedStep, SuccessStep, ExposureStep DEF EvidenceSafety, EvidenceInvariant
<1> QED
  BY <1>1, <1>2, TypeCorrect, PTL DEF Spec

\* No timeout, lost reply, crash or retry fails open: unsafe bytes are never chunked,
\* and only an admin's decision makes an unsafe document eligible.
THEOREM EvidenceCorrect == Spec => [](EvidenceInvariant /\ UnsafeIsNeverExposed)
<1>1. EvidenceSafety => EvidenceInvariant /\ UnsafeIsNeverExposed
  BY DEF EvidenceSafety
<1> QED
  BY <1>1, EvidenceHolds, PTL

\* A document that reads as successfully processed has its chunks and embeddings,
\* whichever thread wrote the status and whichever wrote the chunks: the writer may
\* have been given up by its caller, or work on a job that another thread has too.
THEOREM OutputsCorrect == Spec => []ProcessedHasOutputs
<1>1. EvidenceSafety => ProcessedHasOutputs
  BY DEF EvidenceSafety
<1> QED
  BY <1>1, EvidenceHolds, PTL
=============================================================================
