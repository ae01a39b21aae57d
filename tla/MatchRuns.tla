------------------------------ MODULE MatchRuns ------------------------------
(***************************************************************************)
(* Matching: POST /matches/run of the API, which stores a run, asks the AI  *)
(* service for at most a minute and records the answer, and the thread of   *)
(* the AI service, which stores candidates and grants and records the       *)
(* result in the same row.  A run has the id of the call that inserts it.   *)
(***************************************************************************)
EXTENDS DiscoveryStore

CONSTANTS Calls,
          RunsPerHour, \* runs of a requester within the hour that all this takes
          MaxFaults    \* bound: crashes and lost updates

ASSUME MatchAssumption == RunsPerHour \in Nat /\ MaxFaults \in Nat

VARIABLES runs,       \* `match_runs`
          candidates, \* `match_candidates` of a run
          call,       \* the API's request: its next step, and the candidates it has counted
          worker,     \* the AI service's thread: its next step and its local state
          faults

matchVars == <<runs, candidates, call, worker, faults>>

Sources == Manuscripts \cup Publishers

\* A run of a manuscript looks for publishers, a run of a publisher for manuscripts.
RequesterOf(s) == IF s \in Manuscripts THEN OwnerOf[s] ELSE s

CandidatesFor(s) == IF s \in Manuscripts THEN Publishers ELSE Manuscripts

Run == [status : {"none", "running", "succeeded", "failed"}, source : Sources \cup {NoManuscript},
        count : Nat]

NoGrant == [source |-> "none"]

NoWork == [pc |-> "none", found |-> {}, left |-> {}, next |-> NoGrant]

NoRun == [status |-> "none", source |-> NoManuscript, count |-> 0]

CallStep == {"idle", "counted", "stored", "asking", "answered", "failed", "succeeded", "done"}

WorkerStage == {"none", "load", "rank", "store", "look", "insert", "failing", "succeeded", "failed"}

Call == [pc : CallStep, count : Nat]

Work == [pc : WorkerStage, found : SUBSET Sources, left : SUBSET Sources,
         next : Grant \cup {NoGrant}]

MatchTypeOK ==
    /\ runs \in [Calls -> Run]
    /\ candidates \in [Calls -> SUBSET Sources]
    /\ call \in [Calls -> Call]
    /\ worker \in [Calls -> Work]
    /\ faults \in 0..MaxFaults

MatchInit ==
    /\ runs = [c \in Calls |-> NoRun]
    /\ candidates = [c \in Calls |-> {}]
    /\ call = [c \in Calls |-> [pc |-> "idle", count |-> 0]]
    /\ worker = [c \in Calls |-> NoWork]
    /\ faults = 0

RunsOf(v) == {c \in Calls : runs[c].status # "none" /\ RequesterOf(runs[c].source) = v}

GoCall(c, pc) == call' = [call EXCEPT ![c].pc = pc]

GoWorker(c, pc) == worker' = [worker EXCEPT ![c].pc = pc]

\* An update of a run by its id, whatever its status is.
SetRun(c, status, count) == runs' = [runs EXCEPT ![c].status = status, ![c].count = count]

-----------------------------------------------------------------------------
\* The API

\* enforceDbRateLimit.  The source is kept for the insert.
CountRuns(c, s) ==
    /\ call[c].pc = "idle"
    /\ Cardinality(RunsOf(RequesterOf(s))) < RunsPerHour
    /\ runs' = [runs EXCEPT ![c].source = s]
    /\ GoCall(c, "counted")
    /\ UNCHANGED <<candidates, worker, faults>>
    /\ UNCHANGED storeVars

\* Only eligible profiles start a run, an author for a manuscript that is ready.
MayRun(s) == {RequesterOf(s), s} \subseteq eligible

\* GET /matches/:id shows a run to its requester, with all that is stored of it.
RunPage(v, c) == IF c \in RunsOf(v) THEN candidates[c] ELSE {}

InsertRun(c) ==
    /\ call[c].pc = "counted"
    /\ IF MayRun(runs[c].source)
       THEN SetRun(c, "running", 0) /\ GoCall(c, "stored")
       ELSE GoCall(c, "done") /\ UNCHANGED runs
    /\ UNCHANGED <<candidates, worker, faults>>
    /\ UNCHANGED storeVars

AskAi(c) ==
    /\ call[c].pc = "stored"
    /\ GoCall(c, "asking")
    /\ GoWorker(c, "load")
    /\ UNCHANGED <<runs, candidates, faults>>
    /\ UNCHANGED storeVars

ReceiveAnswer(c) ==
    /\ call[c].pc = "asking"
    /\ worker[c].pc \in {"succeeded", "failed"}
    /\ GoCall(c, IF worker[c].pc = "succeeded" THEN "answered" ELSE "failed")
    /\ UNCHANGED <<runs, candidates, worker, faults>>
    /\ UNCHANGED storeVars

\* Mutant: the error of the request ends the call.
GiveUpSilently(c) ==
    /\ call[c].pc = "asking"
    /\ GoCall(c, "done")
    /\ UNCHANGED <<runs, candidates, worker, faults>>
    /\ UNCHANGED storeVars

\* The minute is over, or the connection is lost: the thread goes on.
GiveUp(c) ==
    /\ call[c].pc = "asking"
    /\ GoCall(c, "failed")
    /\ UNCHANGED <<runs, candidates, worker, faults>>
    /\ UNCHANGED storeVars

CountCandidates(c) ==
    /\ call[c].pc = "answered"
    /\ call' = [call EXCEPT ![c] = [pc |-> "succeeded", count |-> Cardinality(candidates[c])]]
    /\ UNCHANGED <<runs, candidates, worker, faults>>
    /\ UNCHANGED storeVars

MarkRunSucceeded(c) ==
    /\ call[c].pc = "succeeded"
    /\ SetRun(c, "succeeded", call[c].count)
    /\ GoCall(c, "done")
    /\ UNCHANGED <<candidates, worker, faults>>
    /\ UNCHANGED storeVars

MarkRunFailed(c) ==
    /\ call[c].pc = "failed"
    /\ SetRun(c, "failed", 0)
    /\ GoCall(c, "done")
    /\ UNCHANGED <<candidates, worker, faults>>
    /\ UNCHANGED storeVars

\* The API goes down, or an update of the run fails and the request ends with an error.
ApiStops(c) ==
    /\ call[c].pc \notin {"idle", "done"}
    /\ faults < MaxFaults
    /\ faults' = faults + 1
    /\ GoCall(c, "done")
    /\ UNCHANGED <<runs, candidates, worker>>
    /\ UNCHANGED storeVars

-----------------------------------------------------------------------------
\* The AI service

\* _load_run_context: the eligible candidates.
LoadCandidates(c) ==
    /\ worker[c].pc = "load"
    /\ worker' = [worker EXCEPT ![c].pc = "rank",
                                ![c].found = CandidatesFor(runs[c].source) \cap eligible]
    /\ UNCHANGED <<runs, candidates, call, faults>>
    /\ UNCHANGED storeVars

\* Retrieval, scores and explanations: any of the candidates may be visible.
Rank(c, visible) ==
    /\ worker[c].pc = "rank"
    /\ visible \subseteq worker[c].found
    /\ worker' = [worker EXCEPT ![c].pc = "store", ![c].found = {}, ![c].left = visible]
    /\ UNCHANGED <<runs, candidates, call, faults>>
    /\ UNCHANGED storeVars

\* Mutant: the grants are inserted without the candidates.
StoreNoCandidates(c) ==
    /\ worker[c].pc = "store"
    /\ GoWorker(c, "look")
    /\ UNCHANGED <<runs, candidates, call, faults>>
    /\ UNCHANGED storeVars

\* insert_match_candidates: all of them in one request.
StoreCandidates(c) ==
    /\ worker[c].pc = "store"
    /\ candidates' = [candidates EXCEPT ![c] = worker[c].left]
    /\ GoWorker(c, "look")
    /\ UNCHANGED <<runs, call, faults>>
    /\ UNCHANGED storeVars

\* build_profile_access_grants: a grant for the author of a manuscript names the manuscript.
MatchGrant(v, x) ==
    [viewer |-> v,
     target |-> IF x \in Manuscripts THEN OwnerOf[x] ELSE x,
     manuscript |-> IF x \in Manuscripts THEN x ELSE NoManuscript,
     source |-> "match_candidate"]

GrantOf(c, x) == MatchGrant(RequesterOf(runs[c].source), x)

\* insert_profile_access_grants takes one after the other: it looks for the grant ...
LookForGrant(c, x) ==
    /\ worker[c].pc = "look"
    /\ x \in worker[c].left
    /\ worker' = [worker EXCEPT ![c].left = @ \ {x},
                                ![c].pc = IF GrantOf(c, x) \in grants THEN "look" ELSE "insert",
                                ![c].next = GrantOf(c, x)]
    /\ UNCHANGED <<runs, candidates, call, faults>>
    /\ UNCHANGED storeVars

\* ... and inserts it, which the unique index refuses when another run was faster.
InsertGrant(c) ==
    /\ worker[c].pc = "insert"
    /\ grants' = grants \cup {worker[c].next}
    /\ GoWorker(c, IF worker[c].next \in grants THEN "failing" ELSE "look")
    /\ UNCHANGED <<runs, candidates, call, faults, mode, eligible, intros>>

\* Mutant: the result is recorded while grants are left.
FinishRunEarly(c) ==
    /\ worker[c].pc = "look"
    /\ SetRun(c, "succeeded", Cardinality(candidates[c]))
    /\ GoWorker(c, "succeeded")
    /\ UNCHANGED <<candidates, call, faults>>
    /\ UNCHANGED storeVars

FinishRun(c) ==
    /\ worker[c].pc = "look"
    /\ worker[c].left = {}
    /\ SetRun(c, "succeeded", Cardinality(candidates[c]))
    /\ GoWorker(c, "succeeded")
    /\ UNCHANGED <<candidates, call, faults>>
    /\ UNCHANGED storeVars

\* Inputs that are missing, a provider or a request that fails.
RaiseError(c) ==
    /\ worker[c].pc \in {"load", "rank", "store", "look", "insert"}
    /\ GoWorker(c, "failing")
    /\ UNCHANGED <<runs, candidates, call, faults>>
    /\ UNCHANGED storeVars

FailRun(c) ==
    /\ worker[c].pc = "failing"
    /\ SetRun(c, "failed", 0)
    /\ GoWorker(c, "failed")
    /\ UNCHANGED <<candidates, call, faults>>
    /\ UNCHANGED storeVars

\* The AI service goes down, or cannot record the failure: its caller gets an error.
WorkerStops(c) ==
    /\ worker[c].pc \notin {"none", "succeeded", "failed"}
    /\ faults < MaxFaults
    /\ faults' = faults + 1
    /\ GoWorker(c, "failed")
    /\ UNCHANGED <<runs, candidates, call>>
    /\ UNCHANGED storeVars

-----------------------------------------------------------------------------

ApiStep(c) ==
    \/ InsertRun(c) \/ AskAi(c) \/ ReceiveAnswer(c) \/ CountCandidates(c)
    \/ MarkRunSucceeded(c) \/ MarkRunFailed(c)

WorkerStep(c) ==
    \/ LoadCandidates(c)
    \/ \E visible \in SUBSET worker[c].found : Rank(c, visible)
    \/ StoreCandidates(c)
    \/ \E x \in worker[c].left : LookForGrant(c, x)
    \/ InsertGrant(c) \/ FinishRun(c) \/ FailRun(c)

\* authMode "test": the API scores by itself and does everything at once; it does
\* not ask whether the author is eligible.
MayRunTest(s) == s \in eligible

TestCandidates(s) == CandidatesFor(s) \cap eligible

RunTest(c, s, visible) ==
    /\ call[c].pc = "idle"
    /\ Cardinality(RunsOf(RequesterOf(s))) < RunsPerHour
    /\ MayRunTest(s)
    /\ visible \subseteq TestCandidates(s)
    /\ runs' = [runs EXCEPT ![c] =
                  [status |-> "succeeded", source |-> s, count |-> Cardinality(visible)]]
    /\ candidates' = [candidates EXCEPT ![c] = visible]
    /\ grants' = grants \cup {MatchGrant(RequesterOf(s), x) : x \in visible}
    /\ GoCall(c, "done")
    /\ UNCHANGED <<worker, faults, mode, eligible, intros>>

MatchNext ==
    \/ /\ mode = "supabase"
       /\ \/ \E c \in Calls, s \in Sources : CountRuns(c, s)
          \/ \E c \in Calls :
               \/ ApiStep(c) \/ WorkerStep(c)
               \/ GiveUp(c) \/ RaiseError(c) \/ ApiStops(c) \/ WorkerStops(c)
    \/ /\ mode = "test"
       /\ \E c \in Calls, s \in Sources, visible \in SUBSET Sources : RunTest(c, s, visible)

-----------------------------------------------------------------------------
\* Properties

\* A run that says it succeeded says how many candidates its page shows, and its
\* requester can open the profile of each: the thread and its caller both write the
\* row, at different times and without looking at each other (process_run,
\* runSupabaseMatch).
SucceededIsComplete ==
    \A c \in Calls : runs[c].status = "succeeded" =>
        LET v == RequesterOf(runs[c].source) IN
        /\ runs[c].count = Cardinality(RunPage(v, c))
        /\ \A x \in RunPage(v, c) : ProfileShows(v, MatchGrant(v, x).target)

\* A profile is revealed by matching only to who has it among the candidates of a
\* run, whatever became of the run (insert_profile_access_grants).
GrantsAreBacked ==
    \A g \in grants : g.source = "match_candidate" =>
        \E c \in Calls : \E x \in candidates[c] : g = GrantOf(c, x)

\* A run the AI service was asked for does not stay "running": when one side goes
\* down, the other records the result.
RunIsSettled ==
    \A c \in Calls : worker[c].pc # "none" ~> runs[c].status \in {"succeeded", "failed"}

-----------------------------------------------------------------------------
\* What the properties rest on: how far a run's call and its thread are, and what
\* is stored by then.

Granted(c, x) == GrantOf(c, x) \in grants

\* Until it stores them, the thread has no candidates; then it has looked for the
\* grants of all but those that are left.
WorkerProgress(c) ==
    /\ worker[c].pc # "none" => runs[c].source \in Sources
    /\ worker[c].pc \in {"none", "load", "rank", "store"} /\ call[c].pc # "done" => candidates[c] = {}
    /\ worker[c].pc \in {"load", "rank", "store"} => candidates[c] = {}
    /\ worker[c].pc \in {"look", "insert"} => worker[c].left \subseteq candidates[c]
    /\ worker[c].pc = "look" => \A x \in candidates[c] \ worker[c].left : Granted(c, x)
    /\ worker[c].pc = "insert" =>
         /\ \E x \in candidates[c] : worker[c].next = GrantOf(c, x)
         /\ \A x \in candidates[c] \ worker[c].left : Granted(c, x) \/ worker[c].next = GrantOf(c, x)
    /\ worker[c].pc = "succeeded" => \A x \in candidates[c] : Granted(c, x)

\* The thread begins when the call asks, and the call says "succeeded" only after it.
CallProgress(c) ==
    /\ call[c].pc \in {"idle", "counted", "stored"} => worker[c].pc = "none"
    /\ call[c].pc \in {"idle", "counted"} => runs[c].status = "none"
    /\ call[c].pc = "stored" => runs[c].status = "running"
    /\ call[c].pc \in {"counted", "stored"} => runs[c].source \in Sources
    /\ call[c].pc \in {"answered", "succeeded"} => worker[c].pc = "succeeded"
    /\ call[c].pc = "succeeded" => call[c].count = Cardinality(candidates[c])

\* A recorded success is about candidates that nobody is still storing.
SuccessIsFinal(c) ==
    runs[c].status = "succeeded" =>
        /\ worker[c].pc \in {"none", "succeeded"}
        /\ runs[c].count = Cardinality(candidates[c])
        /\ \A x \in candidates[c] : Granted(c, x)

InOrder(c) == WorkerProgress(c) /\ CallProgress(c) /\ SuccessIsFinal(c)

RunInvariant == \A c \in Calls : InOrder(c)
=============================================================================
