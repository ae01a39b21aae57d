# Smart Publishing Bridge: a verification of its stateful core

Smart Publishing Bridge is a marketplace of authors and publishers. An author uploads a sample
of a manuscript, the sample is scanned and indexed, matching proposes pairs, a pair exchanges
intro requests, and both sides pay for a plan. The web app talks to a Node API
(`src/apps/api`), the API shares a Postgres database with a Python AI service
(`src/apps/ai-service`), and three outside services act on their own clock: Cloud Tasks, Resend
and PayTR.

Nearly every rule of the system is kept by *several* programs writing the *same* rows with
updates by id, by a few conditional updates and row locks, and by unique indexes. The modules
here model those writers statement by statement, and the runs and proofs ask what still holds
in every interleaving.

## 1. Inventory

| component | state it keeps | operations | who it meets |
|---|---|---|---|
| document upload (`manuscripts/documentUploadService.ts`, `documentService.ts`) | `documents`, `manuscripts.sample_document_id`, `document_processing_jobs` | create upload, complete upload (first or replacement sample) | hands the job to Cloud Tasks or leaves it for the script |
| Cloud Tasks (outside) | one named task per job | deliver, deliver again, give the answer back | calls the AI service |
| batch script (`documentProcessingSupabaseRunner.ts`) | the run's local state, `admin_reviews` | read, claim, dispatch, wait 5 minutes, finish job and document, open a review | calls the AI service, shares all rows with it |
| AI service ingestion (`ingestion_worker.py`) | a request's thread, chunks and embeddings | read job, mark running, process, replace outputs, close document and job | called by both, writes the rows of both |
| document scanner | none | verdict | called inside `_process_document` |
| admin decisions (`apply_admin_review_decision`) | `admin_reviews`, eligibility of the target | approve, restore, reject, suspend, quarantine | the same documents |
| email outbox (`outboxService.ts`) | `email_outbox` | enqueue, claim, send, mark sent or failed | Resend |
| Resend webhook (`registerEmailWebhookRoutes.ts`) | `email_delivery_events`, `email_outbox.status` | record event, update status | the same rows as the script |
| trial, entitlement (`billing/`) | `subscriptions`, `billing_trial_starts` | start trial, read models | payments, intro requests |
| PayTR checkout and callbacks | `paytr_checkout_sessions`, `payment_events` | token, callback | PayTR, subscriptions |
| billing repair | the two above | set a status, mark an event processed | admins |
| intro requests (`introRequests/`) | `intro_requests`, `usage_ledger` | create, accept, reject, cancel | locks a subscription, reads the sample of the pipeline |
| matching runs (`matching/`, `matching_worker.py`) | `match_runs`, `match_candidates`, `profile_access_grants` | start under a rate limit, store candidates and grants, record the result, show history and detail | API and AI service write one run by id; reads eligible profiles and manuscripts |
| match signals and scoring (`matching_signals.py`, `matching_scoring.py`) | `match_signal_sources`, vectors in Vertex AI | embed what changed, retrieve neighbours, score, penalise, rank | a thread of a matching run; texts are edited meanwhile |
| manuscript access (`manuscriptAccess*.ts`) | `manuscript_access_requests`, grants | ask, decide, list | grants of matching, pages, evidence for intro requests |
| profile access policy (`profileAccessPolicy.ts`) | none | what the author page and the manuscript page show | grants, requests, accepted intros |
| profiles, onboarding, admin grants (`profiles/`, `admin/bootstrapFirstAdmin.ts`) | `profiles`, `admin_users` | create, complete details, become or stop being an administrator | triggers that look at the other table |
| profile reviews (`admin/service.ts`, `decisionSideEffects.ts`) | `admin_reviews` | list the queue, decide by review or by profile | profiles, notifications |
| notifications (`notifications/`) | `notifications` | write, page through, mark one or all read | decisions and intro requests write them; email outbox |
| web entry (`web/src/modules/auth`, `admin/useAdminAccess.ts`, `profile/`) | Supabase session, draft in `localStorage`, per tab React session, route and cached queries | sign in, up, out, MFA, links, guards | API answers that come late, other tabs |
| web queries (the other web modules) | react-query cache, mutations in flight | mount, focus, poll, invalidate, write into the cache | every API route the pages use |
| the API in memory (`authMode` "test": `billing/testState.ts`, `introTestLifecycle.ts`, `manuscripts/testState.ts`, `documentProcessingTestRunner.ts`) | arrays and maps of one Node.js process, files in `local-uploads` | what the database does for trials, payments, intro requests, uploads, jobs and reviews | handlers that overlap only at their awaits; the AI service |
| storage, configuration, health, seeds, directory, contracts, ui | single rows, or none | | |

`PROJECT.json` lists all components with what is modelled of each, or why it is not.

What is hard in this system:

- *Two writers, one row.* The batch script and the AI service both finish a job and a document;
  the email script and the webhook both write `email_outbox.status`; payments and admins both
  write `subscriptions`.
- *Abandoned work that goes on.* The script gives up on a call after five minutes and Cloud Tasks
  after its deadline, but the thread in the AI service is not cancelled. A lost answer of Resend
  looks like a failed send.
- *Check, then act.* A job is read and later claimed; a review is looked for and later inserted; a
  pair is looked at and later inserted, with a wait for a lock in between; a plan is read when the
  token is made and paid for later.
- *Messages that come late, twice or out of order.* Tasks, webhooks of Resend, callbacks of PayTR,
  and in the browser the answers of the API, which may be older than what is shown beside them.
- *State read before an await.* Sign-in handlers read the session, the draft and the route in steps,
  while another tab, the user or a guard changes them.
- *Pages that are moving.* The feed of notifications and the admin queue are read in several queries
  while rows are added and decided.
- *Half-done work.* Job and document are closed in two updates, an email is sent and then recorded,
  a completion is committed and then enqueued.

What makes each part correct, and where it is stated:

- pipeline: one run per job, one review per document, a processed document has its chunks, nothing
  the scanner stopped is exposed, every enqueued document is checked in the end;
- email: one run per row, no send that is not counted, a status that was reported, every email
  settled in the end;
- billing: a payment begins one period, and begins it in the end;
- matching: a run that says "succeeded" has its candidates, a grant has a candidate or a consent
  behind it, every run is settled in the end, and what a publisher sees was earned;
- signals: what is marked current is indexed, the best candidates found are stored, an author is
  warned of every mismatch;
- accounts: a review and its profile are decided at most once, by an administrator, and what is in force is that decision
  or what the owner sent; the queue and the feed leave nothing out;
- web entry: but for views that section 6 names, a tab comes to rest on a page, staff are sent away from the public wizard, a
  draft is not lost;
- web queries: a page at rest shows the user's own changes, does not take them back, and follows
  a sample until it is processed;
- intro requests: no period is charged more than its plan allows, and a request is charged to
  the period its requester has;
- the API in memory: a payment buys the plan, a quota is overrun by no more than what overlaps, mail says what
  the notice said, the sample is the upload and the last decision stands.

## 2. The modules

### Document pipeline

`DocumentStore` holds the tables (`documents`, `manuscripts.sample_document_id`,
`document_processing_jobs`, and `outputs`, the documents with chunk rows) and the updates that several programs
share. `IngestionWorker` is a request thread of the AI service: its `pc` is the next repository
call of `IngestionWorker.process_job`. `DocumentRunner` is a run of the batch script, one action per database
or HTTP call. `DocumentPipeline` composes them with the author's requests, the Cloud Tasks queue and
the review decision, and holds the properties. `MCDocumentPipeline` gives TLC its documents.

- A document has one job, because the upload completes once and the job's idempotency key comes from
  it; jobs are indexed by document.
- `_process_document` (download, scan, decode, chunk, embed) is one step whose outcome is any the
  code can produce for what the scanner says of the bytes (`PossibleResults`). `CodeOf` is
  `normalizeFailureCode`.
- `Abandon` is a caller that stops waiting: the thread runs on with nobody to answer.
- A failure counts against `MaxFaults`: an error in the AI service, a timeout, a lost delivery, a
  crash of the script, a failed `createTask`.
- Left out: bytes, names, sizes, text of notes, the author's view, deletion of retired objects.

### Email outbox

`EmailOutbox` models `email_outbox`, `email_delivery_events`, the runs of `processEmailOutbox.ts`, the
webhook's requests and Resend. A run claims a batch (`FOR UPDATE SKIP LOCKED`, one step), then
sends and records email by email; what happens between two of its calls is interleaved. `Report` is
Resend reporting on a message, `ReceiveEvent` the delivery of a report, at any later time and any
number of times. `OutboxPromise` is the abstract
specification: an email is absent, waiting, held, lost or settled, is taken up at most twice, and a settled
one is never taken up. From any of these Resend may *dispute* it by reporting one of its messages as failed: of a
`"disputed"` email nothing is promised but that it is counted how often it is taken up. The mapping is `PromisedState` and the number of attempts.

### Marketplace

`Subscriptions` has the rows of a profile by what inserted them (a trial or a callback), the clock in
months, the trial and the repairs. `PaytrBilling` adds checkout sessions, PayTR and
`apply_paytr_webhook_event`. `IntroRequests` adds `create_intro_request` as the transaction of several
statements that it is, each of which sees what was committed before it, and `transition_intro_request`.
`Marketplace` puts them over the same subscriptions.

- `lock[p][o]` is the row lock that a create takes with `FOR UPDATE` and gives back at its commit or
  rollback; payments and repairs of the row wait for it (`RowFree`).
- `periods` numbers the periods: two periods have different timestamps.
- A transition locks its request and commits; since nothing else locks in between, it is one step.
- `now()` of a transaction is the time when it began; here it is the time of the statement.
- The eligibility of profiles and the evidence of a pair are given; the sample's state changes at any
  time (`SampleChanges`). An author has one manuscript.
- Callbacks with a wrong hash are stored under an id of their own, and `attach_paytr_reference` changes
  no modelled state: both are left out.

### Discovery

`DiscoveryStore` has the eligibility of profiles and manuscripts, `profile_access_grants` and the accepted intros.
`MatchRuns` models a call of `POST /matches/run` and the AI thread it starts: the API inserts a run,
waits for a minute and records what it heard, the thread replaces candidates and inserts grants one by one
and records its own result, both by id. `ManuscriptAccess` models asking and deciding as the read and the
updates they are, and the pages of author and manuscript. `Discovery` composes them and says what a pair
needs for an intro request. Each module has the two implementations the API has, `"supabase"` and
`"test"` (`Modes`); a behaviour is one of them throughout. `MaybeSingle` and `MaybeFirst` are the two ways the code
reads a row, with different answers when there are several.

- A run has the id of the call that made it; `RunsPerHour` replaces the hour and no time passes.
- `Rank` is any set of visible candidates: which ones and in what order is `MatchSignals`.

### Match signals and scoring

`MatchScoring` are the pure functions: axes, overlap, penalties, final score, bands and comparison. A text is a record of
sets of words, a score an integer in ten-thousandths. `MatchSignals` is the thread of a run in the AI
service: it loads its source, brings signals up to date (find, then insert or update), asks for neighbours with any
distances and any subset an approximate index may give, and stores the best. Edits of texts happen between any two of
its steps. `Jitter` is the tie-breaker derived from ids.

- Signals are asked for in the order of `SIGNAL_TYPES`; `Place` is a signal's place in it and `asking` what a thread has still to ask.
- A penalty of the same severity is the same number, so `PenaltyTotal` counts them by severity. `Ranking` is the one order of
  the candidates in which each comes `Before` the next.
- A field that has a value has a word of the alphabet that the scoring looks for, and a manuscript has a genre, as the upload
  form and the schema require (`TextAssumption`; section 6 has what happens otherwise).

### Accounts

`Profiles` (creating a profile beside becoming an administrator, where a trigger of each table looks at the other and
does not see what is not committed), `AdminReviews` (decisions by review and by profile, and the listing as one query
per risk and queue), `Notifications` (a feed with a cursor over rows whose creation times are those of their
transactions) and `Accounts`, where a decision or an intro request writes a notification. `Users` have profiles, `Staff` may
be made administrators.

### The API in memory

With `authMode` "test" the same API keeps everything in the arrays and maps of one process. Nothing is locked and nothing is
unique by an index: what protects a row is that a handler runs alone between two awaits. `MemoryBilling` has trials,
checkouts, callbacks (with an invalid hash, too) and repairs. `MemoryIntros` adds creating and deciding intro requests with
the ledger, the notices and the mails that follow; in it, which manuscripts are `clear` for a request changes at will.
`MemoryDocuments` adds uploads, the PUT of the file, completions that wait for it, the local runner and the decisions about
the reviews it opens, and computes `clear` from them. A step of it is a step of `MemoryIntros`.

- A handler is one step per await. Awaits that only yield to other promises are interleaved with everything, more than
  the microtask queue would allow. Starting a trial, creating a request and completing an upload are split so. The checkout is
  not: it awaits the price, the address and the adapter between its checks and its insert
  (`paytrCheckoutService.ts:87-116`), but it inserts a session of its own, which nobody looks at before its callback, and the
  callback reads nothing that the checkout has read but plan and profile. The steps are merged into the first.
- Time is a row of moments, and `MonthEnd` and `YearEnd` say to which moment `setUTCMonth(+1)` and `setUTCFullYear(+1)` lead
  from each. A month need not be monotone: from 31 January it leads to 3 March and from 1 February to 1 March. All that
  is assumed is that a period ends after it began, and that a year outlasts the months begun before it. `periods` numbers the periods.
- `jobs` is the array `jobRuns`: an upload puts its job in front, and the end of a job writes at the place (`places`) that
  its job had when it was started.
- Decisions about profiles reach only the admin's lists in this mode, so no action makes a profile ineligible.
- A manuscript's own eligibility stays as it is; a decision reaches its document.

### Web

`WebCache` is what a browser keeps: the session and the draft that all tabs share, and per tab the session React knows,
the route and the queries "access" and "profile" with answers that were taken when they were asked. `WebPages` is
what a tab renders from that: guards, redirects and waits. `WebEntry` adds the handlers of the auth pages, one step
per await, which go on after their page is gone. A view is `"blank"` where the code renders nothing. `Kept` are the sessions that
the browser may have kept from an earlier visit. `StaysBlank` and `GoesRound` name the tabs that the code leaves without a page.

`WebSurfaces` is a table: for each page the queries it reads and, for each, the queries it waits for; for each button the
mutation and what its data depends on; for each mutation the fact that changes and what its handler writes, invalidates
and navigates to. `WebQueries` runs that table on a react-query cache: a *fact* is a part of the server's state with a
version, an answer is the versions it was made of, and it arrives in a later step or fails.

- One manuscript, publisher, run and review is followed, so a query stands for one key. The document query is the
  exception: its key is the sample that the manuscript's data shows, and it starts afresh when that changes.
- A fetch on its way is only cancelled by an invalidation, and only if the entry has data, as react-query does it.
- The mutation of a page that was left is acknowledged, but its pending state is gone with the page.
- An answer that is kept longer than its page is still in the cache (`gcTime` is five minutes); it is shown at the
  next mount while it is fetched again. `retry` is part of the time an answer takes.
- `recent` are the mutations that were acknowledged while the page has been open: what the user has seen happen here.
- `AuthorGuard` does not mount the pages of manuscripts before it knows the profile, so their queries wait for `me`.
- Left out: forms, filters and tabs of a page, and the selection in lists.

## 3. The runs

| run | what it asks |
|---|---|
| `script` | two uploads for one manuscript, one of which the scanner stops; two runs of the script, two threads, two faults: all safety properties of the pipeline |
| `tasks` | the Cloud Tasks deployment with liveness: `EnqueuedIsChecked` |
| `email_outbox` | two emails, two runs claiming batches of two, two messages, crashes, late and repeated reports of delivery and of failure: `ExclusiveClaim`, `SendsAreClaimed`, `StatusIsReported`, the refinement `KeepsPromise`, and `EmailIsSettled` |
| `intro_quota` | one author, two publishers, two calls in progress, a trial, a payment, repairs of both kinds: the quota, the period it is charged to, payments |
| `paytr_billing` | two checkouts of a profile, all three kinds of callback, time passing, no repairs: `PaidIsActivated` |
| `discovery` | two matching calls with their threads, one access request decided twice, in both modes, with a crash or an error anywhere and moderation in between: `SucceededIsComplete`, `GrantsAreBacked`, `AccessIsEarned`, `RunIsSettled` |
| `scoring` | a run of an author and one of a publisher over two manuscripts and two publishers, a text edited meanwhile, failures at every request: `CurrentIsIndexed`, `BestAreStored`, `AuthorIsWarned` |
| `accounts` | two users, one of whom may become staff, two decisions in progress, three reviews, listings and feeds: `DecidedOnce`, `ProfileFollowsLog`, `OnlyAdminsDecide`, `PageIsComplete`, `FeedIsComplete` |
| `web_entry` | a member and a staff user in one browser, two handlers, a tab that may open any of the thirteen routes, without a session or with one kept by the administrator, two events: `EntryLands`, `DraftIsKept`, `WizardHidesStaff` |
| `web_queries` | each role, at rest on the pages that send or show what others send, two requests in flight, two events: `OwnChangesAreShown`, `OwnChangesStayShown`, `SampleIsFollowed` |
| `memory` | an author with three manuscripts and a publisher, two orders, four documents, two completions and two creates under way: `RecoveryHelps`, `PaymentTakesEffect`, `OverrunIsBounded`, `MailFollowsNotice`, `SampleIsTheUpload`, `DecisionStands`, `StorageOverrunIsBounded` |
| `accepted_terminal` | shows one statement of the documentation that the code does not keep (section 6) |

Bounds, and why they are enough: every property is about two actors that meet at one row, so two runs,
threads, calls or sessions are there, and a second row (document, email, publisher) for what a
row's neighbour can do to it. Two faults allow a timeout followed by a crash, or a lost delivery
followed by an error. Two messages and two emails are what two runs can confuse. `MaxTime` is 2 months in
`paytr_billing`, so that a trial or a monthly plan ends and an annual one does not; it is 0 in
`intro_quota`, where a period changes by payments and entitlement ends by repairs. Quotas of 1
are reached by the first request. `Subscribers` limits who buys; `Repairs`, `Callbacks` and
`EventTypes` limit what a run lets happen. In `discovery` two manuscripts let one be matched while the other is asked
for, and `MCBound` keeps to two runs of matching, or to one run with what is asked, decided and moderated during and
after it. In `scoring` one manuscript is not eligible, two distances make one neighbour near and one far, `MaxStored` is one so that
something is always left out, and there is one edit (`MCBound`). In `accounts` pages of one notification and of two reviews end in
the middle of what there is; its `MCBound` looks at an account in the making, feeds being read and reviews one at a time, because
they meet only in the rows that the properties relate. `MaxEvents` of the web runs counts what the
user, other people and the network do unasked (moves, requests, focus, changes elsewhere, failures); answers, redirects,
timers and handlers go on without a bound. Two events are a request and what comes between it and its answer, or two
requests at once. In `memory` money, samples and requests meet in a subscription, a sample and a period, and `MCBound` lets one of the
three move at a time, the others being what it needs: money with two orders, at most one of them for a year, repairs and time (`MoneyMoves`), four documents with their
files, jobs and decisions (`SamplesMove`: a sample, its replacement and the decisions about it, two manuscripts whose samples are
processed side by side, or three that get their samples), three requests with a replacement of the sample under way (`RequestsMove`). `MaxPeriods`, `MaxStarts`,
`MaxRequests`, `MaxDecisions` and `MaxTime` count what would go on for ever.

The types of a module are a theorem where there is a proof module (`TypeCorrect`, `SignalTypesCorrect`, `DocumentTypesCorrect`), so no
run spends a check on them.

The moments of `memory` are 31 January, 1 February and 1 March, where the months cross: a trial of the first ends after a
month that is paid at the second.

`EventTypes` is `{"delivered", "failed"}` in the email run: these are what changes how a row is treated (the others write a status
that nobody claims by). A report of delivery comes as often as it likes; `MaxFailures` is 1, because a report of failure puts the row back
among the claimable ones, at any time and without a look at its attempts, so that each would begin the story again. `ExclusiveClaim`
therefore speaks of an email until one of its messages is reported as failed (`Disputed`); other emails keep the guarantee.
Its `MCBound` cuts only steps of Resend and of the webhook, to which no fairness obliges: ids are handed out in order, one of the two messages
fails at most, and the run stops at an event that was stored without its email, which nobody reads.

Symmetry is used in safety runs only: runs, threads, requests, calls, sessions and ids are treated alike
by every action, and so are publishers that buy nothing; emails are ordered by their age and documents
differ in their verdict, so neither is in a symmetry set; nor is anything in the runs of matching, scoring and the web. Deadlock is not checked: the programs
stop when there is no work left or a bound is reached.

Fairness:

- pipeline (`Fairness`): threads of the AI service keep running, the queue delivers and takes answers.
  Authors, admins and the batch script are under no obligation; faults just happen, at most
  `MaxFaults` times.
- email (`FairSpec`): somebody starts the script again and again, and `next_attempt_at` passes. Nothing
  obliges Resend to report or the webhook to run, and a crash may come at any step: an email whose run died is
  what `EmailIsSettled` leaves out.
- billing (`FairSpec`): PayTR repeats a success callback until it is answered. Its repetitions find
  the row free infinitely often, hence strong fairness.
- matching (`FairSpec`): the API and the threads of the AI service go on unless they stop (a fault).
- web entry (`FairSpec`): answers arrive, React redirects and handlers go on; the user is under no obligation.
- web queries (`Spec`): what is asked for the document arrives, and its timer runs. That is all that `SampleIsFollowed` needs.

## 4. The proofs

`DocumentPipeline_proofs` proves, for any number of documents, manuscripts, threads, runs and faults, any
assignment of documents and any verdicts:

- `TypeCorrect`: `Spec => []TypeOK`. One lemma for each program (`WorkerStepType`, `RunnerStepType`,
  `CompleteType`, `DecideType`), `TypeStep` puts them together.
- `SampleCorrect`: the uploaded document of a manuscript is the one `sample_document_id` names. It is
  inductive together with types, because only `complete_document_upload` changes a storage status.
- `ClaimCorrect` and `RunsCorrect`: one run per job and one review per document. Neither is inductive. The strengthening
  `ClaimInvariant` says that a job that is still to be claimed has no run and no review, and that a claimed one has
  no review until its run creates it and ends. The key lemma is `NeverRequeued`: nothing ever sets a
  job back to queued, so one document sees at most one claim, and the unguarded pair of look and
  insert is safe.
- `EvidenceCorrect` and `OutputsCorrect`: nothing the scanner stopped is exposed, and a document that reads as processed has its chunks.
  The strengthening `EvidenceInvariant` has two parts. `ReplyIsAwaited`: a thread's caller, if it is a
  run, waits for just this thread and document, so that an abandoned thread's answer cannot reach a
  run that has gone on. `SuccessIsBacked`: success is claimed only for clean bytes, and once it is
  reported the chunks are there.

They rest on the named assumptions `DocumentAssumption`, `WorkerAssumption` and `PipelineAssumption`:
documents belong to manuscripts, null values are no ids, runs are no documents, verdicts are among
the three the scanner gives.

`Marketplace_proofs` proves, for any number of profiles, sessions, calls and requests, any quotas and any
length of time:

- `TypeCorrect`: `Spec => []TypeOK`. The types say that a payment is reported only for a session that is
  stored, and that `lock` names exactly the calls that have counted or are about to insert.
- `PaidOnceCorrect`: a payment begins at most one period. It is inductive with `PaidIsProcessed`: the
  period begins in the transaction that settles the event, and a settled event lets no callback through.
- `QuotaCorrect` and `ChargesCorrect`: no period is charged more than its plan allows, and a charge names a
  period that the requester has at the commit. Counting and inserting are separate statements, so
  neither is inductive. `QuotaInvariant` adds three things. `PeriodInvariant`: a period belongs to
  one row of a profile and was begun later than those before it, so a new period has no charges. `LockInvariant`: the
  row that a call holds still has the status, period and plan it has read, because whatever sets a row
  waits for the lock (`HeldRowIsLive` is why `StartTrial`, which does not, cannot meet a held row).
  `LedgerInvariant`: the charges of a period name one plan, and a call at `insert` finds room. The key step
  is `InsertCharges`: another call at `insert` for the same period would hold the same row.

The assumptions are `SubscriptionsAssumption`, `BillingAssumption` and `IntroAssumption`: authors and
publishers are distinct and are the profiles, null values are no ids, quotas are numbers.

`EmailOutbox_proofs`, for any number of emails, runs, requests and messages, any batch limit, with and without crashes:

- `TypeCorrect` and `ReportsCorrect`: a status that Resend reported, or that its answer gave. It rests on `MessagesAreKnown`:
  every message id in a row, in a run or in a request of the webhook is of a message that Resend has for that email.
- `SendsCorrect`: Resend never gets an email more often than it was claimed. `AttemptsAreCounted` counts what each
  run still holds: a send uses up a claim that was counted before it.
- `ExclusionCorrect`: a row is in one batch at most. All updates after the claim are by id, so what is inductive
  is `HeldIsNotClaimable`: while a run holds a row, no claim takes it, unless one of its messages was reported as failed. Any
  event types are allowed and as many failures as one likes; the exception is per email, and without it TLC refutes the property (section 6).
- `PromiseKept`: every step implements `OutboxPromise`, whatever Resend reports. A report of failure is `Dispute`. It is the
  refinement that the run checks as `KeepsPromise`.

`Matching_proofs` is in two parts. The first is about `MatchSignals`, for any texts, runs, edits, distances and jitters:

- `SignalTypesCorrect`; `IndexedCorrect`: inductive is `VectorsComeFirst`, that a thread which is going to write a row for a
  text has its vector in the index, although the text is edited meanwhile.
- `BestCorrect`: what is stored are the best of what was found. `HintsAreNearest` says that a hint is the nearest of all answers on
  its axis; `RankingExists` is the lemma that a finite set of candidates has a ranking, so that the CHOOSE means something.
- `WarnedCorrect`: every mismatch of the comparison is a penalty (`MismatchesArePenalties`), for which a manuscript has a genre.

The second is about `Discovery`, for any authors, publishers, manuscripts, calls, requests and faults, in both modes:

- `TypeCorrect`; `GrantsCorrect`: a grant of matching has a candidate of a run behind it, inductive with the
  grant that the thread is about to insert.
- `SucceededCorrect`: `RunInvariant` says how far the two writers of a row can be from each other: a call hears of a
  success only from a thread that has granted all its candidates, and a success in the row leaves no thread that is still storing.
- `AccessCorrect`: `AccessInvariant` says that whatever is approved or granted for access had a consent of the author. It
  is carried to the pages through both ways of reading a row (`MaybeSingle`, `MaybeFirst`).

`Accounts_proofs`, for any users, admins, requests, reviews and page sizes:

- `TypeCorrect`; `OnceCorrect`: one decision of a review counts, is what the review says and is told once.
  `LogInvariant` relates the log, the reviews, the notices and the desks that are at work.
- `AdminsCorrect` (an action property).
- `FollowsCorrect`: a profile is decided at most once, though it may have several reviews and several admins at work, and what is in
  force is that decision or the details that its owner sent. The argument is `AwaitingIsNew`: a profile whose outcome is "needs_review" has
  no line in the log, since every decision and every set of details changes the outcome and nothing changes it back.
- `FeedCorrect` and `PageCorrect`: nothing is missing between pages and nothing shown twice while rows
  are added, read and decided. The order of rows is a CHOOSE over sorted sequences, so the lemmas on sorted sets come first;
  `FeedInvariant` and `PageInvariant` say what lies on either side of the cursor.

`Memory_proofs`, for any profiles, orders, manuscripts, calls, quotas, documents, sizes, uploads and decisions; its first part is about
`MemoryIntros`, the second about `MemoryDocuments`:

- `TypeCorrect`, `PaymentsCorrect`, `MoneyCorrect`: what is renewed is the first subscription of the array and what is
  read is the one that ends last. They agree because of `LaterAreTrials`: all but the first are trials, so what ends later than a payment is a
  trial whose month runs over (`Overtakes`, which the property names). It holds for any calendar of the kind above.
- `RecoveryCorrect`: a denial never advises what the billing denies again.
- `OpenOnceCorrect`, `OverrunCorrect`: the checks of a pair are followed by its insert without an await, those of the
  quota are not. `QuotaInvariant` counts the charges of a period together with the calls that are about to charge
  it: before the first of them the quota was not reached, so they exceed it by less than the calls that overlap.
- `MailCorrect`: `TellingInvariant` says that a stored request is notified and that whoever is about to charge one has stored it.
- `ApiImplements`: a step of the API with its documents is a step of `MemoryIntros`, where `clear` changes at will. `ApiCorrect`
  takes the theorems above over.
- `SamplesCorrect` is inductive with types. `DecisionsCorrect`: a job does not look at decisions,
  and it may close the job of another document. `JobsInvariant` is why the decision stands all the same: a document has one job at most,
  and what has a review has been processed (`DecidedHasRun`), so that no upload and no processing touches it again.
- `StorageCorrect`: an author is over the storage quota by no more than the completions that overlap. What is inductive
  (`StorageInvariant`) looks ahead: *whichever* of the completions that have begun come to their end, what is then stored (`Kept`) is
  within the limit. The one that began last found room beside what was stored when it began, and the others are at most all uploads
  but one; a completion that ends only turns one of these futures into the present. `Size` is a sum by a fold over any order of a
  finite set, and there is no induction to reason about it with; the lemmas before (`SizesAgree` to `SizeOfBoth`) do it
  with minimal counterexamples instead: of the sets that refute a lemma one contains no other (`SomeIsMinimal`).

`WebEntry_proofs`, for any tabs, users, handlers and faults:

- `EntryCorrect`: an answer is what the server could have told the user who asked (`Told`), whoever is signed in by the time it
  arrives. `FlowsTold` says this of the handlers and `QueryTold` of the queries, with their answers on the way. Profiles are only
  added, so what was told stays true (`ToldStays`).
- `WizardCorrect`: the page of the wizard waits for an access answer, and the server never tells staff "no_access". A wizard that
  staff see is therefore one after a failed answer, or after one that was asked with another session.
- `DraftCorrect` (an action property): a handler clears the draft after it was told of a profile or of staff; if it was started for the user
  whose draft it is, that user has the profile.

`WebQueries_proofs`, for any pages visited, any number of requests under way and any number of events. `Visited` is constrained
to pages that exist and `Calls` to numbers; the tables of `WebSurfaces` are the code's, not parameters, so the proof reads them:
`PageFacts` says what holds of every page that a role can open (what a query waits for is read on the same page, which buttons meet
the bill), `MutationRows` what a mutation writes, and `AllAreTold` that every query that shows the fact of a mutation is written or
invalidated by it, is one of `LeftBehind`, or is on no page of a role that sends it.

- `OwnChangesShownCorrect`: the inductive `Inv` has to follow an answer from the moment it is asked for. `CacheOK`: data and
  answers on their way are of versions there have been, and an answer is not older than the data it will replace (`Dated`), except in the
  entries that a mutation writes. `Judged`: an answer on its way that is not marked knows all acknowledged changes; a later change
  marks it unless it is cancelled. `SettledOn`: what is at rest on the page knows them. A query that is told of a change
  is asked for again because an entry with data is enabled wherever it is read (`EnabledIsAskable`): what it waits for never loses its
  data. The document is the exception, its key being data of another query: `DocOK`.
- `OwnChangesStayShownCorrect` (an action property): `TrialKnown` and `RunsOnce` are the two entries that an
  answer may overwrite without being newer. The bill is on pages whose only other button does not touch it, and its older answers are
  cancelled when the trial is acknowledged; the result of a run is written by one run at a time, because the button is
  disabled while the run is pending *and its page is still open*, and an answer that finds its page gone does not write.
- TLC checks `Inv` too: it holds in all states of the run `web_queries`.

The assumptions are named at the CONSTANTS of each module (that about the calendar is `CalendarAssumption`), and TLC evaluates each in a run: null values are no ids, the sets of a
query are finite, profiles, manuscripts and publishers are different things, the kinds of reviews are among the risks and queues of the
code, places in the feed are numbered from 1, quotas and limits are numbers, documents and uploads are finitely many, there is a tab, and links open routes.

Only model-checked is liveness under fairness, which is out of the prover's reach, like `ENABLED`: `EnqueuedIsChecked`,
`EmailIsSettled`, `PaidIsActivated`, `RunIsSettled`, `EntryLands`, `SampleIsFollowed`. Every safety property of a passing run is a
theorem.

## 5. Plan

1. Done, with proofs: document pipeline, marketplace, email outbox with its abstract specification, matching runs and
   manuscript access, accounts, signals and scoring, the API in memory, web entry and web queries.
2. Models left: the scoring of the test mode (`matching/scoring.ts`), the email of the test mode, local transfer tokens and the
   upload policy as operators, the public directory, the health tables.

## 6. Where documentation and code part

The run `accepted_terminal` shows `AcceptedIsTerminal` violated (`database.md:776`): a call that waited for its lock inserts a
request beside one that was accepted meanwhile.

The others were met while modelling. The models contain the behaviour; no run is spent on it.

Pipeline and email:

- The script times out and opens a review, the abandoned thread then makes the document eligible under the
  pending review (`supabase_repository.py:147`, against `auth-security-rls.md:92`). The review of a quarantined document is created
  in a state that the decision procedure refuses (`admin-operations.md:65`).
- In the Cloud Tasks deployment nobody opens a review for a document the worker failed (`ai-rag-pipeline.md:86`), and when
  `createTask` fails after the completion the job stays queued and a second completion is a conflict. A failed job is never
  queued again, so `max_attempts` has no effect (`database.md:600`).
- Outside test mode a repeated webhook event overwrites the status again (step 14 plan, line 416). A report of failure re-opens an
  email however often it was tried, and a lost answer of Resend sends it twice (lines 394 and 395). A row that is re-opened while a
  run holds it is claimed and sent by a second run: the exception of `ExclusiveClaim`.
- The webhook does not look at the error of its lookup (`registerEmailWebhookRoutes.ts:137-143`): the event is stored without its email,
  the answer is 200, Resend does not come again and the status is never updated. `ReceiveEvent` has this outcome.

Billing:

- With the database a month is `interval '1 month'`, which stops at the end of a short month. `Subscriptions` counts in months: periods
  begun in the same month end together there, and every order of a tie is allowed.
- Under repairs a payment renews the row that ends last and not the live one, and the unique index rolls its
  callback back for ever (`payments-paytr.md:58`). `readModels.ts:195` takes the row that ends last as well, `create_intro_request`
  the one that entitles.

Matching and access:

- `canViewDbManuscript` (`profileAccessDb.ts:60`) reads grants and approved requests with `.maybeSingle()` and no limit, so a
  publisher with a match grant and an access grant gets an error that is read as no row: without exactly one approved request
  the page is not found, while `frontend.md:195` promises it and the author page lists the manuscript as full. `hasDbDiscoveredAuthor`
  has the same form (`frontend.md:211`).
- `decideManuscriptAccessRequest` updates by id only: of two decisions the later is kept, a rejected request may keep the grant of
  the first, and a failed grant leaves "approved" without one.
- The rate limit is counted and then inserted, so two calls at once both pass. `match_runs.stale` is never set with the database.
  A stop of the API between insert and call leaves a run "running". A failed run may keep candidates (`ai-rag-pipeline.md:134`
  says zero).
- `build_penalties` reads only manuscript keys from the source, so a publisher's run has no penalties and no watch-outs, also
  where the comparison says "mismatch" (`matching_scoring.py:158` against `ai-rag-pipeline.md:126`). `AuthorIsWarned` is about authors for that
  reason. A candidate without a required signal fails the whole run (`matching_worker.py:441`). Two threads that first meet a text
  both look for its row and both insert; the slower fails on the unique index. Old vectors are not deleted.
- The bands are 0.7 and 0.5 in the code and 0.78 and 0.58 in the documents; the publisher weights and the word-count penalty of the
  documents are not there.
- `build_penalties` looks for words of two characters of a fixed alphabet: a genre without one, in Cyrillic or of one letter,
  counts for nothing there and is a mismatch in `compare_values`. `TextAssumption` leaves such texts out.

Accounts:

- Nothing under `src` inserts reviews of profiles, so `pending-profiles` lists profiles whose decision answers
  404. Test-mode decisions do not look whether a review is pending, and a "restored" one ends as rejected.
- Completing details again makes a blocked or quarantined profile eligible without staff, against
  `docs/architecture/auth-security-rls.md:84-92`, and changes an approved publisher without a new review (step 10 plan, line 104). Staff cannot
  take it back: a profile that was decided, or has its details, is not "needs_review", so no review of it can be
  decided. The model has the step; `ProfileFollowsLog` allows it and nothing else that a decision does not explain. Marking a notification read again overwrites `read_at` in the database and not in test mode.
- Becoming an administrator and creating a profile are each guarded by a trigger that looks at the other table; two transactions at
  once pass both. `listing` without a status shows a review that is decided between two of its queries twice.

In memory:

- Creates that overlap all count the usage before any of them charges it, and a completion adds up the storage before it waits for the
  file: a quota is exceeded by what overlaps (`OverrunIsBounded`, `StorageOverrunIsBounded`). A create that is refused for its quota has
  stored its request and its notice (`introTestLifecycle.ts`).
- A month is `setUTCMonth(+1)` (`dbMappers.ts:99-103`, `paytrWebhookService.ts:245-253`), which runs over the end of a short month. A
  trial begun on 31 January ends on 3 March; a month paid on 1 February renews another subscription until 1 March, and
  `readModels.ts:179-184` takes the one that ends last: the payment has no effect until the trial is over, when the paid month is over as
  well. `PaymentTakesEffect` excepts just this (`Overtakes`).
- The local runner keeps the index of its job over the await (`documentProcessingTestRunner.ts:46, 84-110`), while a completion puts a new job in
  front (`ingestionJobs.ts:92`): it closes the job of another document. That document is then never processed, as its
  job is not queued any more, and the job that was processed says "running" for ever.
- The quota of a request is that of the first live subscription of the array (`getTestIntroQuota`), the billing page shows the one that ends last.
  Two trial calls that overlap both append a subscription.
- An author without a profile has no storage quota. The stat of a completion may find a file that is still being written, and a PUT that
  found the upload pending writes after the completion (`api.md:120`).
- A decision does not look whether its review is pending, so decisions can be repeated, and "restored" leaves the
  document blocked. An administrator's list shows a decided profile that its own page does not know of.
- Of several accepted requests of two profiles only the first found is looked at: when its manuscript is no longer eligible, the
  contact stays hidden although another request unlocks it (`acceptedIntroService.ts:34` against `database.md:779`).

Web:

- A disabled react-query query is pending for ever, so an administrator who opens `/login` or `/check-email`, somebody signed out at
  `/app/manuscripts`, and a session without need of MFA at `/admin/mfa` see a blank page (`AuthGuard.tsx:149` against its comment at
  129, `AuthGuard.tsx:59` before the redirect of 63). An administrator at `/app/manuscripts` does, too. The tests mock `isPending: false`. `EntryLands` excepts
  exactly these tabs (`StaysBlank`).
- An administrator whose access answer could not be fetched again has the membership of the earlier answer and no access
  (`adminSurface.ts:22`): the wizard redirects to the staff login, its effect goes to the admin pages, their guard to the dashboard and that to the
  wizard, round and round until the earlier answer expires after a minute. `EntryLands` excepts it (`GoesRound`); it takes three events, one more
  than the run allows, and was found in a larger one.
- A failed or another session's access answer lets a staff identity see the wizard (`adminSurface.ts:22` against
  `auth-security-rls.md:33`); `WizardHidesStaff` holds for an access answer of the session itself. The draft in `localStorage` is not keyed by
  user, and the cache is not cleared at sign-out.
- The list `LeftBehind` of `WebQueries`: a mutation and a query it makes stale that its handler does not invalidate, so that a page
  at rest shows the state before the user's own change. Among them "run again" on the history page, which shows the latest runs first
  (`frontend.md:207`) but is not refreshed; an access request after which the author page still offers the button; intro actions beside the
  result of a match, which is mutation data and never fetched again; the list of manuscripts after an upload; the admin drawer after a
  decision on the same review. The last two pairs of the list need one event more than the run allows.
- `useUpdateManuscript` writes its answer into the cache and does not cancel a refetch: an older answer takes the change back, and
  its own answer takes back a sample that was uploaded between its two ends. `OwnChangesStayShown` leaves out this query.
- A change that is acknowledged after its page was left is taken back by an older answer that is still on its way: what is written
  into the cache does not cancel it, and what is invalidated is only asked for again when it is mounted (a trial that is
  acknowledged after the billing page). `useStartTrial` writes a whole usage record, so it also takes back what another change of the user's
  own did to it meanwhile. `OwnChangesStayShown` is about the changes that a page offers itself.
- An invalidation waits for a first load that is under way instead of repeating it (`behind` in the model).
- `RequestsPage` shows publishers the buttons that only authors may use.

## 7. Not modelled

Row-level security and request validation; the text of explanations and embeddings; bytes and
signed URLs; the email of the test mode and its scoring (`matching/scoring.ts`);
the public directory, the health tables and dashboards beyond what the web app asks of them; forms and wording of the web app;
seeds, scripts and deployment; `eligibility/service.ts`, `tracerCandidates.ts` and the API's `signalSources.ts`, which nothing calls.
The database is taken to do what Postgres does under READ COMMITTED: a statement is
atomic and sees what was committed before it began, a locked row makes writers wait, and a unique index
refuses the second row. react-query is version 5 with the options of `main.tsx`.
