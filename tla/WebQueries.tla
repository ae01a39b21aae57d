------------------------------ MODULE WebQueries ------------------------------
(***************************************************************************)
(* One tab of the web app, signed in: the pages of WebSurfaces, the        *)
(* react-query cache between them and the server, and the mutations the    *)
(* pages send.  The server's state is a version number per fact; an answer *)
(* is a snapshot of the versions it is made of, taken when it was asked    *)
(* for, and it arrives in a later step or fails.                           *)
(*                                                                         *)
(* No query has a staleTime: it is asked for at every mount, when it       *)
(* becomes enabled, when the window gets the focus and when it is          *)
(* invalidated.  Only the last cancels an answer that is already on its    *)
(* way, and only when the entry has data; in all other cases the answer on *)
(* its way is waited for.                                                  *)
(***************************************************************************)
EXTENDS WebSurfaces

CONSTANTS
    Visited,        \* role -> pages at which the tab may be at rest or be taken to
    Calls,          \* slots of mutations under way
    MaxEvents       \* bound on what the user, the others and the network do unasked, together

VARIABLES
    who, page,      \* the role of the user, the page the tab shows
    version,        \* fact -> how often it has changed
    cache,          \* query -> entry of the cache
    call,           \* slot -> mutation under way
    own,            \* mutation -> version of its fact at its last acknowledged success
    recent,         \* mutations acknowledged since the page was opened
    events          \* how many events there have been

acked == <<own, recent>>
server == <<version, acked>>
vars == <<who, page, version, cache, call, own, recent, events>>

ASSUME QueriesAssumption ==
    /\ Calls \subseteq Nat
    /\ \A r \in Roles : Visited[r] \subseteq DOMAIN Routes[r]
    /\ MaxEvents \in Nat

-------------------------------------------------------------------------------
(* Entries.  `behind` is not the code's: the answer on its way, or the     *)
(* data when none is, is older than an acknowledged change of the user's   *)
(* own: it was on its way and could not be cancelled, or it came with a    *)
(* mutation that was done before that change and answered after it.        *)

NoData == <<>>
EmptyEntry == [data |-> NoData, error |-> FALSE, answer |-> NoData, behind |-> FALSE]

HasData(e) == e.data # NoData
InFlight(e) == e.answer # NoData

Page == Routes[who][page]
PageReads == [r \in Roles |-> [p \in DOMAIN Routes[r] |-> DOMAIN Routes[r][p].reads]]
Reads(p) == PageReads[who][p]
OnPage == Reads(page)

\* The key of the document query is the sample that the manuscript's data shows.
SampleShown(c) == IF "manuscript" \in DOMAIN c /\ HasData(c["manuscript"]) THEN c["manuscript"].data["sample"] ELSE 0

Snapshot(facts) == [f \in facts |-> version[f]]

\* The document of a sample that was replaced keeps its own outcome.
DocumentAnswer(k) ==
    [sample |-> k, processing |-> IF version["processing"] < k THEN version["processing"] ELSE k]

AnswerTo(q, c) ==
    IF q = "document" THEN DocumentAnswer(SampleShown(c)) ELSE Snapshot(Shows[q])

EnabledOn(p, q, c) ==
    /\ q \in Reads(p) /\ q # "result"
    /\ \A n \in Routes[who][p].reads[q] : HasData(c[n])
    /\ q = "document" => SampleShown(c) > 0

\* Ask for the queries of qs; cancel tells what to do with answers on their way.
Asked(c, qs, cancel) ==
    [q \in DOMAIN c |->
        IF q \in qs /\ (~InFlight(c[q]) \/ (cancel /\ HasData(c[q])))
        THEN [c[q] EXCEPT !.answer = AnswerTo(q, c), !.behind = FALSE]
        ELSE c[q]]

\* A new key of the document query: its entry is another one, empty.
Rekeyed(c, d) ==
    IF SampleShown(c) = SampleShown(d) THEN d ELSE [d EXCEPT !["document"] = EmptyEntry]

\* Components render the change from c to d: what becomes enabled is asked for.
Rendered(c, d) ==
    LET e == Rekeyed(c, d) IN
    Asked(e, {q \in OnPage : EnabledOn(page, q, e)
                             /\ (~EnabledOn(page, q, c) \/ (q = "document" /\ e # d))}, FALSE)

\* Page p mounts: its components ask for everything, whatever the cache has.
Mounted(p, c) ==
    LET d == [q \in DOMAIN c |-> IF q \in DOMAIN MutationData THEN EmptyEntry ELSE c[q]] IN
    Asked(d, {q \in Reads(p) : EnabledOn(p, q, d)}, FALSE)

\* A page whose queries have all been answered.
Loaded(p) ==
    [q \in UNION {Reads(o) : o \in DOMAIN Routes[who]} |->
        IF q \notin Reads(p) \ DOMAIN MutationData \/ (q = "document" /\ version["sample"] = 0)
        THEN EmptyEntry
        ELSE [EmptyEntry EXCEPT !.data = IF q = "document" THEN DocumentAnswer(version["sample"])
                                         ELSE Snapshot(Shows[q])]]

-------------------------------------------------------------------------------
(* Mutations under way.                                                    *)

NoCall == [mutation |-> "none", step |-> "idle", here |-> FALSE, reply |-> NoData, awaits |-> {}]

Changes(m) == Mutations[m].changes
Replies(m) == {Changes(m)} \cup UNION {Shows[q] : q \in Mutations[m].writes}

\* The first manuscript that is created is the one that is followed.
Offered(m) ==
    /\ m \in DOMAIN Page.offers
    /\ \A q \in Page.offers[m] : HasData(cache[q]) /\ ~cache[q].error
    /\ m = "createManuscript" =>
           version["manuscript"] = 0 /\ \A k \in Calls : call[k].mutation # m
    /\ m = "uploadSample" /\ SampleShown(cache) > 0 =>
           HasData(cache["document"]) /\ ~cache["document"].error

\* Buttons that are not disabled while their mutation is pending, or exist once per item.
PerItem == {"createIntro", "transitionIntro", "openNotice", "markRead"}

Busy(m) == \E k \in Calls : call[k].mutation = m /\ call[k].here

Leave == [k \in Calls |-> [call[k] EXCEPT !.here = FALSE]]

\* The pages there are for this user.
There == {p \in DOMAIN Routes[who] \ DOMAIN OpensOn :
             p = "manuscriptDetail" => version["manuscript"] > 0}

Open(p) == /\ page' = p
           /\ cache' = Mounted(p, cache)
           /\ call' = Leave
           /\ recent' = {}

Init ==
    /\ who \in Roles
    /\ page \in Visited[who]
    /\ \E made, sample, settled \in {0, 1} :
           /\ settled <= sample /\ sample <= made
           /\ who # "author" => made = 0
           /\ page = "manuscriptDetail" => made = 1
           /\ version = [f \in Facts |-> CASE f = "manuscript" -> made
                                            [] f = "sample" -> sample
                                            [] f = "processing" -> settled
                                            [] OTHER -> 0]
    /\ cache = Loaded(page)
    /\ call = [k \in Calls |-> NoCall]
    /\ own = [m \in DOMAIN Mutations |-> 0]
    /\ recent = {}
    /\ events = 0

\* What the bound counts: moves of the user, requests, changes by others, and failures.
Happens == events < MaxEvents /\ events' = events + 1

-------------------------------------------------------------------------------
(* The user.                                                               *)

Navigate(p) ==
    /\ Happens
    /\ p \in (Visited[who] \cap There) \ {page}
    /\ Open(p)
    /\ UNCHANGED <<who, version, own>>

\* A drawer, or a selected row, adds queries to a page that stays mounted.
OpenDetail(p) ==
    /\ Happens
    /\ p \in DOMAIN OpensOn /\ who = "admin" /\ page = OpensOn[p]
    /\ \A q \in OnPage : HasData(cache[q])
    /\ page' = p
    /\ cache' = Asked(cache, {q \in Reads(p) \ OnPage : EnabledOn(p, q, cache)}, FALSE)
    /\ recent' = {}
    /\ UNCHANGED <<who, version, own, call>>

CloseDrawer ==
    /\ Happens
    /\ page = "adminReview" /\ page' = "admin"
    /\ UNCHANGED <<who, server, cache, call>>

\* The window gets the focus: what is enabled is asked for again.
Focus ==
    /\ Happens
    /\ cache' = Asked(cache, {q \in OnPage : EnabledOn(page, q, cache)}, FALSE)
    /\ UNCHANGED <<who, page, server, call>>

Submit(k, m) ==
    /\ Happens
    /\ call[k] = NoCall /\ \A j \in Calls : j < k => call[j] # NoCall
    /\ Offered(m)
    /\ m \in PerItem \/ ~Busy(m)
    /\ call' = [call EXCEPT ![k] = [NoCall EXCEPT !.mutation = m, !.step = "sent", !.here = TRUE]]
    /\ UNCHANGED <<who, page, server, cache>>

-------------------------------------------------------------------------------
(* The server, the worker and everybody else.                              *)

Bumped(f) == [version EXCEPT ![f] = @ + 1]

Apply(k) ==
    LET m == call[k].mutation IN
    /\ call[k].step = "sent"
    /\ version' = Bumped(Changes(m))
    /\ call' = [call EXCEPT ![k].step = "applied",
                            ![k].reply = [f \in Replies(m) |-> version'[f]]]
    /\ UNCHANGED <<who, page, acked, cache, events>>

WorkerSettles ==
    /\ version["processing"] < version["sample"]
    /\ version' = [version EXCEPT !["processing"] = version["sample"]]
    /\ UNCHANGED <<who, page, acked, cache, call, events>>

\* Another tab, the other member or the staff change something the page shows.
Elsewhere(f) ==
    /\ Happens
    /\ f \in UNION {Shows[q] : q \in OnPage} \ {"processing"}
    /\ f \in {"manuscript", "sample"} => version["manuscript"] > 0
    /\ version' = Bumped(f)
    /\ UNCHANGED <<who, page, acked, cache, call>>

-------------------------------------------------------------------------------
(* Answers.                                                                *)

\* Mutant: invalidation waits for the answer on its way.
JoinedInvalidate(c, qs) == Asked(c, {q \in qs \cap OnPage : EnabledOn(page, q, c)}, FALSE)

Invalidate(c, qs) == Asked(c, {q \in qs \cap OnPage : EnabledOn(page, q, c)}, TRUE)

\* Is the answer a to the query q older than a change that is acknowledged by now?
IsBehind(q, a, o) == \E m \in DOMAIN o : Changes(m) \in Shows[q] /\ a[Changes(m)] < o[m]

Written(c, m, reply) ==
    [q \in DOMAIN c |->
        IF q \notin Mutations[m].writes THEN c[q]
        ELSE LET a == [f \in Shows[q] |-> reply[f]] IN
             [c[q] EXCEPT !.data = a, !.error = FALSE, !.behind = IsBehind(q, a, own)]]

Marked(c, o) ==
    [q \in DOMAIN c |->
        IF InFlight(c[q]) THEN [c[q] EXCEPT !.behind = IsBehind(q, c[q].answer, o)] ELSE c[q]]

\* The calls that wait for the queries of qs wait for them no more.
Released(cs, qs) ==
    [k \in Calls |->
        IF cs[k].step # "refreshing" \/ cs[k].awaits \cap qs = {} THEN cs[k]
        ELSE IF cs[k].awaits \subseteq qs THEN NoCall
        ELSE [cs[k] EXCEPT !.awaits = @ \ qs]]

\* What an acknowledged mutation m, with this reply, leaves in the cache.
Acknowledged(m, reply, here) ==
    LET w == IF here \/ DOMAIN MutationData \cap Mutations[m].writes = {}
             THEN Written(cache, m, reply) ELSE cache
    IN Rendered(cache, Invalidate(w, Mutations[m].invalidates))

Ack(k) ==
    LET m == call[k].mutation
        at == call[k].reply[Changes(m)]
        c == Acknowledged(m, call[k].reply, call[k].here)
        asked == {q \in OnPage \cap Mutations[m].invalidates : InFlight(c[q])}
        rest == [call EXCEPT ![k] = IF m \in Awaiting /\ asked # {}
                                    THEN [@ EXCEPT !.step = "refreshing", !.awaits = asked]
                                    ELSE NoCall]
        cancelled == {q \in asked : InFlight(cache[q]) /\ HasData(cache[q])}
    IN /\ call[k].step = "applied"
       /\ own' = [own EXCEPT ![m] = IF @ < at THEN at ELSE @]
       /\ \/ /\ Mutations[m].goes = {}
             /\ page' = IF m = "decideOnDashboard" /\ call[k].here /\ page = "adminReview"
                        THEN "admin" ELSE page
             /\ cache' = Marked(c, own')
             /\ call' = [Released(call, cancelled) EXCEPT ![k] = rest[k]]
          \/ /\ page \in Mutations[m].goes
             /\ page' = page
             /\ cache' = Marked(c, own')
             /\ call' = rest
          \/ \E p \in (Mutations[m].goes \cap There) \ {page} :
             /\ page' = p
             /\ cache' = Mounted(p, Marked(c, own'))
             /\ call' = [j \in Calls |-> [rest[j] EXCEPT !.here = FALSE]]
       /\ recent' = IF page' = page THEN recent \cup {m} ELSE {}
    /\ UNCHANGED <<who, version, events>>

\* The request is refused, or its answer is lost after the server has done it.
LoseAnswer(k) ==
    /\ Happens
    /\ call[k].step \in {"sent", "applied"}
    /\ call' = [call EXCEPT ![k] = NoCall]
    /\ UNCHANGED <<who, page, server, cache>>

Deliver(q) ==
    /\ q \in DOMAIN cache
    /\ InFlight(cache[q])
    /\ cache' = Rendered(cache, [cache EXCEPT
                    ![q] = [@ EXCEPT !.data = cache[q].answer, !.error = FALSE, !.answer = NoData]])
    /\ call' = Released(call, {q})
    /\ UNCHANGED <<who, page, server, events>>

DeliverError(q) ==
    /\ Happens
    /\ q \in DOMAIN cache
    /\ InFlight(cache[q])
    /\ cache' = [cache EXCEPT ![q] = [@ EXCEPT !.error = TRUE, !.answer = NoData]]
    /\ call' = Released(call, {q})
    /\ UNCHANGED <<who, page, server>>

-------------------------------------------------------------------------------
(* refetchInterval: the bell always, the document while it is unsettled.   *)
(* What a poll of the bell can do is what a focus event can do to it.      *)

Unsettled(e) == HasData(e) /\ e.data["processing"] < e.data["sample"]

\* Mutant: the interval is looked at before the answer is there.
PolledBefore(e) == ~HasData(e)

Polled(e) == Unsettled(e)

Poll(q) ==
    /\ EnabledOn(page, q, cache) /\ ~InFlight(cache[q])
    /\ cache' = Asked(cache, {q}, FALSE)
    /\ UNCHANGED <<who, page, server, call>>

PollDocument ==
    /\ "document" \in OnPage /\ Polled(cache["document"])
    /\ Poll("document")
    /\ UNCHANGED events

PollBell ==
    /\ Happens
    /\ Poll("bell")

Next ==
    \/ \E p \in DOMAIN Routes[who] : Navigate(p) \/ OpenDetail(p)
    \/ CloseDrawer \/ Focus \/ PollBell \/ PollDocument \/ WorkerSettles
    \/ \E k \in Calls : Apply(k) \/ Ack(k) \/ LoseAnswer(k)
    \/ \E k \in Calls, m \in DOMAIN Mutations : Submit(k, m)
    \/ \E f \in Facts : Elsewhere(f)
    \/ \E q \in Queries : Deliver(q) \/ DeliverError(q)

\* The timer of the document runs, and what is asked for the document is answered.
Spec ==
    /\ Init /\ [][Next]_vars
    /\ WF_vars(PollDocument)
    /\ WF_vars(Deliver("document"))

-------------------------------------------------------------------------------
(* Properties.                                                             *)

AtRest == /\ \A k \in Calls : call[k] = NoCall
          /\ \A q \in OnPage : ~InFlight(cache[q])

\* An answer in error is not shown; the document is that of the sample the manuscript shows.
Shown(q) == q \in OnPage /\ HasData(cache[q]) /\ ~cache[q].error
ShownInTime(q) == /\ Shown(q) /\ ~cache[q].behind
                  /\ q = "document" => Shown("manuscript") /\ ~cache["manuscript"].behind

\* The user's own mutations that have succeeded, and the answers that know of them, or have
\* nothing to do with them.
Acked == {m \in DOMAIN own : own[m] > 0}
UnderWay == {call[k].mutation : k \in Calls}
Knows(e, q, m) == Changes(m) \in Shows[q] => e.data[Changes(m)] >= own[m]

\* What the code leaves as it was after the user's own change, until the page is mounted again.
LeftBehind ==
    {<<"runMatch", "profileHistory">>, <<"requestAccess", "author">>,
     <<"createIntro", "result">>, <<"transitionIntro", "result">>,
     <<"createIntro", "usage">>, <<"transitionIntro", "usage">>,
     <<"uploadSample", "manuscripts">>, <<"uploadSample", "usage">>,
     <<"repair", "auditLogs">>, <<"repair", "dashboard">>,
     <<"decideOnDashboard", "auditLogs">>, <<"decideOnDashboard", "reviewDetail">>,
     <<"decideOnDashboard", "review">>, <<"decideOnReviews", "review">>}

\* When nothing is under way, every answer on the page knows each change of the user's own that
\* the page has acknowledged, but for the listed pairs of a mutation and a query, and for an
\* answer that is behind in the sense above.
OwnChangesAreShown ==
    AtRest => \A m \in Acked, q \in OnPage :
        ShownInTime(q) /\ <<m, q>> \notin LeftBehind => Knows(cache[q], q, m)

\* A change that the user can make on a page, and that the page shows, is never un-shown while
\* the page stays: the answer of a refetch that was asked for before the change never comes back
\* over it.  (Not so for "manuscript", which useUpdateManuscript writes and does not fetch again,
\* and not for a change that was acknowledged on another page, where what is invalidated is not
\* asked for again.)
OwnChangesStayShown ==
    [][page' = page =>
          \A m \in (recent \cap DOMAIN Page.offers) \ UnderWay, q \in OnPage \ {"manuscript"} :
             Shown(q) /\ HasData(cache'[q]) /\ Knows(cache[q], q, m) => Knows(cache'[q], q, m)]_vars

\* A page that stays on a manuscript whose sample it knows, and is not stopped by an error, comes
\* to show that the sample has been processed.
FollowedPage ==
    /\ page = "manuscriptDetail"
    /\ version["sample"] > 0 /\ version["processing"] = version["sample"]
    /\ SampleShown(cache) = version["sample"]
    /\ ~cache["document"].error

SampleIsFollowed ==
    <>[]FollowedPage => <>[](/\ "document" \in DOMAIN cache
                             /\ cache["document"].data = DocumentAnswer(version["sample"]))
===============================================================================
