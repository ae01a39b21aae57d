----------------------------- MODULE Notifications -----------------------------
(***************************************************************************)
(* The notifications of users, and the feed that pages through them from    *)
(* the newest with a cursor, while new ones come and others are read.  A    *)
(* place stands for the pair created_at, id: created_at is the time at      *)
(* which a transaction began, so that one may appear below others.          *)
(***************************************************************************)
EXTENDS Naturals, FiniteSets, Sequences

CONSTANTS Places,   \* bound: 1 .. the notifications that are ever created
          PageSize, \* query.limit
          Readers   \* bound: users whose feeds are read


VARIABLES notices, \* `notifications`, by place
          read,    \* those with a read_at
          feeds    \* a user's pages: filter, cursor, what was shown, what was there at first

noticeVars == <<notices, read, feeds>>

NoNotice == [user |-> "none"]

ASSUME NoticeAssumption ==
    /\ IsFiniteSet(Places) /\ Places = 1..Cardinality(Places)
    /\ PageSize \in Nat \ {0}
    /\ NoNotice.user \notin Readers

NoFeed == [filter |-> "closed", cursor |-> 0, shown |-> <<>>, due |-> {}]

Top == 1 + Cardinality(Places)

NoticeTypeOK ==
    /\ DOMAIN notices = Places
    /\ read \subseteq Places
    /\ feeds \in [Readers -> [filter : {"closed", "all", "unread", "ended"}, cursor : Nat,
                              shown : Seq(Places), due : SUBSET Places]]

NoticeInit ==
    /\ notices = [n \in Places |-> NoNotice]
    /\ read = {}
    /\ feeds = [u \in Readers |-> NoFeed]

\* What an insert leaves of the table.
WithNotice(n, notice) == [notices EXCEPT ![n] = notice]

Free == {n \in Places : notices[n] = NoNotice}

Of(u) == {n \in Places : notices[n].user = u}

-----------------------------------------------------------------------------

MarkRead(u, n) ==
    /\ n \in Of(u)
    /\ read' = read \cup {n}
    /\ UNCHANGED <<notices, feeds>>

MarkAllRead(u) ==
    /\ read' = read \cup Of(u)
    /\ UNCHANGED <<notices, feeds>>

Matching(u, filter) == IF filter = "unread" THEN Of(u) \ read ELSE Of(u)

OpenFeed(u, filter) ==
    /\ feeds[u] = NoFeed
    /\ feeds' = [feeds EXCEPT ![u] = [filter |-> filter, cursor |-> Top, shown |-> <<>>,
                                      due |-> Matching(u, filter)]]
    /\ UNCHANGED <<notices, read>>

\* From the newest.
Descending(set) == CHOOSE s \in [1..Cardinality(set) -> set] :
                       \A i, j \in 1..Cardinality(set) : i < j => s[i] > s[j]

UpTo(s, n) == IF Len(s) > n THEN SubSeq(s, 1, n) ELSE s

Below(u) == {n \in Matching(u, feeds[u].filter) : n < feeds[u].cursor}

\* Mutant: the query asks for a page and no row more.
ExactRows(u) == UpTo(Descending(Below(u)), PageSize)

\* One row more than a page tells whether there is another page.
Rows(u) == UpTo(Descending(Below(u)), PageSize + 1)

\* listNotifications: there is no cursor after the last page.
NextPage(u) ==
    LET rows == Rows(u)
        page == UpTo(rows, PageSize) IN
    /\ feeds[u].filter \in {"all", "unread"}
    /\ feeds' = [feeds EXCEPT ![u].shown = @ \o page,
                              ![u].cursor = IF Len(rows) > PageSize THEN page[PageSize] ELSE 0,
                              ![u].filter = IF Len(rows) > PageSize THEN @ ELSE "ended"]
    /\ UNCHANGED <<notices, read>>

CloseFeed(u) ==
    /\ feeds[u].filter = "ended"
    /\ feeds' = [feeds EXCEPT ![u] = NoFeed]
    /\ UNCHANGED <<notices, read>>

NoticeNext ==
    \E u \in Readers :
        \/ \E n \in Places : MarkRead(u, n)
        \/ MarkAllRead(u)
        \/ \E filter \in {"all", "unread"} : OpenFeed(u, filter)
        \/ NextPage(u) \/ CloseFeed(u)

-----------------------------------------------------------------------------
\* Properties

\* Who follows the cursor to the end has seen every notification that was there at
\* first, unless it was read meanwhile, and none twice, whatever was inserted above
\* or below the cursor (listSupabaseNotifications).
FeedIsComplete ==
    \A u \in Readers :
        LET feed == feeds[u]
            shown == {feed.shown[i] : i \in DOMAIN feed.shown} IN
        /\ Cardinality(shown) = Len(feed.shown)
        /\ feed.filter = "ended" => feed.due \subseteq shown \cup read

-----------------------------------------------------------------------------
\* What the property rests on: what was shown falls to the cursor, and what was there
\* at first is below the cursor, shown or read.
FeedInOrder(u) ==
    LET feed == feeds[u] IN
    /\ \A i, j \in DOMAIN feed.shown : i < j => feed.shown[i] > feed.shown[j]
    /\ \A i \in DOMAIN feed.shown : feed.shown[i] >= feed.cursor
    /\ feed.due \subseteq Of(u)
    /\ \A n \in feed.due : \/ n < feed.cursor
                           \/ n \in read
                           \/ \E i \in DOMAIN feed.shown : feed.shown[i] = n
    /\ feed.filter = "ended" => feed.cursor = 0

FeedInvariant == \A u \in Readers : FeedInOrder(u)
=============================================================================
