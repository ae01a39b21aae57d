---------------------------- MODULE MCMatchSignals ----------------------------
(* Small instances of MatchSignals: the manuscripts are 1 and 2, the publishers *)
(* 11 and 12; run 1 is of manuscript 1, run 2 of publisher 11.               *)
EXTENDS MatchSignals, TLC

MCSourceOf == <<1, 11>>

Manuscript(topics, themes) ==
    [genre |-> {"crime"}, subgenres |-> {"noir"}, audience |-> {"adult"}, form |-> {"novel"},
     topics |-> topics, pitch |-> {"harbour"}, themes |-> themes, arc |-> {"fall"}]

Publisher(genre, topics, wishlist) ==
    [genre |-> genre, audience |-> {"adult"}, form |-> {"novel"}, topics |-> topics,
     guidelines |-> {"harbour"}, looking |-> {"guilt"}, tone |-> {}, wishlist |-> wishlist,
     catalog |-> {}]

\* An edit of publisher 11 ends an exclusion and adds a wishlist, one of manuscript 2
\* takes a required signal away.
MCTextOf ==
    (1  :> [v \in 0..1 |-> Manuscript({"war"}, {"guilt"})]) @@
    (2  :> [v \in 0..1 |-> Manuscript({"war"}, IF v = 0 THEN {"guilt"} ELSE {})]) @@
    (11 :> [v \in 0..1 |-> IF v = 0 THEN Publisher({"crime"}, {"war"}, {})
                                    ELSE Publisher({"crime"}, {}, {"fall"})]) @@
    (12 :> [v \in 0..1 |-> Publisher({"poetry"}, {}, {"fall"})])

MCIndexed ==
    {VectorOf(11, "guidelines", MCTextOf[11][0]), VectorOf(12, "guidelines", MCTextOf[12][0]),
     VectorOf(2, "premise", MCTextOf[2][0])}

MCJitter == [r \in 1..2 |-> [x \in {1, 2, 11, 12} |-> [a \in Axes |-> IF x = 12 THEN 700 ELSE 100]]]

\* There is one edit.  When run 1 has failed, that is the end; run 2 may fail at any time.
MCBound == run[1].pc # "failed" /\ version[2] + version[11] <= 1
=============================================================================
