---------------------------- MODULE MCDiscovery ----------------------------
(* Small instances of Discovery.                                            *)
EXTENDS Discovery, TLC

CONSTANTS a1

\* One author with all the manuscripts.
MCOwnerOf == [m \in Manuscripts |-> a1]

\* Bound: two runs of matching, or one run and what is asked, decided and moderated
\* during and after it.
MCBound ==
    \/ Cardinality({c \in Calls : call[c].pc # "idle"}) <= 1
    \/ /\ \A a \in Asks : ask[a] = NoRequest /\ accessRequests[a] = NoRequest
       /\ Moderated \subseteq eligible
=============================================================================
