------------------------------ MODULE MCAccounts ------------------------------
(* A small instance of Accounts.                                            *)
EXTENDS Accounts, TLC

CONSTANTS u1, u2

MCKinds == {<<"high", "system_failures">>, <<"low", "needs_review">>}

MCPlaces == 1..3

MCSymmetry == Permutations(Requests)

\* Bound: an account in the making, feeds being read, and reviews are looked at one at
\* a time; the feeds hold intro requests and the reviews are those of the console.
MCBound ==
    LET making == \E u \in Users : signups[u] # "idle" \/ grants[u] # "idle"
        intros == \E n \in Places \ Free : notices[n].type = "intro_request"
        reading == read # {} \/ \E u \in Readers : feeds[u] # NoFeed IN
    /\ reviews # <<>> => ~making /\ ~intros /\ ~reading
    /\ intros \/ reading => ~making /\ profiles[u1] = NoProfile /\ admins[u1] = "none"
    /\ profiles[u1].role # "publisher"
    /\ Len(reviews) > 1 => profiles[u1] = NoProfile
    /\ listing # NoListing => /\ profiles[u2].role = "author"
                              /\ Cardinality({q \in Requests : desks[q] # NoDesk}) <= 1
    /\ Len(reviews) = 3 => admins[u1] # "revoked" /\ ~profiles[u2].done
=============================================================================
