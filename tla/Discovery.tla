------------------------------ MODULE Discovery ------------------------------
(***************************************************************************)
(* Matching and manuscript access over the same grants, and what they are   *)
(* for: the evidence of a pair, on which an intro request rests, and the    *)
(* pages that each side sees.                                               *)
(***************************************************************************)
EXTENDS MatchRuns, ManuscriptAccess

vars == <<storeVars, matchVars, accessVars>>

TypeOK == StoreTypeOK /\ MatchTypeOK /\ AccessTypeOK

Init == StoreInit /\ MatchInit /\ AccessInit

-----------------------------------------------------------------------------

MatchEvidence(p, m) ==
    \E c \in Calls :
        /\ runs[c].status = "succeeded"
        /\ \/ runs[c].source = m /\ p \in candidates[c]
           \/ runs[c].source = p /\ m \in candidates[c]

\* hasDbPairEvidence.
PairEvidence(p, m) == MatchEvidence(p, m) \/ AccessOf(p, m, "approved") # {}

\* An intro request needs evidence and an eligible pair; that it is accepted at
\* once, and not later, leaves out no state of the tables here.
AcceptIntro(p, m) ==
    /\ PairEvidence(p, m)
    /\ PairEligible(p, m)
    /\ intros' = intros \cup {<<p, m>>}
    /\ UNCHANGED <<mode, eligible, grants>>
    /\ UNCHANGED matchVars
    /\ UNCHANGED accessVars

Next ==
    \/ MatchNext /\ UNCHANGED accessVars
    \/ AccessNext /\ UNCHANGED matchVars
    \/ \E p \in Publishers, m \in Manuscripts : AcceptIntro(p, m)
    \/ \E x \in Moderated : Moderate(x) /\ UNCHANGED matchVars /\ UNCHANGED accessVars

Spec == Init /\ [][Next]_vars

\* The API and the threads of the AI service go on.
FairSpec ==
    /\ Spec
    /\ \A c \in Calls : /\ WF_vars(ApiStep(c) /\ UNCHANGED accessVars)
                        /\ WF_vars(WorkerStep(c) /\ UNCHANGED accessVars)

-----------------------------------------------------------------------------
\* Properties

\* A publisher sees a manuscript only when it was a candidate of one of its runs,
\* its author approved that, or an intro request for it was accepted, whatever
\* decisions and runs came later (canViewDbManuscript, canViewManuscript).
AccessIsEarned ==
    \A p \in Publishers, m \in Manuscripts :
        PageShows(p, m) \/ AuthorPage(p, m) = "full" =>
            \/ \E c \in Calls : runs[c].source = p /\ m \in candidates[c]
            \/ <<p, m>> \in consents
            \/ <<p, m>> \in intros
=============================================================================
