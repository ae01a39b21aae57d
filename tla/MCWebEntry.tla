------------------------------ MODULE MCWebEntry ------------------------------
EXTENDS WebEntry

CONSTANTS member, staff

MCMembership == [u \in Users |-> IF u = staff THEN "active" ELSE "none"]

\* An administrator comes back with a session that has passed MFA; other sessions are begun.
MCKept == {[user |-> staff, aal |-> 2]}
===============================================================================
