---------------------------- MODULE MCWebQueries ----------------------------
EXTENDS WebQueries

\* The pages that send something, and those that another page's change may leave behind.
Followed == [
    author    |-> {"dashboard", "manuscripts", "manuscriptDetail", "matches", "requests",
                   "notifications", "billing"},
    publisher |-> {"authorProfile", "profileHistory", "matchCandidate", "profile"},
    admin     |-> {"admin", "adminReview", "adminReviews", "adminPayments", "adminAuditLogs",
                   "adminIntroRequests"}]
=============================================================================
