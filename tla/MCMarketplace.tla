---------------------------- MODULE MCMarketplace ----------------------------
(* Small instances of Marketplace.                                          *)
EXTENDS Marketplace, TLC

\* Sessions, calls, ids of requests and publishers that buy nothing are interchangeable.
MCSymmetry == Permutations(Sessions) \cup Permutations(Creates) \cup Permutations(Requests)
                \cup Permutations(Publishers)
=============================================================================
