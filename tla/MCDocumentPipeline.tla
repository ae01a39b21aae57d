------------------------- MODULE MCDocumentPipeline -------------------------
(* Small instances of DocumentPipeline.                                     *)
EXTENDS DocumentPipeline, TLC

CONSTANTS d1, d2, m1

\* d1 and d2 are two uploads for one manuscript: d2 replaces d1 or d1 replaces d2.
MCManuscriptOf == [d \in Documents |-> m1]

\* d1 is clean; the scanner stops d2.
MCScanVerdict == [d \in Documents |-> IF d = d1 THEN "clean" ELSE "quarantined"]

\* Threads of the AI service are interchangeable, and so are runs of the script.
MCSymmetry == Permutations(Workers) \cup Permutations(Runners)
=============================================================================
