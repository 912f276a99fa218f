------------------------- MODULE MCOperationJournal -------------------------
(* Small instances of the journal: two runs, two calls, loops of up to two  *)
(* iterations, one process or two.                                          *)
EXTENDS OperationJournal, TLC

CONSTANTS p1, p2, r1, r2, c1, c2

OneProcess == {p1}
TwoProcesses == {p1, p2}
MCRuns == {r1, r2}
OneCall == {c1}
TwoCalls == {c1, c2}

\* Only for the runs that check no liveness.
Symmetry1 == Permutations(MCRuns) \cup Permutations(TwoCalls)
Symmetry2 == Permutations(MCRuns) \cup Permutations(TwoProcesses)
=============================================================================
