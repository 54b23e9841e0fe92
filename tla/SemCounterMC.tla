----------------------------- MODULE SemCounterMC -----------------------------
(* Small instances of SemCounter for TLC.                                  *)
EXTENDS SemCounter, TLC

CONSTANTS a, b, c   \* threads

MCThreads == {a, b, c}
MCOneSignaller == {a}

\* Deadlines: now already past, inside a millisecond, on and across a boundary.
MCDeadlines == {0, 1, 3, 4}
MCNoDeadlines == {}

Symmetry == Permutations(MCThreads)
===============================================================================
