---------------------------- MODULE SemLifecycleMC ----------------------------
(* Small instances of SemLifecycle for TLC.                                *)
EXTENDS SemLifecycle, TLC

CONSTANTS a, b,         \* threads
          b1, b2, b3,   \* blocks of the heap
          h1, h2, h3,   \* handle values
          n1, n2        \* names

MCThreads == {a, b}
MCBlocks == {b1, b2, b3}
MCHandles == {h1, h2, h3}
MCNames == {n1, n2}

\* Every combination of O_CREAT and O_EXCL (semaphore.cpp passes O_EXCL alone).
MCAllFlags == [creat : BOOLEAN, excl : BOOLEAN]

Symmetry == Permutations(MCThreads) \cup Permutations(MCBlocks)
            \cup Permutations(MCHandles)
===============================================================================
