----------------------------- MODULE ThreadPoolMC -----------------------------
(* Small instances of ThreadPool for TLC.                                  *)
EXTENDS ThreadPool

CONSTANTS a, b,         \* clients; a owns the pool
          t1, t2        \* tasks

MCPriority == [t \in Task |-> IF t = t2 THEN 1 ELSE 0]

MCAllFlags == {{}, {"pause", "priority"}}
MCPauseOnly == {{"pause"}}
===============================================================================
