------------------------------- MODULE TaskPool -------------------------------
(* What BS::thread_pool promises its users, without threads, flags or          *)
(* condition variables: a task waits in the queue, is started once, by order   *)
(* of priority and then of submission, never while the pool is paused, and     *)
(* finishes once; or it is dropped from the queue and never starts.            *)
EXTENDS Naturals, FiniteSets, Sequences, SequencesExt

CONSTANTS Task,         \* the tasks a program submits
          MaxThreads,   \* most threads a pool can have
          Ranks         \* the orders a pool can have: priorities, or <<>> for FIFO

VARIABLES queued,       \* the tasks that wait, in the order of submission
          running,      \* the tasks being executed
          finished,     \* the tasks that have been executed
          dropped,      \* the tasks that were removed from the queue
          suspended,    \* is the pool paused?
          rank          \* the order in which this pool takes tasks

vars == <<queued, running, finished, dropped, suspended, rank>>

Init == /\ rank \in Ranks
        /\ queued = <<>>
        /\ running = {} /\ finished = {} /\ dropped = {}
        /\ suspended = FALSE

Submit(t) == /\ t \notin ToSet(queued) \cup running \cup finished \cup dropped
             /\ queued' = Append(queued, t)
             /\ UNCHANGED <<running, finished, dropped, suspended, rank>>

Start(i) == /\ ~suspended
            /\ Cardinality(running) < MaxThreads
            /\ \/ rank = <<>> /\ i = 1
               \/ rank # <<>> /\ \A j \in DOMAIN queued : rank[queued[j]] <= rank[queued[i]]
            /\ running' = running \cup {queued[i]}
            /\ queued' = RemoveAt(queued, i)
            /\ UNCHANGED <<finished, dropped, suspended, rank>>

Finish(t) == /\ running' = running \ {t}
             /\ finished' = finished \cup {t}
             /\ UNCHANGED <<queued, dropped, suspended, rank>>

Drop == /\ dropped' = dropped \cup ToSet(queued)
        /\ queued' = <<>>
        /\ UNCHANGED <<running, finished, suspended, rank>>

Suspend == /\ suspended' \in BOOLEAN
           /\ UNCHANGED <<queued, running, finished, dropped, rank>>

Next == \/ \E t \in Task : Submit(t)
        \/ \E i \in DOMAIN queued : Start(i)
        \/ \E t \in running : Finish(t)
        \/ Drop
        \/ Suspend

Spec == Init /\ [][Next]_vars
===============================================================================
