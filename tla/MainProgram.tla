----------------------------- MODULE MainProgram ------------------------------
(***************************************************************************)
(* main.c: several processes run the example program at the same time.     *)
(* Each opens "example_semaphore" with O_CREAT | O_EXCL and the value 1,   *)
(* enters its critical section twice, and closes.  The kernel's semaphore  *)
(* lives as long as some process has a handle to it; sem_open has one for  *)
(* a while even when it fails (see SemLifecycle for its steps in detail).  *)
(***************************************************************************)
EXTENDS Integers, FiniteSets

CONSTANT Process

VARIABLES count,    \* the value of the semaphore object, while it exists
          main      \* main[p]: the statement process p is at

mainVars == <<count, main>>

Holds(p) == main[p] \notin {"start", "failed", "ended", "killed"}
Exists == \E p \in Process : Holds(p)
Inside(p) == main[p] \in {"critical1", "critical2"}
Go(p, place) == main' = [main EXCEPT ![p] = place]

MainInit ==
    /\ count = 0
    /\ main = [p \in Process |-> "start"]

\* sem_open: CreateSemaphoreA makes the object or opens the one there is.
OpenCreate(p) ==
    /\ main[p] = "start"
    /\ \/ ~Exists /\ count' = 1 /\ Go(p, "wait1")
       \/ Exists /\ Go(p, "exists") /\ UNCHANGED count

OpenFail_IgnoresExcl(p) ==
    /\ main[p] = "exists"
    /\ Go(p, "wait1")
    /\ UNCHANGED count

\* O_EXCL: the handle is closed, main prints and returns -1.
OpenFail(p) ==
    /\ main[p] = "exists"
    /\ Go(p, "failed")
    /\ UNCHANGED count

Wait(p, i) ==
    /\ main[p] = <<"wait1", "wait2">>[i]
    /\ count > 0
    /\ count' = count - 1
    /\ Go(p, <<"critical1", "critical2">>[i])

Post_OnlyLast(p, i) ==
    /\ main[p] = <<"critical1", "critical2">>[i]
    /\ count' = IF i = 2 THEN count + 1 ELSE count
    /\ Go(p, <<"wait2", "unlink">>[i])

\* The end of a critical block; SEM_VALUE_MAX is not reached.
Post(p, i) ==
    /\ main[p] = <<"critical1", "critical2">>[i]
    /\ count' = count + 1
    /\ Go(p, <<"wait2", "unlink">>[i])

\* sem_unlink changes nothing; then sem_close closes the handle.
Unlink(p) ==
    /\ main[p] = "unlink"
    /\ Go(p, "close")
    /\ UNCHANGED count

Close(p) ==
    /\ main[p] = "close"
    /\ Go(p, "ended")
    /\ UNCHANGED count

\* A process that is killed loses its handle; no unit it took is given back.
Kill(p) ==
    /\ Holds(p)
    /\ Go(p, "killed")
    /\ UNCHANGED count

MainStep(p) ==
    \/ OpenCreate(p) \/ OpenFail(p) \/ Unlink(p) \/ Close(p)
    \/ \E i \in 1..2 : Wait(p, i) \/ Post(p, i)

MainNext == \E p \in Process : MainStep(p) \/ Kill(p)

-------------------------------------------------------------------------------
(* Correctness properties.                                                 *)

\* The program has the semaphore for itself: only one process is past its
\* sem_open, so it never waits for a unit, not even after another process
\* was killed inside a critical block and kept the unit; and the processes do
\* not all turn each other away (main's return values after sem_open).
Owns(p) == Holds(p) /\ main[p] # "exists"
MainAlone ==
    /\ \A p \in Process : Owns(p) =>
          /\ \A q \in Process : Owns(q) => q = p
          /\ count = IF Inside(p) THEN 0 ELSE 1
    /\ \E p \in Process : main[p] # "failed"

\* Every process that was started ends: sem_wait never blocks one for ever.
MainEnds ==
    \A p \in Process : <>[](main[p] \in {"failed", "ended", "killed"})
===============================================================================
