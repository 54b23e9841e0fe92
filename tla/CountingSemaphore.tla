--------------------------- MODULE CountingSemaphore ---------------------------
(***************************************************************************)
(* What a semaphore promises, in the words of the repository's README: an  *)
(* integer that is never allowed to fall below zero, one operation that    *)
(* increments it and one that decrements it, which has to wait while the   *)
(* value is zero.  The library caps the value at SEM_VALUE_MAX.            *)
(*                                                                         *)
(* owners is the set of threads that decremented the semaphore and have    *)
(* not incremented it again; a signaller may increment without owning.     *)
(***************************************************************************)
EXTENDS Integers

CONSTANTS Threads,        \* the threads that share the semaphore
          Signallers,     \* threads that post without having waited
          InitialValue,   \* the value the semaphore is created with
          SEM_VALUE_MAX   \* the greatest value it may take

VARIABLES value, owners

vars == <<value, owners>>

Init ==
    /\ value = InitialValue
    /\ owners = {}

Acquire(t) ==
    /\ t \notin owners
    /\ value > 0
    /\ value' = value - 1
    /\ owners' = owners \cup {t}

Release(t) ==
    /\ t \in owners \/ t \in Signallers
    /\ value < SEM_VALUE_MAX
    /\ value' = value + 1
    /\ owners' = owners \ {t}

Next == \E t \in Threads : Acquire(t) \/ Release(t)

Spec == Init /\ [][Next]_vars

================================================================================
