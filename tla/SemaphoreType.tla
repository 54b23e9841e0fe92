---------------------------- MODULE SemaphoreType ----------------------------
(***************************************************************************)
(* mutex.c and semaphore_type.c: a semaphore with an owner and two mutexes *)
(* of the library's own kind, mtx for the semaphore and dmtx for its data. *)
(* None of this memory is protected, so a step is one access of it: one    *)
(* test, one store, and the ++ and -- of aquired a load and a store.  The  *)
(* tests of consecutive ifs read the fields again, and a thread that finds *)
(* them changed in between falls through to what follows.                  *)
(*                                                                         *)
(* The function pointers of the two records are taken for the functions of *)
(* those two files, which is what the names in the headers are meant for.  *)
(*                                                                         *)
(* Outside of a call pc is "run"; inside it is a label of the function the *)
(* thread executes, and op is the function the client called.  The labels  *)
(* "true" and "false" stand before the return of op with that answer.      *)
(*                                                                         *)
(* semaphore_initsem opens a semaphore and then calls sem_init on the      *)
(* pointer it got, which stores an address over the handle.  CloseHandle   *)
(* and WaitForSingleObject are given that address afterwards and fail:     *)
(* semaphore_close, semaphore_trywait and semaphore_timedwait answer false *)
(* and change nothing, so they are no actions.                             *)
(***************************************************************************)
EXTENDS Integers

CONSTANTS
    Threads,    \* the threads that share one struct semaphore
    PidOf,      \* the PID each thread passes: its id as an unsigned short
    Opened,     \* whether initsem's two calls succeed, in BOOLEAN
    W           \* aquired is unsigned, modulo W (2^32 in the code)

ASSUME TypeAssumption ==
    /\ PidOf \in [Threads -> Nat]
    /\ Opened \subseteq BOOLEAN
    /\ W \in Nat \ {0, 1}

Mutexes == {"mtx", "dmtx"}

VARIABLES
    locked,     \* the field locked of each mutex
    process_id, \* the field process_id of each mutex
    owner,      \* sm->owner, 0 for nobody
    aquired,    \* sm->aquired
    sem,        \* sm->sem # NULL
    alive,      \* the program has not crashed
    pc, op,     \* where each thread is, and inside which call ("none": outside)
    loaded,     \* the value of aquired its ++ or -- has loaded, else 0
    told        \* <<t, m>>: t was told it locked m, and not that it unlocked it

fields == <<owner, aquired, sem>>
vars == <<locked, process_id, fields, alive, pc, op, loaded, told>>

\* semaphore_type_new.  Its call of initsem reads the mutex pointer and the
\* owner before they are set, and may crash; all it changed is set afterwards.
Init ==
    /\ locked = [m \in Mutexes |-> FALSE]
    /\ process_id = [m \in Mutexes |-> 0]
    /\ owner = 0
    /\ aquired = 0
    /\ sem \in Opened
    /\ alive = TRUE
    /\ pc = [t \in Threads |-> "run"]
    /\ op = [t \in Threads |-> "none"]
    /\ loaded = [t \in Threads |-> 0]
    /\ told = {}

-------------------------------------------------------------------------------
(* The kinds of step.                                                      *)

Move(t, here, there) ==
    /\ alive
    /\ pc[t] = here
    /\ pc' = [pc EXCEPT ![t] = there]

\* One test of memory.
Test(t, here, holds, yes, no) ==
    /\ Move(t, here, IF holds THEN yes ELSE no)
    /\ UNCHANGED <<locked, process_id, fields, alive, op, loaded, told>>

SetOwner(t, here, pid, there) ==
    /\ Move(t, here, there)
    /\ owner' = pid
    /\ UNCHANGED <<locked, process_id, aquired, sem, alive, op, loaded, told>>

LoadAquired(t, here, there) ==
    /\ Move(t, here, there)
    /\ loaded' = [loaded EXCEPT ![t] = aquired]
    /\ UNCHANGED <<locked, process_id, fields, alive, op, told>>

StoreAquired_NoWrap(t, here, delta, there) ==
    /\ Move(t, here, there)
    /\ aquired' = loaded[t] + delta
    /\ loaded' = [loaded EXCEPT ![t] = 0]
    /\ UNCHANGED <<locked, process_id, owner, sem, alive, op, told>>

StoreAquired(t, here, delta, there) ==
    /\ Move(t, here, there)
    /\ aquired' = (loaded[t] + delta) % W
    /\ loaded' = [loaded EXCEPT ![t] = 0]
    /\ UNCHANGED <<locked, process_id, owner, sem, alive, op, told>>

SetMutex(t, here, lck, pid, there) ==
    /\ Move(t, here, there)
    /\ locked' = lck
    /\ process_id' = pid
    /\ UNCHANGED <<fields, alive, op, loaded, told>>

\* A client starts a call, and a call returns.
Calls == {"lock", "unlock", "lockdata", "unlockdata", "aquire", "release"}

Call(t, f) ==
    /\ Move(t, "run", f)
    /\ op' = [op EXCEPT ![t] = f]
    /\ UNCHANGED <<locked, process_id, fields, alive, loaded, told>>

\* The mutex that the thread's call is about.
Mutex(t) == IF op[t] \in {"lockdata", "unlockdata"} THEN "dmtx" ELSE "mtx"

Return(t, answer) ==
    /\ Move(t, IF answer THEN "true" ELSE "false", "run")
    /\ told' = IF answer /\ op[t] \in {"lock", "lockdata"}
               THEN told \cup {<<t, Mutex(t)>>}
               ELSE IF answer /\ op[t] \in {"unlock", "unlockdata"}
                    THEN told \ {<<t, Mutex(t)>>}
                    ELSE told
    /\ op' = [op EXCEPT ![t] = "none"]
    /\ UNCHANGED <<locked, process_id, fields, alive, loaded>>

-------------------------------------------------------------------------------
(* mutex.c                                                                 *)

\* A mutex that is not locked is refused unless its process_id, the PID of its
\* last holder, is both the caller's and 0.
TryLock_Repaired(t) ==
    LET m == Mutex(t) IN
    \/ Test(t, "try_lock", locked[m], "other", "again")
    \/ Test(t, "other", process_id[m] # PidOf[t], "false", "again")
    \/ Test(t, "again", locked[m], "same", "zero")
    \/ Test(t, "same", process_id[m] = PidOf[t], "true", "zero")
    \/ Test(t, "zero", process_id[m] # 0, "false", "take")
    \/ SetMutex(t, "take", [locked EXCEPT ![m] = TRUE], process_id, "sign")
    \/ SetMutex(t, "sign", locked, [process_id EXCEPT ![m] = PidOf[t]], "true")

TryLock(t) ==
    LET m == Mutex(t) IN
    \/ Test(t, "try_lock", locked[m], "other", "again")
    \/ Test(t, "other", process_id[m] # PidOf[t], "false", "again")
    \/ Test(t, "again", locked[m], "same", "unheld")
    \/ Test(t, "same", process_id[m] = PidOf[t], "true", "unheld")
    \/ Test(t, "unheld", process_id[m] # PidOf[t], "false", "zero")
    \/ Test(t, "zero", process_id[m] # 0, "false", "take")
    \/ SetMutex(t, "take", [locked EXCEPT ![m] = TRUE], process_id, "sign")
    \/ SetMutex(t, "sign", locked, [process_id EXCEPT ![m] = PidOf[t]], "true")

TryUnlock_AnyPid(t) ==
    LET m == Mutex(t) IN
    \/ Test(t, "try_unlock", locked[m], "held", "true")
    \/ Test(t, "held", locked[m], "unsign", "false")
    \/ SetMutex(t, "unsign", locked, [process_id EXCEPT ![m] = 0], "untake")
    \/ SetMutex(t, "untake", [locked EXCEPT ![m] = FALSE], process_id, "true")

TryUnlock(t) ==
    LET m == Mutex(t) IN
    \/ Test(t, "try_unlock", locked[m], "held", "true")
    \/ Test(t, "held", locked[m], "holder", "false")
    \/ Test(t, "holder", process_id[m] = PidOf[t], "unsign", "false")
    \/ SetMutex(t, "unsign", locked, [process_id EXCEPT ![m] = 0], "untake")
    \/ SetMutex(t, "untake", [locked EXCEPT ![m] = FALSE], process_id, "true")

-------------------------------------------------------------------------------
(* semaphore_type.c                                                        *)

\* sm->owning_reason points to a string literal, and strcpy into it crashes
\* where literals are write-protected.
CopyReason(t, there) ==
    /\ Move(t, "copy", there)
    /\ alive' \in BOOLEAN
    /\ UNCHANGED <<locked, process_id, fields, op, loaded, told>>

\* A semaphore that is owned and not locked is shared: aquired counts.  A thread
\* whose tests of owner and locked found neither case stores the owner.
Aquire(t) ==
    \/ Test(t, "aquire", owner # 0, "taken", "shared")
    \/ Test(t, "taken", locked["mtx"], "false", "shared")
    \/ Test(t, "shared", owner # 0, "open", "own")
    \/ Test(t, "open", locked["mtx"], "own", "load_shared")
    \/ LoadAquired(t, "load_shared", "inc_shared")
    \/ StoreAquired(t, "inc_shared", 1, "aquired")
    \/ SetOwner(t, "own", PidOf[t], "copy")
    \/ CopyReason(t, "load_own")
    \/ LoadAquired(t, "load_own", "inc_own")
    \/ StoreAquired(t, "inc_own", 1, "initsem")

\* initsem answers the pointer it opened, but puts it in sm->sem only if nobody
\* owns the semaphore; aquire has set its owner.
InitSem(t) ==
    \/ \E success \in Opened :
          Test(t, "initsem", success, "opened", "false")
    \/ Test(t, "opened", locked["mtx"], "aquired", "unowned")
    \/ Test(t, "unowned", owner = 0, "keep", "aquired")
    \/ /\ Move(t, "keep", "aquired")
       /\ sem' = TRUE
       /\ UNCHANGED <<locked, process_id, owner, aquired, alive, op, loaded, told>>

\* aquire was successful: it returns to lock or to the client.
Aquired(t) == Test(t, "aquired", op[t] = "lock", "try_lock", "true")

Release_IgnoresLock(t) ==
    \/ Test(t, "release", owner # PidOf[t], "false", "recheck")
    \/ Test(t, "recheck", owner # PidOf[t], "reopen", "disown")
    \/ Test(t, "reopen", locked["mtx"], "disown", "load_extra")
    \/ LoadAquired(t, "load_extra", "dec_extra")
    \/ StoreAquired(t, "dec_extra", -1, "true")
    \/ SetOwner(t, "disown", 0, "load_release")
    \/ LoadAquired(t, "load_release", "dec_release")
    \/ StoreAquired(t, "dec_release", -1, "left")
    \/ Test(t, "left", aquired = 0, "true", "false")

Release(t) ==
    \/ Test(t, "release", owner # PidOf[t], "false", "unlocked")
    \/ Test(t, "unlocked", locked["mtx"], "false", "recheck")
    \/ Test(t, "recheck", owner # PidOf[t], "reopen", "disown")
    \/ Test(t, "reopen", locked["mtx"], "disown", "load_extra")
    \/ LoadAquired(t, "load_extra", "dec_extra")
    \/ StoreAquired(t, "dec_extra", -1, "true")
    \/ SetOwner(t, "disown", 0, "load_release")
    \/ LoadAquired(t, "load_release", "dec_release")
    \/ StoreAquired(t, "dec_release", -1, "left")
    \/ Test(t, "left", aquired = 0, "true", "false")

Lock(t) ==
    \/ Test(t, "lock", owner = 0, "free", "false")
    \/ Test(t, "free", locked["mtx"], "false", "count")
    \/ Test(t, "count", aquired = 0, "aquire", "try_lock")

Unlock(t) ==
    \/ Test(t, "unlock", owner = PidOf[t], "mine", "false")
    \/ Test(t, "mine", locked["mtx"], "try_unlock", "false")

DataLock(t) ==
    \/ Test(t, "lockdata", process_id["dmtx"] # 0, "false", "try_lock")
    \/ Test(t, "unlockdata", process_id["dmtx"] # PidOf[t], "false", "try_unlock")

-------------------------------------------------------------------------------

Step(t) ==
    \/ \E f \in Calls : Call(t, f)
    \/ \E answer \in BOOLEAN : Return(t, answer)
    \/ TryLock(t) \/ TryUnlock(t)
    \/ Lock(t) \/ Unlock(t) \/ DataLock(t)
    \/ Aquire(t) \/ InitSem(t) \/ Aquired(t) \/ Release(t)

Next == \E t \in Threads : Step(t)

Spec == Init /\ [][Next]_vars

-------------------------------------------------------------------------------
(* Properties                                                              *)

Labels ==
    Calls \cup {"run", "true", "false", "try_lock", "other", "again", "same", "unheld",
        "zero", "take", "sign", "try_unlock", "held", "holder", "unsign", "untake",
        "taken", "shared", "open", "load_shared", "inc_shared", "own", "copy",
        "load_own", "inc_own", "initsem", "opened", "unowned", "keep", "aquired",
        "unlocked", "recheck", "reopen", "load_extra", "dec_extra", "disown",
        "load_release", "dec_release", "left", "free", "count", "mine"}

\* The types of the state; aquired is decremented without a check and wraps.
TypeOK ==
    /\ locked \in [Mutexes -> BOOLEAN]
    /\ process_id \in [Mutexes -> Nat]
    /\ owner \in Nat
    /\ aquired \in 0..W-1
    /\ sem \in BOOLEAN
    /\ alive \in BOOLEAN
    /\ pc \in [Threads -> Labels]
    /\ op \in [Threads -> Calls \cup {"none"}]
    /\ loaded \in [Threads -> 0..W-1]
    /\ told \subseteq Threads \X Mutexes

\* Whatever the threads' calls are interleaved with, none but PID 0, which in
\* the code also means nobody, is ever told that it locked a mutex.
OnlyPidZeroLocks == \A t \in Threads, m \in Mutexes : <<t, m>> \in told => PidOf[t] = 0

\* A thread whose unlock of m is about to answer true.
Unlocking(t, m) == op[t] \in {"unlock", "unlockdata"} /\ Mutex(t) = m /\ pc[t] = "true"

\* Where one thread has PID 0, what it was told stays true although the mutexes
\* are checked and set without synchronisation: the mutex stays locked until
\* that thread itself, inside an unlock, has cleared it.
LockIsKept ==
    \A t \in Threads, m \in Mutexes :
        <<t, m>> \in told => locked[m] \/ Unlocking(t, m)

\* mtx is locked, a PID other than 0 owns the semaphore, and no call in progress
\* is past a test that an earlier state let through: an aquire past line 74 or a
\* release past line 85 may still store the owner, an unlock by PID 0 past its
\* test of the owner may still clear the mutex.
LockedOut ==
    /\ locked["mtx"] /\ owner # 0
    /\ \A t \in Threads :
          /\ pc[t] \notin {"shared", "open", "own", "recheck", "reopen", "disown"}
          /\ op[t] = "unlock" => pc[t] \notin {"unsign", "untake"}
          /\ op[t] = "unlock" /\ pc[t] \in {"mine", "try_unlock", "held", "holder"} => PidOf[t] # 0

\* The lock of PID 0 leaves the owner 0, so an aquire by another PID may find no
\* owner and succeed.  Once it has, and no call in progress is past its tests
\* with what it read before, the semaphore is locked for ever: aquire and release
\* find it owned and locked, each of their tests anew (lines 74-75, 85-86); unlock fails for PID 0, which does not own it, and for the owner, whose PID
\* is not the mutex's.
NeverUnlocked == [][LockedOut => LockedOut']_vars
===============================================================================
