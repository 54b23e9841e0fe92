------------------------- MODULE SemaphoreType_proofs -------------------------
(***************************************************************************)
(* Proofs about SemaphoreType for any threads, any PIDs and any width of   *)
(* aquired.  IInv says which call each label belongs to, that process_id   *)
(* is never anything but 0, and that a thread past try_lock's tests has    *)
(* PID 0; it is inductive for every assignment of PIDs.  Held adds what is *)
(* true when one thread at most has PID 0; LockedOut is closed by itself.   *)
(***************************************************************************)
EXTENDS SemaphoreType, TLAPS

LockOps == {"lock", "lockdata"}
UnlockOps == {"unlock", "unlockdata"}

LockLabels == LockOps \cup {"free", "count", "try_lock", "other", "again", "same",
                            "unheld", "zero", "take", "sign"}
UnlockLabels == UnlockOps \cup {"mine", "try_unlock", "held", "holder", "unsign", "untake"}
AquireLabels == {"aquire", "taken", "shared", "open", "load_shared", "inc_shared", "own",
                 "copy", "load_own", "inc_own", "initsem", "opened", "unowned", "keep",
                 "aquired"}
ReleaseLabels == {"release", "unlocked", "recheck", "reopen", "load_extra", "dec_extra",
                  "disown", "load_release", "dec_release", "left"}

\* A thread is at the labels of the function it called, or of one that calls.
Places ==
    \A t \in Threads :
        /\ pc[t] \in LockLabels => op[t] \in LockOps
        /\ pc[t] \in {"lock", "free", "count"} => op[t] = "lock"
        /\ pc[t] = "unlockdata" => op[t] = "unlockdata"
        /\ pc[t] \in UnlockLabels => op[t] \in UnlockOps
        /\ pc[t] \in AquireLabels => op[t] \in {"lock", "aquire"}
        /\ pc[t] \in ReleaseLabels => op[t] = "release"

PidsZero == \A m \in Mutexes : process_id[m] = 0

\* A thread whose PID try_lock has found to be the mutex's, or whose lock succeeded.
Taking(t) == pc[t] \in {"zero", "take", "sign"} \/ (pc[t] = "true" /\ op[t] \in LockOps)

TakersZero == \A t \in Threads : Taking(t) => PidOf[t] = 0

IInv == TypeOK /\ Places /\ PidsZero /\ TakersZero /\ OnlyPidZeroLocks

USE DEF Mutexes, Calls

-------------------------------------------------------------------------------
(* The inductive invariant                                                 *)

LEMMA InitIInv == Init => IInv
BY TypeAssumption
   DEF Init, IInv, TypeOK, Places, PidsZero, TakersZero, Taking, OnlyPidZeroLocks,
       Labels, LockOps, LockLabels, UnlockOps, UnlockLabels, AquireLabels, ReleaseLabels

\* An unsigned counter stays in range.
LEMMA Wraps == ASSUME NEW x \in 0..W-1, NEW d \in {-1, 1} PROVE (x + d) % W \in 0..W-1
BY TypeAssumption

LEMMA StepIInv == IInv /\ [Next]_vars => IInv'
<1> SUFFICES ASSUME IInv, [Next]_vars PROVE IInv'
  OBVIOUS
<1> USE TypeAssumption
    DEF IInv, TypeOK, Places, PidsZero, TakersZero, Taking, OnlyPidZeroLocks, Labels,
        LockOps, LockLabels, UnlockOps, UnlockLabels, AquireLabels, ReleaseLabels,
        Move, Test, SetOwner, LoadAquired, SetMutex, Mutex, fields
<1>0. CASE UNCHANGED vars
  BY <1>0 DEF vars
<1>1. ASSUME NEW t \in Threads, NEW f \in Calls, Call(t, f) PROVE IInv'
  BY <1>1 DEF Call
<1>2. ASSUME NEW t \in Threads, NEW answer \in BOOLEAN, Return(t, answer) PROVE IInv'
  BY <1>2 DEF Return
<1>3. ASSUME NEW t \in Threads, TryLock(t) PROVE IInv'
  <2> DEFINE m == Mutex(t)
  <2>1. CASE Test(t, "try_lock", locked[m], "other", "again")
    BY <2>1
  <2>2. CASE Test(t, "other", process_id[m] # PidOf[t], "false", "again")
    BY <2>2
  <2>3. CASE Test(t, "again", locked[m], "same", "unheld")
    BY <2>3
  <2>4. CASE Test(t, "same", process_id[m] = PidOf[t], "true", "unheld")
    BY <2>4
  <2>5. CASE Test(t, "unheld", process_id[m] # PidOf[t], "false", "zero")
    BY <2>5
  <2>6. CASE Test(t, "zero", process_id[m] # 0, "false", "take")
    BY <2>6
  <2>7. CASE SetMutex(t, "take", [locked EXCEPT ![m] = TRUE], process_id, "sign")
    BY <2>7
  <2>8. CASE SetMutex(t, "sign", locked, [process_id EXCEPT ![m] = PidOf[t]], "true")
    BY <2>8
  <2> QED
    BY <1>3, <2>1, <2>2, <2>3, <2>4, <2>5, <2>6, <2>7, <2>8 DEF TryLock
<1>4. ASSUME NEW t \in Threads, TryUnlock(t) PROVE IInv'
  <2> DEFINE m == Mutex(t)
  <2>1. CASE Test(t, "try_unlock", locked[m], "held", "true")
    BY <2>1
  <2>2. CASE Test(t, "held", locked[m], "holder", "false")
    BY <2>2
  <2>3. CASE Test(t, "holder", process_id[m] = PidOf[t], "unsign", "false")
    BY <2>3
  <2>4. CASE SetMutex(t, "unsign", locked, [process_id EXCEPT ![m] = 0], "untake")
    BY <2>4
  <2>5. CASE SetMutex(t, "untake", [locked EXCEPT ![m] = FALSE], process_id, "true")
    BY <2>5
  <2> QED
    BY <1>4, <2>1, <2>2, <2>3, <2>4, <2>5 DEF TryUnlock
<1>5. ASSUME NEW t \in Threads, Lock(t) PROVE IInv'
  <2>1. CASE Test(t, "lock", owner = 0, "free", "false")
    BY <2>1
  <2>2. CASE Test(t, "free", locked["mtx"], "false", "count")
    BY <2>2
  <2>3. CASE Test(t, "count", aquired = 0, "aquire", "try_lock")
    BY <2>3
  <2> QED
    BY <1>5, <2>1, <2>2, <2>3 DEF Lock
<1>6. ASSUME NEW t \in Threads, Unlock(t) PROVE IInv'
  BY <1>6 DEF Unlock
<1>7. ASSUME NEW t \in Threads, DataLock(t) PROVE IInv'
  BY <1>7 DEF DataLock
<1>8. ASSUME NEW t \in Threads, Aquire(t) PROVE IInv'
  BY <1>8, Wraps DEF Aquire, StoreAquired, CopyReason
<1>9. ASSUME NEW t \in Threads, InitSem(t) PROVE IInv'
  <2>1. ASSUME NEW success \in Opened, Test(t, "initsem", success, "opened", "false")
        PROVE  IInv'
    BY <2>1
  <2>2. CASE Test(t, "opened", locked["mtx"], "aquired", "unowned")
    BY <2>2
  <2>3. CASE Test(t, "unowned", owner = 0, "keep", "aquired")
    BY <2>3
  <2>4. CASE /\ Move(t, "keep", "aquired")
             /\ sem' = TRUE
             /\ UNCHANGED <<locked, process_id, owner, aquired, alive, op, loaded, told>>
    BY <2>4
  <2> QED
    BY <1>9, <2>1, <2>2, <2>3, <2>4 DEF InitSem
<1>10. ASSUME NEW t \in Threads, Aquired(t) PROVE IInv'
  BY <1>10 DEF Aquired
<1>11. ASSUME NEW t \in Threads, Release(t) PROVE IInv'
  BY <1>11, Wraps DEF Release, StoreAquired
<1> HIDE DEF IInv
<1> QED
  BY <1>0, <1>1, <1>2, <1>3, <1>4, <1>5, <1>6, <1>7, <1>8, <1>9, <1>10, <1>11
     DEF Next, Step

THEOREM Invariance == Spec => []IInv
BY InitIInv, StepIInv, PTL DEF Spec

-------------------------------------------------------------------------------
(* The state keeps its types: aquired wraps and stays in range although    *)
(* semaphore_release decrements it without a check.                        *)

THEOREM TypeCorrect == Spec => []TypeOK
<1>1. IInv => TypeOK
  BY DEF IInv
<1> QED
  BY Invariance, <1>1, PTL

(* Whatever PIDs the threads have, only PID 0 is told that it locked.      *)

THEOREM ZeroLocks == Spec => []OnlyPidZeroLocks
<1>1. IInv => OnlyPidZeroLocks
  BY DEF IInv
<1> QED
  BY Invariance, <1>1, PTL

-------------------------------------------------------------------------------
(* One thread with PID 0 keeps its lock                                    *)

OneZero == \A t, u \in Threads : PidOf[t] = 0 /\ PidOf[u] = 0 => t = u

\* A thread of PID 0 that found its mutex locked, has locked it or is to be told
\* that it did has it locked, whoever may have locked it; a thread that clears the mutex has PID 0.
Locker(t) ==
    PidOf[t] = 0 /\ (pc[t] \in {"same", "sign"} \/ (pc[t] = "true" /\ op[t] \in LockOps))

Held ==
    /\ \A t \in Threads : Locker(t) => locked[Mutex(t)]
    /\ \A t \in Threads : pc[t] \in {"unsign", "untake"} => PidOf[t] = 0
    /\ LockIsKept

LEMMA StepHeld == ASSUME OneZero, IInv, Held, [Next]_vars PROVE Held'
<1> USE TypeAssumption
    DEF OneZero, IInv, TypeOK, Places, PidsZero, TakersZero, Taking, OnlyPidZeroLocks, Labels,
        LockOps, LockLabels, UnlockOps, UnlockLabels, AquireLabels, ReleaseLabels,
        Held, Locker, LockIsKept, Unlocking,
        Move, Test, SetOwner, LoadAquired, StoreAquired, SetMutex, Mutex, fields
<1>0. CASE UNCHANGED vars
  BY <1>0 DEF vars
<1>1. ASSUME NEW t \in Threads, NEW f \in Calls, Call(t, f) PROVE Held'
  BY <1>1 DEF Call
<1>2. ASSUME NEW t \in Threads, NEW answer \in BOOLEAN, Return(t, answer) PROVE Held'
  BY <1>2 DEF Return
<1>3. ASSUME NEW t \in Threads, TryLock(t) PROVE Held'
  <2> DEFINE m == Mutex(t)
  <2>1. CASE Test(t, "try_lock", locked[m], "other", "again")
    BY <2>1
  <2>2. CASE Test(t, "other", process_id[m] # PidOf[t], "false", "again")
    BY <2>2
  <2>3. CASE Test(t, "again", locked[m], "same", "unheld")
    BY <2>3
  <2>4. CASE Test(t, "same", process_id[m] = PidOf[t], "true", "unheld")
    BY <2>4
  <2>5. CASE Test(t, "unheld", process_id[m] # PidOf[t], "false", "zero")
    BY <2>5
  <2>6. CASE Test(t, "zero", process_id[m] # 0, "false", "take")
    BY <2>6
  <2>7. CASE SetMutex(t, "take", [locked EXCEPT ![m] = TRUE], process_id, "sign")
    BY <2>7
  <2>8. CASE SetMutex(t, "sign", locked, [process_id EXCEPT ![m] = PidOf[t]], "true")
    BY <2>8
  <2> QED
    BY <1>3, <2>1, <2>2, <2>3, <2>4, <2>5, <2>6, <2>7, <2>8 DEF TryLock
<1>4. ASSUME NEW t \in Threads, TryUnlock(t) PROVE Held'
  <2> DEFINE m == Mutex(t)
  <2>1. CASE Test(t, "try_unlock", locked[m], "held", "true")
    BY <2>1
  <2>2. CASE Test(t, "held", locked[m], "holder", "false")
    BY <2>2
  <2>3. CASE Test(t, "holder", process_id[m] = PidOf[t], "unsign", "false")
    BY <2>3
  <2>4. CASE SetMutex(t, "unsign", locked, [process_id EXCEPT ![m] = 0], "untake")
    BY <2>4
  <2>5. CASE SetMutex(t, "untake", [locked EXCEPT ![m] = FALSE], process_id, "true")
    BY <2>5
  <2> QED
    BY <1>4, <2>1, <2>2, <2>3, <2>4, <2>5 DEF TryUnlock
<1>5. ASSUME NEW t \in Threads, Lock(t) \/ Unlock(t) \/ DataLock(t) PROVE Held'
  BY <1>5 DEF Lock, Unlock, DataLock
<1>6. ASSUME NEW t \in Threads, Aquire(t) PROVE Held'
  BY <1>6 DEF Aquire, CopyReason
<1>7. ASSUME NEW t \in Threads, InitSem(t) \/ Aquired(t) PROVE Held'
  BY <1>7 DEF InitSem, Aquired
<1>8. ASSUME NEW t \in Threads, Release(t) PROVE Held'
  BY <1>8 DEF Release
<1> HIDE DEF Held, IInv, OneZero
<1> QED
  BY <1>0, <1>1, <1>2, <1>3, <1>4, <1>5, <1>6, <1>7, <1>8 DEF Next, Step

(* If one thread at most has PID 0, what a thread was told by lock and     *)
(* lockdata stays true until it unlocks.                                   *)

THEOREM LockKept == ASSUME OneZero PROVE Spec => []LockIsKept
<1>1. Init => Held
  BY DEF Init, Held, Locker, LockIsKept, Mutex
<1>2. IInv /\ Held /\ [Next]_vars => Held'
  BY StepHeld
<1>3. Held => LockIsKept
  BY DEF Held
<1> QED
  BY Invariance, <1>1, <1>2, <1>3, PTL DEF Spec

-------------------------------------------------------------------------------
(* Locked for ever                                                         *)

LEMMA StepLockedOut == ASSUME IInv, LockedOut, [Next]_vars PROVE LockedOut'
<1> USE TypeAssumption
    DEF IInv, TypeOK, Places, PidsZero, Labels,
        LockOps, LockLabels, UnlockOps, UnlockLabels, AquireLabels, ReleaseLabels, LockedOut,
        Move, Test, SetOwner, LoadAquired, StoreAquired, SetMutex, Mutex, fields
<1>0. CASE UNCHANGED vars
  BY <1>0 DEF vars
<1>1. ASSUME NEW t \in Threads, NEW f \in Calls, Call(t, f) PROVE LockedOut'
  BY <1>1 DEF Call
<1>2. ASSUME NEW t \in Threads, NEW answer \in BOOLEAN, Return(t, answer) PROVE LockedOut'
  BY <1>2 DEF Return
<1>3. ASSUME NEW t \in Threads, TryLock(t) PROVE LockedOut'
  BY <1>3 DEF TryLock
<1>4. ASSUME NEW t \in Threads, TryUnlock(t) PROVE LockedOut'
  BY <1>4 DEF TryUnlock
<1>5. ASSUME NEW t \in Threads, Lock(t) \/ Unlock(t) \/ DataLock(t) PROVE LockedOut'
  <2>1. CASE Lock(t)
    BY <2>1 DEF Lock
  <2>2. CASE Unlock(t)
    BY <2>2 DEF Unlock
  <2>3. CASE DataLock(t)
    BY <2>3 DEF DataLock
  <2> QED
    BY <1>5, <2>1, <2>2, <2>3
<1>6. ASSUME NEW t \in Threads, Aquire(t) PROVE LockedOut'
  BY <1>6 DEF Aquire, CopyReason
<1>7. ASSUME NEW t \in Threads, InitSem(t) \/ Aquired(t) PROVE LockedOut'
  BY <1>7 DEF InitSem, Aquired
<1>8. ASSUME NEW t \in Threads, Release(t) PROVE LockedOut'
  BY <1>8 DEF Release
<1> HIDE DEF IInv, LockedOut
<1> QED
  BY <1>0, <1>1, <1>2, <1>3, <1>4, <1>5, <1>6, <1>7, <1>8 DEF Next, Step

(* A locked semaphore that a PID other than 0 owns stays that way.         *)

THEOREM LockedStays == Spec => NeverUnlocked
<1>1. IInv /\ [Next]_vars => (LockedOut => LockedOut')
  BY StepLockedOut
<1> QED
  BY Invariance, <1>1, PTL DEF Spec, NeverUnlocked

(* In particular, found so when no thread is inside a call, it is locked   *)
(* at every later moment, whatever the threads call.                       *)

Quiet == \A t \in Threads : pc[t] = "run"

THEOREM LockedForEver ==
  Spec => [](Quiet /\ locked["mtx"] /\ owner # 0 => []locked["mtx"])
<1>1. Quiet /\ locked["mtx"] /\ owner # 0 => LockedOut
  BY DEF Quiet, LockedOut
<1>2. IInv /\ LockedOut /\ [Next]_vars => LockedOut'
  BY StepLockedOut
<1>3. LockedOut => locked["mtx"]
  BY DEF LockedOut
<1> QED
  BY Invariance, <1>1, <1>2, <1>3, PTL DEF Spec

===============================================================================
