------------------------------ MODULE SemCounter ------------------------------
(***************************************************************************)
(* semaphore.c: sem_wait, sem_trywait, sem_timedwait, sem_post and         *)
(* sem_getvalue, called by the threads that share one open semaphore.      *)
(*                                                                         *)
(* The library keeps no counter of its own.  Every call is one or two      *)
(* calls of the Windows kernel on the semaphore's handle, so a call that   *)
(* makes two of them (sem_getvalue), or reads the clock before it makes    *)
(* one (sem_timedwait), is interleaved with the calls of other threads.    *)
(*                                                                         *)
(* Time is counted in ticks, TicksPerMs to the millisecond; the conversion *)
(* of an absolute deadline into the kernel's millisecond timeout truncates *)
(* as the code does.  WaitLimit stands for the 4294967295 of the code.     *)
(*                                                                         *)
(* Clients follow main.c: a thread waits for one unit at a time and posts  *)
(* the unit it holds.  Signallers may also post without holding a unit.    *)
(***************************************************************************)
EXTENDS Integers, FiniteSets

CONSTANTS
    Threads,         \* the threads that share the semaphore
    Signallers,      \* those of them that post without having waited
    InitialValue,    \* the value argument of sem_open or sem_init
    SEM_VALUE_MAX,   \* the kernel's maximum count
    TicksPerMs,      \* clock ticks in a millisecond
    WaitLimit,       \* a relative timeout of this many ms or more is dropped
    Deadlines,       \* the absolute deadlines the clients pass, in ticks
    MaxTime          \* bound: the clock stops here

ASSUME CounterAssumption ==
    /\ IsFiniteSet(Threads)
    /\ Signallers \subseteq Threads
    /\ SEM_VALUE_MAX \in Nat \ {0}
    /\ InitialValue \in 0..SEM_VALUE_MAX
    /\ TicksPerMs \in Nat \ {0}
    /\ WaitLimit \in Nat \ {0}
    /\ MaxTime \in Nat
    /\ Deadlines \subseteq 0..MaxTime

VARIABLES
    count,      \* the kernel's count of the semaphore
    pc,         \* "run", or where the thread is inside a call
    holding,    \* the threads that hold a unit
    ret,        \* how the call that returned last ended, by its errno
    val,        \* what the last successful sem_getvalue reported, -1 before
    now,        \* the clock, in ticks
    deadline,   \* the abs_timeout of the pending sem_timedwait, else 0
    timeout,    \* the relative timeout computed from it, in ms, else 0
    expiry      \* when the kernel gives the wait up, else 0

vars == <<count, pc, holding, ret, val, now, deadline, timeout, expiry>>

waits == <<deadline, timeout, expiry>>

Init ==
    /\ count = InitialValue
    /\ pc = [t \in Threads |-> "run"]
    /\ holding = {}
    /\ ret = "OK"
    /\ val = -1
    /\ now = 0
    /\ deadline = [t \in Threads |-> 0]
    /\ timeout = [t \in Threads |-> 0]
    /\ expiry = [t \in Threads |-> 0]

-------------------------------------------------------------------------------
(* The kernel's two operations: WaitForSingleObject succeeds by taking a   *)
(* unit, ReleaseSemaphore puts one back unless the count is at its maximum.*)

TakeUnit == count > 0 /\ count' = count - 1

PutUnit_NoMaximum == count' = count + 1

PutUnit == count < SEM_VALUE_MAX /\ count' = count + 1

\* A thread inside sem_getvalue has taken a unit it is about to put back.
Borrowers == {t \in Threads : pc[t] = "read"}

\* The value of the semaphore: a unit that is borrowed is still there.
Value == count + Cardinality(Borrowers)

Enter(t, where) ==
    /\ pc[t] = "run"
    /\ pc' = [pc EXCEPT ![t] = where]

Return(t, result) ==
    /\ pc' = [pc EXCEPT ![t] = "run"]
    /\ ret' = result

-------------------------------------------------------------------------------
(* sem_wait: WaitForSingleObject(handle, INFINITE).                        *)

SemWait(t) ==
    /\ t \notin holding
    /\ Enter(t, "wait")
    /\ UNCHANGED <<count, holding, ret, val, now, waits>>

SemWaitGranted(t) ==
    /\ pc[t] = "wait"
    /\ TakeUnit
    /\ holding' = holding \cup {t}
    /\ Return(t, "OK")
    /\ UNCHANGED <<val, now, waits>>

(* sem_trywait: the same call with a timeout of 0.                         *)

SemTrywait_IgnoresTimeout(t) ==
    /\ pc[t] = "run" /\ t \notin holding
    /\ IF count > 0 THEN TakeUnit ELSE UNCHANGED count
    /\ holding' = holding \cup {t}
    /\ Return(t, "OK")
    /\ UNCHANGED <<val, now, waits>>

SemTrywait(t) ==
    /\ pc[t] = "run" /\ t \notin holding
    /\ \/ /\ TakeUnit
          /\ holding' = holding \cup {t}
          /\ Return(t, "OK")
       \/ /\ count = 0
          /\ Return(t, "EAGAIN")
          /\ UNCHANGED <<count, holding>>
    /\ UNCHANGED <<val, now, waits>>

-------------------------------------------------------------------------------
(* sem_timedwait.  arch_rel_time_in_ms subtracts two times that have each  *)
(* been truncated to milliseconds and replaces a difference outside        *)
(* 0..WaitLimit-1 by 0; WaitLimit itself is what the kernel takes for      *)
(* INFINITE.  The wait starts some time after the clock was read, and a    *)
(* wait the kernel can satisfy never times out.                            *)

ArchTimeInMs(ticks) == ticks \div TicksPerMs

ArchRelTimeInMs_Swapped(d, n) ==
    LET t == ArchTimeInMs(n) - ArchTimeInMs(d)
    IN  IF t < 0 \/ t >= WaitLimit THEN 0 ELSE t

ArchRelTimeInMs_AllowsLimit(d, n) ==
    LET t == ArchTimeInMs(d) - ArchTimeInMs(n)
    IN  IF t < 0 \/ t > WaitLimit THEN 0 ELSE t

ArchRelTimeInMs(d, n) ==
    LET t == ArchTimeInMs(d) - ArchTimeInMs(n)
    IN  IF t < 0 \/ t >= WaitLimit THEN 0 ELSE t

SemTimedwait(t, d) ==
    /\ t \notin holding
    /\ Enter(t, "convert")
    /\ deadline' = [deadline EXCEPT ![t] = d]
    /\ timeout' = [timeout EXCEPT ![t] = ArchRelTimeInMs(d, now)]
    /\ UNCHANGED <<count, holding, ret, val, now, expiry>>

\* Bound: a wait that would end after the clock stops ends when it does.
AtMostMaxTime(ticks) == IF ticks <= MaxTime THEN ticks ELSE MaxTime

SemTimedwaitBlock(t) ==
    /\ pc[t] = "convert"
    /\ pc' = [pc EXCEPT ![t] = "timed"]
    /\ expiry' = [expiry EXCEPT ![t] = AtMostMaxTime(now + timeout[t] * TicksPerMs)]
    /\ UNCHANGED <<count, holding, ret, val, now, deadline, timeout>>

LeaveTimedwait(t) ==
    /\ deadline' = [deadline EXCEPT ![t] = 0]
    /\ timeout' = [timeout EXCEPT ![t] = 0]
    /\ expiry' = [expiry EXCEPT ![t] = 0]
    /\ UNCHANGED <<val, now>>

SemTimedwaitGranted(t) ==
    /\ pc[t] = "timed"
    /\ TakeUnit
    /\ holding' = holding \cup {t}
    /\ Return(t, "OK")
    /\ LeaveTimedwait(t)

SemTimedwaitExpired(t) ==
    /\ pc[t] = "timed"
    /\ count = 0
    /\ timeout[t] # WaitLimit    \* the kernel's INFINITE
    /\ now >= expiry[t]
    /\ Return(t, "ETIMEDOUT")
    /\ LeaveTimedwait(t)
    /\ UNCHANGED <<count, holding>>

\* Bound: the clock stops at MaxTime.
Tick ==
    /\ now < MaxTime
    /\ now' = now + 1
    /\ UNCHANGED <<count, pc, holding, ret, val, waits>>

-------------------------------------------------------------------------------
(* sem_post: ReleaseSemaphore, which fails at the maximum.                 *)

SemPost(t) ==
    /\ pc[t] = "run"
    /\ t \in holding \/ t \in Signallers
    /\ \/ /\ PutUnit
          /\ holding' = holding \ {t}
          /\ Return(t, "OK")
       \/ /\ count = SEM_VALUE_MAX
          /\ Return(t, "EINVAL")
          /\ UNCHANGED <<count, holding>>
    /\ UNCHANGED <<val, now, waits>>

-------------------------------------------------------------------------------
(* sem_getvalue takes a unit without waiting, puts it back, and reports the*)
(* count ReleaseSemaphore found plus one; it reports 0 when there was none *)
(* to take, and fails when the unit cannot be put back.                    *)

SemGetvalue(t) ==
    /\ \/ /\ TakeUnit
          /\ Enter(t, "read")
          /\ UNCHANGED <<ret, val>>
       \/ /\ pc[t] = "run"
          /\ count = 0
          /\ val' = 0
          /\ Return(t, "OK")
          /\ UNCHANGED count
    /\ UNCHANGED <<holding, now, waits>>

SemGetvalueRestore_NoRelease(t) ==
    /\ pc[t] = "read"
    /\ val' = count + 1
    /\ Return(t, "OK")
    /\ UNCHANGED <<count, holding, now, waits>>

SemGetvalueRestore_CountsTwice(t) ==
    /\ pc[t] = "read"
    /\ PutUnit
    /\ val' = count' + 1
    /\ Return(t, "OK")
    /\ UNCHANGED <<holding, now, waits>>

SemGetvalueRestore(t) ==
    /\ pc[t] = "read"
    /\ \/ /\ PutUnit
          /\ val' = count + 1
          /\ Return(t, "OK")
       \/ /\ count = SEM_VALUE_MAX
          /\ Return(t, "EINVAL")
          /\ UNCHANGED <<count, val>>
    /\ UNCHANGED <<holding, now, waits>>

-------------------------------------------------------------------------------

Step(t) ==
    \/ SemWait(t) \/ SemWaitGranted(t)
    \/ SemTrywait(t)
    \/ \E d \in Deadlines : SemTimedwait(t, d)
    \/ SemTimedwaitBlock(t)
    \/ SemTimedwaitGranted(t) \/ SemTimedwaitExpired(t)
    \/ SemPost(t)
    \/ SemGetvalue(t) \/ SemGetvalueRestore(t)

Next == Tick \/ \E t \in Threads : Step(t)

Spec == Init /\ [][Next]_vars

\* The clock advances and a thread inside sem_timedwait is scheduled.
ClockFairness ==
    /\ WF_vars(Tick)
    /\ \A t \in Threads :
          WF_vars(\/ SemTimedwaitBlock(t)
                  \/ SemTimedwaitGranted(t)
                  \/ SemTimedwaitExpired(t))

\* A holder posts its unit in the end, a reader finishes, and the kernel, which
\* queues the waiters of a semaphore, does not pass one waiter over for ever.
UnitFairness ==
    \A t \in Threads :
       /\ WF_vars(t \in holding /\ SemPost(t))
       /\ WF_vars(SemGetvalueRestore(t))
       /\ SF_vars(SemWaitGranted(t))

FairSpec == Spec /\ ClockFairness /\ UnitFairness

-------------------------------------------------------------------------------
(* Properties                                                              *)

Results == {"OK", "EAGAIN", "ETIMEDOUT", "EINVAL"}

\* The types of the state.  The count the kernel keeps for CreateSemaphoreA's
\* semaphores never leaves 0..SEM_VALUE_MAX, and a thread is inside a call of
\* semaphore.c or not.
TypeOK ==
    /\ count \in 0..SEM_VALUE_MAX
    /\ pc \in [Threads -> {"run", "wait", "convert", "timed", "read"}]
    /\ holding \subseteq Threads
    /\ ret \in Results
    /\ val \in -1..SEM_VALUE_MAX
    /\ now \in 0..MaxTime
    /\ deadline \in [Threads -> Nat]
    /\ timeout \in [Threads -> Nat]
    /\ expiry \in [Threads -> Nat]

-------------------------------------------------------------------------------
(* Units                                                                   *)

\* When every client posts only what it holds, no unit is created and none is
\* lost, whatever the calls of sem_getvalue, which takes a unit out for a
\* moment, and of the waits that fail are interleaved with: the units in the
\* kernel, on loan to a sem_getvalue and held by clients are the initial ones.
UnitsConserved == Value + Cardinality(holding) = InitialValue

\* Of such clients no call ends in EINVAL, though sem_post and sem_getvalue
\* both fail when ReleaseSemaphore finds the count at its maximum.
NothingFails == ret # "EINVAL"

\* With signallers units are created; even so the semaphore never runs short of
\* the initial ones, although a sem_getvalue that finds the semaphore full when
\* it wants to put its unit back drops the unit (semaphore.c, EINVAL).
SupplyNeverShrinks == Value + Cardinality(holding) >= InitialValue

Abs == INSTANCE CountingSemaphore WITH value <- Value, owners <- holding

\* semaphore.c implements the semaphore the README promises when clients post
\* what they hold: sem_wait, sem_trywait and sem_timedwait are Acquire when they
\* succeed and nothing otherwise, sem_post is Release, sem_getvalue nothing.
ImplementsCounting == Abs!Spec

-------------------------------------------------------------------------------
(* sem_getvalue                                                            *)

GetvalueReturns(t) == pc[t] = "read" /\ pc'[t] = "run"

\* Concurrent calls of sem_getvalue hide units from one another, so a report can
\* be too low; it is never higher than the value at the moment of the return.
GetvalueNotTooHigh ==
    [][\A t \in Threads :
          GetvalueReturns(t) /\ ret' = "OK" => val' <= Value']_vars

\* Getting the value leaves the value as it is.
GetvalueKeepsValue ==
    [][\A t \in Threads : GetvalueReturns(t) => Value' = Value]_vars

-------------------------------------------------------------------------------
(* Time                                                                    *)

TimesOut(t) == pc[t] = "timed" /\ pc'[t] = "run" /\ t \notin holding'

\* Truncating both times to milliseconds ends a timed wait early by less than a
\* millisecond, however long the thread takes between reading the clock and
\* blocking: a sem_timedwait that gives up does so after deadline - TicksPerMs.
TimeoutAtMostOneMsEarly ==
    [][\A t \in Threads : TimesOut(t) => now > deadline[t] - TicksPerMs]_vars

-------------------------------------------------------------------------------
(* Progress                                                                *)

\* A sem_timedwait returns, even when every unit is held for ever.
TimedWaitReturns ==
    \A t \in Threads : pc[t] \in {"convert", "timed"} ~> pc[t] = "run"

\* A sem_wait obtains a unit in the end if holders post theirs, although other
\* threads keep taking units with all the calls of semaphore.c.
WaitServed == \A t \in Threads : pc[t] = "wait" ~> t \in holding

===============================================================================
