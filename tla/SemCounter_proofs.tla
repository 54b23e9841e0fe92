--------------------------- MODULE SemCounter_proofs ---------------------------
(***************************************************************************)
(* Theorems about SemCounter, for any threads, signallers, initial value,  *)
(* maximum, clock resolution and deadlines.                                *)
(*                                                                         *)
(* Everything about units follows from one lemma, UnitStep: a step of the  *)
(* semaphore either leaves the value and the holders alone, or moves one   *)
(* unit to a thread that held none, or one back, or (a sem_getvalue that   *)
(* cannot put its unit back) drops one while the semaphore is full.        *)
(***************************************************************************)
EXTENDS SemCounter, FiniteSetTheorems, TLAPS

\* A thread inside a waiting call holds no unit: the call would be its second.
WaitersHoldNothing ==
    \A t \in holding : pc[t] \in {"run", "read"}

IInv == TypeOK /\ WaitersHoldNothing

-------------------------------------------------------------------------------
(* Types                                                                   *)

\* The conversion of a deadline yields a natural number of milliseconds.
LEMMA RelTimeType ==
    ASSUME NEW d \in Nat, NEW n \in Nat
    PROVE  ArchRelTimeInMs(d, n) \in Nat
<1>1. ArchTimeInMs(d) \in Int /\ ArchTimeInMs(n) \in Int
  BY CounterAssumption DEF ArchTimeInMs
<1> QED BY <1>1 DEF ArchRelTimeInMs

LEMMA InitInv == Init => IInv
BY CounterAssumption DEF Init, IInv, TypeOK, WaitersHoldNothing, Results

LEMMA StepInv == IInv /\ [Next]_vars => IInv'
<1> SUFFICES ASSUME IInv, [Next]_vars PROVE IInv'
  OBVIOUS
<1> USE CounterAssumption DEF IInv, TypeOK, WaitersHoldNothing, Results
<1>1. CASE Tick
  BY <1>1 DEF Tick, waits
<1>2. ASSUME NEW t \in Threads, SemWait(t) PROVE IInv'
  BY <1>2 DEF SemWait, Enter, waits
<1>3. ASSUME NEW t \in Threads, SemWaitGranted(t) PROVE IInv'
  BY <1>3 DEF SemWaitGranted, TakeUnit, Return, waits
<1>4. ASSUME NEW t \in Threads, SemTrywait(t) PROVE IInv'
  BY <1>4 DEF SemTrywait, TakeUnit, Return, waits
<1>5. ASSUME NEW t \in Threads, NEW d \in Deadlines, SemTimedwait(t, d)
      PROVE IInv'
  <2>1. d \in Nat /\ now \in Nat
    OBVIOUS
  <2>2. ArchRelTimeInMs(d, now) \in Nat
    BY <2>1, RelTimeType
  <2>3. TypeOK'
    BY <1>5, <2>1, <2>2 DEF SemTimedwait, Enter
  <2>4. WaitersHoldNothing'
    BY <1>5 DEF SemTimedwait, Enter
  <2> QED BY <2>3, <2>4
<1>6. ASSUME NEW t \in Threads, SemTimedwaitBlock(t) PROVE IInv'
  <2>1. now \in Nat /\ timeout[t] \in Nat /\ timeout[t] * TicksPerMs \in Nat
    OBVIOUS
  <2>2. AtMostMaxTime(now + timeout[t] * TicksPerMs) \in Nat
    BY <2>1 DEF AtMostMaxTime
  <2> QED BY <1>6, <2>2 DEF SemTimedwaitBlock
<1>7. ASSUME NEW t \in Threads, SemTimedwaitGranted(t) PROVE IInv'
  BY <1>7 DEF SemTimedwaitGranted, TakeUnit, Return, LeaveTimedwait
<1>8. ASSUME NEW t \in Threads, SemTimedwaitExpired(t) PROVE IInv'
  BY <1>8 DEF SemTimedwaitExpired, Return, LeaveTimedwait
<1>9. ASSUME NEW t \in Threads, SemPost(t) PROVE IInv'
  BY <1>9 DEF SemPost, PutUnit, Return, waits
<1>10. ASSUME NEW t \in Threads, SemGetvalue(t) PROVE IInv'
  BY <1>10 DEF SemGetvalue, TakeUnit, Enter, Return, waits
<1>11. ASSUME NEW t \in Threads, SemGetvalueRestore(t) PROVE IInv'
  BY <1>11 DEF SemGetvalueRestore, PutUnit, Return, waits
<1>12. CASE UNCHANGED vars
  BY <1>12 DEF vars
<1> QED BY <1>1, <1>2, <1>3, <1>4, <1>5, <1>6, <1>7, <1>8, <1>9, <1>10, <1>11,
           <1>12 DEF Next, Step

LEMMA InvHolds == Spec => []IInv
BY InitInv, StepInv, PTL DEF Spec

\* The state of semaphore.c's calls keeps its types; in particular the count
\* never leaves 0..SEM_VALUE_MAX, whoever posts.
THEOREM TypeCorrect == Spec => []TypeOK
BY InvHolds, PTL DEF IInv

-------------------------------------------------------------------------------
(* Units                                                                   *)

\* A thread that leaves or enters sem_getvalue is one borrower less or more.
LEMMA BorrowersFinite ==
    ASSUME TypeOK
    PROVE  /\ IsFiniteSet(Borrowers) /\ IsFiniteSet(holding)
           /\ Cardinality(Borrowers) \in Nat /\ Cardinality(holding) \in Nat
           /\ Value \in Nat
<1>1. Borrowers \in SUBSET Threads /\ holding \in SUBSET Threads
  BY DEF Borrowers, TypeOK
<1>2. IsFiniteSet(Borrowers) /\ IsFiniteSet(holding)
  BY <1>1, FS_Subset, CounterAssumption
<1>3. Cardinality(Borrowers) \in Nat /\ Cardinality(holding) \in Nat
  BY <1>2, FS_CardinalityType
<1>4. count \in Nat
  BY CounterAssumption DEF TypeOK
<1> QED BY <1>2, <1>3, <1>4 DEF Value

LEMMA BorrowersKept ==
    ASSUME TypeOK, NEW t \in Threads, pc[t] # "read",
           NEW where \in {"run", "wait", "convert", "timed"},
           pc' = [pc EXCEPT ![t] = where]
    PROVE  Borrowers' = Borrowers
BY DEF Borrowers, TypeOK

LEMMA BorrowersJoined ==
    ASSUME TypeOK, NEW t \in Threads, pc[t] # "read",
           pc' = [pc EXCEPT ![t] = "read"]
    PROVE  Cardinality(Borrowers') = Cardinality(Borrowers) + 1
<1>1. Borrowers' = Borrowers \cup {t} /\ t \notin Borrowers
  BY DEF Borrowers, TypeOK
<1> QED BY <1>1, BorrowersFinite, FS_AddElement

LEMMA BorrowersLeft ==
    ASSUME TypeOK, NEW t \in Threads, pc[t] = "read",
           pc' = [pc EXCEPT ![t] = "run"]
    PROVE  Cardinality(Borrowers') = Cardinality(Borrowers) - 1
<1>1. Borrowers' = Borrowers \ {t} /\ t \in Borrowers
  BY DEF Borrowers, TypeOK
<1> QED BY <1>1, BorrowersFinite, FS_RemoveElement

\* What a step does to the units: the four cases.
UnitsStay == Value' = Value /\ holding' = holding

UnitTaken(t) ==
    /\ t \notin holding /\ holding' = holding \cup {t}
    /\ Value > 0 /\ Value' = Value - 1

UnitPosted(t) ==
    /\ t \in holding \/ t \in Signallers
    /\ holding' = holding \ {t}
    /\ Value' = Value + 1

UnitDropped ==
    /\ count = SEM_VALUE_MAX /\ Cardinality(Borrowers) > 0
    /\ Value' = Value - 1 /\ holding' = holding

LEMMA UnitStep ==
    ASSUME IInv, [Next]_vars
    PROVE  \/ UnitsStay
           \/ \E t \in Threads : UnitTaken(t) \/ UnitPosted(t)
           \/ UnitDropped
<1> DEFINE Goal == \/ UnitsStay
                   \/ \E t \in Threads : UnitTaken(t) \/ UnitPosted(t)
                   \/ UnitDropped
<1> USE DEF IInv
<1>a. count \in Nat /\ Cardinality(Borrowers) \in Nat /\ SEM_VALUE_MAX \in Nat
  BY BorrowersFinite, CounterAssumption DEF TypeOK
<1>1. ASSUME NEW t \in Threads, pc[t] # "read", TakeUnit, t \notin holding,
             holding' = holding \cup {t}, pc' = [pc EXCEPT ![t] = "run"]
      PROVE  Goal
  <2>1. Borrowers' = Borrowers
    BY <1>1, BorrowersKept
  <2> QED BY <1>a, <1>1, <2>1 DEF TakeUnit, UnitTaken, Value
<1>2. ASSUME count' = count, holding' = holding, Borrowers' = Borrowers
      PROVE  Goal
  BY <1>2 DEF UnitsStay, Value
<1>3. CASE Tick \/ UNCHANGED vars
  BY <1>2, <1>3 DEF Tick, vars, Borrowers
<1>4. ASSUME NEW t \in Threads, SemWait(t) PROVE Goal
  BY <1>2, <1>4, BorrowersKept DEF SemWait, Enter
<1>5. ASSUME NEW t \in Threads, SemWaitGranted(t) PROVE Goal
  <2>1. t \notin holding
    BY <1>5 DEF SemWaitGranted, WaitersHoldNothing
  <2> QED BY <1>1, <1>5, <2>1 DEF SemWaitGranted, Return
<1>6. ASSUME NEW t \in Threads, SemTrywait(t) PROVE Goal
  BY <1>1, <1>2, <1>6, BorrowersKept DEF SemTrywait, Return
<1>7. ASSUME NEW t \in Threads, NEW d \in Deadlines, SemTimedwait(t, d)
      PROVE Goal
  BY <1>2, <1>7, BorrowersKept DEF SemTimedwait, Enter
<1>8. ASSUME NEW t \in Threads, SemTimedwaitBlock(t) PROVE Goal
  BY <1>2, <1>8, BorrowersKept DEF SemTimedwaitBlock
<1>9. ASSUME NEW t \in Threads, SemTimedwaitGranted(t) PROVE Goal
  <2>1. t \notin holding
    BY <1>9 DEF SemTimedwaitGranted, WaitersHoldNothing
  <2> QED BY <1>1, <1>9, <2>1 DEF SemTimedwaitGranted, Return
<1>10. ASSUME NEW t \in Threads, SemTimedwaitExpired(t) PROVE Goal
  BY <1>2, <1>10, BorrowersKept DEF SemTimedwaitExpired, Return
<1>11. ASSUME NEW t \in Threads, SemPost(t) PROVE Goal
  <2>1. Borrowers' = Borrowers
    BY <1>11, BorrowersKept DEF SemPost, Return
  <2>2. CASE PutUnit /\ holding' = holding \ {t}
    BY <1>a, <1>11, <2>1, <2>2 DEF SemPost, PutUnit, UnitPosted, Value
  <2>3. CASE UNCHANGED <<count, holding>>
    BY <1>2, <2>1, <2>3
  <2> QED BY <1>11, <2>2, <2>3 DEF SemPost
<1>12. ASSUME NEW t \in Threads, SemGetvalue(t) PROVE Goal
  <2>1. CASE TakeUnit /\ Enter(t, "read")
    <3>1. Cardinality(Borrowers') = Cardinality(Borrowers) + 1
      BY <2>1, BorrowersJoined DEF Enter
    <3> QED BY <1>a, <1>12, <2>1, <3>1 DEF SemGetvalue, TakeUnit, UnitsStay, Value
  <2>2. CASE UNCHANGED count /\ pc[t] = "run" /\ Return(t, "OK")
    BY <1>2, <1>12, <2>2, BorrowersKept DEF SemGetvalue, Return
  <2> QED BY <1>12, <2>1, <2>2 DEF SemGetvalue
<1>13. ASSUME NEW t \in Threads, SemGetvalueRestore(t) PROVE Goal
  <2>1. Cardinality(Borrowers') = Cardinality(Borrowers) - 1
    BY <1>13, BorrowersLeft DEF SemGetvalueRestore, Return
  <2>2. Cardinality(Borrowers) > 0
    <3>1. Borrowers # {}
      BY <1>13 DEF SemGetvalueRestore, Borrowers
    <3> QED BY <1>a, <3>1, BorrowersFinite, FS_EmptySet
  <2>3. CASE PutUnit
    BY <1>a, <1>13, <2>1, <2>3 DEF SemGetvalueRestore, PutUnit, UnitsStay, Value
  <2>4. CASE count = SEM_VALUE_MAX /\ UNCHANGED count
    BY <1>a, <1>13, <2>1, <2>2, <2>4 DEF SemGetvalueRestore, UnitDropped, Value
  <2> QED BY <1>13, <2>3, <2>4 DEF SemGetvalueRestore
<1> QED BY <1>3, <1>4, <1>5, <1>6, <1>7, <1>8, <1>9, <1>10, <1>11, <1>12, <1>13
        DEF Next, Step

LEMMA HoldersOfUnit ==
    ASSUME TypeOK, NEW t \in Threads
    PROVE  /\ t \notin holding =>
                 Cardinality(holding \cup {t}) = Cardinality(holding) + 1
           /\ t \in holding =>
                 Cardinality(holding \ {t}) = Cardinality(holding) - 1
           /\ t \notin holding =>
                 Cardinality(holding \ {t}) = Cardinality(holding)
BY BorrowersFinite, FS_AddElement, FS_RemoveElement

LEMMA InitUnits ==
    ASSUME Init
    PROVE  Value = InitialValue /\ Cardinality(holding) = 0
<1>1. Borrowers = {} /\ holding = {}
  BY DEF Init, Borrowers
<1> QED BY <1>1, FS_EmptySet, CounterAssumption DEF Init, Value

\* However many signallers post and however sem_getvalue interferes, the units
\* in the semaphore, on loan and held never fall below the initial value.
THEOREM SupplyHolds == Spec => []SupplyNeverShrinks
<1>1. Init => SupplyNeverShrinks
  BY InitUnits, CounterAssumption DEF SupplyNeverShrinks
<1>2. IInv /\ SupplyNeverShrinks /\ [Next]_vars => SupplyNeverShrinks'
  <2> SUFFICES ASSUME IInv, SupplyNeverShrinks, [Next]_vars
               PROVE  SupplyNeverShrinks'
    OBVIOUS
  <2>1. /\ Value \in Nat /\ Cardinality(holding) \in Nat /\ InitialValue \in Nat
        /\ Cardinality(Borrowers) \in Nat
    BY BorrowersFinite, CounterAssumption DEF IInv
  <2>2. CASE UnitsStay
    BY <2>2 DEF UnitsStay, SupplyNeverShrinks
  <2>3. ASSUME NEW t \in Threads, UnitTaken(t) PROVE SupplyNeverShrinks'
    BY <2>1, <2>3, HoldersOfUnit DEF UnitTaken, SupplyNeverShrinks, IInv
  <2>4. ASSUME NEW t \in Threads, UnitPosted(t) PROVE SupplyNeverShrinks'
    BY <2>1, <2>4, HoldersOfUnit DEF UnitPosted, SupplyNeverShrinks, IInv
  <2>5. CASE UnitDropped
    <3>1. Value >= InitialValue + 1
      BY <2>1, <2>5, CounterAssumption DEF UnitDropped, Value
    <3> QED BY <2>1, <2>5, <3>1 DEF UnitDropped, SupplyNeverShrinks
  <2> QED BY <2>2, <2>3, <2>4, <2>5, UnitStep
<1> QED BY <1>1, <1>2, InvHolds, PTL DEF Spec

-------------------------------------------------------------------------------
(* Clients that post what they hold                                        *)

\* When the units are conserved, ReleaseSemaphore never finds the count at its
\* maximum while a unit is held or on loan.
LEMMA NeverFull ==
    ASSUME IInv, UnitsConserved
    PROVE  /\ count = SEM_VALUE_MAX => holding = {} /\ Borrowers = {}
           /\ ~ UnitDropped
<1>1. /\ count \in Nat /\ SEM_VALUE_MAX \in Nat /\ InitialValue <= SEM_VALUE_MAX
      /\ Cardinality(Borrowers) \in Nat /\ Cardinality(holding) \in Nat
      /\ InitialValue \in Nat
  BY BorrowersFinite, CounterAssumption DEF IInv, TypeOK
<1>2. count + Cardinality(Borrowers) + Cardinality(holding) = InitialValue
  BY DEF UnitsConserved, Value
<1>3. ASSUME count = SEM_VALUE_MAX
      PROVE  Cardinality(holding) = 0 /\ Cardinality(Borrowers) = 0
  <2>1. count >= InitialValue
    BY <1>1, <1>3
  <2>2. Cardinality(Borrowers) + Cardinality(holding) <= 0
    BY <1>1, <1>2, <2>1
  <2> QED BY <1>1, <2>2
<1> QED BY <1>1, <1>3, BorrowersFinite, FS_EmptySet DEF IInv, UnitDropped

LEMMA ConservedStep ==
    ASSUME Signallers = {}, IInv, UnitsConserved, [Next]_vars
    PROVE  UnitsConserved'
<1>1. Value \in Nat /\ Cardinality(holding) \in Nat /\ InitialValue \in Nat
  BY BorrowersFinite, CounterAssumption DEF IInv
<1>2. CASE UnitsStay
  BY <1>2 DEF UnitsStay, UnitsConserved
<1>3. ASSUME NEW t \in Threads, UnitTaken(t) PROVE UnitsConserved'
  BY <1>1, <1>3, HoldersOfUnit DEF UnitTaken, UnitsConserved, IInv
<1>4. ASSUME NEW t \in Threads, UnitPosted(t) PROVE UnitsConserved'
  BY <1>1, <1>4, HoldersOfUnit DEF UnitPosted, UnitsConserved, IInv
<1> QED BY <1>2, <1>3, <1>4, UnitStep, NeverFull

\* Without signallers no unit is created and none is lost.
THEOREM Conservation ==
    ASSUME Signallers = {}
    PROVE  Spec => []UnitsConserved
<1>1. Init => UnitsConserved
  BY InitUnits, CounterAssumption DEF UnitsConserved
<1>2. IInv /\ UnitsConserved /\ [Next]_vars => UnitsConserved'
  BY ConservedStep
<1> QED BY <1>1, <1>2, InvHolds, PTL DEF Spec

\* main.c's critical sections: with one unit, two threads never hold it at once.
MutuallyExclusive == \A t, u \in holding : t = u

THEOREM MutualExclusion ==
    ASSUME Signallers = {}, InitialValue = 1
    PROVE  Spec => []MutuallyExclusive
<1>1. IInv /\ UnitsConserved => MutuallyExclusive
  <2> SUFFICES ASSUME IInv, UnitsConserved PROVE MutuallyExclusive
    OBVIOUS
  <2>1. Cardinality(holding) = 0 \/ Cardinality(holding) = 1
    BY BorrowersFinite DEF IInv, UnitsConserved
  <2> QED BY <2>1, BorrowersFinite, FS_EmptySet, FS_Singleton
          DEF IInv, MutuallyExclusive
<1> QED BY <1>1, InvHolds, Conservation, PTL

\* ...and no call of such clients fails with EINVAL.
THEOREM NoFailure ==
    ASSUME Signallers = {}
    PROVE  Spec => []NothingFails
<1>1. Init => NothingFails
  BY DEF Init, NothingFails
<1>2. IInv /\ UnitsConserved /\ NothingFails /\ [Next]_vars => NothingFails'
  <2> SUFFICES ASSUME IInv, UnitsConserved, NothingFails, [Next]_vars
               PROVE  NothingFails'
    OBVIOUS
  <2> USE DEF NothingFails
  <2>1. CASE Tick \/ UNCHANGED vars
    BY <2>1 DEF Tick, vars
  <2>2. ASSUME NEW t \in Threads, SemPost(t) PROVE NothingFails'
    BY <2>2, NeverFull DEF SemPost, Return
  <2>3. ASSUME NEW t \in Threads, SemGetvalueRestore(t) PROVE NothingFails'
    <3>1. t \in Borrowers
      BY <2>3 DEF SemGetvalueRestore, Borrowers
    <3> QED BY <2>3, <3>1, NeverFull DEF SemGetvalueRestore, Return
  <2>4. ASSUME NEW t \in Threads,
               \/ SemWait(t) \/ SemWaitGranted(t) \/ SemTrywait(t)
               \/ \E d \in Deadlines : SemTimedwait(t, d)
               \/ SemTimedwaitBlock(t)
               \/ SemTimedwaitGranted(t) \/ SemTimedwaitExpired(t)
               \/ SemGetvalue(t)
        PROVE  NothingFails'
    BY <2>4 DEF SemWait, SemWaitGranted, SemTrywait, SemTimedwait,
       SemTimedwaitBlock, SemTimedwaitGranted, SemTimedwaitExpired,
       SemGetvalue, Return
  <2> QED BY <2>1, <2>2, <2>3, <2>4 DEF Next, Step
<1> QED BY <1>1, <1>2, InvHolds, Conservation, PTL DEF Spec

\* semaphore.c implements the counting semaphore the README promises: each step
\* is an Acquire or a Release of the abstract semaphore, or nothing.
THEOREM Implementation ==
    ASSUME Signallers = {}
    PROVE  Spec => ImplementsCounting
<1>1. Init => Abs!Init
  BY InitUnits DEF Init, Abs!Init
<1>2. IInv /\ UnitsConserved /\ [Next]_vars => [Abs!Next]_(Abs!vars)
  <2> SUFFICES ASSUME IInv, UnitsConserved, [Next]_vars
               PROVE  [Abs!Next]_(Abs!vars)
    OBVIOUS
  <2>1. CASE UnitsStay
    BY <2>1 DEF UnitsStay, Abs!vars
  <2>2. ASSUME NEW t \in Threads, UnitTaken(t) PROVE Abs!Next
    BY <2>2 DEF UnitTaken, Abs!Next, Abs!Acquire
  <2>3. ASSUME NEW t \in Threads, UnitPosted(t) PROVE Abs!Next
    <3>1. Cardinality(holding) > 0
      <4>1. holding # {}
        BY <2>3 DEF UnitPosted
      <4> QED BY <4>1, BorrowersFinite, FS_EmptySet DEF IInv
    <3>2. Value < SEM_VALUE_MAX
      BY <3>1, BorrowersFinite, CounterAssumption DEF IInv, UnitsConserved
    <3> QED BY <2>3, <3>2 DEF UnitPosted, Abs!Next, Abs!Release
  <2> QED BY <2>1, <2>2, <2>3, UnitStep, NeverFull
<1> QED BY <1>1, <1>2, InvHolds, Conservation, PTL
        DEF Spec, ImplementsCounting, Abs!Spec

-------------------------------------------------------------------------------
(* Time                                                                    *)

\* Deadlines the kernel's timeout can express, whenever they are passed.
NearDeadlines == \A d \in Deadlines : ArchTimeInMs(d) < WaitLimit

\* Truncation loses less than a millisecond.
LEMMA Truncation ==
    ASSUME NEW x \in Nat
    PROVE  /\ ArchTimeInMs(x) \in Nat
           /\ ArchTimeInMs(x) * TicksPerMs <= x
           /\ x < ArchTimeInMs(x) * TicksPerMs + TicksPerMs
<1>1. TicksPerMs \in Nat /\ TicksPerMs > 0
  BY CounterAssumption
<1>2. x = TicksPerMs * (x \div TicksPerMs) + (x % TicksPerMs)
      /\ 0 <= x % TicksPerMs /\ x % TicksPerMs < TicksPerMs
      /\ x \div TicksPerMs \in Int /\ x % TicksPerMs \in Int
  BY <1>1
<1>3. x \div TicksPerMs >= 0
  BY <1>1, <1>2
<1> QED BY <1>1, <1>2, <1>3 DEF ArchTimeInMs

\* A timeout computed at time n, waited out from n on, ends after d - TicksPerMs.
LEMMA RelTimeReaches ==
    ASSUME NearDeadlines, NEW d \in Deadlines, NEW n \in Nat
    PROVE  n + ArchRelTimeInMs(d, n) * TicksPerMs > d - TicksPerMs
<1>1. d \in Nat /\ TicksPerMs \in Nat /\ TicksPerMs > 0 /\ WaitLimit \in Nat
  BY CounterAssumption
<1> DEFINE md == ArchTimeInMs(d)
           mn == ArchTimeInMs(n)
<1>2. /\ md \in Nat /\ md * TicksPerMs <= d /\ d < md * TicksPerMs + TicksPerMs
      /\ mn \in Nat /\ mn * TicksPerMs <= n /\ n < mn * TicksPerMs + TicksPerMs
  BY <1>1, Truncation
<1>3. md - mn < WaitLimit
  BY <1>1, <1>2 DEF NearDeadlines
<1>4. CASE md < mn
  <2>1. ArchRelTimeInMs(d, n) = 0
    BY <1>2, <1>4 DEF ArchRelTimeInMs
  <2>2. (md + 1) * TicksPerMs <= mn * TicksPerMs
    BY <1>1, <1>2, <1>4
  <2>3. (md + 1) * TicksPerMs = md * TicksPerMs + TicksPerMs
    BY <1>1, <1>2
  <2> QED BY <1>1, <1>2, <2>1, <2>2, <2>3
<1>5. CASE md >= mn
  <2>1. ArchRelTimeInMs(d, n) = md - mn
    BY <1>1, <1>2, <1>3, <1>5 DEF ArchRelTimeInMs
  <2>2. (md - mn) * TicksPerMs = md * TicksPerMs - mn * TicksPerMs
    BY <1>1, <1>2
  <2> QED BY <1>1, <1>2, <2>1, <2>2
<1> QED BY <1>2, <1>4, <1>5

\* What a thread inside sem_timedwait knows: its wait, started now or later, or
\* already started, does not end a millisecond before its deadline.
WaitsLongEnough ==
    \A t \in Threads :
       /\ pc[t] = "convert" =>
             /\ deadline[t] \in Deadlines
             /\ now + timeout[t] * TicksPerMs > deadline[t] - TicksPerMs
       /\ pc[t] = "timed" =>
             expiry[t] > deadline[t] - TicksPerMs

LEMMA WaitsLongEnoughStep ==
    ASSUME NearDeadlines, IInv, WaitsLongEnough, [Next]_vars
    PROVE  WaitsLongEnough'
<1> USE CounterAssumption DEF IInv, TypeOK, WaitsLongEnough
<1>1. CASE Tick
  <2>1. \A t \in Threads : timeout[t] * TicksPerMs \in Nat
    OBVIOUS
  <2> QED BY <1>1, <2>1 DEF Tick, waits
<1>2. ASSUME NEW t \in Threads, NEW d \in Deadlines, SemTimedwait(t, d)
      PROVE  WaitsLongEnough'
  <2>1. now + ArchRelTimeInMs(d, now) * TicksPerMs > d - TicksPerMs
    BY RelTimeReaches
  <2> QED BY <1>2, <2>1 DEF SemTimedwait, Enter
<1>3. ASSUME NEW t \in Threads, SemTimedwaitBlock(t) PROVE WaitsLongEnough'
  <2>1. /\ deadline[t] \in 0..MaxTime /\ timeout[t] * TicksPerMs \in Nat
        /\ now + timeout[t] * TicksPerMs > deadline[t] - TicksPerMs
    BY <1>3 DEF SemTimedwaitBlock
  <2>2. AtMostMaxTime(now + timeout[t] * TicksPerMs) > deadline[t] - TicksPerMs
    BY <2>1 DEF AtMostMaxTime
  <2> QED BY <1>3, <2>2 DEF SemTimedwaitBlock
<1>4. ASSUME NEW t \in Threads,
             SemTimedwaitGranted(t) \/ SemTimedwaitExpired(t)
      PROVE  WaitsLongEnough'
  BY <1>4 DEF SemTimedwaitGranted, SemTimedwaitExpired, Return, LeaveTimedwait
<1>5. ASSUME NEW t \in Threads,
             \/ SemWait(t) \/ SemWaitGranted(t) \/ SemTrywait(t) \/ SemPost(t)
             \/ SemGetvalue(t) \/ SemGetvalueRestore(t)
      PROVE  WaitsLongEnough'
  BY <1>5 DEF SemWait, SemWaitGranted, SemTrywait, SemPost, SemGetvalue,
     SemGetvalueRestore, Enter, Return, waits
<1>6. CASE UNCHANGED vars
  BY <1>6 DEF vars
<1> QED BY <1>1, <1>2, <1>3, <1>4, <1>5, <1>6 DEF Next, Step

\* A sem_timedwait gives up less than a millisecond early, for every resolution
\* of the clock, if no deadline is WaitLimit milliseconds or more away.
THEOREM TimeoutBound ==
    ASSUME NearDeadlines
    PROVE  Spec => TimeoutAtMostOneMsEarly
<1>1. Init => WaitsLongEnough
  BY DEF Init, WaitsLongEnough
<1>2. IInv /\ WaitsLongEnough /\ [Next]_vars => WaitsLongEnough'
  BY WaitsLongEnoughStep
<1>3. IInv /\ WaitsLongEnough /\ [Next]_vars =>
         [\A t \in Threads : TimesOut(t) => now > deadline[t] - TicksPerMs]_vars
  <2> SUFFICES ASSUME IInv, WaitsLongEnough, Next,
                      NEW t \in Threads, TimesOut(t)
               PROVE  now > deadline[t] - TicksPerMs
    OBVIOUS
  <2> USE DEF IInv, TypeOK, TimesOut
  <2>1. now >= expiry[t]
    BY DEF Next, Step, Tick, SemWait, SemWaitGranted, SemTrywait, SemTimedwait,
       SemTimedwaitBlock, SemTimedwaitGranted, SemTimedwaitExpired, SemPost,
       SemGetvalue, SemGetvalueRestore, Enter, Return
  <2> QED BY <2>1, CounterAssumption DEF WaitsLongEnough
<1> QED BY <1>1, <1>2, <1>3, InvHolds, PTL DEF Spec, TimeoutAtMostOneMsEarly

-------------------------------------------------------------------------------
(* sem_getvalue                                                            *)

\* Overlapping calls of sem_getvalue report too little, never too much.
THEOREM GetvalueBound == Spec => GetvalueNotTooHigh
<1>1. IInv /\ [Next]_vars =>
         [\A t \in Threads :
             GetvalueReturns(t) /\ ret' = "OK" => val' <= Value']_vars
  <2> SUFFICES ASSUME IInv, Next, NEW t \in Threads,
                      GetvalueReturns(t), ret' = "OK"
               PROVE  val' <= Value'
    OBVIOUS
  <2> USE DEF IInv, TypeOK
  <2>1. SemGetvalueRestore(t)
    BY DEF GetvalueReturns, Next, Step, Tick, SemWait, SemWaitGranted, SemTrywait,
       SemTimedwait, SemTimedwaitBlock, SemTimedwaitGranted,
       SemTimedwaitExpired, SemPost, SemGetvalue, SemGetvalueRestore, Enter, Return
  <2>2. PutUnit /\ val' = count + 1
    BY <2>1 DEF SemGetvalueRestore, Return
  <2>3. Cardinality(Borrowers') = Cardinality(Borrowers) - 1
    BY <2>1, BorrowersLeft DEF SemGetvalueRestore, Return
  <2>4. Cardinality(Borrowers) \in Nat /\ Cardinality(Borrowers) > 0
    <3>1. Borrowers # {}
      BY <2>1 DEF SemGetvalueRestore, Borrowers
    <3> QED BY <3>1, BorrowersFinite, FS_EmptySet
  <2> QED BY <2>2, <2>3, <2>4, CounterAssumption DEF PutUnit, Value
<1> QED BY <1>1, InvHolds, PTL DEF Spec, GetvalueNotTooHigh

\* When every client posts only what it holds, sem_getvalue finds room to put its
\* unit back in every interleaving and leaves the value as it is.  Without that
\* condition it does not: a signaller that fills the semaphore between the two
\* kernel calls makes it drop the unit.
THEOREM GetvalueKeeps ==
    ASSUME Signallers = {}
    PROVE  Spec => GetvalueKeepsValue
<1>1. IInv /\ UnitsConserved /\ [Next]_vars =>
         [\A t \in Threads : GetvalueReturns(t) => Value' = Value]_vars
  <2> SUFFICES ASSUME IInv, UnitsConserved, Next, NEW t \in Threads, GetvalueReturns(t)
               PROVE  Value' = Value
    OBVIOUS
  <2> USE DEF IInv, TypeOK
  <2>1. SemGetvalueRestore(t)
    BY DEF GetvalueReturns, Next, Step, Tick, SemWait, SemWaitGranted, SemTrywait,
       SemTimedwait, SemTimedwaitBlock, SemTimedwaitGranted,
       SemTimedwaitExpired, SemPost, SemGetvalue, SemGetvalueRestore, Enter, Return
  <2>2. t \in Borrowers
    BY <2>1 DEF SemGetvalueRestore, Borrowers
  <2>3. PutUnit
    BY <2>1, <2>2, NeverFull DEF SemGetvalueRestore
  <2>4. Cardinality(Borrowers') = Cardinality(Borrowers) - 1
    BY <2>1, BorrowersLeft DEF SemGetvalueRestore, Return
  <2> QED BY <2>3, <2>4, BorrowersFinite, CounterAssumption DEF PutUnit, Value
<1> QED BY <1>1, InvHolds, Conservation, PTL DEF Spec, GetvalueKeepsValue

-------------------------------------------------------------------------------
(* The end of a timed wait                                                 *)

\* A pending timed wait was given a timeout the kernel does not take for
\* INFINITE, and its end lies within the time the clock runs.
TimedWaitEnds ==
    \A t \in Threads :
       /\ pc[t] \in {"convert", "timed"} => timeout[t] < WaitLimit
       /\ pc[t] = "timed" => expiry[t] <= MaxTime

LEMMA RelTimeFinite == ASSUME NEW d, NEW n PROVE ~(ArchRelTimeInMs(d, n) >= WaitLimit)
<1> DEFINE rel == ArchTimeInMs(d) - ArchTimeInMs(n)
<1>1. CASE rel < 0 \/ rel >= WaitLimit
  <2>1. ArchRelTimeInMs(d, n) = 0
    BY <1>1 DEF ArchRelTimeInMs
  <2> QED BY <2>1, CounterAssumption
<1>2. CASE ~(rel < 0 \/ rel >= WaitLimit)
  <2>1. ArchRelTimeInMs(d, n) = rel
    BY <1>2 DEF ArchRelTimeInMs
  <2> QED BY <1>2, <2>1
<1> QED BY <1>1, <1>2

\* No conversion of any deadline at any time, however late the wait then starts,
\* makes sem_timedwait an infinite wait: once the clock has run long enough, a
\* sem_timedwait that finds no unit gives up.
THEOREM TimedWaitsEnd == Spec => []TimedWaitEnds
<1>1. Init => TimedWaitEnds
  BY DEF Init, TimedWaitEnds
<1>2. IInv /\ TimedWaitEnds /\ [Next]_vars => TimedWaitEnds'
  <2> SUFFICES ASSUME IInv, TimedWaitEnds, [Next]_vars PROVE TimedWaitEnds'
    OBVIOUS
  <2> USE CounterAssumption DEF IInv, TypeOK, TimedWaitEnds
  <2>1. CASE Tick
    BY <2>1 DEF Tick, waits
  <2>2. ASSUME NEW t \in Threads, NEW d \in Deadlines, SemTimedwait(t, d)
        PROVE  TimedWaitEnds'
    <3>1. ArchRelTimeInMs(d, now) \in Nat
      <4>1. d \in Nat /\ now \in Nat
        OBVIOUS
      <4> QED BY <4>1, RelTimeType
    <3>2. ArchRelTimeInMs(d, now) < WaitLimit
      BY <3>1, RelTimeFinite
    <3> QED BY <2>2, <3>2 DEF SemTimedwait, Enter
  <2>3. ASSUME NEW t \in Threads, SemTimedwaitBlock(t) PROVE TimedWaitEnds'
    <3>1. now + timeout[t] * TicksPerMs \in Nat
      OBVIOUS
    <3>2. AtMostMaxTime(now + timeout[t] * TicksPerMs) <= MaxTime
      BY <3>1 DEF AtMostMaxTime
    <3> QED BY <2>3, <3>2 DEF SemTimedwaitBlock
  <2>4. ASSUME NEW t \in Threads, SemTimedwaitGranted(t) \/ SemTimedwaitExpired(t)
        PROVE  TimedWaitEnds'
    BY <2>4 DEF SemTimedwaitGranted, SemTimedwaitExpired, Return, LeaveTimedwait
  <2>5. ASSUME NEW t \in Threads,
               \/ SemWait(t) \/ SemWaitGranted(t) \/ SemTrywait(t) \/ SemPost(t)
               \/ SemGetvalue(t) \/ SemGetvalueRestore(t)
        PROVE  TimedWaitEnds'
    BY <2>5 DEF SemWait, SemWaitGranted, SemTrywait, SemPost, SemGetvalue,
       SemGetvalueRestore, Enter, Return, waits
  <2>6. CASE UNCHANGED vars
    BY <2>6 DEF vars
  <2> QED BY <2>1, <2>2, <2>3, <2>4, <2>5, <2>6 DEF Next, Step
<1> QED BY <1>1, <1>2, InvHolds, PTL DEF Spec

===============================================================================
