-------------------------- MODULE ThreadPool_proofs ---------------------------
(***************************************************************************)
(* Theorems about ThreadPool for any tasks, clients, number of threads,    *)
(* priorities, flags and calls.  Most steps leave the workers alone or     *)
(* wake some of them (WakesOnly); the others move one worker, or make new  *)
(* ones when all are gone.  Hence the counter tasks_running is exact       *)
(* (IInv), and from that follow the waits, the destructor and, with        *)
(* IInv strengthened to Once, the refinement of TaskPool.                  *)
(***************************************************************************)
EXTENDS ThreadPool, FiniteSetTheorems, SequenceTheorems, WellFoundedInduction, TLAPS

\* The workers the code counts in tasks_running.
Counted == Started \cup Busy

IInv == TypeOK /\ RunningCounted

\* A step that at most wakes sleeping workers.
WakesOnly ==
    /\ threads' \in [Worker -> Stages \cup Task]
    /\ \A w \in Worker : \/ threads'[w] = threads[w]
                         \/ threads[w] = "asleep" /\ threads'[w] = "awake"
    /\ tasks_running' = tasks_running

USE DEF Stages, Worker, Live, queue

-------------------------------------------------------------------------------
(* Sequences and sets.                                                     *)

\* What is left of a sequence when one of its elements is taken out.
LEMMA Removed ==
    ASSUME NEW S, NEW s \in Seq(S), NEW i \in DOMAIN s
    PROVE  /\ RemoveAt(s, i) \in Seq(S)
           /\ Len(RemoveAt(s, i)) = Len(s) - 1
           /\ \A j \in 1..(Len(s) - 1) : RemoveAt(s, i)[j] = IF j < i THEN s[j] ELSE s[j + 1]
<1>1. i \in 1..Len(s) /\ Len(s) \in Nat
  OBVIOUS
<1> DEFINE front == SubSeq(s, 1, i - 1)
           back == SubSeq(s, i + 1, Len(s))
<1>2. front \in Seq(S) /\ Len(front) = i - 1 /\ \A j \in 1..(i - 1) : front[j] = s[j]
  BY <1>1
<1>3. /\ back \in Seq(S) /\ Len(back) = Len(s) - i
      /\ \A j \in 1..(Len(s) - i) : back[j] = s[i + j]
  BY <1>1
<1>4. RemoveAt(s, i) = front \o back
  BY DEF RemoveAt
<1> HIDE DEF front, back
<1>5. /\ front \o back \in Seq(S) /\ Len(front \o back) = Len(s) - 1
      /\ \A k \in 1..(Len(s) - 1) :
           (front \o back)[k] = IF k <= i - 1 THEN front[k] ELSE back[k - (i - 1)]
  <2>1. /\ front \o back \in Seq(S) /\ Len(front \o back) = Len(front) + Len(back)
        /\ \A k \in 1..(Len(front) + Len(back)) :
             (front \o back)[k] = IF k <= Len(front) THEN front[k] ELSE back[k - Len(front)]
    BY ONLY <1>2, <1>3, ConcatProperties, Zenon
  <2>2. Len(front) + Len(back) = Len(s) - 1
    BY <1>1, <1>2, <1>3
  <2> QED
    BY <1>2, <2>1, <2>2
<1>6. ASSUME NEW j \in 1..(Len(s) - 1)
      PROVE  (front \o back)[j] = IF j < i THEN s[j] ELSE s[j + 1]
  <2>1. CASE j < i
    BY <1>1, <1>2, <1>5, <2>1
  <2>2. CASE ~(j < i)
    <3>1. (front \o back)[j] = back[j - (i - 1)]
      BY <1>1, <1>5, <2>2
    <3>2. j - (i - 1) \in 1..(Len(s) - i) /\ i + (j - (i - 1)) = j + 1
      BY <1>1, <2>2
    <3> QED
      BY <1>3, <2>2, <3>1, <3>2
  <2> QED
    BY <2>1, <2>2
<1> QED
  BY <1>4, <1>5, <1>6

\* Every set of workers is finite and not larger than the pool may be.
LEMMA WorkerSets ==
    ASSUME NEW S \in SUBSET Worker
    PROVE  IsFiniteSet(S) /\ Cardinality(S) \in 0..MaxThreads
<1>1. IsFiniteSet(1..MaxThreads) /\ Cardinality(1..MaxThreads) = MaxThreads
  BY PoolAssumption, FS_Interval
<1>2. IsFiniteSet(S) /\ Cardinality(S) <= MaxThreads
  BY <1>1, FS_Subset
<1> QED
  BY <1>2, PoolAssumption, FS_CardinalityType

-------------------------------------------------------------------------------
(* The counter of running tasks.                                           *)

LEMMA CountedSet == TypeOK => Counted \subseteq Worker
BY DEF TypeOK, Counted, Started, Busy

\* A step that at most wakes workers changes neither the count nor what it counts.
LEMMA WakesKeepCounted ==
    ASSUME TypeOK, WakesOnly PROVE Counted' = Counted /\ Busy' = Busy
BY PoolAssumption DEF TypeOK, WakesOnly, Counted, Started, Busy

LEMMA WakeWorkersWakes ==
    ASSUME TypeOK, threads' = WakeWorkers, tasks_running' = tasks_running PROVE WakesOnly
BY DEF TypeOK, WakesOnly, WakeWorkers, Asleep

LEMMA SameWakes ==
    ASSUME TypeOK, UNCHANGED <<threads, tasks_running>> PROVE WakesOnly
BY DEF TypeOK, WakesOnly

LEMMA OneWakes ==
    ASSUME TypeOK, NEW w \in Asleep, threads' = [threads EXCEPT ![w] = "awake"],
           tasks_running' = tasks_running
    PROVE  WakesOnly
BY DEF TypeOK, WakesOnly, Asleep

\* The steps that do more than wake workers.
Moves == \/ \E w \in Worker : Work(w)
         \/ \E c \in Client : CreateThreads(c)

LEMMA OthersWake == ASSUME TypeOK, [Next]_vars PROVE WakesOnly \/ Moves
<1> SUFFICES ASSUME ~Moves PROVE WakesOnly
  OBVIOUS
<1>0. CASE UNCHANGED vars
  BY <1>0, SameWakes DEF vars
<1>1. ASSUME NEW c \in Client, Request(c) PROVE WakesOnly
  BY <1>1, SameWakes
     DEF Request, DetachTask, Purge, Pause, Unpause, Wait, Reset, Destroy
<1>2. ASSUME NEW c \in Client, Proceed(c) PROVE WakesOnly
  <2>1. CASE NotifyOne(c)
    BY <2>1, SameWakes, OneWakes DEF NotifyOne
  <2>2. CASE NotifyAll(c)
    BY <2>2, WakeWorkersWakes DEF NotifyAll
  <2>3. CASE RequestStop(c)
    BY <2>3, SameWakes, WakeWorkersWakes DEF RequestStop
  <2>4. CASE CreateThreads(c)
    BY <2>4 DEF Moves
  <2>5. CASE \/ \E k \in {"reset", "destroy"} : Wait(c, k)
             \/ WaitAgain(c) \/ Restore(c) \/ Destroyed(c)
    BY <2>5, SameWakes DEF Wait, WaitAgain, Restore, Destroyed
  <2> QED
    BY <1>2, <2>1, <2>2, <2>3, <2>4, <2>5 DEF Proceed
<1>3. ASSUME NEW c \in Client, WaitTimeout(c) PROVE WakesOnly
  BY <1>3, SameWakes DEF WaitTimeout
<1>4. CASE Spurious
  BY <1>4, SameWakes, OneWakes DEF Spurious
<1> QED
  BY <1>0, <1>1, <1>2, <1>3, <1>4 DEF Next, Moves

\* One worker moves: it is counted afterwards, or it is not.
LEMMA OneMoves ==
    ASSUME TypeOK, NEW w \in Worker, NEW v \in Stages \cup Task,
           threads' = [threads EXCEPT ![w] = v]
    PROVE  /\ v \in Task \cup {"start"} =>
                Cardinality(Counted') = Cardinality(Counted) + IF w \in Counted THEN 0 ELSE 1
           /\ v \notin Task \cup {"start"} =>
                Cardinality(Counted') = Cardinality(Counted) - IF w \in Counted THEN 1 ELSE 0
<1>1. IsFiniteSet(Counted) /\ Cardinality(Counted) \in Nat
  BY CountedSet, WorkerSets
<1>2. CASE v \in Task \cup {"start"}
  <2>1. Counted' = Counted \cup {w}
    BY <1>2 DEF TypeOK, Counted, Started, Busy
  <2>2. Cardinality(Counted') = IF w \in Counted THEN Cardinality(Counted) ELSE Cardinality(Counted) + 1
    BY ONLY <1>1, <2>1, FS_AddElement
  <2> QED
    BY <1>1, <1>2, <2>2
<1>3. CASE v \notin Task \cup {"start"}
  <2>1. Counted' = Counted \ {w}
    BY <1>3 DEF TypeOK, Counted, Started, Busy
  <2>2. Cardinality(Counted') = IF w \in Counted THEN Cardinality(Counted) - 1 ELSE Cardinality(Counted)
    BY ONLY <1>1, <2>1, FS_RemoveElement
  <2> QED
    BY <1>1, <1>3, <2>2
<1> QED
  BY <1>2, <1>3

\* Which workers a turn starts from are counted.
LEMMA TurnCounted ==
    ASSUME TypeOK, NEW w \in Worker, Turn(w)
    PROVE  w \in Counted <=> threads[w] = "start"
BY PoolAssumption DEF TypeOK, Turn, Counted, Started, Busy

LEMMA NewThreadsCounted ==
    ASSUME NEW n \in Worker, threads' = NewThreads(n)
    PROVE  /\ threads' \in [Worker -> Stages \cup Task]
           /\ Counted' = 1..n /\ Cardinality(1..n) = n
<1>1. n \in 1..MaxThreads /\ MaxThreads \in Nat
  BY PoolAssumption
<1>2. \A w \in Worker : threads'[w] = IF w <= n THEN "start" ELSE "gone"
  BY DEF NewThreads
<1>3. "gone" \notin Task
  BY PoolAssumption
<1>4. Counted' = 1..n
  BY <1>1, <1>2, <1>3 DEF Counted, Started, Busy
<1> QED
  BY <1>1, <1>4, FS_Interval DEF NewThreads

LEMMA CountInit == Init => RunningCounted /\ threads \in [Worker -> Stages \cup Task]
<1> SUFFICES ASSUME Init PROVE RunningCounted /\ threads \in [Worker -> Stages \cup Task]
  OBVIOUS
<1>1. PICK n \in Worker : tasks_running = n /\ threads = NewThreads(n)
  BY DEF Init
<1>2. n \in 1..MaxThreads /\ MaxThreads \in Nat /\ "gone" \notin Task
  BY PoolAssumption
<1>3. Started \cup Busy = 1..n
  BY <1>1, <1>2 DEF NewThreads, Started, Busy
<1>4. Cardinality(1..n) = n
  BY <1>2, FS_Interval
<1> QED
  BY <1>1, <1>3, <1>4 DEF NewThreads, RunningCounted

LEMMA CountStep ==
    ASSUME IInv, [Next]_vars
    PROVE  RunningCounted' /\ threads' \in [Worker -> Stages \cup Task]
<1> DEFINE Goal == tasks_running' = Cardinality(Counted')
                   /\ threads' \in [Worker -> Stages \cup Task]
<1>0. /\ TypeOK /\ tasks_running = Cardinality(Counted) /\ tasks_running \in Nat
      /\ threads \in [Worker -> Stages \cup Task] /\ tasks \in Seq(Task)
  BY PoolAssumption DEF IInv, RunningCounted, Counted, TypeOK
<1>1. ASSUME WakesOnly PROVE Goal
  BY <1>0, <1>1, WakesKeepCounted DEF WakesOnly
<1>2. ASSUME NEW c \in Client, CreateThreads(c) PROVE Goal
  <2>1. PICK n \in Worker : tasks_running' = n /\ threads' = NewThreads(n)
    BY <1>2 DEF CreateThreads
  <2> QED
    BY <2>1, NewThreadsCounted
<1>3. ASSUME NEW w \in Worker, Work(w) PROVE Goal
  <2>1. CASE Take(w)
    <3>1. PICK t \in Task : threads' = [threads EXCEPT ![w] = t]
      <4>1. PICK i \in DOMAIN tasks : threads' = [threads EXCEPT ![w] = tasks[i]]
        BY <2>1 DEF Take
      <4>2. tasks[i] \in Task
        BY <1>0, <4>1
      <4> QED
        BY <4>1, <4>2
    <3>2. Turn(w) /\ tasks_running' = Running(w) + 1
      BY <2>1 DEF Take
    <3>3. Cardinality(Counted') = Cardinality(Counted) + IF w \in Counted THEN 0 ELSE 1
      BY <1>0, <3>1, OneMoves
    <3> QED
      BY <1>0, <3>1, <3>2, <3>3, TurnCounted DEF Running
  <2>2. ASSUME NEW v \in {"asleep", "gone"}, Turn(w), tasks_running' = Running(w),
               threads' = [threads EXCEPT ![w] = v]
        PROVE  Goal
    <3>1. v \in Stages \cup Task /\ v \notin Task \cup {"start"}
      BY PoolAssumption
    <3>2. Cardinality(Counted') = Cardinality(Counted) - IF w \in Counted THEN 1 ELSE 0
      BY <1>0, <2>2, <3>1, OneMoves
    <3> QED
      BY <1>0, <2>2, <3>1, <3>2, TurnCounted DEF Running
  <2>3. CASE Sleep(w) \/ Quit(w)
    BY <2>2, <2>3 DEF Sleep, Quit
  <2>4. CASE RunTask(w)
    <3>1. /\ threads[w] \in Task /\ tasks_running' = tasks_running
          /\ threads' = [threads EXCEPT ![w] = "start"]
      BY <2>4 DEF RunTask
    <3>2. w \in Counted
      BY <3>1 DEF Counted, Busy
    <3>3. Cardinality(Counted') = Cardinality(Counted) + IF w \in Counted THEN 0 ELSE 1
      BY <1>0, <3>1, OneMoves
    <3> QED
      BY <1>0, <3>1, <3>2, <3>3
  <2> QED
    BY <1>3, <2>1, <2>3, <2>4 DEF Work
<1>4. Goal
  BY <1>0, <1>1, <1>2, <1>3, OthersWake DEF Moves
<1> QED
  BY <1>4 DEF RunningCounted, Counted

\* The types of the variables the count is not about.
Places == {"idle", "one", "all", "blocked", "woken", "reset", "destroy", "join",
           "restore", "dead"}
Members == {"none", "wait", "wait_for", "reset", "destroy"}
QueueType == tasks \in Seq(Task) /\ done \subseteq Task /\ purged \subseteq Task
ClientType == pc \in [Client -> Places] /\ call \in [Client -> Members]
FlagType == /\ flags \in FlagSets /\ stop \subseteq Worker
            /\ paused \in BOOLEAN /\ waiting \in BOOLEAN /\ was_paused \in BOOLEAN

LEMMA TypeParts ==
    TypeOK <=> /\ QueueType /\ ClientType /\ FlagType
               /\ tasks_running \in 0..MaxThreads /\ threads \in [Worker -> Stages \cup Task]
BY DEF TypeOK, QueueType, ClientType, FlagType, Places, Members

LEMMA QueueStep == ASSUME TypeOK, [Next]_vars PROVE QueueType'
<1>0. QueueType /\ threads \in [Worker -> Stages \cup Task]
  BY TypeParts
<1>1. ASSUME NEW c \in Client, Request(c) \/ Proceed(c) \/ WaitTimeout(c) PROVE QueueType'
  <2>1. CASE \E t \in Task : DetachTask(c, t)
    BY <1>0, <2>1 DEF DetachTask, QueueType
  <2>2. CASE Purge(c)
    <3>1. ToSet(tasks) \subseteq Task
      BY <1>0 DEF QueueType, ToSet
    <3> QED
      BY <1>0, <2>2, <3>1 DEF Purge, QueueType
  <2>3. CASE UNCHANGED queue
    BY <1>0, <2>3 DEF QueueType
  <2> QED
    BY <1>1, <2>1, <2>2, <2>3
       DEF Request, Proceed, WaitTimeout, Pause, Unpause, Wait, Reset, Destroy, NotifyOne,
           NotifyAll, WaitAgain, RequestStop, CreateThreads, Restore, Destroyed
<1>2. ASSUME NEW w \in Worker, Work(w) PROVE QueueType'
  <2>1. CASE Take(w)
    <3>1. tasks' \in Seq(Task)
      BY <1>0, <2>1, Removed DEF Take, QueueType
    <3> QED
      BY <1>0, <2>1, <3>1 DEF Take, Turn, QueueType
  <2>2. CASE Sleep(w) \/ Quit(w)
    BY <1>0, <2>2 DEF Sleep, Quit, Turn, QueueType
  <2>3. CASE RunTask(w)
    BY <1>0, <2>3 DEF RunTask, QueueType
  <2> QED
    BY <1>2, <2>1, <2>2, <2>3 DEF Work
<1>3. CASE Spurious \/ UNCHANGED vars
  BY <1>0, <1>3 DEF Spurious, QueueType, vars
<1> QED
  BY <1>1, <1>2, <1>3 DEF Next

LEMMA ClientStep == ASSUME TypeOK, [Next]_vars PROVE ClientType'
<1>0. ClientType
  BY TypeParts
<1>1. ASSUME NEW c \in Client, NEW place \in Places, Goto(c, place),
             \/ UNCHANGED call
             \/ \E k \in Members : call' = [call EXCEPT ![c] = k]
      PROVE  ClientType'
  BY <1>0, <1>1 DEF Goto, ClientType
<1>2. ASSUME NEW c \in Client, NEW k \in Members, Return(c, k) \/ Block(c, k) PROVE ClientType'
  BY <1>1, <1>2 DEF Return, Block, Places, Members
<1>3. ASSUME NEW c \in Client, Request(c) \/ Proceed(c) \/ WaitTimeout(c) PROVE ClientType'
  <2>1. CASE \E k \in {"wait", "wait_for", "reset", "destroy"} : Wait(c, k)
    BY <1>2, <2>1 DEF Wait, Members
  <2>2. CASE WaitAgain(c) \/ WaitTimeout(c)
    BY <1>0, <1>2, <2>2 DEF WaitAgain, WaitTimeout, ClientType
  <2>3. CASE Purge(c) \/ Pause(c) \/ RequestStop(c)
    BY <1>0, <2>3 DEF Purge, Pause, RequestStop, ClientType
  <2>4. CASE \/ \E t \in Task : DetachTask(c, t)
             \/ Unpause(c) \/ NotifyOne(c) \/ NotifyAll(c) \/ Reset(c) \/ CreateThreads(c)
             \/ Destroyed(c)
    BY <1>1, <2>4 DEF DetachTask, Unpause, NotifyOne, NotifyAll, Reset, CreateThreads, Destroyed,
                      Places
  <2>5. CASE Destroy(c) \/ Restore(c)
    BY <1>1, <2>5 DEF Destroy, Restore, Places, Members
  <2> QED
    BY <1>3, <2>1, <2>2, <2>3, <2>4, <2>5 DEF Request, Proceed
<1>4. ASSUME NEW w \in Worker, Work(w) PROVE ClientType'
  BY <1>0, <1>4 DEF Work, Take, Sleep, Quit, RunTask, Turn, ClientType, Places
<1>5. CASE Spurious
  BY <1>0, <1>1, <1>5 DEF Spurious, At, Places, ClientType
<1>6. CASE UNCHANGED vars
  BY <1>0, <1>6 DEF vars, ClientType
<1> QED
  BY <1>3, <1>4, <1>5, <1>6 DEF Next

LEMMA FlagStep == ASSUME TypeOK, [Next]_vars PROVE FlagType'
<1>0. FlagType
  BY TypeParts
<1>1. ASSUME NEW c \in Client, Request(c) PROVE FlagType'
  <2>1. CASE Reset(c)
    <3>1. paused' \in BOOLEAN
      <4>1. paused' = Pausable
        BY <2>1 DEF Reset
      <4>2. Pausable \in BOOLEAN
        BY DEF Pausable
      <4> QED
        BY ONLY <4>1, <4>2
    <3>2. was_paused' = paused
      BY <2>1 DEF Reset
    <3> QED
      BY <1>0, <2>1, <3>1, <3>2 DEF Reset, FlagType
  <2>2. CASE ~Reset(c)
    BY <1>0, <1>1, <2>2
       DEF Request, DetachTask, Purge, Pause, Unpause, Wait, Return, Destroy, FlagType
  <2> QED
    BY <2>1, <2>2
<1>2. ASSUME NEW c \in Client, Proceed(c) PROVE FlagType'
  BY <1>0, <1>2
     DEF Proceed, NotifyOne, NotifyAll, Wait, WaitAgain, Return, RequestStop, CreateThreads,
         Restore, Destroyed, FlagType
<1>3. ASSUME NEW c \in Client, WaitTimeout(c) PROVE FlagType'
  BY <1>0, <1>3 DEF WaitTimeout, Return, FlagType
<1>4. ASSUME NEW w \in Worker, Work(w) PROVE FlagType'
  BY <1>0, <1>4 DEF Work, Take, Sleep, Quit, RunTask, Turn, FlagType
<1>5. CASE Spurious \/ UNCHANGED vars
  BY <1>0, <1>5 DEF Spurious, vars, FlagType
<1> QED
  BY <1>1, <1>2, <1>3, <1>4, <1>5 DEF Next

LEMMA IInvInit == Init => IInv
<1> SUFFICES ASSUME Init PROVE IInv
  OBVIOUS
<1>1. RunningCounted /\ threads \in [Worker -> Stages \cup Task]
  BY CountInit
<1>2. tasks_running \in 0..MaxThreads
  BY PoolAssumption DEF Init
<1>3. QueueType /\ FlagType
  <2>1. tasks = <<>> /\ done = {} /\ purged = {}
    BY DEF Init
  <2>2. /\ flags \in FlagSets /\ stop = {}
        /\ paused = FALSE /\ waiting = FALSE /\ was_paused = FALSE
    BY DEF Init
  <2>3. QueueType
    BY <2>1 DEF QueueType
  <2>4. FlagType
    BY <2>2 DEF FlagType
  <2> QED
    BY <2>3, <2>4
<1>4. ClientType
  BY DEF Init, ClientType, Places, Members
<1> QED
  BY <1>1, <1>2, <1>3, <1>4, TypeParts DEF IInv

LEMMA IInvStep == ASSUME IInv, [Next]_vars PROVE IInv'
<1>1. TypeOK /\ RunningCounted' /\ threads' \in [Worker -> Stages \cup Task]
  BY CountStep DEF IInv
<1>2. QueueType' /\ ClientType' /\ FlagType'
  BY <1>1, QueueStep, ClientStep, FlagStep
<1>3. tasks_running' \in 0..MaxThreads
  <2>1. (Started \cup Busy)' \in SUBSET Worker
    BY DEF Started, Busy
  <2> QED
    BY <1>1, <2>1, WorkerSets DEF RunningCounted
<1>4. TypeOK'
  BY <1>1, <1>2, <1>3 DEF TypeOK, QueueType, ClientType, FlagType, Places, Members
<1> QED
  BY <1>1, <1>4 DEF IInv

LEMMA Invariant == Spec => []IInv
<1>1. IInv /\ [Next]_vars => IInv'
  BY IInvStep
<1> QED
  BY <1>1, IInvInit, PTL DEF Spec

\* The variables keep their types.
THEOREM TypeCorrect == Spec => []TypeOK
<1>1. IInv => TypeOK
  BY DEF IInv
<1> QED
  BY <1>1, Invariant, PTL

\* The counter tasks_running, from which wait() and the notifications decide,
\* is exact whatever the workers and clients do in whatever order.
THEOREM CountExact == Spec => []RunningCounted
<1>1. IInv => RunningCounted
  BY DEF IInv
<1> QED
  BY <1>1, Invariant, PTL

-------------------------------------------------------------------------------
(* What the waits may rely on.                                             *)

\* The condition of wait() says what its users expect of it.
LEMMA DoneMeansIdle ==
    ASSUME IInv, WaitDone
    PROVE  Busy = {} /\ Started = {} /\ (paused \/ tasks = <<>>)
<1>1. Cardinality(Counted) = 0 /\ (paused \/ tasks = <<>>)
  BY DEF IInv, RunningCounted, Counted, WaitDone
<1>2. IsFiniteSet(Counted)
  BY CountedSet, WorkerSets DEF IInv
<1>3. Counted = {}
  BY ONLY <1>1, <1>2, FS_EmptySet
<1> QED
  BY <1>1, <1>3 DEF Counted

\* A worker that has come from a task or from its creation is still counted.
LEMMA StartCounted ==
    ASSUME IInv, NEW w \in Worker, threads[w] = "start"
    PROVE  tasks_running \in Nat \ {0}
<1>1. IsFiniteSet(Counted) /\ tasks_running = Cardinality(Counted) /\ tasks_running \in Nat
  BY CountedSet, WorkerSets DEF IInv, RunningCounted, Counted
<1>2. Counted # {}
  BY DEF Counted, Started
<1>3. tasks_running # 0
  BY ONLY <1>1, <1>2, FS_EmptySet
<1> QED
  BY <1>1, <1>3

LEMMA WaitStep ==
    ASSUME IInv, [Next]_vars, NEW c \in Client, Returned(c)
    PROVE  Busy = {} /\ (paused \/ tasks = <<>>)
<1>0. /\ pc \in [Client -> Places] /\ call \in [Client -> Members]
      /\ pc[c] \in {"blocked", "woken", "reset", "destroy"} /\ pc'[c] \in {"idle", "join"}
      /\ call[c] # "wait_for"
  BY TypeParts DEF IInv, ClientType, Returned
<1> SUFFICES WaitDone
  BY DoneMeansIdle
<1>1. ASSUME NEW d \in Client, Request(d) PROVE WaitDone
  <2>1. CASE d = c
    BY <1>0, <1>1, <2>1 DEF Request, DetachTask, Purge, Pause, Unpause, Wait, Reset, Destroy, Enter
  <2>2. CASE d # c
    BY <1>0, <1>1, <2>2
       DEF Request, DetachTask, Purge, Pause, Unpause, Wait, Return, Block, Reset, Destroy, Goto
  <2> QED
    BY <2>1, <2>2
<1>2. ASSUME NEW d \in Client, Proceed(d) PROVE WaitDone
  <2>1. CASE d = c
    BY <1>0, <1>2, <2>1
       DEF Proceed, NotifyOne, NotifyAll, Wait, WaitAgain, Block, RequestStop,
           CreateThreads, Restore, Destroyed, Goto
  <2>2. CASE d # c
    BY <1>0, <1>2, <2>2
       DEF Proceed, NotifyOne, NotifyAll, Wait, WaitAgain, Return, Block, RequestStop,
           CreateThreads, Restore, Destroyed, Goto
  <2> QED
    BY <2>1, <2>2
<1>3. ASSUME NEW d \in Client, WaitTimeout(d) PROVE WaitDone
  BY <1>0, <1>3 DEF WaitTimeout, Return, Goto
<1>4. ASSUME NEW w \in Worker, Work(w) PROVE WaitDone
  BY <1>0, <1>4 DEF Work, Take, Sleep, Quit, RunTask, Turn
<1>5. CASE Spurious \/ UNCHANGED vars
  BY <1>0, <1>5 DEF Spurious, At, Goto, vars
<1> QED
  BY <1>1, <1>2, <1>3, <1>4, <1>5 DEF Next

\* A wait() that returns has seen every task finished, and the queue empty
\* unless the pool is paused; reset and the destructor stop the workers
\* only then.
THEOREM WaitCorrect == Spec => WaitMeansDone
<1>1. IInv /\ [Next]_vars => \A c \in Client : Returned(c) => Busy = {} /\ (paused \/ tasks = <<>>)
  BY WaitStep
<1>2. IInv /\ [Next]_vars
      => [\A c \in Client : Returned(c) => Busy = {} /\ (paused \/ tasks = <<>>)]_vars
  BY <1>1
<1> QED
  BY <1>2, Invariant, PTL DEF Spec, WaitMeansDone

-------------------------------------------------------------------------------
(* A task is in one place only.                                            *)

Runs == {threads[w] : w \in Busy}

Distinct == \A i, j \in DOMAIN tasks : tasks[i] = tasks[j] => i = j
QueuedOnly == ToSet(tasks) \cap (Runs \cup done \cup purged) = {}
OneWorker == \A v, w \in Busy : threads[v] = threads[w] => v = w

Once == Distinct /\ QueuedOnly /\ OneWorker

\* A step that leaves alone the queue, what was done, and the workers' tasks.
QueueAlone == UNCHANGED queue /\ Busy' = Busy /\ \A w \in Busy : threads'[w] = threads[w]

LEMMA AloneKeepsOnce == ASSUME Once, QueueAlone PROVE Once' /\ Runs' = Runs
<1>1. Runs' = Runs
  BY DEF QueueAlone, Runs
<1> QED
  BY <1>1 DEF Once, QueueAlone, Distinct, QueuedOnly, OneWorker

LEMMA WakesAlone == ASSUME TypeOK, WakesOnly, UNCHANGED queue PROVE QueueAlone
<1>1. Busy' = Busy
  BY WakesKeepCounted
<1> QED
  BY <1>1, PoolAssumption DEF QueueAlone, WakesOnly, Busy

\* A step between two tasks of a worker, or to the end of the worker.
LEMMA TurnAlone ==
    ASSUME TypeOK, NEW w \in Worker, Sleep(w) \/ Quit(w) PROVE QueueAlone
BY PoolAssumption DEF TypeOK, Sleep, Quit, Turn, QueueAlone, Busy

LEMMA CreateAlone ==
    ASSUME TypeOK, NEW c \in Client, CreateThreads(c) PROVE Busy = {} /\ QueueAlone
<1>1. Busy = {}
  BY PoolAssumption DEF CreateThreads, Busy
<1>2. PICK n \in Worker : threads' = NewThreads(n)
  BY DEF CreateThreads
<1>3. Busy' = {}
  BY <1>2, PoolAssumption DEF NewThreads, Busy
<1> QED
  BY <1>1, <1>3 DEF QueueAlone, CreateThreads

\* Which steps change the queue or what runs.
Touches ==
    \/ \E c \in Client : Purge(c) \/ \E t \in Task : DetachTask(c, t)
    \/ \E w \in Worker : Take(w) \/ RunTask(w)

LEMMA OthersAlone == ASSUME TypeOK, [Next]_vars PROVE QueueAlone \/ Touches
<1> SUFFICES ASSUME ~Touches PROVE QueueAlone
  OBVIOUS
<1>1. ASSUME NEW w \in Worker, Work(w) PROVE QueueAlone
  BY <1>1, TurnAlone DEF Work, Touches
<1>2. ASSUME NEW c \in Client, CreateThreads(c) PROVE QueueAlone
  BY <1>2, CreateAlone
<1>3. CASE WakesOnly /\ ~Moves
  <2>1. UNCHANGED queue
    BY <1>3
       DEF Next, vars, Touches, Moves, Request, Proceed, WaitTimeout, Pause, Unpause, Wait, Reset,
           Destroy, NotifyOne, NotifyAll, WaitAgain, RequestStop, Restore, Destroyed, Spurious
  <2> QED
    BY <1>3, <2>1, WakesAlone
<1> QED
  BY <1>1, <1>2, <1>3, OthersWake DEF Moves

LEMMA OnceInit == Init => Once
<1> SUFFICES ASSUME Init PROVE Once
  OBVIOUS
<1>1. tasks = <<>>
  BY DEF Init
<1>2. Busy = {}
  BY PoolAssumption DEF Init, NewThreads, Busy
<1> QED
  BY <1>1, <1>2 DEF Once, Distinct, QueuedOnly, OneWorker, ToSet

LEMMA TakeFacts ==
    ASSUME TypeOK, Once, NEW w \in Worker, Take(w)
    PROVE  \E i \in DOMAIN tasks :
             /\ tasks[i] \in Task /\ Top(i) /\ tasks' = RemoveAt(tasks, i)
             /\ threads' = [threads EXCEPT ![w] = tasks[i]]
             /\ w \notin Busy /\ Busy' = Busy \cup {w}
             /\ Runs' = Runs \cup {tasks[i]}
             /\ Distinct' /\ ToSet(tasks') \subseteq ToSet(tasks) \ {tasks[i]}
<1>0. tasks \in Seq(Task) /\ threads \in [Worker -> Stages \cup Task]
  BY DEF TypeOK
<1>1. PICK i \in DOMAIN tasks : /\ Top(i) /\ tasks' = RemoveAt(tasks, i)
                                /\ threads' = [threads EXCEPT ![w] = tasks[i]]
  BY DEF Take
<1>2. tasks[i] \in Task
  BY <1>0, <1>1
<1>3. w \notin Busy /\ Busy' = Busy \cup {w}
  BY <1>0, <1>1, <1>2, PoolAssumption DEF Take, Turn, Busy
<1>4. Runs' = Runs \cup {tasks[i]}
  BY <1>0, <1>1, <1>2, <1>3 DEF Runs, Busy
<1>5. /\ tasks' \in Seq(Task) /\ Len(tasks') = Len(tasks) - 1
      /\ \A j \in 1..(Len(tasks) - 1) : tasks'[j] = IF j < i THEN tasks[j] ELSE tasks[j + 1]
  BY <1>0, <1>1, Removed
<1>6. Distinct' /\ ToSet(tasks') \subseteq ToSet(tasks) \ {tasks[i]}
  <2>1. DOMAIN tasks = 1..Len(tasks) /\ Len(tasks) \in Nat /\ DOMAIN tasks' = 1..(Len(tasks) - 1)
    BY <1>0, <1>5
  <2>2. ASSUME NEW j \in DOMAIN tasks'
        PROVE  \E k \in DOMAIN tasks :
                 k = (IF j < i THEN j ELSE j + 1) /\ k # i /\ tasks'[j] = tasks[k]
    BY <1>1, <1>5, <2>1, <2>2
  <2>3. Distinct'
    <3>1. ASSUME NEW j \in DOMAIN tasks', NEW k \in DOMAIN tasks', tasks'[j] = tasks'[k]
          PROVE  j = k
      <4>1. (IF j < i THEN j ELSE j + 1) = (IF k < i THEN k ELSE k + 1)
        BY <2>2, <3>1 DEF Once, Distinct
      <4> QED
        BY <1>1, <2>1, <4>1
    <3> QED
      BY <3>1 DEF Distinct
  <2>4. ToSet(tasks') \subseteq ToSet(tasks) \ {tasks[i]}
    BY <1>1, <2>2 DEF Once, Distinct, ToSet
  <2> QED
    BY <2>3, <2>4
<1> QED
  BY <1>1, <1>2, <1>3, <1>4, <1>6

LEMMA OnceStep == ASSUME TypeOK, Once, [Next]_vars PROVE Once'
<1>0. tasks \in Seq(Task) /\ threads \in [Worker -> Stages \cup Task]
  BY DEF TypeOK
<1>1. CASE QueueAlone
  BY <1>1, AloneKeepsOnce
<1>2. ASSUME NEW c \in Client, NEW t \in Task, DetachTask(c, t) PROVE Once'
  <2>1. /\ tasks' = Append(tasks, t) /\ UNCHANGED <<threads, done, purged>>
        /\ t \notin ToSet(tasks) \cup done \cup purged \cup {threads[w] : w \in Worker}
    BY <1>2 DEF DetachTask, Fresh
  <2>2. DOMAIN tasks' = DOMAIN tasks \cup {Len(tasks) + 1} /\ Len(tasks) + 1 \notin DOMAIN tasks
    BY <1>0, <2>1
  <2>3. tasks'[Len(tasks) + 1] = t /\ \A i \in DOMAIN tasks : tasks'[i] = tasks[i]
    BY <1>0, <2>1
  <2>4. \A i \in DOMAIN tasks : tasks[i] # t
    BY <2>1 DEF ToSet
  <2>5. Distinct'
    BY <2>2, <2>3, <2>4 DEF Once, Distinct
  <2>6. ToSet(tasks') = ToSet(tasks) \cup {t}
    BY <2>2, <2>3 DEF ToSet
  <2>7. Busy' = Busy /\ Runs' = Runs /\ t \notin Runs
    BY <2>1 DEF Busy, Runs
  <2>8. QueuedOnly'
    BY <2>1, <2>6, <2>7 DEF Once, QueuedOnly
  <2> QED
    BY <2>1, <2>5, <2>7, <2>8 DEF Once, OneWorker
<1>3. ASSUME NEW c \in Client, Purge(c) PROVE Once'
  <2>1. tasks' = <<>> /\ UNCHANGED threads
    BY <1>3 DEF Purge
  <2>2. DOMAIN tasks' = {} /\ ToSet(tasks') = {}
    BY <2>1 DEF ToSet
  <2>3. Busy' = Busy
    BY <2>1 DEF Busy
  <2> QED
    BY <2>1, <2>2, <2>3 DEF Once, Distinct, QueuedOnly, OneWorker
<1>4. ASSUME NEW w \in Worker, Take(w) PROVE Once'
  <2>1. PICK i \in DOMAIN tasks :
             /\ tasks[i] \in Task /\ threads' = [threads EXCEPT ![w] = tasks[i]]
             /\ w \notin Busy /\ Busy' = Busy \cup {w} /\ Runs' = Runs \cup {tasks[i]}
             /\ Distinct' /\ ToSet(tasks') \subseteq ToSet(tasks) \ {tasks[i]}
    BY <1>4, TakeFacts
  <2>2. tasks[i] \notin Runs /\ UNCHANGED <<done, purged>>
    BY <1>4, <2>1 DEF Once, QueuedOnly, ToSet, Take, Turn
  <2>3. QueuedOnly'
    BY <2>1, <2>2 DEF Once, QueuedOnly
  <2>4. OneWorker'
    <3>1. threads'[w] = tasks[i] /\ \A v \in Busy : threads'[v] = threads[v] /\ threads[v] \in Runs
      BY <1>0, <2>1 DEF Busy, Runs
    <3> QED
      BY <2>1, <2>2, <3>1 DEF Once, OneWorker
  <2> QED
    BY <2>1, <2>3, <2>4 DEF Once
<1>5. ASSUME NEW w \in Worker, RunTask(w) PROVE Once'
  <2>1. /\ threads[w] \in Task /\ threads' = [threads EXCEPT ![w] = "start"]
        /\ done' = done \cup {threads[w]} /\ UNCHANGED <<tasks, purged>>
    BY <1>5 DEF RunTask
  <2>2. w \in Busy /\ threads[w] \in Runs
    BY <2>1 DEF Busy, Runs
  <2>3. Busy' = Busy \ {w} /\ \A v \in Busy' : threads'[v] = threads[v]
    BY <1>0, <2>1, PoolAssumption DEF Busy
  <2>4. Runs' \subseteq Runs
    BY <2>3 DEF Runs
  <2>5. QueuedOnly'
    BY <2>1, <2>2, <2>4 DEF Once, QueuedOnly
  <2> QED
    BY <2>1, <2>3, <2>5 DEF Once, Distinct, OneWorker
<1> QED
  BY <1>1, <1>2, <1>3, <1>4, <1>5, OthersAlone DEF Touches

LEMMA OnceInvariant == Spec => []Once
<1>1. IInv /\ Once /\ [Next]_vars => Once'
  BY OnceStep DEF IInv
<1> QED
  BY <1>1, Invariant, OnceInit, PTL DEF Spec

-------------------------------------------------------------------------------
(* Who may leave a waiter asleep.                                          *)

LEMMA StrandedStep ==
    ASSUME IInv, Once, [Next]_vars, NEW c \in Client, Stranded(c)'
    PROVE  Stranded(c) \/ Deaf(c) \/ (paused' /\ ~paused) \/ purged' # purged
<1>0. /\ pc \in [Client -> Places] /\ tasks \in Seq(Task)
      /\ pc'[c] = "blocked" /\ tasks_running' = 0 /\ (paused' \/ tasks' = <<>>)
  BY TypeParts DEF IInv, ClientType, QueueType, Stranded, WaitDone
<1> SUFFICES ASSUME ~(paused' /\ ~paused), purged' = purged, ~Deaf(c)
             PROVE  Stranded(c)
  OBVIOUS
<1>1. ASSUME tasks_running' = tasks_running, \/ paused' = paused /\ tasks' = tasks
                                             \/ tasks = <<>>
                                             \/ paused,
             pc[c] = "blocked"
      PROVE  Stranded(c)
  BY <1>0, <1>1 DEF Stranded, WaitDone
<1>2. ASSUME NEW d \in Client, Request(d) PROVE Stranded(c)
  <2>1. CASE \E t \in Task : DetachTask(d, t)
    <3>1. tasks' # <<>> /\ paused' = paused /\ tasks_running' = tasks_running
      BY <1>0, <2>1 DEF DetachTask
    <3>2. pc[c] = "blocked"
      BY <1>0, <2>1 DEF DetachTask, Goto
    <3> QED
      BY <1>0, <1>1, <3>1, <3>2
  <2>2. CASE Purge(d)
    <3>1. ToSet(tasks) \subseteq purged
      BY <2>2 DEF Purge
    <3>2. ToSet(tasks) = {}
      BY <3>1 DEF Once, QueuedOnly
    <3>3. tasks = <<>>
      <4>1. \A i \in 1..Len(tasks) : tasks[i] \in ToSet(tasks)
        BY <1>0 DEF ToSet
      <4>2. Len(tasks) = 0
        BY <1>0, <3>2, <4>1
      <4> QED
        BY <1>0, <4>2, EmptySeq
    <3> QED
      BY <1>0, <1>1, <2>2, <3>3 DEF Purge
  <2>3. CASE Pause(d) \/ Unpause(d) \/ Reset(d) \/ Destroy(d)
    <3>1. pc[c] = "blocked" /\ tasks_running' = tasks_running /\ tasks' = tasks
      BY <1>0, <2>3 DEF Pause, Unpause, Reset, Destroy, Goto, queue
    <3> QED
      BY <1>0, <1>1, <3>1
  <2>4. CASE \E k \in {"wait", "wait_for"} : Wait(d, k)
    <3>1. tasks_running' = tasks_running /\ tasks' = tasks /\ paused' = paused
      BY <2>4 DEF Wait
    <3>2. d # c
      BY <1>0, <2>4, <3>1 DEF Wait, WaitDone, Return, Goto
    <3> QED
      BY <1>0, <1>1, <2>4, <3>1, <3>2 DEF Wait, Return, Block, Goto
  <2> QED
    BY <1>2, <2>1, <2>2, <2>3, <2>4 DEF Request
<1>3. ASSUME NEW d \in Client, Proceed(d) \/ WaitTimeout(d) PROVE Stranded(c)
  <2>1. CASE CreateThreads(d)
    BY <1>0, <2>1, PoolAssumption DEF CreateThreads
  <2>2. CASE WaitAgain(d) \/ \E k \in {"reset", "destroy"} : Wait(d, k)
    <3>1. tasks_running' = tasks_running /\ tasks' = tasks /\ paused' = paused
      BY <2>2 DEF Wait, WaitAgain
    <3>2. d # c
      BY <1>0, <2>2, <3>1 DEF Wait, WaitAgain, WaitDone, Return, Goto
    <3> QED
      BY <1>0, <1>1, <2>2, <3>1, <3>2 DEF Wait, WaitAgain, Return, Block, Goto
  <2>3. CASE \/ NotifyOne(d) \/ NotifyAll(d) \/ RequestStop(d) \/ Restore(d) \/ Destroyed(d)
             \/ WaitTimeout(d)
    <3>1. pc[c] = "blocked" /\ tasks_running' = tasks_running /\ tasks' = tasks
      BY <1>0, <2>3
         DEF NotifyOne, NotifyAll, RequestStop, Restore, Destroyed, WaitTimeout, Return, Goto, queue
    <3> QED
      BY <1>0, <1>1, <3>1
  <2> QED
    BY <1>3, <2>1, <2>2, <2>3 DEF Proceed
<1>4. ASSUME NEW w \in Worker, Work(w) PROVE Stranded(c)
  <2>1. CASE Take(w)
    <3>1. tasks_running' = Running(w) + 1 /\ Running(w) \in Nat
      BY <2>1, StartCounted DEF Take, Running, IInv, TypeOK
    <3> QED
      BY <1>0, <3>1
  <2>2. CASE Sleep(w) \/ Quit(w)
    <3>1. /\ tasks_running' = Running(w) /\ tasks' = tasks /\ paused' = paused
          /\ Turn(w) /\ pc[c] = "blocked" /\ waiting
      BY <1>0, <2>2 DEF Sleep, Quit, Turn, Deaf
    <3>2. threads[w] # "start"
      BY <1>0, <3>1 DEF Turn
    <3> QED
      BY <1>0, <1>1, <3>1, <3>2 DEF Running
  <2>3. CASE RunTask(w)
    BY <1>0, <1>1, <2>3 DEF RunTask
  <2> QED
    BY <1>4, <2>1, <2>2, <2>3 DEF Work
<1>5. CASE Spurious \/ UNCHANGED vars
  <2>1. pc[c] = "blocked" /\ UNCHANGED <<tasks_running, paused, tasks>>
    BY <1>0, <1>5 DEF Spurious, At, Goto, vars
  <2> QED
    BY <1>1, <2>1
<1> QED
  BY <1>2, <1>3, <1>4, <1>5 DEF Next

\* No worker leaves a waiter asleep whose condition it has made true: only a
\* pause, a purge and the return of another waiter can.
THEOREM WorkersNotify == Spec => StrandedOnlyBy
<1> DEFINE Step == \A c \in Client : Stranded(c)' =>
                     Stranded(c) \/ Deaf(c) \/ (paused' /\ ~paused) \/ purged' # purged
<1>1. IInv /\ Once /\ [Next]_vars => [Step]_vars
  BY StrandedStep
<1> QED
  BY <1>1, Invariant, OnceInvariant, PTL DEF Spec, StrandedOnlyBy

-------------------------------------------------------------------------------
(* The destructor.                                                         *)

\* While the destructor runs nobody else uses the pool, and once its wait is
\* over nothing is left to do, except in a paused pool.
Destroying ==
    /\ pc[Owner] \in {"destroy", "dead"} => call[Owner] = "destroy"
    /\ call[Owner] = "destroy" =>
         /\ pc[Owner] \in {"destroy", "blocked", "woken", "join", "dead"}
         /\ \A d \in Client \ {Owner} : pc[d] = "idle"
         /\ pc[Owner] \in {"join", "dead"} =>
              Busy = {} /\ Started = {} /\ (paused \/ tasks = <<>>)

LEMMA DestroyingStep == ASSUME IInv, Destroying, [Next]_vars PROVE Destroying'
<1>0. /\ pc \in [Client -> Places] /\ call \in [Client -> Members] /\ Owner \in Client
      /\ threads \in [Worker -> Stages \cup Task] /\ TypeOK
  BY TypeParts, PoolAssumption DEF IInv, ClientType
<1>1. CASE call[Owner] = "destroy"
  <2>0. /\ ~Usable /\ \A d \in Client : d # Owner => pc[d] = "idle"
        /\ pc[Owner] \in {"destroy", "blocked", "woken", "join", "dead"}
    BY <1>1 DEF Usable, Destroying
  <2>1. ASSUME UNCHANGED <<threads, paused, tasks, call, pc>> PROVE Destroying'
    BY <2>1 DEF Destroying, Busy, Started
  <2>2. ASSUME NEW c \in Client, Request(c) PROVE FALSE
    BY <2>0, <2>2 DEF Request, DetachTask, Purge, Pause, Unpause, Wait, Reset, Destroy, Enter
  <2>3. ASSUME NEW c \in Client, Proceed(c) \/ WaitTimeout(c) PROVE Destroying'
    <3>1. c = Owner
      BY <2>0, <2>3 DEF Proceed, NotifyOne, NotifyAll, Wait, WaitAgain, RequestStop, CreateThreads,
                        Restore, Destroyed, WaitTimeout
    <3>2. CASE WaitAgain(c) \/ \E k \in {"reset", "destroy"} : Wait(c, k)
      <4>1. UNCHANGED <<threads, paused, tasks>> /\ (Busy' = Busy /\ Started' = Started)
        BY <3>2 DEF WaitAgain, Wait, Busy, Started
      <4>2. CASE WaitDone
        <5>1. Return(c, "destroy")
          BY <1>1, <2>0, <3>1, <3>2, <4>2 DEF WaitAgain, Wait
        <5>2. /\ pc' = [pc EXCEPT ![c] = "join"] /\ call' = [call EXCEPT ![c] = "destroy"]
          BY <5>1 DEF Return, Goto
        <5>3. Busy = {} /\ Started = {} /\ (paused \/ tasks = <<>>)
          BY <4>2, DoneMeansIdle
        <5> QED
          BY <1>0, <2>0, <3>1, <4>1, <5>2, <5>3 DEF Destroying
      <4>3. CASE ~WaitDone
        <5>1. Block(c, "destroy")
          BY <1>1, <2>0, <3>1, <3>2, <4>3 DEF WaitAgain, Wait
        <5> QED
          BY <1>0, <2>0, <3>1, <5>1 DEF Block, Goto, Destroying
      <4> QED
        BY <4>2, <4>3
    <3>3. CASE RequestStop(c)
      <4>1. Busy' = Busy /\ Started' = Started
        BY <1>0, <3>3, PoolAssumption DEF RequestStop, WakeWorkers, Asleep, Awake, Busy, Started
      <4> QED
        BY <3>3, <4>1 DEF RequestStop, Destroying
    <3>4. CASE Destroyed(c)
      <4>1. Busy' = Busy /\ Started' = Started
        BY <3>4 DEF Destroyed, Busy, Started
      <4> QED
        BY <1>0, <2>0, <3>1, <3>4, <4>1 DEF Destroyed, Goto, Destroying
    <3> QED
      BY <1>1, <2>0, <2>3, <3>1, <3>2, <3>3, <3>4
         DEF Proceed, NotifyOne, NotifyAll, CreateThreads, Restore, WaitTimeout
  <2>4. ASSUME NEW w \in Worker, Work(w) PROVE Destroying'
    <3>1. call' = call /\ paused' = paused /\ \A d \in Client : pc[d] # "blocked" => pc'[d] = pc[d]
      BY <1>0, <2>4 DEF Work, Take, Sleep, Quit, RunTask, Turn
    <3>2. pc[Owner] = "blocked" => pc'[Owner] \in {"blocked", "woken"}
      BY <1>0, <2>4 DEF Work, Take, Sleep, Quit, RunTask, Turn
    <3>0. /\ call'[Owner] = "destroy" /\ \A d \in Client \ {Owner} : pc'[d] = "idle"
          /\ pc'[Owner] = pc[Owner] \/ (pc[Owner] = "blocked" /\ pc'[Owner] = "woken")
      BY <1>0, <1>1, <2>0, <3>1, <3>2
    <3>3. CASE pc[Owner] \notin {"join", "dead"}
      BY <2>0, <3>0, <3>3 DEF Destroying
    <3>4. CASE pc[Owner] \in {"join", "dead"}
      <4>1. Busy = {} /\ Started = {} /\ (paused \/ tasks = <<>>)
        BY <1>1, <3>4 DEF Destroying
      <4>2. ~Take(w) /\ ~RunTask(w)
        BY <4>1 DEF Take, RunTask, Busy
      <4>3. Busy' = {} /\ Started' = {} /\ tasks' = tasks
        BY <1>0, <2>4, <4>1, <4>2, PoolAssumption DEF Work, Sleep, Quit, Busy, Started
      <4> QED
        BY <2>0, <3>0, <3>1, <3>4, <4>1, <4>3 DEF Destroying
    <3> QED
      BY <3>3, <3>4
  <2>5. CASE Spurious
    <3>1. /\ call' = call /\ UNCHANGED <<paused, tasks>>
          /\ \A d \in Client : pc'[d] = pc[d] \/ (pc[d] = "blocked" /\ pc'[d] = "woken")
      BY <1>0, <2>5 DEF Spurious, At, Goto
    <3>2. Busy' = Busy /\ Started' = Started
      BY <1>0, <2>5, PoolAssumption DEF Spurious, Asleep, Busy, Started
    <3> QED
      BY <1>0, <1>1, <2>0, <3>1, <3>2 DEF Destroying
  <2> QED
    BY <2>1, <2>2, <2>3, <2>4, <2>5 DEF Next, vars
<1>2. CASE call[Owner] # "destroy"
  <2>0. pc[Owner] \notin {"destroy", "dead"}
    BY <1>2 DEF Destroying
  <2>1. CASE Destroy(Owner)
    BY <1>0, <2>1 DEF Destroy, Goto, Destroying
  <2>2. CASE ~Destroy(Owner)
    <3>1. ASSUME NEW c \in Client, Request(c)
          PROVE  call'[Owner] # "destroy" /\ pc'[Owner] \notin {"destroy", "dead"}
      BY <1>0, <1>2, <2>0, <2>2, <3>1
         DEF Request, DetachTask, Purge, Pause, Unpause, Wait, Return, Block, Reset, Destroy, Goto
    <3>2. ASSUME NEW c \in Client, Proceed(c) \/ WaitTimeout(c)
          PROVE  call'[Owner] # "destroy" /\ pc'[Owner] \notin {"destroy", "dead"}
      BY <1>0, <1>2, <2>0, <3>2
         DEF Proceed, NotifyOne, NotifyAll, Wait, WaitAgain, WaitTimeout, Return, Block, RequestStop,
             CreateThreads, Restore, Destroyed, Goto
    <3>3. ASSUME (\E w \in Worker : Work(w)) \/ Spurious \/ UNCHANGED vars
          PROVE  call'[Owner] # "destroy" /\ pc'[Owner] \notin {"destroy", "dead"}
      BY <1>0, <1>2, <2>0, <3>3
         DEF Work, Take, Sleep, Quit, RunTask, Turn, Spurious, At, Goto, vars
    <3> QED
      BY <3>1, <3>2, <3>3 DEF Next, Destroying
  <2> QED
    BY <2>1, <2>2
<1> QED
  BY <1>1, <1>2

\* Unless the pool is paused, the destructor ends only when every task that
\* was submitted has been run or purged.
THEOREM DestructorWaits == Spec => []DestroyRunsAll
<1>1. Init => Destroying
  BY PoolAssumption DEF Init, Destroying
<1>2. IInv /\ Destroying /\ [Next]_vars => Destroying'
  BY DestroyingStep
<1>3. Destroying => DestroyRunsAll
  BY DEF Destroying, DestroyRunsAll
<1> QED
  BY <1>1, <1>2, <1>3, Invariant, PTL DEF Spec

-------------------------------------------------------------------------------
(* Wake-ups.                                                               *)

\* Only the owner resets, and a pool with pausing only while it is paused.
Resetting ==
    /\ ~Pausable => ~paused /\ ~was_paused
    /\ \A c \in Client : pc[c] \in {"reset", "restore"} \/ call[c] = "reset" =>
                           c = Owner /\ (Pausable => was_paused)

LEMMA ResettingStep ==
    ASSUME ~ResetUnpaused, IInv, Resetting, [Next]_vars PROVE Resetting'
<1>0. /\ pc \in [Client -> Places] /\ call \in [Client -> Members] /\ Owner \in Client
      /\ flags' = flags /\ Pausable' = Pausable
  <2>1. flags' = flags
    BY DEF Next, vars, Request, Proceed, WaitTimeout, DetachTask, Purge, Pause, Unpause, Wait, Reset,
           Destroy, NotifyOne, NotifyAll, WaitAgain, RequestStop, CreateThreads, Restore, Destroyed,
           Work, Take, Sleep, Quit, RunTask, Turn, Spurious
  <2> QED
    BY <2>1, TypeParts, PoolAssumption DEF IInv, ClientType, Pausable
<1>1. ASSUME UNCHANGED <<paused, was_paused>>,
             \A d \in Client :
               /\ pc'[d] \in {"reset", "restore"} =>
                    pc[d] \in {"reset", "restore"} \/ call[d] = "reset"
               /\ call'[d] = "reset" => call[d] = "reset" \/ pc[d] = "reset"
      PROVE  Resetting'
  BY <1>0, <1>1 DEF Resetting
<1>2. ASSUME NEW c \in Client, Request(c) PROVE Resetting'
  <2>1. CASE Reset(c)
    <3>1. /\ c = Owner /\ (paused \/ ~Pausable) /\ was_paused' = paused /\ paused' = Pausable
          /\ pc' = [pc EXCEPT ![c] = "reset"] /\ call' = call
      BY <2>1 DEF Reset, Goto
    <3> QED
      BY <1>0, <3>1 DEF Resetting
  <2>2. CASE Pause(c) \/ Unpause(c)
    <3>1. Pausable /\ was_paused' = was_paused /\ call' = call
      BY <2>2 DEF Pause, Unpause
    <3>2. \A d \in Client : pc'[d] \in {"reset", "restore"} => pc[d] \in {"reset", "restore"}
      BY <1>0, <2>2 DEF Pause, Unpause, Goto
    <3> QED
      BY <1>0, <3>1, <3>2 DEF Resetting
  <2>3. CASE \/ Purge(c) \/ Destroy(c) \/ \E t \in Task : DetachTask(c, t)
             \/ \E k \in {"wait", "wait_for"} : Wait(c, k)
    BY <1>0, <1>1, <2>3 DEF Purge, Destroy, DetachTask, Wait, Return, Block, Goto
  <2> QED
    BY <1>2, <2>1, <2>2, <2>3 DEF Request
<1>3. ASSUME NEW c \in Client, Proceed(c) \/ WaitTimeout(c) PROVE Resetting'
  <2>1. CASE Restore(c)
    <3>1. /\ pc[c] = "restore" /\ paused' = was_paused /\ was_paused' = FALSE
          /\ pc' = [pc EXCEPT ![c] = "idle"] /\ call' = [call EXCEPT ![c] = "none"]
      BY <2>1 DEF Restore, Goto
    <3>2. c = Owner
      BY <3>1 DEF Resetting
    <3>3. ASSUME NEW d \in Client, pc'[d] \in {"reset", "restore"} \/ call'[d] = "reset" PROVE FALSE
      BY <1>0, <3>1, <3>2, <3>3 DEF Resetting
    <3>4. ~Pausable => ~paused' /\ ~was_paused'
      BY <3>1 DEF Resetting
    <3> QED
      BY <1>0, <3>3, <3>4 DEF Resetting
  <2>2. CASE CreateThreads(c)
    BY <1>0, <1>1, <2>2 DEF CreateThreads, Goto
  <2>3. CASE WaitAgain(c) \/ WaitTimeout(c) \/ \E k \in {"reset", "destroy"} : Wait(c, k)
    BY <1>0, <1>1, <2>3 DEF WaitAgain, WaitTimeout, Wait, Return, Block, Goto
  <2>4. CASE NotifyOne(c) \/ NotifyAll(c) \/ RequestStop(c) \/ Destroyed(c)
    BY <1>0, <1>1, <2>4 DEF NotifyOne, NotifyAll, RequestStop, Destroyed, Goto
  <2> QED
    BY <1>3, <2>1, <2>2, <2>3, <2>4 DEF Proceed
<1>4. ASSUME NEW w \in Worker, Work(w) PROVE Resetting'
  BY <1>0, <1>1, <1>4 DEF Work, Take, Sleep, Quit, RunTask, Turn
<1>5. CASE Spurious \/ UNCHANGED vars
  BY <1>0, <1>1, <1>5 DEF Spurious, At, Goto, vars
<1> QED
  BY <1>2, <1>3, <1>4, <1>5 DEF Next

\* The sets that are counted in NoLostWakeup are finite.
LEMMA Pending ==
    /\ IsFiniteSet(Awake) /\ Cardinality(Awake) \in Nat
    /\ IsFiniteSet(At("one")) /\ Cardinality(At("one")) \in Nat
<1>1. Awake \in SUBSET Worker
  BY DEF Awake
<1>2. At("one") \in SUBSET Client
  BY DEF At
<1>3. IsFiniteSet(At("one"))
  BY <1>2, PoolAssumption, FS_Subset
<1> QED
  BY <1>1, <1>3, WorkerSets, FS_CardinalityType

\* A step of a client that neither sends nor owes a notification.
Quiet ==
    /\ UNCHANGED <<threads, stop>>
    /\ At("one")' = At("one") /\ At("all")' = At("all")

LEMMA QuietKeeps ==
    ASSUME NoLostWakeup, Quiet, tasks' = tasks, paused => paused' PROVE NoLostWakeup'
<1>1. Asleep' = Asleep /\ Awake' = Awake
  BY DEF Quiet, Asleep, Awake
<1> QED
  BY <1>1 DEF Quiet, NoLostWakeup

LEMMA WakeupClient ==
    ASSUME ~ResetUnpaused, IInv, Resetting, NoLostWakeup, NEW c \in Client,
           Request(c) \/ Proceed(c) \/ WaitTimeout(c)
    PROVE  NoLostWakeup'
<1>0. /\ pc \in [Client -> Places] /\ tasks \in Seq(Task)
      /\ threads \in [Worker -> Stages \cup Task]
  BY TypeParts DEF IInv, ClientType, QueueType
<1>1. /\ IsFiniteSet(Awake) /\ Cardinality(Awake) \in Nat
      /\ IsFiniteSet(At("one")) /\ Cardinality(At("one")) \in Nat
  BY Pending
<1>2. CASE \E t \in Task : DetachTask(c, t)
  <2>1. PICK t \in Task : tasks' = Append(tasks, t)
    BY <1>2 DEF DetachTask
  <2>2. Len(tasks') = Len(tasks) + 1 /\ Len(tasks) \in Nat
    BY <1>0, <2>1
  <2>3. /\ c \notin At("one") /\ At("one")' = At("one") \cup {c} /\ At("all")' = At("all")
        /\ Asleep' = Asleep /\ Awake' = Awake /\ stop' = stop /\ paused' = paused
    BY <1>0, <1>2 DEF DetachTask, Enter, Goto, At, Asleep, Awake
  <2>4. Cardinality(At("one")') = Cardinality(At("one")) + 1
    BY <1>1, <2>3, FS_AddElement
  <2> QED
    BY <1>1, <2>2, <2>3, <2>4 DEF NoLostWakeup
<1>3. CASE NotifyOne(c)
  <2>1. /\ c \in At("one") /\ At("one")' = At("one") \ {c} /\ At("all")' = At("all")
        /\ stop' = stop /\ paused' = paused /\ tasks' = tasks
    BY <1>0, <1>3 DEF NotifyOne, Goto, At, queue
  <2>2. CASE Asleep = {} /\ UNCHANGED threads
    BY <2>2 DEF NoLostWakeup, Asleep
  <2>3. CASE \E w \in Asleep : threads' = [threads EXCEPT ![w] = "awake"]
    <3>1. PICK w \in Asleep : threads' = [threads EXCEPT ![w] = "awake"]
      BY <2>3
    <3>2. w \notin Awake /\ Awake' = Awake \cup {w} /\ Asleep # {}
      BY <1>0, <3>1 DEF Asleep, Awake
    <3>3. Cardinality(Awake') = Cardinality(Awake) + 1
      BY <1>1, <3>2, FS_AddElement
    <3>4. Cardinality(At("one")') = Cardinality(At("one")) - 1
      BY <1>1, <2>1, FS_RemoveElement
    <3> QED
      BY <1>0, <1>1, <2>1, <3>2, <3>3, <3>4 DEF NoLostWakeup
  <2> QED
    BY <1>3, <2>2, <2>3 DEF NotifyOne
<1>4. CASE Purge(c)
  <2>1. Len(tasks') = 0
    BY <1>4, EmptySeq DEF Purge
  <2>2. Cardinality(Awake') \in Nat /\ Cardinality(At("one")') \in Nat
    BY <1>1, <1>4 DEF Purge, Awake, At
  <2> QED
    BY <2>1, <2>2 DEF NoLostWakeup
<1>5. CASE Unpause(c)
  BY <1>0, <1>5 DEF Unpause, Goto, At, NoLostWakeup
<1>6. CASE NotifyAll(c) \/ CreateThreads(c)
  <2>1. Asleep' = {}
    BY <1>6 DEF NotifyAll, CreateThreads, WakeWorkers, NewThreads, Asleep
  <2> QED
    BY <2>1 DEF NoLostWakeup
<1>7. CASE RequestStop(c)
  BY <1>7 DEF RequestStop, NoLostWakeup
<1>8. CASE Pause(c) \/ Reset(c) \/ Restore(c)
  <2>1. Quiet /\ tasks' = tasks
    BY <1>0, <1>8 DEF Pause, Reset, Restore, Enter, Goto, At, Quiet, queue
  <2>2. paused => paused'
    <3>1. CASE Pause(c)
      BY <3>1 DEF Pause
    <3>2. CASE Reset(c)
      BY <3>2, Zenon DEF Reset, Resetting
    <3>3. CASE Restore(c)
      <4>1. pc[c] = "restore" /\ paused' = was_paused
        BY <3>3 DEF Restore
      <4>2. paused => was_paused
        BY <4>1 DEF Resetting
      <4> QED
        BY <4>1, <4>2, Zenon
    <3> QED
      BY <1>8, <3>1, <3>2, <3>3
  <2> QED
    BY <2>1, <2>2, QuietKeeps
<1>9. CASE \/ WaitAgain(c) \/ WaitTimeout(c) \/ Destroy(c) \/ Destroyed(c)
           \/ \E k \in {"wait", "wait_for", "reset", "destroy"} : Wait(c, k)
  <2>1. Quiet /\ tasks' = tasks /\ paused' = paused
    BY <1>0, <1>9
       DEF WaitAgain, WaitTimeout, Destroy, Destroyed, Wait, Return, Block, Enter, Goto, At, Quiet, queue
  <2> QED
    BY <2>1, QuietKeeps
<1> QED
  BY <1>2, <1>3, <1>4, <1>5, <1>6, <1>7, <1>8, <1>9 DEF Request, Proceed

LEMMA WakeupWorker ==
    ASSUME IInv, NoLostWakeup, NEW w \in Worker, Work(w) PROVE NoLostWakeup'
<1>0. /\ pc \in [Client -> Places] /\ tasks \in Seq(Task)
      /\ threads \in [Worker -> Stages \cup Task] /\ Len(tasks) \in Nat
  BY TypeParts DEF IInv, ClientType, QueueType
<1>1. /\ IsFiniteSet(Awake) /\ Cardinality(Awake) \in Nat
      /\ IsFiniteSet(At("one")) /\ Cardinality(At("one")) \in Nat
  BY Pending
<1>2. At("one")' = At("one") /\ At("all")' = At("all") /\ stop' = stop /\ paused' = paused
  BY <1>0 DEF Work, Take, Sleep, Quit, RunTask, Turn, At
<1>3. CASE Take(w)
  <2>1. PICK i \in DOMAIN tasks : tasks' = RemoveAt(tasks, i) /\ threads' = [threads EXCEPT ![w] = tasks[i]]
    BY <1>3 DEF Take
  <2>2. Len(tasks') = Len(tasks) - 1 /\ tasks[i] \in Task /\ tasks[i] \notin Stages
    BY <1>0, <2>1, Removed, PoolAssumption
  <2>3. Asleep' = Asleep /\ Awake' = Awake \ {w}
    BY <1>0, <1>3, <2>1, <2>2 DEF Take, Turn, Asleep, Awake
  <2>4. Cardinality(Awake') = IF w \in Awake THEN Cardinality(Awake) - 1 ELSE Cardinality(Awake)
    BY ONLY <1>1, <2>3, FS_RemoveElement
  <2> QED
    BY <1>0, <1>1, <1>2, <2>2, <2>3, <2>4 DEF NoLostWakeup
<1>4. CASE Sleep(w)
  <2>1. paused' \/ Len(tasks') = 0
    BY <1>2, <1>4, EmptySeq DEF Sleep
  <2>2. Cardinality(Awake') \in Nat
    <3>1. Awake' \in SUBSET Worker
      BY DEF Awake
    <3> QED
      BY <3>1, WorkerSets
  <2> QED
    BY <1>1, <1>2, <2>1, <2>2 DEF NoLostWakeup
<1>5. CASE Quit(w)
  BY <1>2, <1>5 DEF Quit, NoLostWakeup
<1>6. CASE RunTask(w)
  <2>1. Asleep' = Asleep /\ Awake' = Awake /\ tasks' = tasks
    BY <1>0, <1>6, PoolAssumption DEF RunTask, Asleep, Awake
  <2> QED
    BY <1>2, <2>1 DEF NoLostWakeup
<1> QED
  BY <1>3, <1>4, <1>5, <1>6 DEF Work

LEMMA WakeupSpurious ==
    ASSUME IInv, NoLostWakeup, Spurious PROVE NoLostWakeup'
<1>0. /\ pc \in [Client -> Places] /\ tasks \in Seq(Task) /\ Len(tasks) \in Nat
      /\ threads \in [Worker -> Stages \cup Task]
  BY TypeParts DEF IInv, ClientType, QueueType
<1>1. /\ IsFiniteSet(Awake) /\ Cardinality(Awake) \in Nat
      /\ IsFiniteSet(At("one")) /\ Cardinality(At("one")) \in Nat
  BY Pending
<1>2. CASE \E w \in Asleep : threads' = [threads EXCEPT ![w] = "awake"] /\ UNCHANGED pc
  <2>1. PICK w \in Asleep : threads' = [threads EXCEPT ![w] = "awake"] /\ UNCHANGED pc
    BY <1>2
  <2>2. /\ Asleep # {} /\ Awake' = Awake \cup {w}
        /\ At("one")' = At("one") /\ At("all")' = At("all")
        /\ stop' = stop /\ paused' = paused /\ tasks' = tasks
    BY <1>0, <2>1 DEF Asleep, Awake, At, Spurious, queue
  <2>3. Cardinality(Awake') = IF w \in Awake THEN Cardinality(Awake) ELSE Cardinality(Awake) + 1
    BY ONLY <1>1, <2>2, FS_AddElement
  <2> QED
    BY <1>0, <1>1, <2>2, <2>3 DEF NoLostWakeup
<1>3. CASE \E c \in At("blocked") : Goto(c, "woken") /\ UNCHANGED threads
  <2>1. Quiet /\ tasks' = tasks /\ paused' = paused
    BY <1>0, <1>3 DEF Spurious, At, Goto, Quiet, queue
  <2> QED
    BY <2>1, QuietKeeps
<1> QED
  BY <1>2, <1>3 DEF Spurious

\* If a pool with pausing is reset only while it is paused, a task that waits
\* in a pool that may run always has a worker on its way to it.
THEOREM WakeupsReach == ASSUME ResetUnpaused = FALSE PROVE Spec => []NoLostWakeup
<1>1. Init => Resetting /\ NoLostWakeup
  <2>1. Init => Asleep = {}
    BY DEF Init, NewThreads, Asleep
  <2> QED
    BY <2>1 DEF Init, Resetting, NoLostWakeup
<1>2. IInv /\ Resetting /\ [Next]_vars => Resetting'
  BY ResettingStep
<1>3. IInv /\ Resetting /\ NoLostWakeup /\ [Next]_vars => NoLostWakeup'
  <2> SUFFICES ASSUME IInv, Resetting, NoLostWakeup, [Next]_vars PROVE NoLostWakeup'
    OBVIOUS
  <2>1. CASE UNCHANGED vars
    BY <2>1 DEF vars, NoLostWakeup, Asleep, Awake, At
  <2> QED
    BY <2>1, WakeupClient, WakeupWorker, WakeupSpurious DEF Next
<1> QED
  BY <1>1, <1>2, <1>3, Invariant, PTL DEF Spec

-------------------------------------------------------------------------------
(* Deadlock.                                                               *)

\* Only the owner stops workers, and there are some until it has; a worker
\* that was asked to stop does not go to sleep again.
Replaces(c) == \/ pc[c] \in {"reset", "destroy", "join", "restore", "dead"}
               \/ call[c] \in {"reset", "destroy"}
Joining ==
    /\ \A c \in Client : Replaces(c) => c = Owner
    /\ pc[Owner] \in {"join", "dead"} \/ (stop = {} /\ Live # {})
    /\ stop \cap Asleep = {}

LEMMA JoiningInit == Init => Joining
<1> SUFFICES ASSUME Init PROVE Joining
  OBVIOUS
<1>1. /\ \A c \in Client : pc[c] = "idle" /\ call[c] = "none"
      /\ stop = {}
  BY DEF Init
<1>2. 1 \in Worker /\ threads[1] = "start"
  BY PoolAssumption DEF Init, NewThreads
<1> QED
  BY <1>1, <1>2 DEF Joining, Replaces

\* Steps that only wake workers and stop none.
LEMMA JoiningKept ==
    ASSUME TypeOK, Joining, WakesOnly, stop' = stop,
           pc[Owner] \in {"join", "dead"} => pc'[Owner] \in {"join", "dead"},
           \A c \in Client : Replaces(c)' => c = Owner
    PROVE  Joining'
<1>1. Live' = Live
  BY DEF WakesOnly
<1>2. Asleep' \subseteq Asleep
  BY DEF WakesOnly, Asleep
<1> QED
  BY <1>1, <1>2 DEF Joining, Replaces

LEMMA JoiningStep == ASSUME TypeOK, Joining, [Next]_vars PROVE Joining'
<1>0. /\ pc \in [Client -> Places] /\ call \in [Client -> Members] /\ Owner \in Client
      /\ threads \in [Worker -> Stages \cup Task] /\ stop \subseteq Worker
  BY TypeParts, PoolAssumption DEF ClientType, FlagType, TypeOK
<1>1. ASSUME NEW c \in Client, Request(c) PROVE Joining'
  <2>1. WakesOnly /\ stop' = stop
    BY <1>1, SameWakes DEF Request, DetachTask, Purge, Pause, Unpause, Wait, Reset, Destroy
  <2>2. pc[c] = "idle" /\ \A d \in Client \ {c} : pc'[d] = pc[d] /\ call'[d] = call[d]
    BY <1>0, <1>1 DEF Request, DetachTask, Purge, Pause, Unpause, Wait, Return, Block, Reset,
                      Destroy, Enter, Goto
  <2>3. Replaces(c)' => c = Owner
    BY <1>0, <1>1, <2>2 DEF Request, DetachTask, Purge, Pause, Unpause, Wait, Return, Block, Reset,
                      Destroy, Enter, Goto, Joining, Replaces
  <2> QED
    <3>1. \A d \in Client : Replaces(d)' => d = Owner
      BY <2>2, <2>3 DEF Joining, Replaces
    <3>2. pc[Owner] \in {"join", "dead"} => pc'[Owner] \in {"join", "dead"}
      BY <1>0, <2>2
    <3> QED
      BY <2>1, <3>1, <3>2, JoiningKept
<1>2. ASSUME NEW c \in Client, Proceed(c) \/ WaitTimeout(c) PROVE Joining'
  <2>1. CASE CreateThreads(c)
    <3>1. c = Owner
      BY <2>1 DEF CreateThreads, Joining, Replaces
    <3>2. stop' = {} /\ pc' = [pc EXCEPT ![c] = "restore"] /\ call' = call
      BY <2>1 DEF CreateThreads, Goto
    <3>3. 1 \in Worker /\ threads'[1] = "start"
      BY <2>1, PoolAssumption DEF CreateThreads, NewThreads
    <3> QED
      BY <1>0, <3>1, <3>2, <3>3 DEF Joining, Replaces
  <2>2. CASE RequestStop(c)
    <3>1. c = Owner /\ pc[c] = "join" /\ UNCHANGED <<pc, call>>
      BY <2>2 DEF RequestStop, Joining, Replaces
    <3>2. PICK w \in Live \ stop :
             /\ stop' = stop \cup {w}
             /\ threads' = IF w \in Asleep \cup Awake THEN WakeWorkers ELSE threads
      BY <2>2 DEF RequestStop
    <3>3. stop' \cap Asleep' = {}
      BY <1>0, <3>2 DEF Joining, Asleep, WakeWorkers
    <3> QED
      BY <1>0, <3>1, <3>3 DEF Joining, Replaces
  <2>3. CASE ~CreateThreads(c) /\ ~RequestStop(c)
    <3>1. WakesOnly /\ stop' = stop
      BY <1>2, <2>3, SameWakes, OneWakes, WakeWorkersWakes
         DEF Proceed, NotifyOne, NotifyAll, Wait, WaitAgain, WaitTimeout, Restore, Destroyed
    <3>2. \A d \in Client \ {c} : pc'[d] = pc[d] /\ call'[d] = call[d]
      BY <1>0, <1>2, <2>3 DEF Proceed, NotifyOne, NotifyAll, Wait, WaitAgain, WaitTimeout, Return,
                              Block, Restore, Destroyed, Goto
    <3>3. Replaces(c)' => c = Owner
      BY <1>0, <1>2, <2>3 DEF Proceed, NotifyOne, NotifyAll, Wait, WaitAgain, WaitTimeout, Return,
                              Block, Restore, Destroyed, Goto, Joining, Replaces
    <3>4. pc[c] \in {"join", "dead"} => pc'[c] = "dead"
      BY <1>0, <1>2, <2>3 DEF Proceed, NotifyOne, NotifyAll, Wait, WaitAgain, WaitTimeout,
                              Restore, Destroyed, Goto
    <3> QED
      <4>1. \A d \in Client : Replaces(d)' => d = Owner
        BY <3>2, <3>3 DEF Joining, Replaces
      <4>2. pc[Owner] \in {"join", "dead"} => pc'[Owner] \in {"join", "dead"}
        BY <1>0, <3>2, <3>4
      <4> QED
        BY <3>1, <4>1, <4>2, JoiningKept
  <2> QED
    BY <2>1, <2>2, <2>3
<1>3. ASSUME NEW w \in Worker, Work(w) PROVE Joining'
  <2>1. /\ stop' = stop /\ call' = call
        /\ \A c \in Client : pc'[c] = pc[c] \/ (pc[c] = "blocked" /\ pc'[c] = "woken")
    BY <1>0, <1>3 DEF Work, Take, Sleep, Quit, RunTask, Turn
  <2>2. PICK v \in Stages \cup Task :
           /\ threads' = [threads EXCEPT ![w] = v]
           /\ v = "asleep" => w \notin stop
           /\ v = "gone" => w \in stop
    <3>1. CASE Take(w)
      <4>1. PICK i \in DOMAIN tasks : threads' = [threads EXCEPT ![w] = tasks[i]]
        BY <3>1 DEF Take
      <4>2. tasks[i] \in Task
        BY <4>1 DEF TypeOK
      <4> QED
        BY <4>1, <4>2, PoolAssumption
    <3>2. CASE Sleep(w) \/ Quit(w) \/ RunTask(w)
      BY <3>2 DEF Sleep, Quit, RunTask
    <3> QED
      BY <1>3, <3>1, <3>2 DEF Work
  <2>3. stop' \cap Asleep' = {}
    BY <1>0, <2>1, <2>2 DEF Joining, Asleep
  <2>4. ASSUME stop = {}, Live # {} PROVE stop' = {} /\ Live' # {}
    <3>1. v # "gone" /\ w \in Live'
      BY <1>0, <2>2, <2>4
    <3> QED
      BY <2>1, <2>4, <3>1
  <2> QED
    BY <1>0, <2>1, <2>3, <2>4 DEF Joining, Replaces
<1>4. CASE Spurious
  <2>1. /\ UNCHANGED <<stop, call>>
        /\ \A c \in Client : pc'[c] = pc[c] \/ (pc[c] = "blocked" /\ pc'[c] = "woken")
    BY <1>0, <1>4 DEF Spurious, At, Goto
  <2>2. WakesOnly
    BY <1>4, SameWakes, OneWakes DEF Spurious
  <2> QED
    BY <1>0, <2>1, <2>2, JoiningKept DEF Joining, Replaces
<1>5. CASE UNCHANGED vars
  BY <1>5 DEF vars, Joining, Replaces, Asleep
<1> QED
  BY <1>1, <1>2, <1>3, <1>4, <1>5 DEF Next

\* Of a finite set of workers one has the highest number.
LEMMA LastWorker == ASSUME NEW S \in SUBSET Worker, S # {} PROVE \E w \in S : \A v \in S : v <= w
<1>0. MaxThreads \in Nat /\ \A v \in S : v \in Nat /\ MaxThreads - v \in Nat
  BY PoolAssumption DEF Worker
<1> DEFINE above == {MaxThreads - v : v \in S}
<1>1. above \in SUBSET Nat /\ above # {}
  <2>1. \A n \in above : n \in Nat
    BY <1>0
  <2>2. PICK v \in S : TRUE
    OBVIOUS
  <2>3. MaxThreads - v \in above
    OBVIOUS
  <2> QED
    BY <2>1, <2>3
<1> HIDE DEF above
<1>2. PICK n \in above : \A m \in above : ~(<<m, n>> \in OpToRel(<, Nat))
  BY <1>1, WFMin, NatLessThanWellFounded
<1>3. \A m \in above : n <= m
  <2> SUFFICES ASSUME NEW m \in above, m < n PROVE FALSE
    BY <1>1
  <2>1. m \in Nat /\ n \in Nat
    BY <1>1
  <2>2. <<m, n>> \in Nat \X Nat /\ <<m, n>>[1] < <<m, n>>[2]
    BY <2>1
  <2>3. <<m, n>> \in OpToRel(<, Nat)
    BY <2>2 DEF OpToRel
  <2> QED
    BY <2>3, <1>2
<1> USE DEF above
<1>4. PICK w \in S : n = MaxThreads - w
  OBVIOUS
<1>5. ASSUME NEW v \in S PROVE v <= w
  <2>1. MaxThreads - v \in above
    OBVIOUS
  <2>2. n <= MaxThreads - v
    BY <2>1, <1>3
  <2> HIDE DEF above
  <2> QED
    BY <2>2, <1>4, <1>0
<1> QED
  BY <1>5

\* While the workers are joined one of them can be stopped, or runs, or all
\* are gone and the join is over.
LEMMA JoinGoesOn == ASSUME Joining, At("join") # {} PROVE Runnable # {} \/ CanJoin
<1>1. CASE Live = {}
  BY <1>1 DEF CanJoin
<1>2. CASE Live # {}
  <2>1. PICK w \in Live : \A v \in Live : v <= w
    BY <1>2, LastWorker
  <2>2. CASE w \in stop
    BY <2>1, <2>2 DEF Joining, Runnable
  <2>3. CASE w \notin stop
    BY <2>1, <2>3 DEF CanJoin
  <2> QED
    BY <2>2, <2>3
<1> QED
  BY <1>1, <1>2

\* If a pool with pausing is reset only while it is paused, there is always a
\* thread that can go on as long as a task is left or workers are joined: no
\* interleaving of any number of clients and workers ends in a deadlock.
THEOREM DeadlockFree == ASSUME ResetUnpaused = FALSE PROVE Spec => []NoDeadlock
<1>1. IInv /\ NoLostWakeup /\ Joining /\ Destroying => NoDeadlock
  <2> SUFFICES ASSUME IInv, NoLostWakeup, Joining, Destroying, ~WaitDone, At("join") = {}
               PROVE  Runnable # {} \/ At("one") # {} \/ At("all") # {}
    BY JoinGoesOn DEF NoDeadlock
  <2>0. Owner \in Client /\ pc[Owner] # "join"
    BY PoolAssumption DEF At
  <2>1. CASE tasks_running # 0
    <3>1. Counted # {}
      BY <2>1, FS_EmptySet DEF IInv, RunningCounted, Counted
    <3> QED
      BY <3>1, PoolAssumption DEF Counted, Started, Busy, Runnable, Asleep
  <2>2. CASE tasks_running = 0 /\ ~paused /\ tasks # <<>>
    <3>1. pc[Owner] # "dead"
      BY <2>2 DEF Destroying
    <3>2. stop = {} /\ Live # {}
      BY <2>0, <3>1 DEF Joining
    <3>3. Len(tasks) > 0
      BY <2>2 DEF IInv, TypeOK
    <3>4. Len(tasks) <= Cardinality(Awake) + Cardinality(At("one")) => Awake # {} \/ At("one") # {}
      <4>1. Len(tasks) \in Nat /\ Cardinality({}) = 0
        BY FS_EmptySet DEF IInv, TypeOK
      <4>2. /\ Awake = {} => Cardinality(Awake) = 0
            /\ At("one") = {} => Cardinality(At("one")) = 0
        BY <4>1, Zenon
      <4> QED
        BY <3>3, <4>1, <4>2
    <3>5. Awake \subseteq Runnable
      BY DEF Awake, Runnable, Asleep
    <3> QED
      BY <2>2, <3>2, <3>4, <3>5 DEF NoLostWakeup, Runnable
  <2> QED
    BY <2>1, <2>2 DEF WaitDone
<1>2. IInv /\ Joining /\ [Next]_vars => Joining'
  BY JoiningStep DEF IInv
<1>3. Init => Destroying
  BY PoolAssumption DEF Init, Destroying
<1>4. IInv /\ Destroying /\ [Next]_vars => Destroying'
  BY DestroyingStep
<1> QED
  BY <1>1, <1>2, <1>3, <1>4, JoiningInit, Invariant, WakeupsReach, PTL DEF Spec

-------------------------------------------------------------------------------
(* The pool implements TaskPool.                                           *)

\* A worker that is not in a task leaves room for one.
LEMMA RoomForOne ==
    ASSUME TypeOK, NEW w \in Worker, w \notin Busy PROVE Cardinality(Runs) < MaxThreads
<1>1. Busy \in SUBSET Worker /\ IsFiniteSet(Busy) /\ Cardinality(Busy) \in Nat
  BY WorkerSets DEF Busy
<1>2. Cardinality(Busy \cup {w}) = Cardinality(Busy) + 1
  BY ONLY <1>1, FS_AddElement, w \notin Busy
<1>3. Cardinality(Busy \cup {w}) \in 0..MaxThreads
  <2>1. Busy \cup {w} \in SUBSET Worker
    BY <1>1
  <2> QED
    BY <2>1, WorkerSets
<1>4. Cardinality(Runs) \in Nat /\ Cardinality(Runs) <= Cardinality(Busy)
  <2> DEFINE taskOf == [v \in Busy |-> threads[v]]
  <2>1. taskOf \in Surjection(Busy, Runs)
    BY DEF Surjection, Runs
  <2> HIDE DEF taskOf
  <2>2. IsFiniteSet(Runs) /\ Cardinality(Runs) <= Cardinality(Busy)
    BY ONLY <1>1, <2>1, FS_Surjection
  <2> QED
    BY <2>2, FS_CardinalityType
<1> QED
  BY <1>1, <1>2, <1>3, <1>4, PoolAssumption

LEMMA MapInit == Init => Abstract!Init
<1> SUFFICES ASSUME Init PROVE Abstract!Init
  OBVIOUS
<1>1. Busy = {}
  BY PoolAssumption DEF Init, NewThreads, Busy
<1>2. {threads[w] : w \in Busy} = {}
  BY <1>1
<1> QED
  BY <1>2 DEF Init, Abstract!Init

LEMMA MapStep == ASSUME IInv, Once, [Next]_vars PROVE [Abstract!Next]_Abstract!vars
<1>0. /\ tasks \in Seq(Task) /\ threads \in [Worker -> Stages \cup Task]
      /\ paused' \in BOOLEAN /\ flags' = flags
  <2>1. flags' = flags
    BY DEF Next, vars, Request, Proceed, WaitTimeout, DetachTask, Purge, Pause, Unpause, Wait, Reset,
           Destroy, NotifyOne, NotifyAll, WaitAgain, RequestStop, CreateThreads, Restore, Destroyed,
           Work, Take, Sleep, Quit, RunTask, Turn, Spurious
  <2> QED
    BY <2>1, FlagStep, TypeParts DEF IInv, FlagType, QueueType
<1>1. CASE QueueAlone
  <2>1. Runs' = Runs
    BY <1>1, AloneKeepsOnce
  <2>2. UNCHANGED <<tasks, done, purged>>
    BY <1>1 DEF QueueAlone
  <2>3. Abstract!Suspend
    BY <1>0, <2>1, <2>2 DEF Abstract!Suspend, Runs
  <2> QED
    BY <2>3 DEF Abstract!Next
<1>2. ASSUME NEW c \in Client, NEW t \in Task, DetachTask(c, t) PROVE Abstract!Next
  <2>1. /\ tasks' = Append(tasks, t) /\ UNCHANGED <<flags, threads, done, purged, paused>>
        /\ t \notin ToSet(tasks) \cup done \cup purged \cup {threads[w] : w \in Worker}
    BY <1>2 DEF DetachTask, Fresh
  <2>2. Busy' = Busy /\ Runs' = Runs /\ t \notin Runs
    BY <2>1 DEF Busy, Runs
  <2>3. Abstract!Submit(t)
    BY <2>1, <2>2 DEF Abstract!Submit, Abstract!ToSet, ToSet, Runs
  <2> QED
    BY <2>3 DEF Abstract!Next
<1>3. ASSUME NEW c \in Client, Purge(c) PROVE Abstract!Next
  <2>1. Busy' = Busy /\ Runs' = Runs
    BY <1>3 DEF Purge, Busy, Runs
  <2>2. Abstract!Drop
    BY <1>3, <2>1 DEF Abstract!Drop, Abstract!ToSet, ToSet, Purge, Runs
  <2> QED
    BY <2>2 DEF Abstract!Next
<1>4. ASSUME NEW w \in Worker, Take(w) PROVE Abstract!Next
  <2>1. PICK i \in DOMAIN tasks :
             /\ tasks[i] \in Task /\ Top(i) /\ tasks' = RemoveAt(tasks, i)
             /\ w \notin Busy /\ Runs' = Runs \cup {tasks[i]}
    BY <1>4, TakeFacts DEF IInv
  <2>2. Cardinality(Runs) < MaxThreads
    BY <2>1, RoomForOne DEF IInv
  <2>3. ~paused /\ UNCHANGED <<flags, done, purged, paused>>
    BY <1>4 DEF Take, Turn
  <2>4. Priority # <<>>
    <3>1. DOMAIN Priority = Task /\ DOMAIN <<>> = {}
      BY PoolAssumption
    <3> QED
      BY <2>1, <3>1
  <2>5. Abstract!Start(i)
    <3>1. tasks' = Abstract!RemoveAt(tasks, i)
      BY <2>1 DEF Abstract!RemoveAt, RemoveAt
    <3> DEFINE order == IF "priority" \in flags THEN Priority ELSE <<>>
    <3>2. \/ order = <<>> /\ i = 1
          \/ order # <<>> /\ \A j \in DOMAIN tasks : order[tasks[j]] <= order[tasks[i]]
      BY <2>1, <2>4 DEF Top
    <3>3. order' = order
      BY <2>3
    <3>4. Runs' = Runs \cup {tasks[i]}
      BY <2>1
    <3>5. Abstract!Cardinality(Runs) = Cardinality(Runs)
      BY DEF Abstract!Cardinality, Cardinality
    <3> QED
      BY <2>2, <2>3, <3>1, <3>2, <3>3, <3>4, <3>5 DEF Abstract!Start, Runs
  <2> QED
    BY <2>5 DEF Abstract!Next
<1>5. ASSUME NEW w \in Worker, RunTask(w) PROVE Abstract!Next
  <2>1. PICK t \in Task : /\ t = threads[w] /\ threads' = [threads EXCEPT ![w] = "start"]
                          /\ done' = done \cup {t} /\ UNCHANGED <<flags, tasks, purged, paused>>
    BY <1>5 DEF RunTask
  <2>2. w \in Busy /\ t \in {threads[v] : v \in Busy}
    BY <2>1 DEF Busy
  <2>3. Busy' = Busy \ {w} /\ \A v \in Busy' : threads'[v] = threads[v]
    BY <1>0, <2>1, PoolAssumption DEF Busy
  <2>4. Runs' = Runs \ {t}
    <3>1. ASSUME NEW x \in Runs' PROVE x \in Runs \ {t}
      <4>1. PICK v \in Busy' : x = threads'[v]
        BY DEF Runs
      <4>2. v \in Busy /\ v # w /\ x = threads[v]
        BY <2>3, <4>1
      <4> QED
        BY <2>1, <2>2, <4>2 DEF Runs, Once, OneWorker
    <3>2. ASSUME NEW x \in Runs \ {t} PROVE x \in Runs'
      <4>1. PICK v \in Busy : x = threads[v]
        BY DEF Runs
      <4>2. v \in Busy' /\ x = threads'[v]
        BY <2>1, <2>3, <3>2, <4>1
      <4> QED
        BY <4>2 DEF Runs
    <3> QED
      BY <3>1, <3>2
  <2>5. Abstract!Finish(t)
    BY <2>1, <2>4 DEF Abstract!Finish, Runs
  <2> QED
    BY <2>2, <2>5 DEF Abstract!Next
<1> QED
  BY <1>1, <1>2, <1>3, <1>4, <1>5, OthersAlone DEF IInv, Touches

\* Whatever the threads do, the pool starts every task at most once, in the
\* order it promises and never while it is paused, runs at most as many at a
\* time as it may have threads, and never starts one that was purged.
THEOREM PoolImplements == Spec => ImplementsTaskPool
<1>1. IInv /\ Once /\ [Next]_vars => [Abstract!Next]_Abstract!vars
  BY MapStep
<1> QED
  BY <1>1, MapInit, Invariant, OnceInvariant, PTL DEF Spec, ImplementsTaskPool, Abstract!Spec

===============================================================================
