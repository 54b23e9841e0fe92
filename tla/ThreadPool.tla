------------------------------ MODULE ThreadPool ------------------------------
(***************************************************************************)
(* BS_thread_pool.hpp: class thread_pool.  Client threads submit tasks to  *)
(* a queue, worker threads take and run them.  tasks_mutex protects the    *)
(* queue, the counter and the flags: what a thread does under it is one    *)
(* step, and a notification sent after unlocking is a step of its own.     *)
(* A thread that sleeps on a condition variable may also wake by itself.   *)
(*                                                                         *)
(* The build is C++20 (CMakeLists.txt): workers are jthreads, which are    *)
(* stopped and joined one after the other when `threads` is replaced or    *)
(* destroyed.  A task that throws ends like any other (worker catches).    *)
(***************************************************************************)
EXTENDS Integers, FiniteSets, Sequences, SequencesExt

CONSTANTS
    Task,           \* the tasks the clients submit, each at most once
    Client,         \* the threads that use the pool
    Owner,          \* the client that created the pool, may reset and destroy it
    MaxThreads,     \* bound: most threads of a pool
    FlagSets,       \* the values of OptFlags, as sets of "priority", "pause"
    Calls,          \* the members of the class the clients call
    Priority,       \* Priority[t]: the priority argument task t is submitted with
    ResetUnpaused   \* does the program reset a pausable pool that is not paused?

Worker == 1..MaxThreads
Stages == {"gone", "start", "asleep", "awake"}

ASSUME PoolAssumption ==
    /\ IsFiniteSet(Client) /\ Owner \in Client
    /\ MaxThreads \in Nat \ {0}
    /\ Priority \in [Task -> Int]
    /\ FlagSets \subseteq SUBSET {"priority", "pause"}
    /\ ResetUnpaused \in BOOLEAN
    /\ Task \cap Stages = {}

VARIABLES
    flags,          \* the pool's OptFlags
    tasks,          \* the queue
    tasks_running,  \* the code's counter of running tasks
    paused,         \* the flag of pause() and unpause()
    waiting,        \* the flag: a wait() is active
    was_paused,     \* reset's local variable
    threads,        \* threads[w]: the stage of worker w, or the task it runs
    stop,           \* the workers that have been asked to stop
    pc,             \* where each client is
    call,           \* which call a client in a wait is in
    done,           \* the tasks that have been run
    purged          \* the tasks that were removed by purge()

queue == <<tasks, done, purged>>
vars == <<flags, tasks, tasks_running, paused, waiting, was_paused, threads,
          stop, pc, call, done, purged>>

Pausable == "pause" \in flags
Asleep == {w \in Worker : threads[w] = "asleep"}
Awake == {w \in Worker : threads[w] = "awake"}
Started == {w \in Worker : threads[w] = "start"}
Busy == {w \in Worker : threads[w] \in Task}
Live == {w \in Worker : threads[w] # "gone"}
At(place) == {c \in Client : pc[c] = place}
Goto(c, place) == pc' = [pc EXCEPT ![c] = place]

\* The threads of a pool of n, about to run, as create_threads leaves them.
NewThreads(n) == [w \in Worker |-> IF w <= n THEN "start" ELSE "gone"]

Init ==
    /\ flags \in FlagSets
    /\ tasks = <<>> /\ done = {} /\ purged = {}
    /\ paused = FALSE /\ waiting = FALSE /\ was_paused = FALSE
    /\ \E n \in Worker : tasks_running = n /\ threads = NewThreads(n)
    /\ stop = {}
    /\ pc = [c \in Client |-> "idle"]
    /\ call = [c \in Client |-> "none"]

\* The destructor must not run while another thread uses the pool.
Usable == pc[Owner] # "dead" /\ call[Owner] # "destroy"
Enter(c, member) == pc[c] = "idle" /\ member \in Calls /\ Usable

-------------------------------------------------------------------------------
(* Calls that change the queue or the flag paused.                         *)

Fresh(t) == t \notin ToSet(tasks) \cup done \cup purged \cup {threads[w] : w \in Worker}

\* The future that submit_task returns for task t: its promise is fulfilled
\* when the task has run, and broken when the queue is emptied.
Future(t) ==
    CASE t \in done -> "ready"
      [] t \in purged -> "broken"
      [] Fresh(t) -> "none"
      [] OTHER -> "pending"

DetachTask(c, t) ==
    /\ Enter(c, "detach_task")
    /\ Fresh(t)
    /\ tasks' = Append(tasks, t)
    /\ Goto(c, "one")
    /\ UNCHANGED <<flags, tasks_running, paused, waiting, was_paused, threads,
                   stop, call, done, purged>>

\* task_available_cv.notify_one()
NotifyOne(c) ==
    /\ pc[c] = "one"
    /\ \/ Asleep = {} /\ UNCHANGED threads
       \/ \E w \in Asleep : threads' = [threads EXCEPT ![w] = "awake"]
    /\ Goto(c, "idle")
    /\ UNCHANGED <<flags, queue, tasks_running, paused, waiting, was_paused, stop, call>>

Purge(c) ==
    /\ Enter(c, "purge")
    /\ tasks' = <<>>
    /\ purged' = purged \cup ToSet(tasks)
    /\ UNCHANGED <<flags, tasks_running, paused, waiting, was_paused, threads,
                   stop, pc, call, done>>

Pause(c) ==
    /\ Enter(c, "pause") /\ Pausable
    /\ paused' = TRUE
    /\ UNCHANGED <<flags, queue, tasks_running, waiting, was_paused, threads, stop, pc, call>>

Unpause_ForgetsNotify(c) ==
    /\ Enter(c, "unpause") /\ Pausable
    /\ paused' = FALSE
    /\ UNCHANGED <<flags, queue, tasks_running, waiting, was_paused, threads, stop, pc, call>>

Unpause(c) ==
    /\ Enter(c, "unpause") /\ Pausable
    /\ paused' = FALSE
    /\ Goto(c, "all")
    /\ UNCHANGED <<flags, queue, tasks_running, waiting, was_paused, threads, stop, call>>

WakeWorkers == [w \in Worker |-> IF w \in Asleep THEN "awake" ELSE threads[w]]

\* task_available_cv.notify_all()
NotifyAll(c) ==
    /\ pc[c] = "all"
    /\ threads' = WakeWorkers
    /\ Goto(c, "idle")
    /\ UNCHANGED <<flags, queue, tasks_running, paused, waiting, was_paused, stop, call>>

-------------------------------------------------------------------------------
(* wait, wait_for and wait_until, and the waits of reset and the destructor.*)

WaitDone_IgnoresRunning == paused \/ tasks = <<>>

WaitDone_IgnoresQueue == tasks_running = 0

WaitDone == tasks_running = 0 /\ (paused \/ tasks = <<>>)

\* The wait returns: the flag is cleared, whoever else still waits.
Return(c, k) ==
    /\ waiting' = FALSE
    /\ \/ k \in {"reset", "destroy"} /\ Goto(c, "join") /\ call' = [call EXCEPT ![c] = k]
       \/ k \notin {"reset", "destroy"} /\ Goto(c, "idle") /\ call' = [call EXCEPT ![c] = "none"]

Block(c, k) == Goto(c, "blocked") /\ call' = [call EXCEPT ![c] = k]

Wait(c, k) ==
    /\ \/ k \in {"wait", "wait_for"} /\ Enter(c, k)
       \/ k \in {"reset", "destroy"} /\ pc[c] = k
    /\ \/ WaitDone /\ Return(c, k)
       \/ ~WaitDone /\ waiting' = TRUE /\ Block(c, k)
    /\ UNCHANGED <<flags, queue, tasks_running, paused, was_paused, threads, stop>>

\* A waiter that was woken tests its condition again.
WaitAgain(c) ==
    /\ pc[c] = "woken"
    /\ \/ WaitDone /\ Return(c, call[c])
       \/ ~WaitDone /\ Block(c, call[c]) /\ UNCHANGED waiting
    /\ UNCHANGED <<flags, queue, tasks_running, paused, was_paused, threads, stop>>

\* The time of wait_for or wait_until is over.
WaitTimeout(c) ==
    /\ pc[c] \in {"blocked", "woken"} /\ call[c] = "wait_for"
    /\ Return(c, call[c])
    /\ UNCHANGED <<flags, queue, tasks_running, paused, was_paused, threads, stop>>

-------------------------------------------------------------------------------
(* reset and the destructor: both wait, then stop and join the threads.    *)

Reset(c) ==
    /\ c = Owner /\ Enter(c, "reset")
    /\ ResetUnpaused \/ paused \/ ~Pausable
    /\ was_paused' = paused
    /\ paused' = Pausable
    /\ Goto(c, "reset")
    /\ UNCHANGED <<flags, queue, tasks_running, waiting, threads, stop, call>>

Destroy(c) ==
    /\ c = Owner /\ Enter(c, "destroy")
    /\ \A d \in Client \ {c} : pc[d] = "idle"
    /\ Goto(c, "destroy")
    /\ call' = [call EXCEPT ![c] = "destroy"]
    /\ UNCHANGED <<flags, queue, tasks_running, paused, waiting, was_paused, threads, stop>>

\* ~jthread of the last thread that is left: request_stop wakes the workers
\* when that thread is inside its wait; then the join waits until it is gone.
RequestStop(c) ==
    /\ pc[c] = "join"
    /\ \E w \in Live \ stop :
         /\ \A v \in Live : v <= w
         /\ stop' = stop \cup {w}
         /\ threads' = IF w \in Asleep \cup Awake THEN WakeWorkers ELSE threads
    /\ UNCHANGED <<flags, queue, tasks_running, paused, waiting, was_paused, pc, call>>

CreateThreads(c) ==
    /\ pc[c] = "join" /\ call[c] = "reset" /\ Live = {}
    /\ \E n \in Worker : tasks_running' = n /\ threads' = NewThreads(n)
    /\ stop' = {}
    /\ Goto(c, "restore")
    /\ UNCHANGED <<flags, queue, paused, waiting, was_paused, call>>

\* The last lines of reset: no worker is notified.
Restore(c) ==
    /\ pc[c] = "restore"
    /\ paused' = was_paused
    /\ was_paused' = FALSE
    /\ Goto(c, "idle")
    /\ call' = [call EXCEPT ![c] = "none"]
    /\ UNCHANGED <<flags, queue, tasks_running, waiting, threads, stop>>

Destroyed(c) ==
    /\ pc[c] = "join" /\ call[c] = "destroy" /\ Live = {}
    /\ Goto(c, "dead")
    /\ UNCHANGED <<flags, queue, tasks_running, paused, waiting, was_paused, threads, stop, call>>

-------------------------------------------------------------------------------
(* worker: a turn is what a worker does under the mutex, from the top of   *)
(* its loop or when it wakes, until it sleeps, quits or has taken a task.  *)

Running(w) == IF threads[w] = "start" THEN tasks_running - 1 ELSE tasks_running

Turn_EmptyOnly(w) ==
    /\ threads[w] \in {"start", "awake"}
    /\ LET heard == /\ threads[w] = "start" /\ waiting
                    /\ Running(w) = 0 /\ tasks = <<>>
       IN  pc' = [c \in Client |-> IF heard /\ pc[c] = "blocked" THEN "woken" ELSE pc[c]]
    /\ UNCHANGED <<flags, paused, waiting, was_paused, stop, call, done, purged>>

Turn(w) ==
    /\ threads[w] \in {"start", "awake"}
    /\ LET heard == /\ threads[w] = "start" /\ waiting
                    /\ Running(w) = 0 /\ (paused \/ tasks = <<>>)
       IN  pc' = [c \in Client |-> IF heard /\ pc[c] = "blocked" THEN "woken" ELSE pc[c]]
    /\ UNCHANGED <<flags, paused, waiting, was_paused, stop, call, done, purged>>

\* Where pop_task takes a task from: the front of the queue, or the top of
\* the priority queue, which leaves the order of equal priorities open.
Top(i) == \/ "priority" \notin flags /\ i = 1
          \/ "priority" \in flags /\ \A j \in DOMAIN tasks : Priority[tasks[j]] <= Priority[tasks[i]]

Take_NoPop(w) ==
    /\ Turn(w)
    /\ w \notin stop /\ ~paused
    /\ \E i \in DOMAIN tasks :
         /\ Top(i)
         /\ threads' = [threads EXCEPT ![w] = tasks[i]]
         /\ tasks' = tasks
    /\ tasks_running' = Running(w) + 1

Take(w) ==
    /\ Turn(w)
    /\ w \notin stop /\ ~paused
    /\ \E i \in DOMAIN tasks :
         /\ Top(i)
         /\ threads' = [threads EXCEPT ![w] = tasks[i]]
         /\ tasks' = RemoveAt(tasks, i)
    /\ tasks_running' = Running(w) + 1

Sleep(w) ==
    /\ Turn(w)
    /\ w \notin stop /\ (paused \/ tasks = <<>>)
    /\ threads' = [threads EXCEPT ![w] = "asleep"]
    /\ tasks_running' = Running(w)
    /\ UNCHANGED tasks

Quit_KeepsCount(w) ==
    /\ Turn(w)
    /\ w \in stop
    /\ threads' = [threads EXCEPT ![w] = "gone"]
    /\ tasks_running' = tasks_running
    /\ UNCHANGED tasks

Quit(w) ==
    /\ Turn(w)
    /\ w \in stop
    /\ threads' = [threads EXCEPT ![w] = "gone"]
    /\ tasks_running' = Running(w)
    /\ UNCHANGED tasks

RunTask_Uncaught(w) ==
    /\ threads[w] \in Task
    /\ done' = done \cup {threads[w]}
    /\ threads' = [threads EXCEPT ![w] = "gone"]
    /\ UNCHANGED <<flags, tasks, tasks_running, paused, waiting, was_paused, stop, pc, call, purged>>

\* The task runs, outside the mutex, and the worker returns to its loop.
RunTask(w) ==
    /\ threads[w] \in Task
    /\ done' = done \cup {threads[w]}
    /\ threads' = [threads EXCEPT ![w] = "start"]
    /\ UNCHANGED <<flags, tasks, tasks_running, paused, waiting, was_paused, stop, pc, call, purged>>

\* A condition variable may wake a thread that nobody notified.
Spurious ==
    /\ \/ \E w \in Asleep : threads' = [threads EXCEPT ![w] = "awake"] /\ UNCHANGED pc
       \/ \E c \in At("blocked") : Goto(c, "woken") /\ UNCHANGED threads
    /\ UNCHANGED <<flags, queue, tasks_running, paused, waiting, was_paused, stop, call>>

-------------------------------------------------------------------------------
Request(c) ==
    \/ \E t \in Task : DetachTask(c, t)
    \/ Purge(c) \/ Pause(c) \/ Unpause(c)
    \/ \E k \in {"wait", "wait_for"} : Wait(c, k)
    \/ Reset(c) \/ Destroy(c)

Proceed(c) ==
    \/ NotifyOne(c) \/ NotifyAll(c)
    \/ \E k \in {"reset", "destroy"} : Wait(c, k)
    \/ WaitAgain(c)
    \/ RequestStop(c) \/ CreateThreads(c) \/ Restore(c) \/ Destroyed(c)

Work(w) == Take(w) \/ Sleep(w) \/ Quit(w) \/ RunTask(w)

Next ==
    \/ \E c \in Client : Request(c) \/ Proceed(c) \/ WaitTimeout(c)
    \/ \E w \in Worker : Work(w)
    \/ Spurious

\* Every thread that can take a step inside a call or a task takes one in the
\* end; nobody has to make a call, and no wake-up is spurious by force.
Spec ==
    /\ Init /\ [][Next]_vars
    /\ \A c \in Client : WF_vars(Proceed(c)) /\ WF_vars(WaitTimeout(c))
    /\ \A w \in Worker : WF_vars(Work(w))

-------------------------------------------------------------------------------
(* Correctness properties.                                                 *)

\* Every variable has its type: a queue of distinct tasks, at most
\* MaxThreads workers, one place for every client.
TypeOK ==
    /\ flags \in FlagSets
    /\ tasks \in Seq(Task) /\ done \subseteq Task /\ purged \subseteq Task
    /\ tasks_running \in 0..MaxThreads
    /\ {paused, waiting, was_paused} \subseteq BOOLEAN
    /\ threads \in [Worker -> Stages \cup Task]
    /\ stop \subseteq Worker
    /\ pc \in [Client -> {"idle", "one", "all", "blocked", "woken", "reset",
                         "destroy", "join", "restore", "dead"}]
    /\ call \in [Client -> {"none", "wait", "wait_for", "reset", "destroy"}]

\* The counter tasks_running, on which wait() and get_tasks_running() rely,
\* is the number of workers that run a task or have not yet returned to the
\* mutex after one (create_threads counts a new worker the same way).
RunningCounted == tasks_running = Cardinality(Started \cup Busy)

\* No wake-up is lost: while some worker sleeps in a pool that is not paused
\* and not being stopped, every queued task has a worker that was woken or a
\* notify_one that is still to come (detach_task, unpause, worker).
NoLostWakeup ==
    \/ paused \/ Asleep = {} \/ stop # {} \/ At("all") # {}
    \/ Len(tasks) <= Cardinality(Awake) + Cardinality(At("one"))

\* The mutex, the condition variables and the joins never leave everybody
\* waiting: while a task is counted as running or is queued in a pool that is
\* not paused, or workers are being joined, a worker is runnable, or a client
\* is about to notify, or to stop or replace the last worker (worker, ~jthread).
Runnable == Live \ Asleep
CanJoin == At("join") # {} /\ (Live = {} \/ \E w \in Live \ stop : \A v \in Live : v <= w)
NoDeadlock ==
    ~WaitDone \/ At("join") # {} =>
        Runnable # {} \/ At("one") # {} \/ At("all") # {} \/ CanJoin

\* When a wait() returns, no worker is inside a task, and unless the pool is
\* paused no task is left in the queue (wait, reset_pool, the destructor).
Returned(c) == /\ pc[c] # "restore" /\ pc'[c] \in {"idle", "join"}
               /\ call[c] # "wait_for" /\ waiting' = FALSE
               /\ pc[c] \in {"blocked", "woken", "reset", "destroy"}
WaitMeansDone ==
    [][\A c \in Client : Returned(c) => Busy = {} /\ (paused \/ tasks = <<>>)]_vars

\* A waiter whose condition holds but whom nobody notified, and one whose
\* flag another thread's return has cleared.
Stranded(c) == pc[c] = "blocked" /\ WaitDone
Deaf(c) == pc[c] \in {"blocked", "woken"} /\ ~waiting

\* A waiter is left asleep although its condition holds only by a pause, a
\* purge or the return of another waiter: these change what it waits for
\* without notifying tasks_done_cv (pause, purge, wait, wait_for, reset).
StrandedOnlyBy ==
    [][\A c \in Client : Stranded(c)' =>
           Stranded(c) \/ Deaf(c) \/ (paused' /\ ~paused) \/ purged' # purged]_vars

\* The pool that is destroyed without being paused has run every task
\* that was detached and not purged (the destructor's comment).
DestroyRunsAll == pc[Owner] = "dead" /\ ~paused => tasks = <<>> /\ Busy = {}

\* The pool implements the abstract one: every task starts once and in
\* order, never while the pool is paused, and a purged task never starts.
Abstract == INSTANCE TaskPool WITH
    Ranks <- {Priority, <<>>},
    queued <- tasks, running <- {threads[w] : w \in Busy}, finished <- done,
    dropped <- purged, suspended <- paused,
    rank <- IF "priority" \in flags THEN Priority ELSE <<>>
ImplementsTaskPool == Abstract!Spec

\* A task that was submitted is run or purged, and its future becomes ready
\* or broken, unless the pool is paused meanwhile: sleeping workers never
\* forget it (submit_task, detach_task, unpause, worker, reset).
FutureSettles ==
    \A t \in Task : Future(t) = "pending" ~> (Future(t) \in {"ready", "broken"} \/ paused)

\* A client that sleeps in a wait returns, unless a pause, a purge or another
\* waiter's return has silenced it (see StrandedOnlyBy).
WaitReturns ==
    \A c \in Client : pc[c] = "blocked" ~> (pc[c] # "blocked" \/ Stranded(c) \/ Deaf(c))
===============================================================================
