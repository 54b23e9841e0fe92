# posixSemaphore in TLA+

The repository is a replacement for POSIX semaphores on Windows (`semaphore.c`),
with a library grown around it: a semaphore with an owner and a lock of its own
(`mutex.c`, `semaphore_type.c`), C++ wrappers, signals, process times, and a
vendored thread pool. This directory holds TLA+ models of it, the TLC
configurations that check them, and proofs checked by TLAPS.

Source lines below are lines of the files named; `PROJECT.json` maps every
definition to its lines.

## 1. The system

| Part | State | Operations | Interacts with |
| --- | --- | --- | --- |
| Semaphore calls, `semaphore.c` 87-244 | the kernel's count; inside a call the stack of the caller | `sem_wait`, `sem_trywait`, `sem_timedwait`, `sem_post`, `sem_getvalue` | each is one or two kernel calls on the block's handle |
| Semaphore objects, `semaphore.c` 55-78, 253-370 | a heap block per semaphore with one handle, the process's handle table, named kernel objects | `sem_open`, `sem_init`, `sem_close` = `sem_destroy`, `sem_unlink` | heap, kernel, other processes |
| PID mutex, `mutex.c` | `locked`, `process_id` | `try_lock`, `try_unlock` | embedded twice in the owned semaphore |
| Owned semaphore, `semaphore_type.c` | `sem`, `owner`, `owning_reason`, `aquired`, `mtx`, `dmtx` | `aquire`, `release`, `lock`, `unlock`, `lockdata`, `unlockdata`, `initsem`, `close`, two waits | calls the two above; called by `psync.c` with a thread id |
| C++ data semaphore, `semaphore.cpp` | three semaphores, two PIDs, a list of waiting PIDs | lock, unlock, aquire, unaquire, wait_for, stop, goon, call | `semaphore.c`, `mutex.c` |
| Thread pool, `BS_thread_pool.hpp` | task queue, running count, `paused`, `waiting`, the workers, under one mutex and two condition variables | detach, submit, pause, unpause, purge, reset, wait, wait_for, destruction | used by the C++ side |
| Parallel loops, `BS_thread_pool.hpp` | the blocks of a range, a vector of futures | detach and submit of blocks, loops, sequences; `get`, `wait`, `wait_for` of `multi_future` | submits to the pool |
| Native extensions, `BS_thread_pool.hpp` | the operating system's policy, nice value and affinity | get and set for process and thread | the kernel |
| Synchronised stream, `BS_thread_pool.hpp` | list of streams, one mutex | print, println, add, remove | its callers' threads |
| Signals, `psignals.c` | two linked lists: signals, PID arrays | new, add | `psync.c` |
| Process time, `ptime.c`, `systime.c`; synchronisation, `psync.c`; thread records, `threading.c` | start times in globals; records with callbacks | conversions, constructors, setters | each other |
| Truth tables, `truth.c`; parameter pack, `parampack.c` | vectors | evaluation; find and set | none |
| Example, `main.c` | one semaphore | exclusive open, wait and post twice, close | `semaphore.c` |

**Hard behaviours.** The hazards are listed with their lines in
`PROJECT.json`. In short: a call that makes two kernel calls is interleaved with
other threads' calls; a relative timeout is computed from a clock reading that
is old when the wait starts, in a width whose largest value means INFINITE; heap
blocks and handle values are reused while another call still has them in hand;
calls that fail half-way have to give everything back; the owned semaphore and the
signal lists check and set unprotected memory from several threads, with the PID 0
meaning both nobody and a caller; in the pool, notifications come after the unlock,
`wait` and `reset` share one flag each with everybody, and a worker may be stopped
with tasks in the queue; block bounds are cast to the index type; and several
libraries read globals or pointers that nobody has set.

**What makes each part correct.** *Calls*: units are neither created nor lost,
at most as many holders as initial units, no failure without cause, a read that
changes nothing, a timeout that is not early, waits that end. *Objects*: a
pointer from `sem_open` reaches the object it was opened for, exclusive opens
exclude each other, nothing leaks. *Owned semaphore*: a lock that was granted
lasts until its holder unlocks; a free semaphore can be locked; a lock can be
undone. *Thread pool*: every task is started once, in order, never while the pool is
paused, unless it is purged; `wait` returns when it may and only then; no worker
sleeps while work is there; the destructor leaves nothing behind. *Loops*: the
blocks partition the range; every index is visited once; the waits tell the truth.
*Signals*: an element added in peace stays. *Example*: one process at a time, all
end. *Streams*: whole lines. The remaining C libraries are unfinished or broken
enough that what can be said of them is what does *not* happen: their properties
state exactly which calls fail, crash or never return, for every order of calls.

## 2. Modules

| Module | What it is |
| --- | --- |
| `CountingSemaphore` | the abstract semaphore of the repository's README: a value that never falls below zero, decrement, increment |
| `SemCounter` | the five calls that use the value; refines `CountingSemaphore` |
| `SemCounterMC`, `SemCounter_proofs` | its instances and proofs |
| `SemLifecycle` | open, init, close/destroy over heap, handle table and kernel objects |
| `SemLifecycleMC`, `SemLifecycle_proofs` | its instances and proofs |
| `SemaphoreType` | the mutex and the owned semaphore |
| `SemaphoreTypeMC`, `SemaphoreType_proofs` | its instances and proofs |
| `TaskPool` | the abstract pool: submit, start in order, finish, drop, suspend |
| `ThreadPool` | `thread_pool` with its mutex, condition variables, flags and workers; refines `TaskPool` |
| `ThreadPoolMC`, `ThreadPool_proofs` | its instances and proofs |
| `PoolLoops`, `PoolLoops_proofs` | `blocks`, the loop submissions and `multi_future`; proofs |
| `OsPriority` | priority and affinity on Linux |
| `SyncedStream` | `synced_stream` |
| `SignalQueue`, `SignalQueue_proofs` | the two linked lists of `psignals.c`; proofs |
| `MainProgram` | several processes of `main.c`, killed anywhere |
| `DataSemaphore`, `DataSemaphore_proofs` | the class of `semaphore.cpp`, a call at a time; proofs |
| `Startup` | which calls of `ptime.c`, `systime.c`, `psync.c`, `threading.c` return |
| `Truth`, `ParamPack` | `truth.c`, `parampack.c` |
| `Pointers` | the constant `NULL` that modules with pointers share |
| `Library_proofs` | proofs about `MainProgram`, `OsPriority`, `SyncedStream`, `Truth`, `ParamPack`, `Startup` |
| `LibraryMC` | one instance of each of the nine parts from `PoolLoops` on |

Operators whose name ends in `_Something` next to a definition are variants of it
with a plausible mistake; `PROJECT.json` says which property each one breaks.

### SemCounter

The library keeps no counter: `count` is the kernel's. A kernel call is one
atomic step (`TakeUnit` for a `WaitForSingleObject` that succeeds, `PutUnit` for
`ReleaseSemaphore`), so a call with one kernel call is one step, or two if it
blocks; `sem_getvalue` (224-244) is `SemGetvalue`, which takes a unit, and
`SemGetvalueRestore`, which puts it back or fails; `sem_timedwait` (176-193)
reads the clock (`SemTimedwait`), starts the wait (`SemTimedwaitBlock`), and ends
it. `ArchRelTimeInMs` is the code's conversion (139-164): two truncations, a
subtraction, and 0 for what is outside `0..WaitLimit-1`. `WaitLimit` is the
code's 4294967295, which the kernel takes for INFINITE; `SemTimedwaitExpired` is
disabled at that timeout. `Value` counts a unit that a `sem_getvalue` has on loan.

Clients follow `main.c`: a thread waits for a unit only while it holds none and
posts the one it holds. `Signallers` may also post without holding. A blocked
thread competes for a unit with every call that arrives later; the kernel's queue
is stricter, so the model has more behaviours than the program.

### SemLifecycle

Memory is one function `word` from addresses (heap blocks, and each thread's
`sem_t` variable) to what is stored there; `ktab` is the handle table; an object
exists while a handle here or in another process (`remote`) refers to it. Every
call is split where another thread can see the difference: allocation,
`CreateSemaphoreA`, the checks of `GetLastError`, `CloseHandle`, `free`, and the
store after it. Whether an object already existed is `GetLastError()`, which is
per thread: `existed[t]`. A call that returns an error before it has changed
anything is a stuttering step; `sem_unlink` does nothing (367-370) and has no
action. `sem_init` stores the address of its block in the caller's `sem_t`
(76), while all other calls take their argument for the block; `sem_destroy` of
such a `sem_t` therefore passes an address to `CloseHandle` and fails, and the
block stays.

`Quarantine` says what the heap may do. `sem_destroy` stores through a pointer
into the block it has just freed (264-265), which C leaves undefined; with
`Quarantine = FALSE` the block may be handed out in between (this is a run of its
own, a finding), with `TRUE` it is handed out only after the store, which is what
the other runs and the proofs assume, so that they show what else holds.

### SemaphoreType

The fields are plain memory, so a step is one test or one store, and `++` and `--` are a
load and a store. Consecutive `if`s read `owner`, `locked` and `process_id` again
(`aquire` 74-75, `release` 85-86, `try_lock` 20-22, `try_unlock` 31-32), each reading a
step of its own: a thread that finds a field changed between two of them falls through,
to the store of the owner at 76, the extra `--aquired` of 86 or the stores of the mutex.
A thread's `pc` is a label of the function it executes. `lock`
calls `aquire` and then `try_lock`, and `aquire` calls `initsem`, all inside the
same call. `told` is what clients know: which of them was told `true` by a lock
and not yet by an unlock. `strcpy` into `owning_reason`, a string literal, may
crash the program or not, depending on the build. `semaphore_initsem` passes the
semaphore it opened to `sem_init`, which overwrites the handle; `close`,
`trywait` and `timedwait` on it then always fail and change nothing, so they have
no actions, and `release` goes on after its `close` has failed. The headers
name the functions `mutex_try_lock`, `mutex_try_unlock`; `mutex.c` defines
`try_lock`, `try_unlock`; the model takes them for the same functions.

### ThreadPool

`tasks_mutex` protects everything the pool keeps, so what a thread does between
locking and unlocking (or sleeping) is one step. A notification that the code sends
after unlocking is a step of its own: `NotifyOne`, `NotifyAll`; the one that
`worker` sends under the mutex is part of the worker's turn. Any sleeping thread may
also wake by itself (`Spurious`). A worker is at `"start"` (top of its loop, counted
as running), `"asleep"`, `"awake"` (woken but without the mutex), in a task, or
`"gone"`; its turn (2002-2027) ends in `Take`, `Sleep` or `Quit`, and `RunTask` is
what it does without the mutex. A task that throws ends like any other, since
`worker` catches (2035). `Future(t)` is what
`submit_task` handed out: ready when the task has run, broken when it was purged.

`CMakeLists.txt` builds for C++20, so the workers are `jthread`s: replacing or
destroying the vector asks each to stop and joins it before the next
(`RequestStop`), which wakes all workers when the one asked is inside its wait.
`reset` waits, does that, makes new threads (`CreateThreads`) and only then
restores `paused` (`Restore`); the destructor waits and joins (`Destroyed`).
`wait_for` and `wait_until` are one call that may end at any time. `Calls` and
`FlagSets` choose which members and which optional features a program uses; each
task is submitted once (`Task`), and only `Owner` resets and destroys, the latter
when no other client is in a call, as C++ demands. `ResetUnpaused` says whether a
pausable pool is also reset while it is not paused: that is finding 5, and the
other runs and one theorem assume it is not.

`TaskPool` is what a user is promised: a task starts once, by priority and then
by order of submission (any order among equal priorities, as the heap of
`std::priority_queue` leaves it), never while suspended, at most `MaxThreads` at a
time, and a dropped one never starts.

### The smaller modules

`PoolLoops`: `class blocks` with every cast to the signed index type `T` whose
largest value is `MaxIndex` (453-540), for ranges of at most `DiffMax` indices, the
largest value of the type in which 492 computes `last - first`: int's where `T` is
narrower, so that every range of `T` is meant, and `T`'s own where it is not, since a
larger difference overflows there, which is undefined and not modelled; the submissions; tasks that end, or throw at an
index; and `multi_future`'s `get`, `wait`, `wait_for`, one future at a time against a
clock.
`blocks` writes `this->total_size` for a local variable; the template would not
compile if that were instantiated as written, so it is read as the local.

`OsPriority`: Linux keeps policy, nice value and affinity per thread; what the code
does "to the process" falls on the thread whose id is the process's (`Main`).
Privileges may be dropped, after which raising fails.

`SyncedStream`: a print holds the mutex and writes item by item to each stream;
`add_stream` and `remove_stream` do not take it, and `undefined` records that the
vector changed under a print. `lines` is a history variable: for each stream the
threads that owe it a line, in the order in which they took the mutex, once for every
time the stream was in the list. `WholeLines` compares what was written with it.

`SignalQueue`: each access of a list is a step, for both kinds of list, whose
additions store `next` and `prev` in opposite orders. `Walked` is what a walk along
`next` visits, as the least set that is closed under the pointers.

`MainProgram`: each process runs the statements of `main.c`; the object lives as long
as some process has a handle; the operating system closes a killed process's
handle but does not return its unit.

`DataSemaphore`: whole calls, as functions from the object's state to its new state
and result. Three things the file uses are not in the repository and are read as
their names say: `dlocked()`, `mtx.unlock()`, `notify()`. The value a kernel
semaphore starts with is read from a counter before or after it is incremented, as
the compiler chooses.

`Startup`: a stack machine. A function is the list of the calls it makes and of the
pointers it sets, tests and dereferences; arithmetic is left out. A frame is the
function and the step it is at. A call that finds the stack full is `"overflow"`, a NULL
dereference `"fault"`. `StackLimit` is the room on the stack, and `StartAssumption` asks
for three frames, the depth of the deepest call that ends
(`syncprocesshandler_sync_processes`, which calls `syncprocess_new`, which calls
`synctime_new`).

`Truth`: `TruthEquivation`, made, filled and evaluated one truth per step, in any order
of calls. A truth is evaluated as one of doubles, whatever its union was set to, so what
is no double reads as any number; the operators between truths are read through the
address of a parameter that is gone, so each is any operator or none. `ParamPack`: the two arrays and `strcmp`'s
crash at NULL.

`LibraryMC` extends the nine parts from `PoolLoops` on, which share no state, and each
of which is small, so one run holds one instance of each: `active`, chosen at the
start, names the part that moves, while the others keep their initial states. The
invariants and action properties it checks are the parts' own definitions, the same
that the proofs are about.

## 3. Runs

| Run | Configuration | Shows |
| --- | --- | --- |
| `counter_mutex` | 3 threads, 2 units, maximum 2, 2 ticks per ms, 6 ticks | `UnitsConserved`, `NothingFails`, `ImplementsCounting` (refinement), `GetvalueNotTooHigh`, `TimeoutAtMostOneMsEarly` |
| `counter_live` | 3 threads, one of them a signaller, 1 unit, maximum 1, fairness | `TypeOK`, `SupplyNeverShrinks`, `TimedWaitReturns`, `WaitServed` |
| `lifecycle` | 2 threads, 3 blocks, 3 handles, a name and a refused name, all flag combinations, another process | `OpenedIsUsable`, `ExclusiveOwner`, `NoBlockLeak`, `InitedStays` |
| `owned` | 2 threads, PIDs 0 and 1, `aquired` modulo 4, initsem may fail | `TypeOK`, `OnlyPidZeroLocks`, `LockIsKept`, `NeverUnlocked` |
| `pool` | 2 clients, 2 workers, 2 tasks of different priority; no optional features, or pausing and priorities; every call; fairness | `RunningCounted`, `NoLostWakeup`, `NoDeadlock`, `DestroyRunsAll`, `WaitMeansDone`, `StrandedOnlyBy`, `ImplementsTaskPool` (refinement), `FutureSettles`, `WaitReturns` |
| `library` | one small instance of each other part, see below | `BlocksPartition`, `LoopRunOnce`, `WaitForTruth`, `ReadsBack`, `SetFailsClean`, `AddedStaysLinked`, `MainAlone`, `ProgramEnds`, `DataNeverLocked`, `DataNeverReturned`, `StartOutcome`, `EquivationWhole`, `WholeLines`, `PackStaysEmpty` |
| `getvalue_drops_unit` | with a signaller | violates `GetvalueKeepsValue` |
| `timeout_far` | a deadline `WaitLimit` ms away | violates `TimeoutAtMostOneMsEarly` |
| `destroy_race` | `Quarantine = FALSE` | violates `OpenedIsUsable` |
| `open_creates` | as `lifecycle` | violates `OnlyOpenedExists` |
| `init_unusable` | as `lifecycle` | violates `InitedIsUsable` |
| `pool_reset` | a pool with pausing that never pauses, detach and reset only | violates `FutureSettles` |

**Bounds.** Three threads are what it takes for two readers to hide units from a
third and for one waiter to be passed over in favour of two others; with the
maximum equal to the initial value the full semaphore is reached, with all units
held the empty one. Two ticks per millisecond make truncation visible, and the
deadlines are: already past, inside the first millisecond, on and across a
boundary. `MaxTime` stops the clock, and `AtMostMaxTime` ends a wait that would
end after it; both name the only cut in time. In `lifecycle` three handles serve
two threads' calls of any kind but run out when leaked ones accumulate, which
reaches the failing branches; three blocks let one thread's block be
freed and taken by the other. Threads, blocks and handles are interchangeable
(no operator tells them apart), so the runs without liveness use symmetry. In
`owned` one thread with PID 0 and one with another is the smallest case in
which each of them gets in the other's way; modulo 4 is enough for `aquired` to
wrap below zero. There `CHECK_DEADLOCK FALSE` says that the program may crash in
`strcpy`. In `pool` and `library` it says that
after the destructor, or at the end of a part, nothing is left to do. In the
other runs some step is always possible.

In `pool` two workers are what it takes for a wake-up to reach one that does not need
it while the other sleeps, two clients for one to wait while the other pauses, purges
or waits as well, two tasks for an order between them. In `library`: `MaxIndex` 3, an
index type that does not hold the size of its whole range (7), `DiffMax` 7, so that this
range is asked for, as for a type narrower than int, and up to 3 blocks, so that remainders occur; 2 threads and 2 processors with a third asked for;
2 threads adding 4 elements, so that two additions overlap after one and before
another; 3 processes, two of which meet a third that is killed; PIDs 0, 1, 2; 20
frames, more than any chain of calls without a cycle; numbers 0, 1, 2,
six truths (`MCTruths`: true, false, implications that crash and that do not, one of
operands that are no doubles, one without a left operand), NULL, and equivations of up
to 3; 2 printers, 2 streams (a stream may be in the list twice), 2
lines; 2 names and packs of none, one, and the largest size.

**Fairness** (`FairSpec`, used by `counter_live`). Weak fairness of the clock and
of a thread inside `sem_timedwait`: time passes and a ready thread is scheduled.
Weak fairness of a holder's `sem_post`: `main.c` posts what it waited for.
Weak fairness of `sem_getvalue`'s second half: nothing blocks it. Strong fairness
of granting a unit to each waiter: the kernel queues the waiters of a semaphore, so
a waiter is not passed over for ever although the unit may be taken by others
each time. No fairness of new calls is assumed.

`ThreadPool!Spec`: weak fairness of each client inside a call (`Proceed`), of the end
of a timed wait, and of each worker's turn: a runnable thread is scheduled and gets
the mutex. No call is ever forced, nor is a spurious wake-up, so `FutureSettles`
cannot rest on either. `LibraryMC!Spec`: weak fairness of each process of `main.c`
that has a statement to execute.

## 4. Findings

1. `sem_getvalue` is a decrement and an increment (228-230). If another thread's
   post fills the semaphore in between, the increment fails, the call returns
   `EINVAL`, and a unit is gone. `SupplyNeverShrinks` shows how far it can go: the
   units never become fewer than the initial ones, since only a surplus
   post can fill the gap. That is the exact condition: if nobody posts what he does
   not hold, no `sem_getvalue` changes the value (`GetvalueKeeps`).
2. A deadline 4294967295 ms or more away becomes a timeout of 0 (159), so the
   wait gives up at once. Nearer deadlines are honoured to within a millisecond.
3. `sem_destroy` writes to the block after `free` (264-265). If another thread's
   `sem_open` got it, that semaphore loses its handle.
4. `sem_open` without `O_CREAT` creates the semaphore, reports `ENOENT`, and
   leaves the handle open (334-339), so the name exists until the process ends. It is
   the only call that does: if every `sem_open` has `O_CREAT`, a semaphore exists only
   while somebody has it open or is in a call on it (`CreatedAreKept`).
5. `reset` of a pool with pausing sets `paused` while it works and restores it at the
   end (1577) without the notification `unpause` sends. New workers that looked at
   the queue in between sleep, and a task in the queue stays there until somebody
   submits another. Line 1532 says that waiting tasks will be executed by the new
   threads. With `ResetUnpaused = FALSE` (such pools are reset only while paused, and
   later unpaused) no wake-up is lost, which `WakeupsReach` proves, and clients and
   workers never all wait for each other (`DeadlockFree`).
6. `sem_init` stores its block's address in the caller's `sem_t` (76), while `sem_wait`,
   `sem_post`, `sem_getvalue` and `sem_destroy` take the pointer they are given for the
   block itself, so through the same pointer they fail with `EINVAL`
   (`InitedIsUsable`). Nothing any thread calls gives block or object back
   (`InitedStays`, which `InitLasts` proves).

Also seen while modelling, stated by a property that passes:

- `try_lock` (`mutex.c` 22) grants a free mutex to PID 0 only (`OnlyPidZeroLocks`). A
  thread with any other PID becomes owner in `semaphore_lock` and is then refused the
  lock. Conversely, PID 0's lock leaves `owner` 0, another thread can become owner
  through `aquire`, and then no call of anybody unlocks, unless it was already past its
  tests (`NeverUnlocked`).
- `pause`, `purge` and the return of another waiter (which clears the shared flag
  `waiting`, also when `wait_for` merely times out) can leave a thread asleep in
  `wait()` although its condition holds; nothing else can (`StrandedOnlyBy`).
- `DataSemaphore::lock` and `unlock` never succeed, and no unit that `stop` or `call`
  took is given back (`DataNeverLocked`, `DataNeverReturned`).
- `seconds_to_ticks` recurses without end when its globals are not set, since what sets
  them needs ticks; the constructors of `psync.c` and `threading.c` dereference NULL
  (`StartOutcome`).
- Setting a parameter in a new parameter pack crashes in `strcmp` (`PackStaysEmpty`).
- `IMPLIES` takes a Boolean for a pointer, and the loop over an equivation uses a place
  before it asks whether one is there: one that is not full is never evaluated to an
  answer (`EquivationWhole`).
- Two unsynchronised additions to a signal list can lose one of them; later ones are
  not affected (`AddedStaysLinked`).
- `set_os_thread_priority` that fails may have taken a thread's realtime policy away
  (`SetFailsClean`).

Seen by reading only: `semaphore_timedwait` rejects every
deadline that is not `NULL`; `semaphore_type_new` calls `initsem` before it sets the
fields `initsem` reads; `add_stream` and `remove_stream` do not take the mutex.

## 5. Proofs

`SemCounter_proofs`, for any finite set of threads, any maximum, any clock
resolution, any deadlines, under `CounterAssumption`:

- `TypeCorrect`, `SupplyHolds`: with any signallers. Every step changes one
  thread's place and at most one unit, so the lemmas first say what such a step
  does to the sets of borrowers and holders and their cardinalities; the
  invariant is that supply is at least the initial value together with the types.
- `Conservation`, `MutualExclusion`, `NoFailure`, `Implementation`, assuming
  `Signallers = {}`: supply equals the initial value, so a thread that has a unit
  to put back finds the count below the maximum and `ReleaseSemaphore` succeeds.
  `NothingFails` and the refinement rest on that. The refinement maps `value` to
  the count plus the units on loan, and `owners` to the holders.
- `GetvalueKeeps`, also with `Signallers = {}`: by `Conservation` the count is below the
  maximum while a unit is on loan, so `sem_getvalue` can put it back.
- `TimedWaitsEnd`: the timeout of a blocked timed wait is below the kernel's INFINITE, so
  the clock alone ends it; the rest of `TimedWaitReturns` is fairness.
- `TimeoutBound`, assuming that no deadline is `WaitLimit` milliseconds or more
  after the clock's start: what a waiting thread has computed ends less than a
  millisecond before its deadline, and the clock and the delay before the wait
  starts only make it later.
- `GetvalueBound`: what is reported is at most the value, which includes loans.

`SemLifecycle_proofs`, for any threads, blocks, handles and names, assuming
`Quarantine = TRUE`: `OpenedUsable`, `BlocksAccounted`, `Exclusion`. None of these
is inductive alone. The strengthening says that no two calls or semaphores use
the same block (`UsersDiffer`, `UsesDiffer`), that a used block is allocated
(`UsedIsLive`), that a block filled in by a creation holds an open handle of
the right object (`FilledIsOpen`), and that no two of them hold the same handle
(`HandlesDiffer`); `Exclusion` adds that names and the results of creations
match (`NamesMatch`). `TypesKept` is the type invariant, which no run checks.
`CreatedAreKept` assumes in addition that every `sem_open` has `O_CREAT`. It needs that a
handle on a named object is always in the block of an open semaphore, or of a `sem_open`
about to return or give it up (`NamedKnown`; `NamesMatch` gives the name); and that a creation never comes to the ENOENT path (`Creating`).
`InitLasts`, an action
property, follows from the same invariant: the block a `sem_t` points to is nobody's `pv` and nobody's open semaphore,
and its handle is in no other block, so no step of any call reaches either.

`SemaphoreType_proofs`, for any threads, any assignment of PIDs and any width:
`TypeCorrect`; `ZeroLocks`, from the invariant that `process_id` is never
anything but 0 and that a thread past `try_lock`'s test of its PID has PID 0; `LockKept`,
assuming that at most one thread has PID 0; `LockedStays`
and `LockedForEver`: `LockedOut` (a locked semaphore that a PID other than 0
owns, and no call in progress past a test that may lead it to a store of the owner or
of the mutex, an `aquire` between 74 and 75 included) is closed under every step, so a semaphore found locked and owned
when no call is in progress is locked at every later moment.

`ThreadPool_proofs`, for any tasks, clients, number of threads, features and
priorities, under `PoolAssumption`:

- `TypeCorrect` (the type invariant, which no run checks), `CountExact`: the invariant
  is the conjunction of the two (`IInv`), since the counter stays within its type
  because it counts workers. Most steps only wake workers or touch one; a lemma for each kind gives the change of
  the cardinality.
- `WaitCorrect` follows from `CountExact`: a zero counter means that no task runs.
- `WorkersNotify`, `PoolImplements` need `Once`: a task is at one place of the queue,
  or run by one worker, or done, or purged. Hence a worker's take removes exactly one
  task from the abstract queue, and a purge that empties a non-empty queue changes
  `purged`. `PoolImplements` is the refinement: `running` is the set of tasks that
  workers are in, `suspended` is `paused`.
- `DestructorWaits`: while the destructor runs, all other clients are idle, and once
  its wait is over there are no tasks and no worker at work (`Destroying`).
- `WakeupsReach`, assuming `ResetUnpaused = FALSE`: `NoLostWakeup` is inductive together
  with `Resetting`, which says that `reset` of a pool with pausing will restore `TRUE`.
- `DeadlockFree`, under the same assumption, says that while there is work or workers are
  being joined somebody can run. While nobody joins, a task that is counted as running
  belongs to a worker that can run (`CountExact`), and a queued one has a worker awake
  or a notification on its way (`WakeupsReach`). While workers are joined, `Joining` says
  that a worker asked to stop is never asleep, for the request wakes it and it does not
  sleep again; so either such a worker has still to leave, or the client that joins asks
  the next one. Which one is the last is an argument about the largest number in
  a finite set (`LastWorker`).

`PoolLoops_proofs`, for any `MaxIndex`, `DiffMax` at least that, number of threads, of blocks asked for, and
duration, under `LoopAssumption`:

- `Partitioned`: the blocks submitted so far are the first ones of the division. That
  the casts do no harm is arithmetic on `Cast`: a sum of casts, cast again, is the cast
  of the sum, and the start of every block lies in the index type, where `Cast` is the
  identity, whatever the parts were.
- `RunOnce`: a block that is pending has run none of its indices, one that has ended
  without an exception all of them, and blocks do not overlap; the futures that `get()`
  has passed ended without an exception. The invariant relates `ran`, index by index,
  to the state of the future of the one block that has the index (`Divided`,
  `Executed`, `Futures`).
- `WaitsTell` (`Waited`): the futures before the one looked at are ready, and stay so;
  when `wait_for` goes past a future that is not ready, the clock is at `Duration`, and from
  then on it can only stay there or the answer is false.

`SignalQueue_proofs`: `StaysLinked`, for any threads and elements, under
`ListAssumption`. What is reached from an element is the least set closed under `next`
(`Walked`), so the invariant speaks of sets and not of paths. An element that was added
without overlap is cut off only by a store into a `next` before it. `Untouched` says
that no thread is about to make one: from where it will store, the element is not
reached. That is inductive because a thread that adds alone walks the list itself
(`Alone`), because what is not yet published points to nothing and nothing points to
it (`Unreached`), and because two threads never add the same element (`Owned`).

`Library_proofs`:

- `OneAtATime`, for any non-empty set of processes: `MainAlone` is inductive together
  with the fact that a process is turned away only by one that got through (`Winner`).
- `LevelsReadBack`, `FailuresClean`, for any threads and processors: what was asked for
  last, of a thread or of the process, is what the kernel has (`OsIInv`), and the two
  tables of levels are injective on what `get_` looks at.
- `LinesWhole`, for any threads, streams, lists and number of lines: while a print is
  under way (`Printing`), a stream has been given two items for every line that is owed
  to it but those of the positions of the list still to come (`Due`), one more if its
  line is half written; these items are the beginning of what it should show, and the
  lines not finished are the printing thread's.
- `Equivations`, for any numbers, truths and sizes: an operator was stored with every
  truth, so the `break` never ends the loop, which has then passed a truth in each place.
- `NothingStored`, for any sizes, names and values:
  a pack with room is searched past its first NULL, so each call crashes before it
  stores, and one without room has no position to store at.
- `StartsEnd`, for any `StackLimit` of at least three: `StartOutcome` says what becomes of
  a function from its name alone, while the stack holds many functions, so the invariant
  (`StartIInv`) is about each frame and the one above it. A function that does not end
  never gets past its step `StuckAt`: what it calls there does not end either
  (`StaysIn`), or the pointer it reads there is one that nobody sets (`NeverSet`). If a
  frame is of a function that recurses for ever, so is the entry, and likewise for those
  that come to NULL. The others are nested no deeper than their `Rank` allows, so they
  never fill the stack. `StepsAre` lists what a function can do at the steps it reaches;
  all that follows uses only that list.

`DataSemaphore_proofs`: `NeverLocked`, `NeverReturned`, for any PIDs. No call writes a PID
other than 0 (`Good`), so every call that would need one fails; what calls do to units
and to the mutex of `dsem` is a reflexive and transitive relation (`Below`), which
carries calls that call others.

Only model-checked: the liveness properties (`TimedWaitReturns`, `WaitServed`,
`FutureSettles`, `WaitReturns`, `ProgramEnds`), which the provers do not handle, and the
six violations, which are counterexamples and need no proof. Every other property
of a run is stated by a theorem. No module declares a recursive operator; recursion is
written as functions or as least sets.

## 6. Not modelled, and the plan

Not modelled, by part:

- `semaphore.c`: security descriptors, `mode`, formatting and lengths of names.
- `BS_thread_pool.hpp`: the Windows and macOS branches of the native extensions,
  thread names, `wait_deadlock_checks` (an optional exception that changes no state),
  `set_cleanup_func`, getters, the polyfill `counting_semaphore` (compiled only
  without C++20), `common_index_type` (compile time).
- `ptime.c`: the arithmetic, since whatever uses it depends on `seconds_to_ticks`,
  which does not return.
- `psync.c`: nine functions without a body, and two callbacks nothing else reaches.
- `psignals.c`: the copy of a message to a pointer that was not set.
- `semaphore.cpp`: the queries, `get()`, and the helpers above line 154.
- `truth.c`: the evaluations for strings, numbers and void pointers, which `trutheval`
  does not come to, and which keep no state; equivations of size 0, whose place 0 is read
  although there is none.
- `scheduler.c` (one allocation), and `functionqueue.h`, `resultenv.h`,
  `threadingpool.h`, `threadmem.h`, `semaphore_threaded.h`, which declare what nothing
  implements.

What would come next:

1. `set_cleanup_func` and `wait_deadlock_checks` as actions of `ThreadPool`.
2. `sem_init` and `SemCounter` together: what the calls do to the wrong handle when the
   address of a block happens to be one.

The owned semaphore has no abstract specification of its own: what its lock promises is
`LockIsKept`, and nobody whose PID is not 0 is granted it at all.
