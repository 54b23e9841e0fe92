------------------------------ MODULE PoolLoops -------------------------------
(***************************************************************************)
(* BS_thread_pool.hpp: a loop that is run in parallel.  class blocks       *)
(* divides the range first..last-1, detach_ and submit_ blocks, loop and   *)
(* sequence give the pool one task per block (per index for a sequence),   *)
(* and a multi_future collects what the tasks return or throw.             *)
(*                                                                         *)
(* The indices have a signed integer type T, to which the code casts.  The *)
(* difference of two of them (line 492) is computed in int where T is      *)
(* narrower, else in T itself, where it overflows if the range has more    *)
(* than DiffMax indices.  That is undefined and not modelled: for such a T *)
(* a client divides ranges whose size T holds.  blocks() writes            *)
(* this->total_size for its local total_size; the template does not        *)
(* compile otherwise, and it is read as the local here.                    *)
(***************************************************************************)
EXTENDS Integers, Sequences, FiniteSets, SequencesExt

CONSTANTS
    MaxIndex,       \* std::numeric_limits<T>::max()
    DiffMax,        \* the largest value of the type of last - first: int's, or T's
    thread_count,   \* the pool's number of threads
    MaxBlocks,      \* bound: the largest num_blocks a client asks for
    Duration        \* the duration given to wait_for, in ticks

ASSUME LoopAssumption ==
    /\ MaxIndex \in Nat /\ MaxBlocks \in Nat /\ Duration \in Nat
    /\ DiffMax \in Nat /\ DiffMax >= MaxIndex
    /\ thread_count \in Nat \ {0}

VARIABLES
    loop,           \* the call: its kind, range, blocks, the index at which
                    \* the loop function throws, or Never
    submitted,      \* the blocks submitted so far, as [start, end]
    future,         \* future[i]: the state of the i-th task's future
    ran,            \* ran[k]: how often the loop function was called with k
    client,         \* where the client is: "idle", "submit", "have" or a call
    next,           \* the next block to submit, or the next future to look at
    clock           \* ticks since the call of wait_for

loopVars == <<loop, submitted, future, ran, client, next, clock>>

Lowest == -MaxIndex - 1
Index == Lowest..MaxIndex
Never == Lowest - 1
Width == 2 * (MaxIndex + 1)
Cast(x) == Lowest + ((x - Lowest) % Width)
Member == {"get", "wait", "wait_for"}
Min2(m, n) == IF m < n THEN m ELSE n

NoLoop == [kind |-> "blocks", first |-> 0, last |-> 0, num |-> 0, throws |-> 0]

LoopInit ==
    /\ loop = NoLoop /\ submitted = <<>> /\ future = <<>>
    /\ ran = [k \in Index |-> 0]
    /\ client = "idle" /\ next = 0 /\ clock = 0

-------------------------------------------------------------------------------
(* class blocks                                                            *)

num_blocks == Min2(loop.num, loop.last - loop.first)
block_size == (loop.last - loop.first) \div num_blocks
remainder == (loop.last - loop.first) % num_blocks

start_NoRemainder(b) == Cast(loop.first + Cast(b * block_size))

start(b) == Cast(loop.first + Cast(b * block_size) + Cast(Min2(b, remainder)))

end_SharesIndex(b) == IF b = num_blocks - 1 THEN loop.last ELSE start(b + 1) + 1

end(b) == IF b = num_blocks - 1 THEN loop.last ELSE start(b + 1)

-------------------------------------------------------------------------------
(* detach_blocks, detach_loop, submit_blocks, submit_loop ("blocks") and   *)
(* detach_sequence, submit_sequence ("sequence").                          *)

Submit(kind, first, last, num, throws) ==
    /\ client = "idle"
    /\ kind = "blocks" => last - first <= DiffMax
    /\ loop' = [kind |-> kind, first |-> first, last |-> last,
                num |-> IF num = 0 THEN thread_count ELSE num, throws |-> throws]
    /\ client' = IF last > first THEN "submit" ELSE "have"
    /\ next' = IF kind = "sequence" THEN first ELSE 0
    /\ UNCHANGED <<submitted, future, ran, clock>>

SubmitTask(block) ==
    /\ client = "submit"
    /\ submitted' = Append(submitted, block)
    /\ future' = Append(future, "pending")
    /\ UNCHANGED <<loop, ran, clock>>

SubmitBlock ==
    /\ loop.kind = "blocks"
    /\ SubmitTask([start |-> start(next), end |-> end(next)])
    /\ next' = next + 1
    /\ client' = IF next + 1 < num_blocks THEN "submit" ELSE "have"

SubmitIndex ==
    /\ loop.kind = "sequence"
    /\ SubmitTask([start |-> next, end |-> next + 1])
    /\ next' = next + 1
    /\ client' = IF next + 1 < loop.last THEN "submit" ELSE "have"

\* A worker runs the i-th task: the indices of the block in their order, up
\* to the one the loop function throws at; submit_task's wrapper keeps that.
Run(i) ==
    /\ future[i] = "pending"
    /\ LET b == submitted[i]
           fails == loop.throws \in b.start..(b.end - 1)
           to == IF fails THEN loop.throws ELSE b.end - 1
       IN  /\ ran' = [k \in Index |-> ran[k] + IF k \in b.start..to THEN 1 ELSE 0]
           /\ future' = [future EXCEPT ![i] = IF fails THEN "error" ELSE "value"]
    /\ UNCHANGED <<loop, submitted, client, next, clock>>

-------------------------------------------------------------------------------
(* class multi_future: each member goes through the futures in order.      *)

IsReady(i) == future[i] \in {"value", "error"}
ready_count == Cardinality({i \in DOMAIN future : IsReady(i)})
valid == \A i \in DOMAIN future : future[i] # "taken"

\* Nothing but destruction is legal on futures that are not valid.
Start(member) ==
    /\ client = "have" /\ valid
    /\ client' = member
    /\ next' = 1 /\ clock' = 0
    /\ UNCHANGED <<loop, submitted, future, ran>>

\* The call is over; the client has what it returned.
Finish(result) == client' = result /\ UNCHANGED next

GetNext ==
    /\ client = "get"
    /\ \/ /\ next > Len(future)
          /\ Finish("value") /\ UNCHANGED future
       \/ /\ next <= Len(future) /\ IsReady(next)
          /\ future' = [future EXCEPT ![next] = "taken"]
          /\ \/ future[next] = "value" /\ next' = next + 1 /\ UNCHANGED client
             \/ future[next] = "error" /\ Finish("error")
    /\ UNCHANGED <<loop, submitted, ran, clock>>

WaitNext ==
    /\ client = "wait"
    /\ \/ next > Len(future) /\ Finish("waited")
       \/ next <= Len(future) /\ IsReady(next) /\ next' = next + 1 /\ UNCHANGED client
    /\ UNCHANGED <<loop, submitted, future, ran, clock>>

\* wait_for's test of the time that has passed, and wait_until's.
TimeOver_Lax == Duration + 1 < clock

TimeOver == Duration < clock

\* The wait for one future ends when it is ready or no time is left for it.
WaitForNext ==
    /\ client = "wait_for"
    /\ \/ next > Len(future) /\ Finish("true")
       \/ /\ next <= Len(future) /\ (IsReady(next) \/ clock >= Duration)
          /\ \/ TimeOver /\ Finish("false")
             \/ ~TimeOver /\ next' = next + 1 /\ UNCHANGED client
    /\ UNCHANGED <<loop, submitted, future, ran, clock>>

\* After a wait the client goes on with the same futures.
Again ==
    /\ client \in {"waited", "true", "false"}
    /\ client' = "have"
    /\ UNCHANGED <<loop, submitted, future, ran, next, clock>>

\* The clock stops where nothing depends on it any more.
Tick ==
    /\ client = "wait_for" /\ next <= Len(future) /\ clock < Duration + 1
    /\ clock' = clock + 1
    /\ UNCHANGED <<loop, submitted, future, ran, client, next>>

LoopNext ==
    \/ \E first, last \in Index : \E throws \in first..(last - 1) \cup {Never} :
          \/ \E num \in 0..MaxBlocks : Submit("blocks", first, last, num, throws)
          \/ Submit("sequence", first, last, 0, throws)
    \/ SubmitBlock \/ SubmitIndex
    \/ \E i \in DOMAIN future : Run(i)
    \/ \E member \in Member : Start(member)
    \/ GetNext \/ WaitNext \/ WaitForNext \/ Again \/ Tick

-------------------------------------------------------------------------------
(* Correctness properties.                                                 *)

\* The blocks of a loop are not empty, follow each other from first to last,
\* are as many as asked for or as there are indices, and differ by at most
\* one in size, although the code casts each term to the type T.
Length(b) == b.end - b.start
BlocksPartition ==
    client \notin {"idle", "submit"} /\ loop.kind = "blocks" /\ loop.first < loop.last =>
        /\ Len(submitted) = Min2(loop.num, loop.last - loop.first)
        /\ Head(submitted).start = loop.first /\ Last(submitted).end = loop.last
        /\ \A i \in 1..(Len(submitted) - 1) : submitted[i].end = submitted[i + 1].start
        /\ \A b, d \in ToSet(submitted) : Length(b) > 0 /\ Length(b) - Length(d) <= 1

\* When get() has returned without an exception, or wait() has returned with no
\* task that threw, the loop function was called once for every index.
AllReady == ready_count = Len(future)
LoopRunOnce ==
    client = "value" \/ (client \notin {"idle", "submit"} /\ AllReady /\ "error" \notin ToSet(future)) =>
        \A k \in Index : ran[k] = IF k \in loop.first..(loop.last - 1) THEN 1 ELSE 0

\* wait() and wait_for() tell the truth: all futures are ready when wait()
\* returns, and when wait_for() returns true, unless its time was over at the
\* very tick in which the last wait ended: the code tests `<` there.
WaitForTruth ==
    /\ client = "waited" => AllReady
    /\ client = "true" => AllReady \/ clock = Duration
===============================================================================
