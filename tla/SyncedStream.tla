---------------------------- MODULE SyncedStream ------------------------------
(***************************************************************************)
(* BS_thread_pool.hpp: class synced_stream.  Threads print lines of two    *)
(* items to every stream of the list, one item at a time, under            *)
(* stream_mutex.  add_stream and remove_stream change the list without the *)
(* mutex: while another thread is printing that is undefined behaviour.    *)
(***************************************************************************)
EXTENDS Integers, Sequences, FiniteSets

CONSTANTS Printer,      \* the threads
          Stream,       \* the output streams
          MaxStreams,   \* bound: the length of the list
          MaxLines      \* bound: the lines a stream is given

ASSUME StreamAssumption == MaxStreams \in Nat /\ MaxLines \in Nat

VARIABLES out_streams,  \* the list
          output,       \* output[s]: the items written to s, with their writer
          holder,       \* the thread that holds stream_mutex, or {}
          at,           \* the position in the list and the item to be written
          undefined,    \* has the list been changed during a print?
          lines         \* history: the writers of the lines stream s should
                        \* show, in the order in which the prints began

streamVars == <<out_streams, output, holder, at, undefined, lines>>

StreamInit ==
    /\ out_streams = <<>> /\ output = [s \in Stream |-> <<>>]
    /\ holder = {} /\ at = <<1, 1>>
    /\ undefined = FALSE /\ lines = [s \in Stream |-> <<>>]

Change == undefined' = (undefined \/ holder # {})

add_stream(s) ==
    /\ Len(out_streams) < MaxStreams /\ ~undefined
    /\ out_streams' = Append(out_streams, s)
    /\ Change
    /\ UNCHANGED <<output, holder, at, lines>>

\* The list without s, in its order.
Kept(s) == {i \in DOMAIN out_streams : out_streams[i] # s}
remove_stream(s) ==
    /\ ~undefined
    /\ \E f \in [1..Cardinality(Kept(s)) -> Kept(s)] :
          /\ \A i, j \in DOMAIN f : i < j => f[i] < f[j]
          /\ out_streams' = [k \in DOMAIN f |-> out_streams[f[k]]]
    /\ Change
    /\ UNCHANGED <<output, holder, at, lines>>

\* A print promises a line to a stream for every time it is in the list.
Times(s) == Cardinality({i \in DOMAIN out_streams : out_streams[i] = s})
Begin(t) ==
    /\ \A s \in Stream : Len(lines[s]) + Times(s) <= MaxLines
    /\ at' = <<1, 1>>
    /\ lines' = [s \in Stream |-> lines[s] \o [k \in 1..Times(s) |-> t]]

Lock_Shared(t) ==
    /\ ~undefined /\ t \notin holder
    /\ holder' = holder \cup {t} /\ Begin(t)
    /\ UNCHANGED <<out_streams, output, undefined>>

\* print and println take the mutex for the whole line.
Lock(t) ==
    /\ ~undefined /\ holder = {}
    /\ holder' = {t} /\ Begin(t)
    /\ UNCHANGED <<out_streams, output, undefined>>

\* (*stream << ... << items), stream by stream.
Write(t) ==
    /\ ~undefined /\ t \in holder /\ at[1] <= Len(out_streams)
    /\ output' = [output EXCEPT ![out_streams[at[1]]] = Append(@, <<t, at[2]>>)]
    /\ at' = IF at[2] = 1 THEN <<at[1], 2>> ELSE <<at[1] + 1, 1>>
    /\ UNCHANGED <<out_streams, holder, undefined, lines>>

Unlock(t) ==
    /\ ~undefined /\ t \in holder /\ at[1] > Len(out_streams)
    /\ holder' = holder \ {t}
    /\ UNCHANGED <<out_streams, output, at, undefined, lines>>

StreamNext ==
    \/ \E s \in Stream : add_stream(s) \/ remove_stream(s)
    \/ \E t \in Printer : Lock(t) \/ Write(t) \/ Unlock(t)

-------------------------------------------------------------------------------
(* Correctness properties.                                                 *)

\* What a stream shows are whole lines in the order the prints took the mutex,
\* each once for every time the stream was in the list, until somebody changes
\* the list during a print (print, println, add_stream, remove_stream).
Shown(s) == [k \in 1..(2 * Len(lines[s])) |->
                <<lines[s][(k + 1) \div 2], IF k % 2 = 1 THEN 1 ELSE 2>>]
WholeLines ==
    ~undefined /\ holder = {} => \A s \in Stream : output[s] = Shown(s)
===============================================================================
