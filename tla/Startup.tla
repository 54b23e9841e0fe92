------------------------------- MODULE Startup --------------------------------
(***************************************************************************)
(* ptime.c, systime.c, psync.c and threading.c: what becomes of a call in  *)
(* a program that has just started.  These functions call each other and   *)
(* read globals and pointers that nobody has set yet, so the model keeps   *)
(* who calls whom and which pointers are NULL, and leaves the arithmetic   *)
(* out.  A function is the sequence of the calls it makes, the pointers it *)
(* sets, tests and dereferences; a call pushes a frame on the stack.       *)
(***************************************************************************)
EXTENDS Integers, Sequences

CONSTANT StackLimit     \* bound: the number of frames the stack has room for

\* The calls that end are nested at most three deep.
ASSUME StartAssumption == StackLimit \in Nat /\ StackLimit >= 3

VARIABLES
    stack,      \* the frames: the function and the step it is at
    set,        \* the pointers that are not NULL
    entry,      \* the function the program called
    outcome     \* "idle", "running", "returned", "overflow" or "fault"

startVars == <<stack, set, entry, outcome>>

\* The steps of a function.
Call(f) == [op |-> "call", arg |-> f]
CallIfNull(g, f) == [op |-> "call if null", arg |-> f, ptr |-> g]
Set(g) == [op |-> "set", arg |-> g]
Clear(g) == [op |-> "clear", arg |-> g]
Deref(g) == [op |-> "dereference", arg |-> g]
ReturnIfNull(g) == [op |-> "return if null", arg |-> g]

-------------------------------------------------------------------------------
(* ptime.c on top of systime.c, whose functions call nothing here.         *)

Timer == <<>>
processtime_new == <<Call("timer")>>
systime_started == <<Call("timer"), Call("dtToPTime")>>
systime_now == <<Call("timer"), Call("tsToPTime")>>
systime_since_start == <<Call("systime_now"), Deref("time_system_start"), Call("pt_arith")>>
time_init == <<Call("timer"), Call("systime_started"), Set("time_system_start"),
               Call("systime_since_start"), Set("time_since_start")>>
time_update_since_start == <<Call("systime_since_start"), Set("time_since_start")>>
seconds_to_ticks_NoGlobals == <<Call("timer")>>
seconds_to_ticks ==
    <<CallIfNull("time_system_start", "time_init"),
      CallIfNull("time_since_start", "time_update_since_start"),
      Call("timer"), Deref("time_system_start"), Deref("time_since_start")>>
elapsed_since == <<Call("systime_now"), Call("pt_arith"), Call("PTimeToTspec"),
                   Call("tsToDeltaTime"), Call("seconds_to_ticks")>>
tsToPTime == <<Call("tsToDeltaTime"), Call("processtime_new")>>
tsToDeltaTime == <<Call("tsToTicks"), Call("timer")>>
tsToTicks == <<Call("seconds_to_ticks")>>
ticksToTs == <<Call("timer"), Call("deltatimeToTs")>>
dtToPTime == <<Call("deltatimeToTs"), Call("tsToPTime")>>
pt_arith == <<Call("PTimeToTspec"), Call("PTimeToTspec"), Call("tsToPTime")>>

(* threading.c: the thread and its attributes are pointers set to NULL.    *)

pthread_new == <<Clear("pta"), Clear("pt"), Deref("pt"), Clear("sp"), Deref("sp")>>
thread_new == <<Set("pth"), Call("pthread_new"), Deref("pt")>>

(* psync.c                                                                 *)

synctime_new == <<Deref("current_process_time")>>
syncprocess_new == <<Clear("current_process_time"), Call("synctime_new"), Call("synctime_new")>>
synctimehandler_new == <<Clear("sth->st")>>
syncpgoon == <<ReturnIfNull("sth->st"), Deref("goon_suspense_time")>>
syncprocesshandler_new == <<Clear("sph->sp")>>
set_processes ==
    <<ReturnIfNull("sph->sp"), Call("time_update_since_start"), Deref("time_system_start"),
      Call("systime_now"), Call("pt_arith"), Set("current_process_time"), Call("synctime_new")>>
sync_processes ==
    <<Call("syncprocesshandler_new"), Call("set_processes"), Call("synctimehandler_new"),
      Call("syncprocess_new"), Set("sph->sp")>>

Body ==
    [timer |-> Timer, deltatimeToTs |-> Timer, PTimeToTspec |-> Timer,
     processtime_new |-> processtime_new, systime_started |-> systime_started,
     systime_now |-> systime_now, systime_since_start |-> systime_since_start,
     time_init |-> time_init, time_update_since_start |-> time_update_since_start,
     seconds_to_ticks |-> seconds_to_ticks, elapsed_since |-> elapsed_since,
     tsToPTime |-> tsToPTime, tsToDeltaTime |-> tsToDeltaTime, tsToTicks |-> tsToTicks,
     ticksToTs |-> ticksToTs, dtToPTime |-> dtToPTime, pt_arith |-> pt_arith,
     pthread_new |-> pthread_new, thread_new |-> thread_new,
     synctime_new |-> synctime_new, syncprocess_new |-> syncprocess_new,
     synctimehandler_new |-> synctimehandler_new, syncpgoon |-> syncpgoon,
     syncprocesshandler_new |-> syncprocesshandler_new,
     set_processes |-> set_processes, sync_processes |-> sync_processes]

-------------------------------------------------------------------------------
StartInit ==
    /\ stack = <<>> /\ entry = "timer" /\ outcome = "idle"
    /\ set = {}

Started(f) == [fn |-> f, at |-> 1]

\* The program's own arguments are not NULL; synctime_new's only parameter
\* is given by the program when it calls the function itself.
Enter(f) ==
    /\ outcome \in {"idle", "returned"}
    /\ entry' = f /\ outcome' = "running"
    /\ stack' = <<Started(f)>>
    /\ set' = set \cup {"current_process_time", "goon_suspense_time"}

Top == stack[Len(stack)]
End == Len(Body[Top.fn]) + 1
Running == outcome = "running" /\ stack # <<>> /\ Top.at < End
Todo == Body[Top.fn][Top.at]
GoTo(k) == [stack EXCEPT ![Len(stack)].at = k]
Rest == GoTo(Top.at + 1)

Return ==
    /\ outcome = "running" /\ stack # <<>> /\ Top.at = End
    /\ stack' = SubSeq(stack, 1, Len(stack) - 1)
    /\ outcome' = IF Len(stack) = 1 THEN "returned" ELSE "running"
    /\ UNCHANGED <<set, entry>>

DoCall ==
    /\ Running
    /\ Todo.op = "call" \/ (Todo.op = "call if null" /\ Todo.ptr \notin set)
    /\ \/ /\ Len(stack) < StackLimit /\ stack' = Append(Rest, Started(Todo.arg))
          /\ UNCHANGED outcome
       \/ Len(stack) = StackLimit /\ outcome' = "overflow" /\ UNCHANGED stack
    /\ UNCHANGED <<set, entry>>

DoAssign ==
    /\ Running /\ Todo.op \in {"set", "clear"}
    /\ set' = IF Todo.op = "set" THEN set \cup {Todo.arg} ELSE set \ {Todo.arg}
    /\ stack' = Rest
    /\ UNCHANGED <<entry, outcome>>

DoDeref ==
    /\ Running /\ Todo.op = "dereference"
    /\ \/ Todo.arg \in set /\ stack' = Rest /\ UNCHANGED outcome
       \/ Todo.arg \notin set /\ outcome' = "fault" /\ UNCHANGED stack
    /\ UNCHANGED <<set, entry>>

\* A test of a pointer; an early return leaves the function nothing to do.
DoTest ==
    /\ Running
    /\ Todo.op = "return if null" \/ (Todo.op = "call if null" /\ Todo.ptr \in set)
    /\ stack' = IF Todo.op = "return if null" /\ Todo.arg \notin set THEN GoTo(End) ELSE Rest
    /\ UNCHANGED <<set, entry, outcome>>

StartNext ==
    \/ \E f \in DOMAIN Body : Enter(f)
    \/ Return \/ DoCall \/ DoAssign \/ DoDeref \/ DoTest

-------------------------------------------------------------------------------
(* Correctness properties.                                                 *)

\* The functions that need ticks, and those that come to a NULL pointer.
Endless ==
    {"systime_started", "systime_now", "systime_since_start", "time_init",
     "time_update_since_start", "seconds_to_ticks", "elapsed_since", "tsToPTime",
     "tsToDeltaTime", "tsToTicks", "dtToPTime", "pt_arith"}
Faulty == {"pthread_new", "thread_new", "syncprocess_new", "sync_processes"}

\* Whatever was called before: a function that needs ticks never returns, for
\* seconds_to_ticks starts time_init, which needs ticks before it sets the
\* global that seconds_to_ticks tests; new threads and new synchronised
\* processes end at a NULL pointer; syncprocesshandler_set_processes and
\* syncpgoon_ return false at their first test; and nothing else fails.
StartOutcome ==
    /\ outcome = "returned" => entry \notin Endless \cup Faulty
    /\ outcome = "overflow" => entry \in Endless
    /\ outcome = "fault" => entry \in Faulty
===============================================================================
