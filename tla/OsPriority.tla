----------------------------- MODULE OsPriority -------------------------------
(***************************************************************************)
(* BS_thread_pool.hpp, the native extensions on Linux, which semaphore.hpp *)
(* switches on: priority and processor affinity of the process and of the  *)
(* calling thread.  Linux keeps both per thread; what the code does to the *)
(* "process" it does to the thread whose id is the process id, Main.       *)
(***************************************************************************)
EXTENDS Integers, FiniteSets

CONSTANTS Thread,       \* the threads of the process
          Main,         \* the thread that runs main()
          Cpu,          \* the processors of the machine: 0..get_nprocs()-1
          AskedCpu      \* the positions of the longest affinity vector given

ASSUME OsAssumption == Main \in Thread

VARIABLES policy,       \* each thread's scheduling policy
          nice,         \* each thread's nice value
          cpus,         \* each thread's affinity mask
          privileged,   \* may the process raise priorities?
          asked,        \* the level a thread was last given, or "none"
          asked_process,\* the level the process was last given, or "none"
          asked_cpus    \* the processors a thread was last given, or {}

osVars == <<policy, nice, cpus, privileged, asked, asked_process, asked_cpus>>

PRIO_MIN == -20
PRIO_MAX == 20

\* enum class os_process_priority: the nice value of each level.
os_process_priority ==
    [idle |-> PRIO_MAX - 2, below_normal |-> PRIO_MAX \div 2, normal |-> 0,
     above_normal |-> -6, high |-> -13, realtime |-> PRIO_MIN]

\* The policy and the nice value of each thread level; KeepNice: not touched.
KeepNice == PRIO_MAX + 1
os_thread_priority ==
    [idle |-> <<"IDLE", KeepNice>>, lowest |-> <<"OTHER", PRIO_MAX - 3>>,
     below_normal |-> <<"OTHER", PRIO_MAX \div 2>>, normal |-> <<"OTHER", 0>>,
     above_normal |-> <<"OTHER", PRIO_MIN + 2>>, highest |-> <<"RR", KeepNice>>,
     realtime |-> <<"FIFO", KeepNice>>]

OsInit ==
    /\ policy = [t \in Thread |-> "OTHER"] /\ nice = [t \in Thread |-> 0]
    /\ cpus = [t \in Thread |-> Cpu]
    /\ privileged = TRUE
    /\ asked = [t \in Thread |-> "none"] /\ asked_process = "none"
    /\ asked_cpus = [t \in Thread |-> {}]

-------------------------------------------------------------------------------
(* What the kernel permits; priorities are raised by privilege only.       *)

MayRenice(t, n) == privileged \/ n >= nice[t]
MaySchedule(t, p) ==
    \/ privileged \/ p = policy[t]
    \/ p \in {"OTHER", "IDLE"} /\ policy[t] # "IDLE"

DropPrivileges ==
    /\ privileged' = FALSE
    /\ UNCHANGED <<policy, nice, cpus, asked, asked_process, asked_cpus>>

-------------------------------------------------------------------------------
get_os_process_priority ==
    IF \E l \in DOMAIN os_process_priority : os_process_priority[l] = nice[Main]
    THEN CHOOSE l \in DOMAIN os_process_priority : os_process_priority[l] = nice[Main]
    ELSE "none"

get_os_thread_priority(t) ==
    CASE policy[t] = "FIFO" -> "realtime"
      [] policy[t] = "RR" -> "highest"
      [] policy[t] = "IDLE" -> "idle"
      [] policy[t] = "OTHER" /\ nice[t] = PRIO_MIN + 2 -> "above_normal"
      [] policy[t] = "OTHER" /\ nice[t] = 0 -> "normal"
      [] policy[t] = "OTHER" /\ nice[t] = (PRIO_MAX \div 2) + (PRIO_MAX % 2) -> "below_normal"
      [] policy[t] = "OTHER" /\ nice[t] = PRIO_MAX - 3 -> "lowest"
      [] OTHER -> "none"

set_os_process_priority(level) ==
    LET n == os_process_priority[level]
    IN  /\ \/ /\ MayRenice(Main, n)
              /\ nice' = [nice EXCEPT ![Main] = n]
              /\ asked_process' = level
              /\ asked' = [asked EXCEPT ![Main] = "none"]
           \/ /\ ~MayRenice(Main, n)
              /\ UNCHANGED <<nice, asked_process, asked>>
        /\ UNCHANGED <<policy, cpus, privileged, asked_cpus>>

\* The outcome of pthread_setschedparam and, when that succeeds, setpriority.
Outcome_NoShortCut(t, p, n) ==
    /\ policy' = [policy EXCEPT ![t] = IF MaySchedule(t, p) THEN p ELSE @]
    /\ nice' = [nice EXCEPT ![t] = IF n # KeepNice /\ MayRenice(t, n) THEN n ELSE @]

Outcome(t, p, n) ==
    /\ policy' = [policy EXCEPT ![t] = IF MaySchedule(t, p) THEN p ELSE @]
    /\ nice' = [nice EXCEPT ![t] = IF /\ MaySchedule(t, p) /\ n # KeepNice
                                      /\ MayRenice(t, n) THEN n ELSE @]

set_Succeeds(t, p, n) == MaySchedule(t, p) /\ (n = KeepNice \/ MayRenice(t, n))

set_os_thread_priority(t, level) ==
    LET p == os_thread_priority[level][1]
        n == os_thread_priority[level][2]
    IN  /\ Outcome(t, p, n)
        /\ asked' = [asked EXCEPT ![t] = IF set_Succeeds(t, p, n) THEN level ELSE "none"]
        /\ asked_process' = IF nice'[Main] = nice[Main] THEN asked_process ELSE "none"
        /\ UNCHANGED <<cpus, privileged, asked_cpus>>

\* The kernel leaves out processors the machine has not, and refuses {}.
set_affinity_Append(t, wanted) ==
    /\ wanted \cap Cpu # {}
    /\ cpus' = [cpus EXCEPT ![t] = @ \cup (wanted \cap Cpu)]
    /\ asked_cpus' = [asked_cpus EXCEPT ![t] = wanted]
    /\ UNCHANGED <<policy, nice, privileged, asked, asked_process>>

set_affinity(t, wanted) ==
    /\ wanted \cap Cpu # {}
    /\ cpus' = [cpus EXCEPT ![t] = wanted \cap Cpu]
    /\ asked_cpus' = [asked_cpus EXCEPT ![t] = wanted]
    /\ UNCHANGED <<policy, nice, privileged, asked, asked_process>>

set_os_process_affinity(wanted) == set_affinity(Main, wanted)
set_os_thread_affinity(t, wanted) == set_affinity(t, wanted)

\* The vector the code returns, as the set of its true positions.
get_affinity(t) == {i \in Cpu : i \in cpus[t]}

PriorityNext ==
    \/ DropPrivileges
    \/ \E level \in DOMAIN os_process_priority : set_os_process_priority(level)
    \/ \E t \in Thread, level \in DOMAIN os_thread_priority : set_os_thread_priority(t, level)

\* Affinity and priority do not depend on each other.
AffinityNext ==
    \/ \E wanted \in SUBSET AskedCpu : set_os_process_affinity(wanted)
    \/ \E t \in Thread, wanted \in SUBSET AskedCpu : set_os_thread_affinity(t, wanted)

OsNext == PriorityNext \/ AffinityNext

-------------------------------------------------------------------------------
(* Correctness properties.                                                 *)

\* What was set is what is read back: the level and the processors of each
\* thread, and of the process until its main thread is given a nice value.
ReadsBack ==
    /\ \A t \in Thread : asked[t] # "none" => get_os_thread_priority(t) = asked[t]
    /\ asked_process # "none" => get_os_process_priority = asked_process
    /\ \A t \in Thread : asked_cpus[t] # {} => get_affinity(t) = asked_cpus[t] \cap Cpu

\* When set_os_thread_priority returns false, nothing has changed, but that a
\* realtime thread may have lost its policy: the code sets policy and nice
\* value by two calls and does not undo the first when the second fails.
FailsClean ==
    \A t \in Thread, level \in DOMAIN os_thread_priority :
        set_os_thread_priority(t, level) /\ asked'[t] = "none" =>
            nice' = nice /\ (policy' = policy \/ policy[t] \in {"FIFO", "RR"})
SetFailsClean == [][FailsClean]_osVars
===============================================================================
