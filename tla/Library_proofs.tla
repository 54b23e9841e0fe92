---------------------------- MODULE Library_proofs ----------------------------
(***************************************************************************)
(* Theorems about the smaller parts of the library, for every value of     *)
(* their constants: main.c's processes, priority and affinity, the         *)
(* synchronised stream, truth tables, parameter packs, and the calls of a  *)
(* program that has just started.  Each has an inductive invariant of its  *)
(* own; the parts share no state.                                          *)
(***************************************************************************)
EXTENDS MainProgram, OsPriority, SyncedStream, Truth, ParamPack, Startup,
        FiniteSetTheorems, SequenceTheorems, TLAPS

-------------------------------------------------------------------------------
(* main.c: MainAlone is inductive together with the types and with Winner: *)
(* a process is turned away only by one that got through.                  *)

Statement == {"start", "exists", "failed", "wait1", "critical1", "wait2",
              "critical2", "unlink", "close", "ended", "killed"}

MainTypeOK == count \in Nat /\ main \in [Process -> Statement]

OneOwner ==
    \A p \in Process : Owns(p) =>
        /\ \A q \in Process : Owns(q) => q = p
        /\ count = IF Inside(p) THEN 0 ELSE 1

Winner ==
    (\E p \in Process : main[p] \in {"exists", "failed"}) =>
        \E q \in Process : main[q] \notin {"start", "exists", "failed"}

MainIInv == MainTypeOK /\ OneOwner /\ Winner

LEMMA MainStarts == MainInit => MainIInv
BY DEF MainInit, MainIInv, MainTypeOK, Statement, OneOwner, Winner, Owns, Holds

LEMMA MainSteps == MainIInv /\ [MainNext]_mainVars => MainIInv'
<1> SUFFICES ASSUME MainIInv, [MainNext]_mainVars PROVE MainIInv'
  OBVIOUS
<1> USE DEF MainIInv, MainTypeOK, Statement, OneOwner, Winner, Owns, Holds, Inside, Exists, Go
<1>0. CASE UNCHANGED mainVars
  BY <1>0 DEF mainVars
<1>1. ASSUME NEW p \in Process, OpenCreate(p) PROVE MainIInv'
  BY <1>1 DEF OpenCreate
<1>2. ASSUME NEW p \in Process, OpenFail(p) PROVE MainIInv'
  BY <1>2 DEF OpenFail
<1>3. ASSUME NEW p \in Process, NEW i \in 1..2, Wait(p, i) PROVE MainIInv'
  <2>1. CASE i = 1
    BY <1>3, <2>1 DEF Wait
  <2>2. CASE i = 2
    BY <1>3, <2>2 DEF Wait
  <2> QED
    BY <2>1, <2>2
<1>4. ASSUME NEW p \in Process, NEW i \in 1..2, Post(p, i) PROVE MainIInv'
  <2>1. CASE i = 1
    BY <1>4, <2>1 DEF Post
  <2>2. CASE i = 2
    BY <1>4, <2>2 DEF Post
  <2> QED
    BY <2>1, <2>2
<1>5. ASSUME NEW p \in Process, Unlink(p) PROVE MainIInv'
  BY <1>5 DEF Unlink
<1>6. ASSUME NEW p \in Process, Close(p) PROVE MainIInv'
  BY <1>6 DEF Close
<1>7. ASSUME NEW p \in Process, Kill(p) PROVE MainIInv'
  BY <1>7 DEF Kill
<1> HIDE DEF MainIInv
<1> QED
  BY <1>0, <1>1, <1>2, <1>3, <1>4, <1>5, <1>6, <1>7 DEF MainNext, MainStep

LEMMA MainConcludes == ASSUME Process # {} PROVE MainIInv => MainAlone
BY DEF MainIInv, OneOwner, Winner, MainAlone

\* In every behaviour of main.c's processes only one is past sem_open, its
\* sem_wait finds the unit, and they are not all turned away (main.c).
THEOREM OneAtATime ==
    ASSUME Process # {}
    PROVE  MainInit /\ [][MainNext]_mainVars => []MainAlone
<1>1. MainIInv => MainAlone
  BY MainConcludes
<1> QED
  BY MainStarts, MainSteps, <1>1, PTL

-------------------------------------------------------------------------------
(* Priority and affinity: what was asked for last is what the kernel has.  *)

Policy == {"FIFO", "RR", "IDLE", "OTHER"}

OsTypeOK ==
    /\ policy \in [Thread -> Policy] /\ nice \in [Thread -> Int]
    /\ cpus \in [Thread -> SUBSET Cpu] /\ privileged \in BOOLEAN
    /\ asked \in [Thread -> DOMAIN os_thread_priority \cup {"none"}]
    /\ asked_process \in DOMAIN os_process_priority \cup {"none"}
    /\ asked_cpus \in [Thread -> SUBSET AskedCpu]

Has(t, level) ==
    /\ policy[t] = os_thread_priority[level][1]
    /\ os_thread_priority[level][2] \in {KeepNice, nice[t]}

OsIInv ==
    /\ OsTypeOK
    /\ \A t \in Thread : asked[t] # "none" => Has(t, asked[t])
    /\ asked_process # "none" => nice[Main] = os_process_priority[asked_process]
    /\ \A t \in Thread : asked_cpus[t] # {} => cpus[t] = asked_cpus[t] \cap Cpu

LEMMA Levels ==
    /\ \A level \in DOMAIN os_thread_priority :
          os_thread_priority[level][1] \in Policy /\ os_thread_priority[level][2] \in Int
    /\ \A level \in DOMAIN os_thread_priority :
          os_thread_priority[level][2] # KeepNice => os_thread_priority[level][1] = "OTHER"
    /\ \A level \in DOMAIN os_process_priority : os_process_priority[level] \in Int
    /\ "none" \notin DOMAIN os_thread_priority /\ "none" \notin DOMAIN os_process_priority
BY DEF os_thread_priority, os_process_priority, Policy, KeepNice, PRIO_MIN, PRIO_MAX

LEMMA OsStarts == OsInit => OsIInv
BY DEF OsInit, OsIInv, OsTypeOK, Policy

LEMMA SetProcessStep ==
    ASSUME OsIInv, NEW level \in DOMAIN os_process_priority, set_os_process_priority(level)
    PROVE  OsIInv'
<1>1. CASE UNCHANGED <<nice, asked_process, asked>>
  BY <1>1 DEF set_os_process_priority, OsIInv, OsTypeOK, Has
<1>2. CASE /\ nice' = [nice EXCEPT ![Main] = os_process_priority[level]]
           /\ asked_process' = level
           /\ asked' = [asked EXCEPT ![Main] = "none"]
  <2>1. UNCHANGED <<policy, cpus, privileged, asked_cpus>>
    BY DEF set_os_process_priority
  <2>2. OsTypeOK'
    BY <1>2, <2>1, Levels DEF OsIInv, OsTypeOK
  <2>3. nice'[Main] = os_process_priority[asked_process']
    BY <1>2, OsAssumption DEF OsIInv, OsTypeOK
  <2>4. ASSUME NEW t \in Thread, asked'[t] # "none" PROVE Has(t, asked[t])' /\ asked'[t] = asked[t]
    <3>1. t # Main /\ asked'[t] = asked[t] /\ nice'[t] = nice[t]
      BY <1>2, <2>4 DEF OsIInv, OsTypeOK
    <3> QED
      BY <2>1, <2>4, <3>1 DEF OsIInv, Has
  <2> QED
    BY <2>1, <2>2, <2>3, <2>4 DEF OsIInv
<1> QED
  BY <1>1, <1>2 DEF set_os_process_priority

LEMMA SetThreadStep ==
    ASSUME OsIInv, NEW t \in Thread, NEW level \in DOMAIN os_thread_priority,
           set_os_thread_priority(t, level)
    PROVE  OsIInv'
<1> DEFINE p == os_thread_priority[level][1]
           n == os_thread_priority[level][2]
<1>1. /\ Outcome(t, p, n)
      /\ asked' = [asked EXCEPT ![t] = IF set_Succeeds(t, p, n) THEN level ELSE "none"]
      /\ asked_process' = IF nice'[Main] = nice[Main] THEN asked_process ELSE "none"
      /\ UNCHANGED <<cpus, privileged, asked_cpus>>
  BY DEF set_os_thread_priority
<1>2. p \in Policy /\ n \in Int
  BY Levels
<1> HIDE DEF p, n
<1>3. OsTypeOK'
  BY <1>1, <1>2 DEF OsIInv, OsTypeOK, Outcome
<1>4. ASSUME NEW u \in Thread, asked'[u] # "none" PROVE Has(u, asked[u])'
  <2>1. CASE u = t
    <3>1. set_Succeeds(t, p, n) /\ asked'[t] = level
      BY <1>1, <1>4, <2>1 DEF OsIInv, OsTypeOK
    <3>2. policy'[t] = p /\ (n # KeepNice => nice'[t] = n)
      BY <1>1, <3>1 DEF Outcome, set_Succeeds, OsIInv, OsTypeOK
    <3> QED
      BY <2>1, <3>1, <3>2 DEF Has, p, n
  <2>2. CASE u # t
    <3>1. asked'[u] = asked[u] /\ policy'[u] = policy[u] /\ nice'[u] = nice[u]
      BY <1>1, <2>2 DEF Outcome, OsIInv, OsTypeOK
    <3> QED
      BY <1>4, <3>1 DEF OsIInv, Has
  <2> QED
    BY <2>1, <2>2
<1>5. asked_process' # "none" => nice'[Main] = os_process_priority[asked_process']
  BY <1>1 DEF OsIInv
<1> QED
  BY <1>1, <1>3, <1>4, <1>5 DEF OsIInv

LEMMA AffinityStep ==
    ASSUME OsIInv, NEW t \in Thread, NEW wanted \in SUBSET AskedCpu, set_affinity(t, wanted)
    PROVE  OsIInv'
<1>1. /\ cpus' = [cpus EXCEPT ![t] = wanted \cap Cpu]
      /\ asked_cpus' = [asked_cpus EXCEPT ![t] = wanted]
      /\ UNCHANGED <<policy, nice, privileged, asked, asked_process>>
  BY DEF set_affinity
<1>2. OsTypeOK'
  BY <1>1 DEF OsIInv, OsTypeOK
<1>3. \A u \in Thread : asked_cpus'[u] # {} => cpus'[u] = asked_cpus'[u] \cap Cpu
  BY <1>1 DEF OsIInv, OsTypeOK
<1> QED
  BY <1>1, <1>2, <1>3 DEF OsIInv, Has

LEMMA OsSteps == OsIInv /\ [OsNext]_osVars => OsIInv'
<1> SUFFICES ASSUME OsIInv, [OsNext]_osVars PROVE OsIInv'
  OBVIOUS
<1>1. CASE DropPrivileges
  BY <1>1 DEF DropPrivileges, OsIInv, OsTypeOK, Has
<1>2. CASE UNCHANGED osVars
  BY <1>2 DEF osVars, OsIInv, OsTypeOK, Has
<1>3. CASE AffinityNext
  BY <1>3, AffinityStep, OsAssumption
     DEF AffinityNext, set_os_process_affinity, set_os_thread_affinity
<1> QED
  BY <1>1, <1>2, <1>3, SetProcessStep, SetThreadStep DEF OsNext, PriorityNext

LEMMA OsConcludes == OsIInv => ReadsBack
<1> SUFFICES ASSUME OsIInv PROVE ReadsBack
  OBVIOUS
<1>1. ASSUME NEW t \in Thread, asked[t] # "none" PROVE get_os_thread_priority(t) = asked[t]
  <2>1. asked[t] \in DOMAIN os_thread_priority /\ nice[t] \in Int /\ Has(t, asked[t])
    BY <1>1 DEF OsIInv, OsTypeOK
  <2> QED
    BY <2>1 DEF Has, os_thread_priority, get_os_thread_priority, KeepNice, PRIO_MIN, PRIO_MAX
<1>2. ASSUME asked_process # "none" PROVE get_os_process_priority = asked_process
  <2>1. asked_process \in DOMAIN os_process_priority /\ nice[Main] = os_process_priority[asked_process]
    BY <1>2 DEF OsIInv, OsTypeOK
  <2>2. \A l, m \in DOMAIN os_process_priority :
            os_process_priority[l] = os_process_priority[m] => l = m
    BY DEF os_process_priority, PRIO_MIN, PRIO_MAX
  <2> QED
    BY <2>1, <2>2 DEF get_os_process_priority
<1>3. \A t \in Thread : asked_cpus[t] # {} => get_affinity(t) = asked_cpus[t] \cap Cpu
  BY DEF OsIInv, get_affinity
<1> QED
  BY <1>1, <1>2, <1>3 DEF ReadsBack

LEMMA FailureClean == OsIInv => FailsClean
<1> SUFFICES ASSUME OsIInv, NEW t \in Thread, NEW level \in DOMAIN os_thread_priority,
                    set_os_thread_priority(t, level), asked'[t] = "none"
             PROVE  nice' = nice /\ (policy' = policy \/ policy[t] \in {"FIFO", "RR"})
  BY DEF FailsClean
<1> DEFINE p == os_thread_priority[level][1]
           n == os_thread_priority[level][2]
<1>1. Outcome(t, p, n) /\ ~set_Succeeds(t, p, n)
  BY Levels DEF set_os_thread_priority, OsIInv, OsTypeOK
<1>2. n # KeepNice => p = "OTHER"
  BY Levels
<1>3. policy \in [Thread -> Policy] /\ nice \in [Thread -> Int]
  BY DEF OsIInv, OsTypeOK
<1> HIDE DEF p, n
<1> QED
  BY <1>1, <1>2, <1>3 DEF Outcome, set_Succeeds, MaySchedule, MayRenice, Policy

\* Whoever sets a priority level or an affinity reads it back, whatever other
\* threads set in between, and privileges given up (native extensions).
THEOREM LevelsReadBack == OsInit /\ [][OsNext]_osVars => []ReadsBack
BY OsStarts, OsSteps, OsConcludes, PTL

\* A set_os_thread_priority that fails has changed no nice value, and a policy
\* only when it was a realtime one (native extensions).
THEOREM FailuresClean == OsInit /\ [][OsNext]_osVars => SetFailsClean
<1>1. OsIInv /\ [OsNext]_osVars => [FailsClean]_osVars
  BY FailureClean
<1> QED
  BY OsStarts, OsSteps, <1>1, PTL DEF SetFailsClean

-------------------------------------------------------------------------------
(* Parameter packs: a pack that has room is searched past its first empty  *)
(* position, and strcmp is given the NULL that stands there.               *)

PackIInv ==
    /\ Len(parameters) \in Nat /\ DOMAIN parameters = 1..Len(parameters)
    /\ \A p \in Pos : parameters[p] = NULL
    /\ answer # "true"

LEMMA PackStarts == PackInit => PackIInv
BY DEF PackInit, PackIInv, Pos

LEMMA NewPackStep == ASSUME NEW n \in AskedSizes, param_pack_new(n) PROVE PackIInv'
<1> DEFINE m == IF n > PARAM_PACK_MAX_SIZE THEN PARAM_PACK_MAX_SIZE ELSE n
<1>1. parameters' = [p \in 1..m |-> NULL] /\ answer' = "made" /\ m \in Nat
  BY PackAssumption DEF param_pack_new
<1> HIDE DEF m
<1>2. Len(parameters') = m
  BY <1>1
<1> QED
  BY <1>1, <1>2 DEF PackIInv, Pos

\* In a pack that has room every call crashes; in one that has none no name
\* is found, and the first empty position is not one of the pack.
LEMMA EmptyPack ==
    ASSUME PackIInv, NEW name \in Name
    PROVE  /\ Pos # {} => Crashes(name)
           /\ Pos = {} => ~Crashes(name)
           /\ param_pack_find(name) = Len(parameters) + 1
           /\ Pos = {} => param_pack_find_first_empty \notin Pos
<1>1. param_pack_find(name) = Len(parameters) + 1
  BY PackAssumption DEF PackIInv, param_pack_find, First
<1>2. CASE Pos = {}
  <2>1. param_pack_find_first_empty = Len(parameters) + 1
    BY <1>2 DEF param_pack_find_first_empty, First
  <2> QED
    BY <1>1, <1>2, <2>1 DEF PackIInv, Crashes
<1>3. CASE Pos # {}
  <2>1. Pos = 1..Len(parameters) /\ Len(parameters) \in Nat \ {0} /\ 1 \in Pos
    BY <1>3 DEF PackIInv, Pos
  <2>2. param_pack_find_first_empty = 1
    <3>1. \A p \in Pos : Empty(p)
      BY DEF PackIInv, Empty
    <3>2. Empty(1) /\ \A q \in 1..(1 - 1) : ~Empty(q)
      BY <2>1, <3>1
    <3>3. \A p \in Pos : (\A q \in 1..(p - 1) : ~Empty(q)) => p = 1
      BY <2>1, <3>1
    <3> QED
      BY <2>1, <3>2, <3>3 DEF param_pack_find_first_empty, First
  <2> QED
    BY <1>1, <1>3, <2>1, <2>2 DEF Crashes
<1> QED
  BY <1>1, <1>2, <1>3

LEMMA PackSteps == PackIInv /\ [PackNext]_packVars => PackIInv'
<1> SUFFICES ASSUME PackIInv, [PackNext]_packVars PROVE PackIInv'
  OBVIOUS
<1>1. ASSUME NEW n \in AskedSizes, param_pack_new(n) PROVE PackIInv'
  BY <1>1, NewPackStep
<1>2. ASSUME NEW name \in Name, CrashOn(name) PROVE PackIInv'
  BY <1>2 DEF CrashOn, PackIInv, Pos
<1>3. ASSUME NEW name \in Name, param_pack_get_value(name) PROVE PackIInv'
  <2>1. CASE CrashOn(name)
    BY <1>2, <2>1
  <2>2. CASE ~Crashes(name)
    <3>1. Pos = {} /\ param_pack_find(name) \notin Pos
      BY <2>2, EmptyPack DEF PackIInv, Pos
    <3>2. answer' = "" /\ UNCHANGED <<parameters, arguments>>
      BY <1>3, <2>2, <3>1 DEF param_pack_get_value, CrashOn
    <3> QED
      BY <3>2 DEF PackIInv, Pos
  <2> QED
    BY <1>3, <2>1, <2>2 DEF param_pack_get_value
<1>4. ASSUME NEW name \in Name, NEW text \in Text, param_pack_set(name, text) PROVE PackIInv'
  <2>1. CASE CrashOn(name)
    BY <1>2, <2>1
  <2>2. CASE ~Crashes(name)
    <3>1. Pos = {} /\ param_pack_find(name) \notin Pos /\ param_pack_find_first_empty \notin Pos
      BY <2>2, EmptyPack DEF PackIInv, Pos
    <3>2. answer' = "false"
      BY <1>4, <2>2, <3>1 DEF param_pack_set, CrashOn
    <3>3. \E x : parameters' = [p \in Pos |-> IF p = x THEN name ELSE parameters[p]]
      BY <1>4, <2>2 DEF param_pack_set, CrashOn
    <3>4. DOMAIN parameters' = 1..0
      BY <3>1, <3>3
    <3>5. Len(parameters') = 0
      BY <3>3, <3>1
    <3> QED
      BY <3>2, <3>4, <3>5 DEF PackIInv, Pos
  <2> QED
    BY <1>4, <2>1, <2>2 DEF param_pack_set
<1>5. CASE UNCHANGED packVars
  BY <1>5 DEF packVars, PackIInv, Pos
<1> QED
  BY <1>1, <1>3, <1>4, <1>5 DEF PackNext

\* No sequence of calls on a parameter pack stores a parameter, whatever its
\* size and the names and values it is given (parampack.c).
THEOREM NothingStored == PackInit /\ [][PackNext]_packVars => []PackStaysEmpty
<1>1. PackIInv => PackStaysEmpty
  BY DEF PackIInv, PackStaysEmpty
<1> QED
  BY PackStarts, PackSteps, <1>1, PTL

-------------------------------------------------------------------------------
(* Truth tables.                                                           *)

\* An operator goes with every truth, and the loop has only passed truths.
TruthIInv ==
    /\ size \in Nat /\ size_used \in Nat
    /\ equivs \in [1..size -> Truths \cup {NULL}] /\ ops \in [1..size -> BOOLEAN]
    /\ ti \in Nat /\ (evaluation # "none" => size > 0)
    /\ \A i \in 1..size : equivs[i] # NULL => ops[i]
    /\ evaluation = "loop" => ti \in 1..size /\ \A i \in 1..ti : equivs[i] # NULL
    /\ EquivationWhole

LEMMA TruthStarts == TruthInit => TruthIInv
<1> SUFFICES ASSUME TruthInit PROVE TruthIInv
  OBVIOUS
<1>1. 1..0 = {}
  OBVIOUS
<1>2. equivs \in [1..0 -> Truths \cup {NULL}] /\ ops \in [1..0 -> BOOLEAN]
  BY <1>1 DEF TruthInit
<1> QED
  BY <1>2 DEF TruthInit, TruthIInv, EquivationWhole

\* The evaluation of a truth that is there crashes in an implication only.
LEMMA OnlyImplications ==
    ASSUME NEW t \in Truths, MayCrash(t) PROVE t.op = "IMPLIES"
BY TruthAssumption DEF MayCrash, Faults

LEMMA TruthSteps == TruthIInv /\ [TruthNext]_truthVars => TruthIInv'
<1> SUFFICES ASSUME TruthIInv, [TruthNext]_truthVars PROVE TruthIInv'
  OBVIOUS
<1> USE TruthAssumption DEF TruthIInv, EquivationWhole, te
<1>1. ASSUME NEW n \in 1..MaxSize, truth_equivation_new(n) PROVE TruthIInv'
  BY <1>1 DEF truth_equivation_new
<1>2. ASSUME NEW truth \in Truths \cup {NULL}, truth_equivation_push(truth) PROVE TruthIInv'
  <2>1. /\ size' = size /\ ti' = ti /\ evaluation' = "none" /\ size > 0
    BY <1>2 DEF truth_equivation_push, TruthIdle
  <2>2. CASE UNCHANGED <<size_used, equivs, ops>>
    BY <2>1, <2>2
  <2>3. ASSUME NEW fi \in 1..size, size_used' = size_used + 1,
               equivs' = [equivs EXCEPT ![fi] = truth], ops' = [ops EXCEPT ![fi] = TRUE]
        PROVE  TruthIInv'
    BY <2>1, <2>3
  <2> QED
    BY <1>2, <2>2, <2>3 DEF truth_equivation_push
<1>3. CASE trutheval_equivation
  <2>1. size > 0 /\ 1 \in 1..size /\ evaluation # "crashed" /\ UNCHANGED te
    BY <1>3 DEF trutheval_equivation, TruthIdle
  <2>2. CASE equivs[1] = NULL /\ ti' = 0 /\ evaluation' = "returned"
    BY <2>1, <2>2
  <2>3. CASE equivs[1] # NULL /\ MayCrash(equivs[1]) /\ Crash
    <3>1. equivs[1].op = "IMPLIES"
      BY <2>1, <2>3, OnlyImplications
    <3> QED
      BY <2>1, <2>3, <3>1 DEF Crash
  <2>4. CASE equivs[1] # NULL /\ ti' = 1 /\ evaluation' = "loop"
    BY <2>1, <2>4
  <2> QED
    BY <1>3, <2>2, <2>3, <2>4 DEF trutheval_equivation
<1>4. CASE NextTruth
  <2>1. /\ evaluation = "loop" /\ ti \in 1..size /\ ti + 1 \in 1..size /\ UNCHANGED te
        /\ \A i \in 1..ti : equivs[i] # NULL
    BY <1>4 DEF NextTruth, More
  <2>2. ops[ti]
    BY <2>1
  <2>3. CASE MayCrash(equivs[ti + 1]) /\ Crash
    <3>1. equivs[ti + 1] = NULL \/ equivs[ti + 1].op = "IMPLIES"
      BY <2>1, <2>3, OnlyImplications
    <3> QED
      BY <2>1, <2>3, <3>1 DEF Crash
  <2>4. CASE /\ equivs[ti + 1] # NULL
             /\ ti' = IF ops[ti + 1] THEN ti + 1 ELSE ti
             /\ evaluation' = IF ops[ti + 1] THEN "loop" ELSE "returned"
    <3>1. ti' = ti + 1 /\ evaluation' = "loop"
      BY <2>1, <2>4
    <3>2. \A i \in 1..(ti + 1) : equivs[i] # NULL
      BY <2>1, <2>4
    <3> QED
      BY <2>1, <3>1, <3>2
  <2> QED
    BY <1>4, <2>2, <2>3, <2>4 DEF NextTruth
<1>5. CASE ReturnResult
  <2>1. /\ evaluation = "loop" /\ evaluation' = "returned" /\ ti = size
        /\ \A i \in 1..size : equivs[i] # NULL
        /\ UNCHANGED <<te, ti>>
    BY <1>5 DEF ReturnResult, More
  <2> QED
    BY <2>1
<1>6. CASE UNCHANGED truthVars
  BY <1>6 DEF truthVars
<1> HIDE DEF TruthIInv
<1> QED
  BY <1>1, <1>2, <1>3, <1>4, <1>5, <1>6 DEF TruthNext

\* Whatever truths are pushed, and however many, an equivation that is evaluated
\* to an answer was empty or full and was gone through to its end (truth.c).
THEOREM Equivations == TruthInit /\ [][TruthNext]_truthVars => []EquivationWhole
<1>1. TruthIInv => EquivationWhole
  BY DEF TruthIInv
<1> QED
  BY TruthStarts, TruthSteps, <1>1, PTL

-------------------------------------------------------------------------------
(* The synchronised stream: while a print is under way, every stream shows *)
(* what it should but for the items still due in the rest of the list.     *)

\* The positions of the list where the print has still to begin or end a line.
Due(s) == {i \in DOMAIN out_streams : i >= at[1] /\ out_streams[i] = s}

\* The number of items of stream s that have been written.
Written(s) ==
    2 * (Len(lines[s]) - Cardinality(Due(s)))
        + IF at[2] = 2 /\ out_streams[at[1]] = s THEN 1 ELSE 0

StreamTypeOK ==
    /\ out_streams \in Seq(Stream) /\ output \in [Stream -> Seq(Printer \X {1, 2})]
    /\ holder \in SUBSET Printer /\ at \in (Nat \ {0}) \X {1, 2}
    /\ undefined \in BOOLEAN /\ lines \in [Stream -> Seq(Printer)]

\* During t's print the items written to s are those that s should show so far,
\* and the lines that are not finished are t's.
ShownSoFar(t, s) ==
    /\ Len(output[s]) = Written(s)
    /\ Cardinality(Due(s)) <= Len(lines[s])
    /\ \A k \in 1..Len(output[s]) : output[s][k] = Shown(s)[k]
    /\ \A k \in 1..Len(lines[s]) : k > Len(lines[s]) - Cardinality(Due(s)) => lines[s][k] = t

Printing(t) ==
    /\ holder = {t}
    /\ at[1] <= Len(out_streams) \/ at = <<Len(out_streams) + 1, 1>>
    /\ \A s \in Stream : ShownSoFar(t, s)

StreamIInv ==
    /\ StreamTypeOK
    /\ ~undefined => WholeLines /\ (holder # {} => \E t \in Printer : Printing(t))

\* The items of line m + 1 are the items 2m + 1 and 2m + 2.
LEMMA Halves ==
    /\ \A n, m \in Nat : m + 1 \in 1..n => 2 * m + 1 \in 1..(2 * n) /\ 2 * m + 2 \in 1..(2 * n)
    /\ \A n \in Nat : \A k \in 1..(2 * n) : (k + 1) \div 2 \in 1..n
    /\ \A m \in Nat : (2 * m + 1 + 1) \div 2 = m + 1 /\ (2 * m + 1) % 2 = 1
    /\ \A m \in Nat : (2 * m + 2 + 1) \div 2 = m + 1 /\ (2 * m + 2) % 2 # 1
OBVIOUS

LEMMA StreamStarts == StreamInit => StreamIInv
<1> SUFFICES ASSUME StreamInit PROVE StreamIInv
  OBVIOUS
<1>1. /\ out_streams \in Seq(Stream)
      /\ output \in [Stream -> Seq(Printer \X {1, 2})]
      /\ lines \in [Stream -> Seq(Printer)]
  BY EmptySeq DEF StreamInit
<1>2. at \in (Nat \ {0}) \X {1, 2} /\ holder \in SUBSET Printer /\ undefined \in BOOLEAN
  <2>1. <<1, 1>> \in (Nat \ {0}) \X {1, 2}
    OBVIOUS
  <2> QED
    BY <2>1 DEF StreamInit
<1>3. ASSUME NEW s \in Stream PROVE output[s] = Shown(s)
  <2>1. output[s] = <<>> /\ lines[s] = <<>>
    BY DEF StreamInit
  <2>2. Shown(s) = [k \in 1..0 |-> <<lines[s][(k + 1) \div 2], IF k % 2 = 1 THEN 1 ELSE 2>>]
    BY <2>1 DEF Shown
  <2> QED
    BY <2>1, <2>2
<1> QED
  BY <1>1, <1>2, <1>3 DEF StreamIInv, StreamTypeOK, StreamInit, WholeLines

LEMMA ChangeStep ==
    ASSUME StreamIInv, NEW s \in Stream, add_stream(s) \/ remove_stream(s) PROVE StreamIInv'
<1>1. /\ UNCHANGED <<output, holder, at, lines>> /\ undefined' = (undefined \/ holder # {})
  BY DEF add_stream, remove_stream, Change
<1>2. out_streams' \in Seq(Stream)
  <2>1. out_streams \in Seq(Stream)
    BY DEF StreamIInv, StreamTypeOK
  <2>2. CASE add_stream(s)
    BY <2>1, <2>2 DEF add_stream
  <2>3. CASE remove_stream(s)
    <3>1. /\ IsFiniteSet(1..Len(out_streams)) /\ Len(out_streams) \in Nat
          /\ Kept(s) \in SUBSET (1..Len(out_streams))
      BY <2>1, FS_Interval DEF Kept
    <3>2. Cardinality(Kept(s)) \in Nat
      BY <3>1, FS_Subset, FS_CardinalityType
    <3>3. PICK f \in [1..Cardinality(Kept(s)) -> Kept(s)] :
              out_streams' = [k \in DOMAIN f |-> out_streams[f[k]]]
      BY <2>3 DEF remove_stream
    <3>4. \A k \in 1..Cardinality(Kept(s)) : out_streams[f[k]] \in Stream
      BY <2>1, <3>1
    <3> QED
      BY <3>2, <3>3, <3>4
  <2> QED
    BY <2>2, <2>3
<1>3. StreamTypeOK'
  BY <1>1, <1>2 DEF StreamIInv, StreamTypeOK
<1>4. \A r \in Stream : Shown(r)' = Shown(r)
  BY <1>1 DEF Shown
<1>5. ASSUME ~undefined' PROVE WholeLines' /\ holder' = {}
  BY <1>1, <1>4, <1>5 DEF StreamIInv, WholeLines
<1> QED
  BY <1>3, <1>5 DEF StreamIInv

\* The positions that are due are finitely many, and so are all of a stream's.
LEMMA DueFinite ==
    ASSUME StreamTypeOK, NEW s \in Stream
    PROVE  /\ IsFiniteSet(Due(s)) /\ Cardinality(Due(s)) \in Nat
           /\ Times(s) \in Nat
<1>1. DOMAIN out_streams = 1..Len(out_streams) /\ Len(out_streams) \in Nat
  BY DEF StreamTypeOK
<1>2. IsFiniteSet(1..Len(out_streams))
  BY <1>1, FS_Interval
<1>3. /\ Due(s) \in SUBSET (1..Len(out_streams))
      /\ {i \in DOMAIN out_streams : out_streams[i] = s} \in SUBSET (1..Len(out_streams))
  BY <1>1 DEF Due
<1>4. IsFiniteSet(Due(s)) /\ IsFiniteSet({i \in DOMAIN out_streams : out_streams[i] = s})
  BY <1>2, <1>3, FS_Subset
<1> QED
  BY <1>4, FS_CardinalityType DEF Times

\* A print that begins owes every stream its lines.
LEMMA LockStep == ASSUME StreamIInv, NEW t \in Printer, Lock(t) PROVE StreamIInv'
<1>1. /\ ~undefined /\ holder = {} /\ holder' = {t} /\ at' = <<1, 1>>
      /\ lines' = [s \in Stream |-> lines[s] \o [k \in 1..Times(s) |-> t]]
      /\ UNCHANGED <<out_streams, output, undefined>>
  BY DEF Lock, Begin
<1>2. StreamTypeOK
  BY DEF StreamIInv
<1>3. ASSUME NEW s \in Stream
      PROVE  /\ lines'[s] \in Seq(Printer) /\ Len(lines[s]) \in Nat
             /\ Len(lines'[s]) = Len(lines[s]) + Times(s)
             /\ \A k \in 1..Len(lines[s]) : lines'[s][k] = lines[s][k]
             /\ \A k \in 1..Len(lines'[s]) : k > Len(lines[s]) => lines'[s][k] = t
  <2> DEFINE more == [k \in 1..Times(s) |-> t]
  <2>1. Times(s) \in Nat /\ lines[s] \in Seq(Printer)
    BY <1>2, DueFinite DEF StreamTypeOK
  <2>2. more \in Seq(Printer) /\ Len(more) = Times(s) /\ \A k \in 1..Times(s) : more[k] = t
    BY <2>1
  <2>3. lines'[s] = lines[s] \o more
    BY <1>1
  <2> HIDE DEF more
  <2>5. /\ lines[s] \o more \in Seq(Printer) /\ Len(lines[s] \o more) = Len(lines[s]) + Len(more)
        /\ \A k \in 1..(Len(lines[s]) + Len(more)) :
              (lines[s] \o more)[k] = IF k <= Len(lines[s]) THEN lines[s][k] ELSE more[k - Len(lines[s])]
    BY <2>1, <2>2, ConcatProperties
  <2>4. /\ lines'[s] \in Seq(Printer) /\ Len(lines'[s]) = Len(lines[s]) + Len(more)
        /\ \A k \in 1..(Len(lines[s]) + Len(more)) :
              lines'[s][k] = IF k <= Len(lines[s]) THEN lines[s][k] ELSE more[k - Len(lines[s])]
    BY <2>3, <2>5
  <2>6. Len(lines[s]) \in Nat
    BY <2>1
  <2>7. \A k \in 1..Len(lines[s]) : lines'[s][k] = lines[s][k]
    <3> DEFINE l == Len(lines[s])
               m == Len(more)
    <3>1. l \in Nat /\ m \in Nat
      BY <2>1, <2>2, <2>6
    <3>2. \A k \in 1..(l + m) : lines'[s][k] = IF k <= l THEN lines[s][k] ELSE more[k - l]
      BY <2>4
    <3> HIDE DEF l, m
    <3>3. \A k \in 1..l : lines'[s][k] = lines[s][k]
      BY <3>1, <3>2
    <3> QED
      BY <3>3 DEF l
  <2>8. \A k \in 1..(Len(lines[s]) + Times(s)) : k > Len(lines[s]) => lines'[s][k] = t
    <3>1. ASSUME NEW k \in 1..(Len(lines[s]) + Times(s)), k > Len(lines[s]) PROVE lines'[s][k] = t
      <4>1. k - Len(lines[s]) \in 1..Times(s) /\ ~(k <= Len(lines[s]))
        BY <2>1, <2>6, <3>1
      <4> QED
        BY <2>2, <2>4, <4>1
    <3> QED
      BY <3>1
  <2> QED
    BY <2>2, <2>4, <2>6, <2>7, <2>8
<1>4. StreamTypeOK'
  <2>1. lines' \in [Stream -> Seq(Printer)]
    BY <1>1, <1>3
  <2>2. at' \in (Nat \ {0}) \X {1, 2}
    BY <1>1
  <2> QED
    BY <1>1, <1>2, <2>1, <2>2 DEF StreamTypeOK
<1>5. ASSUME NEW s \in Stream PROVE ShownSoFar(t, s)'
  <2>1. Cardinality(Due(s)') = Times(s) /\ Times(s) \in Nat
    <3>1. Due(s)' = {i \in DOMAIN out_streams : out_streams[i] = s}
      BY <1>1, <1>2 DEF Due, StreamTypeOK
    <3> QED
      BY <1>2, <3>1, DueFinite DEF Times
  <2>2. output'[s] = Shown(s)
    BY <1>1 DEF StreamIInv, WholeLines
  <2>3. Len(output'[s]) = 2 * Len(lines[s])
    BY <1>3, <2>2 DEF Shown
  <2>4. Written(s)' = 2 * (Len(lines'[s]) - Times(s))
    BY <1>1, <1>3, <2>1 DEF Written
  <2>5. ASSUME NEW k \in 1..(2 * Len(lines[s])) PROVE output'[s][k] = Shown(s)'[k]
    <3>1. (k + 1) \div 2 \in 1..Len(lines[s])
      BY <1>3, Halves
    <3>2. k \in 1..(2 * Len(lines'[s]))
      BY <1>3, <2>1
    <3> QED
      BY <1>3, <2>2, <3>1, <3>2 DEF Shown
  <2> QED
    BY <1>3, <2>1, <2>3, <2>4, <2>5 DEF ShownSoFar
<1>6. at'[1] <= Len(out_streams') \/ at' = <<Len(out_streams') + 1, 1>>
  <2>1. Len(out_streams) \in Nat
    BY <1>2 DEF StreamTypeOK
  <2> QED
    BY <1>1, <2>1
<1>7. Printing(t)'
  BY <1>1, <1>5, <1>6 DEF Printing, ShownSoFar
<1> QED
  BY <1>1, <1>4, <1>7 DEF StreamIInv, WholeLines

\* The thread that prints is the one that holds the mutex.
LEMMA TheHolder ==
    ASSUME StreamIInv, NEW t \in Printer, t \in holder, ~undefined
    PROVE  Printing(t)
BY DEF StreamIInv, Printing

\* The stream that is written to gets the item that comes next in its line.
LEMMA WriteHere ==
    ASSUME StreamIInv, NEW t \in Printer, Printing(t), Write(t),
           NEW s \in Stream, out_streams[at[1]] = s
    PROVE  ShownSoFar(t, s)'
<1> DEFINE d == Cardinality(Due(s))
           l == Len(lines[s])
<1>1. /\ at[1] <= Len(out_streams) /\ UNCHANGED <<out_streams, holder, undefined, lines>>
      /\ output' = [output EXCEPT ![out_streams[at[1]]] = Append(@, <<t, at[2]>>)]
      /\ at' = IF at[2] = 1 THEN <<at[1], 2>> ELSE <<at[1] + 1, 1>>
  BY DEF Write
<1>2. /\ StreamTypeOK /\ l \in Nat /\ d \in Nat /\ IsFiniteSet(Due(s)) /\ d <= l
      /\ at[1] \in Nat \ {0} /\ at[2] \in {1, 2} /\ Len(out_streams) \in Nat
      /\ output[s] \in Seq(Printer \X {1, 2})
  <2>1. StreamTypeOK
    BY DEF StreamIInv
  <2>2. /\ l \in Nat /\ at[1] \in Nat \ {0} /\ at[2] \in {1, 2} /\ Len(out_streams) \in Nat
        /\ output[s] \in Seq(Printer \X {1, 2})
    BY <2>1 DEF StreamTypeOK
  <2>3. d \in Nat /\ IsFiniteSet(Due(s))
    BY <2>1, DueFinite
  <2>4. d <= l
    BY DEF Printing, ShownSoFar
  <2> QED
    BY <2>1, <2>2, <2>3, <2>4
<1>3. at[1] \in Due(s)
  BY <1>1, <1>2 DEF Due, StreamTypeOK
<1>4. d >= 1
  BY <1>2, <1>3, FS_EmptySet
<1>5. output'[s] = Append(output[s], <<t, at[2]>>)
  BY <1>1, <1>2 DEF StreamTypeOK
<1>6. Len(output[s]) = 2 * (l - d) + (IF at[2] = 2 THEN 1 ELSE 0)
  BY DEF Printing, ShownSoFar, Written
<1>7. /\ Len(output'[s]) = Len(output[s]) + 1 /\ output'[s][Len(output[s]) + 1] = <<t, at[2]>>
      /\ \A k \in 1..Len(output[s]) : output'[s][k] = output[s][k]
  BY <1>2, <1>5
<1>8. Len(output'[s]) = Written(s)' /\ Cardinality(Due(s)') \in {d, d - 1}
  <2>1. CASE at[2] = 1
    <3>1. Due(s)' = Due(s) /\ at' = <<at[1], 2>>
      BY <1>1, <2>1 DEF Due
    <3>2. Written(s)' = 2 * (l - d) + 1
      BY <1>1, <3>1 DEF Written
    <3> QED
      BY <1>2, <1>6, <1>7, <2>1, <3>1, <3>2
  <2>2. CASE at[2] = 2
    <3>1. at' = <<at[1] + 1, 1>>
      BY <1>1, <2>2
    <3>2. Due(s)' = Due(s) \ {at[1]}
      BY <1>1, <1>2, <3>1 DEF Due, StreamTypeOK
    <3>3. Cardinality(Due(s)') = d - 1
      <4>1. Cardinality(Due(s) \ {at[1]}) = Cardinality(Due(s)) - 1
        BY <1>2, <1>3, FS_RemoveElement
      <4> QED
        BY <3>2, <4>1
    <3>4. Written(s)' = 2 * (l - (d - 1))
      BY <1>1, <1>2, <3>1, <3>3 DEF Written
    <3> QED
      BY <1>2, <1>6, <1>7, <2>2, <3>3, <3>4
  <2> QED
    BY <1>2, <2>1, <2>2
<1>9. \A k \in 1..l : k > l - d => lines[s][k] = t
  BY DEF Printing, ShownSoFar
<1>10. Shown(s)' = Shown(s)
  BY <1>1 DEF Shown
<1>11. output'[s][Len(output[s]) + 1] = Shown(s)[Len(output[s]) + 1]
  <2> DEFINE m == l - d
  <2>1. m \in Nat /\ m + 1 \in 1..l /\ lines[s][m + 1] = t
    BY <1>2, <1>4, <1>9
  <2>2. Len(output[s]) = 2 * m + (IF at[2] = 2 THEN 1 ELSE 0)
    BY <1>6
  <2> HIDE DEF m
  <2>3. CASE at[2] = 1
    <3>1. Len(output[s]) + 1 = 2 * m + 1
      BY <2>1, <2>3, <2>2
    <3>2. 2 * m + 1 \in 1..(2 * l) /\ (2 * m + 1 + 1) \div 2 = m + 1 /\ (2 * m + 1) % 2 = 1
      <4>1. 2 * m + 1 \in 1..(2 * l)
        BY <1>2, <2>1, Halves
      <4> QED
        BY <2>1, <4>1, Halves
    <3>3. Shown(s)[2 * m + 1] = <<t, 1>>
      BY <2>1, <3>2 DEF Shown
    <3> QED
      BY <1>7, <2>3, <3>1, <3>3
  <2>4. CASE at[2] = 2
    <3>1. Len(output[s]) + 1 = 2 * m + 2
      BY <2>1, <2>4, <2>2
    <3>2. 2 * m + 2 \in 1..(2 * l) /\ (2 * m + 2 + 1) \div 2 = m + 1 /\ (2 * m + 2) % 2 # 1
      <4>1. 2 * m + 2 \in 1..(2 * l)
        BY <1>2, <2>1, Halves
      <4> QED
        BY <2>1, <4>1, Halves
    <3>3. Shown(s)[2 * m + 2] = <<t, 2>>
      BY <2>1, <3>2 DEF Shown
    <3> QED
      BY <1>7, <2>4, <3>1, <3>3
  <2> QED
    BY <1>2, <2>3, <2>4
<1>12. \A k \in 1..Len(output'[s]) : output'[s][k] = Shown(s)'[k]
  <2>1. \A k \in 1..Len(output[s]) : output[s][k] = Shown(s)[k]
    BY DEF Printing, ShownSoFar
  <2>2. Len(output[s]) \in Nat
    BY <1>2
  <2> QED
    BY <1>7, <1>10, <1>11, <2>1, <2>2
<1>13. /\ Cardinality(Due(s)') <= Len(lines'[s])
       /\ \A k \in 1..Len(lines'[s]) : k > Len(lines'[s]) - Cardinality(Due(s)') => lines'[s][k] = t
  BY <1>1, <1>2, <1>8, <1>9
<1> QED
  BY <1>8, <1>12, <1>13 DEF ShownSoFar

\* The other streams are not concerned.
LEMMA WriteThere ==
    ASSUME StreamIInv, NEW t \in Printer, Printing(t), Write(t),
           NEW s \in Stream, out_streams[at[1]] # s
    PROVE  ShownSoFar(t, s)'
<1>1. /\ at[1] <= Len(out_streams) /\ UNCHANGED <<out_streams, holder, undefined, lines>>
      /\ output' = [output EXCEPT ![out_streams[at[1]]] = Append(@, <<t, at[2]>>)]
      /\ at' = IF at[2] = 1 THEN <<at[1], 2>> ELSE <<at[1] + 1, 1>>
  BY DEF Write
<1>2. StreamTypeOK
  BY DEF StreamIInv
<1>3. Due(s)' = Due(s)
  BY <1>1, <1>2 DEF Due, StreamTypeOK
<1>4. output'[s] = output[s] /\ Shown(s)' = Shown(s)
  BY <1>1, <1>2 DEF StreamTypeOK, Shown
<1>5. Written(s)' = Written(s)
  BY <1>1, <1>2, <1>3 DEF StreamTypeOK, Written
<1> QED
  BY <1>1, <1>3, <1>4, <1>5 DEF Printing, ShownSoFar

LEMMA WriteStep == ASSUME StreamIInv, NEW t \in Printer, Write(t) PROVE StreamIInv'
<1>1. Printing(t) /\ ~undefined /\ StreamTypeOK
  BY TheHolder DEF Write, StreamIInv
<1>2. /\ at[1] <= Len(out_streams) /\ UNCHANGED <<out_streams, holder, undefined, lines>>
      /\ output' = [output EXCEPT ![out_streams[at[1]]] = Append(@, <<t, at[2]>>)]
      /\ at' = IF at[2] = 1 THEN <<at[1], 2>> ELSE <<at[1] + 1, 1>>
  BY DEF Write
<1>3. at[1] \in 1..Len(out_streams) /\ at[2] \in {1, 2} /\ Len(out_streams) \in Nat
  BY <1>1, <1>2 DEF StreamTypeOK
<1>4. StreamTypeOK'
  <2>1. out_streams[at[1]] \in Stream /\ <<t, at[2]>> \in Printer \X {1, 2}
    BY <1>1, <1>3 DEF StreamTypeOK
  <2>2. output' \in [Stream -> Seq(Printer \X {1, 2})]
    BY <1>1, <1>2, <2>1 DEF StreamTypeOK
  <2>3. at' \in (Nat \ {0}) \X {1, 2}
    <3>1. <<at[1], 2>> \in (Nat \ {0}) \X {1, 2} /\ <<at[1] + 1, 1>> \in (Nat \ {0}) \X {1, 2}
      BY <1>3
    <3> QED
      BY <1>2, <3>1
  <2> QED
    BY <1>1, <1>2, <2>2, <2>3 DEF StreamTypeOK
<1>5. \A s \in Stream : ShownSoFar(t, s)'
  BY <1>1, WriteHere, WriteThere
<1>6. at'[1] <= Len(out_streams) \/ at' = <<Len(out_streams) + 1, 1>>
  <2>1. CASE at[2] = 1
    BY <1>2, <2>1
  <2>2. CASE at[2] = 2
    BY <1>2, <1>3, <2>2
  <2> QED
    BY <1>3, <2>1, <2>2
<1>7. Printing(t)'
  BY <1>1, <1>2, <1>5, <1>6 DEF Printing, ShownSoFar
<1> QED
  BY <1>1, <1>2, <1>4, <1>7 DEF StreamIInv, WholeLines, Printing

\* When the print ends nothing is due, and every stream shows all its lines.
LEMMA UnlockStep == ASSUME StreamIInv, NEW t \in Printer, Unlock(t) PROVE StreamIInv'
<1>1. Printing(t) /\ ~undefined /\ StreamTypeOK
  BY TheHolder DEF Unlock, StreamIInv
<1>2. /\ at[1] > Len(out_streams) /\ holder' = holder \ {t}
      /\ UNCHANGED <<out_streams, output, at, undefined, lines>>
  BY DEF Unlock
<1>3. at = <<Len(out_streams) + 1, 1>> /\ Len(out_streams) \in Nat
  BY <1>1, <1>2 DEF Printing, ShownSoFar, StreamTypeOK
<1>4. ASSUME NEW s \in Stream PROVE output[s] = Shown(s)
  <2>1. Due(s) = {}
    BY <1>1, <1>3 DEF Due, StreamTypeOK
  <2>2. Cardinality(Due(s)) = 0
    BY <2>1, FS_EmptySet
  <2>3. Len(lines[s]) \in Nat /\ output[s] \in Seq(Printer \X {1, 2})
    BY <1>1 DEF StreamTypeOK
  <2>4. Len(output[s]) = 2 * Len(lines[s])
    BY <1>1, <1>3, <2>2, <2>3 DEF Printing, ShownSoFar, Written
  <2>5. \A k \in 1..(2 * Len(lines[s])) : output[s][k] = Shown(s)[k]
    BY <1>1, <2>4 DEF Printing, ShownSoFar
  <2>6. Shown(s) = [k \in 1..(2 * Len(lines[s])) |-> Shown(s)[k]]
    BY DEF Shown
  <2>7. output[s] = [k \in 1..(2 * Len(lines[s])) |-> output[s][k]]
    BY <2>3, <2>4, LenProperties
  <2> QED
    BY <2>5, <2>6, <2>7
<1>5. holder' = {}
  BY <1>1, <1>2 DEF Printing, ShownSoFar
<1>6. WholeLines'
  BY <1>2, <1>4 DEF WholeLines, Shown
<1>7. StreamTypeOK'
  BY <1>1, <1>2, <1>5 DEF StreamTypeOK
<1> QED
  BY <1>5, <1>6, <1>7 DEF StreamIInv

LEMMA StreamSteps == StreamIInv /\ [StreamNext]_streamVars => StreamIInv'
<1> SUFFICES ASSUME StreamIInv, [StreamNext]_streamVars PROVE StreamIInv'
  OBVIOUS
<1>1. CASE UNCHANGED streamVars
  <2>1. UNCHANGED <<out_streams, output, holder, at, undefined, lines>>
    BY <1>1 DEF streamVars
  <2>2. StreamTypeOK' = StreamTypeOK /\ WholeLines' = WholeLines
    BY <2>1 DEF StreamTypeOK, WholeLines, Shown
  <2>3. ASSUME NEW t \in Printer, Printing(t) PROVE Printing(t)'
    <3>1. \A s \in Stream : /\ Due(s)' = Due(s) /\ Written(s)' = Written(s)
                            /\ Shown(s)' = Shown(s)
      BY <2>1 DEF Due, Written, Shown
    <3> QED
      BY <2>1, <2>3, <3>1 DEF Printing, ShownSoFar
  <2> QED
    BY <2>1, <2>2, <2>3 DEF StreamIInv
<1> QED
  BY <1>1, ChangeStep, LockStep, WriteStep, UnlockStep DEF StreamNext

\* For every number of threads, streams and lines: what a stream shows are
\* whole lines in the order the prints took the mutex, until the list is
\* changed during a print (synced_stream::print, println).
THEOREM LinesWhole == StreamInit /\ [][StreamNext]_streamVars => []WholeLines
<1>1. StreamIInv => WholeLines
  BY DEF StreamIInv, WholeLines
<1> QED
  BY StreamStarts, StreamSteps, <1>1, PTL
-------------------------------------------------------------------------------
(* ptime.c, systime.c, psync.c and threading.c in a program that has just  *)
(* started: no step of a function that does not end takes it past StuckAt, *)
(* so the only calls that are still on the stack when it is full, or when  *)
(* a NULL pointer is read, are those of functions of the same kind.        *)

LibFunction == DOMAIN Body
Stops == Endless \cup Faulty       \* the functions that do not end

\* No function runs far enough to set one of these.
NeverSet == {"time_system_start", "sph->sp", "sth->st", "pt"}

\* The step of a function that does not end at which it stays: the call of
\* another such function, or the dereference of a NULL pointer.
StuckAt(f) ==
    CASE f \in {"systime_started", "systime_now", "time_init", "dtToPTime",
                "thread_new", "syncprocess_new"} -> 2
      [] f \in {"pt_arith", "pthread_new"} -> 3
      [] f = "sync_processes" -> 4
      [] OTHER -> 1

\* How deep the calls of a function nest.
Rank(f) ==
    CASE f = "sync_processes" -> 2
      [] f \in {"processtime_new", "ticksToTs", "thread_new", "syncprocess_new"} -> 1
      [] OTHER -> 0

\* The steps a function on the top of the stack can be at.
Reached(f, k) ==
    /\ k \in 1..(Len(Body[f]) + 1)
    /\ f \in Stops => k <= StuckAt(f)
    /\ f \in {"set_processes", "syncpgoon"} => k \in {1, Len(Body[f]) + 1}

\* f stays in the call of g: g does not end, or is given a NULL pointer.
StaysIn(f, g) == g \in Stops \/ (f = "syncprocess_new" /\ g = "synctime_new")

IsCall(s) == s.op \in {"call", "call if null"}

\* Who calls whom: a function that ends calls functions of a lower rank.
CallFacts(f, k, s) ==
    IsCall(s) =>
        /\ s.arg \in LibFunction
        /\ f # "synctime_new"
        /\ s.arg \in Endless => f \in Endless
        /\ s.arg \in Faulty \cup {"synctime_new"} => f \in Faulty
        /\ s.arg = "synctime_new" => f = "syncprocess_new" /\ k = 2
        /\ f \notin Endless => Rank(s.arg) < Rank(f)

\* The step at which a function stays.
StuckFacts(f, k, s) ==
    /\ f \in Stops /\ k = StuckAt(f) =>
           \/ s.op = "call" /\ StaysIn(f, s.arg)
           \/ s.op = "call if null" /\ s.ptr = "time_system_start" /\ StaysIn(f, s.arg)
           \/ f = "pthread_new" /\ s.op = "dereference"
    /\ f \in {"set_processes", "syncpgoon"} => s.op = "return if null"
    /\ f = "syncprocess_new" /\ k = 1 => s.op = "clear" /\ s.arg = "current_process_time"
    /\ f = "synctime_new" => s.op = "dereference"

\* Which pointers the steps set and read.
PointerFacts(f, k, s) ==
    /\ s.op = "set" => s.arg \notin NeverSet \cup {"current_process_time"}
    /\ s.op = "clear" => s.arg # "current_process_time" \/ f = "syncprocess_new"
    /\ s.op = "dereference" =>
           \/ f = "pthread_new" /\ s.arg = "pt"
           \/ f = "synctime_new" /\ s.arg = "current_process_time"
    /\ s.op = "return if null" => s.arg \in NeverSet /\ f \in {"set_processes", "syncpgoon"}
    /\ s.op = "call if null" => s.ptr \in NeverSet

\* What a step can do, and the functions that make no calls.
StepOps == {"call", "call if null", "set", "clear", "dereference", "return if null"}
Plain == {"timer", "deltatimeToTs", "PTimeToTspec"}

LEMMA FunctionNames == LibFunction =
    {"timer", "deltatimeToTs", "PTimeToTspec", "processtime_new", "systime_started",
     "systime_now", "systime_since_start", "time_init", "time_update_since_start",
     "seconds_to_ticks", "elapsed_since", "tsToPTime", "tsToDeltaTime", "tsToTicks",
     "ticksToTs", "dtToPTime", "pt_arith", "pthread_new", "thread_new", "synctime_new",
     "syncprocess_new", "synctimehandler_new", "syncpgoon", "syncprocesshandler_new",
     "set_processes", "sync_processes"}
BY DEF LibFunction, Body

\* The steps a function can come to.
StepOf(f, k, s) ==
    \/ /\ f \in Endless /\ k = StuckAt(f) /\ s.arg \in Endless
       /\ s.op = "call" \/ (s.op = "call if null" /\ s.ptr = "time_system_start")
    \/ /\ (f \in Endless /\ k < StuckAt(f)) \/ f \in {"processtime_new", "ticksToTs"}
       /\ s.op = "call" /\ s.arg \in Plain
    \/ f = "pthread_new" /\ k < 3 /\ s.op = "clear" /\ s.arg \in {"pta", "pt"}
    \/ f = "pthread_new" /\ k = 3 /\ s.op = "dereference" /\ s.arg = "pt"
    \/ f = "thread_new" /\ k = 1 /\ s.op = "set" /\ s.arg = "pth"
    \/ f = "thread_new" /\ k = 2 /\ s.op = "call" /\ s.arg = "pthread_new"
    \/ f = "synctime_new" /\ s.op = "dereference" /\ s.arg = "current_process_time"
    \/ f = "syncprocess_new" /\ k = 1 /\ s.op = "clear" /\ s.arg = "current_process_time"
    \/ f = "syncprocess_new" /\ k = 2 /\ s.op = "call" /\ s.arg = "synctime_new"
    \/ f = "synctimehandler_new" /\ s.op = "clear" /\ s.arg = "sth->st"
    \/ f = "syncprocesshandler_new" /\ s.op = "clear" /\ s.arg = "sph->sp"
    \/ f = "syncpgoon" /\ k = 1 /\ s.op = "return if null" /\ s.arg = "sth->st"
    \/ f = "set_processes" /\ k = 1 /\ s.op = "return if null" /\ s.arg = "sph->sp"
    \/ /\ f = "sync_processes" /\ k < 4 /\ s.op = "call"
       /\ s.arg \in {"syncprocesshandler_new", "set_processes", "synctimehandler_new"}
    \/ f = "sync_processes" /\ k = 4 /\ s.op = "call" /\ s.arg = "syncprocess_new"

LEMMA StuckTable ==
    /\ StuckAt("pthread_new") = 3 /\ StuckAt("thread_new") = 2
    /\ StuckAt("syncprocess_new") = 2 /\ StuckAt("sync_processes") = 4
BY DEF StuckAt

LEMMA StuckNat == ASSUME NEW f \in LibFunction PROVE StuckAt(f) \in 1..4
BY DEF StuckAt

LEMMA RankTable ==
    /\ \A g \in Plain : Rank(g) = 0
    /\ Rank("pthread_new") = 0 /\ Rank("thread_new") = 1
    /\ Rank("syncprocess_new") = 1 /\ Rank("sync_processes") = 2
    /\ Rank("synctime_new") = 0 /\ Rank("processtime_new") = 1 /\ Rank("ticksToTs") = 1
    /\ Rank("syncprocesshandler_new") = 0 /\ Rank("set_processes") = 0
    /\ Rank("synctimehandler_new") = 0
BY DEF Rank, Plain

LEMMA ReturnIfNullFields ==
    ASSUME NEW s, NEW g, s = ReturnIfNull(g)
    PROVE  s.op = "return if null" /\ s.arg = g
BY DEF ReturnIfNull

\* Every step that is reached is one of these.
LEMMA StepsAre ==
    ASSUME NEW f \in LibFunction, NEW k \in Nat, Reached(f, k), k <= Len(Body[f])
    PROVE  StepOf(f, k, Body[f][k])
<1> USE FunctionNames DEF Reached, Stops
<1>1. CASE f = "timer"
  BY <1>1
  DEF Body, Timer, StepOf, StuckAt, Endless, Faulty, Plain, Call, Set, Clear, Deref
<1>2. CASE f = "deltatimeToTs"
  BY <1>2
  DEF Body, Timer, StepOf, StuckAt, Endless, Faulty, Plain, Call, Set, Clear, Deref
<1>3. CASE f = "PTimeToTspec"
  BY <1>3
  DEF Body, Timer, StepOf, StuckAt, Endless, Faulty, Plain, Call, Set, Clear, Deref
<1>4. CASE f = "processtime_new"
  BY <1>4
  DEF Body, processtime_new, StepOf, StuckAt, Endless, Faulty, Plain, Call, Set, Clear, Deref
<1>5. CASE f = "systime_started"
  <2>1. \/ k < 2 /\ Body[f][k] = Call("timer")
        \/ k = 2 /\ Body[f][k] = Call("dtToPTime")
    BY <1>5 DEF Body, systime_started, StuckAt, Endless
  <2>2. \/ k < 2 /\ Body[f][k].op = "call" /\ Body[f][k].arg = "timer"
        \/ k = 2 /\ Body[f][k].op = "call" /\ Body[f][k].arg = "dtToPTime"
    BY <2>1 DEF Call
  <2>3. StuckAt(f) = 2 /\ f \in Endless
    BY <1>5 DEF StuckAt, Endless
  <2> HIDE <2>1
  <2> QED BY <2>2, <2>3 DEF StepOf, Endless, Plain
<1>6. CASE f = "systime_now"
  <2>1. \/ k < 2 /\ Body[f][k] = Call("timer")
        \/ k = 2 /\ Body[f][k] = Call("tsToPTime")
    BY <1>6 DEF Body, systime_now, StuckAt, Endless
  <2>2. \/ k < 2 /\ Body[f][k].op = "call" /\ Body[f][k].arg = "timer"
        \/ k = 2 /\ Body[f][k].op = "call" /\ Body[f][k].arg = "tsToPTime"
    BY <2>1 DEF Call
  <2>3. StuckAt(f) = 2 /\ f \in Endless
    BY <1>6 DEF StuckAt, Endless
  <2> HIDE <2>1
  <2> QED BY <2>2, <2>3 DEF StepOf, Endless, Plain
<1>7. CASE f = "systime_since_start"
  <2>1. k = 1 /\ Body[f][k] = Call("systime_now")
    BY <1>7 DEF Body, systime_since_start, StuckAt, Endless
  <2>2. StuckAt(f) = 1
    BY <1>7 DEF StuckAt
  <2> QED BY <1>7, <2>1, <2>2 DEF StepOf, Endless, Plain, Call, CallIfNull
<1>8. CASE f = "time_init"
  <2>1. \/ k < 2 /\ Body[f][k] = Call("timer")
        \/ k = 2 /\ Body[f][k] = Call("systime_started")
    BY <1>8 DEF Body, time_init, StuckAt, Endless
  <2>2. \/ k < 2 /\ Body[f][k].op = "call" /\ Body[f][k].arg = "timer"
        \/ k = 2 /\ Body[f][k].op = "call" /\ Body[f][k].arg = "systime_started"
    BY <2>1 DEF Call
  <2>3. StuckAt(f) = 2 /\ f \in Endless
    BY <1>8 DEF StuckAt, Endless
  <2> HIDE <2>1
  <2> QED BY <2>2, <2>3 DEF StepOf, Endless, Plain
<1>9. CASE f = "time_update_since_start"
  <2>1. k = 1 /\ Body[f][k] = Call("systime_since_start")
    BY <1>9 DEF Body, time_update_since_start, StuckAt, Endless
  <2>2. StuckAt(f) = 1
    BY <1>9 DEF StuckAt
  <2> QED BY <1>9, <2>1, <2>2 DEF StepOf, Endless, Plain, Call, CallIfNull
<1>10. CASE f = "seconds_to_ticks"
  <2>1. k = 1 /\ Body[f][k] = CallIfNull("time_system_start", "time_init")
    BY <1>10 DEF Body, seconds_to_ticks, StuckAt, Endless
  <2>2. StuckAt(f) = 1
    BY <1>10 DEF StuckAt
  <2>3. /\ Body[f][k].op = "call if null" /\ Body[f][k].arg = "time_init"
        /\ Body[f][k].ptr = "time_system_start"
    <3>1. ASSUME NEW s, s = CallIfNull("time_system_start", "time_init")
          PROVE  s.op = "call if null" /\ s.arg = "time_init" /\ s.ptr = "time_system_start"
      BY <3>1 DEF CallIfNull
    <3> QED BY ONLY <2>1, <3>1, Zenon
  <2> QED BY <1>10, <2>1, <2>2, <2>3 DEF StepOf, Endless
<1>11. CASE f = "elapsed_since"
  <2>1. k = 1 /\ Body[f][k] = Call("systime_now")
    BY <1>11 DEF Body, elapsed_since, StuckAt, Endless
  <2>2. StuckAt(f) = 1
    BY <1>11 DEF StuckAt
  <2> QED BY <1>11, <2>1, <2>2 DEF StepOf, Endless, Plain, Call, CallIfNull
<1>12. CASE f = "tsToPTime"
  <2>1. k = 1 /\ Body[f][k] = Call("tsToDeltaTime")
    BY <1>12 DEF Body, tsToPTime, StuckAt, Endless
  <2>2. StuckAt(f) = 1
    BY <1>12 DEF StuckAt
  <2> QED BY <1>12, <2>1, <2>2 DEF StepOf, Endless, Plain, Call, CallIfNull
<1>13. CASE f = "tsToDeltaTime"
  <2>1. k = 1 /\ Body[f][k] = Call("tsToTicks")
    BY <1>13 DEF Body, tsToDeltaTime, StuckAt, Endless
  <2>2. StuckAt(f) = 1
    BY <1>13 DEF StuckAt
  <2> QED BY <1>13, <2>1, <2>2 DEF StepOf, Endless, Plain, Call, CallIfNull
<1>14. CASE f = "tsToTicks"
  <2>1. k = 1 /\ Body[f][k] = Call("seconds_to_ticks")
    BY <1>14 DEF Body, tsToTicks, StuckAt, Endless
  <2>2. StuckAt(f) = 1
    BY <1>14 DEF StuckAt
  <2> QED BY <1>14, <2>1, <2>2 DEF StepOf, Endless, Plain, Call, CallIfNull
<1>15. CASE f = "ticksToTs"
  BY <1>15
  DEF Body, ticksToTs, StepOf, StuckAt, Endless, Faulty, Plain, Call, Set, Clear, Deref
<1>16. CASE f = "dtToPTime"
  <2>1. \/ k < 2 /\ Body[f][k] = Call("deltatimeToTs")
        \/ k = 2 /\ Body[f][k] = Call("tsToPTime")
    BY <1>16 DEF Body, dtToPTime, StuckAt, Endless
  <2>2. \/ k < 2 /\ Body[f][k].op = "call" /\ Body[f][k].arg = "deltatimeToTs"
        \/ k = 2 /\ Body[f][k].op = "call" /\ Body[f][k].arg = "tsToPTime"
    BY <2>1 DEF Call
  <2>3. StuckAt(f) = 2 /\ f \in Endless
    BY <1>16 DEF StuckAt, Endless
  <2> HIDE <2>1
  <2> QED BY <2>2, <2>3 DEF StepOf, Endless, Plain
<1>17. CASE f = "pt_arith"
  <2>1. \/ k < 3 /\ Body[f][k] = Call("PTimeToTspec")
        \/ k = 3 /\ Body[f][k] = Call("tsToPTime")
    BY <1>17 DEF Body, pt_arith, StuckAt, Endless
  <2>2. \/ k < 3 /\ Body[f][k].op = "call" /\ Body[f][k].arg = "PTimeToTspec"
        \/ k = 3 /\ Body[f][k].op = "call" /\ Body[f][k].arg = "tsToPTime"
    BY <2>1 DEF Call
  <2>3. StuckAt(f) = 3 /\ f \in Endless
    BY <1>17 DEF StuckAt, Endless
  <2> HIDE <2>1
  <2> QED BY <2>2, <2>3 DEF StepOf, Endless, Plain
<1>18. CASE f = "pthread_new"
  BY <1>18
  DEF Body, pthread_new, StepOf, StuckAt, Endless, Faulty, Plain, Call, Set, Clear, Deref
<1>19. CASE f = "thread_new"
  BY <1>19
  DEF Body, thread_new, StepOf, StuckAt, Endless, Faulty, Plain, Call, Set, Clear, Deref
<1>20. CASE f = "synctime_new"
  BY <1>20
  DEF Body, synctime_new, StepOf, StuckAt, Endless, Faulty, Plain, Call, Set, Clear, Deref
<1>21. CASE f = "syncprocess_new"
  BY <1>21
  DEF Body, syncprocess_new, StepOf, StuckAt, Endless, Faulty, Plain, Call, Set, Clear, Deref
<1>22. CASE f = "synctimehandler_new"
  BY <1>22
  DEF Body, synctimehandler_new, StepOf, StuckAt, Endless, Faulty, Plain, Call, Set, Clear, Deref
<1>23. CASE f = "syncpgoon"
  <2>1. k = 1 /\ Body[f][k] = ReturnIfNull("sth->st")
    BY <1>23 DEF Body, syncpgoon
  <2>2. Body[f][k].op = "return if null" /\ Body[f][k].arg = "sth->st"
    BY <2>1, ReturnIfNullFields
  <2> QED BY <1>23, <2>1, <2>2 DEF StepOf
<1>24. CASE f = "syncprocesshandler_new"
  BY <1>24
  DEF Body, syncprocesshandler_new, StepOf, StuckAt, Endless, Faulty, Plain, Call, Set, Clear, Deref
<1>25. CASE f = "set_processes"
  <2>1. k = 1 /\ Body[f][k] = ReturnIfNull("sph->sp")
    BY <1>25 DEF Body, set_processes
  <2>2. Body[f][k].op = "return if null" /\ Body[f][k].arg = "sph->sp"
    BY <2>1, ReturnIfNullFields
  <2> QED BY <1>25, <2>1, <2>2 DEF StepOf
<1>26. CASE f = "sync_processes"
  BY <1>26
  DEF Body, sync_processes, StepOf, StuckAt, Endless, Faulty, Plain, Call, Set, Clear, Deref
<1> QED
  BY <1>1, <1>2, <1>3, <1>4, <1>5, <1>6, <1>7, <1>8, <1>9, <1>10, <1>11, <1>12, <1>13,
     <1>14, <1>15, <1>16, <1>17, <1>18, <1>19, <1>20, <1>21, <1>22, <1>23, <1>24, <1>25, <1>26

LEMMA StepPointers ==
    ASSUME NEW f \in LibFunction, NEW k \in Nat, NEW s, StepOf(f, k, s)
    PROVE  s.op \in StepOps /\ PointerFacts(f, k, s)
BY DEF StepOf, StepOps, PointerFacts, NeverSet

LEMMA StepStuck ==
    ASSUME NEW f \in LibFunction, NEW k \in Nat, NEW s, StepOf(f, k, s)
    PROVE  StuckFacts(f, k, s)
<1>1. StuckAt(f) \in Nat
  BY StuckNat
<1>2. ASSUME f \in {"set_processes", "syncpgoon"} PROVE s.op = "return if null"
  BY <1>2 DEF StepOf, Endless
<1>3. ASSUME f = "syncprocess_new", k = 1
      PROVE  s.op = "clear" /\ s.arg = "current_process_time"
  BY <1>3 DEF StepOf, Endless
<1>4. ASSUME f = "synctime_new" PROVE s.op = "dereference"
  BY <1>4 DEF StepOf, Endless
<1>5. ASSUME f \in Endless, k = StuckAt(f)
      PROVE  /\ StaysIn(f, s.arg)
             /\ s.op = "call" \/ (s.op = "call if null" /\ s.ptr = "time_system_start")
  <2>1. /\ s.arg \in Endless
        /\ s.op = "call" \/ (s.op = "call if null" /\ s.ptr = "time_system_start")
    <3>1. ~(k < StuckAt(f)) /\ f \in Endless
      BY <1>1, <1>5
    <3> HIDE <1>5
    <3> QED BY <3>1 DEF StepOf, Endless
  <2> QED BY <2>1 DEF StaysIn, Stops
<1>6. ASSUME f \in Faulty, k = StuckAt(f)
      PROVE  \/ s.op = "call" /\ StaysIn(f, s.arg)
             \/ f = "pthread_new" /\ s.op = "dereference"
  <2>1. f = "pthread_new" => s.op = "dereference"
    BY <1>6, StuckTable DEF StepOf, Endless
  <2>2. f = "thread_new" => s.op = "call" /\ s.arg = "pthread_new"
    BY <1>6, StuckTable DEF StepOf, Endless
  <2>3. f = "syncprocess_new" => s.op = "call" /\ s.arg = "synctime_new"
    BY <1>6, StuckTable DEF StepOf, Endless
  <2>4. f = "sync_processes" => s.op = "call" /\ s.arg = "syncprocess_new"
    BY <1>6, StuckTable DEF StepOf, Endless
  <2>5. f = "pthread_new" \/ (s.op = "call" /\ StaysIn(f, s.arg))
    BY <1>6, <2>2, <2>3, <2>4 DEF StaysIn, Stops, Faulty
  <2> QED BY <2>1, <2>5
<1> QED
  BY <1>2, <1>3, <1>5, <1>6, <1>4 DEF StuckFacts, Stops

LEMMA StepCalls ==
    ASSUME NEW f \in LibFunction, NEW k \in Nat, NEW s, StepOf(f, k, s)
    PROVE  CallFacts(f, k, s)
<1>1. IsCall(s) => s.arg \in LibFunction
  BY FunctionNames DEF StepOf, IsCall, Plain, Endless
<1>2. IsCall(s) =>
          /\ f # "synctime_new"
          /\ s.arg = "synctime_new" => f = "syncprocess_new" /\ k = 2
  BY DEF StepOf, IsCall, Plain, Endless
<1>3. IsCall(s) /\ s.arg \in Endless => f \in Endless
  BY DEF StepOf, IsCall, Plain, Endless
<1>4. IsCall(s) /\ s.arg \in Faulty \cup {"synctime_new"} => f \in Faulty
  BY DEF StepOf, IsCall, Plain, Endless, Faulty
<1>5. IsCall(s) /\ f \notin Endless => Rank(s.arg) < Rank(f)
  <2> SUFFICES ASSUME IsCall(s), f \notin Endless PROVE Rank(s.arg) < Rank(f)
    OBVIOUS
  <2>1. CASE s.arg \in Plain /\ f \in {"processtime_new", "ticksToTs"}
    BY <2>1, RankTable
  <2>2. CASE f = "thread_new"
    <3>1. s.arg = "pthread_new"
      BY <2>2 DEF StepOf, IsCall, Endless
    <3> QED BY <2>2, <3>1, RankTable
  <2>3. CASE f = "syncprocess_new"
    <3>1. s.arg = "synctime_new"
      BY <2>3 DEF StepOf, IsCall, Endless
    <3> QED BY <2>3, <3>1, RankTable
  <2>4. CASE f = "sync_processes"
    <3>1. s.arg \in {"syncprocesshandler_new", "set_processes", "synctimehandler_new",
                     "syncprocess_new"}
      BY <2>4 DEF StepOf, IsCall, Endless
    <3> QED BY <2>4, <3>1, RankTable
  <2> QED BY <2>1, <2>2, <2>3, <2>4 DEF StepOf, IsCall
<1> QED
  BY <1>1, <1>2, <1>3, <1>4, <1>5 DEF CallFacts

Frames == [fn : LibFunction, at : Nat]

\* A frame: the step it can be at and the function on top of it, how the
\* function it belongs to and the entry are related, the pointer that
\* synctime_new reads, and the depth.
FrameOK(i) ==
    LET f == stack[i].fn
        k == stack[i].at
    IN  /\ \/ Reached(f, k)
           \/ /\ i < Len(stack) /\ f \in Stops
              /\ k = StuckAt(f) + 1 /\ StaysIn(f, stack[i + 1].fn)
        /\ f \in Endless => entry \in Endless
        /\ f \in Faulty \/ (f = "synctime_new" /\ i > 1) => entry \in Faulty
        /\ f = "synctime_new" => i = Len(stack) /\ (i = 1 <=> "current_process_time" \in set)
        /\ f = "synctime_new" /\ i > 1 => k = 1
        /\ f = "syncprocess_new" /\ k >= 2 => "current_process_time" \notin set
        /\ entry \notin Endless => i + Rank(f) <= 3

\* The inductive invariant: the frames of the stack fit together.
StartIInv ==
    /\ stack \in Seq(Frames) /\ entry \in LibFunction
    /\ outcome \in {"idle", "running", "returned", "overflow", "fault"}
    /\ outcome \in {"idle", "returned"} <=> stack = <<>>
    /\ stack # <<>> => stack[1].fn = entry
    /\ NeverSet \cap set = {}
    /\ \A i \in 1..Len(stack) : FrameOK(i)
    /\ StartOutcome

LEMMA Lengths == ASSUME NEW f \in LibFunction PROVE Len(Body[f]) \in Nat
BY FunctionNames
   DEF Body, Timer, systime_started, systime_now, systime_since_start, time_init,
       time_update_since_start, seconds_to_ticks, elapsed_since, tsToPTime, tsToDeltaTime,
       tsToTicks, ticksToTs, dtToPTime, pt_arith, processtime_new, pthread_new, thread_new,
       synctime_new, syncprocess_new, synctimehandler_new, syncpgoon,
       syncprocesshandler_new, set_processes, sync_processes

\* A function that does not end stays at one of its steps.
LEMMA StuckWithin ==
    ASSUME NEW f \in Stops
    PROVE  f \in LibFunction /\ StuckAt(f) \in 1..Len(Body[f])
<1>1. f \in LibFunction
  BY FunctionNames DEF Stops, Endless, Faulty
<1>2. /\ Len(Body["systime_started"]) = 2 /\ Len(Body["systime_now"]) = 2
      /\ Len(Body["systime_since_start"]) = 3 /\ Len(Body["time_init"]) = 5
      /\ Len(Body["time_update_since_start"]) = 2 /\ Len(Body["seconds_to_ticks"]) = 5
      /\ Len(Body["elapsed_since"]) = 5 /\ Len(Body["tsToPTime"]) = 2
      /\ Len(Body["tsToDeltaTime"]) = 2 /\ Len(Body["tsToTicks"]) = 1
      /\ Len(Body["dtToPTime"]) = 2 /\ Len(Body["pt_arith"]) = 3
      /\ Len(Body["pthread_new"]) = 5 /\ Len(Body["thread_new"]) = 3
      /\ Len(Body["syncprocess_new"]) = 3 /\ Len(Body["sync_processes"]) = 5
  BY DEF Body, systime_started, systime_now, systime_since_start, time_init,
     time_update_since_start, seconds_to_ticks, elapsed_since, tsToPTime, tsToDeltaTime,
     tsToTicks, dtToPTime, pt_arith, pthread_new, thread_new, syncprocess_new, sync_processes
<1>3. /\ StuckAt("systime_started") = 2 /\ StuckAt("systime_now") = 2
      /\ StuckAt("time_init") = 2 /\ StuckAt("dtToPTime") = 2
      /\ StuckAt("thread_new") = 2 /\ StuckAt("syncprocess_new") = 2
      /\ StuckAt("pt_arith") = 3 /\ StuckAt("pthread_new") = 3 /\ StuckAt("sync_processes") = 4
      /\ StuckAt("systime_since_start") = 1 /\ StuckAt("time_update_since_start") = 1
      /\ StuckAt("seconds_to_ticks") = 1 /\ StuckAt("elapsed_since") = 1
      /\ StuckAt("tsToPTime") = 1 /\ StuckAt("tsToDeltaTime") = 1 /\ StuckAt("tsToTicks") = 1
  BY DEF StuckAt
<1>4. /\ StuckAt("systime_started") <= Len(Body["systime_started"])
      /\ StuckAt("systime_now") <= Len(Body["systime_now"])
      /\ StuckAt("time_init") <= Len(Body["time_init"])
      /\ StuckAt("dtToPTime") <= Len(Body["dtToPTime"])
      /\ StuckAt("thread_new") <= Len(Body["thread_new"])
      /\ StuckAt("syncprocess_new") <= Len(Body["syncprocess_new"])
      /\ StuckAt("pt_arith") <= Len(Body["pt_arith"])
      /\ StuckAt("pthread_new") <= Len(Body["pthread_new"])
      /\ StuckAt("sync_processes") <= Len(Body["sync_processes"])
      /\ StuckAt("systime_since_start") <= Len(Body["systime_since_start"])
      /\ StuckAt("time_update_since_start") <= Len(Body["time_update_since_start"])
      /\ StuckAt("seconds_to_ticks") <= Len(Body["seconds_to_ticks"])
      /\ StuckAt("elapsed_since") <= Len(Body["elapsed_since"])
      /\ StuckAt("tsToPTime") <= Len(Body["tsToPTime"])
      /\ StuckAt("tsToDeltaTime") <= Len(Body["tsToDeltaTime"])
      /\ StuckAt("tsToTicks") <= Len(Body["tsToTicks"])
  BY <1>2, <1>3
<1>5. StuckAt(f) <= Len(Body[f])
  BY <1>4 DEF Stops, Endless, Faulty
<1> QED
  BY <1>1, <1>5, StuckNat, Lengths

LEMMA RankBound == ASSUME NEW f \in LibFunction PROVE Rank(f) \in 0..2
BY DEF Rank

LEMMA StartStarts == StartInit => StartIInv
BY FunctionNames DEF StartInit, StartIInv, StartOutcome, Endless, Faulty

LEMMA OnTop ==
    ASSUME StartIInv, stack # <<>>
    PROVE  /\ Len(stack) \in Nat \ {0} /\ Top \in Frames /\ Top = stack[Len(stack)]
           /\ Top.fn \in LibFunction /\ Top.at \in Nat
           /\ FrameOK(Len(stack)) /\ Reached(Top.fn, Top.at)
           /\ outcome \notin {"idle", "returned"}
<1>1. Len(stack) \in Nat \ {0} /\ Top \in Frames
  BY DEF StartIInv, Top
<1>2. FrameOK(Len(stack))
  BY <1>1 DEF StartIInv
<1> QED
  BY <1>1, <1>2 DEF FrameOK, Top, Frames, StartIInv

\* What is known of the step to be done.
LEMMA TopStep ==
    ASSUME StartIInv, Running
    PROVE  /\ Todo.op \in StepOps /\ CallFacts(Top.fn, Top.at, Todo)
           /\ StuckFacts(Top.fn, Top.at, Todo) /\ PointerFacts(Top.fn, Top.at, Todo)
           /\ Top.at <= Len(Body[Top.fn])
<1>1. /\ Top.fn \in LibFunction /\ Top.at \in Nat /\ Reached(Top.fn, Top.at)
      /\ Top.at <= Len(Body[Top.fn])
  BY OnTop, Lengths DEF Running, End
<1>2. StepOf(Top.fn, Top.at, Todo)
  BY <1>1, StepsAre DEF Todo
<1> QED
  BY <1>1, <1>2, StepPointers, StepStuck, StepCalls

LEMMA GoneTo ==
    ASSUME StartIInv, stack # <<>>, NEW k \in Nat
    PROVE  /\ GoTo(k) \in Seq(Frames) /\ Len(GoTo(k)) = Len(stack)
           /\ \A i \in 1..Len(stack) : i # Len(stack) => GoTo(k)[i] = stack[i]
           /\ GoTo(k)[Len(stack)].fn = Top.fn /\ GoTo(k)[Len(stack)].at = k
<1> DEFINE e == [Top EXCEPT !.at = k]
<1>1. e \in Frames /\ e.fn = Top.fn /\ e.at = k
  BY OnTop DEF Frames
<1>2. GoTo(k) = [stack EXCEPT ![Len(stack)] = e]
  BY DEF GoTo, Top
<1>3. stack \in Seq(Frames) /\ Len(stack) \in 1..Len(stack)
  BY OnTop DEF StartIInv
<1> HIDE DEF e
<1> QED
  BY <1>1, <1>2, <1>3, ExceptSeq

LEMMA StartFacts ==
    /\ "current_process_time" \notin NeverSet /\ "pt" \in NeverSet
    /\ "goon_suspense_time" \notin NeverSet /\ "time_system_start" \in NeverSet
    /\ Endless \subseteq Stops /\ Faulty \subseteq Stops
    /\ "pthread_new" \in Faulty /\ "syncprocess_new" \in Faulty
    /\ "set_processes" \notin Stops /\ "syncpgoon" \notin Stops /\ "synctime_new" \notin Stops
BY DEF NeverSet, Stops, Endless, Faulty

LEMMA FirstStep == ASSUME NEW f \in LibFunction PROVE Reached(f, 1)
BY Lengths, StuckNat DEF Reached

\* The function on the top goes on to its step k, which it may reach.
LEMMA Advance ==
    ASSUME StartIInv, Running, NEW k, Reached(Top.fn, k), stack' = GoTo(k),
           entry' = entry, outcome' = outcome, NeverSet \cap set' = {},
           \/ Top.fn = "syncprocess_new" /\ "current_process_time" \notin set'
           \/ "current_process_time" \in set' <=> "current_process_time" \in set,
           Top.fn = "syncprocess_new" /\ k >= 2 => "current_process_time" \notin set',
           Top.fn = "synctime_new" => Len(stack) = 1
    PROVE  StartIInv'
<1> DEFINE n == Len(stack)
<1>1. /\ stack # <<>> /\ outcome = "running" /\ n \in Nat \ {0} /\ k \in Nat
      /\ Top = stack[n] /\ Top.fn \in LibFunction /\ FrameOK(n)
  BY OnTop, Lengths DEF Running, Reached
<1>2. /\ stack' \in Seq(Frames) /\ Len(stack') = n
      /\ \A i \in 1..n : i # n => stack'[i] = stack[i]
      /\ stack'[n].fn = Top.fn /\ stack'[n].at = k
  BY <1>1, GoneTo
<1>3. \A i \in 1..n : stack'[i].fn = stack[i].fn
  BY <1>1, <1>2
<1>4. ASSUME NEW i \in 1..n, i # n PROVE FrameOK(i)'
  <2>1. FrameOK(i) /\ i < n /\ stack'[i] = stack[i] /\ i \in Nat /\ i + 1 \in 1..n
    BY <1>1, <1>2, <1>4 DEF StartIInv
  <2>2. stack'[i + 1].fn = stack[i + 1].fn
    BY <1>3, <2>1
  <2>3. stack[i].fn # "synctime_new"
    BY <2>1, <1>1 DEF FrameOK
  <2>4. stack[i].fn = "syncprocess_new" /\ stack[i].at >= 2 =>
            "current_process_time" \notin set'
    BY <2>1 DEF FrameOK
  <2> QED BY <2>1, <2>2, <2>3, <2>4, <1>2 DEF FrameOK
<1>5. FrameOK(n)'
  <2>1. Top.fn = "syncprocess_new" => Top.fn # "synctime_new"
    OBVIOUS
  <2>2. Top.fn = "synctime_new" => (n = 1 <=> "current_process_time" \in set')
    BY <1>1, <2>1 DEF FrameOK
  <2> QED BY <1>1, <1>2, <2>2 DEF FrameOK
<1>6. stack' # <<>> /\ stack'[1].fn = entry'
  BY <1>1, <1>2, <1>3 DEF StartIInv
<1> QED
  <2>1. \A i \in 1..Len(stack') : FrameOK(i)'
    BY <1>2, <1>4, <1>5
  <2> QED BY <2>1, <1>1, <1>2, <1>6 DEF StartIInv, StartOutcome

\* A function that does not stay at its step reaches the next one.
LEMMA NextReached ==
    ASSUME NEW f \in LibFunction, NEW k \in Nat, Reached(f, k), Len(Body[f]) \in Nat,
           k <= Len(Body[f]), f \notin {"set_processes", "syncpgoon"},
           f \in Stops => k # StuckAt(f), StuckAt(f) \in 1..4
    PROVE  Reached(f, k + 1)
BY DEF Reached

LEMMA GoesOn ==
    ASSUME StartIInv, Running, Top.fn \in Stops => Top.at # StuckAt(Top.fn),
           Todo.op # "return if null"
    PROVE  Reached(Top.fn, Top.at + 1)
<1>1. Top.fn \in LibFunction /\ Top.at \in Nat /\ Reached(Top.fn, Top.at)
  BY OnTop DEF Running
<1>2. Len(Body[Top.fn]) \in Nat /\ StuckAt(Top.fn) \in 1..4
  BY ONLY <1>1, Lengths, StuckNat, Zenon
<1>3. Top.at <= Len(Body[Top.fn]) /\ Top.fn \notin {"set_processes", "syncpgoon"}
  BY TopStep DEF StuckFacts
<1> QED
  BY <1>1, <1>3, <1>2, NextReached

LEMMA AssignStep == ASSUME StartIInv, DoAssign PROVE StartIInv'
<1> DEFINE cpt == "current_process_time"
<1>1. /\ Running /\ Todo.op \in {"set", "clear"} /\ stack' = GoTo(Top.at + 1)
      /\ entry' = entry /\ outcome' = outcome
      /\ set' = IF Todo.op = "set" THEN set \cup {Todo.arg} ELSE set \ {Todo.arg}
  BY DEF DoAssign, Rest
<1>2. /\ StuckFacts(Top.fn, Top.at, Todo) /\ PointerFacts(Top.fn, Top.at, Todo)
      /\ FrameOK(Len(stack)) /\ Top = stack[Len(stack)] /\ Top.at \in Nat
      /\ NeverSet \cap set = {}
  BY <1>1, TopStep, OnTop DEF Running, StartIInv
<1>3. Reached(Top.fn, Top.at + 1)
  BY <1>1, <1>2, GoesOn DEF StuckFacts
<1>4. NeverSet \cap set' = {}
  BY <1>1, <1>2 DEF PointerFacts
<1>5. \/ Top.fn = "syncprocess_new" /\ cpt \notin set'
      \/ cpt \in set' <=> cpt \in set
  BY <1>1, <1>2 DEF PointerFacts
<1>6. Top.fn = "syncprocess_new" /\ Top.at + 1 >= 2 => cpt \notin set'
  <2> SUFFICES ASSUME Top.fn = "syncprocess_new", Top.at + 1 >= 2 PROVE cpt \notin set'
    OBVIOUS
  <2>1. CASE Top.at = 1
    BY <1>1, <1>2, <2>1 DEF StuckFacts
  <2>2. CASE Top.at >= 2
    BY <1>1, <1>2, <2>2 DEF FrameOK, PointerFacts
  <2> QED BY <1>2, <2>1, <2>2
<1>7. Top.fn # "synctime_new"
  BY <1>1, <1>2 DEF StuckFacts
<1> QED
  BY <1>1, <1>3, <1>4, <1>5, <1>6, <1>7, Advance

LEMMA DerefStep == ASSUME StartIInv, DoDeref PROVE StartIInv'
<1>1. /\ Running /\ Todo.op = "dereference" /\ set' = set /\ entry' = entry
      /\ \/ Todo.arg \in set /\ stack' = GoTo(Top.at + 1) /\ outcome' = outcome
         \/ Todo.arg \notin set /\ outcome' = "fault" /\ stack' = stack
  BY DEF DoDeref, Rest
<1>2. /\ StuckFacts(Top.fn, Top.at, Todo) /\ PointerFacts(Top.fn, Top.at, Todo)
      /\ FrameOK(Len(stack)) /\ Top = stack[Len(stack)] /\ Top.at \in Nat
      /\ Len(stack) \in Nat \ {0} /\ NeverSet \cap set = {}
      /\ stack # <<>> /\ outcome = "running"
  BY <1>1, TopStep, OnTop DEF Running, StartIInv
<1>3. \/ Top.fn = "pthread_new" /\ Todo.arg \notin set
      \/ Top.fn = "synctime_new" /\ Todo.arg = "current_process_time"
  BY <1>1, <1>2, StartFacts DEF PointerFacts
<1>4. CASE Todo.arg \in set /\ stack' = GoTo(Top.at + 1) /\ outcome' = outcome
  <2>1. Top.fn = "synctime_new" /\ Len(stack) = 1
    BY <1>2, <1>3, <1>4 DEF FrameOK
  <2>2. Reached(Top.fn, Top.at + 1)
    BY <1>1, <2>1, GoesOn, StartFacts
  <2>3. Top.fn # "syncprocess_new"
    BY <2>1
  <2> QED BY <1>1, <1>2, <1>4, <2>1, <2>2, <2>3, Advance
<1>5. CASE Todo.arg \notin set /\ outcome' = "fault" /\ stack' = stack
  <2>1. entry \in Faulty
    <3>1. Top.fn \in Faulty \/ (Top.fn = "synctime_new" /\ Len(stack) # 1)
      <4>1. CASE Top.fn = "pthread_new"
        BY <4>1, StartFacts
      <4>2. CASE Top.fn = "synctime_new" /\ Todo.arg = "current_process_time"
        BY <1>2, <1>5, <4>2 DEF FrameOK
      <4> QED BY <1>3, <4>1, <4>2
    <3>2. Top.fn \in Faulty \/ (Top.fn = "synctime_new" /\ Len(stack) > 1)
      BY <1>2, <3>1
    <3> QED BY <1>2, <3>2 DEF FrameOK
  <2>2. \A i \in 1..Len(stack) : FrameOK(i) <=> FrameOK(i)'
    BY <1>1, <1>5 DEF FrameOK
  <2> QED BY <1>1, <1>2, <1>5, <2>1, <2>2 DEF StartIInv, StartOutcome
<1> QED
  BY <1>1, <1>4, <1>5

LEMMA TestStep == ASSUME StartIInv, DoTest PROVE StartIInv'
<1>1. /\ Running /\ set' = set /\ entry' = entry /\ outcome' = outcome
      /\ Todo.op = "return if null" \/ (Todo.op = "call if null" /\ Todo.ptr \in set)
      /\ Todo.op = "return if null" /\ Todo.arg \notin set => stack' = GoTo(End)
  BY DEF DoTest
<1>2. /\ StuckFacts(Top.fn, Top.at, Todo) /\ PointerFacts(Top.fn, Top.at, Todo)
      /\ Top.fn \in LibFunction /\ Top.at \in Nat /\ NeverSet \cap set = {}
  BY <1>1, TopStep, OnTop DEF Running, StartIInv
<1>3. /\ Todo.op = "return if null" /\ stack' = GoTo(End)
      /\ Top.fn \in {"set_processes", "syncpgoon"}
  BY <1>1, <1>2 DEF PointerFacts
<1>4. Reached(Top.fn, End)
  <2>1. Len(Body[Top.fn]) \in Nat /\ Top.fn \notin Stops
    BY <1>2, <1>3, StartFacts, Lengths
  <2> QED BY <2>1 DEF Reached, End
<1>5. Top.fn # "syncprocess_new" /\ Top.fn # "synctime_new"
  BY <1>3
<1> QED
  BY <1>1, <1>2, <1>3, <1>4, <1>5, Advance

LEMMA EnterStep == ASSUME StartIInv, NEW f \in LibFunction, Enter(f) PROVE StartIInv'
<1>1. /\ entry' = f /\ outcome' = "running" /\ stack' = <<Started(f)>>
      /\ set' = set \cup {"current_process_time", "goon_suspense_time"}
  BY DEF Enter
<1>2. /\ Started(f) \in Frames /\ Started(f).fn = f /\ Started(f).at = 1
  BY DEF Started, Frames
<1>3. /\ stack' \in Seq(Frames) /\ Len(stack') = 1 /\ stack'[1] = Started(f)
      /\ stack' # <<>>
  BY <1>1, <1>2
<1>4. NeverSet \cap set' = {}
  BY <1>1, StartFacts DEF StartIInv
<1>5. FrameOK(1)'
  BY <1>1, <1>2, <1>3, FirstStep, RankBound DEF FrameOK
<1> QED
  BY <1>1, <1>2, <1>3, <1>4, <1>5 DEF StartIInv, StartOutcome

LEMMA CallStep == ASSUME StartIInv, DoCall PROVE StartIInv'
<1> DEFINE g == Todo.arg
<1>0. PICK n : n = Len(stack)
  OBVIOUS
<1>1. /\ Running /\ set' = set /\ entry' = entry
      /\ Todo.op = "call" \/ (Todo.op = "call if null" /\ Todo.ptr \notin set)
      /\ \/ /\ n < StackLimit /\ stack' = Append(GoTo(Top.at + 1), Started(g))
            /\ outcome' = outcome
         \/ n = StackLimit /\ outcome' = "overflow" /\ stack' = stack
  BY <1>0 DEF DoCall, Rest
<1>2. /\ StuckFacts(Top.fn, Top.at, Todo) /\ CallFacts(Top.fn, Top.at, Todo)
      /\ FrameOK(n) /\ Top = stack[n] /\ Top.at \in Nat /\ Top.fn \in LibFunction
      /\ n \in Nat \ {0} /\ stack # <<>> /\ outcome = "running"
  BY <1>0, <1>1, TopStep, OnTop DEF Running
<1>3. /\ IsCall(Todo) /\ g \in LibFunction /\ Top.fn # "synctime_new"
      /\ g \in Endless => Top.fn \in Endless
      /\ g \in Faulty \cup {"synctime_new"} => Top.fn \in Faulty
      /\ g = "synctime_new" => Top.fn = "syncprocess_new" /\ Top.at = 2
      /\ Top.fn \notin Endless => Rank(g) < Rank(Top.fn)
  BY <1>1, <1>2 DEF IsCall, CallFacts
<1>4. /\ Top.fn \in Endless => entry \in Endless
      /\ Top.fn \in Faulty => entry \in Faulty
      /\ entry \notin Endless => n + Rank(Top.fn) <= 3
      /\ Top.fn = "syncprocess_new" /\ Top.at >= 2 => "current_process_time" \notin set
  BY <1>0, <1>2 DEF FrameOK
<1>5. Rank(g) \in Nat /\ Rank(Top.fn) \in Nat
  BY <1>2, <1>3, RankBound
<1>6. CASE /\ n < StackLimit /\ stack' = Append(GoTo(Top.at + 1), Started(g))
           /\ outcome' = outcome
  <2>1. /\ GoTo(Top.at + 1) \in Seq(Frames) /\ Len(GoTo(Top.at + 1)) = n
        /\ \A i \in 1..n : i # n => GoTo(Top.at + 1)[i] = stack[i]
        /\ GoTo(Top.at + 1)[n].fn = Top.fn /\ GoTo(Top.at + 1)[n].at = Top.at + 1
    BY <1>0, <1>2, GoneTo
  <2>2. Started(g) \in Frames /\ Started(g).fn = g /\ Started(g).at = 1
    BY <1>3 DEF Started, Frames
  <2>3. /\ stack' \in Seq(Frames) /\ Len(stack') = n + 1 /\ stack'[n + 1] = Started(g)
        /\ \A i \in 1..n : stack'[i] = GoTo(Top.at + 1)[i]
    BY <1>6, <2>1, <2>2, AppendProperties
  <2>4. \A i \in 1..n : stack'[i].fn = stack[i].fn
    BY <1>2, <2>1, <2>3
  <2>5. ASSUME NEW i \in 1..n, i # n PROVE FrameOK(i)'
    <3>1. /\ FrameOK(i) /\ i < n /\ stack'[i] = stack[i] /\ i \in Nat
          /\ i + 1 \in 1..n /\ i < Len(stack')
      BY <1>0, <1>2, <2>1, <2>3, <2>5 DEF StartIInv
    <3>2. stack'[i + 1].fn = stack[i + 1].fn
      BY <2>4, <3>1
    <3>3. stack[i].fn # "synctime_new"
      BY <3>1, <1>0, <1>2 DEF FrameOK
    <3> QED BY <1>1, <3>1, <3>2, <3>3 DEF FrameOK
  <2>6. FrameOK(n)'
    <3>1. stack'[n].fn = Top.fn /\ stack'[n].at = Top.at + 1 /\ stack'[n + 1].fn = g
      BY <1>2, <2>1, <2>2, <2>3
    <3>2. \/ Reached(Top.fn, Top.at + 1)
          \/ Top.fn \in Stops /\ Top.at = StuckAt(Top.fn) /\ StaysIn(Top.fn, g)
      <4>1. CASE Top.fn \in Stops /\ Top.at = StuckAt(Top.fn)
        BY <1>1, <1>2, <4>1 DEF StuckFacts
      <4>2. CASE Top.fn \in Stops => Top.at # StuckAt(Top.fn)
        BY <1>1, <4>2, GoesOn
      <4> QED BY <4>1, <4>2
    <3>3. Top.fn = "syncprocess_new" => "current_process_time" \notin set
      <4> SUFFICES ASSUME Top.fn = "syncprocess_new" PROVE Top.at >= 2
        BY <1>4
      <4>1. Top.at # 1
        BY <1>1, <1>2 DEF StuckFacts
      <4>2. Top.at >= 1
        <5>1. Reached(Top.fn, Top.at)
          BY <1>1, OnTop DEF Running
        <5>2. Len(Body[Top.fn]) \in Nat
          BY <1>2, Lengths
        <5> QED BY <5>1, <5>2 DEF Reached
      <4> QED BY <4>1, <4>2, <1>2
    <3>4. n \in Nat /\ n < Len(stack')
      BY <1>2, <2>3
    <3>5. /\ stack'[n].fn \in Endless => entry' \in Endless
          /\ stack'[n].fn \in Faulty => entry' \in Faulty
          /\ stack'[n].fn # "synctime_new"
          /\ stack'[n].fn = "syncprocess_new" => "current_process_time" \notin set'
          /\ entry' \notin Endless => n + Rank(stack'[n].fn) <= 3
      BY <1>1, <1>3, <1>4, <3>1, <3>3
    <3>6. \/ Reached(stack'[n].fn, stack'[n].at)
          \/ /\ n < Len(stack') /\ stack'[n].fn \in Stops
             /\ stack'[n].at = StuckAt(stack'[n].fn) + 1
             /\ StaysIn(stack'[n].fn, stack'[n + 1].fn)
      BY <3>1, <3>2, <3>4
    <3> QED BY <3>5, <3>6 DEF FrameOK
  <2>7. FrameOK(n + 1)'
    <3>1. g = "synctime_new" => "current_process_time" \notin set
      BY <1>3, <1>4
    <3>2. Reached(g, 1)
      BY <1>3, FirstStep
    <3>3. entry \notin Endless => n + 1 + Rank(g) <= 3
      BY <1>2, <1>3, <1>4, <1>5
    <3>4. n + 1 > 1 /\ n + 1 = Len(stack') /\ stack'[n + 1].fn = g /\ stack'[n + 1].at = 1
      BY <1>2, <2>2, <2>3
    <3>5. /\ stack'[n + 1].fn \in Endless => entry' \in Endless
          /\ stack'[n + 1].fn \in Faulty \cup {"synctime_new"} => entry' \in Faulty
          /\ stack'[n + 1].fn = "synctime_new" => "current_process_time" \notin set'
          /\ entry' \notin Endless => n + 1 + Rank(stack'[n + 1].fn) <= 3
          /\ Reached(stack'[n + 1].fn, stack'[n + 1].at)
      BY <1>1, <1>3, <1>4, <3>1, <3>2, <3>3, <3>4
    <3>6. n + 1 # 1
      BY <1>2
    <3> QED BY <3>4, <3>5, <3>6 DEF FrameOK
  <2>8. \A i \in 1..Len(stack') : FrameOK(i)'
    <3>1. ASSUME NEW i \in 1..(n + 1) PROVE i \in 1..n \/ i = n + 1
      BY <1>2
    <3>2. \A i \in 1..(n + 1) : FrameOK(i)'
      BY ONLY <3>1, <2>5, <2>6, <2>7, Zenon
    <3> QED BY <2>3, <3>2
  <2>9. stack' # <<>> /\ stack'[1].fn = entry'
    <3>1. 1 \in 1..n /\ n + 1 # 0
      BY <1>2
    <3>2. stack[1].fn = entry
      BY <1>2 DEF StartIInv
    <3> QED BY <1>1, <2>3, <2>4, <3>1, <3>2
  <2> QED BY <1>1, <1>2, <1>6, <2>3, <2>8, <2>9 DEF StartIInv, StartOutcome
<1>7. CASE n = StackLimit /\ outcome' = "overflow" /\ stack' = stack
  <2>1. entry \in Endless
    BY <1>0, <1>2, <1>3, <1>4, <1>5, <1>7, StartAssumption
  <2>2. \A i \in 1..Len(stack) : FrameOK(i) <=> FrameOK(i)'
    BY <1>1, <1>7 DEF FrameOK
  <2> QED BY <1>1, <1>2, <1>7, <2>1, <2>2 DEF StartIInv, StartOutcome
<1> QED
  BY <1>1, <1>6, <1>7

LEMMA ReturnStep == ASSUME StartIInv, Return PROVE StartIInv'
<1>0. PICK n \in Nat \ {0} : n = Len(stack)
  BY OnTop DEF Return
<1>1. /\ outcome = "running" /\ stack # <<>> /\ Top.at = Len(Body[Top.fn]) + 1
      /\ stack' = SubSeq(stack, 1, n - 1) /\ set' = set /\ entry' = entry
      /\ outcome' = IF n = 1 THEN "returned" ELSE "running"
  BY <1>0 DEF Return, End
<1>2. /\ FrameOK(n) /\ Top = stack[n] /\ Top.at \in Nat /\ Top.fn \in LibFunction
      /\ n \in Nat \ {0} /\ Reached(Top.fn, Top.at) /\ stack \in Seq(Frames)
  BY <1>0, <1>1, OnTop DEF StartIInv
<1>3. Top.fn \notin Stops
  <2> SUFFICES ASSUME Top.fn \in Stops PROVE FALSE
    OBVIOUS
  <2>1. Top.at <= StuckAt(Top.fn) /\ StuckAt(Top.fn) \in 1..Len(Body[Top.fn])
    BY <1>2, StuckWithin DEF Reached
  <2> QED BY <1>1, <1>2, <2>1, Lengths
<1>4. n > 1 => Top.fn # "synctime_new"
  <2> SUFFICES ASSUME n > 1, Top.fn = "synctime_new" PROVE FALSE
    OBVIOUS
  <2>1. Top.at = 1
    BY <1>2 DEF FrameOK
  <2>2. Len(Body["synctime_new"]) = 1
    BY DEF Body, synctime_new
  <2> QED BY <1>1, <2>1, <2>2
<1>5. /\ stack' \in Seq(Frames) /\ Len(stack') = n - 1
      /\ \A i \in 1..(n - 1) : stack'[i] = stack[i]
  <2>1. PICK p \in Int : p = n - 1
    OBVIOUS
  <2>2. \A i \in 1..p : stack[i] \in Frames
    BY <1>0, <1>2, <2>1
  <2>3. /\ SubSeq(stack, 1, p) \in Seq(Frames)
        /\ Len(SubSeq(stack, 1, p)) = IF 1 <= p THEN p - 1 + 1 ELSE 0
        /\ \A i \in 1..(p - 1 + 1) : SubSeq(stack, 1, p)[i] = stack[1 + i - 1]
    BY <2>2, SubSeqProperties
  <2>4. SubSeq(stack, 1, n - 1) \in Seq(Frames) /\ Len(SubSeq(stack, 1, n - 1)) = n - 1
    BY <2>1, <2>3
  <2>5. ASSUME NEW i \in 1..(n - 1) PROVE SubSeq(stack, 1, n - 1)[i] = stack[i]
    BY <2>1, <2>3
  <2> QED BY <1>1, <2>4, <2>5
<1>6. ASSUME NEW i \in 1..(n - 1) PROVE FrameOK(i)'
  <2>1. /\ FrameOK(i) /\ i \in Nat /\ i < n /\ n > 1 /\ stack'[i] = stack[i]
    BY <1>0, <1>2, <1>5 DEF StartIInv
  <2>2. stack[i].fn # "synctime_new"
    BY <1>0, <2>1, <1>2 DEF FrameOK
  <2>3. CASE i = n - 1
    <3>1. ~StaysIn(stack[i].fn, stack[i + 1].fn)
      BY <1>2, <1>3, <1>4, <2>1, <2>3 DEF StaysIn
    <3>2. Reached(stack[i].fn, stack[i].at)
      BY <1>0, <2>1, <3>1 DEF FrameOK
    <3> QED BY <1>1, <2>1, <2>2, <3>2 DEF FrameOK
  <2>4. CASE i # n - 1
    <3>1. i < Len(stack') /\ stack'[i + 1] = stack[i + 1]
      BY <1>2, <1>5, <2>1, <2>4
    <3> QED BY <1>1, <2>1, <2>2, <3>1 DEF FrameOK
  <2> QED BY <2>3, <2>4
<1>7. \A i \in 1..Len(stack') : FrameOK(i)'
  BY <1>5, <1>6
<1>8. CASE n = 1
  <2>1. stack' = <<>> /\ outcome' = "returned"
    BY <1>1, <1>5, <1>8
  <2>2. entry \notin Stops
    BY <1>0, <1>1, <1>2, <1>3, <1>8 DEF StartIInv
  <2> QED BY <1>1, <1>5, <1>7, <2>1, <2>2 DEF StartIInv, StartOutcome, Stops
<1>9. CASE n # 1
  <2>1. stack' # <<>> /\ outcome' = "running" /\ stack'[1] = stack[1]
    <3>1. n - 1 # 0 /\ 1 \in 1..(n - 1)
      BY <1>2, <1>9
    <3> QED BY <1>1, <1>5, <1>9, <3>1
  <2> QED BY <1>1, <1>5, <1>7, <2>1 DEF StartIInv, StartOutcome
<1> QED
  BY <1>8, <1>9

LEMMA StartSteps == StartIInv /\ [StartNext]_startVars => StartIInv'
<1>1. ASSUME StartIInv, UNCHANGED startVars PROVE StartIInv'
  <2>1. \A i \in 1..Len(stack) : FrameOK(i) <=> FrameOK(i)'
    BY <1>1 DEF startVars, FrameOK
  <2> QED BY <1>1, <2>1 DEF startVars, StartIInv, StartOutcome
<1> QED
  BY <1>1, EnterStep, ReturnStep, CallStep, AssignStep, DerefStep, TestStep
     DEF StartNext, LibFunction

\* For every size of the stack that has room for three frames: what becomes of
\* a call of ptime.c, systime.c, psync.c or threading.c.  The functions that
\* need ticks never return, new threads and synchronised processes come to a
\* NULL pointer, and nothing else fails (seconds_to_ticks, pthread_new_,
\* syncprocess_new, syncprocesshandler_sync_processes).
THEOREM StartsEnd == StartInit /\ [][StartNext]_startVars => []StartOutcome
<1>1. StartIInv => StartOutcome
  BY DEF StartIInv
<1> QED
  BY <1>1, StartStarts, StartSteps, PTL
===============================================================================
