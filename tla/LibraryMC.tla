------------------------------- MODULE LibraryMC ------------------------------
(***************************************************************************)
(* The smaller parts of the library, one instance of each for TLC.  They   *)
(* share no state, so a behaviour is one of one part, `active`, while the  *)
(* others stay in their initial states, which satisfy their properties:    *)
(* the invariants and action properties checked are those of the modules.  *)
(***************************************************************************)
EXTENDS PoolLoops, OsPriority, SignalQueue, MainProgram, DataSemaphore,
        Startup, Truth, SyncedStream, ParamPack

\* Truths that are true, false, cannot be evaluated, or read what is no double.
MCTruths == {[l |-> 1, op |-> "AND", r |-> 2], [l |-> 0, op |-> "NEGATION", r |-> NULL],
             [l |-> 0, op |-> "IMPLIES", r |-> 0], [l |-> 0, op |-> "IMPLIES", r |-> 1],
             [l |-> 1, op |-> "EQUIV", r |-> Other], [l |-> NULL, op |-> "OR", r |-> 1]}

VARIABLE active

vars == <<active, loopVars, osVars, listVars, mainVars, dataVars, startVars,
          truthVars, streamVars, packVars>>

Init ==
    /\ active \in {"loops", "priority", "affinity", "list", "main", "data",
                   "startup", "truth", "stream", "pack"}
    /\ LoopInit /\ OsInit /\ ListInit /\ MainInit
    /\ DataInit /\ StartInit /\ TruthInit
    /\ StreamInit /\ PackInit

Only(part) == active = part /\ UNCHANGED active
LoopStep ==
    /\ Only("loops") /\ LoopNext
    /\ UNCHANGED <<osVars, listVars, mainVars, dataVars, startVars, truthVars, streamVars, packVars>>
OsStep ==
    /\ \/ Only("priority") /\ PriorityNext
       \/ Only("affinity") /\ AffinityNext
    /\ UNCHANGED <<loopVars, listVars, mainVars, dataVars, startVars, truthVars, streamVars, packVars>>
ListStep ==
    /\ Only("list") /\ ListNext
    /\ UNCHANGED <<loopVars, osVars, mainVars, dataVars, startVars, truthVars, streamVars, packVars>>
Frame == UNCHANGED <<loopVars, osVars, listVars, dataVars, startVars, truthVars, streamVars, packVars>>
ProgramStep(p) == Only("main") /\ MainStep(p) /\ Frame
ProgramKill(p) == Only("main") /\ Kill(p) /\ Frame
DataStep ==
    /\ Only("data") /\ DataNext
    /\ UNCHANGED <<loopVars, osVars, listVars, mainVars, startVars, truthVars, streamVars, packVars>>
StartStep ==
    /\ Only("startup") /\ StartNext
    /\ UNCHANGED <<loopVars, osVars, listVars, mainVars, dataVars, truthVars, streamVars, packVars>>
TruthStep ==
    /\ Only("truth") /\ TruthNext
    /\ UNCHANGED <<loopVars, osVars, listVars, mainVars, dataVars, startVars, streamVars, packVars>>
StreamStep ==
    /\ Only("stream") /\ StreamNext
    /\ UNCHANGED <<loopVars, osVars, listVars, mainVars, dataVars, startVars, truthVars, packVars>>
PackStep ==
    /\ Only("pack") /\ PackNext
    /\ UNCHANGED <<loopVars, osVars, listVars, mainVars, dataVars, startVars, truthVars, streamVars>>

Next ==
    \/ LoopStep \/ OsStep \/ ListStep
    \/ \E p \in Process : ProgramStep(p) \/ ProgramKill(p)
    \/ DataStep \/ StartStep \/ TruthStep \/ StreamStep \/ PackStep

\* A process of main.c that has a statement to execute executes it.
Spec == Init /\ [][Next]_vars /\ \A p \in Process : WF_vars(ProgramStep(p))

-------------------------------------------------------------------------------
(* The other properties are stated and explained in the parts' modules.    *)

\* Every process of the example program ends, killed or not (main.c).
ProgramEnds == active = "main" => MainEnds
===============================================================================
