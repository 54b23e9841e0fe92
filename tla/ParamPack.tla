------------------------------ MODULE ParamPack -------------------------------
(***************************************************************************)
(* parampack.c: an array of parameters and one of arguments, all NULL at   *)
(* first.  param_pack_find gives each parameter to strcmp, NULL or not.    *)
(***************************************************************************)
EXTENDS Integers, Sequences, FiniteSets, Pointers

CONSTANTS Name, Text,               \* parameters' names and values
          PARAM_PACK_MAX_SIZE,      \* the largest size (47 in the code)
          AskedSizes                \* the sizes packs are asked for with

ASSUME PackAssumption ==
    NULL \notin Name /\ PARAM_PACK_MAX_SIZE \in Nat /\ AskedSizes \subseteq Nat

VARIABLES parameters, arguments,    \* the arrays; <<>> before the pack is made
          answer                    \* what the last call returned, or "crash"

packVars == <<parameters, arguments, answer>>
Pos == DOMAIN parameters

PackInit == parameters = <<>> /\ arguments = <<>> /\ answer = "unmade"

param_pack_new(psize) ==
    LET n == IF psize > PARAM_PACK_MAX_SIZE THEN PARAM_PACK_MAX_SIZE ELSE psize
    IN  /\ answer = "unmade"
        /\ parameters' = [p \in 1..n |-> NULL] /\ arguments' = [p \in 1..n |-> NULL]
        /\ answer' = "made"

\* The first position that satisfies P, or the size of the pack.
First(P(_)) ==
    IF \E p \in Pos : P(p) THEN CHOOSE p \in Pos : P(p) /\ \A q \in 1..(p - 1) : ~P(q)
    ELSE Len(parameters) + 1

Empty(p) == parameters[p] = NULL
param_pack_find_first_empty == First(Empty)
param_pack_find(name) == LET same(p) == parameters[p] = name IN First(same)

Crashes_TestsNull(name) == FALSE

\* strcmp(NULL, ...) comes before the name is found.
Crashes(name) == param_pack_find_first_empty < param_pack_find(name)

Ready == answer \notin {"unmade", "crash"}
CrashOn(name) == Crashes(name) /\ answer' = "crash" /\ UNCHANGED <<parameters, arguments>>

param_pack_set(name, text) ==
    LET found == param_pack_find(name)
        pos == IF found \in Pos THEN found ELSE param_pack_find_first_empty
    IN  /\ Ready
        /\ \/ CrashOn(name)
           \/ /\ ~Crashes(name)
              /\ parameters' = [p \in Pos |-> IF p = pos THEN name ELSE parameters[p]]
              /\ arguments' = [p \in Pos |-> IF p = pos THEN text ELSE arguments[p]]
              /\ answer' = IF pos \in Pos THEN "true" ELSE "false"

\* param_pack_get_value; past the end the answer is "".
param_pack_get_value(name) ==
    /\ Ready
    /\ \/ CrashOn(name)
       \/ /\ ~Crashes(name)
          /\ answer' = IF param_pack_find(name) \in Pos THEN arguments[param_pack_find(name)] ELSE ""
          /\ UNCHANGED <<parameters, arguments>>

PackNext ==
    \/ \E n \in AskedSizes : param_pack_new(n)
    \/ \E name \in Name : param_pack_get_value(name)
                          \/ \E text \in Text : param_pack_set(name, text)

-------------------------------------------------------------------------------
(* Correctness properties.                                                 *)

\* No sequence of calls stores a parameter: a pack that has room crashes at the
\* first set, one that has none refuses it (param_pack_set, param_pack_find).
PackStaysEmpty ==
    /\ \A p \in Pos : parameters[p] = NULL
    /\ answer # "true"
===============================================================================
