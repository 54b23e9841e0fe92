-------------------------------- MODULE Truth ---------------------------------
(***************************************************************************)
(* truth.c: struct TruthEquivation, an array of truths with an operator    *)
(* between each and the next, made, filled and evaluated truth by truth.   *)
(*                                                                         *)
(* A truth relates two operands, each NULL or a pointer.  TruthValue is a  *)
(* union, so its member dbl is not NULL when any member was set: trutheval *)
(* evaluates every truth as one of doubles.  An operand is the number its  *)
(* pointer leads to, or Other when that is no double: what is read there   *)
(* is then any number.                                                     *)
(***************************************************************************)
EXTENDS Integers, Pointers

CONSTANTS Num,          \* the doubles that are read, 0 among them
          Other,        \* an operand that points to something else
          Truths,       \* the truths that clients push
          MaxSize       \* bound: the largest size of an equivation

Operator == {"AND", "OR", "IMPLIES", "EQUIV", "UNEQ", "NEGATION"}

ASSUME TruthAssumption ==
    /\ NULL \notin Truths /\ MaxSize \in Nat
    /\ Truths \subseteq [l : Num \cup {NULL, Other}, op : Operator, r : Num \cup {NULL, Other}]

VARIABLES size, size_used,  \* te->size, 0 before te is made, and te->size_used
          equivs,           \* te->equivs, from place 1: NULL or a truth
          ops,              \* whether te->ops holds an address there
          ti,               \* the truths that this evaluation has gone through
          current_result,
          evaluation        \* "none", "loop", "returned" or "crashed"

te == <<size, size_used, equivs, ops>>
truthVars == <<te, ti, current_result, evaluation>>

TruthInit ==
    /\ size = 0 /\ size_used = 0 /\ equivs = <<>> /\ ops = <<>>
    /\ ti = 0 /\ current_result = FALSE /\ evaluation = "none"

-------------------------------------------------------------------------------
(* The evaluation of one truth.                                            *)

\* IMPLIES gives its recursive call the Boolean l || r as a pointer: 1 is none,
\* and with 0 the answer is false.
Faults(l, op, r) == op = "IMPLIES" /\ NULL \notin {l, r} /\ (l # 0 \/ r # 0)

trutheval_double(l, op, r) ==
    \/ op = "NEGATION" /\ r = NULL /\ l = 0
    \/ /\ NULL \notin {l, r}
       /\ \/ op = "AND" /\ l # 0 /\ r # 0
          \/ op = "OR" /\ (l # 0 \/ r # 0)
          \/ op = "EQUIV" /\ l = r
          \/ op = "UNEQ" /\ l # r

\* A truth without a left operand is false.
trutheval(l, op, r) == l # NULL /\ trutheval_double(l, op, r)

Read(operand) == IF operand = Other THEN Num ELSE {operand}

\* What trutheval_truth may do with the truth at a place: crash, or answer.
MayCrash(t) ==
    IF t = NULL THEN TRUE ELSE \E l \in Read(t.l), r \in Read(t.r) : Faults(l, t.op, r)
Answers(t) ==
    {trutheval(o[1], t.op, o[2]) :
        o \in {p \in Read(t.l) \X Read(t.r) : ~Faults(p[1], t.op, p[2])}}

\* Both operands are there, r's address is true, and any other operator is false.
trutheval_bool(l, op, r) ==
    \/ op = "AND" /\ l /\ r
    \/ op = "OR" /\ (l \/ r)
    \/ op = "IMPLIES"
    \/ op = "EQUIV" /\ l = r
    \/ op = "UNEQ" /\ l # r

-------------------------------------------------------------------------------
(* struct TruthEquivation                                                  *)

TruthIdle == size > 0 /\ evaluation \in {"none", "returned"}

truth_equivation_new(n) ==
    /\ size = 0
    /\ size' = n
    /\ equivs' = [fi \in 1..n |-> NULL]
    /\ ops' = [fi \in 1..n |-> FALSE]
    /\ UNCHANGED <<size_used, ti, current_result, evaluation>>

\* The truth goes to the first free place.  A NULL truth leaves that place free,
\* and is counted.
truth_equivation_push(truth) ==
    /\ TruthIdle
    /\ \/ /\ size_used < size
          /\ \E fi \in 1..size :
                /\ equivs[fi] = NULL
                /\ \A i \in 1..(fi - 1) : equivs[i] # NULL
                /\ equivs' = [equivs EXCEPT ![fi] = truth]
                /\ ops' = [ops EXCEPT ![fi] = TRUE]
          /\ size_used' = size_used + 1
       \/ /\ size_used >= size \/ \A fi \in 1..size : equivs[fi] # NULL
          /\ UNCHANGED <<size_used, equivs, ops>>
    /\ evaluation' = "none"
    /\ UNCHANGED <<size, ti, current_result>>

Crash == evaluation' = "crashed" /\ UNCHANGED <<ti, current_result>>

trutheval_equivation ==
    /\ TruthIdle
    /\ \/ /\ equivs[1] = NULL
          /\ current_result' = FALSE /\ ti' = 0 /\ evaluation' = "returned"
       \/ equivs[1] # NULL /\ MayCrash(equivs[1]) /\ Crash
       \/ /\ equivs[1] # NULL
          /\ current_result' \in Answers(equivs[1])
          /\ ti' = 1 /\ evaluation' = "loop"
    /\ UNCHANGED te

\* The loop's condition.
More_Used == ti < size_used

More == ti < size

\* One turn of the loop.  The operator is read through the address of a parameter
\* of a call that is over: it may be any, or no operator at all.
NextTruth ==
    /\ evaluation = "loop" /\ More
    /\ \/ (MayCrash(equivs[ti + 1]) \/ ~ops[ti]) /\ Crash
       \/ /\ equivs[ti + 1] # NULL /\ ops[ti]
          /\ \E op \in Operator \cup {"garbage"} : \E next_result \in Answers(equivs[ti + 1]) :
                current_result' = trutheval_bool(current_result, op, next_result)
          /\ ti' = IF ops[ti + 1] THEN ti + 1 ELSE ti
          /\ evaluation' = IF ops[ti + 1] THEN "loop" ELSE "returned"
    /\ UNCHANGED te

ReturnResult ==
    /\ evaluation = "loop" /\ ~More
    /\ evaluation' = "returned"
    /\ UNCHANGED <<te, ti, current_result>>

TruthNext ==
    \/ \E n \in 1..MaxSize : truth_equivation_new(n)
    \/ \E truth \in Truths \cup {NULL} : truth_equivation_push(truth)
    \/ trutheval_equivation \/ NextTruth \/ ReturnResult

-------------------------------------------------------------------------------
(* Correctness properties.                                                 *)

\* In whatever order truths, NULL ones among them, were pushed and evaluated, an
\* equivation with a truth in it that gives an answer has gone through all its
\* places and found a truth in each: the `break` at the first place without an
\* operator (line 242), which stands after the use of that place, never ends the
\* loop, so one that is not full gives no answer.  A crash is due to such a place
\* or to an implication, never to a missing operator (truth_equivation_push and
\* trutheval_equivation).
EquivationWhole ==
    /\ evaluation = "returned" /\ equivs[1] # NULL =>
           ti = size /\ \A i \in 1..size : equivs[i] # NULL
    /\ evaluation = "crashed" =>
           \E i \in 1..size : equivs[i] = NULL \/ equivs[i].op = "IMPLIES"
===============================================================================
