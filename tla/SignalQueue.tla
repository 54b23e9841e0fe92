----------------------------- MODULE SignalQueue ------------------------------
(***************************************************************************)
(* psignals.c: the doubly linked lists PID_Array and SignalQueue.  An      *)
(* addition walks from the first element to the last and links the new one *)
(* there; nothing protects the list, so every access is a step.  The lists *)
(* differ in the order of the two stores, and in who makes the first       *)
(* element: signal_add_receiver does it when it finds NULL.                *)
(***************************************************************************)
EXTENDS Pointers

CONSTANTS Adder,        \* the threads that add to the list
          Elem          \* the elements that malloc returns

ASSUME ListAssumption == NULL \notin Elem

VARIABLES
    kind,       \* which list: "none" chosen yet, "pids" or "signals"
    head,       \* processed_by_ids, or the first element of the queue
    succ,       \* succ[e]: field next of element e
    prev,       \* prev[e]: field prev
    first,      \* first[e]: field first
    used,       \* the elements allocated so far
    adder,      \* adder[t]: where thread t is
    new,        \* new[t]: the element t adds
    last,       \* last[t]: t's local variable last
    clean       \* the elements whose addition overlapped no other one

listVars == <<kind, head, succ, prev, first, used, adder, new, last, clean>>

ListInit ==
    /\ kind = "none" /\ head = NULL
    /\ succ = [e \in Elem |-> NULL] /\ prev = [e \in Elem |-> NULL]
    /\ first = [e \in Elem |-> NULL]
    /\ used = {} /\ clean = {}
    /\ adder = [t \in Adder |-> "idle"]
    /\ new = [t \in Adder |-> NULL] /\ last = [t \in Adder |-> NULL]

Fresh(e) == e \in Elem \ used

\* The threads in the middle of an addition, and the elements they add.
Busy == {t \in Adder : adder[t] # "idle"}
Adding == {new[t] : t \in Busy}

\* signal_new leaves processed_by_ids NULL; a queue is made with one element.
NewPids ==
    /\ kind = "none" /\ kind' = "pids"
    /\ UNCHANGED <<head, succ, prev, first, used, adder, new, last, clean>>

NewQueue(e) ==
    /\ kind = "none" /\ kind' = "signals"
    /\ Fresh(e)
    /\ head' = e /\ first' = [first EXCEPT ![e] = e]
    /\ used' = {e} /\ clean' = {e}
    /\ UNCHANGED <<succ, prev, adder, new, last>>

\* signal_add_receiver tests the head, signalqueue_add is given it; then
\* pid_array_new or signalqueue_new fills in the new element.
Add(t, e) ==
    /\ kind # "none" /\ adder[t] = "idle" /\ Fresh(e)
    /\ used' = used \cup {e}
    /\ first' = [first EXCEPT ![e] = IF head = NULL THEN e ELSE head]
    /\ new' = [new EXCEPT ![t] = e]
    /\ last' = [last EXCEPT ![t] = head]
    /\ adder' = [adder EXCEPT ![t] = IF head = NULL THEN "head" ELSE "walk"]
    /\ clean' = IF Busy = {} THEN clean \cup {e} ELSE clean \ Adding
    /\ UNCHANGED <<kind, head, succ, prev>>

StoreHead(t) ==
    /\ adder[t] = "head"
    /\ head' = new[t]
    /\ adder' = [adder EXCEPT ![t] = "idle"]
    /\ UNCHANGED <<kind, succ, prev, first, used, new, last, clean>>

\* while ( last->next != NULL ) last = last->next
Walk_FirstOnly(t) ==
    /\ adder[t] = "walk"
    /\ adder' = [adder EXCEPT ![t] = "link"]
    /\ UNCHANGED <<kind, head, succ, prev, first, used, new, last, clean>>

Walk(t) ==
    /\ adder[t] = "walk"
    /\ \/ /\ succ[last[t]] # NULL
          /\ last' = [last EXCEPT ![t] = succ[last[t]]] /\ UNCHANGED adder
       \/ /\ succ[last[t]] = NULL
          /\ adder' = [adder EXCEPT ![t] = "link"] /\ UNCHANGED last
    /\ UNCHANGED <<kind, head, succ, prev, first, used, new, clean>>

StoreNext(t) == succ' = [succ EXCEPT ![last[t]] = new[t]] /\ UNCHANGED prev
StorePrev(t) == prev' = [prev EXCEPT ![new[t]] = last[t]] /\ UNCHANGED succ

\* pid_array_add stores next before prev, signalqueue_add prev before next.
Link(t) ==
    /\ \/ adder[t] = "link" /\ adder' = [adder EXCEPT ![t] = "linked"]
          /\ IF kind = "pids" THEN StoreNext(t) ELSE StorePrev(t)
       \/ adder[t] = "linked" /\ adder' = [adder EXCEPT ![t] = "idle"]
          /\ IF kind = "pids" THEN StorePrev(t) ELSE StoreNext(t)
    /\ UNCHANGED <<kind, head, first, used, new, last, clean>>

ListNext ==
    \/ NewPids \/ \E e \in Elem : NewQueue(e)
    \/ \E t \in Adder : \/ \E e \in Elem : Add(t, e)
                        \/ StoreHead(t) \/ Walk(t) \/ Link(t)

-------------------------------------------------------------------------------
(* Correctness properties.                                                 *)

\* The elements a walk from e along the pointers f visits: the least set that
\* has e and, with an element, the one after it.
Closed(f, S) == \A x \in S : f[x] \in S \cup {NULL}
Walked(f, e) == {x \in Elem : \A S \in SUBSET Elem :
                                  e \in S \cup {NULL} /\ Closed(f, S) => x \in S}
InList == Walked(succ, head)

\* An element that was added while no other thread was adding stays in the
\* list, behind its predecessor and with the right first element, whatever
\* the unsynchronised additions before and after it lose; and no element of
\* the list has a wrong prev once its addition is over (both list kinds).
AddedStaysLinked ==
    /\ \A e \in clean \ Adding :
          /\ e \in InList /\ (first[e] = e <=> e = head)
          /\ e # head => succ[prev[e]] = e
    /\ \A e \in InList : succ[e] \notin Adding \cup {NULL} => prev[succ[e]] = e
===============================================================================
