-------------------------- MODULE SignalQueue_proofs ---------------------------
(***************************************************************************)
(* The theorem about the lists of psignals.c, for every number of threads  *)
(* and of elements.  An element added without overlap is cut off only by a *)
(* store into a `next` before it; the invariant says that no thread is     *)
(* about to make one (Untouched), because whoever reached the end of the   *)
(* list reached it behind the element, and what is linked there afterwards *)
(* was not yet in the list (Unlinked).                                     *)
(***************************************************************************)
EXTENDS SignalQueue, TLAPS

Pointer == Elem \cup {NULL}

ListTypeOK ==
    /\ kind \in {"none", "pids", "signals"} /\ head \in Pointer
    /\ succ \in [Elem -> Pointer] /\ prev \in [Elem -> Pointer]
    /\ first \in [Elem -> Pointer]
    /\ used \in SUBSET Elem /\ clean \in SUBSET used
    /\ adder \in [Adder -> {"idle", "head", "walk", "link", "linked"}]
    /\ new \in [Adder -> Pointer] /\ last \in [Adder -> Pointer]

\* Before a list is made there is nothing.
None == kind = "none" => used = {} /\ Busy = {}

\* The threads that have still to make their element reachable, and those
\* that have found its predecessor: their next store is one into succ.
Publishing(t) == adder[t] \in {"head", "walk", "link"} \/ (adder[t] = "linked" /\ kind = "signals")
Storing(t) == adder[t] = "link" \/ (adder[t] = "linked" /\ kind = "signals")

\* What is not published is pointed to by nobody and points to nothing.
Unlinked(e) == e \in Elem \ used \/ \E t \in Adder : Publishing(t) /\ new[t] = e
Unreached ==
    \A e \in Elem : Unlinked(e) =>
        /\ succ[e] = NULL /\ head # e
        /\ \A x \in Elem : succ[x] # e
        /\ \A t \in Adder : last[t] # e

Owned ==
    /\ \A t \in Busy : new[t] \in used /\ new[t] # head
    /\ \A t, u \in Busy : new[t] = new[u] => t = u
    /\ \A t \in Busy : IF adder[t] = "head" THEN first[new[t]] = new[t]
                       ELSE last[t] \in Elem /\ head # NULL /\ first[new[t]] # new[t]
    /\ \A t \in Busy : adder[t] = "linked" /\ kind = "signals" => prev[new[t]] = last[t]

\* An element that is still clean is added by the only busy thread, which
\* walks the list itself.
Alone ==
    \A t \in Busy : new[t] \in clean =>
        /\ Busy = {t}
        /\ adder[t] # "head" => last[t] \in InList
        /\ Storing(t) => succ[last[t]] = NULL
        /\ adder[t] = "linked" /\ kind = "pids" => succ[last[t]] = new[t]

\* While the first element may still be replaced, none is kept.
NoneYet == (head = NULL \/ \E t \in Adder : adder[t] = "head") => clean \subseteq Adding

Backwards ==
    \A x \in Elem : succ[x] # NULL =>
        IF succ[x] \in Adding
        THEN \E t \in Busy : adder[t] = "linked" /\ new[t] = succ[x] /\ last[t] = x
        ELSE prev[succ[x]] = x

\* The elements that stay, and why the next stores leave them.
Kept ==
    \A e \in clean \ Adding :
        /\ e \in InList /\ (first[e] = e <=> e = head)
        /\ e # head => prev[e] \in Elem /\ succ[prev[e]] = e

Untouched ==
    \A e \in clean \ Adding, t \in Busy : Storing(t) => e \notin Walked(succ, succ[last[t]])

IInv == /\ ListTypeOK /\ None /\ Unreached /\ Owned /\ Alone /\ NoneYet
        /\ Backwards /\ Kept /\ Untouched

-------------------------------------------------------------------------------
(* Walks.                                                                  *)

LEMMA WalkedLeast ==
    ASSUME NEW f, NEW e, NEW S \in SUBSET Elem, e \in S \cup {NULL}, Closed(f, S)
    PROVE  Walked(f, e) \subseteq S
BY DEF Walked

LEMMA WalkedCloses ==
    ASSUME NEW f \in [Elem -> Pointer], NEW e \in Pointer
    PROVE  /\ Walked(f, e) \in SUBSET Elem /\ e \in Walked(f, e) \cup {NULL}
           /\ Closed(f, Walked(f, e))
<1>1. Walked(f, e) \in SUBSET Elem /\ e \in Walked(f, e) \cup {NULL}
  BY DEF Walked, Pointer
<1>2. ASSUME NEW x \in Walked(f, e), f[x] # NULL PROVE f[x] \in Walked(f, e)
  <2>1. x \in Elem /\ f[x] \in Elem
    BY <1>1, <1>2 DEF Pointer
  <2>2. ASSUME NEW S \in SUBSET Elem, e \in S \cup {NULL}, Closed(f, S) PROVE f[x] \in S
    <3>1. x \in S
      BY <2>2, WalkedLeast
    <3> QED
      BY <1>2, <2>2, <3>1 DEF Closed
  <2> QED
    BY <2>1, <2>2 DEF Walked
<1> QED
  BY <1>1, <1>2 DEF Closed

LEMMA WalkedEmpty == ASSUME NEW f PROVE Walked(f, NULL) = {}
<1>1. {} \in SUBSET Elem /\ NULL \in {} \cup {NULL} /\ Closed(f, {})
  BY DEF Closed
<1>2. Walked(f, NULL) \subseteq {}
  BY <1>1, WalkedLeast
<1> QED
  BY <1>2

\* Storing n behind l only adds n to a walk, and takes away only what comes
\* behind l.
LEMMA StoreWalks ==
    ASSUME NEW f \in [Elem -> Pointer], NEW l \in Elem, NEW n \in Elem, l # n, f[n] = NULL,
           NEW g, g = [f EXCEPT ![l] = n], NEW h \in Pointer
    PROVE  /\ g \in [Elem -> Pointer]
           /\ Walked(g, h) \subseteq Walked(f, h) \cup {n}
           /\ Walked(f, h) \subseteq Walked(g, h) \cup Walked(f, f[l])
           /\ Walked(g, n) \subseteq {n}
<1>1. /\ g \in [Elem -> Pointer] /\ g[l] = n /\ g[n] = NULL
      /\ \A x \in Elem : x # l => g[x] = f[x]
  BY DEF Pointer
<1>2. Walked(g, h) \subseteq Walked(f, h) \cup {n}
  <2> DEFINE S == Walked(f, h) \cup {n}
  <2>1. Walked(f, h) \in SUBSET Elem /\ h \in Walked(f, h) \cup {NULL} /\ Closed(f, Walked(f, h))
    BY WalkedCloses
  <2>2. S \in SUBSET Elem /\ h \in S \cup {NULL}
    BY <2>1
  <2>3. Closed(g, S)
    BY <1>1, <2>1 DEF Closed
  <2> HIDE DEF S
  <2>4. Walked(g, h) \subseteq S
    BY <2>2, <2>3, WalkedLeast
  <2> QED
    BY <2>4 DEF S
<1>3. Walked(f, h) \subseteq Walked(g, h) \cup Walked(f, f[l])
  <2> DEFINE S == Walked(g, h) \cup Walked(f, f[l])
  <2>1. Walked(g, h) \in SUBSET Elem /\ h \in Walked(g, h) \cup {NULL} /\ Closed(g, Walked(g, h))
    BY <1>1, WalkedCloses
  <2>2. /\ Walked(f, f[l]) \in SUBSET Elem /\ f[l] \in Walked(f, f[l]) \cup {NULL}
        /\ Closed(f, Walked(f, f[l]))
    BY WalkedCloses
  <2>3. S \in SUBSET Elem /\ h \in S \cup {NULL}
    BY <2>1, <2>2
  <2>4. Closed(f, S)
    BY <1>1, <2>1, <2>2 DEF Closed
  <2> HIDE DEF S
  <2>5. Walked(f, h) \subseteq S
    BY <2>3, <2>4, WalkedLeast
  <2> QED
    BY <2>5 DEF S
<1>4. Walked(g, n) \subseteq {n}
  <2>1. {n} \in SUBSET Elem /\ Closed(g, {n})
    BY <1>1 DEF Closed
  <2> QED
    BY <2>1, WalkedLeast
<1> QED
  BY <1>1, <1>2, <1>3, <1>4

-------------------------------------------------------------------------------
(* The steps.                                                              *)

LEMMA InitIInv == ListInit => IInv
<1> SUFFICES ASSUME ListInit PROVE IInv
  OBVIOUS
<1>1. Busy = {} /\ Adding = {}
  BY DEF ListInit, Busy, Adding
<1>2. ListTypeOK
  BY DEF ListInit, ListTypeOK, Pointer
<1>3. None /\ Owned /\ Alone /\ NoneYet /\ Kept /\ Untouched
  BY <1>1 DEF ListInit, None, Owned, Alone, NoneYet, Kept, Untouched
<1>4. Unreached /\ Backwards
  BY ListAssumption DEF ListInit, Unreached, Backwards
<1> QED
  BY <1>2, <1>3, <1>4 DEF IInv

LEMMA NewStep == ASSUME IInv, NewPids \/ \E e \in Elem : NewQueue(e) PROVE IInv'
<1>1. /\ kind = "none" /\ used = {} /\ Busy = {} /\ clean = {}
      /\ \A t \in Adder : adder[t] = "idle"
  BY DEF IInv, None, Busy, NewPids, NewQueue, ListTypeOK
<1>2. UNCHANGED <<succ, prev, adder, new, last>>
  BY DEF NewPids, NewQueue
<1>3. Busy' = {} /\ Adding' = {} /\ \A t \in Adder : ~Publishing(t)' /\ ~Storing(t)'
  BY <1>1, <1>2 DEF Busy, Adding, Publishing, Storing
<1>4. \A e \in Elem : /\ succ[e] = NULL /\ head # e /\ \A t \in Adder : last[t] # e
                      /\ \A x \in Elem : succ[x] # e
  BY <1>1 DEF IInv, Unreached, Unlinked
<1>5. Owned' /\ Alone' /\ Untouched'
  BY <1>1, <1>2, <1>3 DEF Owned, Alone, Untouched
<1>6. Backwards'
  BY <1>2, <1>4 DEF Backwards
<1>7. CASE NewPids
  <2>1. ListTypeOK' /\ None'
    BY <1>7 DEF NewPids, IInv, ListTypeOK, None
  <2>2. Unreached'
    BY <1>2, <1>4, <1>7 DEF NewPids, Unreached
  <2>3. NoneYet' /\ Kept'
    BY <1>1, <1>3, <1>7 DEF NewPids, NoneYet, Kept
  <2> QED
    BY <1>5, <1>6, <2>1, <2>2, <2>3 DEF IInv
<1>8. CASE \E e \in Elem : NewQueue(e)
  <2>1. PICK e \in Elem : NewQueue(e)
    BY <1>8
  <2>2. /\ head' = e /\ first' = [first EXCEPT ![e] = e] /\ used' = {e} /\ clean' = {e}
        /\ kind' = "signals"
    BY <2>1 DEF NewQueue
  <2>3. ListTypeOK' /\ None'
    BY <1>2, <2>2 DEF IInv, ListTypeOK, None, Pointer
  <2>4. Unreached'
    BY <1>2, <1>3, <1>4, <2>2 DEF Unreached, Unlinked
  <2>5. NoneYet'
    BY <1>1, <1>2, <2>2, ListAssumption DEF NoneYet
  <2>6. e \in InList'
    BY <2>2, <2>3, WalkedCloses, ListAssumption DEF InList, ListTypeOK
  <2>7. Kept'
    BY <2>2, <2>6 DEF Kept, IInv, ListTypeOK
  <2> QED
    BY <1>5, <1>6, <2>3, <2>4, <2>5, <2>7 DEF IInv
<1> QED
  BY <1>7, <1>8

LEMMA AddStep == ASSUME IInv, NEW t \in Adder, NEW e \in Elem, Add(t, e) PROVE IInv'
<1>1. /\ kind # "none" /\ adder[t] = "idle" /\ e \notin used
      /\ used' = used \cup {e}
      /\ first' = [first EXCEPT ![e] = IF head = NULL THEN e ELSE head]
      /\ new' = [new EXCEPT ![t] = e]
      /\ last' = [last EXCEPT ![t] = head]
      /\ adder' = [adder EXCEPT ![t] = IF head = NULL THEN "head" ELSE "walk"]
      /\ clean' = IF Busy = {} THEN clean \cup {e} ELSE clean \ Adding
      /\ kind' = kind /\ head' = head /\ succ' = succ /\ prev' = prev
  BY DEF Add, Fresh
<1>2. /\ adder \in [Adder -> {"idle", "head", "walk", "link", "linked"}]
      /\ new \in [Adder -> Pointer] /\ last \in [Adder -> Pointer]
      /\ first \in [Elem -> Pointer] /\ clean \subseteq used /\ used \subseteq Elem
      /\ head \in Pointer /\ succ \in [Elem -> Pointer]
  BY DEF IInv, ListTypeOK
<1>3. /\ adder'[t] = IF head = NULL THEN "head" ELSE "walk"
      /\ new'[t] = e /\ last'[t] = head
      /\ \A u \in Adder : u # t => adder'[u] = adder[u] /\ new'[u] = new[u] /\ last'[u] = last[u]
  BY <1>1, <1>2
<1>4. /\ first'[e] = IF head = NULL THEN e ELSE head
      /\ \A x \in Elem : x # e => first'[x] = first[x]
  BY <1>1, <1>2
<1>5. Busy' = Busy \cup {t} /\ t \notin Busy
  BY <1>1, <1>3 DEF Busy
<1>6. Adding' = Adding \cup {e} /\ Adding \subseteq used
  <2>1. \A u \in Busy : new'[u] = new[u] /\ new[u] \in used
    BY <1>3, <1>5 DEF IInv, Owned, Busy
  <2> QED
    BY <1>3, <1>5, <2>1 DEF Adding
<1>7. clean' \ Adding' = clean \ Adding
  <2>1. CASE Busy = {}
    BY <1>1, <1>2, <1>6, <2>1
  <2>2. CASE Busy # {}
    BY <1>1, <1>2, <1>6, <2>2
  <2> QED
    BY <2>1, <2>2
<1>8. /\ succ[e] = NULL /\ head # e /\ \A x \in Elem : succ[x] # e
      /\ \A u \in Adder : last[u] # e
  BY <1>1 DEF IInv, Unreached, Unlinked
<1>9. InList' = InList
  BY <1>1 DEF InList
<1>10. ListTypeOK'
  BY <1>1, <1>2 DEF IInv, ListTypeOK, Pointer
<1>11. None'
  BY <1>1 DEF None
<1>12. \A x \in Elem : Unlinked(x)' <=> Unlinked(x)
  <2>1. Publishing(t)' /\ ~Publishing(t)
    BY <1>1, <1>3 DEF Publishing
  <2>2. \A u \in Adder : u # t => (Publishing(u)' <=> Publishing(u))
    BY <1>1, <1>3 DEF Publishing
  <2> QED
    BY <1>1, <1>3, <2>1, <2>2 DEF Unlinked
<1>13. Unreached'
  BY <1>1, <1>3, <1>12 DEF IInv, Unreached
<1>14. Owned'
  <2>1. \A u \in Busy : u # t /\ new[u] \in used /\ new[u] # e /\ new[u] \in Elem
    BY <1>1, <1>2, <1>5 DEF IInv, Owned
  <2>2. \A u \in Busy : u \in Adder
    BY DEF Busy
  <2>3. \A u \in Busy' : new'[u] \in used' /\ new'[u] # head'
    BY <1>1, <1>3, <1>5, <1>8, <2>1, <2>2 DEF IInv, Owned
  <2>4. \A u, v \in Busy' : new'[u] = new'[v] => u = v
    BY <1>3, <1>5, <2>1, <2>2 DEF IInv, Owned
  <2>5. ASSUME NEW u \in Busy'
        PROVE  IF adder'[u] = "head" THEN first'[new'[u]] = new'[u]
               ELSE last'[u] \in Elem /\ head' # NULL /\ first'[new'[u]] # new'[u]
    <3>1. CASE u = t
      BY <1>1, <1>2, <1>3, <1>4, <1>8, <3>1 DEF Pointer
    <3>2. CASE u # t
      <4>1. u \in Busy /\ first'[new[u]] = first[new[u]]
        BY <1>4, <1>5, <2>1, <3>2
      <4> QED
        BY <1>1, <1>3, <2>2, <3>2, <4>1 DEF IInv, Owned
    <3> QED
      BY <3>1, <3>2
  <2>6. \A u \in Busy' : adder'[u] = "linked" /\ kind' = "signals" => prev'[new'[u]] = last'[u]
    BY <1>1, <1>3, <1>5, <2>1, <2>2 DEF IInv, Owned
  <2> QED
    BY <2>3, <2>4, <2>5, <2>6 DEF Owned
<1>15. Alone'
  <2>1. CASE Busy = {}
    <3>1. head # NULL => head \in InList
      BY <1>2, WalkedCloses DEF InList
    <3> QED
      BY <1>1, <1>3, <1>5, <1>9, <2>1, <3>1 DEF Alone, Storing
  <2>2. CASE Busy # {}
    <3>1. \A u \in Busy' : new'[u] \notin clean'
      <4>1. \A u \in Busy : new'[u] \in Adding
        BY <1>3, <1>5 DEF Adding, Busy
      <4> QED
        BY <1>1, <1>2, <1>3, <1>5, <2>2, <4>1
    <3> QED
      BY <3>1 DEF Alone
  <2> QED
    BY <2>1, <2>2
<1>16. NoneYet'
  <2>1. (head' = NULL \/ \E u \in Adder : adder'[u] = "head")
           => (head = NULL \/ \E u \in Adder : adder[u] = "head")
    BY <1>1, <1>3
  <2> QED
    BY <1>1, <1>6, <2>1 DEF IInv, NoneYet
<1>17. Backwards'
  <2>1. \A x \in Elem : succ'[x] \in Adding' <=> succ[x] \in Adding
    BY <1>1, <1>6, <1>8
  <2>2. \A u \in Busy : u \in Busy' /\ adder'[u] = adder[u] /\ new'[u] = new[u] /\ last'[u] = last[u]
    BY <1>3, <1>5 DEF Busy
  <2> QED
    BY <1>1, <2>1, <2>2 DEF IInv, Backwards
<1>18. Kept'
  BY <1>1, <1>2, <1>4, <1>7, <1>9 DEF IInv, Kept
<1>19. Untouched'
  <2>1. ~Storing(t)'
    BY <1>3 DEF Storing
  <2>2. \A u \in Busy : u # t /\ u \in Adder /\ (Storing(u)' <=> Storing(u))
    BY <1>1, <1>3, <1>5 DEF Storing, Busy
  <2> QED
    BY <1>1, <1>3, <1>5, <1>7, <2>1, <2>2 DEF IInv, Untouched
<1> QED
  BY <1>10, <1>11, <1>13, <1>14, <1>15, <1>16, <1>17, <1>18, <1>19 DEF IInv

LEMMA HeadStep == ASSUME IInv, NEW t \in Adder, StoreHead(t) PROVE IInv'
<1> DEFINE n == new[t]
<1>1. /\ adder[t] = "head" /\ head' = n /\ adder' = [adder EXCEPT ![t] = "idle"]
      /\ UNCHANGED <<kind, succ, prev, first, used, new, last, clean>>
  BY DEF StoreHead
<1>2. /\ adder \in [Adder -> {"idle", "head", "walk", "link", "linked"}]
      /\ clean \subseteq used /\ used \subseteq Elem /\ succ \in [Elem -> Pointer]
  BY DEF IInv, ListTypeOK
<1>3. adder'[t] = "idle" /\ \A u \in Adder : u # t => adder'[u] = adder[u]
  BY <1>1, <1>2
<1>4. Busy' = Busy \ {t} /\ t \in Busy
  BY <1>1, <1>3 DEF Busy
<1>5. /\ \A u \in Busy : u \in Adder /\ new[u] \in used /\ (new[u] = n => u = t)
      /\ n \in Elem /\ first[n] = n
  BY <1>1, <1>2, <1>4 DEF IInv, Owned, Busy
<1>6. Adding' = Adding \ {n} /\ n \in Adding
  BY <1>1, <1>4, <1>5 DEF Adding
<1>7. n \in clean => Busy = {t}
  BY <1>4 DEF IInv, Alone
<1>8. clean \subseteq Adding
  BY <1>1 DEF IInv, NoneYet
<1>9. Publishing(t) /\ Unlinked(n)
  BY <1>1 DEF Publishing, Unlinked
<1>10. \A x \in Elem : Unlinked(x)' => Unlinked(x) /\ x # n
  <2>1. ~Publishing(t)' /\ \A u \in Adder : u # t => (Publishing(u)' <=> Publishing(u))
    BY <1>1, <1>3 DEF Publishing
  <2>2. \A u \in Adder : Publishing(u) => u \in Busy
    BY DEF Publishing, Busy
  <2> QED
    BY <1>1, <1>4, <1>5, <2>1, <2>2 DEF Unlinked
<1>11. ListTypeOK'
  BY <1>1, <1>2, <1>5 DEF IInv, ListTypeOK, Pointer
<1>12. None'
  BY <1>1, <1>4 DEF IInv, None
<1>13. Unreached'
  BY <1>1, <1>10 DEF IInv, Unreached
<1>14. Owned'
  BY <1>1, <1>3, <1>4, <1>5, ListAssumption DEF IInv, Owned
<1>15. Alone'
  BY <1>1, <1>4 DEF IInv, Alone
<1>16. NoneYet'
  <2>1. head' # NULL
    BY <1>1, <1>5, ListAssumption
  <2>2. ASSUME NEW u \in Adder, adder'[u] = "head" PROVE n \notin clean
    BY <1>3, <1>7, <2>2 DEF Busy
  <2> QED
    BY <1>1, <1>6, <1>8, <2>1, <2>2 DEF NoneYet
<1>17. Backwards'
  <2>1. \A x \in Elem : succ[x] # n
    BY <1>5, <1>9 DEF IInv, Unreached
  <2> QED
    BY <1>1, <1>3, <1>4, <1>6, <2>1 DEF IInv, Backwards
<1>18. clean' \ Adding' \subseteq {n} /\ (n \in clean => Busy' = {})
  BY <1>1, <1>4, <1>6, <1>7, <1>8
<1>19. Kept'
  <2>1. n \in InList'
    BY <1>1, <1>2, <1>5, WalkedCloses, ListAssumption DEF InList, Pointer
  <2> QED
    BY <1>1, <1>5, <1>18, <2>1 DEF Kept
<1>20. Untouched'
  BY <1>1, <1>18 DEF Untouched
<1> QED
  BY <1>11, <1>12, <1>13, <1>14, <1>15, <1>16, <1>17, <1>19, <1>20 DEF IInv

LEMMA WalkStep == ASSUME IInv, NEW t \in Adder, Walk(t) PROVE IInv'
<1> DEFINE l == last[t]
<1>1. /\ adder[t] = "walk" /\ UNCHANGED <<kind, head, succ, prev, first, used, new, clean>>
      /\ adder'[t] \in {"walk", "link"} /\ \A u \in Adder : u # t => adder'[u] = adder[u]
      /\ \A u \in Adder : u # t => last'[u] = last[u]
      /\ adder' \in [Adder -> {"idle", "head", "walk", "link", "linked"}]
      /\ l \in Elem /\ t \in Busy
  BY DEF Walk, IInv, ListTypeOK, Owned, Busy
<1>2. \/ succ[l] # NULL /\ last' = [last EXCEPT ![t] = succ[l]] /\ adder' = adder
      \/ succ[l] = NULL /\ last' = last /\ adder'[t] = "link"
  BY DEF Walk, IInv, ListTypeOK
<1>3. last'[t] = (IF succ[l] # NULL THEN succ[l] ELSE l) /\ last'[t] \in Elem
  BY <1>1, <1>2 DEF IInv, ListTypeOK, Pointer
<1>4. Busy' = Busy /\ Adding' = Adding /\ InList' = InList
  <2>1. Busy' = Busy
    BY <1>1 DEF Busy
  <2> QED
    BY <1>1, <2>1 DEF Adding, InList
<1>5. \A u \in Adder : (Publishing(u)' <=> Publishing(u)) /\ (u # t => (Storing(u)' <=> Storing(u)))
  BY <1>1 DEF Publishing, Storing
<1>6. Storing(t)' => succ[l] = NULL
  BY <1>1, <1>2 DEF Storing
<1>7. ListTypeOK'
  BY <1>1, <1>2, <1>3 DEF IInv, ListTypeOK, Pointer
<1>8. None'
  BY <1>1, <1>4 DEF IInv, None
<1>9. Unreached'
  <2>1. \A x \in Elem : Unlinked(x)' <=> Unlinked(x)
    BY <1>1, <1>5 DEF Unlinked
  <2> QED
    BY <1>1, <1>3, <2>1 DEF IInv, Unreached
<1>10. Owned'
  <2>1. \A u \in Busy : u \in Adder
    BY DEF Busy
  <2> QED
    BY <1>1, <1>3, <1>4, <2>1 DEF IInv, Owned
<1>11. Alone'
  <2>1. l \in InList => last'[t] \in InList
    BY <1>3, WalkedCloses DEF InList, Closed, IInv, ListTypeOK
  <2>2. \A u \in Busy : u \in Adder
    BY DEF Busy
  <2>3. Storing(t)' => last'[t] = l
    BY <1>3, <1>6
  <2> QED
    BY <1>1, <1>3, <1>4, <1>5, <1>6, <2>1, <2>2, <2>3 DEF IInv, Alone
<1>12. NoneYet'
  BY <1>1, <1>4 DEF IInv, NoneYet
<1>13. Backwards'
  <2>1. \A u \in Busy : u \in Adder
    BY DEF Busy
  <2> QED
    BY <1>1, <1>4, <2>1 DEF IInv, Backwards
<1>14. Kept'
  BY <1>1, <1>4 DEF IInv, Kept
<1>15. Untouched'
  <2>1. Storing(t)' => Walked(succ, succ[last'[t]]) = {}
    BY <1>3, <1>6, WalkedEmpty
  <2>2. \A u \in Busy : u \in Adder
    BY DEF Busy
  <2> QED
    BY <1>1, <1>4, <1>5, <2>1, <2>2 DEF IInv, Untouched
<1> QED
  BY <1>7, <1>8, <1>9, <1>10, <1>11, <1>12, <1>13, <1>14, <1>15 DEF IInv

\* What the two steps of Link have in common.
LEMMA LinkFacts ==
    ASSUME IInv, NEW t \in Adder, Link(t)
    PROVE  /\ UNCHANGED <<kind, head, first, used, new, last, clean>>
           /\ adder[t] \in {"link", "linked"} /\ kind \in {"pids", "signals"}
           /\ adder' \in [Adder -> {"idle", "head", "walk", "link", "linked"}]
           /\ adder'[t] = IF adder[t] = "link" THEN "linked" ELSE "idle"
           /\ \A u \in Adder : u # t => adder'[u] = adder[u]
           /\ IF (adder[t] = "link") = (kind = "pids") THEN StoreNext(t) ELSE StorePrev(t)
           /\ new[t] \in Elem /\ new[t] \in used /\ new[t] # head /\ head # NULL
           /\ last[t] \in Elem /\ first[new[t]] # new[t]
           /\ t \in Busy /\ Busy \subseteq Adder
           /\ \A u \in Busy : new[u] \in Elem /\ (new[u] = new[t] => u = t)
           /\ Busy' = IF adder[t] = "link" THEN Busy ELSE Busy \ {t}
           /\ Adding' = IF adder[t] = "link" THEN Adding ELSE Adding \ {new[t]}
           /\ new[t] \in clean => Busy = {t}
           /\ None' /\ NoneYet'
           /\ \A x \in Elem : Unlinked(x)' => Unlinked(x) /\ (x = new[t] => Publishing(t)')
<1>1. /\ UNCHANGED <<kind, head, first, used, new, last, clean>>
      /\ adder[t] \in {"link", "linked"}
      /\ adder' = [adder EXCEPT ![t] = IF adder[t] = "link" THEN "linked" ELSE "idle"]
      /\ IF (adder[t] = "link") = (kind = "pids") THEN StoreNext(t) ELSE StorePrev(t)
  BY DEF Link
<1>2. /\ adder' \in [Adder -> {"idle", "head", "walk", "link", "linked"}]
      /\ adder'[t] = IF adder[t] = "link" THEN "linked" ELSE "idle"
      /\ \A u \in Adder : u # t => adder'[u] = adder[u]
  BY <1>1 DEF IInv, ListTypeOK
<1>3. t \in Busy /\ Busy \subseteq Adder /\ kind \in {"pids", "signals"}
  BY <1>1 DEF Busy, IInv, ListTypeOK, None
<1>4. /\ new[t] \in Elem /\ new[t] \in used /\ new[t] # head /\ head # NULL
      /\ last[t] \in Elem /\ first[new[t]] # new[t]
      /\ \A u \in Busy : new[u] \in Elem /\ new[u] \in used /\ (new[u] = new[t] => u = t)
  BY <1>1, <1>3 DEF IInv, Owned, ListTypeOK
<1>5. Busy' = IF adder[t] = "link" THEN Busy ELSE Busy \ {t}
  BY <1>1, <1>2, <1>3 DEF Busy
<1>6. Adding' = IF adder[t] = "link" THEN Adding ELSE Adding \ {new[t]}
  BY <1>1, <1>3, <1>4, <1>5 DEF Adding
<1>7. new[t] \in clean => Busy = {t}
  BY <1>3 DEF IInv, Alone
<1>8. None'
  BY <1>1, <1>3 DEF None
<1>9. NoneYet'
  <2>1. ASSUME NEW u \in Adder, adder'[u] = "head"
        PROVE  clean \subseteq Adding /\ new[t] \notin clean
    <3>1. u # t /\ adder[u] = "head"
      BY <1>2, <2>1
    <3>2. u \in Busy
      BY <3>1 DEF Busy
    <3> QED
      BY <1>7, <3>1, <3>2 DEF IInv, NoneYet
  <2> QED
    BY <1>1, <1>4, <1>6, <2>1 DEF NoneYet
<1>10. \A x \in Elem : Unlinked(x)' => Unlinked(x) /\ (x = new[t] => Publishing(t)')
  <2>1. Publishing(t)' => Publishing(t)
    BY <1>1, <1>2 DEF Publishing
  <2>2. \A u \in Adder : u # t => (Publishing(u)' <=> Publishing(u))
    BY <1>1, <1>2 DEF Publishing
  <2>3. \A u \in Adder : Publishing(u) => u \in Busy
    BY DEF Publishing, Busy
  <2> QED
    BY <1>1, <1>4, <2>1, <2>2, <2>3 DEF Unlinked
<1> QED
  BY <1>1, <1>2, <1>3, <1>4, <1>5, <1>6, <1>7, <1>8, <1>9, <1>10

\* The element ceases to be added with the second store.
LEMMA LastStep ==
    ASSUME IInv, NEW t \in Adder, Link(t), adder[t] = "linked" PROVE Alone'
BY LinkFacts DEF IInv, Alone

LEMMA PrevStep ==
    ASSUME IInv, NEW t \in Adder, Link(t), StorePrev(t), (adder[t] = "link") # (kind = "pids")
    PROVE  IInv'
<1> DEFINE n == new[t]
           l == last[t]
<1>0. ListTypeOK
  BY DEF IInv
<1>1. /\ UNCHANGED <<kind, head, first, used, new, last, clean, succ>>
      /\ n \in Elem /\ l \in Elem /\ n # head /\ first[n] # n /\ t \in Busy /\ Busy \subseteq Adder
      /\ prev' \in [Elem -> Pointer] /\ prev'[n] = l
      /\ \A x \in Elem : x # n => prev'[x] = prev[x]
  BY <1>0, LinkFacts DEF StorePrev, ListTypeOK, Pointer
<1>2. None' /\ NoneYet'
  BY LinkFacts
<1>3. ListTypeOK'
  BY <1>0, <1>1, LinkFacts DEF ListTypeOK
<1>4. Unreached'
  BY <1>1, LinkFacts DEF IInv, Unreached
<1>5. InList' = InList
  BY <1>1 DEF InList
<1>6. CASE adder[t] = "link" /\ kind = "signals"
  <2>1. /\ adder'[t] = "linked" /\ Busy' = Busy /\ Adding' = Adding
        /\ \A u \in Adder : u # t => adder'[u] = adder[u]
        /\ \A u \in Busy : new[u] \in Elem /\ (new[u] = n => u = t)
    BY <1>6, LinkFacts
  <2>2. Owned'
    BY <1>1, <1>6, <2>1 DEF IInv, Owned
  <2>3. \A u \in Adder : Storing(u)' <=> Storing(u)
    BY <1>1, <1>6, <2>1 DEF Storing
  <2>4. Alone'
    BY <1>1, <1>5, <1>6, <2>1, <2>3 DEF IInv, Alone
  <2>5. \A x \in Elem : succ[x] # n
    <3>1. Unlinked(n)
      BY <1>6 DEF Unlinked, Publishing
    <3> QED
      BY <1>1, <3>1 DEF IInv, Unreached
  <2>6. Backwards'
    BY <1>0, <1>1, <1>6, <2>1, <2>5 DEF IInv, Backwards, ListTypeOK, Pointer
  <2>7. Kept'
    <3>1. \A e \in clean \ Adding : e # n /\ e \in Elem
      BY <1>0, <1>1 DEF Adding, ListTypeOK
    <3> QED
      BY <1>1, <1>5, <2>1, <3>1 DEF IInv, Kept
  <2>8. Untouched'
    BY <1>1, <2>1, <2>3 DEF IInv, Untouched
  <2> QED
    BY <1>2, <1>3, <1>4, <2>2, <2>4, <2>6, <2>7, <2>8 DEF IInv
<1>7. CASE adder[t] = "linked" /\ kind = "pids"
  <2>1. /\ adder'[t] = "idle" /\ Busy' = Busy \ {t} /\ Adding' = Adding \ {n}
        /\ \A u \in Adder : u # t => adder'[u] = adder[u]
        /\ \A u \in Busy : new[u] \in Elem /\ (new[u] = n => u = t)
        /\ n \in clean => Busy = {t}
    BY <1>7, LinkFacts
  <2>2. n \in Adding
    BY <1>1 DEF Adding
  <2>3. Owned'
    BY <1>1, <1>7, <2>1 DEF IInv, Owned
  <2>4. \A u \in Adder : u # t => (Storing(u)' <=> Storing(u))
    BY <1>1, <2>1 DEF Storing
  <2>5. Alone'
    BY <1>7, LastStep
  <2>6. Backwards'
    <3> SUFFICES ASSUME NEW x \in Elem, succ[x] # NULL
                 PROVE  IF succ[x] \in Adding'
                        THEN \E u \in Busy' : adder'[u] = "linked" /\ new[u] = succ[x] /\ last[u] = x
                        ELSE prev'[succ[x]] = x
      BY <1>1 DEF Backwards
    <3>1. succ[x] \in Elem
      BY <1>0 DEF ListTypeOK, Pointer
    <3>2. CASE succ[x] = n
      <4>1. l = x
        BY <2>1, <2>2, <3>2 DEF IInv, Backwards
      <4> QED
        BY <1>1, <2>1, <3>2, <4>1
    <3>3. CASE succ[x] # n
      BY <1>1, <2>1, <3>1, <3>3 DEF IInv, Backwards
    <3> QED
      BY <3>2, <3>3
  <2>7. Kept'
    <3> SUFFICES ASSUME NEW e \in clean, e \notin Adding \/ e = n
                 PROVE  /\ e \in InList /\ (first[e] = e <=> e = head)
                        /\ e # head => prev'[e] \in Elem /\ succ[prev'[e]] = e
      BY <1>1, <1>5, <2>1 DEF Kept
    <3>1. e \in Elem
      BY <1>0 DEF ListTypeOK
    <3>2. CASE e = n
      <4>1. l \in InList /\ succ[l] = n
        BY <1>1, <1>7, <3>2 DEF IInv, Alone
      <4>2. n \in InList
        BY <1>0, <1>1, <4>1, WalkedCloses, ListAssumption DEF InList, ListTypeOK, Closed
      <4> QED
        BY <1>1, <3>2, <4>1, <4>2
    <3>3. CASE e # n
      BY <1>1, <3>1, <3>3 DEF IInv, Kept
    <3> QED
      BY <3>2, <3>3
  <2>8. Untouched'
    <3>1. \A e \in clean' \ Adding', u \in Busy' : e \in clean \ Adding /\ u \in Busy /\ u # t
      BY <1>1, <2>1
    <3> QED
      BY <1>1, <2>1, <2>4, <3>1 DEF IInv, Untouched
  <2> QED
    BY <1>2, <1>3, <1>4, <2>3, <2>5, <2>6, <2>7, <2>8 DEF IInv
<1> QED
  BY <1>6, <1>7, LinkFacts

\* Either store of next: a store at the end of every walk but those of
\* elements that are not kept.
LEMMA NextStep ==
    ASSUME IInv, NEW t \in Adder, Link(t), StoreNext(t), (adder[t] = "link") = (kind = "pids")
    PROVE  IInv'
<1> DEFINE n == new[t]
           l == last[t]
<1>0. ListTypeOK
  BY DEF IInv
<1>1. /\ UNCHANGED <<kind, head, first, used, new, last, clean, prev>>
      /\ n \in Elem /\ l \in Elem /\ n # head /\ first[n] # n /\ t \in Busy /\ Busy \subseteq Adder
      /\ succ' = [succ EXCEPT ![l] = n]
      /\ \A u \in Busy : new[u] \in Elem /\ (new[u] = n => u = t)
      /\ n \in clean => Busy = {t}
      /\ head \in Pointer
  BY <1>0, LinkFacts DEF StoreNext, ListTypeOK
<1>2. None' /\ NoneYet'
  BY LinkFacts
<1>3. Storing(t) /\ Unlinked(n)
  BY LinkFacts DEF Storing, Unlinked, Publishing
<1>4. l # n /\ succ[n] = NULL /\ \A x \in Elem : succ[x] # n
  BY <1>1, <1>3 DEF IInv, Unreached
<1>5. /\ succ' \in [Elem -> Pointer] /\ succ'[l] = n
      /\ \A x \in Elem : x # l => succ'[x] = succ[x]
  BY <1>0, <1>1 DEF ListTypeOK, Pointer
<1>6. ListTypeOK'
  BY <1>0, <1>1, <1>5, LinkFacts DEF ListTypeOK
<1>7. Unreached'
  <2>1. \A x \in Elem : Unlinked(x)' => Unlinked(x) /\ x # n
    <3>1. ~Publishing(t)'
      BY LinkFacts DEF Publishing
    <3> QED
      BY <3>1, LinkFacts
  <2>2. \A x \in Elem : Unlinked(x) => x # l
    BY DEF IInv, Unreached
  <2> QED
    BY <1>1, <1>5, <2>1, <2>2 DEF IInv, Unreached
<1>8. /\ \A h \in Pointer : /\ Walked(succ', h) \subseteq Walked(succ, h) \cup {n}
                            /\ Walked(succ, h) \subseteq Walked(succ', h) \cup Walked(succ, succ[l])
      /\ Walked(succ', n) \subseteq {n}
  <2>1. succ \in [Elem -> Pointer] /\ n \in Pointer
    BY <1>0, <1>1 DEF ListTypeOK, Pointer
  <2> HIDE DEF n, l
  <2>2. ASSUME NEW h \in Pointer
        PROVE  /\ Walked(succ', h) \subseteq Walked(succ, h) \cup {n}
               /\ Walked(succ, h) \subseteq Walked(succ', h) \cup Walked(succ, succ[l])
               /\ Walked(succ', n) \subseteq {n}
    BY <1>1, <1>4, <2>1, StoreWalks
  <2> QED
    BY <2>1, <2>2
\* What is kept stays, and n, when it is clean, gets into the list.
<1>9. ASSUME NEW e \in clean \ Adding
      PROVE  /\ e \in InList' /\ (first[e] = e <=> e = head)
             /\ e # head => prev[e] \in Elem /\ succ'[prev[e]] = e
  <2>1. e \in Elem /\ e \notin Walked(succ, succ[l]) /\ e \in InList
    BY <1>0, <1>1, <1>3, <1>9 DEF IInv, Untouched, Kept, ListTypeOK
  <2>2. e \in InList'
    BY <1>1, <1>8, <2>1 DEF InList
  <2>3. succ[l] # e
    <3>1. succ[l] \in Walked(succ, succ[l]) \cup {NULL}
      BY <1>0, <1>1, WalkedCloses DEF ListTypeOK
    <3> QED
      BY <2>1, <3>1, ListAssumption
  <2> QED
    BY <1>5, <1>9, <2>2, <2>3 DEF IInv, Kept
<1>10. ASSUME n \in clean PROVE l \in InList' /\ n \in InList'
  <2>1. l \in InList /\ succ[l] = NULL
    BY <1>1, <1>3, <1>10, LinkFacts DEF IInv, Alone
  <2>2. l \in InList'
    BY <1>1, <1>8, <2>1, WalkedEmpty DEF InList
  <2>3. n \in InList'
    BY <1>1, <1>5, <2>2, WalkedCloses, ListAssumption DEF InList, Closed
  <2> QED
    BY <2>2, <2>3
<1>11. ASSUME NEW e \in clean \ Adding, NEW u \in Busy, u # t, Storing(u)
       PROVE  e \notin Walked(succ', succ'[last[u]])
  <2>1. e # n /\ e \notin Walked(succ, succ[last[u]]) /\ last[u] \in Elem
    <3>1. n \in Adding
      BY <1>1 DEF Adding
    <3>2. last[u] \in Elem
      BY <1>11 DEF IInv, Owned, Storing
    <3> QED
      BY <1>11, <3>1, <3>2 DEF IInv, Untouched
  <2>2. CASE last[u] = l
    BY <1>5, <1>8, <2>1, <2>2
  <2>3. CASE last[u] # l
    <3>1. succ'[last[u]] = succ[last[u]] /\ succ[last[u]] \in Pointer
      BY <1>0, <1>5, <2>1, <2>3 DEF ListTypeOK
    <3> QED
      BY <1>8, <2>1, <3>1
  <2> QED
    BY <2>2, <2>3
<1>12. CASE adder[t] = "link" /\ kind = "pids"
  <2>1. /\ adder'[t] = "linked" /\ Busy' = Busy /\ Adding' = Adding
        /\ \A u \in Adder : u # t => adder'[u] = adder[u]
    BY <1>12, LinkFacts
  <2>2. \A u \in Adder : Storing(u)' <=> Storing(u) /\ u # t
    BY <1>1, <1>12, <2>1 DEF Storing
  <2>3. Owned'
    BY <1>1, <1>12, <2>1 DEF IInv, Owned
  <2>4. Alone'
    <3> SUFFICES ASSUME NEW u \in Busy, new[u] \in clean
                 PROVE  /\ Busy = {u}
                        /\ adder'[u] # "head" => last[u] \in InList'
                        /\ Storing(u)' => succ'[last[u]] = NULL
                        /\ adder'[u] = "linked" /\ kind = "pids" => succ'[last[u]] = new[u]
      BY <1>1, <2>1 DEF Alone
    <3>1. u = t /\ Busy = {u}
      BY <1>1 DEF IInv, Alone
    <3> QED
      BY <1>5, <1>10, <2>2, <3>1
  <2>5. Backwards'
    <3> SUFFICES ASSUME NEW x \in Elem, succ'[x] # NULL
                 PROVE  IF succ'[x] \in Adding
                        THEN \E u \in Busy : adder'[u] = "linked" /\ new[u] = succ'[x] /\ last[u] = x
                        ELSE prev[succ'[x]] = x
      BY <1>1, <2>1 DEF Backwards
    <3>1. CASE x = l
      <4>1. n \in Adding
        BY <1>1 DEF Adding
      <4> QED
        BY <1>1, <1>5, <2>1, <3>1, <4>1
    <3>2. CASE x # l
      <4>1. succ'[x] = succ[x]
        BY <1>5, <3>2
      <4> QED
        BY <1>1, <1>12, <2>1, <4>1 DEF IInv, Backwards
    <3> QED
      BY <3>1, <3>2
  <2>6. Kept'
    BY <1>1, <1>9, <2>1 DEF Kept
  <2>7. Untouched'
    BY <1>1, <1>11, <2>1, <2>2 DEF Untouched
  <2> QED
    BY <1>2, <1>6, <1>7, <2>3, <2>4, <2>5, <2>6, <2>7 DEF IInv
<1>13. CASE adder[t] = "linked" /\ kind = "signals"
  <2>1. /\ adder'[t] = "idle" /\ Busy' = Busy \ {t} /\ Adding' = Adding \ {n}
        /\ \A u \in Adder : u # t => adder'[u] = adder[u]
    BY <1>13, LinkFacts
  <2>2. \A u \in Adder : u # t => (Storing(u)' <=> Storing(u))
    BY <1>1, <2>1 DEF Storing
  <2>3. Owned'
    BY <1>1, <1>13, <2>1 DEF IInv, Owned
  <2>4. Alone'
    BY <1>13, LastStep
  <2>5. prev[n] = l
    BY <1>1, <1>13 DEF IInv, Owned
  <2>6. Backwards'
    <3> SUFFICES ASSUME NEW x \in Elem, succ'[x] # NULL
                 PROVE  IF succ'[x] \in Adding'
                        THEN \E u \in Busy' : adder'[u] = "linked" /\ new[u] = succ'[x] /\ last[u] = x
                        ELSE prev[succ'[x]] = x
      BY <1>1 DEF Backwards
    <3>1. CASE x = l
      BY <1>5, <2>1, <2>5, <3>1
    <3>2. CASE x # l
      <4>1. succ'[x] = succ[x] /\ succ[x] # n
        BY <1>4, <1>5, <3>2
      <4> QED
        BY <1>1, <2>1, <4>1 DEF IInv, Backwards
    <3> QED
      BY <3>1, <3>2
  <2>7. Kept'
    <3> SUFFICES ASSUME NEW e \in clean, e \notin Adding \/ e = n
                 PROVE  /\ e \in InList' /\ (first[e] = e <=> e = head)
                        /\ e # head => prev[e] \in Elem /\ succ'[prev[e]] = e
      BY <1>1, <2>1 DEF Kept
    <3>1. CASE e = n
      BY <1>1, <1>5, <1>10, <2>5, <3>1
    <3> QED
      BY <1>9, <3>1
  <2>8. Untouched'
    <3>1. \A e \in clean' \ Adding', u \in Busy' : e \in clean \ Adding /\ u \in Busy /\ u # t
      BY <1>1, <2>1
    <3> QED
      BY <1>1, <1>11, <2>1, <2>2, <3>1 DEF Untouched
  <2> QED
    BY <1>2, <1>6, <1>7, <2>3, <2>4, <2>6, <2>7, <2>8 DEF IInv
<1> QED
  BY <1>12, <1>13, LinkFacts

LEMMA LinkStep == ASSUME IInv, NEW t \in Adder, Link(t) PROVE IInv'
BY LinkFacts, PrevStep, NextStep

LEMMA StutterStep == ASSUME IInv, UNCHANGED listVars PROVE IInv'
<1>1. UNCHANGED <<kind, head, succ, prev, first, used, adder, new, last, clean>>
  BY DEF listVars
<1>2. Busy' = Busy /\ Adding' = Adding /\ InList' = InList
  BY <1>1 DEF Busy, Adding, InList
<1>3. Unreached'
  BY <1>1 DEF IInv, Unreached, Unlinked, Publishing
<1>4. Untouched' /\ Alone'
  BY <1>1, <1>2 DEF IInv, Untouched, Alone, Storing
<1>5. ListTypeOK' /\ None' /\ NoneYet'
  BY <1>1, <1>2 DEF IInv, ListTypeOK, None, NoneYet
<1>6. Owned' /\ Backwards' /\ Kept'
  BY <1>1, <1>2 DEF IInv, Owned, Backwards, Kept
<1> QED
  BY <1>3, <1>4, <1>5, <1>6 DEF IInv

LEMMA StepIInv == IInv /\ [ListNext]_listVars => IInv'
BY NewStep, AddStep, HeadStep, WalkStep, LinkStep, StutterStep DEF ListNext

LEMMA IInvLinked == IInv => AddedStaysLinked
<1> SUFFICES ASSUME IInv PROVE AddedStaysLinked
  OBVIOUS
<1>1. InList \subseteq Elem
  BY DEF InList, Walked
<1> QED
  BY <1>1 DEF IInv, Kept, Backwards, AddedStaysLinked

-------------------------------------------------------------------------------

\* Whatever the unsynchronised additions of other threads lose, an element
\* that was added alone stays in its list: for every number of threads, of
\* elements, and every interleaving of the steps of both list kinds.
THEOREM StaysLinked == ListInit /\ [][ListNext]_listVars => []AddedStaysLinked
BY InitIInv, StepIInv, IInvLinked, PTL
===============================================================================
