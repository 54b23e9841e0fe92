-------------------------- MODULE SemLifecycle_proofs --------------------------
(***************************************************************************)
(* Theorems about SemLifecycle, for any threads, heap, handle values and   *)
(* names: with a heap that does not reuse the block a sem_destroy is still *)
(* about to store into, every open semaphore reaches its kernel object.    *)
(*                                                                         *)
(* The invariant says which thread uses which block, that no two use the   *)
(* same one, that the blocks with a handle in them hold open handles, all  *)
(* different, and that the handle of a named semaphore refers to its name. *)
(***************************************************************************)
EXTENDS SemLifecycle, TLAPS

\* The thread's calls or its pointers use the block.
Uses(t, b) == b = blk[t] \/ b = sem[t] \/ b = word[t]

\* The block holds the handle of a semaphore: one that is open, about to be
\* returned, or stored in the thread's sem_t.
Filled(t, b) ==
    \/ b = sem[t] /\ pc[t] \notin {"free", "clear"}
    \/ b = blk[t] /\ pc[t] = "check"
    \/ b = word[t]

WordsTyped ==
    /\ \A b \in Blocks : word[b] \in Handles \cup {NULL}
    /\ \A t \in Threads : word[t] \in Blocks \cup {NULL}

UsersDiffer ==
    \A t, u \in Threads, b \in Blocks : Uses(t, b) /\ Uses(u, b) => t = u

UsesDiffer ==
    \A t \in Threads :
       /\ blk[t] # NULL => /\ blk[t] # word[t]
                           /\ blk[t] = sem[t] <=> pc[t] \in {"free", "clear"}
       /\ sem[t] # NULL => sem[t] # word[t]

UsedIsLive ==
    \A t \in Threads, b \in Blocks :
       Uses(t, b) => (b \in live <=> ~ (b = blk[t] /\ pc[t] = "clear"))

FilledIsOpen ==
    \A t \in Threads, b \in Blocks : Filled(t, b) => IsOpen(word[b])

HandlesDiffer ==
    \A t, u \in Threads, b, c \in Blocks :
       Filled(t, b) /\ Filled(u, c) /\ word[b] = word[c] => b = c

NamesMatch ==
    \A t \in Threads :
       /\ pc[t] \in {"create", "check", "backout"} =>
             sem[t] = NULL /\ call[t].name \in Names
       /\ sem[t] # NULL =>
             /\ call[t].name \in Names
             /\ pc[t] \notin {"free", "clear"} =>
                   ktab[word[sem[t]]] = call[t].name
       /\ pc[t] = "check" => ktab[word[blk[t]]] = call[t].name
       /\ pc[t] = "init" => word[t] = NULL

IInv ==
    /\ TypeOK /\ WordsTyped /\ UsersDiffer /\ UsesDiffer
    /\ UsedIsLive /\ FilledIsOpen /\ HandlesDiffer /\ NamesMatch

LEMMA InitInv == Init => IInv
<1> USE LifecycleAssumption
<1> SUFFICES ASSUME Init PROVE IInv
  OBVIOUS
<1>1. TypeOK /\ WordsTyped
  BY DEF Init, TypeOK, WordsTyped, InCall, NoCall, Address
<1>2. UsersDiffer /\ UsesDiffer /\ UsedIsLive
  BY DEF Init, UsersDiffer, UsesDiffer, UsedIsLive, Uses
<1>3. FilledIsOpen /\ HandlesDiffer /\ NamesMatch
  BY DEF Init, FilledIsOpen, HandlesDiffer, NamesMatch, Filled, NoCall
<1> QED BY <1>1, <1>2, <1>3 DEF IInv

\* calloc returns a block nobody uses.
LEMMA CallocFresh ==
    ASSUME Quarantine = TRUE, IInv, NEW b \in Reusable
    PROVE  b \in Blocks /\ b \notin live /\ \A u \in Threads : ~ Uses(u, b)
BY DEF IInv, TypeOK, Reusable, UsedIsLive, Uses

LEMMA StepInv ==
    ASSUME Quarantine = TRUE, IInv, [Next]_vars
    PROVE  IInv'
<1> USE LifecycleAssumption DEF Address, InCall
<1>1. ASSUME NEW t \in Threads, NEW n \in Names, NEW f \in OFlags,
             SemOpen(t, n, f)
      PROVE  IInv'
  <2> PICK b \in Reusable : Calloc(t, b)
    BY <1>1 DEF SemOpen, Calloc
  <2>1. b \in Blocks /\ b \notin live /\ \A u \in Threads : ~ Uses(u, b)
    BY CallocFresh
  <2> USE <1>1, <2>1 DEF SemOpen, Calloc, Goto, IInv, TypeOK
  <2>2. TypeOK' /\ WordsTyped'
    BY DEF WordsTyped
  <2>3. UsersDiffer' /\ UsesDiffer' /\ UsedIsLive'
    BY DEF UsersDiffer, UsesDiffer, UsedIsLive, Uses
  <2>4. FilledIsOpen' /\ HandlesDiffer' /\ NamesMatch'
    BY DEF FilledIsOpen, HandlesDiffer, NamesMatch, Filled, Uses, IsOpen, UsesDiffer
  <2> QED BY <2>2, <2>3, <2>4
<1>2. ASSUME NEW t \in Threads,
             \/ OpenCreateFailed(t) \/ OpenBackout(t) \/ OpenAbsent(t)
             \/ InitFailed(t)
      PROVE  IInv'
  <2>1. /\ pc[t] \in {"create", "backout", "check", "init"}
        /\ FreeBlk(t) /\ Done(t)
        /\ UNCHANGED <<word, ktab, remote, call, existed, sem>>
    BY <1>2 DEF OpenCreateFailed, OpenBackout, OpenAbsent, InitFailed
  <2> USE <2>1 DEF FreeBlk, Done, Goto, IInv, TypeOK
  <2>2. TypeOK' /\ WordsTyped'
    BY DEF WordsTyped
  <2>3. UsersDiffer' /\ UsesDiffer' /\ UsedIsLive'
    BY DEF UsersDiffer, UsesDiffer, UsedIsLive, Uses
  <2>4. FilledIsOpen' /\ HandlesDiffer' /\ NamesMatch'
    BY DEF FilledIsOpen, HandlesDiffer, NamesMatch, Filled, IsOpen
  <2> QED BY <2>2, <2>3, <2>4
<1>3. ASSUME NEW t \in Threads, OpenCreate(t) PROVE IInv'
  <2> USE <1>3 DEF OpenCreate, Goto, IInv, TypeOK
  <2> PICK h \in FreeHandles :
        /\ ktab' = [ktab EXCEPT ![h] = call[t].name]
        /\ word' = [word EXCEPT ![blk[t]] = h]
    OBVIOUS
  <2>1. h \in Handles /\ ktab[h] = NULL /\ blk[t] \in Blocks
        /\ call[t].name \in Names /\ call[t].name # NULL /\ sem[t] = NULL
    BY DEF FreeHandles, NamesMatch
  <2> USE <2>1
  <2>2. TypeOK' /\ WordsTyped'
    <3>1. word' \in [Address -> Handles \cup Blocks \cup {NULL}]
      OBVIOUS
    <3>2. ktab' \in [Handles -> Names \cup Blocks \cup {ANON, NULL}]
      OBVIOUS
    <3>3. existed' \in [Threads -> BOOLEAN]
      BY DEF Exists
    <3> QED BY <3>1, <3>2, <3>3 DEF WordsTyped
  <2>3. UsersDiffer' /\ UsesDiffer' /\ UsedIsLive'
    BY DEF UsersDiffer, UsesDiffer, UsedIsLive, Uses, WordsTyped
  <2>5. \A u \in Threads, b \in Blocks :
           Filled(u, b)' => (u = t /\ b = blk[t]) \/ (Filled(u, b) /\ b # blk[t])
    BY DEF Filled, UsersDiffer, UsesDiffer, Uses, WordsTyped
  <2>6. FilledIsOpen'
    BY <2>5 DEF FilledIsOpen, IsOpen
  <2>7. \A u \in Threads, b \in Blocks : Filled(u, b) => word[b] # h
    BY DEF FilledIsOpen, IsOpen
  <2>8. HandlesDiffer'
    BY <2>5, <2>7 DEF HandlesDiffer
  <2>9. NamesMatch'
    <3>1. \A u \in Threads : sem[u] # NULL /\ pc[u] \notin {"free", "clear"} =>
             word'[sem[u]] = word[sem[u]] /\ word[sem[u]] # h
      BY <2>7 DEF UsersDiffer, Uses, Filled
    <3>2. \A u \in Threads : u # t /\ pc[u] = "check" =>
             word'[blk[u]] = word[blk[u]] /\ word[blk[u]] # h
      BY <2>7 DEF UsersDiffer, Uses, Filled
    <3> QED BY <3>1, <3>2 DEF NamesMatch
  <2> QED BY <2>2, <2>3, <2>6, <2>8, <2>9
<1>4. ASSUME NEW t \in Threads, OpenExists(t) PROVE IInv'
  <2> USE <1>4 DEF OpenExists, Goto, IInv, TypeOK
  <2> DEFINE h == word[blk[t]]
  <2>1. h \in Handles /\ blk[t] \in Blocks /\ Filled(t, blk[t])
    BY DEF FilledIsOpen, IsOpen, Filled
  <2>2. TypeOK' /\ WordsTyped'
    BY <2>1 DEF WordsTyped
  <2>3. UsersDiffer' /\ UsesDiffer' /\ UsedIsLive'
    BY DEF UsersDiffer, UsesDiffer, UsedIsLive, Uses
  <2>5. \A u \in Threads, b \in Blocks :
           Filled(u, b)' => Filled(u, b) /\ b # blk[t]
    BY <2>1 DEF Filled, UsersDiffer, UsesDiffer, Uses, NamesMatch
  <2>6. \A u \in Threads, b \in Blocks : Filled(u, b)' => word[b] # h
    BY <2>1, <2>5 DEF HandlesDiffer
  <2>7. FilledIsOpen' /\ HandlesDiffer'
    BY <2>1, <2>5, <2>6 DEF FilledIsOpen, HandlesDiffer, IsOpen
  <2>8. NamesMatch'
    <3>1. \A u \in Threads : sem[u] # NULL /\ pc'[u] \notin {"free", "clear"} =>
             word[sem[u]] # h
      BY <2>6 DEF Filled
    <3>2. \A u \in Threads : pc'[u] = "check" => word[blk[u]] # h
      BY <2>6 DEF Filled
    <3> QED BY <2>1, <3>1, <3>2 DEF NamesMatch
  <2> QED BY <2>2, <2>3, <2>7, <2>8
<1>5. ASSUME NEW t \in Threads, OpenReturn(t) PROVE IInv'
  <2> USE <1>5 DEF OpenReturn, Done, Goto, IInv, TypeOK
  <2>2. TypeOK' /\ WordsTyped'
    BY DEF WordsTyped
  <2>3. UsersDiffer' /\ UsesDiffer' /\ UsedIsLive'
    BY DEF UsersDiffer, UsesDiffer, UsedIsLive, Uses
  <2>4. \A u \in Threads, b \in Blocks : Filled(u, b)' => Filled(u, b)
    BY DEF Filled
  <2>5. FilledIsOpen' /\ HandlesDiffer' /\ NamesMatch'
    BY <2>4 DEF FilledIsOpen, HandlesDiffer, NamesMatch, IsOpen
  <2> QED BY <2>2, <2>3, <2>5
<1>6. ASSUME NEW t \in Threads, NEW p \in {sem[t], t} \ {NULL}, SemDestroy(t, p)
      PROVE  IInv'
  <2> USE <1>6 DEF SemDestroy, Goto, IInv, TypeOK
  <2> DEFINE h == word[sem[t]]
  <2>1. p = sem[t] /\ sem[t] \in Blocks /\ h \in Handles /\ Filled(t, sem[t])
    BY DEF WordsTyped, IsOpen, Filled
  <2>2. TypeOK' /\ WordsTyped'
    BY <2>1 DEF WordsTyped
  <2>3. UsersDiffer' /\ UsesDiffer' /\ UsedIsLive'
    BY <2>1 DEF UsersDiffer, UsesDiffer, UsedIsLive, Uses
  <2>5. \A u \in Threads, b \in Blocks :
           Filled(u, b)' => Filled(u, b) /\ b # sem[t]
    BY <2>1 DEF Filled, UsersDiffer, UsesDiffer, Uses
  <2>6. \A u \in Threads, b \in Blocks : Filled(u, b)' => word[b] # h
    BY <2>1, <2>5 DEF HandlesDiffer
  <2>7. FilledIsOpen' /\ HandlesDiffer'
    BY <2>1, <2>5, <2>6 DEF FilledIsOpen, HandlesDiffer, IsOpen
  <2>8. NamesMatch'
    <3>1. \A u \in Threads : sem[u] # NULL /\ pc'[u] \notin {"free", "clear"} =>
             word[sem[u]] # h
      BY <2>6 DEF Filled
    <3>2. \A u \in Threads : pc'[u] = "check" => word[blk[u]] # h
      BY <2>1, <2>6 DEF Filled
    <3> QED BY <2>1, <3>1, <3>2 DEF NamesMatch
  <2> QED BY <2>2, <2>3, <2>7, <2>8
<1>7. ASSUME NEW t \in Threads, DestroyFree(t) PROVE IInv'
  <2> USE <1>7 DEF DestroyFree, FreeBlk, Goto, IInv, TypeOK
  <2>2. TypeOK' /\ WordsTyped'
    BY DEF WordsTyped
  <2>3. UsersDiffer' /\ UsesDiffer' /\ UsedIsLive'
    BY DEF UsersDiffer, UsesDiffer, UsedIsLive, Uses
  <2>4. FilledIsOpen' /\ HandlesDiffer' /\ NamesMatch'
    BY DEF FilledIsOpen, HandlesDiffer, NamesMatch, Filled, IsOpen
  <2> QED BY <2>2, <2>3, <2>4
<1>8. ASSUME NEW t \in Threads, DestroyClear(t) PROVE IInv'
  <2> USE <1>8 DEF DestroyClear, Done, Goto, IInv, TypeOK
  <2>1. blk[t] \in Blocks /\ blk[t] = sem[t] /\ blk[t] # word[t]
    BY DEF UsesDiffer
  <2>2. TypeOK' /\ WordsTyped'
    BY <2>1 DEF WordsTyped
  <2>3. UsersDiffer' /\ UsesDiffer' /\ UsedIsLive'
    BY <2>1 DEF UsersDiffer, UsesDiffer, UsedIsLive, Uses
  <2>4. \A u \in Threads, b \in Blocks :
           Filled(u, b)' => Filled(u, b) /\ b # blk[t]
    BY <2>1 DEF Filled, UsersDiffer, Uses
  <2>5. FilledIsOpen' /\ HandlesDiffer'
    BY <2>1, <2>4 DEF FilledIsOpen, HandlesDiffer, IsOpen
  <2>6. NamesMatch'
    BY <2>1 DEF NamesMatch, UsersDiffer, Uses
  <2> QED BY <2>2, <2>3, <2>5, <2>6
<1>9. ASSUME NEW t \in Threads, SemInit(t) PROVE IInv'
  <2> PICK b \in Reusable : Calloc(t, b)
    BY <1>9 DEF SemInit, Calloc
  <2>1. b \in Blocks /\ b \notin live /\ \A u \in Threads : ~ Uses(u, b)
    BY CallocFresh
  <2> USE <1>9, <2>1 DEF SemInit, Calloc, Goto, IInv, TypeOK
  <2>2. TypeOK' /\ WordsTyped'
    BY DEF WordsTyped
  <2>3. UsersDiffer' /\ UsesDiffer' /\ UsedIsLive'
    BY DEF UsersDiffer, UsesDiffer, UsedIsLive, Uses
  <2>4. FilledIsOpen' /\ HandlesDiffer' /\ NamesMatch'
    BY DEF FilledIsOpen, HandlesDiffer, NamesMatch, Filled, Uses, IsOpen, UsesDiffer
  <2> QED BY <2>2, <2>3, <2>4
<1>10. ASSUME NEW t \in Threads, NEW shared \in PShared, InitCreate(t, shared)
       PROVE  IInv'
  <2> USE <1>10 DEF InitCreate, Done, Goto, IInv, TypeOK
  <2> DEFINE o == IF shared THEN blk[t] ELSE ANON
  <2> PICK h \in FreeHandles :
        /\ ktab' = [ktab EXCEPT ![h] = o]
        /\ word' = [word EXCEPT ![blk[t]] = h, ![t] = blk[t]]
    OBVIOUS
  <2>1. h \in Handles /\ ktab[h] = NULL /\ blk[t] \in Blocks /\ t \notin Blocks
        /\ word[t] = NULL /\ o # NULL /\ o \in Blocks \cup {ANON}
    BY DEF FreeHandles, NamesMatch
  <2> HIDE DEF o
  <2> USE <2>1
  <2>2. TypeOK' /\ WordsTyped'
    <3>1. word' \in [Address -> Handles \cup Blocks \cup {NULL}]
      OBVIOUS
    <3>2. ktab' \in [Handles -> Names \cup Blocks \cup {ANON, NULL}]
      OBVIOUS
    <3>3. existed' \in [Threads -> BOOLEAN]
      BY DEF Exists
    <3> QED BY <3>1, <3>2, <3>3 DEF WordsTyped
  <2>3. UsersDiffer' /\ UsesDiffer' /\ UsedIsLive'
    BY DEF UsersDiffer, UsesDiffer, UsedIsLive, Uses, WordsTyped
  <2>5. \A u \in Threads, b \in Blocks :
           Filled(u, b)' => (u = t /\ b = blk[t]) \/ (Filled(u, b) /\ b # blk[t])
    BY DEF Filled, UsersDiffer, UsesDiffer, Uses, WordsTyped
  <2>6. FilledIsOpen'
    BY <2>5 DEF FilledIsOpen, IsOpen
  <2>7. \A u \in Threads, b \in Blocks : Filled(u, b) => word[b] # h
    BY DEF FilledIsOpen, IsOpen
  <2>8. HandlesDiffer'
    BY <2>5, <2>7 DEF HandlesDiffer
  <2>9. NamesMatch'
    <3>1. \A u \in Threads : sem[u] # NULL /\ pc[u] \notin {"free", "clear"} =>
             word'[sem[u]] = word[sem[u]] /\ word[sem[u]] # h
      BY <2>7 DEF UsersDiffer, UsesDiffer, Uses, Filled
    <3>2. \A u \in Threads : u # t /\ pc[u] = "check" =>
             word'[blk[u]] = word[blk[u]] /\ word[blk[u]] # h
      BY <2>7 DEF UsersDiffer, Uses, Filled
    <3> QED BY <3>1, <3>2 DEF NamesMatch
  <2> QED BY <2>2, <2>3, <2>6, <2>8, <2>9
<1>11. ASSUME NEW o \in RemoteObjects, RemoteOpen(o) \/ RemoteClose(o)
       PROVE  IInv'
  BY <1>11 DEF RemoteOpen, RemoteClose, IInv, TypeOK, WordsTyped, UsersDiffer,
     UsesDiffer, UsedIsLive, FilledIsOpen, HandlesDiffer, NamesMatch, Uses,
     Filled, IsOpen
<1>12. CASE UNCHANGED vars
  BY <1>12 DEF vars, IInv, TypeOK, WordsTyped, UsersDiffer, UsesDiffer,
     UsedIsLive, FilledIsOpen, HandlesDiffer, NamesMatch, Uses, Filled, IsOpen
<1> QED BY <1>1, <1>2, <1>3, <1>4, <1>5, <1>6, <1>7, <1>8, <1>9, <1>10, <1>11,
           <1>12 DEF Next, Step

LEMMA InvHolds ==
    ASSUME Quarantine = TRUE
    PROVE  Spec => []IInv
<1>1. IInv /\ [Next]_vars => IInv'
  BY StepInv
<1> QED BY <1>1, InitInv, PTL DEF Spec

-------------------------------------------------------------------------------
(* What follows                                                            *)

\* The state keeps its types, and a thread inside a call of semaphore.c works on
\* a block while one outside of them does not (sem_open, sem_init, sem_close).
THEOREM TypesKept ==
    ASSUME Quarantine = TRUE
    PROVE  Spec => []TypeOK
<1>1. IInv => TypeOK
  BY DEF IInv
<1> QED BY <1>1, InvHolds, PTL

\* The pointer sem_open returned reaches the kernel object of its name until the
\* thread closes it, whatever the other threads open, close and initialise.
THEOREM OpenedUsable ==
    ASSUME Quarantine = TRUE
    PROVE  Spec => []OpenedIsUsable
<1>1. IInv => OpenedIsUsable
  BY DEF IInv, TypeOK, FilledIsOpen, NamesMatch, Filled, OpenedIsUsable, HasOpen
<1> QED BY <1>1, InvHolds, PTL

\* Every path through the calls frees the block it does not hand out.
THEOREM BlocksAccounted ==
    ASSUME Quarantine = TRUE
    PROVE  Spec => []NoBlockLeak
<1>1. Init => NoBlockLeak
  BY DEF Init, NoBlockLeak
<1>2. IInv /\ NoBlockLeak /\ [Next]_vars => NoBlockLeak'
  <2> SUFFICES ASSUME IInv, NoBlockLeak, [Next]_vars PROVE NoBlockLeak'
    OBVIOUS
  <2> USE LifecycleAssumption DEF IInv, TypeOK, InCall, Address
  <2>1. SUFFICES ASSUME NEW b \in live'
                 PROVE  \E u \in Threads : Uses(u, b)'
    BY DEF NoBlockLeak, Uses
  <2>2. b \in Blocks /\ (b \in live => \E u \in Threads : Uses(u, b))
    <3>1. IInv'
      BY StepInv
    <3> QED BY <2>1, <3>1 DEF NoBlockLeak, Uses
  <2>3. ASSUME UNCHANGED <<live, word, blk, sem>>
        PROVE  \E u \in Threads : Uses(u, b)'
    BY <2>1, <2>2, <2>3 DEF Uses
  <2>4. ASSUME NEW t \in Threads, pc[t] = "run",
               \E c \in Blocks : Calloc(t, c), sem' = sem
        PROVE  \E u \in Threads : Uses(u, b)'
    <3>1. blk[t] = NULL
      BY <2>4
    <3> QED BY <2>1, <2>2, <2>4, <3>1 DEF Calloc, Uses
  <2>5. ASSUME NEW t \in Threads, blk[t] \notin live', blk'= [blk EXCEPT ![t] = NULL],
               live' \subseteq live, UNCHANGED <<word, sem>>
        PROVE  \E u \in Threads : Uses(u, b)'
    BY <2>1, <2>2, <2>5 DEF Uses
  <2>6. ASSUME NEW t \in Threads,
               (\E n \in Names, f \in OFlags : SemOpen(t, n, f)) \/ SemInit(t)
        PROVE  \E u \in Threads : Uses(u, b)'
    BY <2>4, <2>6 DEF SemOpen, SemInit
  <2>7. ASSUME NEW t \in Threads,
               \/ OpenCreateFailed(t) \/ OpenBackout(t) \/ OpenAbsent(t)
               \/ InitFailed(t)
        PROVE  \E u \in Threads : Uses(u, b)'
    <3>1. /\ live' = live \ {blk[t]} /\ blk' = [blk EXCEPT ![t] = NULL]
          /\ UNCHANGED <<word, sem>>
      BY <2>7 DEF OpenCreateFailed, OpenBackout, OpenAbsent, InitFailed, FreeBlk, Done
    <3> QED BY <2>5, <3>1
  <2>8. ASSUME NEW t \in Threads, OpenCreate(t)
        PROVE  \E u \in Threads : Uses(u, b)'
    <3>1. blk[t] \in Blocks
      BY <2>8 DEF OpenCreate
    <3> QED BY <2>1, <2>2, <2>8, <3>1 DEF OpenCreate, Uses
  <2>9. ASSUME NEW t \in Threads, OpenReturn(t)
        PROVE  \E u \in Threads : Uses(u, b)'
    <3>1. sem[t] = NULL
      BY <2>9 DEF OpenReturn, NamesMatch
    <3> QED BY <2>1, <2>2, <2>9, <3>1 DEF OpenReturn, Done, Uses
  <2>10. ASSUME NEW t \in Threads, DestroyFree(t)
         PROVE  \E u \in Threads : Uses(u, b)'
    BY <2>1, <2>2, <2>10 DEF DestroyFree, FreeBlk, Uses
  <2>11. ASSUME NEW t \in Threads, DestroyClear(t)
         PROVE  \E u \in Threads : Uses(u, b)'
    <3>1. blk[t] \in Blocks /\ blk[t] = sem[t] /\ blk[t] \notin live
      BY <2>11 DEF DestroyClear, UsesDiffer, UsedIsLive, Uses
    <3> QED BY <2>1, <2>2, <2>11, <3>1 DEF DestroyClear, Done, Uses
  <2>12. ASSUME NEW t \in Threads, NEW shared \in PShared, InitCreate(t, shared)
         PROVE  \E u \in Threads : Uses(u, b)'
    <3>1. blk[t] \in Blocks /\ word[t] = NULL
      BY <2>12 DEF InitCreate, NamesMatch
    <3>2. /\ word'[t] = blk[t] /\ live' = live /\ sem' = sem
          /\ \A u \in Threads \ {t} : word'[u] = word[u] /\ blk'[u] = blk[u]
      BY <2>12, <3>1 DEF InitCreate, Done
    <3> QED BY <2>1, <2>2, <3>1, <3>2 DEF Uses
  <2>13. ASSUME NEW t \in Threads,
                \/ OpenExists(t)
                \/ \E p \in {sem[t], t} \ {NULL} : SemDestroy(t, p)
         PROVE  \E u \in Threads : Uses(u, b)'
    <3>1. CASE OpenExists(t)
      BY <2>3, <3>1 DEF OpenExists
    <3>2. ASSUME NEW p \in {sem[t], t} \ {NULL}, SemDestroy(t, p)
          PROVE  \E u \in Threads : Uses(u, b)'
      <4>1. blk[t] = NULL
        BY <3>2 DEF SemDestroy
      <4> QED BY <2>1, <2>2, <3>2, <4>1 DEF SemDestroy, Uses
    <3> QED BY <2>13, <3>1, <3>2
  <2>14. CASE \/ \E o \in RemoteObjects : RemoteOpen(o) \/ RemoteClose(o)
              \/ UNCHANGED vars
    BY <2>3, <2>14 DEF RemoteOpen, RemoteClose, vars
  <2> QED BY <2>6, <2>7, <2>8, <2>9, <2>10, <2>11, <2>12, <2>13, <2>14
          DEF Next, Step
<1> QED BY <1>1, <1>2, InvHolds, PTL DEF Spec

\* A thread that created its semaphore with O_CREAT | O_EXCL, from the moment
\* CreateSemaphoreA made it until the thread closes it.
Holds(t) ==
    /\ call[t].creat /\ call[t].excl
    /\ \/ pc[t] = "check" /\ ~ existed[t]
       \/ sem[t] # NULL /\ pc[t] \notin {"free", "clear"}

HoldersDiffer ==
    \A t, u \in Threads :
       Holds(t) /\ Holds(u) /\ call[t].name = call[u].name => t = u

\* While a thread holds it so, the object exists.
LEMMA HeldExists ==
    ASSUME IInv, NEW t \in Threads, Holds(t)
    PROVE  Exists(call[t].name)
<1>1. PICK b \in Blocks : Filled(t, b) /\ ktab[word[b]] = call[t].name
  BY DEF IInv, TypeOK, NamesMatch, Holds, Filled, InCall
<1>2. word[b] \in Handles
  BY <1>1 DEF IInv, FilledIsOpen, IsOpen
<1> QED BY <1>1, <1>2 DEF Exists

\* Of the threads that have a name open, at most one created it exclusively.
THEOREM Exclusion ==
    ASSUME Quarantine = TRUE
    PROVE  Spec => []ExclusiveOwner
<1>1. Init => HoldersDiffer
  BY DEF Init, HoldersDiffer, Holds, NoCall
<1>2. IInv /\ HoldersDiffer /\ [Next]_vars => HoldersDiffer'
  <2> SUFFICES ASSUME IInv, HoldersDiffer, [Next]_vars PROVE HoldersDiffer'
    OBVIOUS
  <2> USE LifecycleAssumption DEF IInv, TypeOK, InCall
  <2>1. ASSUME \A u \in Threads : Holds(u)' => Holds(u) /\ call'[u] = call[u]
        PROVE  HoldersDiffer'
    BY <2>1 DEF HoldersDiffer
  <2>2. ASSUME NEW t \in Threads, OpenCreate(t) PROVE HoldersDiffer'
    <3>1. \A u \in Threads \ {t} : Holds(u)' => Holds(u)
      BY <2>2 DEF OpenCreate, Holds, Goto
    <3>2. Holds(t)' => ~ Exists(call[t].name)
      BY <2>2 DEF OpenCreate, Holds, Goto, NamesMatch
    <3>3. \A u \in Threads : Holds(u) => Exists(call[u].name)
      BY HeldExists
    <3>4. call' = call
      BY <2>2 DEF OpenCreate
    <3> QED BY <3>1, <3>2, <3>3, <3>4 DEF HoldersDiffer
  <2>3. ASSUME NEW t \in Threads, NEW n \in Names, NEW f \in OFlags,
               SemOpen(t, n, f)
        PROVE  HoldersDiffer'
    BY <2>1, <2>3 DEF SemOpen, Goto, Holds
  <2>4. ASSUME NEW t \in Threads, NEW p \in {sem[t], t} \ {NULL}, SemDestroy(t, p)
        PROVE  HoldersDiffer'
    BY <2>1, <2>4 DEF SemDestroy, Goto, Holds
  <2>5. ASSUME NEW t \in Threads, OpenReturn(t) PROVE HoldersDiffer'
    BY <2>1, <2>5 DEF OpenReturn, Done, Goto, Holds
  <2>6. ASSUME NEW t \in Threads, DestroyFree(t) \/ DestroyClear(t)
        PROVE  HoldersDiffer'
    BY <2>1, <2>6 DEF DestroyFree, DestroyClear, Done, Goto, Holds
  <2>7. ASSUME NEW t \in Threads,
               \/ OpenCreateFailed(t) \/ OpenBackout(t) \/ OpenAbsent(t)
               \/ InitFailed(t) \/ OpenExists(t) \/ SemInit(t)
               \/ \E shared \in PShared : InitCreate(t, shared)
        PROVE  HoldersDiffer'
    BY <2>1, <2>7 DEF OpenCreateFailed, OpenBackout, OpenAbsent, InitFailed,
       OpenExists, SemInit, InitCreate, Done, Goto, Holds
  <2>8. CASE \/ \E o \in RemoteObjects : RemoteOpen(o) \/ RemoteClose(o)
             \/ UNCHANGED vars
    BY <2>1, <2>8 DEF RemoteOpen, RemoteClose, vars, Holds
  <2> QED BY <2>2, <2>3, <2>4, <2>5, <2>6, <2>7, <2>8 DEF Next, Step
<1>3. HoldersDiffer => ExclusiveOwner
  BY DEF HoldersDiffer, Holds, ExclusiveOwner, Exclusive, HasOpen
<1> QED BY <1>1, <1>2, <1>3, InvHolds, PTL DEF Spec

\* A step changes no block a sem_t points to, nor the handle in it.
LEMMA InitedStep ==
    ASSUME Quarantine = TRUE, IInv, [Next]_vars, NEW t \in Threads, word[t] # NULL
    PROVE  /\ word'[t] = word[t] /\ word[t] \in live'
           /\ word'[word[t]] = word[word[t]] /\ IsOpen(word[word[t]])
           /\ ktab'[word[word[t]]] = ktab[word[word[t]]]
<1> USE LifecycleAssumption DEF Address, InCall
<1> DEFINE c == word[t]
           h == word[c]
           Same == word'[t] = c /\ word'[c] = h /\ ktab'[h] = ktab[h]
<1>1. /\ c \in Blocks /\ Uses(t, c) /\ Filled(t, c) /\ h \in Handles /\ IsOpen(h)
      /\ t \in Address /\ c \in Address /\ t \notin Blocks
      /\ word \in [Address -> Handles \cup Blocks \cup {NULL}]
      /\ ktab \in [Handles -> Names \cup Blocks \cup {ANON, NULL}]
  BY DEF IInv, TypeOK, WordsTyped, Uses, Filled, FilledIsOpen, IsOpen
<1>2. \A u \in Threads : c # blk[u] /\ c # sem[u]
  BY <1>1 DEF IInv, UsersDiffer, UsesDiffer, Uses
<1>3. SUFFICES Same
  <2>1. Same => Uses(t, c)' /\ blk'[t] # c
    <3>1. ASSUME Same PROVE blk'[t] # c
      <4>1. IInv'
        BY StepInv
      <4> QED BY <1>1, <3>1, <4>1 DEF IInv, UsesDiffer
    <3> QED BY <3>1 DEF Uses
  <2>2. Same => c \in live'
    <3>1. IInv'
      BY StepInv
    <3> QED BY <1>1, <2>1, <3>1 DEF IInv, UsedIsLive
  <2> QED BY <1>1, <2>2
<1> HIDE DEF c, h
<1>4. ASSUME UNCHANGED <<word, ktab>> PROVE Same
  BY <1>4 DEF c, h
<1>5. ASSUME NEW u \in Threads, OpenCreate(u) \/ \E shared \in PShared : InitCreate(u, shared)
      PROVE  Same
  <2>1. PICK g \in FreeHandles : \E o : ktab' = [ktab EXCEPT ![g] = o]
    BY <1>5 DEF OpenCreate, InitCreate
  <2>2. g # h
    BY <1>1, <2>1 DEF FreeHandles, IsOpen
  <2>3. word'[t] = word[t] /\ word'[c] = word[c]
    <3>1. CASE OpenCreate(u)
      BY <1>1, <1>2, <3>1 DEF OpenCreate, IInv, TypeOK
    <3>2. ASSUME NEW shared \in PShared, InitCreate(u, shared) PROVE word'[t] = word[t] /\ word'[c] = word[c]
      <4>1. u # t /\ blk[u] \in Blocks
        BY <3>2, <1>1 DEF InitCreate, IInv, TypeOK, NamesMatch
      <4> QED BY <1>1, <1>2, <3>2, <4>1 DEF InitCreate
    <3> QED BY <1>5, <3>1, <3>2
  <2> QED BY <1>1, <2>1, <2>2, <2>3 DEF c, h
<1>6. ASSUME NEW u \in Threads, NEW b \in Reusable, Calloc(u, b), ktab' = ktab PROVE Same
  <2>1. b \in Blocks /\ ~Uses(t, b)
    BY CallocFresh
  <2> QED BY <1>1, <1>6, <2>1 DEF Calloc, c, h, Uses
<1>7. ASSUME NEW u \in Threads, OpenExists(u) PROVE Same
  <2>1. Filled(u, blk[u]) /\ blk[u] \in Blocks
    BY <1>7 DEF OpenExists, Filled, IInv, TypeOK
  <2>2. word[blk[u]] # h
    BY <1>1, <1>2, <2>1 DEF IInv, HandlesDiffer, h
  <2> QED BY <1>1, <1>7, <2>2 DEF OpenExists, c, h
<1>8. ASSUME NEW u \in Threads, NEW p \in {sem[u], u} \ {NULL}, SemDestroy(u, p) PROVE Same
  <2>1. p = sem[u] /\ sem[u] \in Blocks /\ Filled(u, sem[u])
    BY <1>8 DEF SemDestroy, IInv, TypeOK, WordsTyped, IsOpen, Filled
  <2>2. word[p] # h
    BY <1>1, <1>2, <2>1 DEF IInv, HandlesDiffer, h
  <2> QED BY <1>1, <1>8, <2>2 DEF SemDestroy, c, h
<1>9. ASSUME NEW u \in Threads, DestroyClear(u) PROVE Same
  <2>1. blk[u] \in Blocks
    BY <1>9 DEF DestroyClear, IInv, TypeOK
  <2> QED BY <1>1, <1>2, <1>9, <2>1 DEF DestroyClear, c, h
<1>10. ASSUME NEW u \in Threads, (\E n \in Names, f \in OFlags : SemOpen(u, n, f)) \/ SemInit(u)
       PROVE  Same
  <2>1. ktab' = ktab /\ \E b \in Reusable : Calloc(u, b)
    BY <1>10 DEF SemOpen, SemInit, Calloc
  <2> QED BY <1>6, <2>1
<1> QED BY <1>4, <1>5, <1>7, <1>8, <1>9, <1>10
        DEF Next, Step, OpenCreateFailed, OpenBackout, OpenAbsent, OpenReturn, DestroyFree,
            InitFailed, RemoteOpen, RemoteClose, vars

\* With any number of threads nothing any of them calls undoes a sem_init: its
\* block and its kernel object are never given back (sem_init, sem_destroy).
THEOREM InitLasts ==
    ASSUME Quarantine = TRUE
    PROVE  Spec => InitedStays
<1>1. IInv /\ [Next]_vars =>
          [\A t \in Threads : word[t] # NULL =>
              /\ word'[t] = word[t] /\ word[t] \in live'
              /\ word'[word[t]] = word[word[t]] /\ IsOpen(word[word[t]])
              /\ ktab'[word[word[t]]] = ktab[word[word[t]]]]_vars
  BY InitedStep
<1> QED BY <1>1, InvHolds, PTL DEF Spec, InitedStays

-------------------------------------------------------------------------------
(* Who keeps a named object alive                                          *)

\* The thread has the handle open, or is about to return or give it up.
Knows(t, h) ==
    \/ sem[t] # NULL /\ pc[t] \notin {"free", "clear"} /\ word[sem[t]] = h
    \/ pc[t] = "check" /\ word[blk[t]] = h

\* Every handle of a named object is known to a thread.
NamedKnown == \A h \in Handles : ktab[h] \in Names => \E t \in Threads : Knows(t, h)

\* A thread inside sem_open was given O_CREAT.
Creating == \A t \in Threads : pc[t] \in {"create", "check"} => call[t].creat

LEMMA CreatingStep ==
    ASSUME \A f \in OFlags : f.creat, IInv, Creating, [Next]_vars
    PROVE  Creating'
<1> USE LifecycleAssumption DEF Creating, IInv, TypeOK, InCall, Goto, Done
<1>1. ASSUME NEW t \in Threads, NEW n \in Names, NEW f \in OFlags, SemOpen(t, n, f)
      PROVE  Creating'
  BY <1>1 DEF SemOpen
<1>2. ASSUME NEW t \in Threads, OpenCreate(t) PROVE Creating'
  BY <1>2 DEF OpenCreate
<1>3. ASSUME NEW t \in Threads,
             pc' = [pc EXCEPT ![t] = pc'[t]], pc'[t] \notin {"create", "check"}, call' = call
      PROVE  Creating'
  BY <1>3
<1>4. ASSUME NEW t \in Threads,
             \/ OpenCreateFailed(t) \/ OpenExists(t) \/ OpenBackout(t) \/ OpenAbsent(t)
             \/ OpenReturn(t) \/ DestroyFree(t) \/ DestroyClear(t) \/ InitFailed(t)
             \/ SemInit(t)
             \/ \E p \in {sem[t], t} \ {NULL} : SemDestroy(t, p)
             \/ \E shared \in PShared : InitCreate(t, shared)
      PROVE  Creating'
  <2>1. /\ pc' = [pc EXCEPT ![t] = pc'[t]] /\ call' = call
        /\ pc'[t] \in {"run", "backout", "free", "clear", "init"}
    BY <1>4 DEF OpenCreateFailed, OpenExists, OpenBackout, OpenAbsent, OpenReturn,
       DestroyFree, DestroyClear, InitFailed, SemInit, SemDestroy, InitCreate
  <2> QED BY <1>3, <2>1
<1>5. CASE UNCHANGED <<pc, call>>
  BY <1>5
<1> QED BY <1>1, <1>2, <1>4, <1>5 DEF Next, Step, RemoteOpen, RemoteClose, vars

LEMMA NamedKnownStep ==
    ASSUME Quarantine = TRUE, IInv, Creating, NamedKnown, [Next]_vars
    PROVE  NamedKnown'
<1> USE LifecycleAssumption DEF IInv, TypeOK, InCall, Address, Goto
<1> SUFFICES ASSUME NEW h \in Handles, ktab'[h] \in Names
             PROVE  \E t \in Threads : Knows(t, h)'
  BY DEF NamedKnown
<1>0. ASSUME ktab[h] \in Names PROVE \E t \in Threads : Knows(t, h)
  BY <1>0 DEF NamedKnown
<1>1. ASSUME UNCHANGED <<word, ktab, sem, blk>>, NEW t \in Threads,
             pc' = [pc EXCEPT ![t] = pc'[t]],
             pc'[t] = pc[t] \/ (pc[t] # "check" /\ (sem[t] = NULL \/ pc[t] \in {"free", "clear"}))
      PROVE  \E u \in Threads : Knows(u, h)'
  <2>1. PICK u \in Threads : Knows(u, h)
    BY <1>0, <1>1
  <2> QED BY <1>1, <2>1 DEF Knows
<1>2. ASSUME NEW t \in Threads, NEW b \in Reusable, Calloc(t, b), pc[t] = "run",
             pc' = [pc EXCEPT ![t] = pc'[t]], pc'[t] \in {"create", "init"},
             UNCHANGED <<ktab, sem>>
      PROVE  \E u \in Threads : Knows(u, h)'
  <2>1. PICK u \in Threads : Knows(u, h)
    BY <1>0, <1>2
  <2>2. b \in Blocks /\ \A v \in Threads : ~Uses(v, b)
    BY CallocFresh
  <2> QED BY <1>2, <2>1, <2>2 DEF Knows, Calloc, Uses
<1>3. ASSUME NEW t \in Threads,
             OpenCreateFailed(t) \/ OpenBackout(t) \/ InitFailed(t)
      PROVE  \E u \in Threads : Knows(u, h)'
  <2>1. PICK u \in Threads : Knows(u, h)
    BY <1>0, <1>3 DEF OpenCreateFailed, OpenBackout, InitFailed
  <2>2. /\ pc[t] \in {"create", "backout", "init"} /\ pc' = [pc EXCEPT ![t] = "run"]
        /\ blk' = [blk EXCEPT ![t] = NULL] /\ UNCHANGED <<word, sem>>
    BY <1>3 DEF OpenCreateFailed, OpenBackout, InitFailed, Done
  <2> QED BY <2>1, <2>2 DEF Knows
<1>4. ASSUME NEW t \in Threads, OpenCreate(t) PROVE \E u \in Threads : Knows(u, h)'
  <2>1. blk[t] \in Blocks /\ sem[t] = NULL /\ blk' = blk /\ sem' = sem
        /\ pc[t] = "create" /\ pc' = [pc EXCEPT ![t] = "check"]
    BY <1>4 DEF OpenCreate, NamesMatch
  <2>2. PICK g \in FreeHandles :
          /\ ktab' = [ktab EXCEPT ![g] = call[t].name]
          /\ word' = [word EXCEPT ![blk[t]] = g]
    BY <1>4 DEF OpenCreate
  <2>3. CASE h = g
    <3>1. word'[blk[t]] = g
      BY <2>1, <2>2
    <3> QED BY <2>1, <2>3, <3>1 DEF Knows
  <2>4. CASE h # g
    <3>1. PICK u \in Threads : Knows(u, h)
      BY <1>0, <2>2, <2>4
    <3>2. u # t
      BY <2>1, <3>1 DEF Knows
    <3>3. sem[u] # blk[t] /\ blk[u] # blk[t]
      BY <2>1, <3>2 DEF UsersDiffer, Uses
    <3> QED BY <2>1, <2>2, <3>1, <3>2, <3>3 DEF Knows
  <2> QED BY <2>3, <2>4
<1>5. ASSUME NEW t \in Threads, OpenExists(t) PROVE \E u \in Threads : Knows(u, h)'
  <2>1. h # word[blk[t]] /\ ktab[h] \in Names
    BY <1>5 DEF OpenExists
  <2>2. PICK u \in Threads : Knows(u, h)
    BY <1>0, <2>1
  <2>3. u # t
    BY <1>5, <2>1, <2>2 DEF OpenExists, Knows, NamesMatch
  <2> QED BY <1>5, <2>2, <2>3 DEF OpenExists, Knows
<1>6. ASSUME NEW t \in Threads, OpenReturn(t) PROVE \E u \in Threads : Knows(u, h)'
  <2>1. PICK u \in Threads : Knows(u, h)
    BY <1>0, <1>6 DEF OpenReturn
  <2>2. CASE u = t
    BY <1>6, <2>1, <2>2 DEF OpenReturn, Done, Knows, NamesMatch
  <2>3. CASE u # t
    BY <1>6, <2>1, <2>3 DEF OpenReturn, Done, Knows
  <2> QED BY <2>2, <2>3
<1>7. ASSUME NEW t \in Threads, NEW p \in {sem[t], t} \ {NULL}, SemDestroy(t, p)
      PROVE  \E u \in Threads : Knows(u, h)'
  <2>1. p = sem[t]
    BY <1>7 DEF SemDestroy, WordsTyped, IsOpen
  <2>2. h # word[p] /\ ktab[h] \in Names
    BY <1>7 DEF SemDestroy, IsOpen
  <2>3. PICK u \in Threads : Knows(u, h)
    BY <1>0, <2>2
  <2>4. u # t
    BY <1>7, <2>1, <2>2, <2>3 DEF SemDestroy, Knows
  <2> QED BY <1>7, <2>3, <2>4 DEF SemDestroy, Knows
<1>8. ASSUME NEW t \in Threads, DestroyClear(t) PROVE \E u \in Threads : Knows(u, h)'
  <2>1. PICK u \in Threads : Knows(u, h)
    BY <1>0, <1>8 DEF DestroyClear
  <2>2. blk[t] \in Blocks /\ pc[t] = "clear"
    BY <1>8 DEF DestroyClear
  <2>3. u # t
    BY <2>1, <2>2 DEF Knows
  <2>4. sem[u] # blk[t] /\ blk[u] # blk[t]
    BY <2>2, <2>3 DEF UsersDiffer, Uses
  <2> QED BY <1>8, <2>1, <2>2, <2>3, <2>4 DEF DestroyClear, Done, Knows
<1>9. ASSUME NEW t \in Threads, NEW shared \in PShared, InitCreate(t, shared)
      PROVE  \E u \in Threads : Knows(u, h)'
  <2>1. blk[t] \in Blocks /\ pc[t] = "init" /\ pc' = [pc EXCEPT ![t] = "run"]
        /\ blk' = [blk EXCEPT ![t] = NULL] /\ sem' = sem
    BY <1>9 DEF InitCreate, Done
  <2>2. PICK g \in FreeHandles :
          /\ ktab' = [ktab EXCEPT ![g] = IF shared THEN blk[t] ELSE ANON]
          /\ word' = [word EXCEPT ![blk[t]] = g, ![t] = blk[t]]
    BY <1>9 DEF InitCreate
  <2>3. h # g
    BY <2>1, <2>2
  <2>4. PICK u \in Threads : Knows(u, h)
    BY <1>0, <2>2, <2>3
  <2>5. /\ sem[u] # NULL => sem[u] \in Blocks /\ sem[u] # blk[t]
        /\ pc[u] = "check" => blk[u] \in Blocks /\ u # t /\ blk[u] # blk[t]
    BY <2>1 DEF UsersDiffer, UsesDiffer, Uses
  <2> QED BY <2>1, <2>2, <2>4, <2>5 DEF Knows
<1>10. ASSUME NEW t \in Threads, DestroyFree(t) PROVE \E u \in Threads : Knows(u, h)'
  BY <1>1, <1>10 DEF DestroyFree
<1>11. ASSUME NEW t \in Threads, (\E n \in Names, f \in OFlags : SemOpen(t, n, f)) \/ SemInit(t)
       PROVE  \E u \in Threads : Knows(u, h)'
  <2>1. /\ \E b \in Reusable : Calloc(t, b)
        /\ pc[t] = "run" /\ UNCHANGED <<ktab, sem>>
        /\ pc' = [pc EXCEPT ![t] = pc'[t]] /\ pc'[t] \in {"create", "init"}
    BY <1>11 DEF SemOpen, SemInit, Calloc
  <2> QED BY <1>2, <2>1
<1>12. CASE UNCHANGED <<word, ktab, sem, blk, pc>>
  BY <1>0, <1>12 DEF Knows
<1>13. ASSUME NEW t \in Threads, OpenAbsent(t) PROVE FALSE
  BY <1>13 DEF OpenAbsent, Creating
<1> QED BY <1>3, <1>4, <1>5, <1>6, <1>7, <1>8, <1>9, <1>10, <1>11, <1>12, <1>13
        DEF Next, Step, RemoteOpen, RemoteClose, vars

\* If every sem_open passes O_CREAT, a semaphore that no other process has open
\* exists only while some thread has it open, or is about to return or give it
\* up: every other path of sem_open and sem_destroy closes the handle it made.
\* Without that condition it is the ENOENT path that keeps one open.
THEOREM CreatedAreKept ==
    ASSUME Quarantine = TRUE, \A f \in OFlags : f.creat
    PROVE  Spec => []OnlyOpenedExists
<1>1. Init => Creating /\ NamedKnown
  BY LifecycleAssumption DEF Init, Creating, NamedKnown
<1>2. IInv /\ Creating /\ NamedKnown /\ [Next]_vars => Creating' /\ NamedKnown'
  BY CreatingStep, NamedKnownStep
<1>3. IInv /\ NamedKnown => OnlyOpenedExists
  <2> SUFFICES ASSUME IInv, NamedKnown, NEW n \in Names, Exists(n), n \notin remote
               PROVE  \E t \in Threads : call[t].name = n /\ (sem[t] # NULL \/ pc[t] # "run")
    BY DEF OnlyOpenedExists
  <2>1. PICK h \in Handles : ktab[h] = n
    BY DEF Exists
  <2>2. PICK t \in Threads : Knows(t, h)
    BY <2>1 DEF NamedKnown
  <2> QED BY <2>1, <2>2 DEF IInv, NamesMatch, Knows
<1> QED BY <1>1, <1>2, <1>3, InvHolds, PTL DEF Spec

===============================================================================
