------------------------- MODULE DataSemaphore_proofs --------------------------
(***************************************************************************)
(* Theorems about the C++ data semaphore for any process identifiers.  No  *)
(* call ever writes a process identifier other than 0 (Good): hence every  *)
(* call that would need one fails, and all that calls do to the counters   *)
(* and to dsem's mutex is to take (Below).  Below is reflexive and         *)
(* transitive, so that the calls of calls need no proof of their own.      *)
(***************************************************************************)
EXTENDS DataSemaphore, TLAPS

Mutex == [locked : BOOLEAN, process_id : {0}]

\* The processes that may wait: the paused one is always 0.
Waitings == SUBSET (PID \cup {0})

\* The states of the object: nobody owns a mutex, and nobody is paused.
Good == [sem : Mutex, dsem : Mutex, wait_lock : Mutex, pid : {0}, pid_paused : {0},
         units : Int, dunits : Int, waitings : Waitings]

\* t may follow s: nothing was given back.
Below(s, t) ==
    /\ t \in Good
    /\ t.units <= s.units /\ t.dunits <= s.dunits
    /\ s.dsem.locked => t.dsem.locked

LEMMA MoreWait ==
    ASSUME NEW W \in Waitings, NEW p \in PID \cup {0} PROVE W \cup {p} \in Waitings
BY DEF Waitings

LEMMA BelowIf ==
    ASSUME NEW s \in Good, NEW t \in Good,
           t.units \in {s.units, s.units - 1}, t.dunits \in {s.dunits, s.dunits - 1},
           s.dsem.locked => t.dsem.locked
    PROVE  Below(s, t)
<1>1. s.units \in Int /\ s.dunits \in Int
  BY DEF Good
<1> QED
  BY <1>1 DEF Below

LEMMA Stays == ASSUME NEW s \in Good PROVE Below(s, s)
BY BelowIf

LEMMA Follows ==
    ASSUME NEW r \in Good, NEW s, NEW t, Below(r, s), Below(s, t) PROVE Below(r, t)
<1>1. /\ r.units \in Int /\ s.units \in Int /\ t.units \in Int
      /\ r.dunits \in Int /\ s.dunits \in Int /\ t.dunits \in Int
  BY DEF Below, Good
<1> QED
  BY <1>1 DEF Below

-------------------------------------------------------------------------------
(* The mutexes of a good object.                                           *)

LEMMA GrantedToZero == ASSUME NEW m \in Mutex, NEW p PROVE Granted(m, p) <=> p = 0
BY DEF Mutex, Granted

LEMMA TryLockKeeps ==
    ASSUME NEW m \in Mutex, NEW p
    PROVE  TryLock(m, p) \in Mutex /\ (m.locked => TryLock(m, p).locked)
BY DEF Mutex, Granted, TryLock

LEMMA TryUnlockKeeps == ASSUME NEW m \in Mutex, NEW p PROVE TryUnlock(m, p) \in Mutex
BY DEF Mutex, TryUnlock, Free

-------------------------------------------------------------------------------
(* What the calls write.                                                   *)

LEMMA SemSet ==
    ASSUME NEW s \in Good, NEW m \in Mutex, NEW t, t = [s EXCEPT !.sem = m, !.pid = 0]
    PROVE  Below(s, t) /\ t \in Good
<1>1. t \in Good
  BY DEF Good
<1>2. t.units = s.units /\ t.dunits = s.dunits /\ t.dsem = s.dsem
  BY DEF Good
<1> QED
  BY <1>1, <1>2, BelowIf

\* A TryLock of sem.
LEMMA SemLocked ==
    ASSUME NEW s \in Good, NEW p, NEW t,
           \/ t = [s EXCEPT !.sem = TryLock(@, p)]
           \/ t = [s EXCEPT !.sem = TryUnlock(@, p)]
           \/ p = 0 /\ t = [s EXCEPT !.sem = TryLock(@, p), !.pid = p]
    PROVE  Below(s, t) /\ t \in Good
<1>1. PICK m \in Mutex : t = [s EXCEPT !.sem = m] \/ t = [s EXCEPT !.sem = m, !.pid = 0]
  <2>1. TryLock(s.sem, p) \in Mutex /\ TryUnlock(s.sem, p) \in Mutex
    BY TryLockKeeps, TryUnlockKeeps DEF Good
  <2> QED
    BY <2>1
<1>2. [s EXCEPT !.sem = m] = [s EXCEPT !.sem = m, !.pid = 0]
  BY DEF Good
<1> QED
  BY <1>1, <1>2, SemSet

LEMMA MoreWaiting ==
    ASSUME NEW s \in Good, NEW p \in PID \cup {0}, NEW t, t = [s EXCEPT !.waitings = @ \cup {p}]
    PROVE  Below(s, t) /\ t \in Good
<1>1. PICK W \in Waitings : t = [s EXCEPT !.waitings = W]
  BY MoreWait DEF Good
<1>2. t \in Good
  BY <1>1 DEF Good
<1>3. t.units = s.units /\ t.dunits = s.dunits /\ t.dsem = s.dsem
  BY <1>1 DEF Good
<1> QED
  BY <1>2, <1>3, BelowIf

LEMMA DsemLocked ==
    ASSUME NEW s \in Good, NEW p, NEW t, \/ t = [s EXCEPT !.dsem.locked = TRUE]
                                         \/ t = [s EXCEPT !.dsem = TryLock(@, p)]
    PROVE  Below(s, t) /\ t \in Good
<1>1. PICK m \in Mutex : t = [s EXCEPT !.dsem = m] /\ (s.dsem.locked => m.locked)
  <2>1. TryLock(s.dsem, p) \in Mutex /\ (s.dsem.locked => TryLock(s.dsem, p).locked)
    BY TryLockKeeps DEF Good
  <2>2. CASE t = [s EXCEPT !.dsem = TryLock(@, p)]
    BY <2>1, <2>2
  <2>3. CASE t = [s EXCEPT !.dsem.locked = TRUE]
    <3>1. [s.dsem EXCEPT !.locked = TRUE] \in Mutex
      BY DEF Good, Mutex
    <3>2. [s.dsem EXCEPT !.locked = TRUE].locked
      BY DEF Good, Mutex
    <3>3. t = [s EXCEPT !.dsem = [s.dsem EXCEPT !.locked = TRUE]]
      BY <2>3, Zenon
    <3> QED
      BY <3>1, <3>2, <3>3
  <2> QED
    BY <2>2, <2>3
<1>2. t \in Good
  BY <1>1 DEF Good
<1>3. t.units = s.units /\ t.dunits = s.dunits /\ t.dsem = m
  BY <1>1 DEF Good
<1> QED
  BY <1>1, <1>2, <1>3, BelowIf

LEMMA UnitTaken ==
    ASSUME NEW s \in Good, NEW t, t = [s EXCEPT !.units = @ - 1] \/ t = [s EXCEPT !.dunits = @ - 1]
    PROVE  Below(s, t) /\ t \in Good
<1>1. s.units - 1 \in Int /\ s.dunits - 1 \in Int
  BY DEF Good
<1>2. t \in Good
  BY <1>1 DEF Good
<1>3. t.units \in {s.units, s.units - 1} /\ t.dunits \in {s.dunits, s.dunits - 1} /\ t.dsem = s.dsem
  BY DEF Good
<1> QED
  BY <1>2, <1>3, BelowIf

\* The three assignments of a stop() that pauses process 0.
LEMMA Paused ==
    ASSUME NEW s \in Good, NEW t, t = [s EXCEPT !.wait_lock = TryLock(@, s.pid_paused),
                                                !.pid_paused = s.pid, !.pid = 0]
    PROVE  Below(s, t) /\ t \in Good
<1>1. PICK m \in Mutex : t = [s EXCEPT !.wait_lock = m, !.pid_paused = 0, !.pid = 0]
  <2>1. TryLock(s.wait_lock, s.pid_paused) \in Mutex /\ s.pid = 0
    BY TryLockKeeps DEF Good
  <2> QED
    BY <2>1
<1>2. t \in Good
  BY <1>1 DEF Good
<1>3. t.units = s.units /\ t.dunits = s.dunits /\ t.dsem = s.dsem
  BY <1>1 DEF Good
<1> QED
  BY <1>2, <1>3, BelowIf

-------------------------------------------------------------------------------
(* The calls.                                                              *)

LEMMA LockFails ==
    ASSUME NEW s \in Good, NEW p \in PID, NEW shared \in BOOLEAN
    PROVE  Below(s, lock(s, p, shared).s) /\ ~lock(s, p, shared).ok
<1>1. CASE p # 0
  <2>1. ~Granted(s.sem, p)
    BY <1>1, GrantedToZero DEF Good
  <2>2. lock(s, p, shared) = No(s)
    BY <2>1 DEF lock
  <2> QED
    BY <2>2, Stays DEF No
<1>2. CASE p = 0
  <2>1. PICK s1 : s1 = [s EXCEPT !.sem = TryLock(@, p), !.pid = p]
    OBVIOUS
  <2>2. Below(s, s1)
    BY <1>2, <2>1, SemLocked
  <2>3. lock(s, p, shared) \in {No(s), No(s1)}
    BY <1>2, <2>1 DEF lock
  <2> QED
    BY <2>2, <2>3, Stays DEF No
<1> QED
  BY <1>1, <1>2

LEMMA UnlockFails ==
    ASSUME NEW s \in Good, NEW p \in PID
    PROVE  Below(s, unlock(s, p).s) /\ ~unlock(s, p).ok
<1>1. PICK s1 : s1 = [s EXCEPT !.sem = TryLock(@, p)]
  OBVIOUS
<1>2. Below(s, s1)
  BY <1>1, SemLocked
<1>3. (Granted(s.sem, p) <=> p = 0) /\ s.pid = 0
  BY GrantedToZero DEF Good
<1>4. unlock(s, p) \in {No(s), No(s1)}
  BY <1>1, <1>3 DEF unlock
<1> QED
  BY <1>2, <1>4, Stays DEF No

LEMMA AquireTakes ==
    ASSUME NEW s \in Good, NEW p \in PID, NEW callback \in BOOLEAN
    PROVE  Below(s, aquire_semaphore(s, p, callback).s)
<1>1. PICK s1 : s1 = IF callback THEN [s EXCEPT !.waitings = @ \cup {p}] ELSE s
  OBVIOUS
<1>2. Below(s, s1) /\ s1 \in Good
  BY <1>1, MoreWaiting, Stays
<1>3. PICK s2 : s2 = [s1 EXCEPT !.sem = TryLock(@, p)]
  OBVIOUS
<1>4. Below(s1, s2) /\ s2 \in Good
  BY <1>2, <1>3, SemLocked
<1>5. PICK s3 : s3 = [s2 EXCEPT !.dsem.locked = TRUE]
  OBVIOUS
<1>6. Below(s2, s3)
  BY <1>4, <1>5, DsemLocked
<1>7. aquire_semaphore(s, p, callback) \in {No(s1), Yes(s3)}
  BY <1>1, <1>3, <1>5 DEF aquire_semaphore
<1>8. Below(s, s2)
  BY <1>2, <1>4, Follows
<1>9. Below(s, s3)
  BY <1>6, <1>8, Follows
<1> QED
  BY <1>2, <1>7, <1>9 DEF No, Yes

LEMMA UnaquireKeeps ==
    ASSUME NEW s \in Good, NEW opened \in BOOLEAN PROVE Below(s, unaquire_semaphore(s, opened).s)
<1>1. PICK t : t = [s EXCEPT !.sem.locked = FALSE]
  OBVIOUS
<1>2. t \in Good
  BY <1>1 DEF Good, Mutex
<1>3. t.units = s.units /\ t.dunits = s.dunits /\ t.dsem = s.dsem
  BY <1>1 DEF Good
<1>4. Below(s, t)
  BY <1>2, <1>3, BelowIf
<1> QED
  BY <1>1, <1>4, Stays DEF unaquire_semaphore, Yes

LEMMA StopTakes == ASSUME NEW s \in Good PROVE Below(s, stop(s).s)
<1>0. s.pid_paused = 0
  BY DEF Good
<1>1. PICK s1 : s1 = [s EXCEPT !.sem = TryLock(@, s.pid)]
  OBVIOUS
<1>2. Below(s, s1) /\ s1 \in Good
  BY <1>1, SemLocked
<1>3. PICK s2 : s2 = [s1 EXCEPT !.units = @ - 1]
  OBVIOUS
<1>4. Below(s1, s2) /\ s2 \in Good
  BY <1>2, <1>3, UnitTaken
<1>5. PICK s3 : s3 = [s2 EXCEPT !.wait_lock = TryLock(@, s.pid_paused),
                                !.pid_paused = s.pid, !.pid = 0]
  OBVIOUS
<1>6. Below(s2, s3) /\ s3 \in Good
  <2>1. s.pid = s2.pid /\ s.pid_paused = s2.pid_paused
    BY <1>4 DEF Good
  <2> QED
    BY <1>4, <1>5, <2>1, Paused
<1>7. PICK s4 : s4 = [s3 EXCEPT !.sem = TryUnlock(@, s3.pid_paused)]
  OBVIOUS
<1>8. Below(s3, s4)
  BY <1>6, <1>7, SemLocked
<1>9. stop(s).s \in {s1, s4}
  <2>1. Granted(s.wait_lock, s.pid_paused)
    BY GrantedToZero DEF Good
  <2> QED
    BY <1>0, <1>1, <1>3, <1>5, <1>7, <2>1 DEF stop, No
<1>10. Below(s, s2)
  BY <1>2, <1>4, Follows
<1>11. Below(s, s3)
  BY <1>6, <1>10, Follows
<1>12. Below(s, s4)
  BY <1>8, <1>11, Follows
<1> QED
  BY <1>2, <1>9, <1>12

LEMMA GoonFails == ASSUME NEW s \in Good PROVE goon(s) = No(s)
BY DEF goon, Good

LEMMA WaitForTakes ==
    ASSUME NEW s \in Good, NEW p \in PID, NEW callit \in BOOLEAN, NEW agrees \in BOOLEAN
    PROVE  Below(s, wait_for(s, p, callit, agrees).s)
<1> DEFINE s1 == [s EXCEPT !.waitings = @ \cup {p}]
           s2 == stop(s1).s
           s3 == aquire_semaphore(s2, p, TRUE).s
<1>1. Below(s, s1) /\ s1 \in Good
  BY MoreWaiting
<1> HIDE DEF s1
<1>2. Below(s1, s2) /\ s2 \in Good
  BY <1>1, StopTakes DEF Below
<1> HIDE DEF s2
<1>3. Below(s2, s3)
  BY <1>2, AquireTakes
<1> HIDE DEF s3
<1>4. wait_for(s, p, callit, agrees).s \in {s1, s2, s3}
  BY DEF wait_for, Yes, s1, s2, s3
<1>5. Below(s, s2)
  BY <1>1, <1>2, Follows
<1>6. Below(s, s3)
  BY <1>3, <1>5, Follows
<1> QED
  BY <1>1, <1>4, <1>5, <1>6

LEMMA WaitsTake ==
    ASSUME NEW s \in Good, NEW sm \in BOOLEAN, NEW time \in {"future", "past", "null"},
           NEW w \in CallWaits(s, sm, time)
    PROVE  Below(s, w.s)
<1>1. Below(s, DunitTaken(s))
  BY UnitTaken DEF DunitTaken
<1>2. w \in {No(s), Yes(s), Yes(DunitTaken(s))}
  BY DEF CallWaits
<1> QED
  BY <1>1, <1>2, Stays DEF No, Yes

LEMMA RunsTake ==
    ASSUME NEW s \in Good, NEW p \in PID, NEW opened \in BOOLEAN, NEW notified \in BOOLEAN
    PROVE  Below(s, CallRuns(s, p, opened, notified).s)
<1> DEFINE s1 == aquire_semaphore(s, p, FALSE).s
           resume_required == ~Granted(s1.dsem, p)
           s2 == [s1 EXCEPT !.dsem = TryLock(@, p)]
           s3 == IF resume_required THEN stop(s2).s ELSE s2
           s4 == unaquire_semaphore(s3, opened).s
<1>1. Below(s, s1) /\ s1 \in Good
  BY AquireTakes DEF Below
<1>2. Below(s1, s2) /\ s2 \in Good
  <2> HIDE DEF s1
  <2> QED
    BY <1>1, DsemLocked
<1>3. Below(s2, s3) /\ s3 \in Good
  <2> HIDE DEF s2, resume_required
  <2> QED
    BY <1>2, StopTakes, Stays DEF Below
<1>4. Below(s3, s4) /\ s4 \in Good
  <2> HIDE DEF s3
  <2> QED
    BY <1>3, UnaquireKeeps DEF Below
<1>5. CallRuns(s, p, opened, notified).s = s4
  <2>1. goon(s4).s = s4
    <3> HIDE DEF s4
    <3> QED
      BY <1>4, GoonFails DEF No
  <2> QED
    BY <2>1 DEF CallRuns
<1> HIDE DEF s1, s2, s3, s4
<1>6. Below(s, s2)
  BY <1>1, <1>2, Follows
<1>7. Below(s, s3)
  BY <1>3, <1>6, Follows
<1> QED
  BY <1>4, <1>5, <1>7, Follows

LEMMA CallTakes ==
    ASSUME NEW s \in Good, NEW p \in PID, NEW time \in {"future", "past", "null"},
           NEW opened \in BOOLEAN, NEW notified \in BOOLEAN,
           NEW r \in call(s, p, time, opened, notified)
    PROVE  Below(s, r.s)
<1> DEFINE aq == aquire_semaphore(s, p, FALSE)
<1>1. Below(s, aq.s) /\ aq.s \in Good
  BY AquireTakes DEF Below
<1>2. aq.ok \in BOOLEAN
  BY DEF aquire_semaphore, Yes, No
<1>3. PICK w \in CallWaits(aq.s, aq.ok, time) :
           r = IF w.ok THEN CallRuns(w.s, p, opened, notified) ELSE w
  BY DEF call
<1> HIDE DEF aq
<1>4. Below(aq.s, w.s) /\ w.s \in Good
  BY <1>1, <1>2, <1>3, WaitsTake DEF Below
<1>5. Below(w.s, r.s)
  BY <1>3, <1>4, RunsTake, Stays
<1>6. Below(s, w.s)
  BY <1>1, <1>4, Follows
<1> QED
  BY <1>5, <1>6, Follows

-------------------------------------------------------------------------------
(* The object in all orders of calls.                                      *)

IInv == obj \in Good /\ returned \notin {<<"lock", TRUE>>, <<"unlock", TRUE>>}

\* A call of an object that was made.
Takes ==
    /\ Below(obj, obj')
    /\ returned' \notin {<<"lock", TRUE>>, <<"unlock", TRUE>>, <<"goon", TRUE>>}

LEMMA CallsTake == ASSUME obj \in Good, Calls PROVE Takes
<1> PICK p \in PID :
        \/ \E shared \in BOOLEAN : Does("lock", lock(obj, p, shared))
        \/ Does("unlock", unlock(obj, p))
        \/ \E callback \in BOOLEAN : Does("aquire", aquire_semaphore(obj, p, callback))
        \/ \E opened \in BOOLEAN : Does("unaquire", unaquire_semaphore(obj, opened))
        \/ \E callit, agrees \in BOOLEAN : Does("wait_for", wait_for(obj, p, callit, agrees))
        \/ Does("stop", stop(obj))
        \/ Does("goon", goon(obj))
        \/ \E time \in {"future", "past", "null"}, opened, notified \in BOOLEAN :
              \E r \in call(obj, p, time, opened, notified) : Does("call", r)
  BY DEF Calls
<1>1. CASE \E shared \in BOOLEAN : Does("lock", lock(obj, p, shared))
  <2>1. PICK shared \in BOOLEAN : Does("lock", lock(obj, p, shared))
    BY <1>1
  <2> QED
    BY <2>1, LockFails DEF Does, Takes
<1>2. CASE Does("unlock", unlock(obj, p))
  BY <1>2, UnlockFails DEF Does, Takes
<1>3. CASE \E callback \in BOOLEAN : Does("aquire", aquire_semaphore(obj, p, callback))
  BY <1>3, AquireTakes DEF Does, Takes
<1>4. CASE \E opened \in BOOLEAN : Does("unaquire", unaquire_semaphore(obj, opened))
  BY <1>4, UnaquireKeeps DEF Does, Takes
<1>5. CASE \E callit, agrees \in BOOLEAN : Does("wait_for", wait_for(obj, p, callit, agrees))
  BY <1>5, WaitForTakes DEF Does, Takes
<1>6. CASE Does("stop", stop(obj))
  BY <1>6, StopTakes DEF Does, Takes
<1>7. CASE Does("goon", goon(obj))
  <2>1. goon(obj) = No(obj)
    BY GoonFails
  <2>2. obj' = No(obj).s /\ returned' = <<"goon", No(obj).ok>>
    BY <1>7, <2>1 DEF Does
  <2>3. obj' = obj /\ returned' = <<"goon", FALSE>>
    BY <2>2 DEF No
  <2>4. <<"goon", FALSE>> \notin {<<"lock", TRUE>>, <<"unlock", TRUE>>, <<"goon", TRUE>>}
    OBVIOUS
  <2> QED
    BY <2>3, <2>4, Stays DEF Takes
<1>8. CASE \E time \in {"future", "past", "null"}, opened, notified \in BOOLEAN :
             \E r \in call(obj, p, time, opened, notified) : Does("call", r)
  BY <1>8, CallTakes DEF Does, Takes
<1> QED
  BY <1>1, <1>2, <1>3, <1>4, <1>5, <1>6, <1>7, <1>8

LEMMA MadeGood == ASSUME obj \in Good, Construct PROVE obj' \in Good /\ returned' = <<"made", TRUE>>
<1>1. PICK u \in 1..2, d \in 0..1 : obj' = [obj EXCEPT !.units = u, !.dunits = d]
  BY DEF Construct
<1>2. u \in Int /\ d \in Int
  OBVIOUS
<1>3. obj' \in Good
  BY <1>1, <1>2 DEF Good
<1> QED
  BY <1>3 DEF Construct

LEMMA IInvInit == DataInit => IInv
<1> SUFFICES ASSUME DataInit PROVE IInv
  OBVIOUS
<1>1. Free \in Mutex /\ {} \in Waitings
  BY DEF Free, Mutex, Waitings
<1>2. obj \in Good
  BY <1>1 DEF DataInit, Good
<1> QED
  BY <1>2 DEF DataInit, IInv

LEMMA IInvStep == ASSUME IInv, [DataNext]_dataVars PROVE IInv'
<1>1. CASE Calls
  <2>1. Takes
    BY <1>1, CallsTake DEF IInv
  <2>2. obj' \in Good
    BY <2>1 DEF Takes, Below
  <2> QED
    BY <2>1, <2>2 DEF IInv, Takes
<1>2. CASE Construct
  <2>1. obj' \in Good /\ returned' = <<"made", TRUE>>
    BY <1>2, MadeGood DEF IInv
  <2>2. <<"made", TRUE>> \notin {<<"lock", TRUE>>, <<"unlock", TRUE>>}
    OBVIOUS
  <2> QED
    BY <2>1, <2>2 DEF IInv
<1>3. CASE UNCHANGED dataVars
  BY <1>3 DEF IInv, dataVars
<1> QED
  BY <1>1, <1>2, <1>3 DEF DataNext

LEMMA Invariant == DataInit /\ [][DataNext]_dataVars => []IInv
<1>1. IInv /\ [DataNext]_dataVars => IInv'
  BY IInvStep
<1> QED
  BY <1>1, IInvInit, PTL

\* In no order of calls, by no processes, does lock() or unlock() succeed
\* (DataSemaphore::lock, unlock).
THEOREM NeverLocked == DataInit /\ [][DataNext]_dataVars => []DataNeverLocked
<1>1. IInv => DataNeverLocked
  BY DEF IInv, Good, Mutex, DataNeverLocked
<1> QED
  BY <1>1, Invariant, PTL

\* In no order of calls is a unit that stop() or call() took given back, or an
\* object that was aquired once unlocked (DataSemaphore::stop, goon, unlock).
THEOREM NeverReturned == DataInit /\ [][DataNext]_dataVars => DataNeverReturned
<1> DEFINE Step == returned[1] # "unmade" =>
                     /\ obj'.units <= obj.units /\ obj'.dunits <= obj.dunits
                     /\ returned' # <<"goon", TRUE>>
                     /\ obj.dsem.locked => obj'.dsem.locked
<1>1. IInv /\ [DataNext]_dataVars => [Step]_dataVars
  <2> SUFFICES ASSUME IInv, DataNext, returned[1] # "unmade" PROVE Step
    BY DEF dataVars
  <2>1. Calls
    BY DEF DataNext, Construct
  <2> QED
    BY <2>1, CallsTake DEF IInv, Takes, Below
<1> QED
  BY <1>1, Invariant, PTL DEF DataNeverReturned
===============================================================================
