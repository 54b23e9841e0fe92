---------------------------- MODULE DataSemaphore -----------------------------
(***************************************************************************)
(* semaphore.cpp: class DataSemaphore, one whole call at a time.  An       *)
(* operation is a function from the object's state to the new state and    *)
(* what it returns.  The three semaphore_t members each have a mutex; the  *)
(* kernel semaphores of sem and dsem start at the static counter sid.      *)
(*                                                                         *)
(* Three things the file needs are nowhere in the repository and are read  *)
(* as their names say: dlocked() is dsem.locked(), mtx.unlock() in         *)
(* unaquire_semaphore gives the mutex up, and notify() returns anything.   *)
(***************************************************************************)
EXTENDS Integers, FiniteSets

CONSTANT PID            \* process identifiers, 0 among them

VARIABLES obj,          \* the object's state
          returned      \* the last call and what it returned

dataVars == <<obj, returned>>

Free == [locked |-> FALSE, process_id |-> 0]

DataInit ==
    /\ obj = [sem |-> Free, dsem |-> Free, wait_lock |-> Free,
              pid |-> 0, pid_paused |-> 0, units |-> 0, dunits |-> 0,
              waitings |-> {}]
    /\ returned = <<"unmade", FALSE>>

\* The constructor: dsem and sem are the first two objects that count sid up.
\* The compiler may read sid for the initial value before or after that.
Construct ==
    /\ returned[1] = "unmade"
    /\ \E u \in 1..2, d \in 0..1 : obj' = [obj EXCEPT !.units = u, !.dunits = d]
    /\ returned' = <<"made", TRUE>>

Yes(s) == [s |-> s, ok |-> TRUE]
No(s) == [s |-> s, ok |-> FALSE]

\* try_lock and try_unlock of semaphore_t's mutex (mutex.c).
Granted_Repaired(m, p) == m.locked => m.process_id = p

Granted(m, p) ==
    IF m.locked THEN m.process_id = p ELSE m.process_id = p /\ p = 0

TryLock(m, p) == IF Granted(m, p) THEN [locked |-> TRUE, process_id |-> p] ELSE m
TryUnlock(m, p) == IF m.locked /\ m.process_id = p THEN Free ELSE m
Unlocked(m, p) == m.locked => m.process_id = p

-------------------------------------------------------------------------------
lock(s, p, shared) ==
    IF s.sem.locked \/ s.dsem.locked \/ ~Granted(s.sem, p) THEN No(s)
    ELSE LET s1 == [s EXCEPT !.sem = TryLock(@, p), !.pid = p]
             s2 == [s1 EXCEPT !.dsem = TryLock(@, p)]
         IN  IF p = 0 THEN No(s1)
             ELSE IF ~Granted(s1.dsem, p) \/ s2.dsem.process_id = 0 \/ ~shared THEN No(s2)
             ELSE Yes([s2 EXCEPT !.units = 0, !.sem.process_id = p])

unlock(s, p) ==
    IF Granted(s.sem, p) THEN No([s EXCEPT !.sem = TryLock(@, p)])
    ELSE IF s.pid # p \/ ~Unlocked(s.dsem, p) THEN No(s)
    ELSE LET s1 == [s EXCEPT !.dsem = TryUnlock(@, p), !.pid = 0, !.sem.process_id = 0]
         IN  [s |-> [s1 EXCEPT !.sem = TryUnlock(@, p)], ok |-> Unlocked(s1.sem, p)]

\* ok: the semaphore opened by its reason is returned, and not nullptr.
aquire_semaphore(s, p, callback) ==
    LET s1 == IF callback THEN [s EXCEPT !.waitings = @ \cup {p}] ELSE s
    IN  IF ~Granted(s.sem, p) THEN No(s1)
        ELSE Yes([s1 EXCEPT !.sem = TryLock(@, p), !.dsem.locked = TRUE])

\* opened: sem_open found the semaphore of that reason.
unaquire_semaphore(s, opened) ==
    Yes(IF opened THEN [s EXCEPT !.sem.locked = FALSE] ELSE s)

stop(s) ==
    IF s.pid_paused # 0 THEN No(s)
    ELSE LET s1 == [s EXCEPT !.sem = TryLock(@, s.pid)]
             s2 == [s1 EXCEPT !.units = @ - 1]
             s3 == IF Granted(s.wait_lock, s.pid_paused)
                   THEN [s2 EXCEPT !.wait_lock = TryLock(@, s.pid_paused),
                                   !.pid_paused = s.pid, !.pid = 0]
                   ELSE [s2 EXCEPT !.waitings = @ \cup {s.pid_paused}]
         IN  IF s.units = 0 THEN No(s1)
             ELSE [s |-> [s3 EXCEPT !.sem = TryUnlock(@, s3.pid_paused)],
                   ok |-> Unlocked(s3.sem, s3.pid_paused)]

goon_Unchecked(s) ==
    Yes([s EXCEPT !.wait_lock = TryUnlock(@, s.pid_paused),
                  !.units = @ + 1, !.pid = s.pid_paused, !.pid_paused = 0])

goon(s) ==
    IF s.pid_paused = 0 THEN No(s)
    ELSE IF Granted(s.sem, s.pid_paused) THEN No([s EXCEPT !.sem = TryLock(@, s.pid_paused)])
    ELSE LET s1 == [s EXCEPT !.wait_lock = TryUnlock(@, s.pid_paused),
                             !.units = @ + 1, !.pid = s.pid_paused, !.pid_paused = 0]
         IN  [s |-> [s1 EXCEPT !.sem = TryUnlock(@, s1.pid)], ok |-> Unlocked(s1.sem, s1.pid)]

\* The callbacks' answers do not change the object; ok: not nullptr.
wait_for(s, p, callit, agrees) ==
    LET s1 == [s EXCEPT !.waitings = @ \cup {p}]
        st == stop(s1)
        aq == aquire_semaphore(st.s, p, TRUE)
    IN  IF ~callit THEN Yes(s1)
        ELSE IF ~st.ok THEN Yes(st.s)
        ELSE [s |-> aq.s, ok |-> aq.ok /\ agrees]

\* How the wait of call() may end: with a time it is two timed waits, of sm
\* and of dsem; a time of less than nothing ("past") is no wait at all.
DunitTaken(s) == [s EXCEPT !.dunits = @ - 1]
CallWaits(s, sm, time) ==
    CASE time = "future" /\ (~sm \/ s.dunits = 0) -> {No(s)}
      [] time = "future" /\ sm /\ s.dunits > 0 -> {No(s), Yes(DunitTaken(s))}
      [] time = "null" /\ s.dsem.locked -> IF s.dunits > 0 THEN {Yes(DunitTaken(s))} ELSE {No(s)}
      [] OTHER -> {Yes(s)}

\* After the wait: stop, callback, unaquire, goon.
CallRuns(s, p, opened, notified) ==
    LET s1 == aquire_semaphore(s, p, FALSE).s
        resume_required == ~Granted(s1.dsem, p)
        s2 == [s1 EXCEPT !.dsem = TryLock(@, p)]
        s3 == IF resume_required THEN stop(s2).s ELSE s2
        s4 == unaquire_semaphore(s3, opened).s
    IN  IF resume_required THEN goon(s4) ELSE [s |-> s4, ok |-> notified]

\* call() of an entry that has a callback; without one it returns false.
call(s, p, time, opened, notified) ==
    LET aq == aquire_semaphore(s, p, FALSE)
    IN  {IF w.ok THEN CallRuns(w.s, p, opened, notified) ELSE w :
            w \in CallWaits(aq.s, aq.ok, time)}

-------------------------------------------------------------------------------
Does(name, r) ==
    /\ returned[1] # "unmade"
    /\ obj' = r.s /\ returned' = <<name, r.ok>>

Calls ==
    \E p \in PID :
        \/ \E shared \in BOOLEAN : Does("lock", lock(obj, p, shared))
        \/ Does("unlock", unlock(obj, p))
        \/ \E callback \in BOOLEAN : Does("aquire", aquire_semaphore(obj, p, callback))
        \/ \E opened \in BOOLEAN : Does("unaquire", unaquire_semaphore(obj, opened))
        \/ \E callit, agrees \in BOOLEAN : Does("wait_for", wait_for(obj, p, callit, agrees))
        \/ Does("stop", stop(obj))
        \/ Does("goon", goon(obj))
        \/ \E time \in {"future", "past", "null"}, opened, notified \in BOOLEAN :
              \E r \in call(obj, p, time, opened, notified) : Does("call", r)

DataNext == Construct \/ Calls

-------------------------------------------------------------------------------
(* Correctness properties.                                                 *)

\* In no order of the calls is a lock granted by lock() or given up by
\* unlock(): its mutex takes only the PID 0, which lock() itself refuses.
DataNeverLocked ==
    /\ returned \notin {<<"lock", TRUE>>, <<"unlock", TRUE>>}
    /\ obj.pid = 0 /\ obj.sem.process_id = 0

\* What stop() takes from the kernel semaphore no goon() gives back, and an
\* object that was aquired once is locked ever after (stop, goon, unlock).
DataNeverReturned ==
    [][returned[1] # "unmade" =>
       /\ obj'.units <= obj.units /\ obj'.dunits <= obj.dunits
       /\ returned' # <<"goon", TRUE>>
       /\ obj.dsem.locked => obj'.dsem.locked]_dataVars
===============================================================================
