----------------------------- MODULE SemLifecycle -----------------------------
(***************************************************************************)
(* semaphore.c: sem_open, sem_init, sem_close (which is sem_destroy) and   *)
(* sem_unlink, called by the threads of one process.                       *)
(*                                                                         *)
(* A semaphore is a heap block that holds one kernel handle (arch_sem_t);  *)
(* every other call reads the handle through the pointer it is given.  The *)
(* pointer sem_open returns is the block itself.  sem_init stores the      *)
(* block's address in the caller's sem_t instead.  Memory is therefore one *)
(* function, word, from addresses (the blocks, and each thread's sem_t,    *)
(* whose address is the thread) to what is stored there.                   *)
(*                                                                         *)
(* A kernel object lives as long as some handle refers to it.  Other       *)
(* processes may hold objects open too; remote is the set of those.        *)
(* sem_unlink does nothing, so it has no action.  Calls that return an     *)
(* error without changing anything (EINVAL, ENOMEM) are stuttering steps.  *)
(***************************************************************************)
EXTENDS Integers, FiniteSets

CONSTANTS
    Threads,    \* the threads; a thread also names the address of its sem_t
    Blocks,     \* the heap's blocks of sizeof(arch_sem_t)
    Handles,    \* the process's handle values
    Names,      \* the names passed to sem_open
    Refused,    \* those CreateSemaphoreA refuses (EACCES, ENOENT)
    OFlags,     \* the oflags passed to sem_open: [creat |-> , excl |-> ]
    PShared,    \* the pshared arguments passed to sem_init, in BOOLEAN
    RemoteObjects, \* the objects other processes open and close
    Quarantine, \* TRUE: the heap does not reuse a block sem_destroy still uses
    NULL,       \* the null pointer, the null handle
    ANON        \* an object without a name

ASSUME LifecycleAssumption ==
    /\ NULL \notin Threads \cup Blocks \cup Handles
    /\ Threads \cap Blocks = {} /\ Handles \cap (Threads \cup Blocks) = {}
    /\ Names \cap (Blocks \cup {ANON, NULL}) = {}
    /\ ANON \notin Blocks /\ ANON # NULL
    /\ Refused \subseteq Names
    /\ OFlags \subseteq [creat : BOOLEAN, excl : BOOLEAN]
    /\ RemoteObjects \subseteq Names \cup Blocks
    /\ PShared \subseteq BOOLEAN /\ Quarantine \in BOOLEAN

VARIABLES
    live,       \* the blocks that are allocated
    word,       \* what is stored at each address
    ktab,       \* the object each handle refers to, NULL for a closed handle:
                \* a name, ANON, or the block whose address sem_init's name is
    remote,     \* the objects that other processes hold open
    pc,         \* "run", or the next step of the call the thread is inside of
    blk,        \* the block that call works on (pv), else NULL
    call,       \* the name and oflag of the thread's last sem_open
    existed,    \* its GetLastError() = ERROR_ALREADY_EXISTS
    sem         \* the pointer the thread got from sem_open, else NULL

vars == <<live, word, ktab, remote, pc, blk, call, existed, sem>>

NoCall == [name |-> NULL, creat |-> FALSE, excl |-> FALSE]

Init ==
    /\ live = {}
    /\ word = [a \in Blocks \cup Threads |-> NULL]
    /\ ktab = [h \in Handles |-> NULL]
    /\ remote = {}
    /\ pc = [t \in Threads |-> "run"]
    /\ blk = [t \in Threads |-> NULL]
    /\ call = [t \in Threads |-> NoCall]
    /\ existed = [t \in Threads |-> FALSE]
    /\ sem = [t \in Threads |-> NULL]

-------------------------------------------------------------------------------
(* The heap and the kernel                                                 *)

\* calloc may return any block that is free; a block between the free and the
\* last store of sem_destroy is free.
Reusable ==
    {b \in Blocks \ live :
        Quarantine => \A t \in Threads : pc[t] = "clear" => blk[t] # b}

FreeHandles == {h \in Handles : ktab[h] = NULL}

\* An object exists as long as a handle of some process refers to it.
Exists(o) == o \in remote \/ \E h \in Handles : ktab[h] = o

IsOpen(h) == h \in Handles /\ ktab[h] # NULL

Calloc(t, b) ==
    /\ b \in Reusable
    /\ live' = live \cup {b}
    /\ word' = [word EXCEPT ![b] = NULL]
    /\ blk' = [blk EXCEPT ![t] = b]

FreeBlk(t) == live' = live \ {blk[t]}

Goto(t, where) == pc' = [pc EXCEPT ![t] = where]

Done(t) ==
    /\ Goto(t, "run")
    /\ blk' = [blk EXCEPT ![t] = NULL]

-------------------------------------------------------------------------------
(* sem_open: calloc, CreateSemaphoreA, and what GetLastError says of it.   *)

SemOpen(t, n, f) ==
    /\ pc[t] = "run" /\ sem[t] = NULL
    /\ \E b \in Blocks : Calloc(t, b)
    /\ call' = [call EXCEPT ![t] = [name |-> n, creat |-> f.creat, excl |-> f.excl]]
    /\ Goto(t, "create")
    /\ UNCHANGED <<ktab, remote, existed, sem>>

OpenCreateFailed(t) ==
    /\ pc[t] = "create"
    /\ call[t].name \in Refused \/ FreeHandles = {}
    /\ FreeBlk(t)
    /\ Done(t)
    /\ UNCHANGED <<word, ktab, remote, call, existed, sem>>

OpenCreate(t) ==
    /\ pc[t] = "create"
    /\ call[t].name \notin Refused
    /\ existed' = [existed EXCEPT ![t] = Exists(call[t].name)]
    /\ \E h \in FreeHandles :
          /\ ktab' = [ktab EXCEPT ![h] = call[t].name]
          /\ word' = [word EXCEPT ![blk[t]] = h]
    /\ Goto(t, "check")
    /\ UNCHANGED <<live, remote, blk, call, sem>>

\* The three outcomes of a creation that succeeded.

OpenExists_FallsThrough(t) ==
    /\ pc[t] = "check"
    /\ existed[t] /\ call[t].creat /\ call[t].excl
    /\ ktab' = [ktab EXCEPT ![word[blk[t]]] = NULL]
    /\ sem' = [sem EXCEPT ![t] = blk[t]]
    /\ Done(t)
    /\ UNCHANGED <<live, word, remote, call, existed>>

OpenExists(t) ==                        \* O_CREAT | O_EXCL: back out, EEXIST
    /\ pc[t] = "check"
    /\ existed[t] /\ call[t].creat /\ call[t].excl
    /\ ktab' = [ktab EXCEPT ![word[blk[t]]] = NULL]
    /\ Goto(t, "backout")
    /\ UNCHANGED <<live, word, remote, blk, call, existed, sem>>

OpenBackout(t) ==
    /\ pc[t] = "backout"
    /\ FreeBlk(t)
    /\ Done(t)
    /\ UNCHANGED <<word, ktab, remote, call, existed, sem>>

OpenAbsent(t) ==                        \* no O_CREAT: ENOENT, handle kept open
    /\ pc[t] = "check"
    /\ ~ existed[t] /\ ~ call[t].creat
    /\ FreeBlk(t)
    /\ Done(t)
    /\ UNCHANGED <<word, ktab, remote, call, existed, sem>>

OpenReturn_IgnoresExcl(t) ==
    /\ pc[t] = "check"
    /\ existed[t] \/ call[t].creat
    /\ sem' = [sem EXCEPT ![t] = blk[t]]
    /\ Done(t)
    /\ UNCHANGED <<live, word, ktab, remote, call, existed>>

OpenReturn(t) ==
    /\ pc[t] = "check"
    /\ IF existed[t] THEN ~ (call[t].creat /\ call[t].excl) ELSE call[t].creat
    /\ sem' = [sem EXCEPT ![t] = blk[t]]
    /\ Done(t)
    /\ UNCHANGED <<live, word, ktab, remote, call, existed>>

-------------------------------------------------------------------------------
(* sem_destroy and sem_close, of the pointer p: CloseHandle, free, and a   *)
(* store through p.  With the address of a sem_t that sem_init filled,     *)
(* CloseHandle is given the address of a block and fails: EINVAL.          *)

SemDestroy(t, p) ==
    /\ pc[t] = "run"
    /\ IsOpen(word[p])
    /\ ktab' = [ktab EXCEPT ![word[p]] = NULL]
    /\ blk' = [blk EXCEPT ![t] = p]
    /\ Goto(t, "free")
    /\ UNCHANGED <<live, word, remote, call, existed, sem>>

DestroyFree_Forgets(t) ==
    /\ pc[t] = "free"
    /\ Goto(t, "clear")
    /\ UNCHANGED <<live, word, ktab, remote, blk, call, existed, sem>>

DestroyFree(t) ==
    /\ pc[t] = "free"
    /\ FreeBlk(t)
    /\ Goto(t, "clear")
    /\ UNCHANGED <<word, ktab, remote, blk, call, existed, sem>>

DestroyClear(t) ==
    /\ pc[t] = "clear"
    /\ word' = [word EXCEPT ![blk[t]] = NULL]
    /\ sem' = [sem EXCEPT ![t] = NULL]      \* the client drops its pointer
    /\ Done(t)
    /\ UNCHANGED <<live, ktab, remote, call, existed>>

-------------------------------------------------------------------------------
(* sem_init of the thread's own sem_t.                                     *)

SemInit(t) ==
    /\ pc[t] = "run" /\ word[t] = NULL
    /\ \E b \in Blocks : Calloc(t, b)
    /\ Goto(t, "init")
    /\ UNCHANGED <<ktab, remote, call, existed, sem>>

InitFailed(t) ==
    /\ pc[t] = "init"
    /\ FreeHandles = {}
    /\ FreeBlk(t)
    /\ Done(t)
    /\ UNCHANGED <<word, ktab, remote, call, existed, sem>>

InitCreate_StoresHandle(t, shared) ==
    /\ pc[t] = "init"
    /\ \E h \in FreeHandles :
          /\ ktab' = [ktab EXCEPT ![h] = IF shared THEN blk[t] ELSE ANON]
          /\ word' = [word EXCEPT ![blk[t]] = h, ![t] = h]
    /\ Done(t)
    /\ UNCHANGED <<live, remote, call, existed, sem>>

InitCreate(t, shared) ==
    /\ pc[t] = "init"
    /\ \E h \in FreeHandles :
          /\ ktab' = [ktab EXCEPT ![h] = IF shared THEN blk[t] ELSE ANON]
          /\ word' = [word EXCEPT ![blk[t]] = h, ![t] = blk[t]]
    /\ Done(t)
    /\ UNCHANGED <<live, remote, call, existed, sem>>

-------------------------------------------------------------------------------
(* Other processes open and close the same objects, or die.                *)

RemoteOpen(o) ==
    /\ o \in RemoteObjects \ remote
    /\ remote' = remote \cup {o}
    /\ UNCHANGED <<live, word, ktab, pc, blk, call, existed, sem>>

RemoteClose(o) ==
    /\ o \in remote
    /\ remote' = remote \ {o}
    /\ UNCHANGED <<live, word, ktab, pc, blk, call, existed, sem>>

-------------------------------------------------------------------------------

Step(t) ==
    \/ \E n \in Names, f \in OFlags : SemOpen(t, n, f)
    \/ OpenCreateFailed(t) \/ OpenCreate(t)
    \/ OpenExists(t) \/ OpenBackout(t) \/ OpenAbsent(t) \/ OpenReturn(t)
    \/ \E p \in {sem[t], t} \ {NULL} : SemDestroy(t, p)
    \/ DestroyFree(t) \/ DestroyClear(t)
    \/ PShared # {} /\ SemInit(t)
    \/ InitFailed(t)
    \/ \E shared \in PShared : InitCreate(t, shared)

Next ==
    \/ \E t \in Threads : Step(t)
    \/ \E o \in RemoteObjects : RemoteOpen(o) \/ RemoteClose(o)

Spec == Init /\ [][Next]_vars

-------------------------------------------------------------------------------
(* Properties                                                              *)

Address == Blocks \cup Threads

InCall == {"create", "check", "backout", "free", "clear", "init"}

\* The types of the state; a call that works on a block knows it.
TypeOK ==
    /\ live \subseteq Blocks
    /\ word \in [Address -> Handles \cup Blocks \cup {NULL}]
    /\ ktab \in [Handles -> Names \cup Blocks \cup {ANON, NULL}]
    /\ remote \subseteq RemoteObjects
    /\ pc \in [Threads -> InCall \cup {"run"}]
    /\ blk \in [Threads -> Blocks \cup {NULL}]
    /\ \A t \in Threads : pc[t] \in InCall <=> blk[t] # NULL
    /\ call \in [Threads -> [name : Names \cup {NULL},
                             creat : BOOLEAN, excl : BOOLEAN]]
    /\ existed \in [Threads -> BOOLEAN]
    /\ sem \in [Threads -> Blocks \cup {NULL}]

\* A thread that has a semaphore open, outside of any call.
HasOpen(t) == pc[t] = "run" /\ sem[t] # NULL

\* "On success, returns the address of the new semaphore": until the thread
\* closes it, every call through that address reaches the kernel object the
\* thread asked for by name, whatever blocks and handle values the other
\* threads' calls free and take in between.
OpenedIsUsable ==
    \A t \in Threads :
        HasOpen(t) => /\ IsOpen(word[sem[t]])
                      /\ ktab[word[sem[t]]] = call[t].name

\* O_CREAT | O_EXCL, the way main.c opens its semaphore: of the threads that
\* have one name open, at most one opened it exclusively.
Exclusive(t) == HasOpen(t) /\ call[t].creat /\ call[t].excl

ExclusiveOwner ==
    \A t, u \in Threads :
        Exclusive(t) /\ Exclusive(u) /\ call[t].name = call[u].name => t = u

\* No path through sem_open, sem_init or sem_destroy loses a block: every block
\* that is allocated is used by a call, an open semaphore or a sem_t.
NoBlockLeak ==
    live \subseteq {blk[t] : t \in Threads} \cup {sem[t] : t \in Threads}
                   \cup {word[t] : t \in Threads}

\* "If O_CREAT is specified in oflag, then the semaphore is created if it does
\* not already exist": a semaphore no process has open, and no thread is about
\* to return or give up, exists only for some thread that has it open.
OnlyOpenedExists ==
    \A n \in Names :
        Exists(n) => \/ n \in remote
                     \/ \E t \in Threads :
                           call[t].name = n /\ (sem[t] # NULL \/ pc[t] # "run")

\* What sem_init stored in a sem_t is for ever: its block stays allocated, the
\* handle in the block open and the object the same, whatever any thread opens,
\* closes or destroys, through the sem_t itself (sem_init, sem_destroy).
InitedStays ==
    [][\A t \in Threads : word[t] # NULL =>
          /\ word'[t] = word[t] /\ word[t] \in live'
          /\ word'[word[t]] = word[word[t]] /\ IsOpen(word[word[t]])
          /\ ktab'[word[word[t]]] = ktab[word[word[t]]]]_vars

\* "Create an unnamed semaphore", and of every other call "sem The pointer of
\* the semaphore object": the calls find an open handle where sem_init's
\* pointer points (semaphore.c:42, sem_wait, sem_post, sem_destroy).
InitedIsUsable ==
    \A t \in Threads : pc[t] = "run" /\ word[t] # NULL => IsOpen(word[t])

===============================================================================
