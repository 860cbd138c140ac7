-------------------------------- MODULE RWLock -------------------------------
(***************************************************************************)
(* The readers-writer lock that protects the table and the statistics of a *)
(* server: threads that call enter_read / leave_read and enter_write /     *)
(* leave_write of table_skel.c on one semaphore_t.                         *)
(*                                                                         *)
(* table_skel_semaphores_init mallocs the structure and never writes       *)
(* n_read and n_write.  HeapValues is the set of integers the allocator    *)
(* may leave there: {0} is the memory the kernel hands out zeroed, a       *)
(* larger set is a recycled block.                                         *)
(***************************************************************************)
EXTENDS Semaphore, FiniteSets

CONSTANTS Threads, HeapValues

ASSUME ThreadsAssumption == IsFiniteSet(Threads)
ASSUME HeapAssumption == HeapValues \subseteq Int

VARIABLES sem, pc

vars == <<sem, pc>>

\* "enter_read" and "enter_write" cover the whole loop of the function: before
\* the first test, asleep (when in sem.waiting) and woken before the next test.
States == {"idle", "enter_read", "reading", "enter_write", "writing"}

Init ==
    /\ \E r, w \in HeapValues : sem = NewSemaphore(r, w)
    /\ pc = [t \in Threads |-> "idle"]

Goto(t, from, to) == pc[t] = from /\ pc' = [pc EXCEPT ![t] = to]

Awake(t) == t \notin sem.waiting

-----------------------------------------------------------------------------
\* Calling enter_read, and one turn of its loop: sleep or get in.

WantRead(t) == Goto(t, "idle", "enter_read") /\ UNCHANGED sem

WaitRead(t) ==
    /\ pc[t] = "enter_read" /\ Awake(t)
    /\ ReadBlocked(sem)
    /\ sem' = Wait(sem, t)
    /\ UNCHANGED pc

EnterRead(t) ==
    /\ Awake(t)
    /\ ~ReadBlocked(sem)
    /\ Goto(t, "enter_read", "reading")
    /\ sem' = AddReader(sem)

LeaveRead(t) ==
    /\ Goto(t, "reading", "idle")
    /\ sem' = DropReader(sem)

\* The same for a writer.

WantWrite(t) == Goto(t, "idle", "enter_write") /\ UNCHANGED sem

WaitWrite(t) ==
    /\ pc[t] = "enter_write" /\ Awake(t)
    /\ WriteBlocked(sem)
    /\ sem' = Wait(sem, t)
    /\ UNCHANGED pc

EnterWrite(t) ==
    /\ Awake(t)
    /\ ~WriteBlocked(sem)
    /\ Goto(t, "enter_write", "writing")
    /\ sem' = AddWriter(sem)

LeaveWrite(t) ==
    /\ Goto(t, "writing", "idle")
    /\ sem' = DropWriter(sem)

\* POSIX lets pthread_cond_wait return without a broadcast.
SpuriousWakeup(t) ==
    /\ t \in sem.waiting
    /\ sem' = Wakeup(sem, t)
    /\ UNCHANGED pc

Request(t) == WantRead(t) \/ WantWrite(t)

Step(t) ==
    \/ WaitRead(t) \/ EnterRead(t) \/ LeaveRead(t)
    \/ WaitWrite(t) \/ EnterWrite(t) \/ LeaveWrite(t)

Next == \E t \in Threads : Request(t) \/ Step(t) \/ SpuriousWakeup(t)

\* Every thread that can run does run, and the bodies of the handlers end:
\* weak fairness of each thread.  Nothing makes the mutex fair among threads.
Spec == Init /\ [][Next]_vars /\ \A t \in Threads : WF_vars(Step(t))

-----------------------------------------------------------------------------
Inside(state) == {t \in Threads : pc[t] = state}

TypeOK ==
    /\ sem \in [n_read : Int, n_write : Int, waiting : SUBSET Threads]
    /\ pc \in [Threads -> States]

\* A thread between enter_write and leave_write is alone in the structure the
\* lock protects; without it two handlers edit one linked list together.
MutualExclusion ==
    \A t, u \in Threads :
        pc[t] = "writing" /\ t # u => pc[u] \notin {"reading", "writing"}

\* The two counters say exactly who is inside: no path enters or leaves
\* without counting, whatever the order of the threads.
CountersExact ==
    /\ sem.n_read = Cardinality(Inside("reading"))
    /\ sem.n_write = Cardinality(Inside("writing"))

\* Nobody sleeps through the change it waits for, although leave_read wakes
\* the waiters only when n_read reaches 0 and one condition serves both kinds.
NoLostWakeup ==
    \A t \in sem.waiting :
        \/ pc[t] = "enter_read" /\ ReadBlocked(sem)
        \/ pc[t] = "enter_write" /\ WriteBlocked(sem)

\* When nobody is inside nobody sleeps.
FreeLockAdmits ==
    Inside("reading") \cup Inside("writing") = {} => sem.waiting = {}

\* The inductive invariant: with the counters exact, a writer is counted, and
\* the two tests keep a second writer or a reader out.
LockInv ==
    /\ TypeOK
    /\ CountersExact
    /\ MutualExclusion
    /\ NoLostWakeup

\* Whenever some thread wants the lock, some thread gets it: the wait loops
\* never block everybody.
SomeoneEnters ==
    (Inside("enter_read") \cup Inside("enter_write") # {})
        ~> (Inside("reading") \cup Inside("writing") # {})

\* When the calls stop coming, every thread that called gets in and out.  A
\* single writer has no such promise while readers keep overlapping.
Drains ==
    (<>[][\A t \in Threads : ~Request(t)]_vars) => <>[](Inside("idle") = Threads)

-----------------------------------------------------------------------------
\* The lock implements ReadersWriters: a thread is inside exactly between the
\* return of enter_x and the call of leave_x.
InsideOf(t) ==
    CASE pc[t] = "reading" -> "read"
      [] pc[t] = "writing" -> "write"
      [] OTHER -> "out"

RW == INSTANCE ReadersWriters WITH inside <- [t \in Threads |-> InsideOf(t)]

ImplementsReadersWriters == RW!Spec
=============================================================================
