---------------------------- MODULE RWLock_proofs ----------------------------
(***************************************************************************)
(* Proofs about RWLock for any finite set of threads, on the assumption    *)
(* that the allocator returned zeroed memory (HeapValues = {0}): the       *)
(* invariant LockInv, and that the lock implements ReadersWriters.         *)
(***************************************************************************)
EXTENDS RWLock, Semaphore_proofs, FiniteSetTheorems, TLAPS

USE DEF Semaphores

\* Counting the threads in a state when one thread moves.
LEMMA InsideFinite ==
    ASSUME NEW s
    PROVE  /\ IsFiniteSet(Inside(s))
           /\ Cardinality(Inside(s)) \in Nat
           /\ Cardinality(Inside(s)) = 0 <=> Inside(s) = {}
<1>1. IsFiniteSet(Inside(s))
  BY FS_Subset, ThreadsAssumption DEF Inside
<1> QED
  BY <1>1, FS_CardinalityType, FS_EmptySet

\* A thread that moves from one state to another leaves the first count one
\* lower, the second one higher, and every other count as it was.
LEMMA CountMove ==
    ASSUME pc \in [Threads -> States],
           NEW t \in Threads, NEW from \in States, NEW to \in States, from # to,
           Goto(t, from, to)
    PROVE  /\ pc' \in [Threads -> States]
           /\ Cardinality(Inside(from)') = Cardinality(Inside(from)) - 1
           /\ Cardinality(Inside(to)') = Cardinality(Inside(to)) + 1
           /\ \A s : s # from /\ s # to => Inside(s)' = Inside(s)
<1>1. pc' \in [Threads -> States] /\ pc[t] = from /\ pc' = [pc EXCEPT ![t] = to]
  BY DEF Goto
<1>2. t \in Inside(from) /\ Inside(from)' = Inside(from) \ {t}
  BY <1>1 DEF Inside
<1>3. t \notin Inside(to) /\ Inside(to)' = Inside(to) \cup {t}
  BY <1>1 DEF Inside
<1>4. Cardinality(Inside(from)') = Cardinality(Inside(from)) - 1
  BY <1>2, InsideFinite, FS_RemoveElement
<1>5. Cardinality(Inside(to)') = Cardinality(Inside(to)) + 1
  BY <1>3, InsideFinite, FS_AddElement
<1>6. ASSUME NEW s, s # from, s # to
      PROVE  Inside(s)' = Inside(s)
  BY <1>1, <1>6 DEF Inside
<1> QED
  BY <1>1, <1>4, <1>5, <1>6

\* With exact counters the tests of the loops say who is inside.
LEMMA TestsSayWhoIsInside ==
    ASSUME LockInv
    PROVE  /\ sem.n_read \in Nat /\ sem.n_write \in Nat
           /\ ~ReadBlocked(sem) => \A t \in Threads : pc[t] # "writing"
           /\ ~WriteBlocked(sem) =>
                \A t \in Threads : pc[t] \notin {"reading", "writing"}
           /\ \A t \in Threads : pc[t] = "reading" => sem.n_read > 0
           /\ \A t \in Threads : pc[t] = "writing" => sem.n_write > 0
<1>1. sem.n_read = Cardinality(Inside("reading")) /\ sem.n_write = Cardinality(Inside("writing"))
  BY DEF LockInv, CountersExact
<1>2. sem.n_read \in Nat /\ sem.n_write \in Nat
  BY <1>1, InsideFinite
<1>3. sem.n_write = 0 <=> Inside("writing") = {}
  BY <1>1, InsideFinite
<1>4. sem.n_read = 0 <=> Inside("reading") = {}
  BY <1>1, InsideFinite
<1> QED
  BY <1>2, <1>3, <1>4 DEF Inside, ReadBlocked, WriteBlocked

LEMMA InitEstablishesLockInv ==
    ASSUME HeapValues = {0}, Init
    PROVE  LockInv
<1>1. sem = NewSemaphore(0, 0) /\ pc = [t \in Threads |-> "idle"]
  BY DEF Init
<1>2. Inside("reading") = {} /\ Inside("writing") = {}
  BY <1>1 DEF Inside
<1>3. TypeOK
  BY <1>1 DEF TypeOK, NewSemaphore, States
<1>4. CountersExact
  BY <1>1, <1>2, FS_EmptySet DEF CountersExact, NewSemaphore
<1>5. MutualExclusion
  BY <1>1 DEF MutualExclusion
<1>6. NoLostWakeup
  BY <1>1 DEF NoLostWakeup, NewSemaphore
<1> QED
  BY <1>3, <1>4, <1>5, <1>6 DEF LockInv

LEMMA StepPreservesLockInv ==
    ASSUME LockInv, [Next]_vars
    PROVE  LockInv'
<1> USE DEF LockInv
<1>1. CASE UNCHANGED vars
  BY <1>1 DEF vars, TypeOK, CountersExact, MutualExclusion, NoLostWakeup, Inside
<1>2. ASSUME NEW t \in Threads, Request(t)
      PROVE  LockInv'
  <2>1. PICK to \in {"enter_read", "enter_write"} :
            Goto(t, "idle", to) /\ sem' = sem
    BY <1>2 DEF Request, WantRead, WantWrite
  <2>2. /\ pc' \in [Threads -> States]
        /\ Inside("reading")' = Inside("reading")
        /\ Inside("writing")' = Inside("writing")
    BY <2>1, CountMove DEF TypeOK, States
  <2>3. TypeOK' /\ CountersExact'
    BY <2>1, <2>2 DEF TypeOK, CountersExact
  <2>4. MutualExclusion'
    BY <2>1 DEF MutualExclusion, Goto, TypeOK
  <2>5. NoLostWakeup'
    BY <2>1 DEF NoLostWakeup, Goto, TypeOK, ReadBlocked, WriteBlocked
  <2> QED
    BY <2>3, <2>4, <2>5
<1>3. ASSUME NEW t \in Threads, WaitRead(t) \/ WaitWrite(t)
      PROVE  LockInv'
  <2>1. sem' = Wait(sem, t) /\ pc' = pc
    BY <1>3 DEF WaitRead, WaitWrite
  <2>2. TypeOK'
    BY <2>1 DEF TypeOK, Wait
  <2>3. CountersExact'
    BY <2>1 DEF CountersExact, Inside, Wait, TypeOK
  <2>4. MutualExclusion'
    BY <2>1 DEF MutualExclusion
  <2>5. \/ pc[t] = "enter_read" /\ ReadBlocked(sem)
        \/ pc[t] = "enter_write" /\ WriteBlocked(sem)
    BY <1>3 DEF WaitRead, WaitWrite
  <2>6. NoLostWakeup'
    BY <2>1, <2>5 DEF NoLostWakeup, Wait, TypeOK, ReadBlocked, WriteBlocked
  <2> QED
    BY <2>2, <2>3, <2>4, <2>6
<1>4. ASSUME NEW t \in Threads, EnterRead(t)
      PROVE  LockInv'
  <2>1. /\ Goto(t, "enter_read", "reading") /\ sem' = AddReader(sem)
        /\ t \notin sem.waiting /\ ~ReadBlocked(sem)
    BY <1>4 DEF EnterRead, Awake
  <2>2. /\ pc' \in [Threads -> States]
        /\ Cardinality(Inside("reading")') = Cardinality(Inside("reading")) + 1
        /\ Inside("writing")' = Inside("writing")
    BY <2>1, CountMove DEF TypeOK, States
  <2>3. TypeOK' /\ CountersExact'
    BY <2>1, <2>2 DEF TypeOK, CountersExact, AddReader
  <2>4. MutualExclusion'
    BY <2>1, TestsSayWhoIsInside DEF MutualExclusion, Goto, TypeOK
  <2>5. NoLostWakeup'
    BY <2>1, TestsSayWhoIsInside
       DEF NoLostWakeup, Goto, TypeOK, AddReader, ReadBlocked, WriteBlocked
  <2> QED
    BY <2>3, <2>4, <2>5
<1>5. ASSUME NEW t \in Threads, LeaveRead(t)
      PROVE  LockInv'
  <2>1. /\ Goto(t, "reading", "idle") /\ sem' = DropReader(sem)
        /\ pc[t] = "reading" /\ sem.n_read > 0 /\ sem.n_read \in Nat
    BY <1>5, TestsSayWhoIsInside DEF LeaveRead, Goto
  <2>2. /\ pc' \in [Threads -> States]
        /\ Cardinality(Inside("reading")') = Cardinality(Inside("reading")) - 1
        /\ Inside("writing")' = Inside("writing")
    BY <2>1, CountMove DEF TypeOK, States
  <2>3. /\ sem'.n_read = sem.n_read - 1 /\ sem'.n_write = sem.n_write
        /\ sem' \in [n_read : Int, n_write : Int, waiting : SUBSET Threads]
        /\ sem'.waiting = IF sem'.n_read = 0 THEN {} ELSE sem.waiting
    BY <2>1, DropReaderEffect DEF TypeOK
  <2>4. TypeOK' /\ CountersExact'
    BY <2>2, <2>3 DEF TypeOK, CountersExact
  <2>5. MutualExclusion'
    BY <2>1 DEF MutualExclusion, Goto, TypeOK
  <2>6. NoLostWakeup'
    BY <2>1, <2>3 DEF NoLostWakeup, Goto, TypeOK, ReadBlocked, WriteBlocked
  <2> QED
    BY <2>4, <2>5, <2>6
<1>6. ASSUME NEW t \in Threads, EnterWrite(t)
      PROVE  LockInv'
  <2>1. /\ Goto(t, "enter_write", "writing") /\ sem' = AddWriter(sem)
        /\ t \notin sem.waiting /\ ~WriteBlocked(sem)
    BY <1>6 DEF EnterWrite, Awake
  <2>2. /\ pc' \in [Threads -> States]
        /\ Cardinality(Inside("writing")') = Cardinality(Inside("writing")) + 1
        /\ Inside("reading")' = Inside("reading")
    BY <2>1, CountMove DEF TypeOK, States
  <2>3. TypeOK' /\ CountersExact'
    BY <2>1, <2>2 DEF TypeOK, CountersExact, AddWriter
  <2>4. MutualExclusion'
    BY <2>1, TestsSayWhoIsInside DEF MutualExclusion, Goto, TypeOK
  <2>5. NoLostWakeup'
    BY <2>1, TestsSayWhoIsInside
       DEF NoLostWakeup, Goto, TypeOK, AddWriter, ReadBlocked, WriteBlocked
  <2> QED
    BY <2>3, <2>4, <2>5
<1>7. ASSUME NEW t \in Threads, LeaveWrite(t)
      PROVE  LockInv'
  <2>1. Goto(t, "writing", "idle") /\ sem' = DropWriter(sem)
    BY <1>7 DEF LeaveWrite
  <2>2. /\ pc' \in [Threads -> States]
        /\ Cardinality(Inside("writing")') = Cardinality(Inside("writing")) - 1
        /\ Inside("reading")' = Inside("reading")
    BY <2>1, CountMove DEF TypeOK, States
  <2>3. TypeOK' /\ CountersExact'
    BY <2>1, <2>2, DropWriterEffect DEF TypeOK, CountersExact
  <2>4. MutualExclusion'
    BY <2>1 DEF MutualExclusion, Goto, TypeOK
  <2>5. NoLostWakeup'
    BY <2>1, DropWriterEffect DEF NoLostWakeup, TypeOK
  <2> QED
    BY <2>3, <2>4, <2>5
<1>8. ASSUME NEW t \in Threads, SpuriousWakeup(t)
      PROVE  LockInv'
  <2>1. sem' = Wakeup(sem, t) /\ pc' = pc
    BY <1>8 DEF SpuriousWakeup
  <2>2. TypeOK' /\ CountersExact' /\ MutualExclusion'
    BY <2>1 DEF TypeOK, CountersExact, MutualExclusion, Inside, Wakeup
  <2>3. NoLostWakeup'
    BY <2>1 DEF NoLostWakeup, Wakeup, TypeOK, ReadBlocked, WriteBlocked
  <2> QED
    BY <2>2, <2>3
<1> QED
  BY <1>1, <1>2, <1>3, <1>4, <1>5, <1>6, <1>7, <1>8 DEF Next, Step

\* The lock of table_skel.c never lets a writer in beside another thread, counts
\* exactly, and puts nobody to sleep over a condition that already changed.
THEOREM LockCorrect ==
    ASSUME HeapValues = {0}
    PROVE  Spec => []LockInv
<1>1. Init => LockInv
  BY InitEstablishesLockInv
<1>2. LockInv /\ [Next]_vars => LockInv'
  BY StepPreservesLockInv
<1> QED
  BY <1>1, <1>2, PTL DEF Spec

\* A thread between enter_write and leave_write is alone inside, whatever the
\* number of threads.
THEOREM LockExcludes ==
    ASSUME HeapValues = {0}
    PROVE  Spec => []MutualExclusion
<1>1. LockInv => MutualExclusion
  BY DEF LockInv
<1> QED
  BY <1>1, LockCorrect, PTL

\* No thread sleeps in enter_read or enter_write over a test that would let it
\* in: the broadcasts of leave_read and leave_write come in time.
THEOREM LockWakes ==
    ASSUME HeapValues = {0}
    PROVE  Spec => []NoLostWakeup
<1>1. LockInv => NoLostWakeup
  BY DEF LockInv
<1> QED
  BY <1>1, LockCorrect, PTL

\* When nobody is inside nobody sleeps: a writer asleep needs a counter above
\* zero, and the counters are exact.
THEOREM FreeLockIsFree ==
    ASSUME HeapValues = {0}
    PROVE  Spec => []FreeLockAdmits
<1>1. LockInv => FreeLockAdmits
  <2> SUFFICES ASSUME LockInv, Inside("reading") \cup Inside("writing") = {}
               PROVE  sem.waiting = {}
    BY DEF FreeLockAdmits
  <2>1. sem.n_read = 0 /\ sem.n_write = 0
    BY FS_EmptySet DEF LockInv, CountersExact
  <2> QED
    BY <2>1 DEF LockInv, NoLostWakeup, ReadBlocked, WriteBlocked
<1> QED
  BY <1>1, LockCorrect, PTL

-----------------------------------------------------------------------------
LEMMA InitRefines ==
    ASSUME Init
    PROVE  RW!Init
  BY DEF Init, RW!Init, InsideOf

LEMMA StepRefines ==
    ASSUME LockInv, [Next]_vars
    PROVE  [RW!Next]_([t \in Threads |-> InsideOf(t)])
<1> DEFINE inside == [t \in Threads |-> InsideOf(t)]
<1>0. pc \in [Threads -> States]
  BY DEF LockInv, TypeOK
<1>1. ASSUME pc' = pc
      PROVE  inside' = inside
  BY <1>1 DEF InsideOf
<1>2. ASSUME NEW t \in Threads, Request(t)
      PROVE  inside' = inside
  BY <1>0, <1>2 DEF InsideOf, Request, WantRead, WantWrite, Goto
<1>3. ASSUME NEW t \in Threads, EnterRead(t)
      PROVE  RW!BeginRead(t)
  <2>1. \A u \in Threads : pc[u] # "writing"
    BY <1>3, TestsSayWhoIsInside DEF EnterRead
  <2>2. pc[t] = "enter_read" /\ pc' = [pc EXCEPT ![t] = "reading"]
    BY <1>3 DEF EnterRead, Goto
  <2> QED
    BY <1>0, <2>1, <2>2 DEF RW!BeginRead, InsideOf
<1>4. ASSUME NEW t \in Threads, EnterWrite(t)
      PROVE  RW!BeginWrite(t)
  <2>1. \A u \in Threads : pc[u] \notin {"reading", "writing"}
    BY <1>4, TestsSayWhoIsInside DEF EnterWrite
  <2>2. pc[t] = "enter_write" /\ pc' = [pc EXCEPT ![t] = "writing"]
    BY <1>4 DEF EnterWrite, Goto
  <2> QED
    BY <1>0, <2>1, <2>2 DEF RW!BeginWrite, InsideOf
<1>5. ASSUME NEW t \in Threads, LeaveRead(t) \/ LeaveWrite(t)
      PROVE  RW!End(t)
  <2>1. pc[t] \in {"reading", "writing"} /\ pc' = [pc EXCEPT ![t] = "idle"]
    BY <1>5 DEF LeaveRead, LeaveWrite, Goto
  <2> QED
    BY <1>0, <2>1 DEF RW!End, InsideOf
<1>6. CASE UNCHANGED vars
  BY <1>1, <1>6 DEF vars
<1>7. CASE Next
  <2>1. PICK t \in Threads : Request(t) \/ Step(t) \/ SpuriousWakeup(t)
    BY <1>7 DEF Next
  <2>2. CASE WaitRead(t) \/ WaitWrite(t) \/ SpuriousWakeup(t)
    BY <1>1, <2>2 DEF WaitRead, WaitWrite, SpuriousWakeup
  <2> QED
    BY <1>2, <1>3, <1>4, <1>5, <2>1, <2>2 DEF Step, RW!Next
<1> QED
  BY <1>6, <1>7

\* The functions of table_skel.c implement readers-writers exclusion for every
\* finite number of threads.
THEOREM LockImplements ==
    ASSUME HeapValues = {0}
    PROVE  Spec => ImplementsReadersWriters
<1>1. Init => RW!Init
  BY InitRefines
<1>2. LockInv /\ [Next]_vars => [RW!Next]_([t \in Threads |-> InsideOf(t)])
  BY StepRefines
<1> QED
  BY <1>1, <1>2, LockCorrect, PTL DEF Spec, ImplementsReadersWriters, RW!Spec
=============================================================================
