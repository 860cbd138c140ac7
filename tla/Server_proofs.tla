----------------------------- MODULE Server_proofs ----------------------------
(***************************************************************************)
(* Proofs about Server for any finite sets of threads and keys, any        *)
(* requests, any tables to start with and any bound: the inductive         *)
(* invariant ServerInv, the invariants of the runs that follow from it,    *)
(* and that the server implements AtomicStore.                             *)
(***************************************************************************)
EXTENDS Server, Semaphore_proofs, FiniteSetTheorems, TLAPS

-----------------------------------------------------------------------------
\* What the kinds of steps leave alone.

\* A step of a body is taken inside the section and stays inside: it changes
\* the table or the statistics and the step, locals and answer of its thread.
BodyFrame(t) ==
    /\ UNCHANGED <<sem, linked, at, req, received>>
    /\ at[t] \in Sections /\ step[t] \in {1, 2, 3}
    /\ step'[t] \in {-1, 1, 2, 3}
    /\ step' = [step EXCEPT ![t] = step'[t]]
    /\ DOMAIN local' = Threads /\ DOMAIN result' = Threads
    /\ \A u \in Threads \ {t} : local'[u] = local[u] /\ result'[u] = result[u]

\* op_size never finds the -1 for which it returns without leave_read.
SizeKnown == \A t \in Threads : In(t, "size", 1) => size # -1

LEMMA TableBodyFrame ==
    ASSUME TypeOK, SizeKnown, NEW t \in Threads, TableBody(t)
    PROVE  BodyFrame(t) /\ at[t] = "op" /\ stats' = stats
<1> USE DEF TypeOK, BodyFrame, In, Others, Goto, Keep, Answer, Sections
<1>1. CASE PutNothing(t) \/ PutDestroysOld(t) \/ PutLinksOverOld(t)
  BY <1>1 DEF PutNothing, PutDestroysOld, PutLinksOverOld
<1>2. CASE PutLinksNew(t) \/ PutCountsNew(t)
  BY <1>2 DEF PutLinksNew, PutCountsNew
<1>3. CASE DelNothing(t) \/ DelUnlinks(t) \/ DelCounts(t)
  BY <1>3 DEF DelNothing, DelUnlinks, DelCounts
<1>4. CASE Get(t) \/ Size(t) \/ GetKeysSizes(t) \/ GetKeysWalks(t)
  BY <1>4 DEF Get, Size, SizeKnown, GetKeysSizes, GetKeysWalks
<1>5. CASE GetTableLists(t) \/ GetTableEnds(t)
  BY <1>5 DEF GetTableLists, GetTableEnds
<1>6. CASE GetTableReads(t)
  BY <1>6 DEF GetTableReads
<1> QED
  BY <1>1, <1>2, <1>3, <1>4, <1>5, <1>6 DEF TableBody

LEMMA StatsBodyFrame ==
    ASSUME TypeOK, NEW t \in Threads, StatsBody(t)
    PROVE  BodyFrame(t) /\ at[t] # "op" /\ slots' = slots /\ size' = size
<1> USE DEF TypeOK, BodyFrame, Others, Goto, Keep, Answer, Sections
<1>1. CASE StatsLoad(t)
  BY <1>1 DEF StatsLoad
<1>2. CASE StatsStore(t)
  BY <1>2 DEF StatsStore
<1>3. CASE OpStatsFirst(t) \/ OpStatsSecond(t)
  BY <1>3 DEF OpStatsFirst, OpStatsSecond
<1> QED
  BY <1>1, <1>2, <1>3 DEF StatsBody

\* Outside of the locks a thread moves from one place to another; at the new
\* place it has not entered a section yet.
MoveFrame(t) ==
    /\ UNCHANGED <<sem, slots, size, stats, linked, step, local>>
    /\ at[t] \in {"new", "receive", "forward", "chain", "send"}
    /\ at'[t] \in Places \ {"new"}
    /\ at' = [at EXCEPT ![t] = at'[t]]
    /\ req'[t] \in Requests \cup {NoRequest}
    /\ DOMAIN result' = Threads
    /\ \A u \in Threads \ {t} : req'[u] = req[u] /\ result'[u] = result[u]

Moves(t) ==
    \/ Accept(t) \/ Receive(t) \/ ReceiveFails(t)
    \/ Forward(t) \/ ForwardReturns(t) \/ Send(t)

LEMMA MovesFrame ==
    ASSUME TypeOK, NEW t \in Threads, Moves(t)
    PROVE  MoveFrame(t)
<1> USE DEF TypeOK, MoveFrame, Move, Places, Sections
<1>1. CASE Accept(t) \/ ReceiveFails(t)
  BY <1>1 DEF Accept, ReceiveFails
<1>2. CASE Forward(t) \/ ForwardReturns(t)
  BY <1>2 DEF Forward, ForwardReturns
<1>3. CASE Receive(t)
  BY <1>3, RequestsAssumption DEF Receive
<1>4. CASE Send(t)
  BY <1>4 DEF Send
<1> QED
  BY <1>1, <1>2, <1>3, <1>4 DEF Moves

\* The steps of the locks.
LocksStep(t) == Sleep(t) \/ SpuriousWakeup(t) \/ Enter(t) \/ Leave(t)

LEMMA NextByKind ==
    ASSUME [Next]_vars
    PROVE  \/ UNCHANGED vars
           \/ Watch
           \/ \E t \in Threads : LocksStep(t) \/ TableBody(t) \/ StatsBody(t) \/ Moves(t)
  BY DEF Next, Step, Outside, LocksStep, Moves

-----------------------------------------------------------------------------
\* Who is inside of the locks.

LEMMA HoldersFinite ==
    ASSUME NEW lock
    PROVE  /\ IsFiniteSet(Holders(lock)) /\ IsFiniteSet(Writers(lock))
           /\ IsFiniteSet(Holders(lock) \ Writers(lock))
           /\ Cardinality(Writers(lock)) \in Nat
           /\ Cardinality(Holders(lock) \ Writers(lock)) \in Nat
           /\ Cardinality(Writers(lock)) = 0 <=> Writers(lock) = {}
           /\ Cardinality(Holders(lock) \ Writers(lock)) = 0 <=> Holders(lock) \ Writers(lock) = {}
<1>1. IsFiniteSet(Holders(lock))
  BY FS_Subset, ThreadsAssumption DEF Holders
<1>2. IsFiniteSet(Writers(lock)) /\ IsFiniteSet(Holders(lock) \ Writers(lock))
  BY <1>1, FS_Subset DEF Writers
<1> QED
  BY <1>1, <1>2, FS_CardinalityType, FS_EmptySet

\* As long as the same threads are inside and write, the locks keep their state.
LEMMA SameHoldersSameLocks ==
    ASSUME LocksExclude, sem' = sem,
           \A lock : Holders(lock)' = Holders(lock) /\ Writers(lock)' = Writers(lock)
    PROVE  LocksExclude'
  BY DEF LocksExclude, LockExcludes

LEMMA BodyKeepsLocks ==
    ASSUME TypeOK, LocksExclude, NEW t \in Threads, BodyFrame(t)
    PROVE  LocksExclude'
<1>1. /\ at' = at /\ req' = req /\ sem' = sem
      /\ \A u \in Threads : step'[u] # 0 <=> step[u] # 0
  BY DEF TypeOK, BodyFrame
<1>2. \A lock : Holders(lock)' = Holders(lock)
  BY <1>1 DEF Holders
<1>3. \A lock : Writers(lock)' = Writers(lock)
  BY <1>1, <1>2 DEF Writers, Writing
<1> QED
  BY <1>1, <1>2, <1>3, SameHoldersSameLocks

LEMMA MoveKeepsLocks ==
    ASSUME TypeOK, LocksExclude, ThreadsInPhase, NEW t \in Threads, MoveFrame(t)
    PROVE  LocksExclude'
<1>1. /\ sem' = sem /\ step' = step /\ step[t] = 0
      /\ \A u \in Threads \ {t} : at'[u] = at[u] /\ req'[u] = req[u]
  BY DEF TypeOK, MoveFrame, ThreadsInPhase, InPhase, Sections
<1>2. \A lock : Holders(lock)' = Holders(lock)
  BY <1>1 DEF Holders
<1>3. \A lock : Writers(lock)' = Writers(lock)
  <2>1. \A lock : t \notin Holders(lock) /\ Holders(lock) \subseteq Threads
    BY <1>1 DEF Holders
  <2> QED
    BY <1>1, <1>2, <2>1 DEF Writers, Writing
<1> QED
  BY <1>1, <1>2, <1>3, SameHoldersSameLocks

LEMMA SleepKeepsLocks ==
    ASSUME TypeOK, LocksExclude, NEW t \in Threads, Sleep(t) \/ SpuriousWakeup(t)
    PROVE  LocksExclude' /\ sem' \in [{"table", "stats"} -> Semaphores(Threads)]
<1>1. at' = at /\ step' = step /\ req' = req
  BY DEF Sleep, SpuriousWakeup
<1>2. \A lock : Holders(lock)' = Holders(lock) /\ Writers(lock)' = Writers(lock)
  BY <1>1 DEF Holders, Writers, Writing
<1>3. /\ sem' \in [{"table", "stats"} -> Semaphores(Threads)]
      /\ \A lock \in {"table", "stats"} :
            sem'[lock].n_read = sem[lock].n_read /\ sem'[lock].n_write = sem[lock].n_write
  <2>1. CASE Sleep(t)
    <3>1. LockOf(at[t]) \in {"table", "stats"} /\ sem' = [sem EXCEPT ![LockOf(at[t])] = Wait(@, t)]
      BY <2>1 DEF Sleep, LockOf
    <3> QED
      BY <3>1, WaitEffect DEF TypeOK
  <2>2. CASE SpuriousWakeup(t)
    <3>1. sem' = [lock \in {"table", "stats"} |-> Wakeup(sem[lock], t)]
      BY <2>2 DEF SpuriousWakeup, TypeOK
    <3> QED
      BY <3>1, WaitEffect DEF TypeOK
  <2> QED
    BY <2>1, <2>2
<1> QED
  BY <1>2, <1>3 DEF LocksExclude, LockExcludes

\* The counters say whether the tests of the wait loops keep a thread out.
LEMMA BlockedSaysWhoIsInside ==
    ASSUME TypeOK, LocksExclude, NEW lock \in {"table", "stats"}, NEW t \in Threads
    PROVE  /\ ~Blocked(t, lock) => Writers(lock) = {}
           /\ ~Blocked(t, lock) /\ Writing(t) => Holders(lock) = {}
<1>1. /\ sem[lock].n_read = Cardinality(Holders(lock) \ Writers(lock))
      /\ sem[lock].n_write = Cardinality(Writers(lock))
  BY DEF LocksExclude, LockExcludes
<1>2. /\ sem[lock].n_read \in Nat /\ sem[lock].n_write \in Nat
      /\ sem[lock].n_read = 0 <=> Holders(lock) \ Writers(lock) = {}
      /\ sem[lock].n_write = 0 <=> Writers(lock) = {}
  BY <1>1, HoldersFinite
<1>3. ~Blocked(t, lock) => sem[lock].n_write = 0
  BY <1>2 DEF Blocked, ReadBlocked, WriteBlocked
<1>4. ~Blocked(t, lock) /\ Writing(t) => sem[lock].n_read = 0
  BY <1>2 DEF Blocked, WriteBlocked
<1> QED
  BY <1>2, <1>3, <1>4

LEMMA EnterKeepsLocks ==
    ASSUME TypeOK, LocksExclude, NEW t \in Threads, Enter(t)
    PROVE  LocksExclude' /\ sem' \in [{"table", "stats"} -> Semaphores(Threads)]
<1>0. PICK lock \in {"table", "stats"} : lock = LockOf(at[t])
  BY DEF LockOf
<1>1. /\ at' = at /\ req' = req /\ at[t] \in Sections /\ step[t] = 0
      /\ step' = [step EXCEPT ![t] = 1]
      /\ lock = LockOf(at[t]) /\ ~Blocked(t, lock)
  BY <1>0 DEF Enter
<1>a. /\ sem' = [sem EXCEPT ![lock] = sem'[lock]]
      /\ sem'[lock] = IF Writing(t) THEN AddWriter(sem[lock]) ELSE AddReader(sem[lock])
      /\ sem[lock] \in Semaphores(Threads)
  BY <1>0 DEF Enter, TypeOK
<1>2. /\ t \notin Holders(lock) /\ Holders(lock)' = Holders(lock) \cup {t}
      /\ \A other : other # lock => Holders(other)' = Holders(other)
  BY <1>1 DEF Holders, TypeOK
<1>3. /\ t \notin Writers(lock)
      /\ Writers(lock)' = IF Writing(t) THEN Writers(lock) \cup {t} ELSE Writers(lock)
      /\ \A other : other # lock => Writers(other)' = Writers(other)
  BY <1>1, <1>2 DEF Writers, Writing
<1>4. /\ Writers(lock) = {}
      /\ Writing(t) => Holders(lock) = {}
  BY <1>1, BlockedSaysWhoIsInside
<1>5. sem' \in [{"table", "stats"} -> Semaphores(Threads)]
  <2>1. sem'[lock] \in Semaphores(Threads)
    BY <1>a, AddEffect
  <2> QED
    BY <1>a, <2>1 DEF TypeOK
<1>6. ASSUME NEW other \in {"table", "stats"}, other # lock
      PROVE  LockExcludes(other)'
  <2>1. sem'[other] = sem[other]
    BY <1>a, <1>6 DEF TypeOK
  <2> QED
    BY <1>2, <1>3, <1>6, <2>1 DEF LocksExclude, LockExcludes
<1>7. ASSUME Writing(t)
      PROVE  LockExcludes(lock)'
  <2>1. /\ sem'[lock].n_read = sem[lock].n_read
        /\ sem'[lock].n_write = sem[lock].n_write + 1
    BY <1>a, <1>7, AddEffect
  <2>2. Writers(lock)' = {t} /\ Holders(lock)' = {t}
    BY <1>2, <1>3, <1>4, <1>7
  <2>3. /\ Cardinality({t}) = 1 /\ Cardinality({t} \ {t}) = 0 /\ Cardinality({}) = 0
    BY FS_Singleton, FS_EmptySet
  <2>4. sem[lock].n_read = 0 /\ sem[lock].n_write = 0
    BY <1>1, <1>4, <1>7, <2>3 DEF LocksExclude, LockExcludes, LockExcludes
  <2>5. /\ sem'[lock].n_read = Cardinality(Holders(lock)' \ Writers(lock)')
        /\ sem'[lock].n_write = Cardinality(Writers(lock)')
    BY <2>1, <2>2, <2>3, <2>4
  <2> QED
    BY <2>2, <2>5 DEF LockExcludes
<1>8. ASSUME ~Writing(t)
      PROVE  LockExcludes(lock)'
  <2>1. /\ sem'[lock].n_read = sem[lock].n_read + 1
        /\ sem'[lock].n_write = sem[lock].n_write
    BY <1>a, <1>8, AddEffect
  <2>2. Writers(lock)' = {} /\ Holders(lock)' \ Writers(lock)' = (Holders(lock) \ Writers(lock)) \cup {t}
    BY <1>2, <1>3, <1>4, <1>8
  <2>3. Cardinality(Holders(lock)' \ Writers(lock)') = Cardinality(Holders(lock) \ Writers(lock)) + 1
    BY <1>2, <2>2, HoldersFinite, FS_AddElement
  <2>4. /\ sem'[lock].n_read = Cardinality(Holders(lock)' \ Writers(lock)')
        /\ sem'[lock].n_write = Cardinality(Writers(lock)')
    BY <1>1, <1>4, <2>1, <2>2, <2>3 DEF LocksExclude, LockExcludes
  <2> QED
    BY <2>2, <2>4 DEF LockExcludes
<1> QED
  BY <1>5, <1>6, <1>7, <1>8 DEF LocksExclude

LEMMA LeaveKeepsLocks ==
    ASSUME TypeOK, LocksExclude, NEW t \in Threads, Leave(t)
    PROVE  LocksExclude' /\ sem' \in [{"table", "stats"} -> Semaphores(Threads)]
<1>0. PICK lock \in {"table", "stats"} : lock = LockOf(at[t])
  BY DEF LockOf
<1>1. /\ req' = req /\ at[t] \in Sections /\ step[t] = -1 /\ lock = LockOf(at[t])
      /\ at' = [at EXCEPT ![t] = at'[t]] /\ step' = [step EXCEPT ![t] = 0]
  BY <1>0 DEF Leave, TypeOK
<1>2. /\ sem' = [sem EXCEPT ![lock] = sem'[lock]]
      /\ sem'[lock] = IF Writing(t) THEN DropWriter(sem[lock]) ELSE DropReader(sem[lock])
      /\ sem[lock] \in Semaphores(Threads)
  BY <1>0 DEF Leave, TypeOK
<1>3. /\ t \in Holders(lock) /\ Holders(lock)' = Holders(lock) \ {t}
      /\ \A other : other # lock => Holders(other)' = Holders(other)
  BY <1>1 DEF Holders, TypeOK
<1>4. /\ t \in Writers(lock) <=> Writing(t)
      /\ Writers(lock)' = Writers(lock) \ {t}
      /\ \A other : other # lock => Writers(other)' = Writers(other)
  BY <1>1, <1>3 DEF Writers, Writing, Holders, TypeOK
<1>5. sem' \in [{"table", "stats"} -> Semaphores(Threads)]
  <2>1. sem'[lock] \in Semaphores(Threads)
    BY <1>2, DropReaderEffect, DropWriterEffect
  <2> QED
    BY <1>2, <2>1 DEF TypeOK
<1>6. ASSUME NEW other \in {"table", "stats"}, other # lock
      PROVE  LockExcludes(other)'
  <2>1. sem'[other] = sem[other]
    BY <1>2, <1>6 DEF TypeOK
  <2> QED
    BY <1>3, <1>4, <1>6, <2>1 DEF LocksExclude, LockExcludes
<1>7. ASSUME Writing(t)
      PROVE  LockExcludes(lock)'
  <2>1. /\ sem'[lock].n_read = sem[lock].n_read
        /\ sem'[lock].n_write = sem[lock].n_write - 1
    BY <1>2, <1>7, DropWriterEffect
  <2>2. Holders(lock) = {t} /\ Writers(lock) = {t}
    BY <1>4, <1>7 DEF LocksExclude, LockExcludes, Writers
  <2>3. Writers(lock)' = {} /\ Holders(lock)' = {}
    BY <1>3, <1>4, <2>2
  <2>4. Cardinality({t}) = 1 /\ Cardinality({}) = 0 /\ {t} \ {t} = {} /\ {} \ {} = {}
    BY FS_Singleton, FS_EmptySet
  <2>5. sem[lock].n_read = 0 /\ sem[lock].n_write = 1
    BY <2>2, <2>4 DEF LocksExclude, LockExcludes
  <2>6. sem'[lock].n_read = 0 /\ sem'[lock].n_write = 0
    BY <2>1, <2>5
  <2> QED
    BY <2>3, <2>4, <2>6 DEF LockExcludes
<1>8. ASSUME ~Writing(t)
      PROVE  LockExcludes(lock)'
  <2>1. /\ sem'[lock].n_read = sem[lock].n_read - 1
        /\ sem'[lock].n_write = sem[lock].n_write
    BY <1>2, <1>8, DropReaderEffect
  <2>2. /\ Writers(lock) = {} /\ Writers(lock)' = {}
        /\ Holders(lock)' \ Writers(lock)' = (Holders(lock) \ Writers(lock)) \ {t}
        /\ t \in Holders(lock) \ Writers(lock)
    BY <1>3, <1>4, <1>8 DEF LocksExclude, LockExcludes, Writers
  <2>3. Cardinality(Holders(lock)' \ Writers(lock)') = Cardinality(Holders(lock) \ Writers(lock)) - 1
    BY <2>2, HoldersFinite, FS_RemoveElement
  <2>4. /\ sem'[lock].n_read = Cardinality(Holders(lock)' \ Writers(lock)')
        /\ sem'[lock].n_write = Cardinality(Writers(lock)')
    BY <2>1, <2>2, <2>3 DEF LocksExclude, LockExcludes
  <2> QED
    BY <2>2, <2>4 DEF LockExcludes
<1> QED
  BY <1>5, <1>6, <1>7, <1>8 DEF LocksExclude

\* Inside of the table nobody else is next to a writer, and no writer next to a
\* reader; the same holds of the statistics.
LEMMA AloneInTable ==
    ASSUME LocksExclude, NEW t \in Threads,
           at[t] = "op", step[t] # 0, req[t].op \in TableWrites
    PROVE  \A u \in Threads \ {t} : at[u] = "op" => step[u] = 0
<1>1. t \in Writers("table")
  BY DEF Writers, Holders, Writing, LockOf, Sections
<1>2. Holders("table") = {t}
  BY <1>1 DEF LocksExclude, LockExcludes
<1> QED
  BY <1>2 DEF Holders, LockOf, Sections

LEMMA NoWriterInTable ==
    ASSUME LocksExclude, NEW t \in Threads,
           at[t] = "op", step[t] # 0, req[t].op \notin TableWrites
    PROVE  \A u \in Threads : at[u] = "op" /\ step[u] # 0 => req[u].op \notin TableWrites
<1>1. SUFFICES ASSUME NEW u \in Threads, at[u] = "op", step[u] # 0, req[u].op \in TableWrites
               PROVE  FALSE
  OBVIOUS
<1> QED
  BY <1>1, AloneInTable

LEMMA AloneInStats ==
    ASSUME LocksExclude, NEW t \in Threads,
           at[t] \in {"connect", "count", "hangup"}, step[t] # 0
    PROVE  \A u \in Threads \ {t} :
                at[u] \in {"connect", "count", "hangup", "stats"} => step[u] = 0
<1>1. t \in Writers("stats")
  BY DEF Writers, Holders, Writing, LockOf, Sections
<1>2. Holders("stats") = {t}
  BY <1>1 DEF LocksExclude, LockExcludes
<1> QED
  BY <1>2 DEF Holders, LockOf, Sections

-----------------------------------------------------------------------------
\* Which step, request and answer a thread has where.

LEMMA NoRequestIsNone == NoRequest \notin Requests /\ NoRequest.op \notin TableOps
  BY RequestsAssumption DEF NoRequest, TableOps, TableReads, TableWrites

\* An answer is never the empty tuple.
LEMMA AnswerIsResult ==
    ASSUME TypeOK, NEW t \in Threads, NEW x, Answer(t, x)
    PROVE  result'[t] = <<req[t].op, x>> /\ result'[t] # NoResult
  BY DEF Answer, NoResult, TypeOK

LEMMA SameThreadSamePhase ==
    ASSUME NEW t \in Threads, InPhase(t),
           at'[t] = at[t], step'[t] = step[t], req'[t] = req[t], result'[t] = result[t]
    PROVE  InPhase(t)'
  BY DEF InPhase, Answered

LEMMA BodyKeepsOthersInPhase ==
    ASSUME TypeOK, ThreadsInPhase, NEW t \in Threads, BodyFrame(t), InPhase(t)'
    PROVE  ThreadsInPhase'
<1>1. ASSUME NEW u \in Threads, u # t
      PROVE  InPhase(u)'
  BY <1>1, SameThreadSamePhase DEF TypeOK, ThreadsInPhase, BodyFrame
<1> QED
  BY <1>1 DEF ThreadsInPhase

LEMMA TableBodyInPhase ==
    ASSUME TypeOK, SizeKnown, ThreadsInPhase, NEW t \in Threads, TableBody(t)
    PROVE  ThreadsInPhase'
<1>1. BodyFrame(t) /\ at[t] = "op"
  BY TableBodyFrame
<1>2. at'[t] = "op" /\ req'[t] = req[t] /\ InPhase(t)
  BY <1>1 DEF BodyFrame, ThreadsInPhase
<1> SUFFICES InPhase(t)'
  BY <1>1, BodyKeepsOthersInPhase
<1> USE DEF In, Goto, TypeOK, InPhase, Answered, Sections, TableOps, TableReads, TableWrites
<1>3. CASE PutNothing(t)
  BY <1>2, <1>3, AnswerIsResult DEF PutNothing
<1>4. CASE PutDestroysOld(t)
  BY <1>2, <1>4, AnswerIsResult DEF PutDestroysOld
<1>5. CASE PutLinksOverOld(t)
  BY <1>2, <1>5 DEF PutLinksOverOld
<1>6. CASE PutLinksNew(t)
  BY <1>2, <1>6, AnswerIsResult DEF PutLinksNew
<1>7. CASE PutCountsNew(t)
  BY <1>2, <1>7 DEF PutCountsNew
<1>8. CASE DelNothing(t)
  BY <1>2, <1>8, AnswerIsResult DEF DelNothing
<1>9. CASE DelUnlinks(t)
  BY <1>2, <1>9, AnswerIsResult DEF DelUnlinks
<1>10. CASE DelCounts(t)
  BY <1>2, <1>10 DEF DelCounts
<1>11. CASE Get(t)
  BY <1>2, <1>11, AnswerIsResult DEF Get
<1>12. CASE Size(t)
  BY <1>2, <1>12, AnswerIsResult DEF Size, SizeKnown
<1>13. CASE GetKeysSizes(t)
  BY <1>2, <1>13 DEF GetKeysSizes
<1>14. CASE GetKeysWalks(t)
  BY <1>2, <1>14, AnswerIsResult DEF GetKeysWalks
<1>15. CASE GetTableLists(t)
  BY <1>2, <1>15 DEF GetTableLists
<1>16. CASE GetTableReads(t)
  BY <1>2, <1>16 DEF GetTableReads
<1>17. CASE GetTableEnds(t)
  BY <1>2, <1>17, AnswerIsResult DEF GetTableEnds
<1> QED
  BY <1>3, <1>4, <1>5, <1>6, <1>7, <1>8, <1>9, <1>10, <1>11, <1>12, <1>13, <1>14,
     <1>15, <1>16, <1>17 DEF TableBody

LEMMA StatsBodyInPhase ==
    ASSUME TypeOK, ThreadsInPhase, NEW t \in Threads, StatsBody(t)
    PROVE  ThreadsInPhase'
<1>1. BodyFrame(t) /\ at[t] # "op"
  BY StatsBodyFrame
<1>2. at'[t] = at[t] /\ req'[t] = req[t] /\ InPhase(t)
  BY <1>1 DEF BodyFrame, ThreadsInPhase
<1> SUFFICES InPhase(t)'
  BY <1>1, BodyKeepsOthersInPhase
<1> USE DEF Goto, TypeOK, InPhase, Answered, Sections, TableOps, TableReads, TableWrites
<1>3. CASE StatsLoad(t)
  BY <1>2, <1>3 DEF StatsLoad
<1>4. CASE StatsStore(t)
  BY <1>2, <1>4 DEF StatsStore
<1>5. CASE OpStatsFirst(t)
  BY <1>2, <1>5 DEF OpStatsFirst
<1>6. CASE OpStatsSecond(t)
  <2>1. req[t] \in Requests /\ req[t].op = "stats"
    BY <1>2, <1>6 DEF OpStatsSecond
  <2> QED
    BY <1>2, <1>6, <2>1, AnswerIsResult DEF OpStatsSecond
<1> QED
  BY <1>3, <1>4, <1>5, <1>6 DEF StatsBody

\* Where a thread goes when it leaves a section.
LEMMA AfterPlaces ==
    ASSUME NEW t, at[t] \in Sections
    PROVE  /\ at[t] = "connect" => After(t) = "receive"
           /\ at[t] = "op" /\ req[t].op \in TableWrites => After(t) = "forward"
           /\ at[t] = "op" /\ req[t].op \notin TableWrites => After(t) = "count"
           /\ at[t] \in {"stats", "count"} => After(t) = "send"
           /\ at[t] = "hangup" => After(t) = "closed"
  BY DEF After, Sections

LEMMA LocksStepInPhase ==
    ASSUME TypeOK, ThreadsInPhase, NEW t \in Threads, LocksStep(t)
    PROVE  ThreadsInPhase'
<1>1. req' = req /\ result' = result /\ \A u \in Threads \ {t} : at'[u] = at[u] /\ step'[u] = step[u]
  BY DEF TypeOK, LocksStep, Sleep, SpuriousWakeup, Enter, Leave
<1>2. InPhase(t)
  BY DEF ThreadsInPhase
<1>3. SUFFICES InPhase(t)'
  BY <1>1, SameThreadSamePhase DEF ThreadsInPhase
<1>4. CASE Sleep(t) \/ SpuriousWakeup(t)
  BY <1>1, <1>2, <1>4, SameThreadSamePhase DEF Sleep, SpuriousWakeup
<1>5. CASE Enter(t)
  <2>1. at'[t] = at[t] /\ at[t] \in Sections /\ step[t] = 0 /\ step'[t] = 1
    BY <1>5 DEF Enter, TypeOK
  <2> QED
    BY <1>1, <1>2, <2>1 DEF InPhase, Answered
<1>6. CASE Leave(t)
  <2>1. at'[t] = After(t) /\ at[t] \in Sections /\ step[t] = -1 /\ step'[t] = 0
    BY <1>6 DEF Leave, TypeOK
  <2>2. req[t].op \in TableWrites => req[t].op \in TableOps
    BY DEF TableOps
  <2>3. "stats" \notin TableOps
    BY DEF TableOps, TableReads, TableWrites
  <2>4. \/ at[t] = "connect" /\ at'[t] = "receive"
        \/ at[t] = "op" /\ req[t].op \in TableWrites /\ at'[t] = "forward"
        \/ at[t] = "op" /\ at'[t] = "count"
        \/ at[t] \in {"stats", "count"} /\ at'[t] = "send"
        \/ at[t] = "hangup" /\ at'[t] = "closed"
    BY <2>1, AfterPlaces DEF Sections
  <2> QED
    BY <1>1, <1>2, <2>1, <2>2, <2>3, <2>4, NoRequestIsNone DEF InPhase, Answered, Sections
<1> QED
  BY <1>4, <1>5, <1>6 DEF LocksStep

\* What Receive does with each kind of request.
LEMMA ReceiveEffect ==
    ASSUME TypeOK, NEW t \in Threads, Receive(t)
    PROVE  /\ at[t] = "receive" /\ step' = step /\ result' = result
           /\ req'[t] \in Requests
           /\ \/ /\ req'[t].op \in TableOps /\ at'[t] = "op"
                 /\ received' = [received EXCEPT !.table = @ + 1]
              \/ /\ req'[t].op = "stats" /\ at'[t] = "stats"
                 /\ received' = [received EXCEPT !.other = @ + 1]
              \/ /\ req'[t].op = "bad" /\ at'[t] = "send"
                 /\ received' = [received EXCEPT !.other = @ + 1]
<1>1. "stats" \notin TableOps /\ "bad" \notin TableOps
  BY DEF TableOps, TableReads, TableWrites
<1> QED
  BY <1>1 DEF Receive, Move, TypeOK

LEMMA MovesInPhase ==
    ASSUME TypeOK, ThreadsInPhase, NEW t \in Threads, Moves(t)
    PROVE  ThreadsInPhase'
<1>1. MoveFrame(t)
  BY MovesFrame
<1>2. InPhase(t)
  BY DEF ThreadsInPhase
<1>3. SUFFICES InPhase(t)'
  BY <1>1, SameThreadSamePhase DEF ThreadsInPhase, MoveFrame, TypeOK
<1>4. step'[t] = 0 /\ step[t] = 0
  BY <1>1 DEF MoveFrame, TypeOK, Sections
<1>5. "bad" \notin TableOps
  BY DEF TableOps, TableReads, TableWrites
<1>6. CASE Accept(t) \/ ReceiveFails(t)
  BY <1>2, <1>4, <1>6, NoRequestIsNone DEF Accept, ReceiveFails, Move, InPhase, Answered, TypeOK, Sections
<1>7. CASE Forward(t) \/ ForwardReturns(t)
  <2>1. /\ req' = req /\ result' = result
        /\ at[t] \in {"forward", "chain"} /\ at'[t] \in {"chain", "count"}
    BY <1>7 DEF Forward, ForwardReturns, Move, TypeOK
  <2>2. req[t].op \in TableWrites => req[t].op \in TableOps
    BY DEF TableOps
  <2> QED
    BY <1>2, <1>4, <2>1, <2>2 DEF InPhase, Answered, Sections
<1>8. CASE Receive(t)
  <2>1. result'[t] = NoResult
    BY <1>2, <1>8, ReceiveEffect, NoRequestIsNone DEF InPhase
  <2> QED
    BY <1>4, <1>5, <1>8, <2>1, ReceiveEffect DEF InPhase, Answered, Sections
<1>9. CASE Send(t)
  <2>1. at'[t] \in {"receive", "hangup"} /\ req'[t] = NoRequest /\ result'[t] = NoResult
    BY <1>9 DEF Send, Move, TypeOK
  <2> QED
    BY <1>4, <2>1, NoRequestIsNone DEF InPhase, Sections
<1> QED
  BY <1>6, <1>7, <1>8, <1>9 DEF Moves

-----------------------------------------------------------------------------
\* Types.

\* The values of requests, and NULL, are values of the table.
LEMMA ValuesOfRequests ==
    /\ \A r \in Requests : r.value \in Values
    /\ NULL \in Values
    /\ Freed # NULL
<1> DEFINE sent == {r.value : r \in Requests}
           loaded == UNION {{l[k] : k \in DOMAIN l} : l \in Loaded}
<1>1. Values = sent \cup loaded \cup {NULL}
  BY DEF Values
<1>2. \A r \in Requests : r.value \in sent
  OBVIOUS
<1> HIDE DEF sent, loaded
<1> QED
  BY <1>1, <1>2, MarkersAssumption

LEMMA LocksStepTypes ==
    ASSUME TypeOK, LocksExclude, NEW t \in Threads, LocksStep(t)
    PROVE  TypeOK' /\ LocksExclude'
<1>1. sem' \in [{"table", "stats"} -> Semaphores(Threads)] /\ LocksExclude'
  BY SleepKeepsLocks, EnterKeepsLocks, LeaveKeepsLocks DEF LocksStep
<1>2. UNCHANGED <<slots, size, stats, linked, req, result, received>>
  BY DEF LocksStep, Sleep, SpuriousWakeup, Enter, Leave
<1>3. at' \in [Threads -> Places]
  <2>1. CASE Leave(t)
    <3>1. at[t] \in Sections /\ at' = [at EXCEPT ![t] = After(t)]
      BY <2>1 DEF Leave
    <3>2. After(t) \in Places
      BY <3>1, AfterPlaces DEF Places, Sections
    <3> QED
      BY <3>1, <3>2 DEF TypeOK
  <2>2. CASE at' = at
    BY <2>2 DEF TypeOK
  <2> QED
    BY <2>1, <2>2 DEF LocksStep, Sleep, SpuriousWakeup, Enter
<1>4. /\ step' \in [Threads -> -1 .. 3] /\ DOMAIN local' = Threads
      /\ \A u \in Threads : step'[u] # 0 => at'[u] \in Sections
  BY DEF TypeOK, LocksStep, Sleep, SpuriousWakeup, Enter, Leave
<1> QED
  BY <1>1, <1>2, <1>3, <1>4 DEF TypeOK

LEMMA TableBodyTypes ==
    ASSUME TypeOK, SizeKnown, ThreadsInPhase, TableInShape, NEW t \in Threads, TableBody(t)
    PROVE  TypeOK'
<1>1. BodyFrame(t) /\ at[t] = "op" /\ stats' = stats
  BY TableBodyFrame
<1>2. req[t] \in Requests
  BY <1>1 DEF ThreadsInPhase, InPhase
<1>3. SUFFICES slots' \in [Keys -> Values \cup {Freed}] /\ size' \in Int
  <2>1. step' \in [Threads -> -1 .. 3] /\ \A u \in Threads : step'[u] # 0 => at'[u] \in Sections
    BY <1>1 DEF BodyFrame, TypeOK
  <2> QED
    BY <1>1, <2>1 DEF BodyFrame, TypeOK
<1>4. CASE UNCHANGED <<slots, size>>
  BY <1>4 DEF TypeOK
<1>5. CASE PutDestroysOld(t) \/ PutLinksOverOld(t) \/ PutLinksNew(t) \/ DelUnlinks(t)
  <2>1. PICK v \in Values \cup {Freed} : slots' = [slots EXCEPT ![req[t].key] = v] /\ size' = size
    BY <1>2, <1>5, ValuesOfRequests DEF PutDestroysOld, PutLinksOverOld, PutLinksNew, DelUnlinks
  <2> QED
    BY <2>1 DEF TypeOK
<1>6. CASE PutCountsNew(t)
  <2>1. Kept(t) = size /\ size' = Kept(t) + 1 /\ slots' = slots
    BY <1>6 DEF PutCountsNew, TableInShape
  <2> QED
    BY <2>1 DEF TypeOK
<1>7. CASE DelCounts(t)
  <2>1. Kept(t) = size /\ size' = Kept(t) - 1 /\ slots' = slots
    BY <1>7 DEF DelCounts, TableInShape
  <2> QED
    BY <2>1 DEF TypeOK
<1> QED
  BY <1>4, <1>5, <1>6, <1>7 DEF TableBody, PutNothing, DelNothing, Get, Size, GetKeysSizes,
     GetKeysWalks, GetTableLists, GetTableReads, GetTableEnds

LEMMA StatsBodyTypes ==
    ASSUME TypeOK, StatsCopiesCurrent, NEW t \in Threads, StatsBody(t)
    PROVE  TypeOK'
<1>1. BodyFrame(t) /\ slots' = slots /\ size' = size
  BY StatsBodyFrame
<1>2. SUFFICES stats' \in [operations : Int, clients : Int]
  <2>1. step' \in [Threads -> -1 .. 3] /\ \A u \in Threads : step'[u] # 0 => at'[u] \in Sections
    BY <1>1 DEF BodyFrame, TypeOK
  <2> QED
    BY <1>1, <1>2, <2>1 DEF BodyFrame, TypeOK
<1>3. CASE stats' = stats
  BY <1>3 DEF TypeOK
<1>4. CASE StatsStore(t)
  <2>1. Kept(t) = stats[Counter(t)] /\ Counter(t) \in {"operations", "clients"}
    BY <1>4 DEF StatsStore, StatsCopiesCurrent, Counter
  <2>2. Kept(t) \in Int
    BY <2>1 DEF TypeOK
  <2>3. stats' = [stats EXCEPT ![Counter(t)] = IF at[t] = "hangup" THEN Kept(t) - 1 ELSE Kept(t) + 1]
    BY <1>4 DEF StatsStore
  <2>4. (IF at[t] = "hangup" THEN Kept(t) - 1 ELSE Kept(t) + 1) \in Int
    BY <2>2
  <2> QED
    BY <2>1, <2>3, <2>4 DEF TypeOK
<1> QED
  BY <1>3, <1>4 DEF StatsBody, StatsLoad, OpStatsFirst, OpStatsSecond, Others

LEMMA MovesTypes ==
    ASSUME TypeOK, NEW t \in Threads, Moves(t)
    PROVE  TypeOK'
<1>1. MoveFrame(t)
  BY MovesFrame
<1>2. received' \in [table : Nat, other : Nat]
  <2>1. CASE Receive(t)
    BY <2>1, ReceiveEffect DEF TypeOK
  <2>2. CASE received' = received
    BY <2>2 DEF TypeOK
  <2> QED
    BY <2>1, <2>2 DEF Moves, Accept, ReceiveFails, Forward, ForwardReturns, Send
<1>3. req' \in [Threads -> Requests \cup {NoRequest}]
  <2>1. CASE UNCHANGED req
    BY <2>1 DEF TypeOK
  <2>2. CASE \E r \in Requests \cup {NoRequest} : req' = [req EXCEPT ![t] = r]
    BY <2>2 DEF TypeOK
  <2> QED
    BY <2>1, <2>2 DEF Moves, Accept, Receive, ReceiveFails, Forward, ForwardReturns, Send
<1>4. \A u \in Threads : step'[u] # 0 => at'[u] \in Sections
  BY <1>1 DEF MoveFrame, TypeOK, Sections
<1> QED
  BY <1>1, <1>2, <1>3, <1>4 DEF MoveFrame, TypeOK

-----------------------------------------------------------------------------
\* The statistics.

LEMMA CountedFinite ==
    IsFiniteSet(Uncounted) /\ IsFiniteSet(Open)
  BY FS_Subset, ThreadsAssumption DEF Uncounted, Open

\* Only the thread that moves can join or leave the counted threads.
LEMMA OthersCountTheSame ==
    ASSUME NEW t \in Threads, \A u \in Threads \ {t} : at'[u] = at[u] /\ step'[u] = step[u]
    PROVE  /\ Uncounted' = IF t \in Uncounted' THEN Uncounted \cup {t} ELSE Uncounted \ {t}
           /\ Open' = IF t \in Open' THEN Open \cup {t} ELSE Open \ {t}
  BY DEF Uncounted, Open

\* A step that moves its thread neither in nor out of those counted, and
\* changes no statistics, keeps the counts exact.
LEMMA SameCountsExact ==
    ASSUME StatsExact, NEW t \in Threads,
           \A u \in Threads \ {t} : at'[u] = at[u] /\ step'[u] = step[u] /\ local'[u] = local[u],
           t \in Uncounted' <=> t \in Uncounted, t \in Open' <=> t \in Open,
           stats' = stats, received'.table = received.table,
           at'[t] = "stats" /\ step'[t] = 2 => Kept(t)' = stats.operations
    PROVE  StatsExact'
<1>1. Uncounted' = Uncounted /\ Open' = Open
  BY OthersCountTheSame
<1>2. ASSUME NEW u \in Threads, at'[u] = "stats", step'[u] = 2
      PROVE  Kept(u)' = stats'.operations
  BY <1>2 DEF StatsExact, Kept
<1> QED
  BY <1>1, <1>2 DEF StatsExact

LEMMA TableBodyStats ==
    ASSUME TypeOK, SizeKnown, StatsExact, StatsCopiesCurrent, NEW t \in Threads, TableBody(t)
    PROVE  StatsExact' /\ StatsCopiesCurrent'
<1>1. BodyFrame(t) /\ at[t] = "op" /\ at'[t] = "op" /\ stats' = stats
  BY TableBodyFrame DEF BodyFrame
<1>2. /\ at' = at /\ received' = received
      /\ \A u \in Threads \ {t} : step'[u] = step[u] /\ local'[u] = local[u]
  BY <1>1 DEF BodyFrame, TypeOK
<1>3. StatsExact'
  BY <1>1, <1>2, SameCountsExact DEF Uncounted, Open
<1>4. StatsCopiesCurrent'
  BY <1>1, <1>2 DEF StatsCopiesCurrent, Kept, Counter
<1> QED
  BY <1>3, <1>4

LEMMA StatsBodyStats ==
    ASSUME TypeOK, LocksExclude, StatsExact, StatsCopiesCurrent, NEW t \in Threads, StatsBody(t)
    PROVE  StatsExact' /\ StatsCopiesCurrent'
<1>1. BodyFrame(t)
  BY StatsBodyFrame
<1>2. /\ at' = at /\ received' = received /\ step[t] # 0
      /\ \A u \in Threads \ {t} : step'[u] = step[u] /\ local'[u] = local[u]
  BY <1>1 DEF BodyFrame, TypeOK
<1>3. CASE StatsLoad(t) \/ OpStatsFirst(t) \/ OpStatsSecond(t)
  <2>1. /\ stats' = stats /\ step[t] # -1
        /\ step'[t] # -1 \/ at[t] = "stats"
        /\ step'[t] = 2 => Kept(t)' = stats[IF at[t] = "stats" THEN "operations" ELSE Counter(t)]
    BY <1>3 DEF StatsLoad, OpStatsFirst, OpStatsSecond, Others, Goto, Keep, Kept, TypeOK, Counter
  <2>2. StatsExact'
    BY <1>2, <2>1, SameCountsExact DEF Uncounted, Open
  <2>3. StatsCopiesCurrent'
    BY <1>2, <2>1 DEF StatsCopiesCurrent, Kept, Counter
  <2> QED
    BY <2>2, <2>3
<1>4. CASE StatsStore(t)
  <2>1. /\ at[t] \in {"connect", "count", "hangup"} /\ step[t] = 2 /\ step'[t] = -1
        /\ stats' = [stats EXCEPT ![Counter(t)] =
                        IF at[t] = "hangup" THEN Kept(t) - 1 ELSE Kept(t) + 1]
    BY <1>4 DEF StatsStore, Goto, TypeOK
  <2>2. \A u \in Threads \ {t} :
            at[u] \in {"connect", "count", "hangup", "stats"} => step[u] = 0
    BY <2>1, AloneInStats
  <2>3. Kept(t) = stats[Counter(t)]
    BY <2>1 DEF StatsCopiesCurrent
  <2>4. StatsCopiesCurrent'
    BY <1>2, <2>1, <2>2 DEF StatsCopiesCurrent
  <2>5. \A u \in Threads : at'[u] = "stats" => step'[u] # 2
    BY <1>2, <2>1, <2>2
  <2>6. CASE at[t] = "count"
    <3>1. /\ stats'.operations = stats.operations + 1 /\ stats'.clients = stats.clients
          /\ t \in Uncounted /\ t \notin Uncounted' /\ t \in Open /\ t \in Open'
      BY <1>2, <2>1, <2>3, <2>6 DEF Counter, TypeOK, Uncounted, Open
    <3>2. Uncounted' = Uncounted \ {t} /\ Open' = Open
      BY <1>2, <3>1, OthersCountTheSame
    <3>3. Cardinality(Uncounted') = Cardinality(Uncounted) - 1
      BY <3>1, <3>2, CountedFinite, FS_RemoveElement
    <3> QED
      BY <1>2, <2>4, <2>5, <3>1, <3>2, <3>3, CountedFinite, FS_CardinalityType DEF StatsExact, TypeOK
  <2>7. CASE at[t] = "connect"
    <3>1. /\ stats'.operations = stats.operations /\ stats'.clients = stats.clients + 1
          /\ t \notin Uncounted /\ t \notin Uncounted' /\ t \notin Open /\ t \in Open'
      BY <1>2, <2>1, <2>3, <2>7 DEF Counter, TypeOK, Uncounted, Open
    <3>2. Uncounted' = Uncounted /\ Open' = Open \cup {t}
      BY <1>2, <3>1, OthersCountTheSame
    <3>3. Cardinality(Open') = Cardinality(Open) + 1
      BY <3>1, <3>2, CountedFinite, FS_AddElement
    <3> QED
      BY <1>2, <2>4, <2>5, <3>1, <3>2, <3>3 DEF StatsExact
  <2>8. CASE at[t] = "hangup"
    <3>1. /\ stats'.operations = stats.operations /\ stats'.clients = stats.clients - 1
          /\ t \notin Uncounted /\ t \notin Uncounted' /\ t \in Open /\ t \notin Open'
      BY <1>2, <2>1, <2>3, <2>8 DEF Counter, TypeOK, Uncounted, Open
    <3>2. Uncounted' = Uncounted /\ Open' = Open \ {t}
      BY <1>2, <3>1, OthersCountTheSame
    <3>3. Cardinality(Open') = Cardinality(Open) - 1
      BY <3>1, <3>2, CountedFinite, FS_RemoveElement
    <3> QED
      BY <1>2, <2>4, <2>5, <3>1, <3>2, <3>3 DEF StatsExact
  <2> QED
    BY <2>1, <2>4, <2>6, <2>7, <2>8
<1> QED
  BY <1>3, <1>4 DEF StatsBody

LEMMA LocksStepStats ==
    ASSUME TypeOK, ThreadsInPhase, StatsExact, StatsCopiesCurrent, NEW t \in Threads, LocksStep(t)
    PROVE  StatsExact' /\ StatsCopiesCurrent'
<1>1. /\ stats' = stats /\ received' = received
      /\ \A u \in Threads \ {t} : at'[u] = at[u] /\ step'[u] = step[u] /\ local'[u] = local[u]
  BY DEF TypeOK, LocksStep, Sleep, SpuriousWakeup, Enter, Leave
<1>2. CASE Sleep(t) \/ SpuriousWakeup(t)
  <2>1. UNCHANGED <<at, step, local>>
    BY <1>2 DEF Sleep, SpuriousWakeup
  <2>2. StatsExact'
    BY <1>1, <2>1, SameCountsExact DEF Uncounted, Open, StatsExact, Kept
  <2> QED
    BY <1>1, <2>1, <2>2 DEF StatsCopiesCurrent, Kept, Counter
<1>3. CASE Enter(t)
  <2>1. at' = at /\ local' = local /\ step[t] = 0 /\ step'[t] = 1
    BY <1>3 DEF Enter, TypeOK
  <2>2. StatsExact'
    BY <1>1, <2>1, SameCountsExact DEF Uncounted, Open
  <2> QED
    BY <1>1, <2>1, <2>2 DEF StatsCopiesCurrent, Kept, Counter
<1>4. CASE Leave(t)
  <2>1. at'[t] = After(t) /\ at[t] \in Sections /\ step[t] = -1 /\ step'[t] = 0
    BY <1>4 DEF Leave, TypeOK
  <2>2. \/ at[t] = "connect" /\ at'[t] = "receive"
        \/ at[t] = "op" /\ at'[t] \in {"forward", "count"}
        \/ at[t] \in {"stats", "count"} /\ at'[t] = "send"
        \/ at[t] = "hangup" /\ at'[t] = "closed"
    BY <2>1, AfterPlaces DEF Sections
  <2>3. StatsExact'
    BY <1>1, <2>1, <2>2, SameCountsExact DEF Uncounted, Open
  <2> QED
    BY <1>1, <2>1, <2>3 DEF StatsCopiesCurrent, Kept, Counter
<1> QED
  BY <1>2, <1>3, <1>4 DEF LocksStep

LEMMA MovesStats ==
    ASSUME TypeOK, ThreadsInPhase, StatsExact, StatsCopiesCurrent, NEW t \in Threads, Moves(t)
    PROVE  StatsExact' /\ StatsCopiesCurrent'
<1>1. MoveFrame(t)
  BY MovesFrame
<1>2. /\ stats' = stats /\ step' = step /\ local' = local /\ step[t] = 0
      /\ \A u \in Threads \ {t} : at'[u] = at[u]
  BY <1>1 DEF MoveFrame, ThreadsInPhase, InPhase, TypeOK, Sections
<1>3. StatsCopiesCurrent'
  BY <1>2 DEF StatsCopiesCurrent, Kept, Counter
<1>4. CASE Accept(t) \/ ReceiveFails(t) \/ Forward(t) \/ ForwardReturns(t) \/ Send(t)
  <2>1. /\ received' = received
        /\ \/ at[t] = "new" /\ at'[t] = "connect"
           \/ at[t] = "receive" /\ at'[t] = "hangup"
           \/ at[t] \in {"forward", "chain"} /\ at'[t] \in {"chain", "count"}
           \/ at[t] = "send" /\ at'[t] \in {"receive", "hangup"}
    BY <1>4 DEF Accept, ReceiveFails, Forward, ForwardReturns, Send, Move, TypeOK
  <2>2. StatsExact'
    BY <1>2, <2>1, SameCountsExact DEF Uncounted, Open
  <2> QED
    BY <1>3, <2>2
<1>5. CASE Receive(t)
  <2>1. \/ at'[t] = "op" /\ received' = [received EXCEPT !.table = @ + 1]
        \/ at'[t] \in {"stats", "send"} /\ received' = [received EXCEPT !.other = @ + 1]
    BY <1>5, ReceiveEffect
  <2>2. at[t] = "receive"
    BY <1>5, ReceiveEffect
  <2>3. CASE at'[t] # "op"
    <3>1. received'.table = received.table
      BY <2>1, <2>3 DEF TypeOK
    <3>2. StatsExact'
      BY <1>2, <2>1, <2>2, <2>3, <3>1, SameCountsExact DEF Uncounted, Open
    <3> QED
      BY <1>3, <3>2
  <2>4. CASE at'[t] = "op"
    <3>1. /\ received'.table = received.table + 1
          /\ t \notin Uncounted /\ t \in Uncounted' /\ t \in Open /\ t \in Open'
      BY <2>1, <2>2, <2>4 DEF TypeOK, Uncounted, Open
    <3>2. Uncounted' = Uncounted \cup {t} /\ Open' = Open
      BY <1>2, <3>1, OthersCountTheSame
    <3>3. Cardinality(Uncounted') = Cardinality(Uncounted) + 1
      BY <3>1, <3>2, CountedFinite, FS_AddElement
    <3>4. \A u \in Threads : at'[u] = "stats" /\ step'[u] = 2 => Kept(u)' = stats'.operations
      BY <1>2, <2>4 DEF StatsExact, Kept
    <3>5. stats'.operations = received'.table - Cardinality(Uncounted') /\ stats'.clients = Cardinality(Open')
      BY <1>2, <3>1, <3>2, <3>3, CountedFinite, FS_CardinalityType DEF StatsExact, TypeOK
    <3> QED
      BY <1>3, <3>4, <3>5 DEF StatsExact
  <2> QED
    BY <2>3, <2>4
<1> QED
  BY <1>4, <1>5 DEF Moves

-----------------------------------------------------------------------------
\* The table.

LEMMA LinkedFinite ==
    IsFiniteSet(Linked) /\ Cardinality(Linked) \in Nat
  BY FS_Subset, FS_CardinalityType, KeysAssumption DEF Linked

\* A thread after the first step of a body on the table.
Midway(t) == at[t] = "op" /\ step[t] \in {2, 3}

\* A step that leaves the table alone, and moves no thread into, out of or
\* along the later steps of a body, keeps what is known of the table.
LEMMA SameTableSameShape ==
    ASSUME TableInShape, TableCopiesCurrent, slots' = slots, size' = size,
           \A u \in Threads :
                \/ at'[u] = at[u] /\ step'[u] = step[u] /\ req'[u] = req[u] /\ local'[u] = local[u]
                \/ ~Midway(u) /\ ~Midway(u)'
    PROVE  TableInShape' /\ TableCopiesCurrent'
<1>1. Linked' = Linked
  BY DEF Linked
<1>2. ASSUME NEW u \in Threads, NEW op, NEW n \in {2, 3}
      PROVE  /\ In(u, op, n)' <=> In(u, op, n)
             /\ In(u, op, n) => Kept(u)' = Kept(u) /\ req'[u] = req[u]
  BY DEF In, Midway, Kept
<1>3. TableInShape'
  BY <1>1, <1>2 DEF TableInShape
<1>4. TableCopiesCurrent'
  BY <1>1, <1>2 DEF TableCopiesCurrent
<1> QED
  BY <1>3, <1>4

LEMMA LocksStepTable ==
    ASSUME TypeOK, TableInShape, TableCopiesCurrent, NEW t \in Threads, LocksStep(t)
    PROVE  TableInShape' /\ TableCopiesCurrent'
<1>1. /\ slots' = slots /\ size' = size /\ req' = req
      /\ \A u \in Threads \ {t} : at'[u] = at[u] /\ step'[u] = step[u] /\ local'[u] = local[u]
  BY DEF TypeOK, LocksStep, Sleep, SpuriousWakeup, Enter, Leave
<1>2. \/ at'[t] = at[t] /\ step'[t] = step[t] /\ local'[t] = local[t]
      \/ step[t] \in {0, -1} /\ step'[t] \in {0, 1}
  BY DEF TypeOK, LocksStep, Sleep, SpuriousWakeup, Enter, Leave
<1>3. step[t] \in {0, -1} /\ step'[t] \in {0, 1} => ~Midway(t) /\ ~Midway(t)'
  BY DEF Midway
<1> QED
  BY <1>1, <1>2, <1>3, SameTableSameShape

LEMMA StatsBodyTable ==
    ASSUME TypeOK, TableInShape, TableCopiesCurrent, NEW t \in Threads, StatsBody(t)
    PROVE  TableInShape' /\ TableCopiesCurrent'
<1>1. BodyFrame(t) /\ at[t] # "op" /\ slots' = slots /\ size' = size
  BY StatsBodyFrame
<1>2. /\ at' = at /\ req' = req
      /\ \A u \in Threads \ {t} : step'[u] = step[u] /\ local'[u] = local[u]
  BY <1>1 DEF BodyFrame, TypeOK
<1>3. ~Midway(t) /\ ~Midway(t)'
  BY <1>1, <1>2 DEF Midway
<1> QED
  BY <1>1, <1>2, <1>3, SameTableSameShape

LEMMA MovesTable ==
    ASSUME TypeOK, ThreadsInPhase, TableInShape, TableCopiesCurrent, NEW t \in Threads, Moves(t)
    PROVE  TableInShape' /\ TableCopiesCurrent'
<1>1. MoveFrame(t)
  BY MovesFrame
<1>2. /\ slots' = slots /\ size' = size /\ step' = step /\ local' = local /\ step[t] = 0
      /\ \A u \in Threads \ {t} : at'[u] = at[u] /\ req'[u] = req[u]
  BY <1>1 DEF MoveFrame, ThreadsInPhase, InPhase, TypeOK, Sections
<1>3. ~Midway(t) /\ ~Midway(t)'
  BY <1>2 DEF Midway
<1> QED
  BY <1>2, <1>3, SameTableSameShape

\* What a thread finds in the table when it is alone there, or among readers.
LEMMA TableAtRest ==
    ASSUME TableInShape, \A u \in Threads : ~In(u, "put", 2) /\ ~In(u, "put", 3) /\ ~In(u, "del", 2)
    PROVE  size = Cardinality(Linked) /\ \A k \in Keys : slots[k] # Freed
  BY DEF TableInShape

LEMMA WriterFindsTableAtRest ==
    ASSUME LocksExclude, TableInShape, NEW t \in Threads,
           at[t] = "op", step[t] = 1, req[t].op \in TableWrites
    PROVE  size = Cardinality(Linked) /\ \A k \in Keys : slots[k] # Freed
  BY AloneInTable, TableAtRest DEF In

LEMMA ReaderFindsTableAtRest ==
    ASSUME LocksExclude, TableInShape, NEW t \in Threads,
           at[t] = "op", step[t] # 0, req[t].op \notin TableWrites
    PROVE  size = Cardinality(Linked) /\ \A k \in Keys : slots[k] # Freed
  BY NoWriterInTable, TableAtRest DEF In, TableWrites

LEMMA SizeIsKnown ==
    ASSUME TypeOK, LocksExclude, TableInShape
    PROVE  SizeKnown
<1>1. ASSUME NEW t \in Threads, In(t, "size", 1)
      PROVE  size # -1
  <2>1. size = Cardinality(Linked)
    BY <1>1, ReaderFindsTableAtRest DEF In, TableWrites
  <2>2. Cardinality(Linked) \in Nat
    BY LinkedFinite
  <2> QED
    BY <2>1, <2>2
<1> QED
  BY <1>1 DEF SizeKnown

\* For a writer's step only the writer itself has to be looked at.
LEMMA WriterStep ==
    ASSUME TypeOK, LocksExclude, NEW t \in Threads, BodyFrame(t),
           at[t] = "op", req[t].op \in TableWrites,
           In(t, "put", 3)' => Kept(t)' = size' /\ size' = Cardinality(Linked') - 1,
           In(t, "del", 2)' => Kept(t)' = size' /\ size' = Cardinality(Linked') + 1,
           ~In(t, "put", 3)' /\ ~In(t, "del", 2)' => size' = Cardinality(Linked'),
           In(t, "put", 2)' => slots'[req[t].key] = Freed /\ req[t].value # NULL,
           \A k \in Keys : slots'[k] = Freed => In(t, "put", 2)' /\ req[t].key = k
    PROVE  TableInShape' /\ TableCopiesCurrent'
<1>1. step[t] # 0 /\ req' = req /\ at' = at
  BY DEF BodyFrame
<1>2. ASSUME NEW u \in Threads, u # t
      PROVE  \A op : ~In(u, op, 2)' /\ ~In(u, op, 3)'
  <2>1. step'[u] = step[u]
    BY <1>2 DEF BodyFrame, TypeOK
  <2> QED
    BY <1>1, <1>2, <2>1, AloneInTable DEF In
<1>3. ~In(t, "getkeys", 2)' /\ ~In(t, "gettable", 2)'
  BY <1>1 DEF In, TableWrites
<1>4. TableInShape'
  BY <1>1, <1>2 DEF TableInShape
<1>5. TableCopiesCurrent'
  BY <1>2, <1>3 DEF TableCopiesCurrent
<1> QED
  BY <1>4, <1>5

LEMMA PutTable ==
    ASSUME TypeOK, SizeKnown, LocksExclude, ThreadsInPhase, TableInShape, NEW t \in Threads,
           \/ PutNothing(t) \/ PutDestroysOld(t) \/ PutLinksOverOld(t)
           \/ PutLinksNew(t) \/ PutCountsNew(t)
    PROVE  TableInShape' /\ TableCopiesCurrent'
<1>1. BodyFrame(t) /\ at[t] = "op" /\ req' = req /\ at' = at
  BY TableBodyFrame DEF TableBody, BodyFrame
<1>2. req[t].op = "put"
  BY DEF PutNothing, PutDestroysOld, PutLinksOverOld, PutLinksNew, PutCountsNew, In
<1>3. req[t].op \in TableWrites /\ req[t] \in Requests /\ req[t].key \in Keys
  BY <1>1, <1>2, RequestsAssumption DEF TableWrites, ThreadsInPhase, InPhase
<1>4. req[t].value # Freed
  BY <1>3, ValuesOfRequests, MarkersAssumption
<1>5. CASE PutNothing(t)
  <2>1. step[t] = 1 /\ step'[t] = -1 /\ slots' = slots /\ size' = size
    BY <1>5 DEF PutNothing, In, Goto, TypeOK
  <2>2. size' = Cardinality(Linked') /\ \A k \in Keys : slots'[k] # Freed
    BY <1>1, <1>3, <2>1, WriterFindsTableAtRest DEF Linked
  <2> QED
    BY <1>1, <1>3, <2>1, <2>2, WriterStep DEF In
<1>6. CASE PutDestroysOld(t)
  <2>1. /\ step[t] = 1 /\ step'[t] = 2 /\ size' = size /\ req[t].value # NULL
        /\ slots[req[t].key] # NULL /\ slots' = [slots EXCEPT ![req[t].key] = Freed]
    BY <1>6 DEF PutDestroysOld, In, Goto, TypeOK
  <2>2. size = Cardinality(Linked) /\ \A k \in Keys : slots[k] # Freed
    BY <1>1, <1>3, <2>1, WriterFindsTableAtRest
  <2>3. Linked' = Linked
    BY <1>3, <2>1, ValuesOfRequests DEF Linked, TypeOK
  <2>4. slots'[req[t].key] = Freed /\ \A k \in Keys : slots'[k] = Freed => req[t].key = k
    BY <1>3, <2>1, <2>2 DEF TypeOK
  <2> QED
    BY <1>1, <1>2, <1>3, <2>1, <2>2, <2>3, <2>4, WriterStep DEF In
<1>7. CASE PutLinksOverOld(t)
  <2>1. /\ step[t] = 2 /\ step'[t] = -1 /\ size' = size
        /\ slots' = [slots EXCEPT ![req[t].key] = req[t].value]
    BY <1>7 DEF PutLinksOverOld, In, Goto, TypeOK
  <2>2. \A u \in Threads \ {t} : \A op, n : n # 0 => ~In(u, op, n)
    BY <1>1, <1>3, <2>1, AloneInTable DEF In
  <2>3. slots[req[t].key] = Freed /\ req[t].value # NULL
    BY <1>1, <1>2, <2>1 DEF TableInShape, In
  <2>4. size = Cardinality(Linked)
    BY <1>2, <2>1, <2>2 DEF TableInShape, In
  <2>5. \A k \in Keys : slots[k] = Freed => k = req[t].key
    BY <2>2 DEF TableInShape
  <2>6. Linked' = Linked
    BY <1>3, <2>1, <2>3, ValuesOfRequests DEF Linked, TypeOK
  <2>7. \A k \in Keys : slots'[k] # Freed
    BY <1>3, <1>4, <2>1, <2>5 DEF TypeOK
  <2> QED
    BY <1>1, <1>3, <2>1, <2>4, <2>6, <2>7, WriterStep DEF In
<1>8. CASE PutLinksNew(t)
  <2>1. /\ step[t] = 1 /\ step'[t] = 3 /\ size' = size /\ req[t].value # NULL
        /\ slots[req[t].key] = NULL /\ slots' = [slots EXCEPT ![req[t].key] = req[t].value]
        /\ Kept(t)' = size
    BY <1>8 DEF PutLinksNew, In, Goto, Keep, Kept, TypeOK
  <2>2. size = Cardinality(Linked) /\ \A k \in Keys : slots[k] # Freed
    BY <1>1, <1>3, <2>1, WriterFindsTableAtRest
  <2>3. req[t].key \notin Linked /\ Linked' = Linked \cup {req[t].key}
    BY <1>3, <2>1 DEF Linked, TypeOK
  <2>4. Cardinality(Linked') = Cardinality(Linked) + 1
    BY <2>3, LinkedFinite, FS_AddElement
  <2>5. \A k \in Keys : slots'[k] # Freed
    BY <1>3, <1>4, <2>1, <2>2 DEF TypeOK
  <2> QED
    BY <1>1, <1>2, <1>3, <2>1, <2>2, <2>4, <2>5, LinkedFinite, WriterStep DEF In
<1>9. CASE PutCountsNew(t)
  <2>1. step[t] = 3 /\ step'[t] = -1 /\ slots' = slots /\ size' = Kept(t) + 1 /\ In(t, "put", 3)
    BY <1>9 DEF PutCountsNew, In, Goto, TypeOK
  <2>2. \A u \in Threads \ {t} : \A op, n : n # 0 => ~In(u, op, n)
    BY <1>1, <1>3, <2>1, AloneInTable DEF In
  <2>3. Kept(t) = size /\ size = Cardinality(Linked) - 1
    BY <2>1 DEF TableInShape
  <2>4. Linked' = Linked /\ size' = Cardinality(Linked)
    BY <2>1, <2>3, LinkedFinite DEF Linked
  <2>5. \A k \in Keys : slots'[k] # Freed
    BY <2>1, <2>2 DEF TableInShape, In
  <2> QED
    BY <1>1, <1>3, <2>1, <2>4, <2>5, WriterStep DEF In
<1> QED
  BY <1>5, <1>6, <1>7, <1>8, <1>9

LEMMA DelTable ==
    ASSUME TypeOK, SizeKnown, LocksExclude, ThreadsInPhase, TableInShape, NEW t \in Threads,
           DelNothing(t) \/ DelUnlinks(t) \/ DelCounts(t)
    PROVE  TableInShape' /\ TableCopiesCurrent'
<1>1. BodyFrame(t) /\ at[t] = "op" /\ req' = req /\ at' = at
  BY TableBodyFrame DEF TableBody, BodyFrame
<1>2. req[t].op = "del"
  BY DEF DelNothing, DelUnlinks, DelCounts, In
<1>3. req[t].op \in TableWrites /\ req[t].key \in Keys
  BY <1>1, <1>2, RequestsAssumption DEF TableWrites, ThreadsInPhase, InPhase
<1>4. CASE DelNothing(t)
  <2>1. step[t] = 1 /\ step'[t] = -1 /\ slots' = slots /\ size' = size
    BY <1>4 DEF DelNothing, In, Goto, TypeOK
  <2>2. size' = Cardinality(Linked') /\ \A k \in Keys : slots'[k] # Freed
    BY <1>1, <1>3, <2>1, WriterFindsTableAtRest DEF Linked
  <2> QED
    BY <1>1, <1>3, <2>1, <2>2, WriterStep DEF In
<1>5. CASE DelUnlinks(t)
  <2>1. /\ step[t] = 1 /\ step'[t] = 2 /\ size' = size
        /\ slots[req[t].key] # NULL /\ slots' = [slots EXCEPT ![req[t].key] = NULL]
        /\ Kept(t)' = size
    BY <1>5 DEF DelUnlinks, In, Goto, Keep, Kept, TypeOK
  <2>2. size = Cardinality(Linked) /\ \A k \in Keys : slots[k] # Freed
    BY <1>1, <1>3, <2>1, WriterFindsTableAtRest
  <2>3. req[t].key \in Linked /\ Linked' = Linked \ {req[t].key}
    BY <1>3, <2>1 DEF Linked, TypeOK
  <2>4. Cardinality(Linked') = Cardinality(Linked) - 1
    BY <2>3, LinkedFinite, FS_RemoveElement
  <2>5. \A k \in Keys : slots'[k] # Freed
    BY <1>3, <2>1, <2>2, ValuesOfRequests DEF TypeOK
  <2> QED
    BY <1>1, <1>2, <1>3, <2>1, <2>2, <2>4, <2>5, LinkedFinite, WriterStep DEF In
<1>6. CASE DelCounts(t)
  <2>1. step[t] = 2 /\ step'[t] = -1 /\ slots' = slots /\ size' = Kept(t) - 1 /\ In(t, "del", 2)
    BY <1>6 DEF DelCounts, In, Goto, TypeOK
  <2>2. \A u \in Threads \ {t} : \A op, n : n # 0 => ~In(u, op, n)
    BY <1>1, <1>3, <2>1, AloneInTable DEF In
  <2>3. Kept(t) = size /\ size = Cardinality(Linked) + 1
    BY <2>1 DEF TableInShape
  <2>4. Linked' = Linked /\ size' = Cardinality(Linked)
    BY <2>1, <2>3, LinkedFinite DEF Linked
  <2>5. \A k \in Keys : slots'[k] # Freed
    BY <1>2, <2>1, <2>2 DEF TableInShape, In
  <2> QED
    BY <1>1, <1>3, <2>1, <2>4, <2>5, WriterStep DEF In
<1> QED
  BY <1>4, <1>5, <1>6

\* For a reader's step only what the reader copied has to be looked at.
LEMMA ReaderStep ==
    ASSUME TypeOK, TableInShape, TableCopiesCurrent, NEW t \in Threads, BodyFrame(t),
           at[t] = "op", req[t].op \notin TableWrites, slots' = slots, size' = size,
           In(t, "getkeys", 2)' => Kept(t)' = Cardinality(Linked),
           In(t, "gettable", 2)' =>
            /\ Kept(t)' \subseteq {<<k, NoResult>> : k \in Linked} \cup {<<k, slots[k]>> : k \in Linked}
            /\ \A k \in Linked : <<k, NoResult>> \in Kept(t)' \/ <<k, slots[k]>> \in Kept(t)'
    PROVE  TableInShape' /\ TableCopiesCurrent'
<1>1. /\ req' = req /\ at' = at /\ Linked' = Linked
      /\ \A u \in Threads \ {t} : step'[u] = step[u] /\ local'[u] = local[u]
  BY DEF BodyFrame, Linked, TypeOK
<1>2. ASSUME NEW u \in Threads \ {t}, NEW op, NEW n
      PROVE  (In(u, op, n)' <=> In(u, op, n)) /\ Kept(u)' = Kept(u)
  BY <1>1 DEF In, Kept
<1>3. \A n : ~In(t, "put", n) /\ ~In(t, "put", n)' /\ ~In(t, "del", n) /\ ~In(t, "del", n)'
  BY <1>1 DEF In, TableWrites
<1>4. TableInShape'
  <2>1. \A u \in Threads : \A n : /\ In(u, "put", n)' <=> In(u, "put", n)
                                  /\ In(u, "del", n)' <=> In(u, "del", n)
    BY <1>2, <1>3
  <2>2. \A u \in Threads : \A n : In(u, "put", n) \/ In(u, "del", n) => Kept(u)' = Kept(u)
    BY <1>2, <1>3
  <2> QED
    BY <1>1, <2>1, <2>2 DEF TableInShape
<1>5. TableCopiesCurrent'
  <2>1. ASSUME NEW u \in Threads, In(u, "getkeys", 2)'
        PROVE  Kept(u)' = Cardinality(Linked)
    BY <1>2, <2>1 DEF TableCopiesCurrent
  <2>2. ASSUME NEW u \in Threads, In(u, "gettable", 2)'
        PROVE  /\ Kept(u)' \subseteq {<<k, NoResult>> : k \in Linked} \cup {<<k, slots[k]>> : k \in Linked}
               /\ \A k \in Linked : <<k, NoResult>> \in Kept(u)' \/ <<k, slots[k]>> \in Kept(u)'
    BY <1>2, <2>2 DEF TableCopiesCurrent
  <2> QED
    BY <1>1, <2>1, <2>2 DEF TableCopiesCurrent
<1> QED
  BY <1>4, <1>5

LEMMA ReadTable ==
    ASSUME TypeOK, SizeKnown, LocksExclude, TableInShape, TableCopiesCurrent, NEW t \in Threads,
           \/ Get(t) \/ Size(t) \/ GetKeysSizes(t) \/ GetKeysWalks(t)
           \/ GetTableLists(t) \/ GetTableReads(t) \/ GetTableEnds(t)
    PROVE  TableInShape' /\ TableCopiesCurrent'
<1>1. BodyFrame(t) /\ at[t] = "op" /\ req' = req /\ at' = at
  BY TableBodyFrame DEF TableBody, BodyFrame
<1>2. slots' = slots /\ size' = size /\ step[t] # 0 /\ req[t].op \notin TableWrites
  BY DEF Get, Size, GetKeysSizes, GetKeysWalks, GetTableLists, GetTableReads, GetTableEnds,
         In, TableWrites
<1>3. CASE step'[t] = -1
  BY <1>1, <1>2, <1>3, ReaderStep DEF In
<1>4. CASE GetKeysSizes(t)
  <2>1. req[t].op = "getkeys" /\ Kept(t)' = size /\ size = Cardinality(Linked)
    BY <1>1, <1>2, <1>4, ReaderFindsTableAtRest DEF GetKeysSizes, In, Keep, Kept, TypeOK
  <2> QED
    BY <1>1, <1>2, <2>1, ReaderStep DEF In
<1>5. CASE GetTableLists(t)
  <2>1. req[t].op = "gettable" /\ Kept(t)' = {<<k, NoResult>> : k \in Linked}
    BY <1>5 DEF GetTableLists, In, Keep, Kept, TypeOK
  <2> QED
    BY <1>1, <1>2, <2>1, ReaderStep DEF In
<1>6. CASE GetTableReads(t)
  <2>1. PICK pair \in Kept(t) :
            /\ pair[2] = NoResult
            /\ Kept(t)' = (Kept(t) \ {pair}) \cup {<<pair[1], slots[pair[1]]>>}
    BY <1>6 DEF GetTableReads, Keep, Kept, TypeOK
  <2>2. In(t, "gettable", 2)
    BY <1>6 DEF GetTableReads
  <2>3. /\ Kept(t) \subseteq {<<k, NoResult>> : k \in Linked} \cup {<<k, slots[k]>> : k \in Linked}
        /\ \A k \in Linked : <<k, NoResult>> \in Kept(t) \/ <<k, slots[k]>> \in Kept(t)
    BY <2>2 DEF TableCopiesCurrent
  <2>4. pair[1] \in Linked
    BY <2>1, <2>3
  <2>5. Kept(t)' \subseteq {<<k, NoResult>> : k \in Linked} \cup {<<k, slots[k]>> : k \in Linked}
    BY <2>1, <2>3, <2>4
  <2>6. ASSUME NEW k \in Linked
        PROVE  <<k, NoResult>> \in Kept(t)' \/ <<k, slots[k]>> \in Kept(t)'
    <3>1. CASE k = pair[1]
      BY <2>1, <3>1
    <3>2. CASE k # pair[1]
      BY <2>1, <2>3, <3>2
    <3> QED
      BY <3>1, <3>2
  <2>7. req[t].op = "gettable"
    BY <2>2 DEF In
  <2> QED
    BY <1>1, <1>2, <2>5, <2>6, <2>7, ReaderStep DEF In
<1>7. GetKeysSizes(t) \/ GetTableLists(t) \/ GetTableReads(t) \/ step'[t] = -1
  BY DEF Get, Size, SizeKnown, In, GetKeysWalks, GetTableEnds, Goto, TypeOK
<1> QED
  BY <1>3, <1>4, <1>5, <1>6, <1>7

-----------------------------------------------------------------------------
\* The inductive invariant.

LEMMA InitEstablishesServerInv ==
    ASSUME Init
    PROVE  ServerInv
<1>1. slots \in [Keys -> Values]
  BY LoadedAssumption DEF Init
<1>2. IsFiniteSet(Linked) /\ size = Cardinality(Linked) /\ Cardinality(Linked) \in Nat
  BY LinkedFinite DEF Init, Linked
<1>3. TypeOK
  <2>1. sem \in [{"table", "stats"} -> Semaphores(Threads)]
    BY NewSemaphoreEffect DEF Init
  <2>2. /\ at \in [Threads -> Places] /\ step \in [Threads -> -1 .. 3]
        /\ req \in [Threads -> Requests \cup {NoRequest}]
        /\ DOMAIN local = Threads /\ DOMAIN result = Threads
    BY DEF Init, Places
  <2>3. /\ stats \in [operations : Int, clients : Int]
        /\ received \in [table : Nat, other : Nat]
    BY DEF Init
  <2>4. slots \in [Keys -> Values \cup {Freed}] /\ size \in Int
    BY <1>1, <1>2
  <2>5. linked \in BOOLEAN
    BY Zenon DEF Init
  <2> QED
    BY <2>1, <2>2, <2>3, <2>4, <2>5 DEF TypeOK, Init
<1>4. LocksExclude
  <2>1. \A lock : Holders(lock) = {} /\ Writers(lock) = {} /\ Holders(lock) \ Writers(lock) = {}
    BY DEF Init, Holders, Writers
  <2>2. \A lock \in {"table", "stats"} : sem[lock].n_read = 0 /\ sem[lock].n_write = 0
    BY NewSemaphoreEffect DEF Init
  <2> QED
    BY <2>1, <2>2, FS_EmptySet DEF LocksExclude, LockExcludes
<1>5. ThreadsInPhase
  BY NoRequestIsNone DEF Init, ThreadsInPhase, InPhase
<1>6. TableInShape
  BY <1>1, <1>2, MarkersAssumption DEF Init, TableInShape, In
<1>7. TableCopiesCurrent /\ StatsCopiesCurrent
  BY DEF Init, TableCopiesCurrent, StatsCopiesCurrent, In
<1>8. StatsExact
  <2>1. Uncounted = {} /\ Open = {}
    BY DEF Init, Uncounted, Open
  <2> QED
    BY <2>1, FS_EmptySet DEF Init, StatsExact
<1> QED
  BY <1>3, <1>4, <1>5, <1>6, <1>7, <1>8 DEF ServerInv

LEMMA StepPreservesServerInv ==
    ASSUME ServerInv, [Next]_vars
    PROVE  ServerInv'
<1> USE DEF ServerInv
<1>1. CASE UNCHANGED <<sem, slots, size, stats, at, step, req, local, result, received>> /\ linked' \in BOOLEAN
  <2>1. TypeOK'
    BY <1>1 DEF TypeOK
  <2>2. Linked' = Linked /\ Uncounted' = Uncounted /\ Open' = Open
    BY <1>1 DEF Linked, Uncounted, Open
  <2>3. \A lock : Holders(lock)' = Holders(lock) /\ Writers(lock)' = Writers(lock)
    BY <1>1 DEF Holders, Writers, Writing
  <2>4. LocksExclude'
    BY <1>1, <2>3, SameHoldersSameLocks
  <2>5. ThreadsInPhase'
    BY <1>1 DEF ThreadsInPhase, InPhase, Answered
  <2>6. TableInShape' /\ TableCopiesCurrent'
    BY <1>1, SameTableSameShape
  <2>7. StatsExact' /\ StatsCopiesCurrent'
    BY <1>1, <2>2 DEF StatsExact, StatsCopiesCurrent, Kept, Counter
  <2> QED
    BY <2>1, <2>4, <2>5, <2>6, <2>7
<1>2. ASSUME NEW t \in Threads, LocksStep(t)
      PROVE  ServerInv'
  BY <1>2, LocksStepTypes, LocksStepInPhase, LocksStepStats, LocksStepTable
<1>3. ASSUME NEW t \in Threads, TableBody(t)
      PROVE  ServerInv'
  <2>0. SizeKnown
    BY SizeIsKnown
  <2>1. LocksExclude'
    BY <1>3, <2>0, TableBodyFrame, BodyKeepsLocks
  <2>2. TableInShape' /\ TableCopiesCurrent'
    BY <1>3, <2>0, PutTable, DelTable, ReadTable DEF TableBody
  <2> QED
    BY <1>3, <2>0, <2>1, <2>2, TableBodyTypes, TableBodyInPhase, TableBodyStats
<1>4. ASSUME NEW t \in Threads, StatsBody(t)
      PROVE  ServerInv'
  <2>1. LocksExclude'
    BY <1>4, StatsBodyFrame, BodyKeepsLocks
  <2> QED
    BY <1>4, <2>1, StatsBodyTypes, StatsBodyInPhase, StatsBodyStats, StatsBodyTable
<1>5. ASSUME NEW t \in Threads, Moves(t)
      PROVE  ServerInv'
  <2>1. LocksExclude'
    BY <1>5, MovesFrame, MoveKeepsLocks
  <2> QED
    BY <1>5, <2>1, MovesTypes, MovesInPhase, MovesStats, MovesTable
<1>6. CASE UNCHANGED vars \/ Watch
  BY <1>1, <1>6 DEF vars, Watch, TypeOK
<1> QED
  BY <1>2, <1>3, <1>4, <1>5, <1>6, NextByKind

\* Whatever the threads, keys and requests: the locks count exactly and exclude,
\* the table and the statistics are in shape whenever nobody works on them, and
\* what a handler has copied stays true until it answers.
THEOREM ServerCorrect == Spec => []ServerInv
<1>1. Init => ServerInv
  BY InitEstablishesServerInv
<1>2. ServerInv /\ [Next]_vars => ServerInv'
  BY StepPreservesServerInv
<1> QED
  BY <1>1, <1>2, PTL DEF Spec

\* The statistics lose no update and op_stats answers with one instant's values.
THEOREM StatisticsExact == Spec => []StatsExact
<1>1. ServerInv => StatsExact
  BY DEF ServerInv
<1> QED
  BY <1>1, ServerCorrect, PTL

\* No handler reads or lists what another has freed, overruns its key array or
\* misses a key it has listed.
THEOREM ReadsAreWhole == Spec => []NoBrokenRead
<1>1. ASSUME ServerInv, NEW t \in Threads
      PROVE  /\ In(t, "get", 1) => slots[req[t].key] # Freed
             /\ In(t, "getkeys", 2) \/ In(t, "gettable", 1) => \A k \in Keys : slots[k] # Freed
             /\ In(t, "getkeys", 2) => Kept(t) = Cardinality(Linked)
             /\ In(t, "gettable", 2) => \A pair \in Kept(t) : pair[2] \notin {NULL, Freed}
  <2> USE <1>1 DEF ServerInv
  <2>1. ASSUME In(t, "get", 1)
        PROVE  slots[req[t].key] # Freed
    <3>1. at[t] = "op" /\ step[t] # 0 /\ req[t].op \notin TableWrites /\ req[t].op = "get"
      BY <2>1 DEF In, TableWrites
    <3>2. req[t].key \in Keys
      BY <3>1, RequestsAssumption DEF ThreadsInPhase, InPhase
    <3> QED
      BY <3>1, <3>2, ReaderFindsTableAtRest
  <2>4. ASSUME In(t, "getkeys", 2) \/ In(t, "gettable", 1)
        PROVE  \A k \in Keys : slots[k] # Freed
    BY <2>4, ReaderFindsTableAtRest DEF In, TableWrites
  <2>2. ASSUME In(t, "getkeys", 2)
        PROVE  Kept(t) = Cardinality(Linked)
    BY <2>2 DEF TableCopiesCurrent
  <2>3. ASSUME In(t, "gettable", 2), NEW pair \in Kept(t)
        PROVE  pair[2] \notin {NULL, Freed}
    <3>1. at[t] = "op" /\ step[t] # 0 /\ req[t].op \notin TableWrites
      BY <2>3 DEF In, TableWrites
    <3>2. \A k \in Keys : slots[k] # Freed
      BY <3>1, ReaderFindsTableAtRest
    <3>3. \E k \in Linked : pair = <<k, NoResult>> \/ pair = <<k, slots[k]>>
      BY <2>3 DEF TableCopiesCurrent
    <3> QED
      BY <3>2, <3>3, MarkersAssumption DEF Linked
  <2> QED
    BY <2>1, <2>2, <2>3, <2>4
<1>2. ServerInv => NoBrokenRead
  BY <1>1 DEF NoBrokenRead
<1> QED
  BY <1>2, ServerCorrect, PTL

\* The counters of each lock add up to the threads inside, and nobody else is.
THEOREM LocksCountHolders == Spec => []LocksHeldInside
<1>1. ASSUME ServerInv, NEW lock \in {"table", "stats"}
      PROVE  sem[lock].n_read + sem[lock].n_write = Cardinality(Holders(lock))
  <2>1. /\ sem[lock].n_read = Cardinality(Holders(lock) \ Writers(lock))
        /\ sem[lock].n_write = Cardinality(Writers(lock))
        /\ \A t \in Writers(lock) : Holders(lock) = {t}
    BY <1>1 DEF ServerInv, LocksExclude, LockExcludes
  <2>2. CASE Writers(lock) = {}
    <3>1. Holders(lock) \ Writers(lock) = Holders(lock) /\ Cardinality(Writers(lock)) = 0
      BY <2>2, FS_EmptySet
    <3>2. Cardinality(Holders(lock) \ Writers(lock)) \in Nat
      BY HoldersFinite
    <3>3. sem[lock].n_read = Cardinality(Holders(lock)) /\ sem[lock].n_write = 0 /\ sem[lock].n_read \in Nat
      BY <2>1, <3>1, <3>2
    <3> QED
      BY <3>3
  <2>3. CASE Writers(lock) # {}
    <3>1. PICK t \in Writers(lock) : Holders(lock) = {t}
      BY <2>1, <2>3
    <3>2. Writers(lock) = {t} /\ Holders(lock) \ Writers(lock) = {}
      BY <3>1 DEF Writers
    <3>3. Cardinality(Holders(lock)) = 1 /\ Cardinality(Writers(lock)) = 1
          /\ Cardinality(Holders(lock) \ Writers(lock)) = 0
      BY <3>1, <3>2, FS_EmptySet, FS_Singleton
    <3>4. sem[lock].n_read = 0 /\ sem[lock].n_write = 1
      BY <2>1, <3>3
    <3> QED
      BY <3>3, <3>4
  <2> QED
    BY <2>2, <2>3
<1>2. ServerInv => LocksHeldInside
  BY <1>1 DEF LocksHeldInside, ServerInv, TypeOK
<1> QED
  BY <1>2, ServerCorrect, PTL

-----------------------------------------------------------------------------
\* The server is an atomic store.

LEMMA InitRefines ==
    ASSUME Init
    PROVE  AS!Init
<1>1. slots \in [Keys -> Values] /\ slots \in Loaded
  BY LoadedAssumption DEF Init
<1>2. StoreMap = slots
  BY <1>1, MarkersAssumption DEF StoreMap
<1>3. \A t \in Threads : ~OnTable(t)
  BY NoRequestIsNone DEF Init, OnTable
<1> QED
  BY <1>1, <1>2, <1>3 DEF AS!Init, StoreCall, StoreResult

\* With no entry destroyed the store is the table.
LEMMA StoreAtRest ==
    ASSUME TypeOK, \A k \in Keys : slots[k] # Freed
    PROVE  StoreMap = slots /\ AS!Present = Linked
<1>1. StoreMap = slots
  BY DEF StoreMap, TypeOK
<1> QED
  BY <1>1 DEF AS!Present, Linked

\* Threads that do not start or finish to replace an entry leave the store alone.
LEMMA SameStore ==
    ASSUME slots' = slots,
           \A u \in Threads :
                \/ at'[u] = at[u] /\ step'[u] = step[u] /\ req'[u] = req[u]
                \/ ~Midway(u) /\ ~Midway(u)'
    PROVE  StoreMap' = StoreMap
<1>1. ASSUME NEW k \in Keys
      PROVE  BeingPut(k)' = BeingPut(k)
  <2>1. \A u \in Threads : In(u, "put", 2)' <=> In(u, "put", 2)
    BY DEF In, Midway
  <2>2. \A u \in Threads : In(u, "put", 2) => req'[u] = req[u]
    BY DEF In, Midway
  <2>3. {req'[t].value : t \in {u \in Threads : In(u, "put", 2)' /\ req'[u].key = k}}
          = {req[t].value : t \in {u \in Threads : In(u, "put", 2) /\ req[u].key = k}}
    BY <2>1, <2>2
  <2> QED
    BY <2>3, Zenon DEF BeingPut
<1> QED
  BY <1>1 DEF StoreMap

\* What a step that answers a request on the table does to calls and results.
LEMMA AnswerInStore ==
    ASSUME TypeOK, ThreadsInPhase, NEW t \in Threads, BodyFrame(t), at[t] = "op",
           step[t] = 1 \/ req[t].op \notin TableWrites, step[t] # -1, NEW x, Answer(t, x)
    PROVE  /\ StoreCall[t] = req[t] /\ StoreCall[t] # NoRequest
           /\ StoreResult[t] = NoResult
           /\ StoreCall' = StoreCall
           /\ StoreResult' = [StoreResult EXCEPT ![t] = <<req[t].op, x>>]
<1>1. req' = req /\ req[t].op \in TableOps /\ InPhase(t)
  BY DEF BodyFrame, ThreadsInPhase, InPhase
<1>2. OnTable(t) /\ \A u \in Threads : OnTable(u)' <=> OnTable(u)
  BY <1>1 DEF OnTable
<1>3. StoreCall[t] = req[t] /\ req[t] # NoRequest
  BY <1>1, <1>2, NoRequestIsNone DEF StoreCall
<1>4. StoreResult[t] = NoResult
  <2>1. step[t] # 3 \/ req[t].op \in TableWrites
    BY <1>1 DEF InPhase, TableWrites
  <2>2. ~Answered(t)
    BY <2>1 DEF Answered, BodyFrame
  <2>3. result[t] = NoResult
    BY <1>1, <2>2 DEF InPhase
  <2> QED
    BY <2>3 DEF StoreResult
<1>5. StoreCall' = StoreCall
  BY <1>1, <1>2 DEF StoreCall
<1>6. /\ result'[t] = <<req[t].op, x>>
      /\ \A u \in Threads \ {t} : result'[u] = result[u]
  BY DEF Answer, TypeOK
<1>7. StoreResult' = [StoreResult EXCEPT ![t] = <<req[t].op, x>>]
  BY <1>2, <1>6 DEF StoreResult
<1> QED
  BY <1>3, <1>4, <1>5, <1>7

\* A body step without an answer shows in no call and in no result.
LEMMA NoAnswerInStore ==
    ASSUME TypeOK, NEW t \in Threads, BodyFrame(t), result' = result
    PROVE  StoreCall' = StoreCall /\ StoreResult' = StoreResult
  BY DEF BodyFrame, StoreCall, StoreResult, OnTable

\* The map after the first step of a put is the map with the new value, whether
\* the old entry is destroyed first or a new one is linked.
LEMMA PutInStore ==
    ASSUME ServerInv, NEW t \in Threads, PutDestroysOld(t) \/ PutLinksNew(t)
    PROVE  AS!Effect(t)
<1> USE DEF ServerInv
<1>0. SizeKnown
  BY SizeIsKnown
<1>1. /\ BodyFrame(t) /\ at[t] = "op" /\ step[t] = 1 /\ req[t].op = "put"
      /\ req' = req /\ at' = at
  BY <1>0, TableBodyFrame DEF TableBody, PutDestroysOld, PutLinksNew, In, BodyFrame
<1>2. /\ req[t].op \in TableWrites /\ req[t] \in Requests /\ req[t].key \in Keys
  BY <1>1, RequestsAssumption DEF TableWrites, ThreadsInPhase, InPhase
<1>3. \A k \in Keys : slots[k] # Freed
  BY <1>1, <1>2, WriterFindsTableAtRest
<1>4. StoreMap = slots
  BY <1>3, StoreAtRest
<1>5. req[t].value # NULL /\ req[t].value # Freed /\ Answer(t, 0)
  BY <1>2, ValuesOfRequests, MarkersAssumption DEF PutDestroysOld, PutLinksNew
<1>6. StoreMap' = [StoreMap EXCEPT ![req[t].key] = req[t].value]
  <2>1. CASE PutDestroysOld(t)
    <3>1. slots' = [slots EXCEPT ![req[t].key] = Freed] /\ step'[t] = 2
      BY <2>1 DEF PutDestroysOld, Goto, TypeOK
    <3>2. \A u \in Threads : In(u, "put", 2)' <=> u = t
      <4>1. In(t, "put", 2)'
        BY <1>1, <3>1 DEF In
      <4>2. \A u \in Threads \ {t} : step'[u] = step[u]
        BY <1>1 DEF BodyFrame, TypeOK
      <4>3. \A u \in Threads \ {t} : at[u] = "op" => step[u] = 0
        BY <1>1, <1>2, AloneInTable
      <4> QED
        BY <1>1, <4>1, <4>2, <4>3 DEF In
    <3>3. ASSUME NEW k \in Keys
          PROVE  StoreMap'[k] = IF k = req[t].key THEN req[t].value ELSE StoreMap[k]
      <4>1. CASE k = req[t].key
        <5>1. {req'[v].value : v \in {u \in Threads : In(u, "put", 2)' /\ req'[u].key = k}}
                = {req[t].value}
          BY <1>1, <3>2, <4>1
        <5>2. BeingPut(k)' = req[t].value
          BY <5>1 DEF BeingPut
        <5> QED
          BY <3>1, <4>1, <5>2 DEF StoreMap, TypeOK
      <4>2. CASE k # req[t].key
        BY <1>3, <1>4, <3>1, <4>2 DEF StoreMap, TypeOK
      <4> QED
        BY <4>1, <4>2
    <3> QED
      BY <3>3 DEF StoreMap
  <2>2. CASE PutLinksNew(t)
    <3>1. slots' = [slots EXCEPT ![req[t].key] = req[t].value]
      BY <2>2 DEF PutLinksNew
    <3>2. \A k \in Keys : slots'[k] # Freed
      BY <1>2, <1>3, <1>5, <3>1 DEF TypeOK
    <3> QED
      BY <1>4, <3>1, <3>2 DEF StoreMap, TypeOK
  <2> QED
    BY <2>1, <2>2
<1>7. /\ StoreCall[t] = req[t] /\ StoreCall[t] # NoRequest /\ StoreResult[t] = NoResult
      /\ StoreCall' = StoreCall /\ StoreResult' = [StoreResult EXCEPT ![t] = <<"put", 0>>]
  BY <1>1, <1>5, AnswerInStore
<1> QED
  BY <1>1, <1>5, <1>6, <1>7 DEF AS!Effect, AS!Answered

\* The second half of replacing an entry shows nothing new.
LEMMA PutEndsInStore ==
    ASSUME ServerInv, NEW t \in Threads, PutLinksOverOld(t)
    PROVE  StoreMap' = StoreMap
<1> USE DEF ServerInv
<1>0. SizeKnown
  BY SizeIsKnown
<1>1. /\ BodyFrame(t) /\ at[t] = "op" /\ In(t, "put", 2)
      /\ slots' = [slots EXCEPT ![req[t].key] = req[t].value]
  BY <1>0, TableBodyFrame DEF TableBody, PutLinksOverOld
<1>2. /\ req[t].op \in TableWrites /\ req[t] \in Requests /\ req[t].key \in Keys /\ step[t] # 0
  BY <1>1, RequestsAssumption DEF TableWrites, ThreadsInPhase, InPhase, In
<1>3. slots[req[t].key] = Freed /\ req[t].value # Freed
  BY <1>1, <1>2, ValuesOfRequests, MarkersAssumption DEF TableInShape
<1>4. \A u \in Threads : In(u, "put", 2) <=> u = t
  BY <1>1, <1>2, AloneInTable DEF In
<1>5. {req[v].value : v \in {u \in Threads : In(u, "put", 2) /\ req[u].key = req[t].key}}
        = {req[t].value}
  BY <1>4
<1>6. BeingPut(req[t].key) = req[t].value
  BY <1>5 DEF BeingPut
<1>7. \A k \in Keys : slots[k] = Freed => k = req[t].key
  BY <1>4 DEF TableInShape
<1>8. ASSUME NEW k \in Keys
      PROVE  (IF slots'[k] = Freed THEN BeingPut(k)' ELSE slots'[k])
              = IF slots[k] = Freed THEN BeingPut(k) ELSE slots[k]
  <2>1. CASE k = req[t].key
    BY <1>1, <1>3, <1>6, <2>1 DEF TypeOK
  <2>2. CASE k # req[t].key
    BY <1>1, <1>7, <2>2 DEF TypeOK
  <2> QED
    BY <2>1, <2>2
<1> QED
  BY <1>8 DEF StoreMap

LEMMA DelInStore ==
    ASSUME ServerInv, NEW t \in Threads, DelNothing(t) \/ DelUnlinks(t)
    PROVE  AS!Effect(t)
<1> USE DEF ServerInv
<1>0. SizeKnown
  BY SizeIsKnown
<1>1. /\ BodyFrame(t) /\ at[t] = "op" /\ step[t] = 1 /\ req[t].op = "del"
  BY <1>0, TableBodyFrame DEF TableBody, DelNothing, DelUnlinks, In
<1>2. /\ req[t].op \in TableWrites /\ req[t].key \in Keys
  BY <1>1, RequestsAssumption DEF TableWrites, ThreadsInPhase, InPhase
<1>3. \A k \in Keys : slots[k] # Freed
  BY <1>1, <1>2, WriterFindsTableAtRest
<1>4. StoreMap = slots /\ AS!Present = Linked
  BY <1>3, StoreAtRest
<1>5. slots' = [slots EXCEPT ![req[t].key] = NULL]
  BY <1>2 DEF DelNothing, DelUnlinks, TypeOK
<1>6. StoreMap' = [StoreMap EXCEPT ![req[t].key] = NULL]
  <2>1. \A k \in Keys : slots'[k] # Freed
    BY <1>2, <1>3, <1>5, ValuesOfRequests DEF TypeOK
  <2> QED
    BY <1>4, <1>5, <2>1 DEF StoreMap, TypeOK
<1>7. Answer(t, IF req[t].key \in AS!Present THEN 0 ELSE 1)
  <2>1. CASE DelNothing(t)
    BY <1>4, <2>1 DEF DelNothing, Linked
  <2>2. CASE DelUnlinks(t)
    BY <1>2, <1>4, <2>2 DEF DelUnlinks, Linked
  <2> QED
    BY <2>1, <2>2
<1>8. /\ StoreCall[t] = req[t] /\ StoreCall[t] # NoRequest /\ StoreResult[t] = NoResult
      /\ StoreCall' = StoreCall
      /\ StoreResult' = [StoreResult EXCEPT ![t] = <<"del", IF req[t].key \in AS!Present THEN 0 ELSE 1>>]
  BY <1>1, <1>7, AnswerInStore
<1> QED
  BY <1>1, <1>6, <1>8 DEF AS!Effect, AS!Answered

LEMMA SameCardinality == \A S : AS!Cardinality(S) = Cardinality(S)
  BY DEF AS!Cardinality, Cardinality

\* Answers that leave the table as it is.
LEMMA AnswersInStore ==
    ASSUME ServerInv, NEW t \in Threads,
           PutNothing(t) \/ Get(t) \/ Size(t) \/ GetKeysWalks(t) \/ GetTableEnds(t)
    PROVE  AS!Effect(t)
<1> USE DEF ServerInv
<1>0. SizeKnown
  BY SizeIsKnown
<1>1. /\ BodyFrame(t) /\ at[t] = "op" /\ slots' = slots /\ req[t] \in Requests
      /\ step[t] = 1 \/ req[t].op \notin TableWrites
      /\ step[t] \in {1, 2} /\ step'[t] = -1
  BY <1>0, TableBodyFrame DEF TableBody, PutNothing, Get, Size, SizeKnown, GetKeysWalks, GetTableEnds, In,
     Goto, TypeOK, TableWrites, ThreadsInPhase, InPhase
<1>2. size = Cardinality(Linked) /\ \A k \in Keys : slots[k] # Freed
  <2>1. CASE req[t].op \in TableWrites
    BY <1>1, <2>1, WriterFindsTableAtRest
  <2>2. CASE req[t].op \notin TableWrites
    BY <1>1, <2>2, ReaderFindsTableAtRest
  <2> QED
    BY <2>1, <2>2
<1>3. StoreMap = slots /\ AS!Present = Linked
  BY <1>2, StoreAtRest
<1>4. StoreMap' = StoreMap
  BY <1>1, <1>2, <1>3 DEF StoreMap, TypeOK
<1>5. ASSUME NEW x, Answer(t, x)
      PROVE  /\ StoreCall[t] = req[t] /\ StoreCall[t] # NoRequest /\ StoreResult[t] = NoResult
             /\ StoreCall' = StoreCall
             /\ StoreResult' = [StoreResult EXCEPT ![t] = <<req[t].op, x>>]
  BY <1>1, <1>5, AnswerInStore
<1>6. CASE PutNothing(t)
  <2>1. req[t].op = "put" /\ req[t].value = NULL /\ Answer(t, -1)
    BY <1>6 DEF PutNothing, In
  <2> QED
    BY <1>4, <1>5, <2>1 DEF AS!Effect, AS!Answered
<1>7. CASE Get(t)
  <2>1. req[t].op = "get" /\ Answer(t, StoreMap[req[t].key])
    BY <1>3, <1>7 DEF Get, In
  <2> QED
    BY <1>4, <1>5, <2>1 DEF AS!Effect, AS!Answered
<1>8. CASE Size(t)
  <2>1. req[t].op = "size" /\ Answer(t, Cardinality(AS!Present))
    BY <1>2, <1>3, <1>8 DEF Size, In
  <2> QED
    BY <1>4, <1>5, <2>1, SameCardinality DEF AS!Effect, AS!Answered
<1>9. CASE GetKeysWalks(t)
  <2>1. req[t].op = "getkeys" /\ Kept(t) = Cardinality(Linked)
    BY <1>9 DEF GetKeysWalks, In, TableCopiesCurrent
  <2>2. Kept(t) = 0 => Linked = {}
    BY <2>1, LinkedFinite, FS_EmptySet
  <2>3. Answer(t, AS!Present)
    BY <1>3, <1>9, <2>2 DEF GetKeysWalks
  <2> QED
    BY <1>4, <1>5, <2>1, <2>3 DEF AS!Effect, AS!Answered
<1>10. CASE GetTableEnds(t)
  <2>1. /\ req[t].op = "gettable" /\ Answer(t, Kept(t))
        /\ \A pair \in Kept(t) : pair[2] # NoResult
        /\ Kept(t) \subseteq {<<k, NoResult>> : k \in Linked} \cup {<<k, slots[k]>> : k \in Linked}
        /\ \A k \in Linked : <<k, NoResult>> \in Kept(t) \/ <<k, slots[k]>> \in Kept(t)
    BY <1>10 DEF GetTableEnds, In, TableCopiesCurrent
  <2>2. Kept(t) = {<<k, slots[k]>> : k \in Linked}
    <3>1. \A k \in Linked : <<k, NoResult>> \notin Kept(t)
      BY <2>1
    <3> QED
      BY <2>1, <3>1
  <2>3. Answer(t, {<<x, StoreMap[x]>> : x \in AS!Present})
    BY <1>3, <2>1, <2>2
  <2> QED
    BY <1>4, <1>5, <2>1, <2>3 DEF AS!Effect, AS!Answered
<1> QED
  BY <1>6, <1>7, <1>8, <1>9, <1>10

\* Steps of a body that show nothing: the counting half of a writer, and the
\* copies readers make before they answer.
LEMMA HiddenInStore ==
    ASSUME ServerInv, NEW t \in Threads,
           \/ PutLinksOverOld(t) \/ PutCountsNew(t) \/ DelCounts(t)
           \/ GetKeysSizes(t) \/ GetTableLists(t) \/ GetTableReads(t)
    PROVE  UNCHANGED <<StoreMap, StoreCall, StoreResult>>
<1> USE DEF ServerInv
<1>0. SizeKnown
  BY SizeIsKnown
<1>1. BodyFrame(t) /\ at[t] = "op" /\ result' = result
  BY <1>0, TableBodyFrame DEF TableBody, PutLinksOverOld, PutCountsNew, DelCounts, GetKeysSizes,
     GetTableLists, GetTableReads
<1>2. StoreCall' = StoreCall /\ StoreResult' = StoreResult
  BY <1>1, NoAnswerInStore
<1>3. CASE PutLinksOverOld(t)
  BY <1>2, <1>3, PutEndsInStore
<1>4. CASE ~PutLinksOverOld(t)
  <2>1. slots' = slots /\ step[t] # 0 /\ ~In(t, "put", 2)
    BY <1>4 DEF PutCountsNew, DelCounts, GetKeysSizes, GetTableLists, GetTableReads, In
  <2>2. \A k \in Keys : slots[k] # Freed
    <3>1. CASE req[t].op \in TableWrites
      <4>1. \A u \in Threads \ {t} : ~In(u, "put", 2)
        BY <1>1, <2>1, <3>1, AloneInTable DEF In
      <4> QED
        BY <2>1, <4>1 DEF TableInShape
    <3>2. CASE req[t].op \notin TableWrites
      BY <1>1, <2>1, <3>2, ReaderFindsTableAtRest
    <3> QED
      BY <3>1, <3>2
  <2>3. StoreMap' = StoreMap
    BY <2>1, <2>2 DEF StoreMap
  <2> QED
    BY <1>2, <2>3
<1> QED
  BY <1>3, <1>4

LEMMA MovesInStore ==
    ASSUME ServerInv, NEW t \in Threads, Moves(t)
    PROVE  AS!Next \/ UNCHANGED <<StoreMap, StoreCall, StoreResult>>
<1> USE DEF ServerInv
<1>1. MoveFrame(t) /\ InPhase(t)
  BY MovesFrame DEF ThreadsInPhase
<1>2. /\ slots' = slots /\ step' = step /\ step[t] = 0
      /\ \A u \in Threads \ {t} : at'[u] = at[u] /\ req'[u] = req[u] /\ result'[u] = result[u]
  BY <1>1 DEF MoveFrame, InPhase, TypeOK, Sections
<1>3. StoreMap' = StoreMap
  <2>1. ~Midway(t) /\ ~Midway(t)'
    BY <1>2 DEF Midway
  <2> QED
    BY <1>2, <2>1, SameStore
<1>4. CASE Accept(t) \/ ReceiveFails(t) \/ Forward(t) \/ ForwardReturns(t)
  <2>1. req' = req /\ result' = result
    BY <1>4 DEF Accept, ReceiveFails, Forward, ForwardReturns
  <2> QED
    BY <1>3, <2>1 DEF StoreCall, StoreResult, OnTable
<1>5. CASE Receive(t)
  <2>1. /\ at[t] = "receive" /\ req[t] = NoRequest /\ ~OnTable(t) /\ result' = result
        /\ req'[t] \in Requests
    BY <1>1, <1>5, ReceiveEffect, NoRequestIsNone DEF InPhase, OnTable
  <2>2. result[t] = NoResult
    BY <1>1, <2>1, NoRequestIsNone DEF InPhase
  <2>3. StoreResult' = StoreResult
    BY <1>2, <2>1, <2>2 DEF StoreResult, OnTable
  <2>4. CASE OnTable(t)'
    <3>1. StoreCall[t] = NoRequest /\ StoreCall' = [StoreCall EXCEPT ![t] = req'[t]]
      BY <1>2, <2>1, <2>4 DEF StoreCall, OnTable
    <3>2. req'[t] \in {r \in Requests : r.op \in TableOps}
      BY <2>1, <2>4 DEF OnTable
    <3>3. AS!Arrive(t)
      BY <1>3, <2>3, <3>1, <3>2 DEF AS!Arrive
    <3> QED
      BY <3>3 DEF AS!Next
  <2>5. CASE ~OnTable(t)'
    <3>1. StoreCall' = StoreCall
      BY <1>2, <2>1, <2>5 DEF StoreCall, OnTable
    <3> QED
      BY <1>3, <2>3, <3>1
  <2> QED
    BY <2>4, <2>5
<1>6. CASE Send(t)
  <2>1. at[t] = "send" /\ req'[t] = NoRequest /\ result'[t] = NoResult /\ ~OnTable(t)'
    BY <1>6, NoRequestIsNone DEF Send, Move, TypeOK, OnTable
  <2>2. /\ StoreCall' = [StoreCall EXCEPT ![t] = NoRequest]
        /\ StoreResult' = [StoreResult EXCEPT ![t] = NoResult]
    BY <1>2, <2>1 DEF StoreCall, StoreResult, OnTable
  <2>3. CASE OnTable(t)
    <3>1. StoreResult[t] # NoResult
      BY <1>1, <2>1, <2>3 DEF InPhase, Answered, StoreResult, OnTable
    <3>2. AS!Return(t)
      BY <1>3, <2>2, <3>1 DEF AS!Return
    <3> QED
      BY <3>2 DEF AS!Next
  <2>4. CASE ~OnTable(t)
    <3>1. StoreCall' = StoreCall /\ StoreResult' = StoreResult
      BY <2>2, <2>4 DEF StoreCall, StoreResult
    <3> QED
      BY <1>3, <3>1
  <2> QED
    BY <2>3, <2>4
<1> QED
  BY <1>4, <1>5, <1>6 DEF Moves

LEMMA StepRefines ==
    ASSUME ServerInv, [Next]_vars
    PROVE  [AS!Next]_<<StoreMap, StoreCall, StoreResult>>
<1>1. ASSUME req' = req, result' = result, slots' = slots, at' = at, step' = step
      PROVE  UNCHANGED <<StoreMap, StoreCall, StoreResult>>
  BY <1>1, SameStore DEF StoreCall, StoreResult, OnTable
<1>2. ASSUME NEW t \in Threads, LocksStep(t)
      PROVE  UNCHANGED <<StoreMap, StoreCall, StoreResult>>
  <2>1. /\ slots' = slots /\ req' = req /\ result' = result
        /\ \A u \in Threads \ {t} : at'[u] = at[u] /\ step'[u] = step[u]
    BY <1>2 DEF ServerInv, TypeOK, LocksStep, Sleep, SpuriousWakeup, Enter, Leave
  <2>2. \/ at'[t] = at[t] /\ step'[t] = step[t]
        \/ step[t] \in {0, -1} /\ step'[t] \in {0, 1}
    BY <1>2 DEF ServerInv, TypeOK, LocksStep, Sleep, SpuriousWakeup, Enter, Leave
  <2>3. step[t] \in {0, -1} /\ step'[t] \in {0, 1} => ~Midway(t) /\ ~Midway(t)'
    BY DEF Midway
  <2>4. StoreMap' = StoreMap
    BY <2>1, <2>2, <2>3, SameStore
  <2> QED
    BY <2>1, <2>4 DEF StoreCall, StoreResult, OnTable
<1>3. ASSUME NEW t \in Threads, StatsBody(t)
      PROVE  UNCHANGED <<StoreMap, StoreCall, StoreResult>>
  <2>1. BodyFrame(t) /\ at[t] # "op" /\ slots' = slots /\ TypeOK
    BY <1>3, StatsBodyFrame DEF ServerInv
  <2>2. /\ req' = req /\ at' = at
        /\ \A u \in Threads \ {t} : step'[u] = step[u] /\ result'[u] = result[u]
    BY <2>1 DEF BodyFrame, TypeOK
  <2>3. ~Midway(t) /\ ~Midway(t)'
    BY <2>1, <2>2 DEF Midway
  <2>4. StoreMap' = StoreMap
    BY <2>1, <2>2, <2>3, SameStore
  <2>5. result'[t] = result[t] \/ ~OnTable(t)
    <3>1. CASE at[t] = "stats"
      BY <3>1 DEF ServerInv, ThreadsInPhase, InPhase, OnTable, TableOps, TableReads, TableWrites
    <3>2. CASE at[t] # "stats"
      BY <1>3, <3>2 DEF StatsBody, StatsLoad, StatsStore, OpStatsFirst, OpStatsSecond
    <3> QED
      BY <3>1, <3>2
  <2> QED
    BY <2>2, <2>4, <2>5 DEF StoreCall, StoreResult, OnTable
<1>4. ASSUME NEW t \in Threads, TableBody(t)
      PROVE  AS!Next \/ UNCHANGED <<StoreMap, StoreCall, StoreResult>>
  <2>1. AS!Effect(t) \/ UNCHANGED <<StoreMap, StoreCall, StoreResult>>
    BY <1>4, PutInStore, DelInStore, AnswersInStore, HiddenInStore DEF TableBody
  <2> QED
    BY <2>1 DEF AS!Next
<1>5. CASE UNCHANGED vars \/ Watch
  BY <1>1, <1>5 DEF vars, Watch
<1> QED
  BY <1>2, <1>3, <1>4, <1>5, MovesInStore, NextByKind

\* For any threads, keys and requests, every request on the table takes effect at
\* one instant between its arrival and its answer, and is answered accordingly:
\* the locks of table_skel.c make the sequential table an atomic store.
THEOREM ServerIsAtomicStore == Spec => ImplementsAtomicStore
<1>1. Init => AS!Init
  BY InitRefines
<1>2. ServerInv /\ [Next]_vars => [AS!Next]_<<StoreMap, StoreCall, StoreResult>>
  BY StepRefines
<1> QED
  BY <1>1, <1>2, ServerCorrect, PTL DEF Spec, ImplementsAtomicStore, AS!Spec
=============================================================================
