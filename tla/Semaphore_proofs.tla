--------------------------- MODULE Semaphore_proofs ---------------------------
(***************************************************************************)
(* What the functions of Semaphore do to a semaphore, field by field, for  *)
(* the proofs about the modules that use one.                              *)
(***************************************************************************)
EXTENDS Semaphore, TLAPS

LEMMA NewSemaphoreEffect ==
    ASSUME NEW Threads, NEW r \in Int, NEW w \in Int
    PROVE  /\ NewSemaphore(r, w) \in Semaphores(Threads)
           /\ NewSemaphore(r, w).n_read = r
           /\ NewSemaphore(r, w).n_write = w
  BY DEF NewSemaphore, Semaphores

\* Sleeping and waking touch the queue alone.
LEMMA WaitEffect ==
    ASSUME NEW Threads, NEW t \in Threads,
           NEW s \in Semaphores(Threads)
    PROVE  /\ Wait(s, t) \in Semaphores(Threads)
           /\ Wakeup(s, t) \in Semaphores(Threads)
           /\ Wait(s, t).n_read = s.n_read /\ Wait(s, t).n_write = s.n_write
           /\ Wakeup(s, t).n_read = s.n_read /\ Wakeup(s, t).n_write = s.n_write
  BY DEF Semaphores, Wait, Wakeup

LEMMA AddEffect ==
    ASSUME NEW Threads,
           NEW s \in Semaphores(Threads)
    PROVE  /\ AddReader(s) \in Semaphores(Threads)
           /\ AddWriter(s) \in Semaphores(Threads)
           /\ AddReader(s).n_read = s.n_read + 1 /\ AddReader(s).n_write = s.n_write
           /\ AddWriter(s).n_read = s.n_read /\ AddWriter(s).n_write = s.n_write + 1
  BY DEF Semaphores, AddReader, AddWriter

\* leave_read empties the queue when the last reader leaves, leave_write always.
LEMMA DropReaderEffect ==
    ASSUME NEW Threads,
           NEW s \in Semaphores(Threads)
    PROVE  /\ DropReader(s) \in Semaphores(Threads)
           /\ DropReader(s).n_read = s.n_read - 1
           /\ DropReader(s).n_write = s.n_write
           /\ DropReader(s).waiting = IF s.n_read - 1 = 0 THEN {} ELSE s.waiting
<1> DEFINE d == [s EXCEPT !.n_read = @ - 1]
<1>1. /\ d \in Semaphores(Threads)
      /\ d.n_read = s.n_read - 1 /\ d.n_write = s.n_write /\ d.waiting = s.waiting
  BY DEF Semaphores
<1>2. DropReader(s) = IF s.n_read - 1 = 0 THEN [d EXCEPT !.waiting = {}] ELSE d
  BY DEF DropReader, Broadcast
<1> HIDE DEF d
<1> QED
  BY <1>1, <1>2 DEF Semaphores

LEMMA DropWriterEffect ==
    ASSUME NEW Threads,
           NEW s \in Semaphores(Threads)
    PROVE  /\ DropWriter(s) \in Semaphores(Threads)
           /\ DropWriter(s).n_read = s.n_read
           /\ DropWriter(s).n_write = s.n_write - 1
           /\ DropWriter(s).waiting = {}
<1> DEFINE d == [s EXCEPT !.n_write = @ - 1]
<1>1. /\ d \in Semaphores(Threads)
      /\ d.n_read = s.n_read /\ d.n_write = s.n_write - 1 /\ d.waiting = s.waiting
  BY DEF Semaphores
<1>2. DropWriter(s) = [d EXCEPT !.waiting = {}]
  BY DEF DropWriter, Broadcast
<1> HIDE DEF d
<1> QED
  BY <1>1, <1>2 DEF Semaphores
=============================================================================
