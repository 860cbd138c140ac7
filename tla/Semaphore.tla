------------------------------ MODULE Semaphore ------------------------------
(***************************************************************************)
(* The value of a struct semaphore_t (include/semaphores.h) and what the   *)
(* four functions at the end of table_skel.c do to it.  Each function runs *)
(* under the semaphore's mutex, so between two pthread_cond_wait calls its *)
(* effect is one atomic update; `waiting` is the queue of its condition    *)
(* variable, which readers and writers share.                              *)
(*                                                                         *)
(* The module has no variables: RWLock studies one semaphore by itself and *)
(* Server uses one for the table and one for the statistics.               *)
(***************************************************************************)
EXTENDS Integers

\* The semaphores on which some of these threads may sleep.
Semaphores(threads) == [n_read : Int, n_write : Int, waiting : SUBSET threads]

NewSemaphore(r, w) == [n_read |-> r, n_write |-> w, waiting |-> {}]

\* Mutants, for the check that the properties can fail: a reader that does not
\* test n_write and a writer that does not test n_read.
ReadBlocked_Never(sem) == FALSE
WriteBlocked_IgnoresReaders(sem) == sem.n_write > 0

\* The while conditions of enter_read and enter_write.
ReadBlocked(sem)  == sem.n_write > 0
WriteBlocked(sem) == sem.n_write > 0 \/ sem.n_read > 0

\* pthread_cond_wait queues the thread, a wakeup removes it again, and
\* pthread_cond_broadcast removes everybody.
Wait(sem, t)   == [sem EXCEPT !.waiting = @ \cup {t}]
Wakeup(sem, t) == [sem EXCEPT !.waiting = @ \ {t}]
Broadcast(sem) == [sem EXCEPT !.waiting = {}]

\* Mutant: n_write++ forgotten.
AddWriter_Uncounted(sem) == sem

AddReader(sem) == [sem EXCEPT !.n_read = @ + 1]
AddWriter(sem) == [sem EXCEPT !.n_write = @ + 1]

\* Mutants: the broadcast of leave_read or of leave_write forgotten.
DropReader_NoBroadcast(sem) == [sem EXCEPT !.n_read = @ - 1]
DropWriter_NoBroadcast(sem) == [sem EXCEPT !.n_write = @ - 1]

\* leave_read broadcasts only when the last reader leaves.
DropReader(sem) ==
    IF sem.n_read - 1 = 0
    THEN Broadcast([sem EXCEPT !.n_read = @ - 1])
    ELSE [sem EXCEPT !.n_read = @ - 1]

DropWriter(sem) == Broadcast([sem EXCEPT !.n_write = @ - 1])
=============================================================================
