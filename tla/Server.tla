------------------------------- MODULE Server --------------------------------
(***************************************************************************)
(* One table_server process serving its connections: client_procedure of   *)
(* network_server.c, one thread per connection, each calling invoke of     *)
(* table_skel.c on the shared table and statistics under the two           *)
(* semaphores.  The table is seen as Table shows it to be, a map, but with *)
(* the intermediate states of the list operations: the entry destroyed     *)
(* before the new one is linked (list_add_exists), the node linked or      *)
(* unlinked before the size field follows (list_add_new and                *)
(* list_remove_exists).                                                    *)
(***************************************************************************)
EXTENDS Semaphore, FiniteSets

CONSTANTS Threads, Keys, NULL,
          Freed,         \* what a table slot holds after entry_destroy
          Requests,      \* the requests clients may send: [op, key, value]
          Loaded,        \* the tables the server may start with: main copies
                         \* the one of its predecessor before it serves
          MaxRequests    \* bound: requests received by the server

TableReads  == {"get", "size", "getkeys", "gettable"}
TableWrites == {"put", "del"}
TableOps    == TableReads \cup TableWrites

\* What the table can hold for a key; NULL is no entry.
Values == {r.value : r \in Requests} \cup (UNION {{l[k] : k \in DOMAIN l} : l \in Loaded}) \cup {NULL}

NoResult == <<>>    \* no handler has answered yet

ASSUME ThreadsAssumption == IsFiniteSet(Threads)
ASSUME KeysAssumption == IsFiniteSet(Keys)
ASSUME RequestsAssumption ==
    \A r \in Requests :
        /\ r.op \in TableOps \cup {"stats", "bad"}
        /\ r.op \in {"put", "del", "get"} => r.key \in Keys
ASSUME LoadedAssumption == Loaded \subseteq [Keys -> Values]
ASSUME BoundAssumption == MaxRequests \in Nat
ASSUME MarkersAssumption == Freed \notin Values /\ NoResult \notin {NULL, Freed}

VARIABLES
    sem,        \* the two semaphores, sem_table and sem_stats
    slots,      \* the entry of each key: its value, NULL, or Freed
    size,       \* the sum of the size fields of the lists
    stats,      \* struct statistics_t, time_spent left out
    linked,     \* rtable_write # NULL
    at,         \* where each thread is
    step,       \* 0 outside of the lock of `at`, else the step of the body
    req,        \* msg of the thread
    local,      \* local variables of the handler that runs
    result,     \* what the handler put in msg
    received    \* history: requests received, on the table and others

vars == <<sem, slots, size, stats, linked, at, step, req, local, result, received>>

NoRequest == [op |-> "none", key |-> NULL, value |-> NULL]

Init ==
    /\ sem = [lock \in {"table", "stats"} |-> NewSemaphore(0, 0)]
    /\ slots \in Loaded
    /\ size = Cardinality({k \in Keys : slots[k] # NULL})
    /\ stats = [operations |-> 0, clients |-> 0]
    /\ linked = FALSE
    /\ at = [t \in Threads |-> "new"]
    /\ step = [t \in Threads |-> 0]
    /\ req = [t \in Threads |-> NoRequest]
    /\ local = [t \in Threads |-> <<>>]
    /\ result = [t \in Threads |-> NoResult]
    /\ received = [table |-> 0, other |-> 0]

-----------------------------------------------------------------------------
\* Critical sections.  A thread at one of these places is in the call of the
\* function that does it: first enter_x, then the body, then leave_x.

LockOf(place) == IF place = "op" THEN "table" ELSE "stats"

\* Mutant: the statistics are updated under enter_read.
Writing_TableOnly(t) == at[t] = "op" /\ req[t].op \in TableWrites

Writing(t) ==
    at[t] \in {"connect", "count", "hangup"} \/ (at[t] = "op" /\ req[t].op \in TableWrites)

Sections == {"connect", "op", "stats", "count", "hangup"}

\* Mutants: readers do not wait for a writer, a writer does not wait for readers.
Blocked_ReadersPass(t, lock) == Writing(t) /\ WriteBlocked(sem[lock])
Blocked_WritersPass(t, lock) ==
    IF Writing(t) THEN sem[lock].n_write > 0 ELSE ReadBlocked(sem[lock])

Blocked(t, lock) == IF Writing(t) THEN WriteBlocked(sem[lock]) ELSE ReadBlocked(sem[lock])

Awake(t) == \A lock \in DOMAIN sem : t \notin sem[lock].waiting

Sleep(t) ==
    LET lock == LockOf(at[t]) IN
    /\ at[t] \in Sections /\ step[t] = 0 /\ Awake(t)
    /\ Blocked(t, lock)
    /\ sem' = [sem EXCEPT ![lock] = Wait(@, t)]
    /\ UNCHANGED <<slots, size, stats, linked, at, step, req, local, result, received>>

SpuriousWakeup(t) ==
    /\ ~Awake(t)
    /\ sem' = [lock \in DOMAIN sem |-> Wakeup(sem[lock], t)]
    /\ UNCHANGED <<slots, size, stats, linked, at, step, req, local, result, received>>

Enter(t) ==
    LET lock == LockOf(at[t]) IN
    /\ at[t] \in Sections /\ step[t] = 0 /\ Awake(t)
    /\ ~Blocked(t, lock)
    /\ sem' = [sem EXCEPT ![lock] = IF Writing(t) THEN AddWriter(@) ELSE AddReader(@)]
    /\ step' = [step EXCEPT ![t] = 1]
    /\ UNCHANGED <<slots, size, stats, linked, at, req, local, result, received>>

\* Where invoke and client_procedure go after a section: a write on the table
\* goes on to the successor, every table operation is counted.
After(t) ==
    CASE at[t] = "connect" -> "receive"
      [] at[t] = "op"      -> IF req[t].op \in TableWrites THEN "forward" ELSE "count"
      [] at[t] = "stats"   -> "send"
      [] at[t] = "count"   -> "send"
      [] OTHER             -> "closed"

\* Mutant: op_put and op_del return without leave_write.
Leave_KeepsLock(t) ==
    LET lock == LockOf(at[t]) IN
    /\ at[t] \in Sections /\ step[t] = -1
    /\ sem' = [sem EXCEPT ![lock] = IF Writing(t) THEN @ ELSE DropReader(@)]
    /\ at' = [at EXCEPT ![t] = After(t)]
    /\ step' = [step EXCEPT ![t] = 0]
    /\ local' = [local EXCEPT ![t] = <<>>]
    /\ UNCHANGED <<slots, size, stats, linked, req, result, received>>

\* The last step of a body; `done` is -1.
Leave(t) ==
    LET lock == LockOf(at[t]) IN
    /\ at[t] \in Sections /\ step[t] = -1
    /\ sem' = [sem EXCEPT ![lock] = IF Writing(t) THEN DropWriter(@) ELSE DropReader(@)]
    /\ at' = [at EXCEPT ![t] = After(t)]
    /\ step' = [step EXCEPT ![t] = 0]
    /\ local' = [local EXCEPT ![t] = <<>>]
    /\ UNCHANGED <<slots, size, stats, linked, req, result, received>>

\* The body of `op` of thread t, step n: what the actions below share.
In(t, op, n) == at[t] = "op" /\ req[t].op = op /\ step[t] = n

Goto(t, n)   == step' = [step EXCEPT ![t] = n]
Keep(t, x)   == local' = [local EXCEPT ![t] = <<x>>]
Kept(t)      == local[t][1]
Answer(t, x) == result' = [result EXCEPT ![t] = <<req[t].op, x>>]

Others == UNCHANGED <<sem, stats, linked, at, req, received>>

-----------------------------------------------------------------------------
\* op_put: list_add_exists destroys the old entry and then links the new one;
\* list_add_new links the node and then counts it.

PutNothing(t) ==
    /\ In(t, "put", 1) /\ req[t].value = NULL
    /\ Answer(t, -1) /\ Goto(t, -1)
    /\ UNCHANGED <<slots, size, local>> /\ Others

PutDestroysOld(t) ==
    /\ In(t, "put", 1) /\ req[t].value # NULL /\ slots[req[t].key] # NULL
    /\ slots' = [slots EXCEPT ![req[t].key] = Freed]
    /\ Answer(t, 0) /\ Goto(t, 2)
    /\ UNCHANGED <<size, local>> /\ Others

PutLinksOverOld(t) ==
    /\ In(t, "put", 2)
    /\ slots' = [slots EXCEPT ![req[t].key] = req[t].value]
    /\ Goto(t, -1)
    /\ UNCHANGED <<size, local, result>> /\ Others

PutLinksNew(t) ==
    /\ In(t, "put", 1) /\ req[t].value # NULL /\ slots[req[t].key] = NULL
    /\ slots' = [slots EXCEPT ![req[t].key] = req[t].value]
    /\ Keep(t, size)
    /\ Answer(t, 0) /\ Goto(t, 3)
    /\ UNCHANGED size /\ Others

PutCountsNew(t) ==
    /\ In(t, "put", 3)
    /\ size' = Kept(t) + 1
    /\ Goto(t, -1)
    /\ UNCHANGED <<slots, local, result>> /\ Others

\* op_del: list_remove answers 1 for a key that is not there, otherwise
\* list_remove_exists unlinks and frees the node and then counts it out.

DelNothing(t) ==
    /\ In(t, "del", 1) /\ slots[req[t].key] = NULL
    /\ Answer(t, 1) /\ Goto(t, -1)
    /\ UNCHANGED <<slots, size, local>> /\ Others

DelUnlinks(t) ==
    /\ In(t, "del", 1) /\ slots[req[t].key] # NULL
    /\ slots' = [slots EXCEPT ![req[t].key] = NULL]
    /\ Keep(t, size)
    /\ Answer(t, 0) /\ Goto(t, 2)
    /\ UNCHANGED size /\ Others

DelCounts(t) ==
    /\ In(t, "del", 2)
    /\ size' = Kept(t) - 1
    /\ Goto(t, -1)
    /\ UNCHANGED <<slots, local, result>> /\ Others

\* Mutant: op_get returns early for a missing key, without leave_read.
Get_ReturnsEarly(t) ==
    /\ In(t, "get", 1)
    /\ Answer(t, slots[req[t].key])
    /\ IF slots[req[t].key] = NULL
       THEN at' = [at EXCEPT ![t] = "count"] /\ Goto(t, 0)
       ELSE UNCHANGED at /\ Goto(t, -1)
    /\ UNCHANGED <<slots, size, local, sem, stats, linked, req, received>>

\* op_get and op_size read once.

Get(t) ==
    /\ In(t, "get", 1)
    /\ Answer(t, slots[req[t].key]) /\ Goto(t, -1)
    /\ UNCHANGED <<slots, size, local>> /\ Others

\* op_size returns with -1 before its leave_read.
Size(t) ==
    /\ In(t, "size", 1)
    /\ Answer(t, size)
    /\ IF size = -1
       THEN at' = [at EXCEPT ![t] = "count"] /\ Goto(t, 0)
       ELSE UNCHANGED at /\ Goto(t, -1)
    /\ UNCHANGED <<slots, size, local, sem, stats, linked, req, received>>

\* op_getkeys: table_get_keys sizes the array and then walks the lists, or
\* returns NULL for the empty table.

Linked == {k \in Keys : slots[k] # NULL}

GetKeysSizes(t) ==
    /\ In(t, "getkeys", 1)
    /\ Keep(t, size)
    /\ Goto(t, 2)
    /\ UNCHANGED <<slots, size, result>> /\ Others

GetKeysWalks(t) ==
    /\ In(t, "getkeys", 2)
    /\ Answer(t, IF Kept(t) = 0 THEN {} ELSE Linked)
    /\ Goto(t, -1)
    /\ UNCHANGED <<slots, size, local>> /\ Others

\* op_gettable: the key list, then one table_get for each of its keys.  It
\* keeps the set of pairs of a listed key and NoResult or what table_get found.

GetTableLists(t) ==
    /\ In(t, "gettable", 1)
    /\ Keep(t, {<<k, NoResult>> : k \in Linked})
    /\ Goto(t, 2)
    /\ UNCHANGED <<slots, size, result>> /\ Others

GetTableReads(t) ==
    /\ In(t, "gettable", 2)
    /\ \E pair \in Kept(t) :
        /\ pair[2] = NoResult
        /\ Keep(t, (Kept(t) \ {pair}) \cup {<<pair[1], slots[pair[1]]>>})
    /\ UNCHANGED <<slots, size, step, result>> /\ Others

GetTableEnds(t) ==
    /\ In(t, "gettable", 2)
    /\ \A pair \in Kept(t) : pair[2] # NoResult
    /\ Answer(t, Kept(t)) /\ Goto(t, -1)
    /\ UNCHANGED <<slots, size, local>> /\ Others

TableBody(t) ==
    \/ PutNothing(t) \/ PutDestroysOld(t) \/ PutLinksOverOld(t)
    \/ PutLinksNew(t) \/ PutCountsNew(t)
    \/ DelNothing(t) \/ DelUnlinks(t) \/ DelCounts(t)
    \/ Get(t) \/ Size(t)
    \/ GetKeysSizes(t) \/ GetKeysWalks(t)
    \/ GetTableLists(t) \/ GetTableReads(t) \/ GetTableEnds(t)

-----------------------------------------------------------------------------
\* The statistics: a ++ or -- is a load and a store.

Counter(t) == IF at[t] = "count" THEN "operations" ELSE "clients"

StatsLoad(t) ==
    /\ at[t] \in {"connect", "count", "hangup"} /\ step[t] = 1
    /\ Keep(t, stats[Counter(t)])
    /\ Goto(t, 2)
    /\ UNCHANGED <<slots, size, result>> /\ Others

StatsStore(t) ==
    /\ at[t] \in {"connect", "count", "hangup"} /\ step[t] = 2
    /\ stats' = [stats EXCEPT ![Counter(t)] =
                    IF at[t] = "hangup" THEN Kept(t) - 1 ELSE Kept(t) + 1]
    /\ Goto(t, -1)
    /\ UNCHANGED <<sem, slots, size, linked, at, req, local, result, received>>

\* op_stats copies the fields one after the other.  Its return for a null `stats`
\* is left out: client_procedure has counted this client through that pointer.

OpStatsFirst(t) ==
    /\ at[t] = "stats" /\ step[t] = 1
    /\ Keep(t, stats.operations)
    /\ Goto(t, 2)
    /\ UNCHANGED <<slots, size, result>> /\ Others

OpStatsSecond(t) ==
    /\ at[t] = "stats" /\ step[t] = 2
    /\ Answer(t, [operations |-> Kept(t), clients |-> stats.clients])
    /\ Goto(t, -1)
    /\ UNCHANGED <<slots, size, local>> /\ Others

StatsBody(t) == StatsLoad(t) \/ StatsStore(t) \/ OpStatsFirst(t) \/ OpStatsSecond(t)

-----------------------------------------------------------------------------
\* client_procedure and invoke outside of the locks.

Move(t, from, to) == at[t] = from /\ at' = [at EXCEPT ![t] = to]

\* network_main_loop accepts a connection and starts its thread; a thread serves
\* one connection and ends with it.
Accept(t) ==
    /\ Move(t, "new", "connect")
    /\ UNCHANGED <<sem, slots, size, stats, linked, step, req, local, result, received>>

\* network_receive returns a message and invoke switches on its opcode; one it
\* does not know is answered as an error without taking a lock.
Receive(t) ==
    /\ received.table + received.other < MaxRequests
    /\ \E r \in Requests :
        /\ \/ r.op \in TableOps /\ Move(t, "receive", "op")
           \/ r.op = "stats" /\ Move(t, "receive", "stats")
           \/ r.op = "bad" /\ Move(t, "receive", "send")
        /\ req' = [req EXCEPT ![t] = r]
        /\ received' = IF r.op \in TableOps
                       THEN [received EXCEPT !.table = @ + 1]
                       ELSE [received EXCEPT !.other = @ + 1]
    /\ UNCHANGED <<sem, slots, size, stats, linked, step, local, result>>

\* network_receive returns NULL: the client closed.
ReceiveFails(t) ==
    /\ Move(t, "receive", "hangup")
    /\ UNCHANGED <<sem, slots, size, stats, linked, step, req, local, result, received>>

\* After op_put and op_del: rtable_write is tested and, when there is a
\* successor, network_send_receive waits for its answer.
Forward(t) ==
    /\ Move(t, "forward", IF linked THEN "chain" ELSE "count")
    /\ UNCHANGED <<sem, slots, size, stats, linked, step, req, local, result, received>>

\* The successor answered or the connection broke; invoke ignores which.
ForwardReturns(t) ==
    /\ Move(t, "chain", "count")
    /\ UNCHANGED <<sem, slots, size, stats, linked, step, req, local, result, received>>

\* network_send writes the answer, or fails and ends the connection.
Send(t) ==
    /\ \E to \in {"receive", "hangup"} : Move(t, "send", to)
    /\ req' = [req EXCEPT ![t] = NoRequest]
    /\ result' = [result EXCEPT ![t] = NoResult]
    /\ UNCHANGED <<sem, slots, size, stats, linked, step, local, received>>

\* child_watcher of table_server.c links or unlinks the successor at any time.
Watch ==
    /\ linked' = ~linked
    /\ UNCHANGED <<sem, slots, size, stats, at, step, req, local, result, received>>

\* What a thread does by itself, and what it waits for from outside.
Step(t) ==
    \/ Sleep(t) \/ Enter(t) \/ Leave(t)
    \/ TableBody(t) \/ StatsBody(t)
    \/ Forward(t) \/ Send(t)

Outside(t) ==
    Accept(t) \/ Receive(t) \/ ReceiveFails(t) \/ ForwardReturns(t) \/ SpuriousWakeup(t)

Next == Watch \/ \E t \in Threads : Step(t) \/ Outside(t)

\* Every thread that can run does run.  No client has to send or close, and
\* the successor never has to answer.
Spec == Init /\ [][Next]_vars /\ \A t \in Threads : WF_vars(Step(t))

-----------------------------------------------------------------------------
Places == Sections \cup {"new", "closed", "receive", "forward", "chain", "send"}

TypeOK ==
    /\ sem \in [{"table", "stats"} -> Semaphores(Threads)]
    /\ slots \in [Keys -> Values \cup {Freed}]
    /\ size \in Int
    /\ stats \in [operations : Int, clients : Int]
    /\ linked \in BOOLEAN
    /\ at \in [Threads -> Places]
    /\ step \in [Threads -> -1 .. 3]
    /\ req \in [Threads -> Requests \cup {NoRequest}]
    /\ DOMAIN local = Threads /\ DOMAIN result = Threads
    /\ received \in [table : Nat, other : Nat]
    /\ \A t \in Threads : step[t] # 0 => at[t] \in Sections

\* The threads in a critical section of a lock, and those of them that write.
Holders(lock) == {t \in Threads : at[t] \in Sections /\ LockOf(at[t]) = lock /\ step[t] # 0}
Writers(lock) == {t \in Holders(lock) : Writing(t)}

\* No handler reads memory another one has freed, and none stumbles over a list
\* that changes under it: op_get never copies a destroyed entry, the key array
\* of table_get_keys is large enough for the keys found and none of them is of a
\* destroyed entry, and the table_get of op_gettable, which dereferences its
\* result unchecked, finds every listed key.
NoBrokenRead ==
    \A t \in Threads :
        /\ In(t, "get", 1) => slots[req[t].key] # Freed
        /\ In(t, "getkeys", 2) \/ In(t, "gettable", 1) => \A k \in Keys : slots[k] # Freed
        /\ In(t, "getkeys", 2) => Kept(t) = Cardinality(Linked)
        /\ In(t, "gettable", 2) => \A pair \in Kept(t) : pair[2] \notin {NULL, Freed}

\* The threads whose request is not in `operations` yet, and those in `clients`.
Uncounted == {t \in Threads : \/ at[t] \in {"op", "forward", "chain"}
                              \/ at[t] = "count" /\ step[t] # -1}

Open == {t \in Threads : \/ at[t] = "connect" /\ step[t] = -1
                         \/ at[t] \in {"receive", "op", "stats", "count", "forward", "chain", "send"}
                         \/ at[t] = "hangup" /\ step[t] # -1}

\* The statistics lose no update: apart from the threads between their request
\* and their store, `operations` counts the table requests and `clients` the
\* open connections, and op_stats answers with two values of one instant.
StatsExact ==
    /\ stats.operations = received.table - Cardinality(Uncounted)
    /\ stats.clients = Cardinality(Open)
    /\ \A t \in Threads : at[t] = "stats" /\ step[t] = 2 => Kept(t) = stats.operations

\* Both locks count exactly the threads inside, each thread holds at most the
\* one of its place, and so a thread that waits for the successor, for the next
\* request or for the client to take an answer holds none.
LocksHeldInside ==
    \A lock \in DOMAIN sem :
        sem[lock].n_read + sem[lock].n_write = Cardinality(Holders(lock))

-----------------------------------------------------------------------------
\* The inductive invariant behind these properties and the refinement below.

\* Each lock counts its readers and its writers, and a writer is alone inside.
LockExcludes(lock) ==
    /\ sem[lock].n_read = Cardinality(Holders(lock) \ Writers(lock))
    /\ sem[lock].n_write = Cardinality(Writers(lock))
    /\ \A t \in Writers(lock) : Holders(lock) = {t}

LocksExclude == \A lock \in {"table", "stats"} : LockExcludes(lock)

\* Which steps the body of each section has, which request a thread has where,
\* and from which step on its answer is there.
Answered(t) ==
    /\ at[t] \in {"op", "forward", "chain", "count", "send"}
    /\ at[t] = "op" => step[t] \notin {0, 1}
    /\ at[t] = "op" /\ step[t] = 2 => req[t].op \in TableWrites

InPhase(t) ==
    /\ step[t] = 3 => at[t] = "op" /\ req[t].op = "put"
    /\ step[t] = 2 /\ at[t] = "op" => req[t].op \in {"put", "del", "getkeys", "gettable"}
    /\ at[t] \in {"op", "count"} => req[t] \in Requests /\ req[t].op \in TableOps
    /\ at[t] \in {"forward", "chain"} => req[t] \in Requests /\ req[t].op \in TableWrites
    /\ at[t] = "stats" => req[t] \in Requests /\ req[t].op = "stats"
    /\ at[t] = "send" => req[t] \in Requests
    /\ at[t] \in {"new", "connect", "receive", "hangup", "closed"} => req[t] = NoRequest
    /\ req[t] \notin Requests => result[t] = NoResult
    /\ req[t].op \in TableOps => (result[t] # NoResult <=> Answered(t))

ThreadsInPhase == \A t \in Threads : InPhase(t)

\* The size field is behind the lists only between the two halves of a writer,
\* which remembers the old size, and a destroyed entry is about to be replaced.
TableInShape ==
    /\ \A t \in Threads :
        /\ In(t, "put", 3) => Kept(t) = size /\ size = Cardinality(Linked) - 1
        /\ In(t, "del", 2) => Kept(t) = size /\ size = Cardinality(Linked) + 1
    /\ (\A t \in Threads : ~In(t, "put", 3) /\ ~In(t, "del", 2)) => size = Cardinality(Linked)
    /\ \A t \in Threads : In(t, "put", 2) => slots[req[t].key] = Freed /\ req[t].value # NULL
    /\ \A k \in Keys : slots[k] = Freed => \E t \in Threads : In(t, "put", 2) /\ req[t].key = k

\* What a handler copied into its locals is still so when it goes on.
TableCopiesCurrent ==
    \A t \in Threads :
        /\ In(t, "getkeys", 2) => Kept(t) = Cardinality(Linked)
        /\ In(t, "gettable", 2) =>
            /\ Kept(t) \subseteq {<<k, NoResult>> : k \in Linked} \cup {<<k, slots[k]>> : k \in Linked}
            /\ \A k \in Linked : <<k, NoResult>> \in Kept(t) \/ <<k, slots[k]>> \in Kept(t)

StatsCopiesCurrent ==
    \A t \in Threads :
        at[t] \in {"connect", "count", "hangup"} /\ step[t] = 2 => Kept(t) = stats[Counter(t)]

\* Why the properties hold at every step: the locks exclude and count exactly,
\* so nobody else touches the table or the statistics between the steps of the
\* one writer, and what a thread has copied stays true until it answers.
ServerInv ==
    /\ TypeOK
    /\ LocksExclude
    /\ ThreadsInPhase
    /\ TableInShape
    /\ TableCopiesCurrent
    /\ StatsCopiesCurrent
    /\ StatsExact

-----------------------------------------------------------------------------
\* The locks serve nobody in turn, so a thread may wait for ever while others keep
\* entering them.  A run with finitely many requests has none of this: there every
\* thread gets through.
Overtaken(t) == \E u \in Threads \ {t} : []<><<Enter(u)>>_vars

\* A read is answered whatever the chain does: even when the successor never
\* answers the writes that were forwarded to it.
ReadsAnswered ==
    \A t \in Threads :
        \/ (req[t].op \in TableReads \cup {"stats"}) ~> (req[t] = NoRequest)
        \/ Overtaken(t)

\* A write is answered, or it waits for the successor, or other requests overtake
\* it at a lock for ever; nothing else in this server holds it up.
WritesGetThrough ==
    \A t \in Threads :
        \/ (req[t].op \in TableWrites) ~> (req[t] = NoRequest \/ at[t] = "chain")
        \/ Overtaken(t)

-----------------------------------------------------------------------------
\* The server is an atomic store: a write takes effect at its first change of
\* the lists, a read with the last value it copies.

OnTable(t) == req[t].op \in TableOps

\* The value that replaces the destroyed entry of a key.
BeingPut(k) ==
    LET put == {req[t].value : t \in {u \in Threads : In(u, "put", 2) /\ req[u].key = k}}
    IN  CHOOSE v \in put : TRUE

StoreMap == [k \in Keys |-> IF slots[k] = Freed THEN BeingPut(k) ELSE slots[k]]
StoreCall == [t \in Threads |-> IF OnTable(t) THEN req[t] ELSE NoRequest]
StoreResult == [t \in Threads |-> IF OnTable(t) THEN result[t] ELSE NoResult]

AS == INSTANCE AtomicStore WITH
        Requests <- {r \in Requests : r.op \in TableOps},
        NoCall <- NoRequest,
        map <- StoreMap,
        call <- StoreCall,
        result <- StoreResult

ImplementsAtomicStore == AS!Spec
=============================================================================
