# A verification project for the replicated key-value table

The program keeps a hash table in a server process, serves it to clients over
TCP with one thread per connection, and replicates it along a chain of servers
that find each other through ZooKeeper. This directory holds TLA+ models of its
parts, TLC configurations that check them on small instances, and proofs, checked
by TLAPS, of every safety property and refinement that the runs check. `PROJECT.json`
lists the runs, the properties, the theorems, the lines every definition stands for,
and the hazards the properties are aimed at.

Paths below are relative to `src/main/`.

## 1. Inventory

| Component | Files | State | Operations |
|---|---|---|---|
| Hash table | `source/table.c`, `list.c`, `entry.c`, `data.c` | an array of lists; each list a `size` field and nodes sorted by key | `table_put/get/remove/size/get_keys` over `list_add/get/remove/size/get_keys` |
| Readers-writer semaphores | `source/table_skel.c:33-45,269-301`, `include/semaphores.h` | `n_read`, `n_write`, one mutex, one condition variable; one instance for the table, one for the statistics | `enter_read`, `leave_read`, `enter_write`, `leave_write` |
| Server skeleton | `source/table_skel.c` | `table`, `stats`, `rtable_write` (shared with the watcher) | `invoke` and `op_put/get/del/size/getkeys/gettable/stats` |
| Connection threads | `source/network_server.c` | listening socket, one thread per connection | `network_main_loop`, `client_procedure`, `network_receive`, `network_send` |
| Replication chain | `source/table_server.c`, `client_stub.c`, `network_client.c` | ZooKeeper session, own znode, `next_server`, `rtable_write`, list of children | `main` (join), `child_watcher`, `rtable_connect`, `rtable_get_table`, `network_send_receive` |
| Message framing | `source/message.c`, the two network files | none | `write_all`, `read_all`, a 16-bit length before each message |
| Client stub | `source/client_stub.c` | one socket per `rtable_t` | `rtable_put/get/del/size/get_keys/get_table/stats` |
| Client application | `source/table_client.c` | `rtable_head`, `rtable_tail`, watcher | command loop, `child_watcher` |
| Protocol Buffers code | `sdmessage.proto`, generated `sdmessage.pb-c.*` | none | packing and unpacking of `MessageT` |

How they interact. A client finds the first and the last server of the chain
in ZooKeeper and sends writes to the first, reads to the last. In a server,
`client_procedure` reads a request, calls `invoke`, and sends the answer.
`invoke` runs a handler under the table semaphore, then, for `put` and `del`,
sends the same request over `rtable_write` to the next server and waits for its
answer, then counts the operation under the statistics semaphore. `rtable_write`
and `next_server` are written by `child_watcher`, which runs in the thread of
the ZooKeeper client when the children of `/chain` change. A server that joins
creates an ephemeral sequential znode, lists the children, connects to the one
in front of it, copies its table with `GETTABLE`, and only then accepts
connections (it has been listening since the start).

What is hard here:

* Concurrency inside a server: a list changes in several steps, under a lock
  written from scratch whose readers and writers share one condition variable.
* `rtable_write` is shared by all connection threads and by the watcher without
  a lock: it is tested, then used; several threads write requests to it and
  read answers from it, and their messages can mix.
* `strtok` keeps its place in one static pointer, which two threads of a server
  that joins, and two of the client, use.
* Order: the lock is released before a write is forwarded.
* Membership: one-shot watches, a listing that is stale when its result is
  used, a join in several steps during which writes go on.
* Failure: a successor that dies with writes on their way, a session that
  outlives its process, a restart on the same address before that session ends,
  two first servers that both create `/chain`.
* Bytes: a read or a write moves part of what was asked, a length is a signed
  16-bit number, and a frame takes two calls on each side.
* The client: the watcher replaces connections under a command that uses them,
  and may run before `main` has set what it compares with.
* No call has a timeout: something that never answers blocks its caller.

What makes each part correct:

* Lock: a writer excludes everybody, the counters tell exactly who is inside,
  no wakeup is lost, somebody always gets in.
* Table: it is a map. Lists are sorted, hold no key twice and count right. A
  table copied by `GETTABLE` has the content of the original whatever its
  number of lists.
* Server: each request takes effect at one instant between its arrival and its
  answer; nothing freed is read; statistics lose no update; a read is answered
  even when the chain is stuck.
* Chain: what the tail shows is on every server before it; forwarding has no
  cycle; every write in a stable chain is answered and spreads, as long as no
  messages mix; links follow the membership; a join ends; a serving server ends only
  after a failure or where two threads share what they should not.
* Framing: as long as calls on a connection are made in turn, both ends agree
  where a frame begins, a call gets the answer to its own request, and a call that
  fails leaves nothing behind for the next one.
* Client: its two connections lead to the first and the last server once changes
  have been noticed, writes go to servers that were first, and a command comes back.

## 2. Plan

Modules in the order of their importance to the program's promise:

1. `Semaphore`, `ReadersWriters`, `RWLock`; proofs in `Semaphore_proofs`, `RWLock_proofs`.
2. `KVMap`, `Table`, `MCTable`; proofs in `Table_proofs`.
3. `AtomicStore`, `Server`, `MCServer`, which composes the lock with the
   list operations, `invoke` and the connection threads; proofs in `Server_proofs`.
4. `Chain`, `MCChain`, the servers together over ZooKeeper, which may die or lose
   their session; proofs in `Chain_proofs` (types, `ForwardUp`) and `Spread_proofs` (the
   writes, links and answers).
5. `Exchange`, `Link`: frames on a connection and the calls that share it; proofs in
   `Link_proofs`.
6. `ClientApp`, `MCClient`: the command loop and its watcher, head and tail replaced
   while a call is under way; proofs in `ClientApp_proofs`.

All six are modelled, checked and, but for liveness, proved. What is left is to
weaken hypotheses where the code keeps more than the theorems say: `AcksCovered` in a
chain that servers join, and `TailReadSafe` when a process is started again on the
address of the last server, or when the race of a server that joined did no harm.

Abstract specifications: `ReadersWriters` (implemented by `RWLock`), `KVMap`
(by `Table`), `AtomicStore` (by `Server`), `Exchange` (by `Link`).

How the modules rest on each other. `Server` uses the lock through `Semaphore`.
`Chain` takes a handler as one step, which `Server` shows. It takes each of the two
writes of a message, and of the two reads, as one step, which `Link` cuts into bytes; that
the pairs of two threads come between each other, which `Link` shows for calls that
overlap and excludes for calls in turn, `Chain` has as steps of its own. Its clients send writes to servers that were first, which is
`WritesReachHeads` of `ClientApp`. `ClientApp` has one thread that calls, so its
calls are in turn and their bytes need not be modelled again.

The runs and their bounds are in section 4, the theorems in section 6.

## 3. The modules and the code

### Semaphore, RWLock, ReadersWriters

`Semaphore` has the effect of each function of `table_skel.c:269-301` on
the record `[n_read, n_write, waiting]`, where `waiting` is the set of threads
blocked in `pthread_cond_wait`; `Broadcast` empties it, `Wakeup` removes one
(`pthread_cond_wait` may return without a signal). `leave_read` broadcasts only
when `n_read` reaches 0, `leave_write` always. Every function runs with the
mutex held from its first to its last statement except inside
`pthread_cond_wait`, so each piece between is one atomic step.

`RWLock` adds the threads: `Want…` is the call of `enter_x`, `Wait…` one turn
of its while loop, `Enter…` its end, `Leave…` is `leave_x`. The initial counters
come from `HeapValues`: `table_skel_semaphores_init` never writes `n_read` and
`n_write`, so they are whatever `malloc` returned. `HeapValues = {0}` is a fresh
page.

`ReadersWriters` is what the lock promises: each thread is out, reading or
writing, and a writer enters only when everybody is out. `ImplementsReadersWriters`
maps a thread to "read" or "write" exactly between the return of `enter_x` and
the call of `leave_x`.

### Table, KVMap

A list is a record of its `size` field and its sequence of entries; keys are
numbers in the order of `strcmp`, `CharSum` gives the sum of the characters of
each key, from which `hash_code` takes the list. `list_add_new`,
`list_add_exists`, `list_remove_exists` and `list_get_keys` are operators on
lists, with the code's cases for an empty list, the head, the middle and the
tail expressed by the place of insertion. Actions are the calls of the server,
with the result of each in a variable. `PutNothing` is a put without a value,
which `data_dup` refuses. `ImplementsMap` maps the table to the function from
keys to values or `NULL` and demands the same results. `TransferKeepsContent`
compares the table with the one another server gets by `Snapshot` (`op_gettable`)
and `Load` (the loop of `main`), for every number of lists up to `NLists + 1`. The
loops over lists and entries are recursive functions, `SizeOfFirst`, `KeysOfFirst` and
`Loading`, whose value at `i` is what the code has after `i` turns.

### Server, AtomicStore

A thread is at one of the places of `client_procedure` and `invoke`: `connect`
(clients++), `receive`, `op` (a handler on the table), `stats`, `forward`,
`chain` (inside `network_send_receive`), `count` (operations++), `send`, `hangup`
(clients--), `closed`. `connect`, `op`, `stats`, `count` and `hangup` are critical
sections: `Enter`, the steps of the body, `Leave`. Inside a body a step is one
access that another thread could see if the lock let it: an overwriting put
destroys the old entry and then links the new one; a new node is linked and then
counted; `op_gettable` lists the keys and then reads each. A counter's `++` is a
load and a store. `Watch` is `child_watcher` setting or clearing `rtable_write`.
The test and the use of `rtable_write` are one step here and three in `Chain`.
`op_size` returns early, without `leave_read`, when `table_size` gives -1, which the
sizes of the lists never add up to: `Size` has the return and the lock it would keep,
and it is never taken. The return of `op_stats` for a null `stats` is left out, since
`invoke` runs only after `table_skel_init` has set it.

`AtomicStore` is an atomic object: a call is announced, takes effect in one step,
its result is taken. `ImplementsAtomicStore` places the effect of a write at
its first change of the lists (a destroyed entry already counts as the
new value) and the effect of a read at the last value it copies.

### Chain

A server is one run of the program. Its `pc` is the progress of `main`:
`started`, `create_root`, `create_node`, `list`, `connect`, `split`, `fetch`, `serving`.
`WatcherLists` is the first half of `child_watcher` (set the watch again, list,
choose the successor, or drop the connection when there is none), and
`WatcherSplits`, `WatcherConnects`, `WatcherKeeps`, `WatcherFails` are the second
(`zoo_get`, compare with `next_server`, connect). Between them the world can change: the
buffer given to `zoo_get` is then left as it was, `Found` has both things it can
hold.

`rtable_connect` cuts the address with two calls of `strtok`, the first in `SplitPrev`
and `WatcherSplits`, the second in `ConnectPrev` and `WatcherConnects`. Their static
pointer is `token`: in which thread's string it is, or at an end. `raced` collects the
servers in which `main` and `child_watcher` were between their two calls at the same
time. The second call of one then finds the string of the other (`Reached`: any port,
where any process may listen), and the other finds the end of a string and `atoi`
follows a null pointer (`Misses`).

A write at a server goes `apply` (the handler under the lock, one
step here by what `Server` shows), `check` (`rtable_write` tested), `send` (read
again as the argument of `network_send_receive`), `write` (the request goes out on
the descriptor found behind the pointer), `wait` (for an answer), `done`. Nothing
protects the pointer from `child_watcher`, which closes the descriptor, frees the
structure and may connect again between any two of these stages. A thread whose
connection was replaced can find a closed descriptor (`WriteStaleFails`,
`ForwardFails`), or the one of the next connection, which gets the same number
(`WriteStaleElsewhere`, `Readable`). A pointer already cleared when it is read again
ends the process (`SendFails`). Connections are FIFO (`queue`); the thread of a
connection handles one request at a time (`current`); an answer on the shared
connection can be read by any waiting thread, so answers are only counted
(`replies`).

A message is two calls of `write_all`, its length and its bytes, and two of `read_all`,
and nothing keeps the threads of `invoke` from coming between the two of each other.
`Write` and `ReadReply` are the pairs that nobody comes between. `WriteMixes` is a message
written inside that of another thread: where the successor expects a message it finds a
`Mixture`, which it refuses, closing the connection (`RefuseMixture`), unpacks as one
of the messages (`AcceptMixture`) or as a put without an entry, which ends it
(`FollowMixture`), or for whose last bytes it waits. `ReadsMix` is the same with the reads
of two answers: from then on the connection is torn (`conn`), and a thread gets
something for an answer, or nothing, or waits (`ReadTorn`). A descriptor that
`child_watcher` replaced between the two writes gives the next connection the second half
(`WriteStaleElsewhere`). `mixed` remembers that any of this happened.

The table is the last write in force for one key, and `applied` is a history
variable with all the writes its content stems from. ZooKeeper is external:
znodes of a dead process disappear by `Expire`, some time after; each change of
the children fires the watches that are set, once. `Die` is the end of a process
whatever the cause: `Crash` from outside, or `Exits`, an `exit(1)` or a null pointer
followed. `LoseSession` is a serving process that loses touch with ZooKeeper: its
znode and its watches are gone, it serves and forwards as before, and the clients that
were connected to it (`heads`) go on sending it writes. `WatcherListFails` is
`zoo_wget_children` failing, because the session is over or the connection is down for
a moment; the code prints a line and goes on with a list nobody wrote, which is empty
or ends the process, and no watch is set. `MaxFailures` bounds crashes, lost sessions
and failed listings together; what the code does by itself has no bound.

### Link, Exchange

An end of the connection is a thread inside `network_send_receive` or the server's
`client_procedure`. A call packs a frame (`Pack`, or `PackDies` when the size is
negative as a short), `WriteSome` is one `write` within one call of `write_all`,
`ReadSome` one `read` within one call of `read_all`, and `Missing` is what that call
still waits for: of the length, then of as many bytes as the length it read
announces. A byte is the message it comes from and its place, so that a mixture can
be seen; only the two bytes of a length have a value that matters, and a wrong length
is read from whatever bytes are there. A message received whole unpacks as itself
(`IsWhole`). A mixture of the bytes of several is refused or unpacks, as one of those
whose first packed byte, the opcode, is in it or as a message nobody sent (`Unpacks`);
then the server handles that request, or one that is nobody's (`None`), and a call
returns that answer. `GivesUp` is the return of NULL or the end of
`client_procedure`, which closes the connection. `Handle` is `invoke`, `Answer` is
`network_send`. `Dies` ends all threads of a process.

`Exchange` is the promise: a request is handled at most once, a call returns
the answer to its own request after it was handled, or nothing; after calls
overlapped it may be any answer; one that answers nobody's request counts as nothing. `overlapped` is a history variable with which the
properties tell calls in turn, as the client makes them, from those of the threads of
a server on `rtable_write`.

### ClientApp

`at["main"]` is the progress of `main`: `start`, `list`, then `look`, `split`,
`connect` for the head and once more for the tail, `prompt`, `key`, and within
a command `begin`, `half` (the length is written), `wait`, `rest` (the length
of the answer is read). `at["watcher"]` is that of `child_watcher`, through the same
lookups and connections. `Found` is what `zoo_get` leaves in the buffer: the address, the
one before when the znode is gone, or an address cut short, because the lookup of
the head set `zoo_data_len`. `WatcherDrops` closes a connection whose address changed,
`Connects` makes the new one; `torn` remembers that the connection of the command in
progress was closed. The descriptor usually gets the number of the closed one, so a torn
command may fail, get an answer that it was already waiting for, or read on the new
connection for ever. `Splits` and `Connects` are the two calls of `strtok`, whose static
pointer (`token`) the command loop uses as well (`ReadKey`). The servers are an
environment of `Chain`'s kind without its inside.

## 4. The runs

Runs that must pass:

| Run | Instance | Shows |
|---|---|---|
| `lock` | 4 threads, counters zeroed | `LockInv`, of which `MutualExclusion` and `NoLostWakeup` are also checked alone; `FreeLockAdmits`; `SomeoneEnters`, `Drains`; refinement of `ReadersWriters` |
| `table` | 4 keys, 2 values, 2 lists | `TableInv`, `TransferKeepsContent`, refinement of `KVMap`, over all histories (the state space is finite without a bound) |
| `server` | 2 connections, 2 requests out of ten kinds, two keys, an empty table or one entry | `ServerInv`, `NoBrokenRead`, `StatsExact`, `LocksHeldInside`, `ReadsAnswered`, `WritesGetThrough`, refinement of `AtomicStore` |
| `chain_update` | a chain of three, three writes, one of them a del, two clients, messages that mix | `AcksCovered`, `AcksInv`, `WriteSpreads` |
| `chain_members` | one server, two that join, two failures, no writes | `JoinCompletes`, `ChainHeals`, `RacedEnd` |
| `chain_traffic` | three servers from an empty ZooKeeper, one write, two failures | `TypeOK`, `ForwardUp`, `TailReadSafe`, `SettledLink`, `SpreadInv`, `ExitsHaveCause` |
| `link` | two threads with up to two calls each and three together, requests of 2 and 9, answers of 1 and 9 bytes, bytes of 4 values, so that 9 is negative as a short; room for 4 bytes | `LinkInv`, `FramesWholeInTurn`, `FailuresAreFinal`, `CallsReturn`, refinement of `Exchange` |
| `client` | three servers, one with a long address, a chain of none to three of them at the start, one failure | `ClientInv`, `WritesReachHeads`, `SettledConnections`, `EndsHaveCause`, `CommandsReturn`, `FollowsChain` |

Why the bounds are enough to be interesting. Four threads let a reader and a
writer be inside and waiting at the same time with another of each kind, which
two or three cannot all show. Two lists and four keys give a list of three, so
insertion and removal happen at head, middle and tail, and an empty list. Two
connections with two requests (one each, or two in sequence on one connection)
reach every pair of handlers in every interleaving of their steps; no property of
the server relates more than two handlers. Three servers give a middle
one, which has both a predecessor and a successor, and let it die. Two writes at once
are enough to be reordered, to take the answer of each other and to mix; a third one
follows them. `MaxFailures = 2` lets two deaths overlap and leaves a server to heal. In
`chain_traffic` all servers are alike, each with its own address: `AllAlike` permutes them.
Its one write meets joins, failures and the races of `strtok` at each of its stages; two
writes that mix are in `chain_update`, where nothing else happens, and both together are
left to the proofs, which have no bound. In `link` the room is less than a frame of 6
bytes would need with its successor, so writers wait for readers in the middle of frames; two
calls by a thread let one follow a failed or an overlapped one, and three together
(`MaxSent`) let the other thread overlap any of them. In `client` a chain
of three has a middle server to change, three joins after an empty chain are three
changes in a row, and the one failure may hit any server at any of the client's stages.

Deadlock checking is off in the runs of `Chain`, `Link` and `ClientApp`: writes, calls
and failures are bounded, nobody has to start a server, and the client may quit, so these systems really come to rest. It is on in
`lock`, `table` and `server`; in `server` the watcher can always move,
there the liveness properties take its place.

Runs that find a disagreement between the code and what is written about it:

| Run | Counterexample |
|---|---|
| `chain_order` | Two clients put the same key at the head. One thread applies first and sends second (`table_skel.c:56-60`): head and tail keep different values. |
| `chain_restart` | A server restarted on its address before its old znode expires takes that znode as its predecessor, connects to itself and waits for ever. |
| `link_shared` | Two threads forward over `rtable_write` at the same time: one writes its length between the length and the message of the other (`network_client.c:52-55`), and the successor reads a mixture. |
| `client_hang` | `child_watcher` closes the connection a command reads its answer from and connects again under the same descriptor (`table_client.c:179-180`): the command waits there for ever, although no server died. |

The first property of the replicas, `QuietReplicasAgree`, is what "server state
replication, following the Chain Replication Model" (`src/README.md:19`) says.
`TailReadSafe` is what the code keeps of it through failures, joins and messages that mix:
the tail never shows a write that an earlier server lacks. `AcksCovered` holds in a
stable chain up to the moment when two threads come between the calls of each other on
`rtable_write`: so far there are never more acknowledgements than writes at every server,
although a particular acknowledged write need not have reached the tail yet, as answers
are not matched to requests. After that nothing of the kind holds: the successor closes
the connection or waits for more bytes, `invoke` ignores the failure, and writes that the
successor never had are acknowledged, or never answered (`RefuseMixture`, `ForwardFails`).
`WriteSpreads` ends at the same moment. What is checked is that nothing else than this
mixing breaks them.

`SettledLink` and `ChainHeals` speak of servers whose last listing succeeded. A server
that joins between the `zoo_create` and the `zoo_wget_children` of another appears
in the first list of that one, which `main` searches for its predecessor only: the
first server forwards nothing until the membership changes again.
`QuietChainLinked` is defined in `Chain` for that case and no run claims it.

Other behaviours of the code that these models have and no property denies. The
same `QuietReplicasAgree` is violated when a write comes between the `GETTABLE` of a
joining server and the reconnection of its predecessor (`table_server.c:262`), and
when a successor dies with a write on its way, which is acknowledged all the same
(`table_skel.c:60`). After a failure `child_watcher` ends healthy servers, as it
cannot connect to a dead one that is still listed (`table_server.c:118`). Without any
failure, a server that joins can crash because `child_watcher` calls `rtable_connect` while
`main` is in it (`table_server.c:116,258`, `client_stub.c:23-24`), and its serving predecessor
then finds nobody to connect to and exits; a put without an entry that comes out of a
mixture ends a successor. `ExitsHaveCause` says that nothing else than these three ends a
serving server, and `RacedEnd` that a server with that race never survives it; `ForwardUp`,
`TailReadSafe` and `SettledLink` leave it out, or hold until it happens. With `HeapValues = {0, 1}`
`FreeLockAdmits` is violated: `table_skel_semaphores_init` never writes the counters,
and a recycled block makes a writer wait for ever. An answer longer than 32767
bytes ends the server that packs it, after the request took effect (`PackDies`).
A client whose watcher runs before `main` has connected, or whose tail has an address
two characters longer than its head's, ends or stays connected to old servers: `raced` and
`Width` take these cases out of `SettledConnections`, `FollowsChain` and
`EndsHaveCause`. A writer, or a thread at the counters behind the readers of the
statistics, can be starved by others that keep entering the lock in front of it.

Each property has a mutant, a copy of a definition with a plausible mistake, under
which TLC finds the property violated; the mutants stand next to the definition
they change.

## 5. Fairness

* `RWLock`, `Server`: weak fairness of each thread's own steps. A runnable thread
  gets the processor and handlers end. Nothing is assumed about the order in which
  the mutex goes to threads. No thread has to issue a call, no client to send or
  close, and in `Server` the successor never has to answer (`ForwardReturns` is
  not fair), which is what makes `ReadsAnswered` worth stating: a read does not wait
  for it.
* `Link`: weak fairness of each end's own steps: a thread in a call goes on, and TCP
  delivers what was written. Nobody has to call, and no process has to live.
* `ClientApp`: weak fairness of the two threads, of the answer of a live server and of
  `Expire`. `TornCallFails` has none: nothing makes a call on a replaced connection fail,
  which is why `CommandsReturn` leaves it out and `client_hang` finds it.
* `Chain`: weak fairness of each live process and of `Expire`: ZooKeeper
  ends the session of a process that sends no heartbeats. Nothing has to start, to
  crash or to submit a write. One condition for a whole process is weak; it is
  enough because in the instances checked a process has no way to be busy for ever.
  The steps of `MixedStep`, in which threads come between the calls of each other or find
  what that left, have none: a thread that waits for bytes which do not come waits for ever.

Starvation of one writer by overlapping readers is real and no property denies it:
`SomeoneEnters` promises the lock to somebody, `Drains` promises it to everybody
once the calls stop. `ReadsAnswered` and `WritesGetThrough` leave out a thread while others
enter a lock for ever (`Overtaken`). The `server` run has two requests, so nobody enters
for ever there and every thread gets through; what the two properties show is that
neither the chain nor a lock left behind by a handler holds anybody up.

## 6. What is proved

Every theorem is checked by TLAPS for all values of the constants that satisfy the
named assumptions. A theorem of the form `Spec => []P` states a property `P` that a
run checks on its instance, unless said otherwise. No fairness is used: `Chain`,
which has fairness in `Spec`, is proved about as `Safety`, the same without it.
Most inductive invariants below are also properties of a run; `ForwardInv`,
`ChainUnharmed` and `ListingsCurrent`, which only support `ForwardUp`,
`ExitsHaveCause` and `SettledLink`, are stated in `Chain` and not run again.

| Part | Theorem | States |
|---|---|---|
| Lock | `LockCorrect`, `LockExcludes`, `LockWakes`, `FreeLockIsFree` | `LockInv`, `MutualExclusion`, `NoLostWakeup`, `FreeLockAdmits` |
| | `LockImplements` | `ImplementsReadersWriters` |
| Table | `TableCorrect`, `TransfersKeepContent` | `TableInv`, `TransferKeepsContent` |
| | `TableIsMap` | `ImplementsMap` |
| Server | `ServerCorrect`, `StatisticsExact`, `ReadsAreWhole`, `LocksCountHolders` | `ServerInv`, `StatsExact`, `NoBrokenRead`, `LocksHeldInside` |
| | `ServerIsAtomicStore` | `ImplementsAtomicStore` |
| Chain | `ChainTypes`, `ForwardsUpward`, `WritesSpreadInOrder`, `TailReadsSafe`, `LinksSettle`, `AnswersStandForWrites`, `AcksAreCovered` | `TypeOK`, `ForwardUp`, `SpreadInv`, `TailReadSafe`, `SettledLink`, `AcksInv`, `AcksCovered` |
| | `ExitsNeedCause` | `ExitsHaveCause`, an action property |
| Framing | `LinkCorrect`, `FramesStayWhole` | `LinkInv`, `FramesWholeInTurn` |
| | `FailuresFinal` | `FailuresAreFinal`, an action property |
| | `LinkIsExchange` | `ImplementsExchange` |
| Client | `ClientCorrect`, `WritesFindHeads`, `ConnectionsSettle` | `ClientInv`, `WritesReachHeads`, `SettledConnections` |
| | `EndsNeedCause` | `EndsHaveCause`, an action property |

### The lock (`RWLock_proofs`, on `Semaphore_proofs`)

`MutualExclusion` alone is not inductive: `enter_write` looks at the
counters, not at the threads. `CountersExact` ties the counters to the sets of
threads inside; then the test of `enter_write` says that these sets are empty
(`TestsSayWhoIsInside`), and each step moves one thread between two sets and one
counter by one (`CountMove`, from the theorems on cardinality). `NoLostWakeup`
needs both: a leaving reader wakes nobody unless it is the last, which is right
only because everybody who waits meanwhile is a writer and `n_read` is still
positive. `LockInv` is the conjunction, and it is inductive. Refinement maps every
step to a step of `ReadersWriters` or to a stutter (`StepRefines`), using `LockInv`
to see that nobody is inside when a writer enters. `Semaphore_proofs` has what each
of the four functions does to the record; the server's proofs use it too.

Assumptions: a finite set of threads, and `HeapValues = {0}` as a hypothesis of each
theorem. `table_skel_semaphores_init` never writes the counters, and with another
value in them the theorems are false (section 4).

### The table (`Table_proofs`)

`TableInv` is inductive, given what the operators on lists do: `Inserted` and `Removed`
say what `InsertAt` and `RemoveAt` of the library put where, `AddExists`, `AddNew` and
`RemovedEntry` what the functions of `list.c` leave in a sorted list. Two keys of one
list never disturb each other (`PutSound`, `RemoveSound`), because `table_get` depends
on the set of entries of the key's list only (`GetFound`, `SameEntry`).

`table_size`, `table_get_keys` and the loop of a server that joins walk over data of
any length. Their loops are recursive functions in `Table` (`SizeOfFirst`,
`KeysOfFirst`, `Loading`): the values after each turn. `LoopRuns` shows that such a
function exists when every turn has a value, so its definition may be unfolded, and
`CountUp` is induction on the number of turns, by the least number that is missed;
both are about sets and functions, so that no operator has to be instantiated.
`AllWalked` is the invariant of the first two loops: after `i` lists the keys copied
are those of these lists, each once, and as many as were counted. `Filled` is that of
the third: the new table agrees with the old one on the keys put so far. Hence
`TableIsMap`, with the answers of all calls, and `Transferred`, from which
`TransfersKeepContent` follows: it holds for any two numbers of lists.

Assumptions: finitely many keys, as strings in the order of `strcmp`
(`KeysAssumption`); no value is `NULL`; at least one list, as `table_create` demands;
sums of characters that are not negative (`AsciiAssumption`).

### The server (`Server_proofs`)

The properties say nothing of why they hold, `ServerInv` does. `LocksExclude`: each
semaphore counts exactly the threads between enter and leave, and a writer among them
is alone. `ThreadsInPhase`: which steps a handler has, which request a thread has at
which place, and when its answer is there. `TableInShape`: the size field is behind the
lists only between the two halves of the one writer, which remembers by how much, and a
destroyed entry is about to be replaced. `TableCopiesCurrent`, `StatsCopiesCurrent`:
what a handler copied into its locals is still so when it goes on, since nobody else
writes while it is inside. `StatsExact` is part of it, as the load and the store of a
counter are two steps.

The proof has a frame for each kind of step (`BodyFrame`, `MoveFrame`, the steps of the
locks), so that each conjunct is shown once per frame instead of once per action.
`NoBrokenRead` and `LocksHeldInside` follow; the sum of the sizes that `op_size` gets is
never -1 (`SizeIsKnown`), so its early return leaves no lock behind. For `ServerIsAtomicStore` the effect of a
write is its first change of the lists, and `TableCopiesCurrent` says that a `getkeys`
or `gettable` that copies over several steps answers with the table of one instant.

Assumptions: finitely many threads and keys, requests of the kinds `invoke` knows or
rejects (`RequestsAssumption`), any loaded tables. Semaphores that start at 0 are part of
`Init` here, for the reason given under the lock.

### The chain (`Chain_proofs`, `Spread_proofs`)

*Forwarding goes upward*, for any assignment of addresses; several runs may share
one, as after a restart. `child_watcher` lists a successor, looks its address up
later, and connects to whoever listens there by then; when the znode is gone it may use
an address it looked up long ago. `ForwardUp` alone says nothing of these, so
`ForwardInv` adds `NumbersGrow` (a number is the largest so far when it is given out),
`LastRunListens` (of the runs on one address the one that is alive is the last, as a
second `bind` fails) and `LookupsLeadUp` (the listed successor has a larger number, and
so has everybody who listens on the address in the buffer, now and after any restart).
The port that `strtok` finds may be that of any process when `main` and `child_watcher` meet
there; `TokenKept` says that it is the own one until then, so `ForwardUp` leaves out the
servers in `raced` and only those. The types need it, as `TailOf` is defined for a bounded set of numbers only.

*Serving servers end only with a cause*, for any addresses too. `ChainUnharmed`: before the
first failure, race in `strtok` or mixture every server with a number is alive and in the chain, whoever is connected to
has a number, and a link that a thread has tested stays. A process that never got a number may end,
and no link or table depends on it.

*What the tail shows is everywhere before it.* `SpreadInv` follows a write from the
queue of a server to its table: what a server `t` holds in any way, on its way to it,
in a thread or in its table, every live member of the chain in front of it has applied
(`HeldInFront`). That survives a forward because a server forwards only what it
applied (`ForwardsApplied`) and only to the one that follows it: no lookup, nor what it
leaves in the buffer, passes over a server in the chain (`LookupsSkipNobody`), although
the chain may shrink and grow meanwhile. It survives a join because the newcomer
copies from the last server, and holds nothing itself (`NewcomersEmpty`). It survives
messages that mix, because what comes out of a mixture is one of the writes in it. It
does not survive the race in `strtok`, with which a server may copy from any other. And clients
write to servers that were first (`HeadsFirst`), so nobody live in the chain is in
front of where a write comes in.

*Links settle.* `ListingsCurrent`: a watch is set with a listing and fires at the next
change, so while it is set the successor listed is the one of now.

*Acknowledgements are covered.* Threads take the answers of a shared connection in any
order, so no single answer can be traced. `AnswersCounted` counts: the writes a server
has passed on, together with the answers still on its link, are no more than those its
successor finished, and no more than those of any server behind. Each inequality is
kept by the steps of the server concerned, so no induction along the chain is
needed. Counting is right because each write comes to each server once, on one link
(`WritesOnce`, `RequestsOnce`), and nothing changes the links (`ChainStands`), until
messages mix: `AcksInv` is these four or `mixed`.

Assumptions. `ServersAssumption`, `AddressAssumption`, `WritesAssumption`, and
`InitialAssumption`: the servers of the initial chain have different addresses, as two
processes cannot listen on one. `LinksSettle`, `WritesSpreadInOrder` and `TailReadsSafe`
also need `DistinctAddresses`, that no server is started again on the address of
another. Without it they fail. `SettledLink`, with three processes: a
successor that restarts between two runs of `child_watcher` has the address that
`next_server` names, and is taken for connected (`table_server.c:107`). `TailReadSafe`,
with five: the head loses its successor; a second one joins and dies before the head has
looked it up; a third one joins, and a fourth on the address of the first. `zoo_get`
finds nothing and leaves the address of the first in the buffer, so the head connects to
the fourth and its writes pass over the third (TLC finds this with a writer's request
on its way). `AnswersStandForWrites` and
`AcksAreCovered` need `StableChain`, that nothing fails and nobody joins: when a
successor dies, its predecessor answers for writes nobody behind has.

### The connection (`Link_proofs`)

`LinkInv` has two halves. Whatever calls overlap, `RequestsOnce` and `AnswersHandled`
follow single bytes: those of one request arrive in the order of writing, and the byte
that gets a request handled, the first one behind the length, comes no second time, whether it
comes in its own frame or in a mixture that unpacks (`Unpacked`, `Taken`), nor does an answer come before its
request was handled. While calls are made in turn, `InTurn` knows every byte of the
connection: what was read, what is on its way and what is left to write together make
one frame, and the stage of the call says in which direction (`Sending`, `Handling`,
`Answering`, and `Abandoned` when the server is dead). That a length fits a short,
and that a size beyond it ends the call before a byte is written, is arithmetic on the
two bytes.

Assumptions: finitely many threads; sizes from 1 to twice the limit of a short
(`SizesAssumption`), any base for the bytes, and buffers that hold a frame
(`RoomAssumption`).

### The client (`ClientApp_proofs`)

`ClientInv` has one part for each question. `AlwaysConnected`, with `FreshLookups`: from
the first connection on the command loop finds one, unless the watcher is replacing it.
`OnlyHeads`: whoever is looked up, connected to or asked as the head was the head.
`LookupsCurrent`: while the watch is set the listing is the one that was read, and the
strings and connections are on their way to its ends. `EndsStay`: as long as head and
tail stay, the client knows nobody else, so it has no reason to replace a connection or
to end. The last two hold with the reservations `raced` and `TailTooLong`, which are the
two ways described in section 4 in which the code goes wrong.

Assumptions: two markers that are no servers, widths that are natural numbers, and
listings that are sequences of servers. The set of servers may be infinite.

### Only model-checked

Liveness needs fairness and ENABLED, which the prover does not handle:
`SomeoneEnters`, `Drains`, `ReadsAnswered`, `WritesGetThrough`, `JoinCompletes`,
`ChainHeals`, `RacedEnd`, `WriteSpreads`, `CallsReturn`, `CommandsReturn`, `FollowsChain`. Every
other property of a passing run is proved. That the modules fit together, as section 2
describes, is an argument and no theorem.

## 7. Not modelled

* In `Chain`, the loss of its session by a server that is still joining, and a lookup
  by `zoo_get` that fails, between two listings, because the connection to ZooKeeper is
  down for a moment: both would add to `Found` and `ConnectPrev` what a vanished znode
  gives already. In `ClientApp`, any trouble of the client's own session.
* In `Chain`, the bytes of a mixture: it is refused, or taken for one of the messages
  in it, or for a put without an entry, or waited for. That it is taken for another
  well-formed message that nobody sent, as a put of a wrong value, is in `Link` as a request
  of nobody, and left out of `Chain`, whose tables hold writes of clients.
* In `Link`, a packed size of 65536 bytes or more, which is a small short again and makes
  `message_t__pack` write past its buffer (`SizesAssumption`); a host that vanishes
  without closing its connections, which leaves its peers waiting, as no read has a
  timeout; and a handler that never ends because the chain is stuck, which is in `Server`.
* In `ClientApp`, the end of the standard input, at which the command loop spins; the
  bytes of a value, of which `put` sends as many as a pointer has; and
  the port read from another string by a disturbed `strtok`, which is taken to be one
  where nobody listens. How the stub copies messages into results and back.
* A connection attempt that the listening socket cannot take (its backlog is 0):
  `Chain` connects to every process that listens.
* What a freed `rtable_t` holds. `Chain` has the descriptor in it still readable;
  a block already used for something else could give any number.
* `time_spent` of the statistics; `network_server_close`, `table_destroy`,
  `list_destroy`, `table_skel_destroy`, which `network_main_loop` never lets `main`
  reach; `entry_dup`, `entry_replace`, `data_replace`, `rtable_connect_server`, which
  nothing calls.
* Failure of `malloc`. Keys with characters outside of ASCII (`table.c:130` takes
  a negative remainder then): `AsciiAssumption` of `Table` excludes them.
* The generated Protocol Buffers code. A message is its fields.
