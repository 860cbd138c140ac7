-------------------------------- MODULE Chain --------------------------------
(***************************************************************************)
(* The replication chain: table_server processes that find each other      *)
(* through ZooKeeper (main and child_watcher of table_server.c) and pass   *)
(* every write on to their successor (invoke of table_skel.c over          *)
(* network_send_receive of network_client.c).                              *)
(*                                                                         *)
(* A server here is one run of the program; a restart is another server,   *)
(* possibly with the same address.  Inside a server an operation on the    *)
(* table is atomic, which Server shows; one key is enough to compare       *)
(* replicas, so the table is the last write in force.  ZooKeeper is        *)
(* external: ephemeral sequential znodes under /chain, one-shot watches,   *)
(* and sessions that expire some time after their process died, or earlier  *)
(* when a serving process loses touch.  That main loses it while it joins,  *)
(* and that a lookup by zoo_get does between two listings, is left out.     *)
(*                                                                         *)
(* A message is two calls of write_all, its length and its bytes, and two   *)
(* of read_all.  Each call is whole here; Link has the cuts inside a call.  *)
(***************************************************************************)
EXTENDS Integers, FiniteSets, SequencesExt

CONSTANTS Servers, Addresses, Address, None,
          Mixture,        \* bytes of several messages where one should begin
          InitialChain,   \* servers that already serve, first to last
          Writes,         \* one element per put or del of a client
          Deletes,        \* those that are del
          MaxClients,     \* bound: clients waiting for an answer at once
          MaxFailures     \* bound: processes killed, and losses of ZooKeeper

ASSUME ServersAssumption == IsFiniteSet(Servers) /\ None \notin Servers
ASSUME AddressAssumption == Address \in [Servers -> Addresses] /\ None \notin Addresses
ASSUME WritesAssumption == Deletes \subseteq Writes /\ None \notin Writes /\ Mixture \notin Writes
ASSUME InitialAssumption ==
    /\ InitialChain \in Seq(Servers)
    /\ \A i, j \in DOMAIN InitialChain :
        i # j => Address[InitialChain[i]] # Address[InitialChain[j]]

VARIABLES
    pc,          \* where main is
    prev,        \* main: the predecessor it found, then the process it copies from
    root,        \* /chain exists
    seqno,       \* sequence number of the znode of a server, 0 before it has one
    znodes,      \* the servers whose znode exists
    heads,       \* history: the servers that were first, clients may still be connected to
    watch,       \* a watch on the children of /chain is set
    event,       \* the watch fired and child_watcher was not called yet
    target,      \* child_watcher: the successor it listed and has not looked up yet
    zoo_data,    \* child_watcher: what its buffer holds of the last zoo_get, or None
    ran,         \* history: the last listing of child_watcher succeeded
    reconnecting, \* child_watcher is between the two strtok of rtable_connect
    token,       \* whose string the static pointer of strtok is in, "none" at its end
    raced,       \* history: the servers where main and child_watcher overlapped there
    next_server, \* the address this server believes to be its successor's
    link,        \* the process at the other end of rtable_write
    conn,        \* that connection: whole, torn when answers were split, or closed
    table,       \* the write in force
    applied,     \* history: all writes the content stems from
    task,        \* how far a server is with a write
    peer,        \* the process at the other end of the connection a thread uses
    queue,       \* queue[s][t]: writes s sent that t has not read yet
    current,     \* current[s][t]: the write t handles for s
    replies,     \* replies[s][t]: answers of t that no thread of s has read yet
    mixed,       \* history: two threads came between the calls of each other
    entry,       \* the server a client sent a write to
    acked,       \* writes answered to their client
    failures

joining == <<pc, prev>>
zookeeper == <<root, seqno, znodes, heads>>
connecting == <<reconnecting, token, raced>>
watching == <<watch, event, target, zoo_data, ran, connecting>>
linking == <<next_server, link, conn>>
content == <<table, applied>>
traffic == <<task, peer, queue, current, replies, mixed>>
clients == <<entry, acked>>

vars == <<joining, zookeeper, watching, linking, content, traffic, clients, failures>>

Dead == {"off", "exited", "crashed"}
Alive(s) == pc[s] \notin Dead
Serving(s) == pc[s] = "serving"

\* Before zoo_create has named the znode of the server.
Unnumbered == {"off", "started", "create_root", "create_node"}

\* The servers whose znode exists or existed.
Numbered == {t \in Servers : seqno[t] # 0}

\* The process that listens on an address: network_server_init binds it
\* before anything else and a second bind fails.
Listening(a) == {s \in Servers : Alive(s) /\ Address[s] = a}

Before(s) == {t \in znodes : seqno[t] < seqno[s]}
\* Mutant: the server itself counts as behind it.
Behind_Inclusive(s) == {t \in znodes : seqno[t] >= seqno[s]}

Behind(s) == {t \in znodes : seqno[t] > seqno[s]}

\* Mutant: head and tail confused.
TailOf_Oldest(S) == CHOOSE s \in S : \A t \in S : seqno[s] <= seqno[t]

\* order_children sorts by name, and a name ends in the sequence number.
HeadOf(S) == CHOOSE s \in S : \A t \in S : seqno[s] <= seqno[t]
TailOf(S) == CHOOSE s \in S : \A t \in S : seqno[s] >= seqno[t]

-----------------------------------------------------------------------------
Place(s) == IF \E i \in DOMAIN InitialChain : InitialChain[i] = s
            THEN CHOOSE i \in DOMAIN InitialChain : InitialChain[i] = s
            ELSE 0

InitialNext(s) ==
    IF Place(s) \in 1 .. Len(InitialChain) - 1 THEN InitialChain[Place(s) + 1] ELSE None

\* The chain as it is when its first members have joined one after the other
\* and every watch was served.
Init ==
    /\ pc = [s \in Servers |-> IF Place(s) = 0 THEN "off" ELSE "serving"]
    /\ prev = [s \in Servers |-> None]
    /\ root = (InitialChain # <<>>)
    /\ seqno = [s \in Servers |-> Place(s)]
    /\ znodes = {s \in Servers : Place(s) # 0}
    /\ heads = {s \in Servers : Place(s) = 1}
    /\ watch = [s \in Servers |-> Place(s) # 0]
    /\ event = [s \in Servers |-> FALSE]
    /\ target = [s \in Servers |-> None]
    /\ zoo_data = [s \in Servers |->
                        IF InitialNext(s) = None THEN None ELSE Address[InitialNext(s)]]
    /\ ran = [s \in Servers |-> Place(s) \in 1 .. Len(InitialChain) - 1]
    /\ reconnecting = [s \in Servers |-> FALSE]
    /\ token = [s \in Servers |-> "none"]
    /\ raced = {}
    /\ link = [s \in Servers |-> InitialNext(s)]
    /\ conn = [s \in Servers |-> IF InitialNext(s) = None THEN "closed" ELSE "whole"]
    /\ next_server = zoo_data
    /\ table = [s \in Servers |-> None]
    /\ applied = [s \in Servers |-> {}]
    /\ task = [s \in Servers |-> [w \in Writes |-> "none"]]
    /\ peer = [s \in Servers |-> [w \in Writes |-> None]]
    /\ queue = [s \in Servers |-> [t \in Servers |-> <<>>]]
    /\ current = [s \in Servers |-> [t \in Servers |-> None]]
    /\ replies = [s \in Servers |-> [t \in Servers |-> 0]]
    /\ mixed = FALSE
    /\ entry = [w \in Writes |-> None]
    /\ acked = {}
    /\ failures = 0

-----------------------------------------------------------------------------
\* The end of a process: its threads, its sockets and its watch are gone; what
\* it has sent can still be read at the other end.
Die(s, how) ==
    /\ pc' = [pc EXCEPT ![s] = how]
    /\ watch' = [watch EXCEPT ![s] = FALSE]
    /\ event' = [event EXCEPT ![s] = FALSE]
    /\ target' = [target EXCEPT ![s] = None]
    /\ zoo_data' = [zoo_data EXCEPT ![s] = None]
    /\ reconnecting' = [reconnecting EXCEPT ![s] = FALSE]
    /\ token' = [token EXCEPT ![s] = "none"]
    /\ next_server' = [next_server EXCEPT ![s] = None]
    /\ link' = [link EXCEPT ![s] = None]
    /\ conn' = [conn EXCEPT ![s] = "closed"]
    /\ task' = [task EXCEPT ![s] = [w \in Writes |-> "none"]]
    /\ peer' = [peer EXCEPT ![s] = [w \in Writes |-> None]]
    /\ queue' = [t \in Servers |-> [queue[t] EXCEPT ![s] = <<>>]]
    /\ current' = [t \in Servers |-> [current[t] EXCEPT ![s] = None]]
    /\ replies' = [replies EXCEPT ![s] = [t \in Servers |-> 0]]
    /\ UNCHANGED <<prev, zookeeper, ran, raced, mixed, content, clients>>

\* exit(1), or a null pointer followed.
Exits(s) == Die(s, "exited") /\ UNCHANGED failures

Crash(s) ==
    /\ Alive(s) /\ failures < MaxFailures
    /\ failures' = failures + 1
    /\ Die(s, "crashed")

\* The children of /chain change: the watches that are set on the sessions that
\* go on fire, and the first child is the head.
ChildrenChange(others) ==
    /\ event' = [s \in Servers |-> event[s] \/ (watch[s] /\ s \notin others)]
    /\ watch' = [s \in Servers |-> FALSE]
    /\ heads' = heads \cup {s \in znodes' : \A t \in znodes' : seqno'[s] <= seqno'[t]}

SessionEnds(s) ==
    /\ s \in znodes
    /\ znodes' = znodes \ {s}
    /\ UNCHANGED <<joining, root, seqno, target, zoo_data, ran, connecting, linking,
                   content, traffic, clients>>
    /\ ChildrenChange({s})

Expire(s) == ~Alive(s) /\ SessionEnds(s) /\ UNCHANGED failures

\* A serving process loses touch with ZooKeeper for as long as its session
\* lasts: its znode is gone, and it goes on.
LoseSession(s) ==
    /\ Serving(s) /\ failures < MaxFailures
    /\ failures' = failures + 1
    /\ SessionEnds(s)

-----------------------------------------------------------------------------
\* main of table_server.c

Arrives(s, from, to) == pc[s] = from /\ pc' = [pc EXCEPT ![s] = to]

\* network_server_init listens, zookeeper_init opens the session.
Start(s) ==
    /\ Listening(Address[s]) = {}
    /\ Arrives(s, "off", "started")
    /\ UNCHANGED <<prev, zookeeper, watching, linking, content, traffic, clients, failures>>

\* zoo_exists of /chain, and zoo_create when it was not there; the creation
\* fails, and the program ends, when another server created it in between.
FindRoot(s) ==
    /\ Arrives(s, "started", IF root THEN "create_node" ELSE "create_root")
    /\ UNCHANGED <<prev, zookeeper, watching, linking, content, traffic, clients, failures>>

CreateRoot(s) ==
    /\ ~root /\ root' = TRUE
    /\ Arrives(s, "create_root", "create_node")
    /\ UNCHANGED <<prev, seqno, znodes, heads, watching, linking, content, traffic, clients, failures>>

CreateRootFails(s) == pc[s] = "create_root" /\ root /\ Exits(s)

CreateNode(s) ==
    /\ Arrives(s, "create_node", "list")
    /\ znodes' = znodes \cup {s}
    /\ seqno' = [seqno EXCEPT ![s] = 1 + Cardinality(Numbered)]
    /\ ChildrenChange({})
    /\ UNCHANGED <<prev, root, target, zoo_data, ran, connecting, linking, content,
                   traffic, clients, failures>>

\* zoo_wget_children sets the watch and lists; only the predecessor is looked
\* for, and the first server of the chain serves at once.
ListChildren(s) ==
    /\ Arrives(s, "list", IF Before(s) = {} THEN "serving" ELSE "connect")
    /\ watch' = [watch EXCEPT ![s] = TRUE]
    /\ prev' = [prev EXCEPT ![s] = IF Before(s) = {} THEN None ELSE TailOf(Before(s))]
    /\ UNCHANGED <<zookeeper, event, target, zoo_data, ran, connecting, linking,
                   content, traffic, clients, failures>>

\* rtable_connect cuts the address with two calls of strtok, which keeps its
\* place in a static pointer; main and child_watcher may both be between the two.
First(s, thread, overlaps) ==
    /\ token' = [token EXCEPT ![s] = thread]
    /\ raced' = IF overlaps THEN raced \cup {s} ELSE raced

\* The second call reads the port where the pointer is.  In the string of the
\* other thread that is another port, where any process may listen, and at the
\* end of a string there is none: atoi follows a null pointer.
Reached(s, thread, a) ==
    CASE token[s] = thread -> Listening(a)
      [] token[s] = "none" -> {}
      [] OTHER -> {t \in Servers : Alive(t)}

Misses(s, thread, a) == token[s] # thread \/ Listening(a) = {}

\* zoo_get of the predecessor's znode, and the first strtok.
SplitPrev(s) ==
    /\ prev[s] \in znodes
    /\ Arrives(s, "connect", "split")
    /\ First(s, "main", reconnecting[s])
    /\ UNCHANGED <<prev, zookeeper, watch, event, target, zoo_data, ran, reconnecting,
                   linking, content, traffic, clients, failures>>

\* The second strtok, and the connection to the address, where any process may
\* listen by now, this one included.
ConnectPrev(s) ==
    /\ Arrives(s, "split", "fetch")
    /\ \E t \in Reached(s, "main", Address[prev[s]]) : prev' = [prev EXCEPT ![s] = t]
    /\ token' = [token EXCEPT ![s] = "none"]
    /\ UNCHANGED <<zookeeper, watch, event, target, zoo_data, ran, reconnecting, raced,
                   linking, content, traffic, clients, failures>>

\* Mutant: without a port the connection is tried for ever.
ConnectPrevFails_Retries(s) ==
    /\ \/ pc[s] = "connect" /\ prev[s] \notin znodes
       \/ pc[s] = "split" /\ token[s] = "main" /\ Listening(Address[prev[s]]) = {}
    /\ Exits(s)

\* The znode vanished: the address is empty and rtable_connect follows a null
\* pointer.  Nobody listens there: exit(1).
ConnectPrevFails(s) ==
    /\ \/ pc[s] = "connect" /\ prev[s] \notin znodes
       \/ pc[s] = "split" /\ Misses(s, "main", Address[prev[s]])
    /\ Exits(s)

\* rtable_get_table: the predecessor answers once it serves, and the entries go
\* into the table before network_main_loop accepts the first connection.
Fetch(s) ==
    /\ Arrives(s, "fetch", "serving")
    /\ Serving(prev[s])
    /\ table' = [table EXCEPT ![s] = table[prev[s]]]
    /\ applied' = [applied EXCEPT ![s] = applied[prev[s]]]
    /\ prev' = [prev EXCEPT ![s] = None]
    /\ UNCHANGED <<zookeeper, watching, linking, traffic, clients, failures>>

\* Mutant: the read never notices that the predecessor died.
FetchFails_Never(s) == FALSE

\* The connection broke: rtable_get_table returns NULL and main follows it.
FetchFails(s) == pc[s] = "fetch" /\ ~Alive(prev[s]) /\ Exits(s)

-----------------------------------------------------------------------------
\* child_watcher of table_server.c, in the thread of the ZooKeeper client.

\* Mutant: zoo_get_children, which does not set the watch again.
WatcherLists_Once(s) ==
    /\ event[s] /\ target[s] = None /\ s \in znodes
    /\ event' = [event EXCEPT ![s] = FALSE]
    /\ ran' = [ran EXCEPT ![s] = TRUE]
    /\ IF Behind(s) = {}
       THEN /\ next_server' = [next_server EXCEPT ![s] = None]
            /\ link' = [link EXCEPT ![s] = None]
            /\ conn' = [conn EXCEPT ![s] = "closed"]
            /\ UNCHANGED target
       ELSE /\ target' = [target EXCEPT ![s] = HeadOf(Behind(s))]
            /\ UNCHANGED linking
    /\ UNCHANGED <<joining, zookeeper, watch, zoo_data, connecting, content, traffic,
                   clients, failures>>

\* Mutant: the old connection is dropped before the new address is known.
WatcherLists_DropsFirst(s) ==
    /\ event[s] /\ target[s] = None /\ s \in znodes
    /\ event' = [event EXCEPT ![s] = FALSE]
    /\ watch' = [watch EXCEPT ![s] = TRUE]
    /\ ran' = [ran EXCEPT ![s] = TRUE]
    /\ target' = [target EXCEPT ![s] = IF Behind(s) = {} THEN None ELSE HeadOf(Behind(s))]
    /\ next_server' = [next_server EXCEPT ![s] = None]
    /\ link' = [link EXCEPT ![s] = None]
    /\ conn' = [conn EXCEPT ![s] = "closed"]
    /\ UNCHANGED <<joining, zookeeper, zoo_data, connecting, content, traffic, clients,
                   failures>>

\* zoo_wget_children sets the watch again and lists the chain.  Without a
\* successor the connection is dropped at once.
WatcherLists(s) ==
    /\ event[s] /\ target[s] = None /\ s \in znodes
    /\ event' = [event EXCEPT ![s] = FALSE]
    /\ watch' = [watch EXCEPT ![s] = TRUE]
    /\ ran' = [ran EXCEPT ![s] = TRUE]
    /\ IF Behind(s) = {}
       THEN /\ next_server' = [next_server EXCEPT ![s] = None]
            /\ link' = [link EXCEPT ![s] = None]
            /\ conn' = [conn EXCEPT ![s] = "closed"]
            /\ UNCHANGED target
       ELSE /\ target' = [target EXCEPT ![s] = HeadOf(Behind(s))]
            /\ UNCHANGED linking
    /\ UNCHANGED <<joining, zookeeper, zoo_data, connecting, content, traffic, clients,
                   failures>>

\* The session is over, or the connection to ZooKeeper is down for a moment: no
\* watch is set, and the list the code goes on with is unwritten memory, which
\* is empty or ends the process.
WatcherListFails(s) ==
    /\ event[s] /\ target[s] = None
    /\ s \notin znodes \/ failures < MaxFailures
    /\ failures' = IF s \in znodes THEN failures + 1 ELSE failures
    /\ \/ /\ event' = [event EXCEPT ![s] = FALSE]
          /\ ran' = [ran EXCEPT ![s] = FALSE]
          /\ UNCHANGED <<joining, zookeeper, watch, target, zoo_data, connecting, linking,
                         content, traffic, clients>>
       \/ Die(s, "exited")

\* What zoo_get leaves in the buffer: the address, or, when the znode vanished
\* or the own session did, whatever malloc found there, nothing (None) or the
\* address of the last time.
Found(s) == IF {s, target[s]} \subseteq znodes THEN {Address[target[s]]} ELSE {None, zoo_data[s]}

\* A new address: the connection is closed, and rtable_connect begins.  Until it
\* is done rtable_write still points to what is closed.
WatcherSplits(s) ==
    /\ target[s] # None /\ ~reconnecting[s]
    /\ \E a \in Found(s) \ {None, next_server[s]} :
        /\ next_server' = [next_server EXCEPT ![s] = a]
        /\ zoo_data' = [zoo_data EXCEPT ![s] = a]
    /\ conn' = [conn EXCEPT ![s] = "closed"]
    /\ reconnecting' = [reconnecting EXCEPT ![s] = TRUE]
    /\ First(s, "watcher", pc[s] = "split")
    /\ UNCHANGED <<joining, zookeeper, watch, event, target, ran, link, content, traffic,
                   clients, failures>>

WatcherConnects(s) ==
    /\ reconnecting[s]
    /\ \E t \in Reached(s, "watcher", next_server[s]) : link' = [link EXCEPT ![s] = t]
    /\ conn' = [conn EXCEPT ![s] = "whole"]
    /\ reconnecting' = [reconnecting EXCEPT ![s] = FALSE]
    /\ token' = [token EXCEPT ![s] = "none"]
    /\ target' = [target EXCEPT ![s] = None]
    /\ UNCHANGED <<joining, zookeeper, watch, event, zoo_data, ran, raced, next_server,
                   content, traffic, clients, failures>>

\* Mutant: a server that has a successor does not compare the addresses.
WatcherKeeps_Any(s) ==
    /\ target[s] # None /\ ~reconnecting[s]
    /\ next_server[s] # None
    /\ target' = [target EXCEPT ![s] = None]
    /\ UNCHANGED <<joining, zookeeper, watch, event, zoo_data, ran, connecting, linking,
                   content, traffic, clients, failures>>

\* The address is the one it is connected to already.
WatcherKeeps(s) ==
    /\ target[s] # None /\ ~reconnecting[s]
    /\ next_server[s] # None /\ next_server[s] \in Found(s)
    /\ zoo_data' = [zoo_data EXCEPT ![s] = next_server[s]]
    /\ target' = [target EXCEPT ![s] = None]
    /\ UNCHANGED <<joining, zookeeper, watch, event, ran, connecting, linking, content,
                   traffic, clients, failures>>

\* There is no address in the buffer: rtable_connect follows a null pointer.
\* Nobody listens on the new address: exit(1).
WatcherFails(s) ==
    /\ \/ target[s] # None /\ ~reconnecting[s] /\ None \in Found(s)
       \/ reconnecting[s] /\ Misses(s, "watcher", next_server[s])
    /\ Exits(s)

-----------------------------------------------------------------------------
\* A put or del on its way: the threads of client_procedure.

Stages == {"none", "apply", "check", "send", "write", "wait", "done"}

Progress(s, w, from, to) ==
    task[s][w] = from /\ task' = [task EXCEPT ![s][w] = to]

Waiting == {w \in Writes : entry[w] # None /\ task[entry[w]][w] # "none"}

\* A client sends the write to the server it knows as head, which may have lost
\* its session since.
Submit(w, s) ==
    /\ entry[w] = None /\ Cardinality(Waiting) < MaxClients
    /\ s \in heads /\ Serving(s)
    /\ entry' = [entry EXCEPT ![w] = s]
    /\ Progress(s, w, "none", "apply")
    /\ UNCHANGED <<joining, zookeeper, watching, linking, content,
                   peer, queue, current, replies, mixed, acked, failures>>

\* op_put or op_del, under the lock of the table.
Apply(s, w) ==
    /\ Progress(s, w, "apply", "check")
    /\ table' = [table EXCEPT ![s] = IF w \in Deletes THEN None ELSE w]
    /\ applied' = [applied EXCEPT ![s] = @ \cup {w}]
    /\ UNCHANGED <<joining, zookeeper, watching, linking,
                   peer, queue, current, replies, mixed, clients, failures>>

\* Mutant: the test inverted.
Check_Inverted(s, w) ==
    /\ Progress(s, w, "check", IF link[s] # None THEN "done" ELSE "send")
    /\ UNCHANGED <<joining, zookeeper, watching, linking, content,
                   peer, queue, current, replies, mixed, clients, failures>>

\* The test of rtable_write in invoke, without any lock.
Check(s, w) ==
    /\ Progress(s, w, "check", IF link[s] = None THEN "done" ELSE "send")
    /\ UNCHANGED <<joining, zookeeper, watching, linking, content,
                   peer, queue, current, replies, mixed, clients, failures>>

\* network_send_receive(rtable_write, msg): the pointer is read again.
Send(s, w) ==
    /\ link[s] # None
    /\ Progress(s, w, "send", "write")
    /\ peer' = [peer EXCEPT ![s][w] = link[s]]
    /\ UNCHANGED <<joining, zookeeper, watching, linking, content,
                   queue, current, replies, mixed, clients, failures>>

\* child_watcher cleared the pointer after the test.
SendFails(s, w) == task[s][w] = "send" /\ link[s] = None /\ Exits(s)

\* What s writes to t arrives as long as t lives and the connection is open.
Deliver(s, t, items) ==
    queue' = IF Alive(t) /\ conn[s] # "closed" THEN [queue EXCEPT ![s][t] = @ \o items]
             ELSE queue

\* Mutant: the answer of the successor is not waited for.
Write_DoesNotWait(s, w) ==
    /\ link[s] = peer[s][w]
    /\ Progress(s, w, "write", "done")
    /\ Deliver(s, peer[s][w], <<w>>)
    /\ UNCHANGED <<joining, zookeeper, watching, linking, content,
                   peer, current, replies, mixed, clients, failures>>

\* The two write_all, when no other thread writes between them.
Write(s, w) ==
    /\ link[s] = peer[s][w]
    /\ Progress(s, w, "write", "wait")
    /\ Deliver(s, peer[s][w], <<w>>)
    /\ UNCHANGED <<joining, zookeeper, watching, linking, content,
                   peer, current, replies, mixed, clients, failures>>

\* All threads write to the one connection, without a lock: the message comes
\* between the length and the bytes of another one, which has yet to finish.
WriteMixes(s, w) ==
    /\ link[s] = peer[s][w]
    /\ \E v \in Writes \ {w} : task[s][v] = "write" /\ peer[s][v] = link[s]
    /\ Progress(s, w, "write", "wait")
    /\ Deliver(s, peer[s][w], <<Mixture, w>>)
    /\ mixed' = TRUE
    /\ UNCHANGED <<joining, zookeeper, watching, linking, content,
                   peer, current, replies, clients, failures>>

\* child_watcher closed the connection and freed its structure after the pointer
\* was read: the descriptor found there is no open one and nothing is sent,
\* which invoke ignores, or it is the one of the connection that came after,
\* which gets the whole message, or what follows the length only.
WriteStaleFails(s, w) ==
    /\ link[s] # peer[s][w]
    /\ Progress(s, w, "write", "done")
    /\ peer' = [peer EXCEPT ![s][w] = None]
    /\ UNCHANGED <<joining, zookeeper, watching, linking, content,
                   queue, current, replies, mixed, clients, failures>>

WriteStaleElsewhere(s, w) ==
    /\ link[s] \notin {None, peer[s][w]}
    /\ Progress(s, w, "write", "wait")
    /\ \E half \in BOOLEAN :
        /\ Deliver(s, link[s], IF half THEN <<Mixture>> ELSE <<w>>)
        /\ mixed' = (mixed \/ half)
    /\ peer' = [peer EXCEPT ![s][w] = link[s]]
    /\ UNCHANGED <<joining, zookeeper, watching, linking, content,
                   current, replies, clients, failures>>

\* The thread of the connection reads the next request, one at a time.
TakeRequest(s, t) ==
    /\ Serving(t) /\ current[s][t] = None /\ queue[s][t] # <<>>
    /\ Head(queue[s][t]) # Mixture
    /\ LET w == Head(queue[s][t]) IN
        /\ current' = [current EXCEPT ![s][t] = w]
        /\ task' = [task EXCEPT ![t][w] = "apply"]
    /\ queue' = [queue EXCEPT ![s][t] = Tail(@)]
    /\ UNCHANGED <<joining, zookeeper, watching, linking, content,
                   peer, replies, mixed, clients, failures>>

\* Where a message begins the thread finds bytes of several, and may wait for more
\* of them, for ever.
AtMixture(s, t) ==
    /\ Serving(t) /\ current[s][t] = None /\ queue[s][t] # <<>>
    /\ Head(queue[s][t]) = Mixture

\* They do not unpack and it closes the connection.
RefuseMixture(s, t) ==
    /\ AtMixture(s, t)
    /\ queue' = [queue EXCEPT ![s][t] = <<>>]
    /\ conn' = IF link[s] = t THEN [conn EXCEPT ![s] = "closed"] ELSE conn
    /\ UNCHANGED <<joining, zookeeper, watching, next_server, link, content,
                   task, peer, current, replies, mixed, clients, failures>>

\* They unpack as one of the messages, and the bytes behind begin no message
\* either.
AcceptMixture(s, t) ==
    /\ AtMixture(s, t)
    /\ \E i \in 2 .. Len(queue[s][t]) :
        LET w == queue[s][t][i] IN
        /\ w # Mixture
        /\ current' = [current EXCEPT ![s][t] = w]
        /\ task' = [task EXCEPT ![t][w] = "apply"]
        /\ queue' = [queue EXCEPT ![s][t] = <<Mixture>> \o SubSeq(@, i + 1, Len(@))]
    /\ UNCHANGED <<joining, zookeeper, watching, linking, content,
                   peer, replies, mixed, clients, failures>>

\* They unpack as a put without an entry, and op_put follows a null pointer.
FollowMixture(s, t) == AtMixture(s, t) /\ Exits(t)

\* network_send: the answer goes to the client, or to the predecessor.
AnswerClient(s, w) ==
    /\ entry[w] = s
    /\ Progress(s, w, "done", "none")
    /\ acked' = acked \cup {w}
    /\ UNCHANGED <<joining, zookeeper, watching, linking, content,
                   peer, queue, current, replies, mixed, entry, failures>>

AnswerServer(s, t, w) ==
    /\ current[s][t] = w
    /\ Progress(t, w, "done", "none")
    /\ current' = [current EXCEPT ![s][t] = None]
    /\ replies' = IF Alive(s) THEN [replies EXCEPT ![s][t] = @ + 1] ELSE replies
    /\ UNCHANGED <<joining, zookeeper, watching, linking, content,
                   peer, queue, mixed, clients, failures>>

\* The connections a waiting thread may read from: the one it wrote to, or,
\* when that was closed, the next one, which has got its descriptor.
Readable(s, w) == {peer[s][w], link[s]} \ {None}

\* Mutant: the thread goes on without an answer.
ReadReply_Unread(s, w) ==
    /\ Progress(s, w, "wait", "done")
    /\ \E t \in Readable(s, w) : replies' = [replies EXCEPT ![s][t] = @ - 1]
    /\ peer' = [peer EXCEPT ![s][w] = None]
    /\ UNCHANGED <<joining, zookeeper, watching, linking, content,
                   queue, current, mixed, clients, failures>>

\* Any thread that waits on the connection reads the next answer with its two
\* read_all: an answer does not say which request it belongs to.
ReadReply(s, w) ==
    /\ Progress(s, w, "wait", "done")
    /\ \E t \in Readable(s, w) :
        /\ replies[s][t] > 0
        /\ t = link[s] => conn[s] # "torn"
        /\ replies' = [replies EXCEPT ![s][t] = @ - 1]
    /\ peer' = [peer EXCEPT ![s][w] = None]
    /\ UNCHANGED <<joining, zookeeper, watching, linking, content,
                   queue, current, mixed, clients, failures>>

\* Another thread that waits reads between the two: from then on the lengths
\* the threads read are not the lengths of answers.
ReadsMix(s, w) ==
    /\ task[s][w] = "wait" /\ link[s] = peer[s][w]
    /\ conn[s] = "whole" /\ replies[s][link[s]] > 0
    /\ \E v \in Writes \ {w} : task[s][v] = "wait" /\ peer[s][v] = link[s]
    /\ conn' = [conn EXCEPT ![s] = "torn"]
    /\ mixed' = TRUE
    /\ UNCHANGED <<joining, zookeeper, watching, next_server, link, content,
                   task, peer, queue, current, replies, clients, failures>>

\* A thread gets some bytes for an answer, or NULL, which invoke ignores, or it
\* waits for more, for ever.
ReadTorn(s, w) ==
    /\ link[s] = peer[s][w] /\ conn[s] = "torn"
    /\ Progress(s, w, "wait", "done")
    /\ peer' = [peer EXCEPT ![s][w] = None]
    /\ UNCHANGED <<joining, zookeeper, watching, linking, content,
                   queue, current, replies, mixed, clients, failures>>

\* The successor died or closed the connection, or child_watcher did; invoke
\* ignores the failure.
ForwardFails(s, w) ==
    LET t == peer[s][w] IN
    /\ Progress(s, w, "wait", "done")
    /\ (~Alive(t) /\ replies[s][t] = 0) \/ link[s] # t \/ conn[s] = "closed"
    /\ peer' = [peer EXCEPT ![s][w] = None]
    /\ UNCHANGED <<joining, zookeeper, watching, linking, content,
                   queue, current, replies, mixed, clients, failures>>

-----------------------------------------------------------------------------
MainStep(s) ==
    \/ FindRoot(s) \/ CreateRoot(s) \/ CreateRootFails(s)
    \/ CreateNode(s) \/ ListChildren(s)
    \/ SplitPrev(s) \/ ConnectPrev(s) \/ ConnectPrevFails(s)
    \/ Fetch(s) \/ FetchFails(s)

WatcherStep(s) ==
    \/ WatcherLists(s) \/ WatcherListFails(s)
    \/ WatcherSplits(s) \/ WatcherConnects(s) \/ WatcherKeeps(s) \/ WatcherFails(s)

ThreadStep(s, w) ==
    \/ Apply(s, w) \/ Check(s, w) \/ Send(s, w) \/ SendFails(s, w)
    \/ Write(s, w) \/ WriteStaleFails(s, w) \/ WriteStaleElsewhere(s, w)
    \/ ReadReply(s, w) \/ ForwardFails(s, w)
    \/ AnswerClient(s, w)
    \/ \E t \in Servers : AnswerServer(t, s, w)

\* What threads do that come between the calls of each other, or find what that
\* left.
MixedStep(s) ==
    \/ \E w \in Writes : WriteMixes(s, w) \/ ReadsMix(s, w) \/ ReadTorn(s, w)
    \/ \E t \in Servers : RefuseMixture(t, s) \/ AcceptMixture(t, s) \/ FollowMixture(t, s)

\* What a live process does by itself.
ProcessStep(s) ==
    \/ MainStep(s) \/ WatcherStep(s)
    \/ \E w \in Writes : ThreadStep(s, w)
    \/ \E t \in Servers : TakeRequest(t, s)

Next ==
    \/ \E w \in Writes, s \in Servers : Submit(w, s)
    \/ \E s \in Servers :
        Start(s) \/ Crash(s) \/ Expire(s) \/ LoseSession(s) \/ ProcessStep(s) \/ MixedStep(s)

Safety == Init /\ [][Next]_vars

\* A live process keeps running, and ZooKeeper ends the sessions of the dead.
\* Nothing has to start, to fail or to send a write, nor do threads that have lost
\* the beginnings of messages have to go on.
Fairness == \A s \in Servers : WF_vars(ProcessStep(s)) /\ WF_vars(Expire(s))

Spec == Safety /\ Fairness

-----------------------------------------------------------------------------
JoiningOK ==
    /\ pc \in [Servers -> Dead \cup {"started", "create_root", "create_node", "list",
                                    "connect", "split", "fetch", "serving"}]
    /\ prev \in [Servers -> Servers \cup {None}]
    /\ \A s \in Servers : pc[s] \in {"connect", "split", "fetch"} => prev[s] # None

ZooKeeperOK ==
    /\ root \in BOOLEAN
    /\ seqno \in [Servers -> Nat]
    /\ znodes \subseteq Numbered
    /\ heads \subseteq Servers

WatchingOK ==
    /\ watch \in [Servers -> BOOLEAN]
    /\ event \in [Servers -> BOOLEAN]
    /\ target \in [Servers -> Servers \cup {None}]
    /\ zoo_data \in [Servers -> Addresses \cup {None}]
    /\ ran \in [Servers -> BOOLEAN]
    /\ reconnecting \in [Servers -> BOOLEAN]
    /\ token \in [Servers -> {"none", "main", "watcher"}]
    /\ raced \subseteq Servers

LinkingOK ==
    /\ next_server \in [Servers -> Addresses \cup {None}]
    /\ link \in [Servers -> Servers \cup {None}]
    /\ conn \in [Servers -> {"whole", "torn", "closed"}]

ContentOK ==
    /\ table \in [Servers -> Writes \cup {None}]
    /\ applied \in [Servers -> SUBSET Writes]

TrafficOK ==
    /\ task \in [Servers -> [Writes -> Stages]]
    /\ peer \in [Servers -> [Writes -> Servers \cup {None}]]
    /\ queue \in [Servers -> [Servers -> Seq(Writes \cup {Mixture})]]
    /\ current \in [Servers -> [Servers -> Writes \cup {None}]]
    /\ replies \in [Servers -> [Servers -> Nat]]
    /\ mixed \in BOOLEAN
    /\ \A s \in Servers, w \in Writes : task[s][w] \in {"write", "wait"} => peer[s][w] # None

ClientsOK ==
    /\ entry \in [Writes -> Servers \cup {None}]
    /\ acked \subseteq Writes

TypeOK ==
    /\ JoiningOK /\ ZooKeeperOK /\ WatchingOK /\ LinkingOK /\ ContentOK
    /\ TrafficOK /\ ClientsOK
    /\ failures \in Nat

Successor(s) == IF Behind(s) = {} THEN None ELSE HeadOf(Behind(s))

\* t is another server and joined later than s, or has not joined yet.
Upward(s, t) == t # s /\ (seqno[t] = 0 \/ seqno[t] > seqno[s])

\* Writes are forwarded towards later joiners only, even after crashes and
\* reconnections, so forwarding threads never wait for each other in a circle
\* and no write comes back to a server that handled it.  A server where main and
\* child_watcher connect at once may connect to any other, and ends.
ForwardUp == \A s \in Servers \ raced : link[s] # None => Upward(s, link[s])

\* Why ForwardUp holds.  A server has a number from the creation of its znode
\* on, the largest so far.
NumbersGrow ==
    \A s \in Servers :
        /\ pc[s] \in Unnumbered => seqno[s] = 0
        /\ Alive(s) /\ pc[s] \notin Unnumbered => seqno[s] # 0
        /\ seqno[s] <= Cardinality(Numbered)

\* Of the runs on one address the one that is alive is the last.
LastRunListens ==
    \A s, t \in Servers :
        Alive(s) /\ t # s /\ Address[t] = Address[s] =>
            ~Alive(t) /\ (seqno[s] # 0 => seqno[t] < seqno[s])

\* As long as the two do not overlap each finds the pointer of strtok where it
\* left it.
TokenKept ==
    \A s \in Servers \ raced :
        /\ pc[s] = "split" => token[s] = "main" /\ ~reconnecting[s]
        /\ reconnecting[s] => token[s] = "watcher"

\* Only servers with a number watch, and what child_watcher looked up or left
\* in its buffer leads to later joiners.
LookupsLeadUp ==
    \A s \in Servers :
        /\ watch[s] \/ event[s] \/ target[s] # None \/ zoo_data[s] # None \/ link[s] # None
                => Alive(s) /\ seqno[s] # 0
        /\ target[s] # None => seqno[target[s]] > seqno[s]
        /\ zoo_data[s] # None => \A t \in Listening(zoo_data[s]) : Upward(s, t)
        /\ reconnecting[s] =>
                target[s] # None /\ zoo_data[s] # None /\ next_server[s] = zoo_data[s]

ForwardInv == NumbersGrow /\ LastRunListens /\ TokenKept /\ LookupsLeadUp /\ ForwardUp

\* Every server has an address of its own: none is started again on the address
\* of another.
DistinctAddresses == \A s, t \in Servers : Address[s] = Address[t] => s = t

\* What a reader finds at the tail is on every live server before it: a write
\* reaches a server only through the ones in front of it, by forwarding or by
\* the transfer of the table to a server that joins, even when clients and
\* servers go on with a member that lost its session, and when messages mix.
\* Only a server whose two connects overlapped may copy from anybody.
TailReadSafe ==
    raced = {} => \A s \in znodes, t \in Servers :
        Serving(s) /\ Serving(t) /\ seqno[s] < seqno[t] => applied[t] \subseteq applied[s]

\* Why TailReadSafe holds between servers with addresses of their own.  No two
\* znodes have one number.
NumbersDiffer == \A s, t \in Numbered : seqno[s] = seqno[t] => s = t

\* Clients write to servers that were first in the chain.
HeadsFirst == heads \subseteq Numbered /\ \A s \in heads, t \in znodes : seqno[s] <= seqno[t]

\* t joined after s, and nobody between the two is in the chain.
Follows(s, t) ==
    seqno[s] < seqno[t] /\ \A u \in znodes : ~(seqno[s] < seqno[u] /\ seqno[u] < seqno[t])

\* No lookup passes over a server in the chain, neither those of child_watcher,
\* with what they leave in its buffer, nor the one of main.
LookupsSkipNobody ==
    \A s \in Servers :
        /\ target[s] # None => Follows(s, target[s])
        /\ link[s] # None => Follows(s, link[s])
        /\ \A t \in Servers : zoo_data[s] = Address[t] => Follows(s, t)
        /\ pc[s] \in {"connect", "split", "fetch"} => prev[s] \in Numbered /\ Follows(prev[s], s)

\* The writes on their way to a server, and those it has, handles or gets.
Queued(t) == {w \in Writes : \E s \in Servers : \E i \in DOMAIN queue[s][t] : queue[s][t][i] = w}

Held(t) == applied[t] \cup {w \in Writes : task[t][w] # "none"} \cup Queued(t)

\* Nothing reaches a server before it has a number, and it handles nothing
\* before it serves.
NewcomersEmpty ==
    \A t \in Servers :
        /\ seqno[t] = 0 => Held(t) = {}
        /\ Alive(t) /\ ~Serving(t) => applied[t] = {} /\ \A w \in Writes : task[t][w] = "none"

\* What a server forwards or answers it has applied.
ForwardsApplied ==
    \A t \in Servers, w \in Writes : task[t][w] \notin {"none", "apply"} => w \in applied[t]

\* What is held behind a live member of the chain this member has applied.
HeldInFront ==
    \A s \in znodes, t \in Servers :
        Alive(s) /\ seqno[s] < seqno[t] => Held(t) \subseteq applied[s]

SpreadInv ==
    raced = {} =>
        /\ NumbersDiffer /\ HeadsFirst /\ LookupsSkipNobody
        /\ NewcomersEmpty /\ ForwardsApplied /\ HeldInFront

\* Answers on a shared connection reach the threads in any order, yet as many
\* writes are on every server of a stable chain as clients have answers, until
\* two threads come between the calls of each other: then a successor that finds
\* no message closes the connection, and writes it never had are answered.
AcksCovered ==
    mixed \/ \A s \in Servers : Serving(s) => Cardinality(acked) <= Cardinality(applied[s])

\* Why AcksCovered holds in a chain that nobody joins and where nothing fails.
\* Links stay as they are, and nothing wakes child_watcher.
StableChain == MaxFailures = 0 /\ \A s \in Servers : Place(s) # 0

ChainStands ==
    /\ znodes = Servers /\ heads = {s \in Servers : Place(s) = 1} /\ raced = {}
    /\ \A s \in Servers :
        /\ Serving(s) /\ seqno[s] = Place(s) /\ link[s] = InitialNext(s)
        /\ ~event[s] /\ target[s] = None
        /\ link[s] # None => conn[s] = "whole"
        /\ \A w \in Writes :
            /\ task[s][w] = "send" => link[s] # None
            /\ task[s][w] \in {"write", "wait"} => peer[s][w] = link[s]

\* A write comes to a server once, from a client or on the link of its predecessor.
WritesOnce ==
    /\ \A w \in Writes : entry[w] = None => \A s \in Servers : w \notin Held(s)
    /\ \A s \in Servers, w \in Writes :
        /\ entry[w] = s => Place(s) = 1
        /\ task[s][w] = "apply" => w \notin applied[s]
        /\ task[s][w] \in {"apply", "check", "send", "write"} /\ link[s] # None =>
                w \notin Held(link[s])

\* Requests come on that link only, none of them begun, and each once.
RequestsOnce ==
    \A s, t \in Servers :
        /\ queue[s][t] # <<>> \/ current[s][t] # None => link[s] = t
        /\ queue[s][t] \in Seq(Writes)
        /\ \A i \in DOMAIN queue[s][t] :
            /\ queue[s][t][i] \notin applied[t] /\ task[t][queue[s][t][i]] = "none"
            /\ \A j \in DOMAIN queue[s][t] : queue[s][t][i] = queue[s][t][j] => i = j

\* The writes a server has forwarded and got an answer for, and those it answered.
Passed(s) == {w \in applied[s] : task[s][w] \in {"done", "none"}}
Finished(s) == {w \in applied[s] : task[s][w] = "none"}

\* An answer stands for a write that its server finished, whichever it was.
AnswersCounted ==
    /\ IsFiniteSet(acked)
    /\ \A s \in Servers :
        /\ IsFiniteSet(applied[s])
        /\ Place(s) = 1 => Cardinality(acked) <= Cardinality(Finished(s))
        /\ link[s] # None =>
                Cardinality(Passed(s)) + replies[s][link[s]] <= Cardinality(Finished(link[s]))
        /\ \A t \in Servers :
            Place(s) < Place(t) => Cardinality(Passed(s)) <= Cardinality(Finished(t))

AcksInv == mixed \/ (ChainStands /\ WritesOnce /\ RequestsOnce /\ AnswersCounted)

\* No change of the chain is overlooked once child_watcher ran: while its watch
\* is set again and no lookup is under way, a server is connected to the server
\* that follows it and to no other.
SettledLink ==
    \A s \in znodes \ raced :
        watch[s] /\ ran[s] /\ target[s] = None => link[s] = Successor(s)

\* Why SettledLink holds between servers with addresses of their own: a watch
\* is set with a listing and fires at the next change, so while it is set the
\* successor of the last listing is the one of now.
ListingsCurrent ==
    \A s \in Servers :
        /\ pc[s] \in Unnumbered \cup {"list"} =>
                ~watch[s] /\ ~event[s] /\ target[s] = None /\ ~ran[s]
        /\ s \notin raced /\ ~reconnecting[s] =>
                next_server[s] = IF link[s] = None THEN None ELSE Address[link[s]]
        /\ s \in znodes /\ watch[s] /\ ran[s] =>
            /\ target[s] # None => Successor(s) = target[s]
            /\ target[s] = None /\ s \notin raced => Successor(s) = link[s]
            /\ reconnecting[s] => next_server[s] = Address[target[s]]

\* Nothing is under way: no write, no watch to serve, no server joining, no
\* znode of a dead process.
Quiet ==
    /\ \A s \in Servers :
        /\ pc[s] \in Dead \cup {"serving"}
        /\ Serving(s) => s \in znodes /\ watch[s] /\ target[s] = None
        /\ \A w \in Writes : task[s][w] = "none"
        /\ \A t \in Servers : queue[s][t] = <<>>
    /\ \A s \in znodes : Alive(s)

\* Replicas with nothing under way hold the same table, as long as no messages
\* mixed.
QuietReplicasAgree ==
    Quiet /\ ~mixed => \A s, t \in znodes : table[s] = table[t]

\* A serving server ends by itself only after a failure, or where two threads
\* share what they should not: strtok in a server that joins, whose end may then
\* take its predecessor along, or a connection whose messages mix.  Joins and
\* writes alone, however they meet child_watcher and the unlocked reads of
\* rtable_write in invoke, never make it follow a null pointer or give up on its
\* successor.
ExitsHaveCause ==
    [][\A s \in Servers : Serving(s) /\ pc'[s] = "exited" =>
            failures' > 0 \/ raced' # {} \/ mixed']_vars

\* Why it holds: until then every server with a number is alive and in the chain,
\* every process a server connects to has a number, and a link that a thread has
\* tested stays.
ChainUnharmed ==
    failures = 0 /\ raced = {} /\ ~mixed =>
        /\ \A t \in Numbered : Alive(t) /\ t \in znodes
        /\ \A s \in Servers :
            /\ pc[s] \in {"connect", "split", "fetch"} => prev[s] \in Numbered
            /\ reconnecting[s] => \E t \in Numbered : Address[t] = next_server[s]
            /\ link[s] # None => link[s] \in Numbered
            /\ \A w \in Writes : task[s][w] = "send" => link[s] # None
            /\ \A t \in Servers : queue[s][t] \in Seq(Writes)

\* A server where main and child_watcher connect at once ends: the call that
\* finds the pointer at the end of the string of the other follows null.
RacedEnd ==
    <>[](\A s \in raced : ~Alive(s))

\* A server that starts ends up serving, or dead.
JoinCompletes ==
    \A s \in Servers : pc[s] = "started" ~> pc[s] \in Dead \cup {"serving"}

\* Every write a client sends is answered, and applied everywhere, in a chain
\* that does not change, unless messages mix.
WriteSpreads ==
    \A w \in Writes :
        entry[w] # None ~> (mixed \/ (w \in acked /\ \A s \in znodes : w \in applied[s]))

\* When servers stop joining and dying, every server that was told of a change
\* forwards to the server that follows it, for good.
ChainHeals ==
    <>[](\A s \in znodes : Alive(s) /\ (ran[s] => link[s] = Successor(s)))
=============================================================================
