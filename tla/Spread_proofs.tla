---------------------------- MODULE Spread_proofs ----------------------------
(***************************************************************************)
(* More proofs about Chain: that servers end only for a reason, that links *)
(* settle on the successor, that what the tail shows is on every server    *)
(* before it, and that answers stand for writes in a chain that stays as   *)
(* it is and where no messages mix.  The second and third need an address  *)
(* per server; a restart on an old address breaks both.                    *)
(***************************************************************************)
EXTENDS Chain_proofs, SequenceTheorems

-----------------------------------------------------------------------------
\* Before the first failure

\* The one process that listens on the address of a live server is this one.
LEMMA ListenerIsServer ==
    ASSUME LastRunListens, NEW s \in Servers, Alive(s)
    PROVE  Listening(Address[s]) = {s}
  BY DEF LastRunListens, Listening

\* What the histories say has happened has happened for good.
LEMMA HistoriesGrow ==
    ASSUME TypeOK, [Next]_vars
    PROVE  raced \subseteq raced' /\ (mixed => mixed') /\ failures <= failures' /\ failures' \in Nat
<1>1. raced \subseteq raced /\ failures <= failures /\ failures \in Nat /\ failures + 1 \in Nat
      /\ failures <= failures + 1
  BY DEF TypeOK
<1>2. ASSUME NEW s \in Servers, NEW how, Die(s, how)
      PROVE  UNCHANGED <<raced, mixed>>
  BY <1>2 DEF Die
<1>3. ASSUME NEW s \in Servers, Start(s) \/ MainStep(s)
      PROVE  raced \subseteq raced' /\ UNCHANGED <<mixed, failures>>
  BY <1>1, <1>2, <1>3 DEF Start, MainStep, FindRoot, CreateRoot, CreateRootFails, CreateNode,
         ListChildren, SplitPrev, First, ConnectPrev, ConnectPrevFails, Fetch, FetchFails, Exits,
         watching, connecting, traffic
<1>4. ASSUME NEW s \in Servers, WatcherStep(s)
      PROVE  /\ raced \subseteq raced' /\ UNCHANGED mixed
             /\ failures' = failures \/ failures' = failures + 1
  <2>1. CASE WatcherSplits(s)
    BY <1>1, <2>1 DEF WatcherSplits, First, traffic
  <2>2. CASE ~WatcherSplits(s)
    BY <1>1, <1>2, <1>4, <2>2 DEF WatcherStep, WatcherLists, WatcherListFails, WatcherConnects,
         WatcherKeeps, WatcherFails, Exits, connecting, traffic
  <2> QED
    BY <2>1, <2>2
<1>5. ASSUME NEW s \in Servers, NEW w \in Writes, ThreadStep(s, w)
      PROVE  UNCHANGED <<raced, failures>> /\ (mixed => mixed')
  <2>1. CASE SendFails(s, w)
    BY <1>2, <2>1 DEF SendFails, Exits
  <2>2. CASE WriteStaleElsewhere(s, w)
    BY <2>2 DEF WriteStaleElsewhere, watching, connecting
  <2>3. CASE ReadReply(s, w) \/ ForwardFails(s, w) \/ AnswerClient(s, w) \/ \E t \in Servers : AnswerServer(t, s, w)
    BY <2>3 DEF ReadReply, ForwardFails, AnswerClient, AnswerServer, watching, connecting
  <2>4. CASE Apply(s, w) \/ Check(s, w) \/ Send(s, w) \/ Write(s, w) \/ WriteStaleFails(s, w)
    BY <2>4 DEF Apply, Check, Send, Write, WriteStaleFails, watching, connecting
  <2> QED
    BY <1>5, <2>1, <2>2, <2>3, <2>4 DEF ThreadStep
<1>6. ASSUME NEW s \in Servers, NEW t \in Servers, TakeRequest(s, t)
      PROVE  UNCHANGED <<raced, mixed, failures>>
  BY <1>6 DEF TakeRequest, watching, connecting
<1>7. ASSUME NEW s \in Servers, MixedStep(s)
      PROVE  UNCHANGED <<raced, failures>> /\ (mixed => mixed')
  BY <1>2, <1>7 DEF MixedStep, WriteMixes, ReadsMix, ReadTorn, RefuseMixture, AcceptMixture,
         FollowMixture, Exits, watching, connecting
<1>8. ASSUME NEW s \in Servers, Crash(s) \/ Expire(s) \/ LoseSession(s)
      PROVE  UNCHANGED <<raced, mixed>> /\ (failures' = failures \/ failures' = failures + 1)
  BY <1>2, <1>8 DEF Crash, Expire, LoseSession, SessionEnds, connecting, traffic
<1>9. CASE UNCHANGED vars
  BY <1>1, <1>9 DEF vars, watching, connecting, traffic
<1>10. ASSUME NEW w \in Writes, NEW s \in Servers, Submit(w, s)
       PROVE  UNCHANGED <<raced, mixed, failures>>
  BY <1>10 DEF Submit, watching, connecting
<1> QED
  BY <1>1, <1>3, <1>4, <1>5, <1>6, <1>7, <1>8, <1>9, <1>10 DEF Next, ProcessStep

\* Nothing has failed, and no two threads have met where they should not.
Harmless == failures = 0 /\ raced = {} /\ ~mixed

\* In an unharmed chain no server with a number has a reason to end.
LEMMA NoReasonToEnd ==
    ASSUME ChainInv, ChainUnharmed, NEW s \in Numbered, Harmless, failures' = 0
    PROVE  ~ \/ CreateRootFails(s) \/ ConnectPrevFails(s) \/ FetchFails(s)
             \/ WatcherFails(s) \/ WatcherListFails(s)
             \/ \E w \in Writes : SendFails(s, w)
             \/ \E t \in Servers : FollowMixture(t, s)
<1> USE DEF ChainInv, ForwardInv, Harmless
<1>1. /\ s \in Servers /\ seqno[s] # 0 /\ Alive(s) /\ s \in znodes
      /\ \A t \in Numbered : t \in Servers /\ Alive(t) /\ t \in znodes
  BY DEF ChainUnharmed, Numbered
<1>2. ~CreateRootFails(s)
  BY <1>1 DEF CreateRootFails, NumbersGrow, Unnumbered
<1>3. ~ConnectPrevFails(s) /\ ~FetchFails(s)
  <2>1. SUFFICES ASSUME pc[s] \in {"connect", "split", "fetch"}
                 PROVE  /\ prev[s] \in znodes /\ Alive(prev[s])
                        /\ Listening(Address[prev[s]]) # {}
                        /\ pc[s] = "split" => token[s] = "main"
    BY DEF ConnectPrevFails, FetchFails, Misses
  <2>2. prev[s] \in Numbered
    BY <1>1, <2>1 DEF ChainUnharmed
  <2>3. pc[s] = "split" => token[s] = "main"
    BY <1>1 DEF TokenKept
  <2> QED
    BY <1>1, <2>2, <2>3, ListenerIsServer
<1>4. ~WatcherFails(s)
  <2>1. ASSUME target[s] # None
        PROVE  None \notin Found(s)
    <3>1. target[s] \in Numbered
      BY <1>1, <2>1 DEF LookupsLeadUp, Numbered, TypeOK, WatchingOK, ZooKeeperOK
    <3>2. Found(s) = {Address[target[s]]}
      BY <1>1, <3>1 DEF Found
    <3> QED
      BY <1>1, <3>1, <3>2, AddressAssumption
  <2>2. ASSUME reconnecting[s]
        PROVE  token[s] = "watcher" /\ Listening(next_server[s]) # {}
    <3>1. token[s] = "watcher"
      BY <1>1, <2>2 DEF TokenKept
    <3>2. PICK t \in Numbered : Address[t] = next_server[s]
      BY <1>1, <2>2 DEF ChainUnharmed
    <3> QED
      BY <1>1, <3>1, <3>2, ListenerIsServer
  <2> QED
    BY <2>1, <2>2 DEF WatcherFails, Misses
<1>5. ~WatcherListFails(s)
  BY <1>1 DEF WatcherListFails
<1>6. ASSUME NEW w \in Writes PROVE ~SendFails(s, w)
  BY <1>1 DEF SendFails, ChainUnharmed
<1>7. ASSUME NEW t \in Servers PROVE ~FollowMixture(t, s)
  BY <1>1, WritesAssumption DEF FollowMixture, AtMixture, ChainUnharmed
<1> QED
  BY <1>2, <1>3, <1>4, <1>5, <1>6, <1>7

\* Steps that touch no process, number, znode or link.
LEMMA UnharmedKept ==
    ASSUME ChainUnharmed, Harmless,
           UNCHANGED <<pc, prev, seqno, znodes, reconnecting, next_server, link>>,
           \A s \in Servers, w \in Writes : task'[s][w] = "send" => task[s][w] = "send",
           \A s, t \in Servers : queue'[s][t] \in Seq(Writes)
    PROVE  ChainUnharmed'
  BY DEF ChainUnharmed, Numbered, Alive, Harmless

\* A process without a number ends.
LEMMA EndKeepsUnharmed ==
    ASSUME TypeOK, ChainUnharmed, Harmless, NEW s \in Servers, s \notin Numbered,
           Die(s, "exited")
    PROVE  ChainUnharmed'
<1>1. /\ \A t \in Servers : pc'[t] = IF t = s THEN "exited" ELSE pc[t]
      /\ \A t \in Servers : link'[t] = IF t = s THEN None ELSE link[t]
      /\ \A t \in Servers : reconnecting'[t] => reconnecting[t] /\ t # s
      /\ \A t \in Servers : t # s => next_server'[t] = next_server[t]
      /\ \A t \in Servers, w \in Writes : task'[t][w] = IF t = s THEN "none" ELSE task[t][w]
      /\ UNCHANGED <<prev, seqno, znodes>>
  BY DEF Die, zookeeper, TypeOK, JoiningOK, LinkingOK, TrafficOK, WatchingOK
<1>2. Numbered' = Numbered
  BY <1>1 DEF Numbered
<1>3. \A t, u \in Servers : queue'[t][u] \in Seq(Writes)
  <2>1. \A t, u \in Servers : queue'[t][u] = <<>> \/ queue'[t][u] = queue[t][u]
    BY DEF Die, TypeOK, TrafficOK
  <2>2. <<>> \in Seq(Writes)
    OBVIOUS
  <2> QED
    BY <2>1, <2>2 DEF ChainUnharmed, Harmless
<1> QED
  BY <1>1, <1>2, <1>3 DEF ChainUnharmed, Alive, Numbered, Harmless

\* Every step of main keeps the chain unharmed.
LEMMA MainKeepsUnharmed ==
    ASSUME ChainInv, ChainUnharmed, Harmless, Harmless', NEW s \in Servers, Start(s) \/ MainStep(s)
    PROVE  ChainUnharmed'
<1> USE DEF ChainInv
<1>1. failures' = 0
  BY DEF Harmless
<1>2. /\ \A t \in Numbered : Alive(t) /\ t \in znodes
      /\ \A t \in Servers :
            /\ pc[t] \in {"connect", "split", "fetch"} => prev[t] \in Numbered
            /\ reconnecting[t] => \E u \in Numbered : Address[u] = next_server[t]
            /\ link[t] # None => link[t] \in Numbered
            /\ \A w \in Writes : task[t][w] = "send" => link[t] # None
            /\ \A u \in Servers : queue[t][u] \in Seq(Writes)
  BY DEF ChainUnharmed, Harmless
<1>3. CASE CreateRootFails(s) \/ ConnectPrevFails(s) \/ FetchFails(s)
  <2>1. s \notin Numbered
    BY <1>1, <1>3, NoReasonToEnd
  <2>2. Die(s, "exited")
    BY <1>3 DEF CreateRootFails, ConnectPrevFails, FetchFails, Exits
  <2> QED
    BY <2>1, <2>2, EndKeepsUnharmed
<1>4. ASSUME UNCHANGED <<reconnecting, linking, traffic>>,
             \A t \in Servers : t # s => pc'[t] = pc[t] /\ prev'[t] = prev[t],
             pc'[s] \notin Dead,
             pc'[s] \in {"connect", "split", "fetch"} => prev'[s] \in Numbered,
             UNCHANGED <<seqno, znodes>>
      PROVE  ChainUnharmed'
  <2>1. Numbered' = Numbered /\ UNCHANGED <<reconnecting, next_server, link, task, queue>>
    BY <1>4 DEF Numbered, linking, traffic
  <2>2. \A t \in Numbered' : Alive(t)' /\ t \in znodes'
    BY <1>2, <1>4, <2>1 DEF Alive, Numbered
  <2>3. \A t \in Servers : pc'[t] \in {"connect", "split", "fetch"} => prev'[t] \in Numbered'
    BY <1>2, <1>4, <2>1
  <2>4. \A t \in Servers :
            /\ reconnecting'[t] => \E u \in Numbered' : Address[u] = next_server'[t]
            /\ link'[t] # None => link'[t] \in Numbered'
            /\ \A w \in Writes : task'[t][w] = "send" => link'[t] # None
            /\ \A u \in Servers : queue'[t][u] \in Seq(Writes)
    BY <1>2, <2>1
  <2> QED
    BY <2>2, <2>3, <2>4 DEF ChainUnharmed
<1>5. CASE Start(s) \/ FindRoot(s) \/ CreateRoot(s) \/ Fetch(s)
  <2>1. /\ UNCHANGED <<seqno, znodes, reconnecting, linking, traffic>>
        /\ \A t \in Servers : t # s => pc'[t] = pc[t] /\ prev'[t] = prev[t]
        /\ pc'[s] \notin Dead \cup {"connect", "split", "fetch"}
    BY <1>5 DEF Start, FindRoot, CreateRoot, Fetch, Arrives, zookeeper, watching, connecting,
                Dead, TypeOK, JoiningOK
  <2> QED
    BY <1>4, <2>1
<1>6. CASE CreateNode(s)
  <2>1. /\ UNCHANGED <<prev, reconnecting, linking, traffic>>
        /\ znodes' = znodes \cup {s}
        /\ pc[s] = "create_node"
        /\ \A t \in Servers : pc'[t] = IF t = s THEN "list" ELSE pc[t]
        /\ \A t \in Servers : t # s => seqno'[t] = seqno[t]
    BY <1>6 DEF CreateNode, Arrives, connecting, TypeOK, JoiningOK, ZooKeeperOK
  <2>2. Numbered' \subseteq Numbered \cup {s}
    BY <2>1 DEF Numbered
  <2>3. Numbered \subseteq Numbered'
    <3>1. seqno' = [seqno EXCEPT ![s] = 1 + Cardinality(Numbered)]
      BY <1>6 DEF CreateNode
    <3>2. 1 + Cardinality(Numbered) # 0
      BY NumberedFinite
    <3>3. seqno'[s] # 0
      BY <3>1, <3>2 DEF TypeOK, ZooKeeperOK
    <3> QED
      BY <2>1, <3>3 DEF Numbered
  <2>4. \A t \in Numbered' : Alive(t)' /\ t \in znodes'
    BY <1>2, <2>1, <2>2 DEF Alive, Dead, Numbered
  <2>5. /\ \A t \in Servers : pc'[t] \in {"connect", "split", "fetch"} => pc[t] = pc'[t]
        /\ UNCHANGED <<next_server, link, task, queue>>
    BY <2>1 DEF linking, traffic
  <2>6. ASSUME NEW t \in Servers
        PROVE  /\ pc'[t] \in {"connect", "split", "fetch"} => prev'[t] \in Numbered'
               /\ reconnecting'[t] => \E u \in Numbered' : Address[u] = next_server'[t]
               /\ link'[t] # None => link'[t] \in Numbered'
               /\ \A w \in Writes : task'[t][w] = "send" => link'[t] # None
               /\ \A u \in Servers : queue'[t][u] \in Seq(Writes)
    <3>1. pc'[t] \in {"connect", "split", "fetch"} => prev'[t] \in Numbered'
      BY <1>2, <2>1, <2>3, <2>5
    <3>2. reconnecting'[t] => \E u \in Numbered' : Address[u] = next_server'[t]
      BY <1>2, <2>1, <2>3, <2>5
    <3>3. /\ link'[t] # None => link'[t] \in Numbered'
          /\ \A w \in Writes : task'[t][w] = "send" => link'[t] # None
          /\ \A u \in Servers : queue'[t][u] \in Seq(Writes)
      BY <1>2, <2>3, <2>5
    <3> QED
      BY <3>1, <3>2, <3>3
  <2> QED
    BY <2>4, <2>6 DEF ChainUnharmed
<1>7. CASE ListChildren(s)
  <2>1. /\ UNCHANGED <<seqno, znodes, reconnecting, linking, traffic>>
        /\ \A t \in Servers : t # s => pc'[t] = pc[t] /\ prev'[t] = prev[t]
        /\ pc'[s] \notin Dead
        /\ pc'[s] = "connect" => Before(s) # {} /\ prev'[s] = TailOf(Before(s))
        /\ pc'[s] \notin {"split", "fetch"}
    BY <1>7 DEF ListChildren, Arrives, zookeeper, connecting, Dead, TypeOK, JoiningOK
  <2>2. Before(s) # {} => TailOf(Before(s)) \in Before(s)
    <3>1. Before(s) \in SUBSET Servers /\ seqno \in [Servers -> Nat]
      BY DEF Before, TypeOK, ZooKeeperOK, Numbered
    <3>2. \A t \in Before(s) : seqno[t] <= Cardinality(Numbered)
      BY <3>1 DEF ForwardInv, NumbersGrow
    <3> QED
      BY <3>1, <3>2, TailIsLast, NumberedFinite
  <2>3. Before(s) \subseteq Numbered
    BY DEF Before, TypeOK, ZooKeeperOK, Numbered
  <2> QED
    BY <1>4, <2>1, <2>2, <2>3
<1>8. CASE SplitPrev(s)
  <2>1. /\ UNCHANGED <<prev, seqno, znodes, reconnecting, linking, traffic>>
        /\ \A t \in Servers : t # s => pc'[t] = pc[t]
        /\ pc[s] = "connect" /\ pc'[s] = "split"
    BY <1>8 DEF SplitPrev, Arrives, zookeeper, TypeOK, JoiningOK
  <2> QED
    BY <1>2, <1>4, <2>1 DEF Dead
<1>9. CASE ConnectPrev(s)
  <2>1. /\ UNCHANGED <<seqno, znodes, reconnecting, linking, traffic>>
        /\ \A t \in Servers : t # s => pc'[t] = pc[t] /\ prev'[t] = prev[t]
        /\ pc[s] = "split" /\ pc'[s] = "fetch"
        /\ prev'[s] \in Reached(s, "main", Address[prev[s]])
    BY <1>9 DEF ConnectPrev, Arrives, zookeeper, TypeOK, JoiningOK
  <2>2. prev[s] \in Numbered /\ Alive(prev[s]) /\ prev[s] \in Servers
    BY <1>2, <2>1 DEF Numbered
  <2>3. Reached(s, "main", Address[prev[s]]) = Listening(Address[prev[s]])
    <3>1. token[s] = "main"
      BY <2>1 DEF ForwardInv, TokenKept, Harmless
    <3> QED
      BY <3>1, Zenon DEF Reached
  <2>4. prev'[s] = prev[s]
    BY <2>1, <2>2, <2>3, ListenerIsServer DEF ForwardInv
  <2> QED
    BY <1>4, <2>1, <2>2, <2>4 DEF Dead
<1> QED
  BY <1>3, <1>5, <1>6, <1>7, <1>8, <1>9 DEF MainStep

\* So does every step of child_watcher.
LEMMA WatcherKeepsUnharmed ==
    ASSUME ChainInv, ChainUnharmed, Harmless, Harmless', NEW s \in Servers, WatcherStep(s)
    PROVE  ChainUnharmed'
<1> USE DEF ChainInv
<1>1. /\ failures = 0 /\ failures' = 0
      /\ \A t \in Numbered : Alive(t) /\ t \in znodes
      /\ \A t \in Servers :
            /\ pc[t] \in {"connect", "split", "fetch"} => prev[t] \in Numbered
            /\ reconnecting[t] => \E u \in Numbered : Address[u] = next_server[t]
            /\ link[t] # None => link[t] \in Numbered
            /\ \A w \in Writes : task[t][w] = "send" => link[t] # None
            /\ \A u \in Servers : queue[t][u] \in Seq(Writes)
  BY DEF ChainUnharmed, Harmless
<1>2. s \in Numbered /\ s \in znodes /\ Alive(s)
  <2>1. event[s] \/ target[s] # None
    BY DEF WatcherStep, WatcherLists, WatcherListFails, WatcherSplits, WatcherConnects,
           WatcherKeeps, WatcherFails, ForwardInv, LookupsLeadUp
  <2> QED
    BY <1>1, <2>1 DEF ForwardInv, LookupsLeadUp, Numbered
<1>3. WatcherLists(s) \/ WatcherSplits(s) \/ WatcherConnects(s) \/ WatcherKeeps(s)
  BY <1>1, <1>2, NoReasonToEnd DEF WatcherStep
<1>4. UNCHANGED <<pc, prev, seqno, znodes, task, queue>> /\ Numbered' = Numbered
  BY <1>3 DEF WatcherLists, WatcherSplits, WatcherConnects, WatcherKeeps, joining, zookeeper,
              traffic, Numbered
<1>5. SUFFICES \A t \in Servers :
                    /\ link'[t] # None => link'[t] \in Numbered
                    /\ link[t] # None => link'[t] # None
                    /\ reconnecting'[t] => \E u \in Numbered : Address[u] = next_server'[t]
  BY <1>1, <1>4 DEF ChainUnharmed, Alive
<1>6. CASE WatcherLists(s)
  <2>1. Behind(s) = {} => link[s] = None
    BY <1>1, <1>2 DEF Behind, ForwardInv, ForwardUp, Upward, Numbered, Harmless
  <2>2. UNCHANGED reconnecting /\ ~reconnecting[s]
    BY <1>6 DEF WatcherLists, connecting, ForwardInv, LookupsLeadUp
  <2> QED
    BY <1>1, <1>6, <2>1, <2>2 DEF WatcherLists, linking, TypeOK, LinkingOK
<1>7. target[s] # None => target[s] \in Numbered
  BY <1>2 DEF ForwardInv, LookupsLeadUp, Numbered, TypeOK, WatchingOK, ZooKeeperOK
<1>8. CASE WatcherSplits(s)
  <2>1. Found(s) = {Address[target[s]]} /\ target[s] \in Numbered
    BY <1>1, <1>2, <1>7, <1>8 DEF Found, WatcherSplits
  <2>2. PICK a : /\ a \in Found(s) /\ next_server' = [next_server EXCEPT ![s] = a]
    BY <1>8 DEF WatcherSplits
  <2> QED
    BY <1>1, <1>8, <2>1, <2>2 DEF WatcherSplits, TypeOK, LinkingOK, WatchingOK
<1>9. CASE WatcherConnects(s)
  <2>1. PICK u \in Numbered : Address[u] = next_server[s]
    BY <1>1, <1>9 DEF WatcherConnects
  <2>2. Listening(next_server[s]) = {u} /\ u \in Servers
    BY <1>1, <2>1, ListenerIsServer DEF ForwardInv, Numbered
  <2>3. token[s] = "watcher"
    BY <1>9 DEF WatcherConnects, ForwardInv, TokenKept, Harmless
  <2>4. Reached(s, "watcher", next_server[s]) = {u}
    BY <2>2, <2>3, Zenon DEF Reached
  <2>5. link' = [link EXCEPT ![s] = u]
    BY <1>9, <2>4 DEF WatcherConnects
  <2>6. u # None
    BY <2>2, ServersAssumption
  <2>7. \A t \in Servers : reconnecting'[t] => reconnecting[t]
    BY <1>9 DEF WatcherConnects, TypeOK, WatchingOK
  <2>8. UNCHANGED next_server
    BY <1>9 DEF WatcherConnects
  <2> QED
    BY <1>1, <2>1, <2>5, <2>6, <2>7, <2>8 DEF TypeOK, LinkingOK
<1>10. CASE WatcherKeeps(s)
  BY <1>1, <1>10 DEF WatcherKeeps, linking, connecting
<1> QED
  BY <1>3, <1>6, <1>8, <1>9, <1>10

\* A message behind others.
LEMMA DeliveredUnmixed ==
    ASSUME TypeOK, NEW s \in Servers, NEW t \in Servers, NEW w \in Writes, Deliver(s, t, <<w>>),
           \A u, v \in Servers : queue[u][v] \in Seq(Writes)
    PROVE  \A u, v \in Servers : queue'[u][v] \in Seq(Writes)
<1>1. queue[s][t] \o <<w>> \in Seq(Writes)
  OBVIOUS
<1>2. \A u, v \in Servers : queue'[u][v] \in {queue[u][v], queue[s][t] \o <<w>>}
  BY DEF Deliver, TypeOK, TrafficOK
<1> QED
  BY <1>1, <1>2

\* So does every step of a connection thread.
LEMMA ThreadsKeepUnharmed ==
    ASSUME ChainInv, ChainUnharmed, Harmless, Harmless',
           NEW s \in Servers, NEW w \in Writes, ThreadStep(s, w)
    PROVE  ChainUnharmed'
<1> USE DEF ChainInv
<1>1. \A t, u \in Servers : queue[t][u] \in Seq(Writes)
  BY DEF ChainUnharmed, Harmless
<1>2. CASE SendFails(s, w)
  <2>1. s \notin Numbered
    BY <1>2, NoReasonToEnd DEF Harmless
  <2> QED
    BY <1>2, <2>1, EndKeepsUnharmed DEF SendFails, Exits
<1>3. CASE Check(s, w)
  <2>1. /\ UNCHANGED <<pc, prev, seqno, znodes, reconnecting, next_server, link, queue>>
        /\ \A t \in Servers, v \in Writes : task'[t][v] = "send" =>
                task[t][v] = "send" \/ (t = s /\ link[s] # None)
    BY <1>3 DEF Check, Progress, joining, zookeeper, watching, connecting, linking, TypeOK, TrafficOK
  <2> QED
    BY <1>1, <2>1 DEF ChainUnharmed, Alive, Numbered, Harmless
<1>4. CASE ~SendFails(s, w) /\ ~Check(s, w)
  <2>1. UNCHANGED <<pc, prev, seqno, znodes, reconnecting, next_server, link>>
    BY <1>4 DEF ThreadStep, Apply, Send, Write, WriteStaleFails, WriteStaleElsewhere, ReadReply,
                ForwardFails, AnswerClient, AnswerServer, joining, zookeeper, watching, connecting,
                linking
  <2>2. \E n \in Stages : n # "send" /\ task' = [task EXCEPT ![s][w] = n]
    BY <1>4 DEF ThreadStep, Apply, Send, Write, WriteStaleFails, WriteStaleElsewhere,
                ReadReply, ForwardFails, AnswerClient, AnswerServer, Progress, Stages
  <2>3. \A t \in Servers, v \in Writes : task'[t][v] = "send" => task[t][v] = "send"
    BY <2>2 DEF TypeOK, TrafficOK
  <2>4. \A t, u \in Servers : queue'[t][u] \in Seq(Writes)
    <3>1. CASE Write(s, w)
      <4>1. peer[s][w] \in Servers /\ Deliver(s, peer[s][w], <<w>>)
        BY <3>1 DEF Write, Progress, TypeOK, TrafficOK
      <4> QED
        BY <1>1, <4>1, DeliveredUnmixed
    <3>2. CASE WriteStaleElsewhere(s, w)
      <4>1. PICK half \in BOOLEAN :
                /\ Deliver(s, link[s], IF half THEN <<Mixture>> ELSE <<w>>)
                /\ mixed' = (mixed \/ half)
        BY <3>2 DEF WriteStaleElsewhere
      <4>2. ~half
        BY <4>1 DEF Harmless
      <4>3. link[s] \in Servers /\ Deliver(s, link[s], <<w>>)
        BY <3>2, <4>1, <4>2 DEF WriteStaleElsewhere, TypeOK, LinkingOK
      <4> QED
        BY <1>1, <4>3, DeliveredUnmixed
    <3>3. CASE ~Write(s, w) /\ ~WriteStaleElsewhere(s, w)
      <4>1. UNCHANGED queue
        BY <1>4, <3>3 DEF ThreadStep, Apply, Send, WriteStaleFails, ReadReply, ForwardFails,
                          AnswerClient, AnswerServer, traffic
      <4> QED
        BY <1>1, <4>1
    <3> QED
      BY <3>1, <3>2, <3>3
  <2> QED
    BY <2>1, <2>3, <2>4, UnharmedKept
<1> QED
  BY <1>2, <1>3, <1>4

\* Until then no thread finds what mixed messages left.
LEMMA MixedKeepsUnharmed ==
    ASSUME ChainInv, ChainUnharmed, Harmless, Harmless', NEW s \in Servers, MixedStep(s)
    PROVE  ChainUnharmed'
<1> USE DEF ChainInv
<1>1. \A t, u \in Servers : queue[t][u] \in Seq(Writes)
  BY DEF ChainUnharmed, Harmless
<1>2. \A t \in Servers : ~AtMixture(t, s)
  BY <1>1, WritesAssumption DEF AtMixture
<1>3. \A w \in Writes : ~WriteMixes(s, w) /\ ~ReadsMix(s, w)
  BY DEF WriteMixes, ReadsMix, Harmless
<1>4. PICK w \in Writes : ReadTorn(s, w)
  BY <1>2, <1>3 DEF MixedStep, RefuseMixture, AcceptMixture, FollowMixture
<1>5. UNCHANGED <<pc, prev, seqno, znodes, reconnecting, next_server, link, queue>>
  BY <1>4 DEF ReadTorn, joining, zookeeper, watching, connecting, linking
<1>6. \A t \in Servers, v \in Writes : task'[t][v] = "send" => task[t][v] = "send"
  BY <1>4 DEF ReadTorn, Progress, TypeOK, TrafficOK
<1> QED
  BY <1>1, <1>5, <1>6, UnharmedKept

\* Every step keeps the chain unharmed until then.
LEMMA StepPreservesUnharmed ==
    ASSUME ChainInv, ChainUnharmed, [Next]_vars
    PROVE  ChainUnharmed'
<1> USE DEF ChainInv
<1>0. SUFFICES ASSUME Harmless, Harmless'
               PROVE  ChainUnharmed'
  <2>1. ~Harmless' => ChainUnharmed'
    BY DEF ChainUnharmed, Harmless
  <2>2. Harmless' => Harmless
    BY HistoriesGrow DEF Harmless, TypeOK
  <2> QED
    BY <2>1, <2>2
<1>a. \A t, u \in Servers : queue[t][u] \in Seq(Writes)
  BY <1>0 DEF ChainUnharmed, Harmless
<1>1. CASE UNCHANGED vars
  BY <1>0, <1>1, <1>a, UnharmedKept DEF vars, joining, zookeeper, watching, connecting, linking, traffic
<1>2. ASSUME NEW w \in Writes, NEW s \in Servers, Submit(w, s)
      PROVE  ChainUnharmed'
  <2>1. UNCHANGED <<pc, prev, seqno, znodes, reconnecting, next_server, link, queue>>
    BY <1>2 DEF Submit, joining, zookeeper, watching, connecting, linking
  <2>2. \A t \in Servers, v \in Writes : task'[t][v] = "send" => task[t][v] = "send"
    BY <1>2 DEF Submit, Progress, TypeOK, TrafficOK
  <2> QED
    BY <1>0, <1>a, <2>1, <2>2, UnharmedKept
<1>3. ASSUME NEW s \in Servers, NEW t \in Servers, TakeRequest(t, s)
      PROVE  ChainUnharmed'
  <2>1. UNCHANGED <<pc, prev, seqno, znodes, reconnecting, next_server, link>>
    BY <1>3 DEF TakeRequest, joining, zookeeper, watching, connecting, linking
  <2>2. \A u \in Servers, v \in Writes : task'[u][v] = "send" => task[u][v] = "send"
    BY <1>3 DEF TakeRequest, TypeOK, TrafficOK
  <2>3. \A u, v \in Servers : queue'[u][v] \in Seq(Writes)
    <3>1. Tail(queue[t][s]) \in Seq(Writes)
      BY <1>3, <1>a DEF TakeRequest
    <3>2. \A u, v \in Servers : queue'[u][v] \in {queue[u][v], Tail(queue[t][s])}
      BY <1>3 DEF TakeRequest, TypeOK, TrafficOK
    <3> QED
      BY <1>a, <3>1, <3>2
  <2> QED
    BY <1>0, <2>1, <2>2, <2>3, UnharmedKept
<1>4. ASSUME NEW s \in Servers, Crash(s) \/ LoseSession(s)
      PROVE  FALSE
  BY <1>0, <1>4 DEF Crash, LoseSession, TypeOK, Harmless
<1>5. ASSUME NEW s \in Servers, Expire(s)
      PROVE  FALSE
  BY <1>0, <1>5 DEF Expire, SessionEnds, ChainUnharmed, Harmless, TypeOK, ZooKeeperOK
<1> QED
  BY <1>0, <1>1, <1>2, <1>3, <1>4, <1>5, MainKeepsUnharmed, WatcherKeepsUnharmed,
     ThreadsKeepUnharmed, MixedKeepsUnharmed DEF Next, ProcessStep

\* The initial chain is unharmed.
LEMMA InitUnharmed ==
    ASSUME Init
    PROVE  ChainUnharmed
<1>1. /\ \A s \in Servers : pc[s] = IF Place(s) = 0 THEN "off" ELSE "serving"
      /\ \A s \in Servers : seqno[s] = Place(s) /\ link[s] = InitialNext(s) /\ ~reconnecting[s]
      /\ \A s \in Servers : Place(s) # 0 => s \in znodes
      /\ \A s \in Servers, w \in Writes : task[s][w] = "none"
      /\ \A s, t \in Servers : queue[s][t] = <<>>
  BY DEF Init
<1>2. \A s \in Servers : InitialNext(s) # None =>
        InitialNext(s) \in Servers /\ Place(InitialNext(s)) # 0
  BY PlaceProperties, InitialAssumption DEF InitialNext
<1>3. <<>> \in Seq(Writes)
  OBVIOUS
<1>4. \A s \in Servers : link[s] # None => link[s] \in Numbered
  BY <1>1, <1>2 DEF Numbered
<1>5. \A s \in Servers : pc[s] \notin {"connect", "split", "fetch"}
  BY <1>1
<1>6. \A s \in Servers : \A t \in Servers : queue[s][t] \in Seq(Writes)
  BY <1>1, <1>3
<1>7. \A s \in Numbered : Alive(s) /\ s \in znodes
  BY <1>1 DEF Numbered, Alive, Dead
<1> QED
  BY <1>1, <1>4, <1>5, <1>6, <1>7 DEF ChainUnharmed

\* So it is unharmed until then.
LEMMA SafetyImpliesUnharmed ==
    Safety => []ChainUnharmed
<1>1. Init => ChainUnharmed
  BY InitUnharmed
<1>2. ChainInv /\ ChainUnharmed /\ [Next]_vars => ChainUnharmed'
  BY StepPreservesUnharmed
<1> QED
  BY <1>1, <1>2, SafetyImpliesChainInv, PTL DEF Safety

\* The steps in which a serving process ends by itself.
LEMMA ExitSteps ==
    ASSUME TypeOK, [Next]_vars, NEW s \in Servers, Serving(s), pc'[s] = "exited"
    PROVE  \/ CreateRootFails(s) \/ ConnectPrevFails(s) \/ FetchFails(s)
           \/ WatcherFails(s) \/ WatcherListFails(s)
           \/ \E w \in Writes : SendFails(s, w)
           \/ \E t \in Servers : FollowMixture(t, s)
<1>1. pc'[s] # pc[s]
  BY DEF Serving
<1>2. ASSUME NEW t \in Servers, NEW how, t # s \/ how # "exited", Die(t, how)
      PROVE  FALSE
  BY <1>1, <1>2 DEF Die, TypeOK, JoiningOK
<1>3. ASSUME NEW t \in Servers, NEW from, NEW to, Arrives(t, from, to), to # "exited" \/ t # s
      PROVE  FALSE
  BY <1>1, <1>3 DEF Arrives, TypeOK, JoiningOK
<1>4. ~UNCHANGED pc
  BY <1>1
<1>5. ASSUME NEW t \in Servers, Crash(t) \/ Expire(t) \/ LoseSession(t)
      PROVE  FALSE
  BY <1>2, <1>4, <1>5 DEF Crash, Expire, LoseSession, SessionEnds, joining
<1>6. ASSUME NEW t \in Servers, Start(t) \/ MainStep(t)
      PROVE  t = s /\ (CreateRootFails(s) \/ ConnectPrevFails(s) \/ FetchFails(s))
  <2>1. ~Start(t) /\ ~FindRoot(t) /\ ~CreateRoot(t) /\ ~CreateNode(t) /\ ~ListChildren(t)
        /\ ~SplitPrev(t) /\ ~ConnectPrev(t) /\ ~Fetch(t)
    BY <1>3 DEF Start, FindRoot, CreateRoot, CreateNode, ListChildren, SplitPrev, ConnectPrev, Fetch
  <2> QED
    BY <1>2, <1>6, <2>1 DEF MainStep, CreateRootFails, ConnectPrevFails, FetchFails, Exits
<1>7. ASSUME NEW t \in Servers, WatcherStep(t)
      PROVE  t = s /\ (WatcherFails(s) \/ WatcherListFails(s))
  BY <1>2, <1>4, <1>7 DEF WatcherStep, WatcherLists, WatcherListFails, WatcherSplits,
        WatcherConnects, WatcherKeeps, WatcherFails, Exits, joining
<1>8. ASSUME NEW t \in Servers, NEW w \in Writes, ThreadStep(t, w)
      PROVE  t = s /\ SendFails(s, w)
  BY <1>2, <1>4, <1>8 DEF ThreadStep, Apply, Check, Send, SendFails, Write, WriteStaleFails,
        WriteStaleElsewhere, ReadReply, ForwardFails, AnswerClient, AnswerServer, Exits, joining
<1>9. ASSUME NEW t \in Servers, MixedStep(t)
      PROVE  t = s /\ \E u \in Servers : FollowMixture(u, s)
  BY <1>2, <1>4, <1>9 DEF MixedStep, WriteMixes, ReadsMix, ReadTorn, RefuseMixture, AcceptMixture,
        FollowMixture, Exits, joining
<1>10. /\ ~UNCHANGED vars
       /\ \A w \in Writes, t \in Servers : ~Submit(w, t)
       /\ \A t, u \in Servers : ~TakeRequest(t, u)
  BY <1>4 DEF vars, Submit, TakeRequest, joining
<1> QED
  BY <1>5, <1>6, <1>7, <1>8, <1>9, <1>10 DEF Next, ProcessStep

\* A serving server never ends by itself before something failed or two threads
\* met in strtok or in rtable_write, for any servers, addresses shared or not, and
\* any writes: no join or change of the chain alone lets a thread of invoke follow
\* a null pointer, or child_watcher fail to connect.
THEOREM ExitsNeedCause ==
    Safety => ExitsHaveCause
<1>1. ASSUME ChainInv, ChainUnharmed, [Next]_vars, NEW s \in Servers,
             Serving(s), pc'[s] = "exited"
      PROVE  failures' > 0 \/ raced' # {} \/ mixed'
  <2>1. failures' \in Nat /\ (Harmless' => Harmless)
    BY <1>1, HistoriesGrow DEF ChainInv, TypeOK, Harmless
  <2>2. s \in Numbered
    BY <1>1 DEF Serving, ChainInv, ForwardInv, NumbersGrow, Alive, Dead, Unnumbered, Numbered
  <2>3. ~Harmless'
    BY <1>1, <2>1, <2>2, NoReasonToEnd, ExitSteps DEF ChainInv, Harmless
  <2> QED
    BY <2>1, <2>3 DEF Harmless
<1>2. ChainInv /\ ChainUnharmed /\ [Next]_vars =>
        [\A s \in Servers : Serving(s) /\ pc'[s] = "exited" =>
                failures' > 0 \/ raced' # {} \/ mixed']_vars
  BY <1>1
<1> QED
  BY <1>2, SafetyImpliesChainInv, SafetyImpliesUnharmed, PTL DEF Safety, ExitsHaveCause

-----------------------------------------------------------------------------
\* Links settle on the successor

\* Before its listing a server is not told of any change.
Unlisted == Unnumbered \cup {"list"}

\* What most steps leave alone.
LEMMA ListingsKept ==
    ASSUME ListingsCurrent,
           UNCHANGED <<seqno, znodes, watch, event, target, ran, reconnecting, next_server, link>>,
           raced \subseteq raced',
           \A s \in Servers : pc'[s] \in Unlisted => pc[s] \in Unlisted
    PROVE  ListingsCurrent'
<1>1. \A s \in Servers : Successor(s)' = Successor(s)
  BY DEF Successor, Behind, HeadOf
<1> QED
  BY <1>1 DEF ListingsCurrent, Unlisted

\* A process that ends keeps no watch and no link.
LEMMA EndKeepsListings ==
    ASSUME TypeOK, ListingsCurrent, NEW s \in Servers, NEW how \in {"exited", "crashed"}, Die(s, how)
    PROVE  ListingsCurrent'
<1>1. /\ UNCHANGED <<seqno, znodes, ran, raced>>
      /\ \A t \in Servers : t # s => /\ pc'[t] = pc[t] /\ watch'[t] = watch[t]
                                     /\ event'[t] = event[t] /\ target'[t] = target[t]
                                     /\ next_server'[t] = next_server[t] /\ link'[t] = link[t]
                                     /\ reconnecting'[t] = reconnecting[t]
      /\ pc'[s] = how /\ ~watch'[s] /\ next_server'[s] = None /\ link'[s] = None
  BY DEF Die, zookeeper, TypeOK, JoiningOK, WatchingOK, LinkingOK
<1>2. \A t \in Servers : Successor(t)' = Successor(t)
  BY <1>1 DEF Successor, Behind, HeadOf
<1> QED
  BY <1>1, <1>2 DEF ListingsCurrent, Unnumbered

\* A change of the chain uses up every watch.
LEMMA ChangeKeepsListings ==
    ASSUME ListingsCurrent, NEW others, ChildrenChange(others),
           UNCHANGED <<target, ran, raced, reconnecting, next_server, link>>,
           \A s \in Servers : pc'[s] \in Unlisted => pc[s] \in Unlisted
    PROVE  ListingsCurrent'
<1>1. \A s \in Servers : ~watch'[s] /\ (event'[s] => watch[s] \/ event[s])
  BY DEF ChildrenChange
<1> QED
  BY <1>1 DEF ListingsCurrent, Unlisted

\* The steps of main.
LEMMA MainKeepsListings ==
    ASSUME TypeOK, ListingsCurrent, NEW s \in Servers, Start(s) \/ MainStep(s)
    PROVE  ListingsCurrent'
<1>1. CASE CreateRootFails(s) \/ ConnectPrevFails(s) \/ FetchFails(s)
  BY <1>1, EndKeepsListings DEF CreateRootFails, ConnectPrevFails, FetchFails, Exits
<1>2. CASE Start(s) \/ FindRoot(s) \/ CreateRoot(s) \/ SplitPrev(s) \/ ConnectPrev(s) \/ Fetch(s)
  <2>1. UNCHANGED <<seqno, znodes, watch, event, target, ran, reconnecting, next_server, link>>
    BY <1>2 DEF Start, FindRoot, CreateRoot, SplitPrev, ConnectPrev, Fetch, zookeeper, watching,
                connecting, linking
  <2>2. \A t \in Servers : pc'[t] \in Unlisted => pc[t] \in Unlisted
    BY <1>2 DEF Start, FindRoot, CreateRoot, SplitPrev, ConnectPrev, Fetch, Arrives,
                Unlisted, Unnumbered, TypeOK, JoiningOK
  <2>3. raced \subseteq raced'
    BY <1>2 DEF Start, FindRoot, CreateRoot, SplitPrev, First, ConnectPrev, Fetch, watching, connecting
  <2> QED
    BY <2>1, <2>2, <2>3, ListingsKept
<1>3. CASE CreateNode(s)
  <2>1. \A t \in Servers : pc'[t] \in Unlisted => pc[t] \in Unlisted
    BY <1>3 DEF CreateNode, Arrives, Unlisted, Unnumbered, TypeOK, JoiningOK
  <2> QED
    BY <1>3, <2>1, ChangeKeepsListings DEF CreateNode, linking, connecting
<1>4. CASE ListChildren(s)
  <2>1. /\ UNCHANGED <<seqno, znodes, event, target, ran, raced, reconnecting, next_server, link>>
        /\ \A t \in Servers : t # s => pc'[t] = pc[t] /\ watch'[t] = watch[t]
        /\ pc[s] = "list" /\ pc'[s] \notin Unlisted
    BY <1>4 DEF ListChildren, Arrives, zookeeper, linking, connecting, Unlisted, Unnumbered,
                TypeOK, JoiningOK, WatchingOK
  <2>2. \A t \in Servers : Successor(t)' = Successor(t)
    BY <2>1 DEF Successor, Behind, HeadOf
  <2> QED
    BY <2>1, <2>2 DEF ListingsCurrent, Unlisted
<1> QED
  BY <1>1, <1>2, <1>3, <1>4 DEF MainStep

\* The successor of a server is behind it.
LEMMA SuccessorIsBehind ==
    ASSUME TypeOK, NEW s \in Servers
    PROVE  IF Behind(s) = {} THEN Successor(s) = None
           ELSE Successor(s) = HeadOf(Behind(s)) /\ Successor(s) \in znodes /\ Successor(s) \in Servers
<1>1. Behind(s) \in SUBSET Servers /\ seqno \in [Servers -> Nat] /\ Behind(s) \subseteq znodes
  BY DEF Behind, TypeOK, ZooKeeperOK, Numbered
<1> QED
  BY <1>1, HeadIsFirst DEF Successor

\* The steps of child_watcher.
LEMMA WatcherKeepsListings ==
    ASSUME DistinctAddresses, ChainInv, ListingsCurrent, NEW s \in Servers, WatcherStep(s)
    PROVE  ListingsCurrent'
<1> USE DEF ChainInv
<1>1. CASE WatcherFails(s) \/ Die(s, "exited")
  BY <1>1, EndKeepsListings DEF WatcherFails, Exits
<1>2. CASE WatcherListFails(s) /\ ~Die(s, "exited")
  <2>1. /\ UNCHANGED <<pc, seqno, znodes, watch, target, raced, reconnecting, next_server, link>>
        /\ \A t \in Servers : t # s => event'[t] = event[t] /\ ran'[t] = ran[t]
        /\ ~event'[s] /\ ~ran'[s]
    BY <1>2 DEF WatcherListFails, joining, zookeeper, connecting, linking, TypeOK, WatchingOK
  <2>2. \A t \in Servers : Successor(t)' = Successor(t)
    BY <2>1 DEF Successor, Behind, HeadOf
  <2> QED
    BY <2>1, <2>2 DEF ListingsCurrent
<1>3. CASE WatcherLists(s) \/ WatcherSplits(s) \/ WatcherConnects(s) \/ WatcherKeeps(s)
  <2>a. /\ UNCHANGED <<pc, seqno, znodes>> /\ raced \subseteq raced'
        /\ pc[s] \notin Unlisted
    BY <1>3 DEF WatcherLists, WatcherSplits, First, WatcherConnects, WatcherKeeps, joining,
                zookeeper, connecting, ListingsCurrent, Unlisted, ForwardInv, LookupsLeadUp
  <2>1. /\ UNCHANGED <<pc, seqno, znodes>> /\ raced \subseteq raced'
        /\ \A t \in Servers : t # s =>
            /\ watch'[t] = watch[t] /\ event'[t] = event[t] /\ target'[t] = target[t]
            /\ ran'[t] = ran[t] /\ reconnecting'[t] = reconnecting[t]
            /\ next_server'[t] = next_server[t] /\ link'[t] = link[t]
        /\ pc[s] \notin Unlisted
    BY <1>3, <2>a DEF WatcherLists, WatcherSplits, WatcherConnects, WatcherKeeps, connecting,
                linking, TypeOK, WatchingOK, LinkingOK
  <2>2. \A t \in Servers : Successor(t)' = Successor(t)
    BY <2>1 DEF Successor, Behind, HeadOf
  <2>3. SUFFICES
          /\ s \notin raced' /\ ~reconnecting'[s] =>
                next_server'[s] = IF link'[s] = None THEN None ELSE Address[link'[s]]
          /\ s \in znodes /\ watch'[s] /\ ran'[s] =>
                /\ target'[s] # None => Successor(s) = target'[s]
                /\ target'[s] = None /\ s \notin raced' => Successor(s) = link'[s]
                /\ reconnecting'[s] => next_server'[s] = Address[target'[s]]
    BY <2>1, <2>2 DEF ListingsCurrent, Unlisted
  <2>4. CASE WatcherLists(s)
    <3>1. UNCHANGED <<reconnecting, raced>> /\ ~reconnecting[s]
      BY <2>4 DEF WatcherLists, connecting, ForwardInv, LookupsLeadUp
    <3>2. CASE Behind(s) = {}
      <4>1. link'[s] = None /\ next_server'[s] = None /\ target'[s] = None
        BY <2>4, <3>2 DEF WatcherLists, TypeOK, LinkingOK
      <4> QED
        BY <3>1, <3>2, <4>1, SuccessorIsBehind
    <3>3. CASE Behind(s) # {}
      <4>1. /\ target'[s] = HeadOf(Behind(s)) /\ UNCHANGED <<next_server, link>>
        BY <2>4, <3>3 DEF WatcherLists, linking, TypeOK, WatchingOK
      <4> QED
        BY <3>1, <3>3, <4>1, SuccessorIsBehind, ServersAssumption DEF ListingsCurrent
    <3> QED
      BY <3>2, <3>3
  <2>5. s \in znodes /\ watch[s] /\ ran[s] /\ target[s] # None =>
            /\ Successor(s) = target[s] /\ target[s] \in Servers
            /\ Found(s) = {Address[target[s]]}
    BY SuccessorIsBehind DEF ListingsCurrent, Found
  <2>6. CASE WatcherSplits(s)
    <3>1. PICK a : a \in Found(s) /\ next_server' = [next_server EXCEPT ![s] = a]
      BY <2>6 DEF WatcherSplits
    <3>2. /\ target[s] # None /\ UNCHANGED <<target, watch, ran>> /\ reconnecting'[s]
          /\ next_server'[s] = a
      BY <2>6, <3>1 DEF WatcherSplits, TypeOK, LinkingOK, WatchingOK
    <3> QED
      BY <2>5, <3>1, <3>2
  <2>7. CASE WatcherConnects(s)
    <3>1. /\ target[s] # None /\ target'[s] = None /\ ~reconnecting'[s] /\ reconnecting[s]
          /\ UNCHANGED <<watch, ran, raced, next_server>>
      BY <2>7 DEF WatcherConnects, TypeOK, WatchingOK, ForwardInv, LookupsLeadUp
    <3>2. CASE s \in raced
      BY <3>1, <3>2
    <3>3. CASE s \notin raced
      <4>1. token[s] = "watcher"
        BY <3>1, <3>3 DEF ForwardInv, TokenKept
      <4>2. Reached(s, "watcher", next_server[s]) = Listening(next_server[s])
        BY <4>1, Zenon DEF Reached
      <4>3. PICK t \in Listening(next_server[s]) : link' = [link EXCEPT ![s] = t]
        BY <2>7, <4>2 DEF WatcherConnects
      <4>4. t \in Servers /\ t # None /\ Address[t] = next_server[s] /\ link'[s] = t
        BY <4>3, ServersAssumption DEF Listening, TypeOK, LinkingOK
      <4>5. s \in znodes /\ watch[s] /\ ran[s] => next_server[s] = Address[target[s]]
        BY <3>1 DEF ListingsCurrent
      <4>6. s \in znodes /\ watch[s] /\ ran[s] => t = target[s]
        BY <2>5, <3>1, <4>4, <4>5 DEF DistinctAddresses
      <4> QED
        BY <2>5, <3>1, <4>4, <4>6
    <3> QED
      BY <3>2, <3>3
  <2>8. CASE WatcherKeeps(s)
    <3>1. /\ UNCHANGED <<watch, ran, link, next_server, raced, reconnecting>> /\ ~reconnecting[s]
          /\ target[s] # None /\ target'[s] = None
          /\ next_server[s] # None /\ next_server[s] \in Found(s)
      BY <2>8 DEF WatcherKeeps, connecting, linking, TypeOK, WatchingOK
    <3>2. s \notin raced => link[s] \in Servers /\ Address[link[s]] = next_server[s]
      BY <3>1 DEF ListingsCurrent, TypeOK, LinkingOK
    <3>3. s \notin raced /\ s \in znodes /\ watch[s] /\ ran[s] => link[s] = target[s]
      BY <2>5, <3>1, <3>2 DEF DistinctAddresses
    <3> QED
      BY <2>5, <3>1, <3>2, <3>3, ServersAssumption DEF ListingsCurrent
  <2> QED
    BY <1>3, <2>4, <2>6, <2>7, <2>8
<1> QED
  BY <1>1, <1>2, <1>3 DEF WatcherStep

\* Connection threads do not look up anything.
LEMMA ThreadsKeepListings ==
    ASSUME TypeOK, ListingsCurrent, NEW s \in Servers, NEW w \in Writes, ThreadStep(s, w)
    PROVE  ListingsCurrent'
<1>1. CASE SendFails(s, w)
  BY <1>1, EndKeepsListings DEF SendFails, Exits
<1>2. CASE ~SendFails(s, w)
  <2>1. UNCHANGED <<pc, seqno, znodes, watch, event, target, ran, connecting, next_server, link>>
    BY <1>2 DEF ThreadStep, Apply, Check, Send, Write, WriteStaleFails, WriteStaleElsewhere,
                ReadReply, ForwardFails, AnswerClient, AnswerServer,
                joining, zookeeper, watching, linking
  <2> QED
    BY <2>1, ListingsKept DEF connecting
<1> QED
  BY <1>1, <1>2

LEMMA MixedKeepsListings ==
    ASSUME TypeOK, ListingsCurrent, NEW s \in Servers, MixedStep(s)
    PROVE  ListingsCurrent'
<1>1. CASE \E t \in Servers : FollowMixture(t, s)
  BY <1>1, EndKeepsListings DEF FollowMixture, Exits
<1>2. CASE ~ \E t \in Servers : FollowMixture(t, s)
  <2>1. UNCHANGED <<pc, seqno, znodes, watch, event, target, ran, connecting, next_server, link>>
    BY <1>2 DEF MixedStep, WriteMixes, ReadsMix, ReadTorn, RefuseMixture, AcceptMixture,
                joining, zookeeper, watching, linking
  <2> QED
    BY <2>1, ListingsKept DEF connecting
<1> QED
  BY <1>1, <1>2

LEMMA StepPreservesListings ==
    ASSUME DistinctAddresses, ChainInv, ListingsCurrent, [Next]_vars
    PROVE  ListingsCurrent'
<1> USE DEF ChainInv
<1>1. CASE \/ UNCHANGED vars
           \/ \E w \in Writes, s \in Servers : Submit(w, s)
           \/ \E s, t \in Servers : TakeRequest(t, s)
  <2>1. UNCHANGED <<pc, seqno, znodes, watch, event, target, ran, connecting, next_server, link>>
    BY <1>1 DEF vars, Submit, TakeRequest, joining, zookeeper, watching, linking
  <2> QED
    BY <2>1, ListingsKept DEF connecting
<1>2. ASSUME NEW s \in Servers, Crash(s)
      PROVE  ListingsCurrent'
  BY <1>2, EndKeepsListings DEF Crash
<1>3. ASSUME NEW s \in Servers, Expire(s) \/ LoseSession(s)
      PROVE  ListingsCurrent'
  BY <1>3, ChangeKeepsListings DEF Expire, LoseSession, SessionEnds, joining, connecting, linking
<1> QED
  BY <1>1, <1>2, <1>3, MainKeepsListings, WatcherKeepsListings, ThreadsKeepListings,
     MixedKeepsListings DEF Next, ProcessStep

\* The first servers know their successors.
LEMMA InitListings ==
    ASSUME Init
    PROVE  ListingsCurrent
<1>1. TypeOK
  BY InitEstablishesChainInv DEF ChainInv
<1>2. /\ \A s \in Servers : pc[s] = IF Place(s) = 0 THEN "off" ELSE "serving"
      /\ \A s \in Servers : seqno[s] = Place(s) /\ link[s] = InitialNext(s)
      /\ znodes = {s \in Servers : Place(s) # 0}
      /\ \A s \in Servers : watch[s] <=> Place(s) # 0
      /\ \A s \in Servers : ~event[s] /\ target[s] = None /\ ~reconnecting[s]
      /\ \A s \in Servers : ran[s] <=> Place(s) \in 1 .. Len(InitialChain) - 1
      /\ \A s \in Servers :
            next_server[s] = IF InitialNext(s) = None THEN None ELSE Address[InitialNext(s)]
  BY DEF Init
<1>3. \A s \in Servers : ~ran[s] \/ Place(s) # 0
  BY <1>2
<1>4. ASSUME NEW s \in Servers, ran[s]
      PROVE  Successor(s) = link[s]
  <2>1. /\ Place(s) \in 1 .. Len(InitialChain) - 1
        /\ DOMAIN InitialChain = 1 .. Len(InitialChain) /\ Len(InitialChain) \in Nat
    BY <1>2, <1>4, InitialAssumption
  <2> DEFINE t == InitialChain[Place(s) + 1]
  <2>2. t \in Servers /\ Place(t) = Place(s) + 1 /\ link[s] = t
    BY <1>2, <2>1, PlaceProperties DEF InitialNext
  <2>3. t \in Behind(s) /\ Behind(s) \in SUBSET Servers /\ seqno \in [Servers -> Nat]
    BY <1>1, <1>2, <2>1, <2>2 DEF Behind, TypeOK, ZooKeeperOK
  <2> DEFINE h == HeadOf(Behind(s))
  <2> HIDE DEF t
  <2>4. h \in Behind(s) /\ seqno[h] <= seqno[t]
    BY <2>3, HeadIsFirst
  <2> HIDE DEF h
  <2>5. h \in Servers /\ Place(h) > Place(s) /\ Place(h) <= Place(t) /\ Place(h) \in Nat
    BY <1>2, <2>2, <2>3, <2>4, PlaceProperties DEF Behind
  <2>6. Place(h) = Place(t)
    BY <2>1, <2>2, <2>5
  <2>7. h = t
    BY <2>2, <2>5, <2>6, <2>1, PlaceProperties
  <2> QED
    BY <2>2, <2>3, <2>7 DEF Successor, h
<1> QED
  BY <1>2, <1>3, <1>4 DEF ListingsCurrent, Unnumbered

\* For any number of servers with an address each, whatever joins, fails or
\* loses its session: while its watch is set again after a run of child_watcher,
\* a server in the chain is connected to the server that follows it, unless the
\* two threads of it that connect overlapped.
THEOREM LinksSettle ==
    ASSUME DistinctAddresses
    PROVE  Safety => []SettledLink
<1>1. Init => ListingsCurrent
  BY InitListings
<1>2. ChainInv /\ ListingsCurrent /\ [Next]_vars => ListingsCurrent'
  BY StepPreservesListings
<1>3. TypeOK /\ ListingsCurrent => SettledLink
  BY DEF ListingsCurrent, SettledLink, TypeOK, ZooKeeperOK, Numbered
<1> QED
  BY <1>1, <1>2, <1>3, SafetyImpliesChainInv, ChainTypes, PTL DEF Safety

-----------------------------------------------------------------------------
\* The order of the chain

OrderInv == NumbersDiffer /\ HeadsFirst /\ LookupsSkipNobody

\* What follows a server goes on doing so when others leave.
LEMMA FollowsOn ==
    ASSUME UNCHANGED seqno, znodes' \subseteq znodes, NEW s \in Servers, NEW t \in Servers, Follows(s, t)
    PROVE  Follows(s, t)'
  BY DEF Follows

\* What most steps leave alone.
LEMMA OrderKept ==
    ASSUME OrderInv, UNCHANGED <<seqno, znodes, heads, target, link, zoo_data, prev>>,
           \A s \in Servers : pc'[s] \in {"connect", "split", "fetch"} =>
                                   pc[s] \in {"connect", "split", "fetch"}
    PROVE  OrderInv'
  BY DEF OrderInv, NumbersDiffer, HeadsFirst, LookupsSkipNobody, Follows, Numbered

\* A process that ends leaves its number behind.
LEMMA EndKeepsOrder ==
    ASSUME TypeOK, OrderInv, NEW s \in Servers, NEW how \in {"exited", "crashed"}, Die(s, how)
    PROVE  OrderInv'
<1>1. /\ UNCHANGED <<prev, seqno, znodes, heads>>
      /\ \A t \in Servers : t # s => /\ pc'[t] = pc[t] /\ target'[t] = target[t]
                                     /\ zoo_data'[t] = zoo_data[t] /\ link'[t] = link[t]
      /\ pc'[s] = how /\ target'[s] = None /\ zoo_data'[s] = None /\ link'[s] = None
  BY DEF Die, zookeeper, TypeOK, JoiningOK, WatchingOK, LinkingOK
<1>2. \A t, u : Follows(t, u)' <=> Follows(t, u)
  BY <1>1 DEF Follows
<1>3. \A t \in Servers : Address[t] # None
  BY AddressAssumption
<1>4. NumbersDiffer' /\ HeadsFirst'
  BY <1>1 DEF OrderInv, NumbersDiffer, HeadsFirst, Numbered
<1>5. LookupsSkipNobody'
  BY <1>1, <1>2, <1>3 DEF OrderInv, LookupsSkipNobody, Numbered
<1> QED
  BY <1>4, <1>5 DEF OrderInv

\* A server that leaves the chain makes another one first.
LEMMA SessionEndKeepsOrder ==
    ASSUME TypeOK, OrderInv, NEW s \in Servers, SessionEnds(s)
    PROVE  OrderInv'
<1>1. /\ UNCHANGED <<pc, prev, seqno, target, zoo_data, link>>
      /\ znodes' \subseteq znodes
      /\ heads' = heads \cup {t \in znodes' : \A u \in znodes' : seqno'[t] <= seqno'[u]}
  BY DEF SessionEnds, ChildrenChange, joining, linking
<1>2. NumbersDiffer'
  BY <1>1 DEF OrderInv, NumbersDiffer, Numbered
<1>3. HeadsFirst'
  BY <1>1 DEF OrderInv, HeadsFirst, Numbered, TypeOK, ZooKeeperOK
<1>4. \A t, u : Follows(t, u) => Follows(t, u)'
  BY <1>1 DEF Follows
<1>5. LookupsSkipNobody'
  BY <1>1, <1>4 DEF OrderInv, LookupsSkipNobody, Numbered
<1> QED
  BY <1>2, <1>3, <1>5 DEF OrderInv

\* The new znode is behind all others.
LEMMA CreateNodeKeepsOrder ==
    ASSUME ChainInv, OrderInv, NEW s \in Servers, CreateNode(s)
    PROVE  OrderInv'
<1> DEFINE n == 1 + Cardinality(Numbered)
<1>1. /\ n \in Nat /\ n # 0 /\ \A t \in Servers : seqno[t] \in Nat /\ seqno[t] < n
      /\ seqno' = [seqno EXCEPT ![s] = n] /\ seqno \in [Servers -> Nat]
  BY NumberedFinite DEF CreateNode, ChainInv, ForwardInv, NumbersGrow, TypeOK, ZooKeeperOK
<1> HIDE DEF n
<1>2. /\ pc[s] = "create_node" /\ seqno[s] = 0
      /\ \A t \in Servers : pc'[t] = IF t = s THEN "list" ELSE pc[t]
      /\ UNCHANGED <<prev, target, zoo_data, link>>
      /\ znodes' = znodes \cup {s}
      /\ heads' = heads \cup {t \in znodes' : \A u \in znodes' : seqno'[t] <= seqno'[u]}
  BY DEF CreateNode, ChildrenChange, Arrives, linking, ChainInv, ForwardInv, NumbersGrow,
         Unnumbered, TypeOK, JoiningOK
<1>3. Numbered' = Numbered \cup {s} /\ s \notin Numbered /\ Numbered \subseteq Servers
      /\ \A t \in Numbered : seqno'[t] = seqno[t]
  BY <1>1, <1>2 DEF Numbered
<1>4. NumbersDiffer'
  BY <1>1, <1>3 DEF OrderInv, NumbersDiffer
<1>5. HeadsFirst'
  <2>1. znodes \subseteq Numbered
    BY DEF ChainInv, TypeOK, ZooKeeperOK
  <2>2. \A t \in heads, u \in znodes' : seqno'[t] <= seqno'[u]
    BY <1>1, <1>2, <1>3, <2>1 DEF OrderInv, HeadsFirst
  <2> QED
    BY <1>2, <1>3, <2>1, <2>2 DEF OrderInv, HeadsFirst
<1>6. \A t, u \in Servers : Follows(t, u) /\ t # s => Follows(t, u)'
  <2>1. SUFFICES ASSUME NEW t \in Servers, NEW u \in Servers, Follows(t, u), t # s
                 PROVE  Follows(t, u)'
    OBVIOUS
  <2>2. u \in Numbered /\ u # s
    BY <1>1, <1>2, <2>1 DEF Follows, Numbered
  <2>3. seqno'[t] = seqno[t] /\ seqno'[u] = seqno[u] /\ seqno[u] < n
    BY <1>1, <1>3, <2>1, <2>2
  <2>4. \A v \in znodes : v # s /\ seqno'[v] = seqno[v]
    BY <1>3 DEF ChainInv, TypeOK, ZooKeeperOK
  <2> QED
    BY <1>1, <1>2, <2>1, <2>3, <2>4 DEF Follows
<1>7. /\ target[s] = None /\ zoo_data[s] = None /\ link[s] = None
      /\ \A t \in Servers : Address[t] # None
  BY <1>2, AddressAssumption DEF ChainInv, ForwardInv, LookupsLeadUp
<1>8. LookupsSkipNobody'
  <2>1. ASSUME NEW t \in Servers, t # s
        PROVE  /\ target[t] # None => Follows(t, target[t])'
               /\ link[t] # None => Follows(t, link[t])'
               /\ \A u \in Servers : zoo_data[t] = Address[u] => Follows(t, u)'
    BY <1>2, <1>6, <2>1 DEF OrderInv, LookupsSkipNobody, ChainInv, TypeOK, WatchingOK, LinkingOK
  <2>2. ASSUME NEW t \in Servers, t # s, pc[t] \in {"connect", "split", "fetch"}
        PROVE  prev[t] \in Numbered' /\ Follows(prev[t], t)'
    <3>1. Follows(prev[t], t) /\ prev[t] \in Numbered
      BY <2>2 DEF OrderInv, LookupsSkipNobody
    <3>2. prev[t] \in Servers /\ prev[t] # s /\ prev'[t] = prev[t]
      BY <1>2, <1>3, <3>1
    <3> QED
      BY <1>2, <1>3, <1>6, <3>1, <3>2 DEF Follows
  <2> QED
    BY <1>2, <1>7, <2>1, <2>2 DEF LookupsSkipNobody
<1> QED
  BY <1>4, <1>5, <1>8 DEF OrderInv

\* main looks for the server in front of it and finds no other.
LEMMA MainKeepsOrder ==
    ASSUME DistinctAddresses, ChainInv, OrderInv, raced = {},
           NEW s \in Servers, Start(s) \/ MainStep(s)
    PROVE  OrderInv'
<1> USE DEF ChainInv
<1>1. CASE CreateRootFails(s) \/ ConnectPrevFails(s) \/ FetchFails(s)
  BY <1>1, EndKeepsOrder DEF CreateRootFails, ConnectPrevFails, FetchFails, Exits
<1>2. CASE CreateNode(s)
  BY <1>2, CreateNodeKeepsOrder
<1>3. CASE \/ Start(s) \/ FindRoot(s) \/ CreateRoot(s) \/ ListChildren(s) \/ SplitPrev(s)
           \/ ConnectPrev(s) \/ Fetch(s)
  <2>1. UNCHANGED <<seqno, znodes, heads, target, zoo_data, link>>
    BY <1>3 DEF Start, FindRoot, CreateRoot, ListChildren, SplitPrev, ConnectPrev, Fetch, zookeeper,
                watching, linking
  <2>2. \A t \in Servers : t # s => pc'[t] = pc[t] /\ prev'[t] = prev[t]
    BY <1>3 DEF Start, FindRoot, CreateRoot, ListChildren, SplitPrev, ConnectPrev, Fetch, Arrives,
                TypeOK, JoiningOK
  <2>3. (\A t, u : Follows(t, u)' <=> Follows(t, u)) /\ Numbered' = Numbered
    BY <2>1 DEF Follows, Numbered
  <2>4. NumbersDiffer' /\ HeadsFirst'
    BY <2>1, <2>3 DEF OrderInv, NumbersDiffer, HeadsFirst
  <2>5. SUFFICES pc'[s] \in {"connect", "split", "fetch"} => prev'[s] \in Numbered /\ Follows(prev'[s], s)
    BY <2>1, <2>2, <2>3, <2>4 DEF OrderInv, LookupsSkipNobody
  <2>6. CASE Start(s) \/ FindRoot(s) \/ CreateRoot(s) \/ Fetch(s)
    BY <2>6 DEF Start, FindRoot, CreateRoot, Fetch, Arrives, TypeOK, JoiningOK
  <2>7. CASE ListChildren(s)
    <3>1. SUFFICES ASSUME Before(s) # {}
                   PROVE  TailOf(Before(s)) \in Numbered /\ Follows(TailOf(Before(s)), s)
      BY <2>7 DEF ListChildren, Arrives, TypeOK, JoiningOK
    <3>2. Before(s) \in SUBSET Servers /\ seqno \in [Servers -> Nat] /\ Before(s) \subseteq Numbered
      BY DEF Before, TypeOK, ZooKeeperOK, Numbered
    <3>3. \A t \in Before(s) : seqno[t] <= Cardinality(Numbered)
      BY <3>2 DEF ForwardInv, NumbersGrow
    <3> DEFINE p == TailOf(Before(s))
    <3>4. p \in Before(s) /\ \A t \in Before(s) : seqno[p] >= seqno[t]
      BY <3>1, <3>2, <3>3, TailIsLast, NumberedFinite
    <3> HIDE DEF p
    <3>5. \A u \in znodes : seqno[u] < seqno[s] => u \in Before(s)
      BY DEF Before
    <3>6. p \in Numbered /\ Follows(p, s)
      <4>1. p \in Numbered /\ seqno[p] < seqno[s] /\ p \in Servers
        BY <3>2, <3>4 DEF Before
      <4>2. \A u \in znodes : ~(seqno[p] < seqno[u] /\ seqno[u] < seqno[s])
        BY <3>2, <3>4, <3>5, <4>1
      <4> QED
        BY <4>1, <4>2 DEF Follows
    <3> QED
      BY <3>6 DEF p
  <2>9. CASE SplitPrev(s)
    BY <2>9 DEF SplitPrev, Arrives, OrderInv, LookupsSkipNobody, TypeOK, JoiningOK
  <2>8. CASE ConnectPrev(s)
    <3>0. pc[s] = "split" /\ prev'[s] \in Reached(s, "main", Address[prev[s]])
      BY <2>8 DEF ConnectPrev, Arrives, TypeOK, JoiningOK
    <3>1. prev'[s] \in Listening(Address[prev[s]])
      <4>1. token[s] = "main"
        BY <3>0 DEF ForwardInv, TokenKept
      <4> QED
        BY <3>0, <4>1, Zenon DEF Reached
    <3>2. prev[s] \in Numbered /\ Follows(prev[s], s)
      BY <3>0 DEF OrderInv, LookupsSkipNobody
    <3>3. prev'[s] = prev[s]
      BY <3>1, <3>2 DEF Listening, DistinctAddresses, Numbered
    <3> QED
      BY <3>2, <3>3
  <2> QED
    BY <1>3, <2>6, <2>7, <2>8, <2>9
<1> QED
  BY <1>1, <1>2, <1>3 DEF MainStep

\* child_watcher looks for the server behind it; at the address it finds, or
\* that was left in its buffer, there is no other than one that follows.
LEMMA WatcherKeepsOrder ==
    ASSUME DistinctAddresses, ChainInv, OrderInv, raced = {}, NEW s \in Servers, WatcherStep(s)
    PROVE  OrderInv'
<1> USE DEF ChainInv
<1>1. CASE WatcherFails(s) \/ Die(s, "exited")
  BY <1>1, EndKeepsOrder DEF WatcherFails, Exits
<1>2. CASE WatcherListFails(s) /\ ~Die(s, "exited")
  BY <1>2, OrderKept DEF WatcherListFails, joining, zookeeper, linking
<1>3. CASE WatcherLists(s) \/ WatcherSplits(s) \/ WatcherConnects(s) \/ WatcherKeeps(s)
  <2>1. UNCHANGED <<pc, prev, seqno, znodes, heads>>
    BY <1>3 DEF WatcherLists, WatcherSplits, WatcherConnects, WatcherKeeps, joining, zookeeper
  <2>2. \A t \in Servers : t # s => /\ target'[t] = target[t] /\ zoo_data'[t] = zoo_data[t]
                                    /\ link'[t] = link[t]
    BY <1>3 DEF WatcherLists, WatcherSplits, WatcherConnects, WatcherKeeps, linking, TypeOK,
                WatchingOK, LinkingOK
  <2>3. (\A t, u : Follows(t, u)' <=> Follows(t, u)) /\ Numbered' = Numbered
    BY <2>1 DEF Follows, Numbered
  <2>4. NumbersDiffer' /\ HeadsFirst'
    BY <2>1, <2>3 DEF OrderInv, NumbersDiffer, HeadsFirst
  <2>5. SUFFICES /\ target'[s] # None => Follows(s, target'[s])
                 /\ link'[s] # None => Follows(s, link'[s])
                 /\ \A t \in Servers : zoo_data'[s] = Address[t] => Follows(s, t)
    BY <2>1, <2>2, <2>3, <2>4 DEF OrderInv, LookupsSkipNobody
  <2>6. CASE WatcherLists(s)
    <3>1. Behind(s) \in SUBSET Servers /\ seqno \in [Servers -> Nat]
      BY DEF Behind, TypeOK, ZooKeeperOK, Numbered
    <3>2. Behind(s) # {} => Follows(s, HeadOf(Behind(s)))
      <4> DEFINE h == HeadOf(Behind(s))
      <4>1. SUFFICES ASSUME Behind(s) # {} PROVE Follows(s, h)
        OBVIOUS
      <4>2. h \in Behind(s) /\ \A t \in Behind(s) : seqno[h] <= seqno[t]
        BY <3>1, <4>1, HeadIsFirst
      <4> HIDE DEF h
      <4>3. \A u \in znodes : seqno[s] < seqno[u] => u \in Behind(s)
        BY DEF Behind, TypeOK, ZooKeeperOK, Numbered
      <4>4. h \in Servers /\ seqno[s] < seqno[h]
        BY <3>1, <4>2 DEF Behind
      <4> QED
        BY <3>1, <4>2, <4>3, <4>4 DEF Follows
    <3>3. UNCHANGED zoo_data
      BY <2>6 DEF WatcherLists
    <3>4. link'[s] # None => link'[s] = link[s]
      BY <2>6 DEF WatcherLists, linking, TypeOK, LinkingOK
    <3>5. target'[s] # None => Behind(s) # {} /\ target'[s] = HeadOf(Behind(s))
      BY <2>6 DEF WatcherLists, TypeOK, WatchingOK
    <3> QED
      BY <3>2, <3>3, <3>4, <3>5 DEF OrderInv, LookupsSkipNobody
  <2>7. CASE WatcherSplits(s) \/ WatcherKeeps(s)
    <3>1. ASSUME NEW a \in Found(s), NEW t \in Servers, Address[t] = a
          PROVE  Follows(s, t)
      <4>1. a # None /\ target[s] # None
        BY <2>7, <3>1, AddressAssumption DEF WatcherSplits, WatcherKeeps
      <4>2. CASE a = Address[target[s]] /\ target[s] \in znodes
        BY <3>1, <4>1, <4>2 DEF DistinctAddresses, OrderInv, LookupsSkipNobody, TypeOK,
                                ZooKeeperOK, Numbered
      <4>3. CASE a = zoo_data[s]
        BY <3>1, <4>3 DEF OrderInv, LookupsSkipNobody
      <4> QED
        BY <3>1, <4>1, <4>2, <4>3 DEF Found
    <3>2. zoo_data'[s] \in Found(s) /\ (target'[s] # None => target'[s] = target[s])
      BY <2>7 DEF WatcherSplits, WatcherKeeps, TypeOK, WatchingOK
    <3>3. link'[s] = link[s]
      BY <2>7 DEF WatcherSplits, WatcherKeeps, linking
    <3> QED
      BY <3>1, <3>2, <3>3 DEF OrderInv, LookupsSkipNobody
  <2>8. CASE WatcherConnects(s)
    <3>1. token[s] = "watcher" /\ next_server[s] = zoo_data[s]
      BY <2>8 DEF WatcherConnects, ForwardInv, TokenKept, LookupsLeadUp
    <3>2. Reached(s, "watcher", next_server[s]) = Listening(next_server[s])
      BY <3>1, Zenon DEF Reached
    <3>3. link'[s] \in Listening(zoo_data[s])
      BY <2>8, <3>1, <3>2 DEF WatcherConnects, TypeOK, LinkingOK
    <3>4. Follows(s, link'[s])
      BY <3>3 DEF Listening, OrderInv, LookupsSkipNobody
    <3>5. target'[s] = None /\ UNCHANGED zoo_data
      BY <2>8 DEF WatcherConnects, TypeOK, WatchingOK
    <3> QED
      BY <3>4, <3>5 DEF OrderInv, LookupsSkipNobody
  <2> QED
    BY <1>3, <2>6, <2>7, <2>8
<1> QED
  BY <1>1, <1>2, <1>3 DEF WatcherStep

\* Connection threads look up nothing.
LEMMA ThreadsKeepOrder ==
    ASSUME TypeOK, OrderInv, NEW s \in Servers, NEW w \in Writes, ThreadStep(s, w)
    PROVE  OrderInv'
<1>1. CASE SendFails(s, w)
  BY <1>1, EndKeepsOrder DEF SendFails, Exits
<1>2. CASE ~SendFails(s, w)
  <2>1. UNCHANGED <<pc, prev, seqno, znodes, heads, target, zoo_data, link>>
    BY <1>2 DEF ThreadStep, Apply, Check, Send, Write, WriteStaleFails, WriteStaleElsewhere,
                ReadReply, ForwardFails, AnswerClient, AnswerServer,
                joining, zookeeper, watching, linking
  <2> QED
    BY <2>1, OrderKept
<1> QED
  BY <1>1, <1>2

LEMMA MixedKeepsOrder ==
    ASSUME TypeOK, OrderInv, NEW s \in Servers, MixedStep(s)
    PROVE  OrderInv'
<1>1. CASE \E t \in Servers : FollowMixture(t, s)
  BY <1>1, EndKeepsOrder DEF FollowMixture, Exits
<1>2. CASE ~ \E t \in Servers : FollowMixture(t, s)
  <2>1. UNCHANGED <<pc, prev, seqno, znodes, heads, target, zoo_data, link>>
    BY <1>2 DEF MixedStep, WriteMixes, ReadsMix, ReadTorn, RefuseMixture, AcceptMixture,
                joining, zookeeper, watching, linking
  <2> QED
    BY <2>1, OrderKept
<1> QED
  BY <1>1, <1>2

LEMMA StepPreservesOrder ==
    ASSUME DistinctAddresses, ChainInv, OrderInv, raced = {}, [Next]_vars
    PROVE  OrderInv'
<1> USE DEF ChainInv
<1>1. CASE \/ UNCHANGED vars
           \/ \E w \in Writes, s \in Servers : Submit(w, s)
           \/ \E s, t \in Servers : TakeRequest(t, s)
  <2>1. UNCHANGED <<pc, prev, seqno, znodes, heads, target, zoo_data, link>>
    BY <1>1 DEF vars, Submit, TakeRequest, joining, zookeeper, watching, linking
  <2> QED
    BY <2>1, OrderKept
<1>2. ASSUME NEW s \in Servers, Crash(s)
      PROVE  OrderInv'
  BY <1>2, EndKeepsOrder DEF Crash
<1>3. ASSUME NEW s \in Servers, Expire(s) \/ LoseSession(s)
      PROVE  OrderInv'
  BY <1>3, SessionEndKeepsOrder DEF Expire, LoseSession
<1> QED
  BY <1>1, <1>2, <1>3, MainKeepsOrder, WatcherKeepsOrder, ThreadsKeepOrder,
     MixedKeepsOrder DEF Next, ProcessStep

-----------------------------------------------------------------------------
\* Writes come down the chain

SpreadPart == NewcomersEmpty /\ ForwardsApplied /\ HeldInFront

\* What a server held it goes on holding or gives up, unless something is
\* delivered: then at one server and only one write more.
OneMore(v, w) ==
    \A t \in Servers : Queued(t)' \subseteq Queued(t) \cup IF t = v THEN {w} ELSE {}

LEMMA DeliverQueued ==
    ASSUME TypeOK, NEW s \in Servers, NEW v \in Servers, NEW w \in Writes,
           NEW items \in {<<w>>, <<Mixture>>, <<Mixture, w>>}, Deliver(s, v, items)
    PROVE  OneMore(v, w)
<1> DEFINE longer == queue[s][v] \o items
<1>1. queue \in [Servers -> [Servers -> Seq(Writes \cup {Mixture})]]
  BY DEF TypeOK, TrafficOK
<1>2. \A i \in DOMAIN longer :
            \/ longer[i] \in {w, Mixture}
            \/ i \in DOMAIN queue[s][v] /\ longer[i] = queue[s][v][i]
  <2> DEFINE S == Writes \cup {Mixture}
  <2>1. queue[s][v] \in Seq(S)
    BY <1>1
  <2>2. /\ <<w>> \in Seq(S) /\ <<Mixture>> \in Seq(S) /\ <<Mixture, w>> \in Seq(S)
        /\ \A i \in DOMAIN <<w>> : <<w>>[i] = w
        /\ \A i \in DOMAIN <<Mixture>> : <<Mixture>>[i] = Mixture
        /\ \A i \in DOMAIN <<Mixture, w>> : <<Mixture, w>>[i] \in {w, Mixture}
    OBVIOUS
  <2>3. items \in Seq(S) /\ \A i \in DOMAIN items : items[i] \in {w, Mixture}
    BY <2>2
  <2> HIDE DEF S
  <2> QED
    BY <2>1, <2>3
<1>3. queue' = queue \/ queue' = [queue EXCEPT ![s][v] = longer]
  BY DEF Deliver
<1> HIDE DEF longer
<1>4. ASSUME NEW t \in Servers, NEW x \in Queued(t)'
      PROVE  x \in Queued(t) \/ (t = v /\ x = w)
  <2> x \in Writes /\ x # Mixture
    BY <1>4, WritesAssumption DEF Queued
  <2>0. PICK u \in Servers : \E i \in DOMAIN queue'[u][t] : queue'[u][t][i] = x
    BY <1>4 DEF Queued
  <2>1. PICK i \in DOMAIN queue'[u][t] : queue'[u][t][i] = x
    BY <2>0
  <2>2. CASE queue'[u][t] = queue[u][t]
    BY <2>1, <2>2 DEF Queued
  <2>3. CASE u = s /\ t = v /\ queue'[u][t] = longer
    BY <1>2, <2>1, <2>3 DEF Queued
  <2> QED
    BY <1>1, <1>3, <2>2, <2>3
<1> QED
  BY <1>4 DEF OneMore

\* A queue of which something is left has no writes more.
NothingNew(p, m, q) == \A i \in DOMAIN p : p[i] = m \/ \E k \in DOMAIN q : q[k] = p[i]

Leaves(s, v, q) ==
    /\ queue' = [queue EXCEPT ![s] = [queue[s] EXCEPT ![v] = q]]
    /\ NothingNew(q, Mixture, queue[s][v])

NoneMore == \A t \in Servers : Queued(t)' \subseteq Queued(t)

LEMMA LeftQueued ==
    ASSUME TypeOK, NEW s \in Servers, NEW v \in Servers, NEW q, Leaves(s, v, q)
    PROVE  NoneMore
<1>1. queue \in [Servers -> [Servers -> Seq(Writes \cup {Mixture})]]
  BY DEF TypeOK, TrafficOK
<1>2. ASSUME NEW t \in Servers, NEW x \in Queued(t)'
      PROVE  x \in Queued(t)
  <2> x \in Writes /\ x # Mixture
    BY <1>2, WritesAssumption DEF Queued
  <2>0. PICK u \in Servers : \E i \in DOMAIN queue'[u][t] : queue'[u][t][i] = x
    BY <1>2 DEF Queued
  <2>1. PICK i \in DOMAIN queue'[u][t] : queue'[u][t][i] = x
    BY <2>0
  <2>2. CASE queue'[u][t] = queue[u][t]
    BY <2>1, <2>2 DEF Queued
  <2>3. CASE u = s /\ t = v /\ queue'[u][t] = q
    BY <2>1, <2>3 DEF Queued, Leaves, NothingNew
  <2> QED
    BY <1>1, <2>2, <2>3 DEF Leaves
<1> QED
  BY <1>2 DEF NoneMore

LEMMA TakenQueued ==
    ASSUME TypeOK, NEW s \in Servers, NEW v \in Servers, TakeRequest(s, v)
    PROVE  /\ Head(queue[s][v]) \in Queued(v)
           /\ \A t \in Servers : Queued(t)' \subseteq Queued(t)
<1> DEFINE q == queue[s][v]
<1>1. /\ q \in Seq(Writes \cup {Mixture}) /\ q # <<>> /\ Head(q) # Mixture
      /\ queue' = [queue EXCEPT ![s][v] = Tail(q)]
  BY DEF TypeOK, TrafficOK, TakeRequest
<1>2. 1 \in DOMAIN q /\ q[1] = Head(q) /\ Head(q) \in Writes
  BY <1>1
<1>3. \A i \in DOMAIN Tail(q) : i + 1 \in DOMAIN q /\ Tail(q)[i] = q[i + 1]
  BY <1>1
<1>4. Head(q) \in Queued(v)
  BY <1>2 DEF Queued
<1>5. \A i \in DOMAIN Tail(q) :
        Tail(q)[i] = Mixture \/ \E k \in DOMAIN queue[s][v] : queue[s][v][k] = Tail(q)[i]
  BY <1>3
<1>6. Leaves(s, v, Tail(queue[s][v]))
  BY <1>1, <1>5 DEF Leaves, NothingNew
<1>7. NoneMore
  BY <1>6, LeftQueued
<1> QED
  BY <1>4, <1>7 DEF NoneMore

\* What stands behind a message that began with the mixture.
LEMMA BehindMixture ==
    ASSUME NEW S, NEW m \in S, NEW q \in Seq(S), NEW i \in DOMAIN q
    PROVE  NothingNew(<<m>> \o SubSeq(q, i + 1, Len(q)), m, q)
<1> DEFINE r == SubSeq(q, i + 1, Len(q))
<1>1. /\ r \in Seq(S) /\ DOMAIN r = 1 .. Len(q) - i
      /\ \A k \in DOMAIN r : i + k \in DOMAIN q /\ r[k] = q[i + k]
  OBVIOUS
<1> HIDE DEF r
<1>2. \A k \in DOMAIN (<<m>> \o r) :
            \/ (<<m>> \o r)[k] = m
            \/ k - 1 \in DOMAIN r /\ (<<m>> \o r)[k] = r[k - 1]
  BY <1>1
<1>3. \A k \in DOMAIN (<<m>> \o r) :
            (<<m>> \o r)[k] = m \/ \E n \in DOMAIN q : q[n] = (<<m>> \o r)[k]
  BY <1>1, <1>2
<1> QED
  BY <1>3 DEF r, NothingNew

LEMMA AcceptedQueued ==
    ASSUME TypeOK, NEW s \in Servers, NEW v \in Servers, NEW i \in 2 .. Len(queue[s][v]),
           queue' = [queue EXCEPT ![s][v] = <<Mixture>> \o SubSeq(@, i + 1, Len(@))],
           queue[s][v][i] # Mixture
    PROVE  /\ queue[s][v][i] \in Queued(v)
           /\ \A t \in Servers : Queued(t)' \subseteq Queued(t)
<1> DEFINE p == <<Mixture>> \o SubSeq(queue[s][v], i + 1, Len(queue[s][v]))
           S == Writes \cup {Mixture}
<1>1. /\ queue[s][v] \in Seq(S) /\ Mixture \in S
      /\ queue' = [queue EXCEPT ![s] = [queue[s] EXCEPT ![v] = p]]
  BY DEF TypeOK, TrafficOK
<1>2. i \in DOMAIN queue[s][v] /\ queue[s][v][i] \in Writes
  BY <1>1
<1>3. queue[s][v][i] \in Queued(v)
  BY <1>2 DEF Queued
<1> HIDE DEF S
<1>4. NothingNew(p, Mixture, queue[s][v])
  BY <1>1, <1>2, BehindMixture
<1> HIDE DEF p
<1>5. Leaves(s, v, p)
  BY <1>1, <1>4 DEF Leaves
<1>6. NoneMore
  BY <1>5, LeftQueued
<1> QED
  BY <1>3, <1>6 DEF NoneMore

\* A write that comes to a server has been applied by all before it.
ComesDown(t, x) ==
    seqno[t] # 0 /\ \A s \in znodes : Alive(s) /\ seqno[s] < seqno[t] => x \in applied[s]

\* What a step has to show.
LEMMA SpreadStep ==
    ASSUME SpreadPart, UNCHANGED seqno, znodes' \subseteq znodes, znodes \subseteq Numbered,
           \A t \in Servers : applied[t] \subseteq applied'[t],
           \A t \in Servers : Alive(t)' => Alive(t) \/ seqno[t] = 0,
           \A t \in Servers : \A x \in Held(t)' : x \in Held(t) \/ ComesDown(t, x),
           \A t \in Servers : Alive(t)' /\ ~Serving(t)' =>
                applied'[t] = {} /\ \A w \in Writes : task'[t][w] = "none",
           ForwardsApplied'
    PROVE  SpreadPart'
<1>1. NewcomersEmpty'
  <2>1. ASSUME NEW t \in Servers, seqno[t] = 0
        PROVE  Held(t)' = {}
    BY <2>1 DEF SpreadPart, NewcomersEmpty, ComesDown
  <2> QED
    BY <2>1 DEF NewcomersEmpty
<1>2. HeldInFront'
  <2>1. SUFFICES ASSUME NEW s \in znodes', NEW t \in Servers, Alive(s)', seqno[s] < seqno[t],
                        NEW x \in Held(t)'
                 PROVE  x \in applied'[s]
    BY DEF HeldInFront
  <2>2. s \in znodes /\ s \in Servers /\ Alive(s)
    BY <2>1 DEF Numbered
  <2>3. x \in applied[s]
    BY <2>1, <2>2 DEF SpreadPart, HeldInFront, ComesDown
  <2> QED
    BY <2>2, <2>3
<1> QED
  BY <1>1, <1>2 DEF SpreadPart

\* A step that only moves writes on, or loses some.
LEMMA SpreadKept ==
    ASSUME TypeOK, SpreadPart, UNCHANGED <<seqno, applied>>, znodes' \subseteq znodes,
           \A t \in Servers : Alive(t)' => Alive(t) \/ seqno[t] = 0,
           \A t \in Servers : Serving(t) /\ Alive(t)' => Serving(t)',
           \A t \in Servers : Queued(t)' \subseteq Queued(t),
           \A t \in Servers, w \in Writes : task'[t][w] # "none" =>
                w \in Held(t) /\ (task[t][w] # "none" \/ Serving(t)'),
           \A t \in Servers, w \in Writes : task'[t][w] \notin {"none", "apply"} => w \in applied[t]
    PROVE  SpreadPart'
<1>1. \A t \in Servers : \A x \in Held(t)' : x \in Held(t)
  BY DEF Held
<1>2. \A t \in Servers : seqno[t] = 0 => applied[t] = {} /\ \A w \in Writes : task[t][w] = "none"
  BY DEF SpreadPart, NewcomersEmpty, Held
<1>3. ASSUME NEW t \in Servers, Alive(t)', ~Serving(t)'
      PROVE  applied'[t] = {} /\ \A w \in Writes : task'[t][w] = "none"
  BY <1>2, <1>3 DEF SpreadPart, NewcomersEmpty
<1>4. ForwardsApplied'
  BY DEF ForwardsApplied
<1>5. znodes \subseteq Numbered
  BY DEF TypeOK, ZooKeeperOK
<1> QED
  BY <1>1, <1>3, <1>4, <1>5, SpreadStep

\* A process that ends loses what it has not read.
LEMMA EndKeepsSpread ==
    ASSUME TypeOK, SpreadPart, NEW s \in Servers, NEW how \in {"exited", "crashed"}, Die(s, how)
    PROVE  SpreadPart'
<1>1. /\ UNCHANGED <<seqno, znodes, applied>>
      /\ \A t \in Servers : pc'[t] = IF t = s THEN how ELSE pc[t]
      /\ \A t \in Servers, w \in Writes : task'[t][w] = IF t = s THEN "none" ELSE task[t][w]
      /\ \A t, u \in Servers : queue'[t][u] = IF u = s THEN <<>> ELSE queue[t][u]
  BY DEF Die, zookeeper, content, TypeOK, JoiningOK, TrafficOK
<1>2. \A t \in Servers : Queued(t)' \subseteq Queued(t)
  BY <1>1 DEF Queued
<1>3. \A t \in Servers, w \in Writes : task'[t][w] # "none" => w \in Held(t)
  BY <1>1 DEF Held
<1>4. \A t \in Servers, w \in Writes : task'[t][w] \notin {"none", "apply"} => w \in applied[t]
  BY <1>1 DEF SpreadPart, ForwardsApplied
<1> QED
  BY <1>1, <1>2, <1>3, <1>4, SpreadKept DEF Alive, Serving, Dead

\* Most steps move no write.
LEMMA QuietKeepsSpread ==
    ASSUME TypeOK, SpreadPart, UNCHANGED <<seqno, applied, queue, task>>, znodes' \subseteq znodes,
           \A t \in Servers : Alive(t)' => Alive(t) \/ seqno[t] = 0,
           \A t \in Servers : Serving(t) /\ Alive(t)' => Serving(t)'
    PROVE  SpreadPart'
<1>1. \A t \in Servers : Queued(t)' \subseteq Queued(t)
  BY DEF Queued
<1>2. \A t \in Servers, w \in Writes : task'[t][w] # "none" => w \in Held(t)
  BY DEF Held
<1>3. \A t \in Servers, w \in Writes : task'[t][w] \notin {"none", "apply"} => w \in applied[t]
  BY DEF SpreadPart, ForwardsApplied
<1> QED
  BY <1>1, <1>2, <1>3, SpreadKept

\* A joining server takes over what its predecessor has applied, and all before
\* it have.
LEMMA FetchKeepsSpread ==
    ASSUME ChainInv, OrderInv, SpreadPart, NEW s \in Servers, Fetch(s)
    PROVE  SpreadPart'
<1> USE DEF ChainInv
<1> DEFINE p == prev[s]
<1>1. /\ UNCHANGED <<seqno, znodes, task, queue>>
      /\ pc[s] = "fetch"
      /\ \A t \in Servers : pc'[t] = IF t = s THEN "serving" ELSE pc[t]
      /\ \A t \in Servers : applied'[t] = IF t = s THEN applied[p] ELSE applied[t]
      /\ Serving(p)
  BY DEF Fetch, Arrives, zookeeper, traffic, TypeOK, JoiningOK, ContentOK
<1>2. p \in Servers /\ p \in Numbered /\ Follows(p, s)
  BY <1>1 DEF OrderInv, LookupsSkipNobody, Numbered
<1> HIDE DEF p
<1>3. applied[s] = {} /\ \A w \in Writes : task[s][w] = "none"
  BY <1>1 DEF SpreadPart, NewcomersEmpty, Alive, Serving, Dead
<1>4. \A t \in Servers : Queued(t)' = Queued(t)
  BY <1>1 DEF Queued
<1>5. ASSUME NEW x \in applied[p]
      PROVE  ComesDown(s, x)
  <2>1. seqno[p] \in Nat /\ seqno[s] \in Nat /\ seqno[p] < seqno[s]
    BY <1>2 DEF Follows, TypeOK, ZooKeeperOK
  <2>2. ASSUME NEW u \in znodes, Alive(u), seqno[u] < seqno[s]
        PROVE  x \in applied[u]
    <3>1. u \in Numbered /\ u \in Servers /\ seqno[u] \in Nat
      BY DEF TypeOK, ZooKeeperOK, Numbered
    <3>2. ~(seqno[p] < seqno[u])
      BY <1>2, <2>2 DEF Follows
    <3>3. CASE seqno[u] = seqno[p]
      BY <1>2, <3>1, <3>3 DEF OrderInv, NumbersDiffer
    <3>4. CASE seqno[u] < seqno[p]
      <4>1. Held(p) \subseteq applied[u]
        BY <1>2, <2>2, <3>4 DEF SpreadPart, HeldInFront
      <4> QED
        BY <4>1 DEF Held
    <3> QED
      BY <2>1, <3>1, <3>2, <3>3, <3>4
  <2> QED
    BY <2>1, <2>2 DEF ComesDown
<1>6. \A t \in Servers : \A x \in Held(t)' : x \in Held(t) \/ ComesDown(t, x)
  BY <1>1, <1>4, <1>5 DEF Held
<1>7. ForwardsApplied'
  BY <1>1, <1>3 DEF SpreadPart, ForwardsApplied
<1>8. \A t \in Servers : Alive(t)' /\ ~Serving(t)' =>
                applied'[t] = {} /\ \A w \in Writes : task'[t][w] = "none"
  BY <1>1 DEF SpreadPart, NewcomersEmpty, Alive, Serving
<1>9. /\ \A t \in Servers : applied[t] \subseteq applied'[t]
      /\ \A t \in Servers : Alive(t)' => Alive(t) \/ seqno[t] = 0
      /\ znodes' \subseteq znodes /\ znodes \subseteq Numbered
  BY <1>1, <1>3 DEF Alive, Dead, TypeOK, ZooKeeperOK
<1> QED
  BY <1>1, <1>6, <1>7, <1>8, <1>9, SpreadStep

\* A new znode is behind all that hold writes.
LEMMA CreateNodeKeepsSpread ==
    ASSUME ChainInv, SpreadPart, NEW s \in Servers, CreateNode(s)
    PROVE  SpreadPart'
<1> DEFINE n == 1 + Cardinality(Numbered)
<1>1. /\ n \in Nat /\ n # 0 /\ \A t \in Servers : seqno[t] \in Nat /\ seqno[t] < n
      /\ seqno' = [seqno EXCEPT ![s] = n] /\ seqno \in [Servers -> Nat]
  BY NumberedFinite DEF CreateNode, ChainInv, ForwardInv, NumbersGrow, TypeOK, ZooKeeperOK
<1> HIDE DEF n
<1>2. /\ pc[s] = "create_node" /\ seqno[s] = 0
      /\ \A t \in Servers : pc'[t] = IF t = s THEN "list" ELSE pc[t]
      /\ UNCHANGED <<applied, task, queue>>
      /\ znodes' = znodes \cup {s}
      /\ znodes \subseteq Servers
  BY DEF CreateNode, Arrives, content, traffic, ChainInv, ForwardInv, NumbersGrow,
         Unnumbered, TypeOK, JoiningOK, ZooKeeperOK, Numbered
<1>3. \A t \in Servers : Held(t)' = Held(t)
  BY <1>2 DEF Held, Queued
<1>4. Held(s) = {}
  BY <1>2 DEF SpreadPart, NewcomersEmpty
<1>5. \A t \in Servers : (Alive(t)' <=> Alive(t)) /\ (Serving(t)' <=> Serving(t))
  BY <1>2 DEF Alive, Serving, Dead
<1>6. NewcomersEmpty'
  BY <1>1, <1>2, <1>3, <1>5 DEF SpreadPart, NewcomersEmpty
<1>7. ForwardsApplied'
  BY <1>2 DEF SpreadPart, ForwardsApplied
<1>8. HeldInFront'
  <2>1. SUFFICES ASSUME NEW u \in znodes', NEW t \in Servers, Alive(u)', seqno'[u] < seqno'[t]
                 PROVE  Held(t) \subseteq applied[u]
    BY <1>2, <1>3 DEF HeldInFront
  <2>2. CASE t = s
    BY <1>4, <2>2
  <2>3. CASE t # s
    <3>1. u # s /\ u \in znodes /\ seqno[u] < seqno[t]
      BY <1>1, <1>2, <2>1, <2>3
    <3> QED
      BY <1>2, <1>5, <2>1, <3>1 DEF SpreadPart, HeldInFront
  <2> QED
    BY <2>2, <2>3
<1> QED
  BY <1>6, <1>7, <1>8 DEF SpreadPart

LEMMA MainKeepsSpread ==
    ASSUME ChainInv, OrderInv, SpreadPart, NEW s \in Servers, Start(s) \/ MainStep(s)
    PROVE  SpreadPart'
<1> USE DEF ChainInv
<1>1. CASE CreateRootFails(s) \/ ConnectPrevFails(s) \/ FetchFails(s)
  BY <1>1, EndKeepsSpread DEF CreateRootFails, ConnectPrevFails, FetchFails, Exits
<1>2. CASE CreateNode(s)
  BY <1>2, CreateNodeKeepsSpread
<1>3. CASE Fetch(s)
  BY <1>3, FetchKeepsSpread
<1>4. CASE Start(s) \/ FindRoot(s) \/ CreateRoot(s) \/ ListChildren(s) \/ SplitPrev(s) \/ ConnectPrev(s)
  <2>1. /\ UNCHANGED <<seqno, znodes, applied, queue, task>>
        /\ \A t \in Servers : t # s => pc'[t] = pc[t]
        /\ pc[s] # "serving" /\ (pc[s] \in Dead => seqno[s] = 0)
    BY <1>4 DEF Start, FindRoot, CreateRoot, ListChildren, SplitPrev, ConnectPrev, Arrives,
                zookeeper, content, traffic, TypeOK, JoiningOK, Dead, ForwardInv, NumbersGrow, Unnumbered
  <2> QED
    BY <2>1, QuietKeepsSpread DEF Alive, Serving
<1> QED
  BY <1>1, <1>2, <1>3, <1>4 DEF MainStep

LEMMA WatcherKeepsSpread ==
    ASSUME TypeOK, SpreadPart, NEW s \in Servers, WatcherStep(s)
    PROVE  SpreadPart'
<1>1. CASE WatcherFails(s) \/ Die(s, "exited")
  BY <1>1, EndKeepsSpread DEF WatcherFails, Exits
<1>2. CASE ~WatcherFails(s) /\ ~Die(s, "exited")
  <2>1. UNCHANGED <<pc, seqno, znodes, applied, queue, task>>
    BY <1>2 DEF WatcherStep, WatcherLists, WatcherListFails, WatcherSplits, WatcherConnects,
                WatcherKeeps, joining, zookeeper, content, traffic
  <2> QED
    BY <2>1, QuietKeepsSpread DEF Alive, Serving
<1> QED
  BY <1>1, <1>2

\* A write enters at a server with nobody in the chain before it.
LEMMA SubmitKeepsSpread ==
    ASSUME ChainInv, OrderInv, SpreadPart, NEW s \in Servers, NEW w \in Writes, Submit(w, s)
    PROVE  SpreadPart'
<1> USE DEF ChainInv
<1>1. /\ UNCHANGED <<pc, seqno, znodes, applied, queue>>
      /\ task' = [task EXCEPT ![s][w] = "apply"]
      /\ s \in heads /\ Serving(s)
  BY DEF Submit, Progress, joining, zookeeper, content
<1>2. ComesDown(s, w)
  <2>1. seqno[s] # 0 /\ \A u \in znodes : u \in Servers /\ seqno[s] <= seqno[u]
    BY <1>1 DEF OrderInv, HeadsFirst, Numbered, TypeOK, ZooKeeperOK
  <2> QED
    BY <2>1 DEF ComesDown, TypeOK, ZooKeeperOK
<1>3. \A t \in Servers : Queued(t)' = Queued(t)
  BY <1>1 DEF Queued
<1>4. \A t \in Servers, v \in Writes : task'[t][v] = IF t = s /\ v = w THEN "apply" ELSE task[t][v]
  BY <1>1 DEF TypeOK, TrafficOK
<1>5. \A t \in Servers : \A x \in Held(t)' : x \in Held(t) \/ ComesDown(t, x)
  BY <1>1, <1>2, <1>3, <1>4 DEF Held
<1>6. ForwardsApplied'
  BY <1>1, <1>4 DEF SpreadPart, ForwardsApplied
<1>7. \A t \in Servers : Alive(t)' /\ ~Serving(t)' =>
                applied'[t] = {} /\ \A v \in Writes : task'[t][v] = "none"
  BY <1>1, <1>4 DEF SpreadPart, NewcomersEmpty, Alive, Serving
<1>8. /\ \A t \in Servers : applied[t] \subseteq applied'[t]
      /\ \A t \in Servers : Alive(t)' => Alive(t) \/ seqno[t] = 0
      /\ znodes' \subseteq znodes /\ znodes \subseteq Numbered
  BY <1>1 DEF Alive, TypeOK, ZooKeeperOK
<1> QED
  BY <1>1, <1>5, <1>6, <1>7, <1>8, SpreadStep

\* A server applies what it already held.
LEMMA ApplyKeepsSpread ==
    ASSUME TypeOK, SpreadPart, NEW s \in Servers, NEW w \in Writes, Apply(s, w)
    PROVE  SpreadPart'
<1>1. /\ UNCHANGED <<pc, seqno, znodes, queue>>
      /\ task[s][w] = "apply"
      /\ \A t \in Servers, v \in Writes : task'[t][v] = IF t = s /\ v = w THEN "check" ELSE task[t][v]
      /\ \A t \in Servers : applied'[t] = IF t = s THEN applied[s] \cup {w} ELSE applied[t]
  BY DEF Apply, Progress, joining, zookeeper, TypeOK, TrafficOK, ContentOK
<1>2. \A t \in Servers : Queued(t)' = Queued(t)
  BY <1>1 DEF Queued
<1>3. \A t \in Servers : \A x \in Held(t)' : x \in Held(t)
  BY <1>1, <1>2 DEF Held
<1>4. ForwardsApplied'
  BY <1>1 DEF SpreadPart, ForwardsApplied
<1>5. \A t \in Servers : Alive(t)' /\ ~Serving(t)' =>
                applied'[t] = {} /\ \A v \in Writes : task'[t][v] = "none"
  BY <1>1 DEF SpreadPart, NewcomersEmpty, Alive, Serving
<1>6. /\ \A t \in Servers : applied[t] \subseteq applied'[t]
      /\ \A t \in Servers : Alive(t)' => Alive(t) \/ seqno[t] = 0
      /\ znodes' \subseteq znodes /\ znodes \subseteq Numbered
  BY <1>1 DEF Alive, TypeOK, ZooKeeperOK
<1> QED
  BY <1>1, <1>3, <1>4, <1>5, <1>6, SpreadStep

\* A forwarded write passes nobody in the chain who has not applied it.
LEMMA WriteKeepsSpread ==
    ASSUME ChainInv, OrderInv, SpreadPart, NEW s \in Servers, NEW w \in Writes,
           Write(s, w) \/ WriteMixes(s, w) \/ WriteStaleElsewhere(s, w)
    PROVE  SpreadPart'
<1> USE DEF ChainInv
<1>0. link[s] # None /\ link[s] \in Servers
  BY DEF Write, WriteMixes, WriteStaleElsewhere, Progress, TypeOK, TrafficOK, LinkingOK
<1> PICK v \in Servers : v = link[s]
  BY <1>0
<1>1. /\ UNCHANGED <<pc, seqno, znodes, applied>>
      /\ task[s][w] = "write" /\ task' = [task EXCEPT ![s][w] = "wait"]
      /\ \E items \in {<<w>>, <<Mixture>>, <<Mixture, w>>} : Deliver(s, v, items)
  BY DEF Write, WriteMixes, WriteStaleElsewhere, Progress, joining, zookeeper, content
<1>2. Follows(s, v) /\ w \in applied[s]
  BY <1>0, <1>1 DEF OrderInv, LookupsSkipNobody, SpreadPart, ForwardsApplied
<1>3. seqno[s] # 0
  BY <1>0 DEF ForwardInv, LookupsLeadUp
<1>4. ComesDown(v, w)
  <2>1. seqno[s] \in Nat /\ seqno[v] \in Nat /\ seqno[s] < seqno[v] /\ seqno[v] # 0
    BY <1>1, <1>2, <1>3 DEF Follows, TypeOK, ZooKeeperOK
  <2>2. ASSUME NEW u \in znodes, Alive(u), seqno[u] < seqno[v]
        PROVE  w \in applied[u]
    <3>1. u \in Numbered /\ u \in Servers /\ seqno[u] \in Nat
      BY DEF TypeOK, ZooKeeperOK, Numbered
    <3>2. ~(seqno[s] < seqno[u])
      BY <1>2, <2>2 DEF Follows
    <3>3. CASE seqno[u] = seqno[s]
      BY <1>2, <1>3, <3>1, <3>3 DEF OrderInv, NumbersDiffer, Numbered
    <3>4. CASE seqno[u] < seqno[s]
      <4>1. Held(s) \subseteq applied[u]
        BY <2>2, <3>4 DEF SpreadPart, HeldInFront
      <4> QED
        BY <1>2, <4>1 DEF Held
    <3> QED
      BY <2>1, <3>1, <3>2, <3>3, <3>4
  <2> QED
    BY <2>1, <2>2 DEF ComesDown
<1>5. \A t \in Servers : Queued(t)' \subseteq Queued(t) \cup IF t = v THEN {w} ELSE {}
  <2>1. PICK items \in {<<w>>, <<Mixture>>, <<Mixture, w>>} : Deliver(s, v, items)
    BY <1>1
  <2>2. OneMore(v, w)
    BY <2>1, DeliverQueued
  <2> QED
    BY <2>2 DEF OneMore
<1>6. \A t \in Servers, x \in Writes : task'[t][x] = IF t = s /\ x = w THEN "wait" ELSE task[t][x]
  BY <1>1 DEF TypeOK, TrafficOK
<1>7. \A t \in Servers : \A x \in Held(t)' : x \in Held(t) \/ ComesDown(t, x)
  BY <1>1, <1>4, <1>5, <1>6 DEF Held
<1>8. ForwardsApplied'
  BY <1>1, <1>6 DEF SpreadPart, ForwardsApplied
<1>9. \A t \in Servers : Alive(t)' /\ ~Serving(t)' =>
                applied'[t] = {} /\ \A x \in Writes : task'[t][x] = "none"
  BY <1>1, <1>6 DEF SpreadPart, NewcomersEmpty, Alive, Serving
<1>10. /\ \A t \in Servers : applied[t] \subseteq applied'[t]
       /\ \A t \in Servers : Alive(t)' => Alive(t) \/ seqno[t] = 0
       /\ znodes' \subseteq znodes /\ znodes \subseteq Numbered
  BY <1>1 DEF Alive, TypeOK, ZooKeeperOK
<1> QED
  BY <1>1, <1>7, <1>8, <1>9, <1>10, SpreadStep

\* A request that is read was on its way.
LEMMA TakeKeepsSpread ==
    ASSUME TypeOK, SpreadPart, NEW s \in Servers, NEW v \in Servers, TakeRequest(s, v)
    PROVE  SpreadPart'
<1> DEFINE w == Head(queue[s][v])
<1>1. /\ UNCHANGED <<pc, seqno, znodes, applied>>
      /\ Serving(v)
      /\ task' = [task EXCEPT ![v][w] = "apply"]
  BY DEF TakeRequest, joining, zookeeper, content
<1>2. w \in Queued(v) /\ \A t \in Servers : Queued(t)' \subseteq Queued(t)
  BY TakenQueued
<1> HIDE DEF w
<1>3. \A t \in Servers, x \in Writes : task'[t][x] = IF t = v /\ x = w THEN "apply" ELSE task[t][x]
  BY <1>1, <1>2 DEF Queued, TypeOK, TrafficOK
<1>4. \A t \in Servers, x \in Writes : task'[t][x] # "none" =>
                x \in Held(t) /\ (task[t][x] # "none" \/ Serving(t)')
  BY <1>1, <1>2, <1>3 DEF Held, Serving
<1>5. \A t \in Servers, x \in Writes : task'[t][x] \notin {"none", "apply"} => x \in applied[t]
  BY <1>3 DEF SpreadPart, ForwardsApplied
<1> QED
  BY <1>1, <1>2, <1>4, <1>5, SpreadKept DEF Alive, Serving

\* So was one that is found in a mixture.
LEMMA AcceptKeepsSpread ==
    ASSUME TypeOK, SpreadPart, NEW s \in Servers, NEW v \in Servers, AcceptMixture(s, v)
    PROVE  SpreadPart'
<1>1. PICK i \in 2 .. Len(queue[s][v]) :
        /\ queue[s][v][i] # Mixture
        /\ task' = [task EXCEPT ![v][queue[s][v][i]] = "apply"]
        /\ queue' = [queue EXCEPT ![s][v] = <<Mixture>> \o SubSeq(@, i + 1, Len(@))]
  BY DEF AcceptMixture
<1> DEFINE w == queue[s][v][i]
<1>2. UNCHANGED <<pc, seqno, znodes, applied>> /\ Serving(v)
  BY DEF AcceptMixture, AtMixture, joining, zookeeper, content
<1>3. w \in Queued(v) /\ \A t \in Servers : Queued(t)' \subseteq Queued(t)
  BY <1>1, AcceptedQueued
<1>4. task' = [task EXCEPT ![v][w] = "apply"]
  BY <1>1
<1> HIDE DEF w
<1>5. \A t \in Servers, x \in Writes : task'[t][x] = IF t = v /\ x = w THEN "apply" ELSE task[t][x]
  BY <1>3, <1>4 DEF Queued, TypeOK, TrafficOK
<1>6. \A t \in Servers, x \in Writes : task'[t][x] # "none" =>
                x \in Held(t) /\ (task[t][x] # "none" \/ Serving(t)')
  BY <1>2, <1>3, <1>5 DEF Held, Serving
<1>7. \A t \in Servers, x \in Writes : task'[t][x] \notin {"none", "apply"} => x \in applied[t]
  BY <1>5 DEF SpreadPart, ForwardsApplied
<1> QED
  BY <1>2, <1>3, <1>6, <1>7, SpreadKept DEF Alive, Serving

LEMMA ThreadsKeepSpread ==
    ASSUME ChainInv, OrderInv, SpreadPart, NEW s \in Servers, NEW w \in Writes, ThreadStep(s, w)
    PROVE  SpreadPart'
<1> USE DEF ChainInv
<1>1. CASE SendFails(s, w)
  BY <1>1, EndKeepsSpread DEF SendFails, Exits
<1>2. CASE Apply(s, w)
  BY <1>2, ApplyKeepsSpread
<1>3. CASE Write(s, w) \/ WriteStaleElsewhere(s, w)
  BY <1>3, WriteKeepsSpread
<1>4. CASE \/ Check(s, w) \/ Send(s, w) \/ WriteStaleFails(s, w) \/ ReadReply(s, w)
           \/ ForwardFails(s, w) \/ AnswerClient(s, w) \/ \E t \in Servers : AnswerServer(t, s, w)
  <2>1. UNCHANGED <<pc, seqno, znodes, applied, queue>>
    BY <1>4 DEF Check, Send, WriteStaleFails, ReadReply, ForwardFails, AnswerClient, AnswerServer,
                joining, zookeeper, content
  <2>2. PICK n : task' = [task EXCEPT ![s][w] = n] /\ task[s][w] \notin {"none", "apply"}
    BY <1>4 DEF Check, Send, WriteStaleFails, ReadReply, ForwardFails, AnswerClient, AnswerServer,
                Progress
  <2>3. /\ \A t \in Servers, x \in Writes :
                task'[t][x] = IF t = s /\ x = w THEN n ELSE task[t][x]
        /\ task[s][w] \notin {"none", "apply"}
    BY <2>2 DEF TypeOK, TrafficOK
  <2>4. \A t \in Servers, x \in Writes : task'[t][x] # "none" => x \in Held(t) /\ task[t][x] # "none"
    BY <2>3 DEF Held
  <2>5. \A t \in Servers, x \in Writes : task'[t][x] \notin {"none", "apply"} => x \in applied[t]
    BY <2>3 DEF SpreadPart, ForwardsApplied
  <2>6. \A t \in Servers : Queued(t)' \subseteq Queued(t)
    BY <2>1 DEF Queued
  <2> QED
    BY <2>1, <2>4, <2>5, <2>6, SpreadKept DEF Alive, Serving
<1> QED
  BY <1>1, <1>2, <1>3, <1>4 DEF ThreadStep

LEMMA MixedKeepsSpread ==
    ASSUME ChainInv, OrderInv, SpreadPart, NEW s \in Servers, MixedStep(s)
    PROVE  SpreadPart'
<1> USE DEF ChainInv
<1>1. ASSUME NEW w \in Writes, WriteMixes(s, w)
      PROVE  SpreadPart'
  BY <1>1, WriteKeepsSpread
<1>2. ASSUME NEW w \in Writes, ReadsMix(s, w)
      PROVE  SpreadPart'
  BY <1>2, QuietKeepsSpread DEF ReadsMix, joining, zookeeper, content, Alive, Serving
<1>3. ASSUME NEW w \in Writes, ReadTorn(s, w)
      PROVE  SpreadPart'
  <2>1. /\ UNCHANGED <<pc, seqno, znodes, applied, queue>>
        /\ task[s][w] = "wait" /\ task' = [task EXCEPT ![s][w] = "done"]
    BY <1>3 DEF ReadTorn, Progress, joining, zookeeper, content
  <2>2. \A t \in Servers, x \in Writes :
                task'[t][x] = IF t = s /\ x = w THEN "done" ELSE task[t][x]
    BY <2>1 DEF TypeOK, TrafficOK
  <2>3. \A t \in Servers, x \in Writes : task'[t][x] # "none" => x \in Held(t) /\ task[t][x] # "none"
    BY <2>1, <2>2 DEF Held
  <2>4. \A t \in Servers, x \in Writes : task'[t][x] \notin {"none", "apply"} => x \in applied[t]
    BY <2>1, <2>2 DEF SpreadPart, ForwardsApplied
  <2>5. \A t \in Servers : Queued(t)' \subseteq Queued(t)
    BY <2>1 DEF Queued
  <2> QED
    BY <2>1, <2>3, <2>4, <2>5, SpreadKept DEF Alive, Serving
<1>4. ASSUME NEW t \in Servers, RefuseMixture(t, s)
      PROVE  SpreadPart'
  <2>1. /\ UNCHANGED <<pc, seqno, znodes, applied, task>>
        /\ queue' = [queue EXCEPT ![t][s] = <<>>]
    BY <1>4 DEF RefuseMixture, joining, zookeeper, content
  <2>2. \A u \in Servers : Queued(u)' \subseteq Queued(u)
    <3>1. queue' = [queue EXCEPT ![t] = [queue[t] EXCEPT ![s] = <<>>]]
      BY <2>1
    <3>2. DOMAIN <<>> = {}
      OBVIOUS
    <3>3. Leaves(t, s, <<>>)
      BY <3>1, <3>2 DEF Leaves, NothingNew
    <3>4. NoneMore
      BY <3>3, LeftQueued
    <3> QED
      BY <3>4 DEF NoneMore
  <2>3. \A u \in Servers, x \in Writes : task'[u][x] # "none" => x \in Held(u) /\ task[u][x] # "none"
    BY <2>1 DEF Held
  <2>4. \A u \in Servers, x \in Writes : task'[u][x] \notin {"none", "apply"} => x \in applied[u]
    BY <2>1 DEF SpreadPart, ForwardsApplied
  <2> QED
    BY <2>1, <2>2, <2>3, <2>4, SpreadKept DEF Alive, Serving
<1>5. ASSUME NEW t \in Servers, AcceptMixture(t, s)
      PROVE  SpreadPart'
  BY <1>5, AcceptKeepsSpread
<1>6. ASSUME NEW t \in Servers, FollowMixture(t, s)
      PROVE  SpreadPart'
  BY <1>6, EndKeepsSpread DEF FollowMixture, Exits
<1> QED
  BY <1>1, <1>2, <1>3, <1>4, <1>5, <1>6 DEF MixedStep

LEMMA StepPreservesSpread ==
    ASSUME ChainInv, OrderInv, SpreadPart, [Next]_vars
    PROVE  SpreadPart'
<1> USE DEF ChainInv
<1>1. CASE UNCHANGED vars
  BY <1>1, QuietKeepsSpread DEF vars, joining, zookeeper, content, traffic, Alive, Serving
<1>2. ASSUME NEW s \in Servers, Crash(s)
      PROVE  SpreadPart'
  BY <1>2, EndKeepsSpread DEF Crash
<1>3. ASSUME NEW s \in Servers, Expire(s) \/ LoseSession(s)
      PROVE  SpreadPart'
  BY <1>3, QuietKeepsSpread DEF Expire, LoseSession, SessionEnds, joining, content, traffic,
                                Alive, Serving
<1> QED
  BY <1>1, <1>2, <1>3, SubmitKeepsSpread, TakeKeepsSpread, MainKeepsSpread, WatcherKeepsSpread,
     ThreadsKeepSpread, MixedKeepsSpread DEF Next, ProcessStep

\* At first nothing is written.
LEMMA InitSpread ==
    ASSUME DistinctAddresses, Init
    PROVE  SpreadInv
<1>1. TypeOK
  BY InitEstablishesChainInv DEF ChainInv
<1>2. /\ \A s \in Servers : pc[s] = IF Place(s) = 0 THEN "off" ELSE "serving"
      /\ \A s \in Servers : seqno[s] = Place(s) /\ Place(s) \in Nat
      /\ znodes = {s \in Servers : Place(s) # 0} /\ znodes = Numbered
      /\ heads = {s \in Servers : Place(s) = 1}
      /\ \A s \in Servers : target[s] = None /\ link[s] = InitialNext(s)
      /\ \A s \in Servers :
            zoo_data[s] = IF InitialNext(s) = None THEN None ELSE Address[InitialNext(s)]
      /\ \A s \in Servers : applied[s] = {}
      /\ \A s \in Servers, w \in Writes : task[s][w] = "none"
      /\ \A s, t \in Servers : queue[s][t] = <<>>
  BY PlaceProperties DEF Init, Numbered
<1>3. NumbersDiffer
  BY <1>2, PlaceProperties DEF NumbersDiffer, Numbered
<1>4. HeadsFirst
  BY <1>2, PlaceProperties DEF HeadsFirst, Numbered
<1>5. ASSUME NEW s \in Servers, InitialNext(s) # None
      PROVE  InitialNext(s) \in Servers /\ Follows(s, InitialNext(s))
  <2>1. /\ InitialNext(s) \in Servers /\ Place(s) # 0
        /\ Place(InitialNext(s)) = Place(s) + 1
    BY <1>5, PlaceProperties, InitialAssumption DEF InitialNext
  <2>2. \A u \in znodes : u \in Servers /\ seqno[u] \in Nat
    BY <1>2
  <2> QED
    BY <1>2, <2>1, <2>2 DEF Follows
<1>6. LookupsSkipNobody
  <2>1. ASSUME NEW s \in Servers, NEW t \in Servers, zoo_data[s] = Address[t]
        PROVE  Follows(s, t)
    <3>1. Address[t] # None
      BY AddressAssumption
    <3> QED
      BY <1>2, <1>5, <2>1, <3>1 DEF DistinctAddresses
  <2> QED
    BY <1>2, <1>5, <2>1 DEF LookupsSkipNobody
<1>7. \A t \in Servers : Held(t) = {}
  BY <1>2 DEF Held, Queued
<1>8. NewcomersEmpty /\ ForwardsApplied /\ HeldInFront
  BY <1>2, <1>7 DEF NewcomersEmpty, ForwardsApplied, HeldInFront
<1> QED
  BY <1>3, <1>4, <1>6, <1>8 DEF SpreadInv

\* For any number of servers with an address each, through joins, crashes, lost
\* sessions, failed lookups and mixed messages, lookups pass over nobody in the
\* chain and writes come down to a server only from the ones before it, until the
\* two threads of a server that connect overlap.
THEOREM WritesSpreadInOrder ==
    ASSUME DistinctAddresses
    PROVE  Safety => []SpreadInv
<1>1. Init => SpreadInv
  BY InitSpread
<1>2. ChainInv /\ SpreadInv /\ [Next]_vars => SpreadInv'
  <2>1. ASSUME ChainInv, [Next]_vars
        PROVE  raced' = {} => raced = {}
    BY <2>1, HistoriesGrow DEF ChainInv
  <2> QED
    BY <2>1, StepPreservesOrder, StepPreservesSpread DEF SpreadInv, OrderInv, SpreadPart
<1> QED
  BY <1>1, <1>2, SafetyImpliesChainInv, PTL DEF Safety

\* So what a reader finds at the tail every live server of the chain before it
\* has applied, although answers are read in any order, messages mix, failures of
\* the successor are ignored, and clients and servers go on with members that lost
\* their session.
THEOREM TailReadsSafe ==
    ASSUME DistinctAddresses
    PROVE  Safety => []TailReadSafe
<1>1. ASSUME SpreadInv, raced = {}, NEW s \in znodes, NEW t \in Servers, Serving(s), seqno[s] < seqno[t]
      PROVE  applied[t] \subseteq applied[s]
  BY <1>1 DEF SpreadInv, HeldInFront, Held, Alive, Serving, Dead
<1>2. SpreadInv => TailReadSafe
  BY <1>1 DEF TailReadSafe
<1> QED
  BY <1>2, WritesSpreadInOrder, PTL

-----------------------------------------------------------------------------
\* Answers in a chain that stays as it is

\* What links the servers of a stable chain.
Linked ==
    \A s, t \in Servers :
        /\ Place(s) \in Nat /\ Place(s) # 0
        /\ Place(s) = Place(t) => s = t
        /\ link[s] = t => Place(t) = Place(s) + 1
        /\ link[s] = None => ~(Place(s) < Place(t))

LEMMA StableAddresses ==
    StableChain => DistinctAddresses
  BY PlaceProperties, InitialAssumption DEF StableChain, DistinctAddresses

LEMMA StandsLinked ==
    ASSUME StableChain, ChainStands
    PROVE  Linked
<1>1. \A s \in Servers : link[s] = InitialNext(s) /\ Place(s) # 0
  BY DEF StableChain, ChainStands
<1>2. ASSUME NEW s \in Servers, NEW t \in Servers
      PROVE  /\ Place(s) \in Nat
             /\ Place(s) = Place(t) => s = t
  BY <1>1, PlaceProperties
<1>3. DOMAIN InitialChain = 1 .. Len(InitialChain) /\ Len(InitialChain) \in Nat
  BY InitialAssumption
<1>4. ASSUME NEW s \in Servers, NEW t \in Servers, link[s] = t
      PROVE  Place(t) = Place(s) + 1
  <2>1. t # None
    BY ServersAssumption
  <2>2. Place(s) \in 1 .. Len(InitialChain) - 1 /\ t = InitialChain[Place(s) + 1]
    BY <1>1, <1>4, <2>1 DEF InitialNext
  <2>3. Place(s) + 1 \in DOMAIN InitialChain
    BY <1>3, <2>2
  <2> QED
    BY <2>2, <2>3, PlaceProperties
<1>5. ASSUME NEW s \in Servers, NEW t \in Servers, link[s] = None
      PROVE  ~(Place(s) < Place(t))
  <2>1. SUFFICES ASSUME Place(s) < Place(t) PROVE FALSE
    OBVIOUS
  <2>2. Place(s) \in 1 .. Len(InitialChain) /\ Place(t) \in 1 .. Len(InitialChain)
    BY <1>1, <1>3, PlaceProperties
  <2>3. Place(s) \in 1 .. Len(InitialChain) - 1 /\ Place(s) + 1 \in DOMAIN InitialChain
    BY <1>3, <2>1, <2>2
  <2>4. InitialNext(s) \in Servers
    BY <2>3, PlaceProperties DEF InitialNext
  <2> QED
    BY <1>1, <1>5, <2>4, ServersAssumption
<1> QED
  BY <1>1, <1>2, <1>4, <1>5 DEF Linked

\* The steps of a stable chain in which no messages mix: those of clients and of
\* connection threads, with no failure among them.
StableStep ==
    \E s \in Servers, w \in Writes :
        \/ Submit(w, s) \/ Apply(s, w) \/ Check(s, w) \/ Send(s, w) \/ Write(s, w)
        \/ ReadReply(s, w) \/ AnswerClient(s, w)
        \/ \E t \in Servers : AnswerServer(t, s, w)
        \/ \E t \in Servers : TakeRequest(t, s)

LEMMA StableSteps ==
    ASSUME StableChain, ChainInv, ChainStands, RequestsOnce, Next, ~mixed'
    PROVE  StableStep
<1> USE DEF ChainInv
<1>0. \A s \in Servers : ~reconnecting[s]
  BY DEF ChainStands, ForwardInv, LookupsLeadUp, TypeOK, WatchingOK
<1>1. \A s \in Servers : pc[s] = "serving" /\ Alive(s) /\ ~event[s] /\ target[s] = None
  BY DEF ChainStands, Serving, Alive, Dead
<1>2. \A s \in Servers : ~Start(s) /\ ~MainStep(s)
  BY <1>1 DEF Start, MainStep, FindRoot, CreateRoot, CreateRootFails, CreateNode, ListChildren,
              SplitPrev, ConnectPrev, ConnectPrevFails, Fetch, FetchFails, Arrives
<1>3. \A s \in Servers : ~WatcherStep(s)
  BY <1>0, <1>1 DEF WatcherStep, WatcherLists, WatcherListFails, WatcherSplits, WatcherConnects,
                    WatcherKeeps, WatcherFails
<1>4. \A s \in Servers : ~Crash(s) /\ ~Expire(s) /\ ~LoseSession(s)
  BY <1>1 DEF Crash, Expire, LoseSession, StableChain, TypeOK
<1>5. ASSUME NEW s \in Servers, NEW w \in Writes
      PROVE  /\ ~SendFails(s, w) /\ ~WriteStaleFails(s, w) /\ ~WriteStaleElsewhere(s, w)
             /\ ~ForwardFails(s, w)
  <2>1. task[s][w] = "send" => link[s] # None
    BY DEF ChainStands
  <2>2. task[s][w] \in {"write", "wait"} =>
            peer[s][w] = link[s] /\ peer[s][w] \in Servers /\ conn[s] = "whole"
    BY DEF ChainStands, TypeOK, TrafficOK
  <2> QED
    BY <1>1, <2>1, <2>2 DEF SendFails, WriteStaleFails, WriteStaleElsewhere, ForwardFails, Progress
<1>8. ASSUME NEW s \in Servers, NEW w \in Writes
      PROVE  ~WriteMixes(s, w) /\ ~ReadsMix(s, w) /\ ~ReadTorn(s, w)
  <2>1. task[s][w] = "wait" => peer[s][w] = link[s] /\ peer[s][w] # None /\ conn[s] = "whole"
    BY DEF ChainStands, TypeOK, TrafficOK
  <2> QED
    BY <2>1 DEF WriteMixes, ReadsMix, ReadTorn, Progress
<1>9. ASSUME NEW s \in Servers, NEW t \in Servers
      PROVE  ~AtMixture(t, s)
  <2>1. queue[t][s] \in Seq(Writes)
    BY DEF RequestsOnce
  <2>2. queue[t][s] # <<>> => Head(queue[t][s]) \in Writes
    BY <2>1
  <2> QED
    BY <2>2, WritesAssumption DEF AtMixture
<1>10. \A s \in Servers : ~MixedStep(s)
  BY <1>8, <1>9 DEF MixedStep, RefuseMixture, AcceptMixture, FollowMixture
<1>6. Servers # {} /\ Writes # {} => \A s, t \in Servers : TakeRequest(t, s) => StableStep
  BY DEF StableStep
<1>7. \A s, t \in Servers : TakeRequest(t, s) => Writes # {}
  BY TakenQueued DEF Queued
<1> QED
  BY <1>2, <1>3, <1>4, <1>5, <1>6, <1>7, <1>10 DEF Next, ProcessStep, ThreadStep, StableStep

\* Nothing of ZooKeeper, of child_watcher and of the links changes.
StandingVars == <<pc, seqno, znodes, heads, event, target, raced, link, conn>>

LEMMA StandsKept ==
    ASSUME ChainStands, UNCHANGED StandingVars,
           \A t \in Servers, x \in Writes :
              /\ task'[t][x] = "send" => link[t] # None
              /\ task'[t][x] \in {"write", "wait"} => peer'[t][x] = link[t]
    PROVE  ChainStands'
  BY DEF ChainStands, StandingVars, Serving

LEMMA StepPreservesStands ==
    ASSUME ChainInv, ChainStands, StableStep
    PROVE  ChainStands' /\ UNCHANGED StandingVars
<1> USE DEF ChainInv
<1>1. PICK s \in Servers, w \in Writes :
        \/ Submit(w, s) \/ Apply(s, w) \/ Check(s, w) \/ Send(s, w) \/ Write(s, w)
        \/ ReadReply(s, w) \/ AnswerClient(s, w)
        \/ \E t \in Servers : AnswerServer(t, s, w)
        \/ \E t \in Servers : TakeRequest(t, s)
  BY DEF StableStep
<1>2. UNCHANGED StandingVars
  BY <1>1 DEF Submit, Apply, Check, Send, Write, ReadReply, AnswerClient, AnswerServer, TakeRequest,
              StandingVars, joining, zookeeper, watching, connecting, linking
<1>3. /\ task \in [Servers -> [Writes -> Stages]]
      /\ peer \in [Servers -> [Writes -> Servers \cup {None}]]
  BY DEF TypeOK, TrafficOK
<1>4. \A t \in Servers, x \in Writes :
        /\ task[t][x] = "send" => link[t] # None
        /\ task[t][x] \in {"write", "wait"} => peer[t][x] = link[t]
  BY DEF ChainStands
<1>5. SUFFICES ASSUME NEW t \in Servers, NEW x \in Writes
               PROVE  /\ task'[t][x] = "send" => link[t] # None
                      /\ task'[t][x] \in {"write", "wait"} => peer'[t][x] = link[t]
  BY <1>2, StandsKept
<1>6. CASE Submit(w, s) \/ Apply(s, w) \/ AnswerClient(s, w) \/ \E u \in Servers : AnswerServer(u, s, w)
  <2>1. \E n \in {"apply", "check", "none"} : task' = [task EXCEPT ![s][w] = n]
    BY <1>6 DEF Submit, Apply, AnswerClient, AnswerServer, Progress
  <2>2. peer' = peer
    BY <1>6 DEF Submit, Apply, AnswerClient, AnswerServer
  <2> QED
    BY <1>3, <1>4, <2>1, <2>2
<1>7. CASE \E u \in Servers : TakeRequest(u, s)
  <2>1. PICK u \in Servers : TakeRequest(u, s)
    BY <1>7
  <2>2. task' = [task EXCEPT ![s][Head(queue[u][s])] = "apply"] /\ peer' = peer
    BY <2>1 DEF TakeRequest
  <2> QED
    BY <1>3, <1>4, <2>2
<1>8. CASE Check(s, w)
  BY <1>3, <1>4, <1>8 DEF Check, Progress
<1>9. CASE Send(s, w)
  BY <1>3, <1>4, <1>9 DEF Send, Progress
<1>10. CASE Write(s, w)
  BY <1>3, <1>4, <1>10 DEF Write, Progress
<1>11. CASE ReadReply(s, w)
  BY <1>3, <1>4, <1>11 DEF ReadReply, Progress
<1> QED
  BY <1>1, <1>6, <1>7, <1>8, <1>9, <1>10, <1>11

\* A step that brings no server a write it did not hold.
LEMMA HeldTask ==
    ASSUME TypeOK, NEW s \in Servers, NEW w \in Writes, NEW n \in Stages,
           task' = [task EXCEPT ![s][w] = n], UNCHANGED queue, n # "none" => w \in Held(s),
           applied' = applied \/ (applied' = [applied EXCEPT ![s] = @ \cup {w}] /\ w \in Held(s))
    PROVE  \A t \in Servers : Held(t)' \subseteq Held(t)
<1>1. \A t \in Servers : Queued(t)' = Queued(t)
  BY DEF Queued
<1>2. \A t \in Servers, x \in Writes : task'[t][x] = IF t = s /\ x = w THEN n ELSE task[t][x]
  BY DEF TypeOK, TrafficOK
<1>3. \A t \in Servers : applied'[t] \subseteq applied[t] \cup (IF t = s THEN {w} ELSE {})
  BY DEF TypeOK, ContentOK
<1>4. applied' = applied \/ w \in Held(s)
  OBVIOUS
<1> QED
  BY <1>1, <1>2, <1>3, <1>4 DEF Held

\* What a step has to show that brings nobody a write.
LEMMA OnceKept ==
    ASSUME WritesOnce, UNCHANGED <<link, entry>>,
           \A t \in Servers : Held(t)' \subseteq Held(t),
           \A t \in Servers : link[t] # None => link[t] \in Servers,
           \A t \in Servers, x \in Writes :
              /\ task'[t][x] = "apply" => x \notin applied'[t]
              /\ task'[t][x] \in {"apply", "check", "send", "write"} /\ link[t] # None =>
                    x \notin Held(link[t])
    PROVE  WritesOnce'
  BY DEF WritesOnce

LEMMA QueuesUnmixed ==
    ASSUME TypeOK, RequestsOnce
    PROVE  queue \in [Servers -> [Servers -> Seq(Writes)]]
BY DEF TypeOK, TrafficOK, RequestsOnce

\* Requests stay unread while they are queued.
LEMMA QueuesKept ==
    ASSUME TypeOK, RequestsOnce, UNCHANGED <<link, queue>>,
           \A t, u \in Servers : current'[t][u] # None => current[t][u] # None,
           \A t \in Servers, x \in Writes :
              /\ task'[t][x] # "none" => task[t][x] # "none" \/ x \notin Queued(t)
              /\ x \in applied'[t] => x \in applied[t] \/ x \notin Queued(t)
    PROVE  RequestsOnce'
<1>1. queue \in [Servers -> [Servers -> Seq(Writes)]]
  BY QueuesUnmixed
<1>2. SUFFICES ASSUME NEW s \in Servers, NEW t \in Servers, NEW i \in DOMAIN queue[s][t]
               PROVE  queue[s][t][i] \notin applied'[t] /\ task'[t][queue[s][t][i]] = "none"
  BY DEF RequestsOnce
<1>3. queue[s][t][i] \in Writes
  BY <1>1
<1>4. queue[s][t][i] \in Queued(t)
  BY <1>3 DEF Queued
<1> QED
  BY <1>3, <1>4 DEF RequestsOnce

\* A write that is queued at a server is not begun there.
LEMMA QueuedNotBegun ==
    ASSUME RequestsOnce, NEW t \in Servers, NEW x \in Queued(t)
    PROVE  x \notin applied[t] /\ task[t][x] = "none"
  BY DEF RequestsOnce, Queued

LEMMA SubmitKeepsOnce ==
    ASSUME ChainInv, ChainStands, Linked, WritesOnce, RequestsOnce,
           NEW s \in Servers, NEW w \in Writes, Submit(w, s)
    PROVE  WritesOnce' /\ RequestsOnce'
<1> USE DEF ChainInv
<1>1. /\ UNCHANGED <<link, queue, applied, current>>
      /\ entry[w] = None /\ entry' = [entry EXCEPT ![w] = s] /\ Place(s) = 1
      /\ task' = [task EXCEPT ![s][w] = "apply"]
  BY DEF Submit, Progress, linking, content, ChainStands
<1>2. \A t \in Servers, x \in Writes : task'[t][x] = IF t = s /\ x = w THEN "apply" ELSE task[t][x]
  BY <1>1 DEF TypeOK, TrafficOK
<1>3. \A x \in Writes : entry'[x] = IF x = w THEN s ELSE entry[x]
  BY <1>1 DEF TypeOK, ClientsOK
<1>4. \A t \in Servers : w \notin Held(t)
  BY <1>1 DEF WritesOnce
<1>5. \A t \in Servers : Queued(t)' = Queued(t)
  BY <1>1 DEF Queued
<1>6. \A t \in Servers : Held(t)' = Held(t) \cup (IF t = s THEN {w} ELSE {})
  BY <1>1, <1>2, <1>5 DEF Held
<1>7. \A t \in Servers : link[t] # s
  BY <1>1 DEF Linked
<1>8. \A t \in Servers : link[t] # None => link[t] \in Servers
  BY DEF TypeOK, LinkingOK
<1>9. \A t \in Servers : link[t] # None => Held(link[t])' = Held(link[t])
  BY <1>6, <1>7, <1>8, <1>1
<1>10. WritesOnce'
  <2>1. ASSUME NEW x \in Writes, entry'[x] = None, NEW t \in Servers
        PROVE  x \notin Held(t)'
    BY <1>3, <1>6, <2>1, ServersAssumption DEF WritesOnce
  <2>2. ASSUME NEW t \in Servers, NEW x \in Writes
        PROVE  /\ entry'[x] = t => Place(t) = 1
               /\ task'[t][x] = "apply" => x \notin applied'[t]
    BY <1>1, <1>2, <1>3, <1>4 DEF WritesOnce, Held
  <2>3. ASSUME NEW t \in Servers, NEW x \in Writes, link[t] # None,
               task'[t][x] \in {"apply", "check", "send", "write"}
        PROVE  x \notin Held(link[t])
    BY <1>2, <1>4, <1>8, <2>3 DEF WritesOnce
  <2> QED
    BY <1>1, <1>9, <2>1, <2>2, <2>3 DEF WritesOnce
<1>11. RequestsOnce'
  BY <1>1, <1>2, <1>4, QueuesKept DEF Held
<1> QED
  BY <1>10, <1>11

\* The steps of a thread other than write_all.
LEMMA ThreadsKeepOnce ==
    ASSUME ChainInv, ChainStands, SpreadPart, WritesOnce, RequestsOnce,
           NEW s \in Servers, NEW w \in Writes,
           \/ Apply(s, w) \/ Check(s, w) \/ Send(s, w) \/ ReadReply(s, w) \/ AnswerClient(s, w)
           \/ \E t \in Servers : AnswerServer(t, s, w)
    PROVE  WritesOnce' /\ RequestsOnce'
<1> USE DEF ChainInv
<1>1. UNCHANGED <<link, queue, entry>>
  BY DEF Apply, Check, Send, ReadReply, AnswerClient, AnswerServer, linking, clients
<1>2. PICK n \in Stages : /\ task' = [task EXCEPT ![s][w] = n] /\ task[s][w] # "none" /\ n # "apply"
                          /\ n \in {"check", "send", "write"} =>
                                task[s][w] \in {"apply", "check", "send"}
  BY DEF Apply, Check, Send, ReadReply, AnswerClient, AnswerServer, Progress, Stages
<1>3. applied' = applied \/ (task[s][w] = "apply" /\ applied' = [applied EXCEPT ![s] = @ \cup {w}])
  BY DEF Apply, Check, Send, ReadReply, AnswerClient, AnswerServer, content, Progress
<1>4. \A t, u \in Servers : current'[t][u] # None => current[t][u] # None
  <2>1. current' = current \/ \E t \in Servers : current' = [current EXCEPT ![t][s] = None]
    BY DEF Apply, Check, Send, ReadReply, AnswerClient, AnswerServer
  <2>2. CASE current' = current
    BY <2>2
  <2>3. ASSUME NEW t \in Servers, current' = [current EXCEPT ![t][s] = None]
        PROVE  \A u, v \in Servers : current'[u][v] # None => current[u][v] # None
    BY <2>3 DEF TypeOK, TrafficOK
  <2> QED
    BY <2>1, <2>2, <2>3
<1>5. w \in Held(s)
  BY <1>2 DEF Held
<1>6. \A t \in Servers : Held(t)' \subseteq Held(t)
  BY <1>1, <1>2, <1>3, <1>5, HeldTask
<1>7. \A t \in Servers, x \in Writes : task'[t][x] = IF t = s /\ x = w THEN n ELSE task[t][x]
  BY <1>2 DEF TypeOK, TrafficOK
<1>8. \A t \in Servers, x \in Writes : x \in applied'[t] => x \in applied[t] \/ (t = s /\ x = w)
  BY <1>3 DEF TypeOK, ContentOK
<1>9. \A t \in Servers : link[t] # None => link[t] \in Servers
  BY DEF TypeOK, LinkingOK
<1>10. WritesOnce'
  <2>1. ASSUME NEW t \in Servers, NEW x \in Writes, task'[t][x] = "apply"
        PROVE  x \notin applied'[t]
    BY <1>2, <1>7, <1>8, <2>1 DEF WritesOnce
  <2>2. ASSUME NEW t \in Servers, NEW x \in Writes, link[t] # None,
               task'[t][x] \in {"apply", "check", "send", "write"}
        PROVE  x \notin Held(link[t])
    BY <1>2, <1>7, <2>2 DEF WritesOnce
  <2> QED
    BY <1>1, <1>6, <1>9, <2>1, <2>2, OnceKept
<1>11. RequestsOnce'
  <2>1. w \notin Queued(s)
    BY <1>2, QueuedNotBegun
  <2> QED
    BY <1>1, <1>2, <1>4, <1>7, <1>8, <2>1, QueuesKept
<1> QED
  BY <1>10, <1>11

\* write_all brings the successor a write it did not hold.
LEMMA WriteKeepsOnce ==
    ASSUME ChainInv, ChainStands, Linked, WritesOnce, RequestsOnce,
           NEW s \in Servers, NEW w \in Writes, Write(s, w)
    PROVE  WritesOnce' /\ RequestsOnce'
<1> USE DEF ChainInv
<1> DEFINE v == link[s]
           longer == queue[s][v] \o <<w>>
<1>1. /\ UNCHANGED <<link, entry, applied, current>>
      /\ task[s][w] = "write" /\ task' = [task EXCEPT ![s][w] = "wait"]
      /\ v # None /\ v \in Servers /\ Alive(v)
      /\ queue' = [queue EXCEPT ![s][v] = longer]
      /\ Deliver(s, v, <<w>>)
  <2>1. link[s] = peer[s][w] /\ task[s][w] = "write" /\ task' = [task EXCEPT ![s][w] = "wait"]
        /\ UNCHANGED <<link, entry, applied, current>>
    BY DEF Write, Progress, linking, clients, content
  <2>2. v # None /\ v \in Servers
    BY <2>1 DEF TypeOK, TrafficOK
  <2>3. Alive(v) /\ conn[s] = "whole"
    BY <2>2 DEF ChainStands, Serving, Alive, Dead
  <2>4. Deliver(s, v, <<w>>)
    BY <2>1 DEF Write
  <2> QED
    BY <2>1, <2>2, <2>3, <2>4 DEF Deliver
<1>2. queue \in [Servers -> [Servers -> Seq(Writes)]] /\ queue[s][v] \in Seq(Writes)
  BY <1>1, QueuesUnmixed
<1>2a. longer \in Seq(Writes)
  <2>1. <<w>> \in Seq(Writes)
    OBVIOUS
  <2> QED
    BY <1>2, <2>1
<1>3. \A i \in DOMAIN longer : longer[i] = IF i \in DOMAIN queue[s][v] THEN queue[s][v][i] ELSE w
  BY <1>2
<1>4. \A i, j \in DOMAIN longer : i \notin DOMAIN queue[s][v] /\ j \notin DOMAIN queue[s][v] => i = j
  BY <1>2
<1>5. \A t, u \in Servers : queue'[t][u] = IF t = s /\ u = v THEN longer ELSE queue[t][u]
  BY <1>1, <1>2
<1>6. \A t \in Servers : Queued(t)' \subseteq Queued(t) \cup IF t = v THEN {w} ELSE {}
  <2>1. PICK u \in Servers : u = v
    BY <1>1
  <2>2. Deliver(s, u, <<w>>)
    BY <1>1, <2>1
  <2>3. OneMore(u, w)
    BY <2>2, DeliverQueued
  <2> QED
    BY <2>1, <2>3 DEF OneMore
<1>7. \A t \in Servers, x \in Writes : task'[t][x] = IF t = s /\ x = w THEN "wait" ELSE task[t][x]
  BY <1>1 DEF TypeOK, TrafficOK
<1>8. w \notin Held(v) /\ w \in Held(s)
  BY <1>1 DEF WritesOnce, Held
<1>9. \A t \in Servers : link[t] = v => t = s
  BY <1>1 DEF Linked
<1> HIDE DEF v, longer
<1>10. \A t \in Servers : Held(t)' \subseteq Held(t) \cup (IF t = v THEN {w} ELSE {})
  BY <1>1, <1>6, <1>7, <1>8 DEF Held
<1>11. \A t \in Servers : link[t] # None => link[t] \in Servers
  BY DEF TypeOK, LinkingOK
<1>12. WritesOnce'
  <2>1. ASSUME NEW x \in Writes, entry[x] = None, NEW t \in Servers
        PROVE  x \notin Held(t)'
    BY <1>8, <1>10, <2>1 DEF WritesOnce
  <2>2. ASSUME NEW t \in Servers, NEW x \in Writes, task'[t][x] = "apply"
        PROVE  x \notin applied[t]
    BY <1>7, <2>2 DEF WritesOnce
  <2>3. ASSUME NEW t \in Servers, NEW x \in Writes, link[t] # None,
               task'[t][x] \in {"apply", "check", "send", "write"}
        PROVE  x \notin Held(link[t])'
    <3>1. task[t][x] \in {"apply", "check", "send", "write"} /\ ~(t = s /\ x = w)
      BY <1>7, <2>3
    <3>2. x \notin Held(link[t])
      BY <2>3, <3>1 DEF WritesOnce
    <3> QED
      BY <1>1, <1>9, <1>10, <1>11, <2>3, <3>1, <3>2
  <2> QED
    BY <1>1, <2>1, <2>2, <2>3 DEF WritesOnce
<1>13. RequestsOnce'
  <2>1. w \notin applied[v] /\ task[v][w] = "none" /\ w \notin Queued(v)
    BY <1>8, <1>1 DEF Held
  <2>2. v # s
    BY <1>1, <2>1
  <2>3. ASSUME NEW t \in Servers, NEW u \in Servers
        PROVE  queue'[t][u] # <<>> \/ current'[t][u] # None => link[t] = u
    BY <1>1, <1>5, <2>3 DEF RequestsOnce, v
  <2>3a. \A t, u \in Servers : queue'[t][u] \in Seq(Writes)
    BY <1>2, <1>5, <1>2a
  <2>4. ASSUME NEW t \in Servers, NEW u \in Servers, NEW i \in DOMAIN queue'[t][u]
        PROVE  queue'[t][u][i] \notin applied[u] /\ task'[u][queue'[t][u][i]] = "none"
    <3>1. queue'[t][u][i] \in Writes
      BY <2>4, <2>3a
    <3>2. CASE t = s /\ u = v /\ longer[i] = w
      BY <1>1, <1>5, <1>7, <2>1, <2>2, <3>2
    <3>3. CASE i \in DOMAIN queue[t][u] /\ queue'[t][u][i] = queue[t][u][i]
      <4>1. queue'[t][u][i] \notin applied[u] /\ task[u][queue'[t][u][i]] = "none"
        BY <3>3 DEF RequestsOnce
      <4> QED
        BY <1>1, <1>7, <3>1, <4>1
    <3> QED
      BY <1>3, <1>5, <2>4, <3>2, <3>3
  <2>5. ASSUME NEW t \in Servers, NEW u \in Servers, NEW i \in DOMAIN queue'[t][u],
               NEW j \in DOMAIN queue'[t][u], queue'[t][u][i] = queue'[t][u][j]
        PROVE  i = j
    <3>1. CASE t = s /\ u = v
      <4>1. i \in DOMAIN longer /\ j \in DOMAIN longer /\ longer[i] = longer[j]
        BY <1>5, <2>5, <3>1
      <4>2. \A k \in DOMAIN queue[s][v] : queue[s][v][k] # w
        BY <1>1, <1>2, <2>1 DEF Queued
      <4>3. \A k, l \in DOMAIN queue[s][v] : queue[s][v][k] = queue[s][v][l] => k = l
        BY <1>1 DEF RequestsOnce
      <4> QED
        BY <1>3, <1>4, <4>1, <4>2, <4>3
    <3>2. CASE ~(t = s /\ u = v)
      BY <1>5, <2>5, <3>2 DEF RequestsOnce
    <3> QED
      BY <3>1, <3>2
  <2> QED
    BY <1>1, <2>3, <2>4, <2>5, <2>3a DEF RequestsOnce
<1> QED
  BY <1>12, <1>13

\* A request that is read is not in the queue a second time, and has gone no
\* further than this server.
LEMMA TakeKeepsOnce ==
    ASSUME ChainInv, ChainStands, Linked, SpreadPart, WritesOnce, RequestsOnce,
           NEW s \in Servers, NEW v \in Servers, TakeRequest(s, v)
    PROVE  WritesOnce' /\ RequestsOnce'
<1> USE DEF ChainInv
<1> DEFINE q == queue[s][v]
           w == Head(q)
<1>1. /\ UNCHANGED <<link, entry, applied>>
      /\ q # <<>> /\ queue' = [queue EXCEPT ![s][v] = Tail(q)]
      /\ task' = [task EXCEPT ![v][w] = "apply"]
      /\ current' = [current EXCEPT ![s][v] = w]
  BY DEF TakeRequest, linking, clients, content
<1>2. queue \in [Servers -> [Servers -> Seq(Writes)]] /\ q \in Seq(Writes)
  BY QueuesUnmixed
<1>3. 1 \in DOMAIN q /\ q[1] = w /\ w \in Writes
  BY <1>1, <1>2
<1>4. \A i \in DOMAIN Tail(q) : i + 1 \in DOMAIN q /\ i + 1 # 1 /\ i \in Nat /\ Tail(q)[i] = q[i + 1]
  BY <1>1, <1>2
<1>5. w \in Queued(v) /\ \A t \in Servers : Queued(t)' \subseteq Queued(t)
  BY TakenQueued
<1>6. w \notin applied[v] /\ task[v][w] = "none"
  BY <1>5, QueuedNotBegun
<1>7. link[s] = v
  BY <1>1 DEF RequestsOnce
<1>8. \A t \in Servers : queue[t][v] # <<>> => t = s
  <2>1. \A t \in Servers : queue[t][v] # <<>> => link[t] = v
    BY DEF RequestsOnce
  <2> QED
    BY <1>7, <2>1 DEF Linked
<1>9. \A t, u \in Servers : queue'[t][u] = IF t = s /\ u = v THEN Tail(q) ELSE queue[t][u]
  BY <1>1, <1>2
<1> HIDE DEF q, w
<1>10. \A t \in Servers, x \in Writes : task'[t][x] = IF t = v /\ x = w THEN "apply" ELSE task[t][x]
  BY <1>1, <1>3 DEF TypeOK, TrafficOK
<1>11. \A t \in Servers : Held(t)' \subseteq Held(t)
  BY <1>1, <1>5, <1>10 DEF Held
<1>12. \A t \in Servers : link[t] # None => link[t] \in Servers
  BY DEF TypeOK, LinkingOK
<1>13. WritesOnce'
  <2>1. ASSUME NEW t \in Servers, NEW x \in Writes, task'[t][x] = "apply"
        PROVE  x \notin applied'[t]
    BY <1>1, <1>6, <1>10, <2>1 DEF WritesOnce
  <2>2. ASSUME NEW t \in Servers, NEW x \in Writes, link[t] # None,
               task'[t][x] \in {"apply", "check", "send", "write"}
        PROVE  x \notin Held(link[t])
    <3>1. CASE t = v /\ x = w
      <4>1. Place(link[v]) = Place(v) + 1 /\ Place(v) \in Nat
        BY <1>12, <2>2, <3>1 DEF Linked
      <4>2. v \in znodes /\ Alive(v) /\ seqno[v] < seqno[link[v]]
        BY <1>12, <2>2, <3>1, <4>1 DEF ChainStands, Serving, Alive, Dead
      <4>3. Held(link[v]) \subseteq applied[v]
        BY <1>12, <2>2, <3>1, <4>2 DEF SpreadPart, HeldInFront
      <4> QED
        BY <1>6, <3>1, <4>3
    <3>2. CASE ~(t = v /\ x = w)
      BY <1>10, <2>2, <3>2 DEF WritesOnce
    <3> QED
      BY <3>1, <3>2
  <2> QED
    BY <1>1, <1>11, <1>12, <2>1, <2>2, OnceKept
<1>14. RequestsOnce'
  <2>1. ASSUME NEW t \in Servers, NEW u \in Servers
        PROVE  queue'[t][u] # <<>> \/ current'[t][u] # None => link[t] = u
    <3>1. current'[t][u] # None => current[t][u] # None \/ (t = s /\ u = v)
      BY <1>1 DEF TypeOK, TrafficOK
    <3>2. queue'[t][u] # <<>> => queue[t][u] # <<>> \/ (t = s /\ u = v)
      BY <1>9
    <3> QED
      BY <1>7, <3>1, <3>2 DEF RequestsOnce
  <2>2. \A i, j \in DOMAIN q : q[i] = q[j] => i = j
    BY DEF RequestsOnce, q
  <2>3. \A i \in DOMAIN q : q[i] \notin applied[v] /\ task[v][q[i]] = "none" /\ q[i] \in Writes
    BY <1>2 DEF RequestsOnce, q
  <2>4. ASSUME NEW i \in DOMAIN Tail(q)
        PROVE  Tail(q)[i] \notin applied[v] /\ task'[v][Tail(q)[i]] = "none"
    BY <1>3, <1>4, <1>10, <2>2, <2>3
  <2>5. ASSUME NEW i \in DOMAIN Tail(q), NEW j \in DOMAIN Tail(q), Tail(q)[i] = Tail(q)[j]
        PROVE  i = j
    BY <1>4, <2>2, <2>5
  <2>6. ASSUME NEW t \in Servers, NEW u \in Servers, NEW i \in DOMAIN queue'[t][u]
        PROVE  /\ queue'[t][u][i] \notin applied[u] /\ task'[u][queue'[t][u][i]] = "none"
               /\ \A j \in DOMAIN queue'[t][u] : queue'[t][u][i] = queue'[t][u][j] => i = j
    <3>1. CASE t = s /\ u = v
      BY <1>9, <2>4, <2>5, <2>6, <3>1
    <3>2. CASE ~(t = s /\ u = v)
      <4>1. queue'[t][u] = queue[t][u] /\ i \in DOMAIN queue[t][u]
        BY <1>9, <2>6, <3>2
      <4>2. queue[t][u][i] \in Writes /\ queue[t][u] # <<>>
        <5>1. queue[t][u] \in Seq(Writes)
          BY <1>2
        <5>2. queue[t][u][i] \in Writes
          BY <4>1, <5>1
        <5>3. queue[t][u] # <<>>
          BY <4>1
        <5> QED
          BY <5>2, <5>3
      <4>3. u # v
        BY <1>8, <3>2, <4>2
      <4>4. /\ queue[t][u][i] \notin applied[u] /\ task[u][queue[t][u][i]] = "none"
            /\ \A j \in DOMAIN queue[t][u] : queue[t][u][i] = queue[t][u][j] => i = j
        BY <4>1 DEF RequestsOnce
      <4>5. task'[u][queue[t][u][i]] = "none"
        BY <1>10, <4>2, <4>3, <4>4
      <4> QED
        BY <4>1, <4>4, <4>5
    <3> QED
      BY <3>1, <3>2
  <2>7. \A t, u \in Servers : queue'[t][u] \in Seq(Writes)
    <3>1. Tail(q) \in Seq(Writes)
      BY <1>1, <1>2
    <3> QED
      BY <1>2, <1>9, <3>1
  <2> QED
    BY <1>1, <2>1, <2>6, <2>7 DEF RequestsOnce
<1> QED
  BY <1>13, <1>14

\* Counting is possible.
LEMMA CountsDefined ==
    ASSUME AnswersCounted, NEW t \in Servers
    PROVE  /\ IsFiniteSet(acked) /\ Cardinality(acked) \in Nat
           /\ IsFiniteSet(Passed(t)) /\ Cardinality(Passed(t)) \in Nat
           /\ IsFiniteSet(Finished(t)) /\ Cardinality(Finished(t)) \in Nat
           /\ Cardinality(Finished(t)) <= Cardinality(Passed(t))
           /\ Cardinality(Passed(t)) <= Cardinality(applied[t])
<1>1. IsFiniteSet(acked) /\ IsFiniteSet(applied[t])
  BY DEF AnswersCounted
<1>2. Finished(t) \subseteq Passed(t) /\ Passed(t) \subseteq applied[t]
  BY DEF Finished, Passed
<1>3. IsFiniteSet(Passed(t)) /\ Cardinality(Passed(t)) <= Cardinality(applied[t])
  BY <1>1, <1>2, FS_Subset
<1>4. IsFiniteSet(Finished(t)) /\ Cardinality(Finished(t)) <= Cardinality(Passed(t))
  BY <1>2, <1>3, FS_Subset
<1> QED
  BY <1>1, <1>3, <1>4, FS_CardinalityType

\* Steps that finish nothing.
LEMMA CountsKept ==
    ASSUME AnswersCounted, UNCHANGED <<acked, link, replies>>,
           \A t \in Servers : link[t] # None => link[t] \in Servers,
           \A t \in Servers : /\ IsFiniteSet(applied'[t])
                              /\ Passed(t)' = Passed(t) /\ Finished(t)' = Finished(t)
    PROVE  AnswersCounted'
<1>1. \A t \in Servers : link[t] # None =>
            Passed(t)' = Passed(t) /\ Finished(link[t])' = Finished(link[t])
  OBVIOUS
<1> QED
  BY <1>1 DEF AnswersCounted

\* What one write that goes on means for the counts.
LEMMA StageCounts ==
    ASSUME TypeOK, NEW s \in Servers, NEW w \in Writes, NEW n \in Stages,
           task' = [task EXCEPT ![s][w] = n], UNCHANGED applied
    PROVE  /\ \A t \in Servers : t # s => Passed(t)' = Passed(t) /\ Finished(t)' = Finished(t)
           /\ task[s][w] \notin {"done", "none"} /\ n \notin {"done", "none"} =>
                Passed(s)' = Passed(s) /\ Finished(s)' = Finished(s)
           /\ w \in applied[s] /\ task[s][w] \notin {"done", "none"} /\ n = "done" =>
                Passed(s)' = Passed(s) \cup {w} /\ Finished(s)' = Finished(s) /\ w \notin Passed(s)
           /\ w \in applied[s] /\ task[s][w] = "done" /\ n = "none" =>
                Passed(s)' = Passed(s) /\ Finished(s)' = Finished(s) \cup {w} /\ w \notin Finished(s)
<1>1. \A t \in Servers, x \in Writes : task'[t][x] = IF t = s /\ x = w THEN n ELSE task[t][x]
  BY DEF TypeOK, TrafficOK
<1>2. \A t \in Servers : applied[t] \subseteq Writes
  BY DEF TypeOK, ContentOK
<1>3. \A t \in Servers : t # s => Passed(t)' = Passed(t) /\ Finished(t)' = Finished(t)
  BY <1>1, <1>2 DEF Passed, Finished
<1>4. ASSUME task[s][w] \notin {"done", "none"}, n \notin {"done", "none"}
      PROVE  Passed(s)' = Passed(s) /\ Finished(s)' = Finished(s)
  BY <1>1, <1>2, <1>4 DEF Passed, Finished
<1>5. ASSUME w \in applied[s], task[s][w] \notin {"done", "none"}, n = "done"
      PROVE  Passed(s)' = Passed(s) \cup {w} /\ Finished(s)' = Finished(s) /\ w \notin Passed(s)
  BY <1>1, <1>2, <1>5 DEF Passed, Finished
<1>6. ASSUME w \in applied[s], task[s][w] = "done", n = "none"
      PROVE  Passed(s)' = Passed(s) /\ Finished(s)' = Finished(s) \cup {w} /\ w \notin Finished(s)
  BY <1>1, <1>2, <1>6 DEF Passed, Finished
<1> QED
  BY <1>3, <1>4, <1>5, <1>6

\* A write comes to a server that has not applied it, and is applied.
LEMMA BeginKeepsCounts ==
    ASSUME ChainInv, RequestsOnce, WritesOnce, AnswersCounted, NEW s \in Servers, NEW w \in Writes,
           \/ Submit(w, s) \/ Apply(s, w) \/ \E t \in Servers : TakeRequest(t, s)
    PROVE  AnswersCounted'
<1> USE DEF ChainInv
<1>1. UNCHANGED <<acked, link, replies>>
  BY DEF Submit, Apply, TakeRequest, linking, clients
<1>2. \A t \in Servers : link[t] # None => link[t] \in Servers
  BY DEF TypeOK, LinkingOK
<1>3. SUFFICES \A t \in Servers : /\ IsFiniteSet(applied'[t])
                                  /\ Passed(t)' = Passed(t) /\ Finished(t)' = Finished(t)
  BY <1>1, <1>2, CountsKept
<1>4. \A t \in Servers : IsFiniteSet(applied[t]) /\ applied[t] \subseteq Writes
  BY DEF AnswersCounted, TypeOK, ContentOK
<1>5. ASSUME NEW x \in Writes, task' = [task EXCEPT ![s][x] = "apply"], x \notin applied[s],
             UNCHANGED applied
      PROVE  \A t \in Servers : Passed(t)' = Passed(t) /\ Finished(t)' = Finished(t)
  <2>1. \A t \in Servers, y \in Writes : task'[t][y] = IF t = s /\ y = x THEN "apply" ELSE task[t][y]
    BY <1>5 DEF TypeOK, TrafficOK
  <2> QED
    BY <1>4, <1>5, <2>1 DEF Passed, Finished
<1>6. CASE Submit(w, s)
  <2>1. task' = [task EXCEPT ![s][w] = "apply"] /\ UNCHANGED applied /\ entry[w] = None
    BY <1>6 DEF Submit, Progress, content
  <2>2. w \notin applied[s]
    BY <2>1 DEF WritesOnce, Held
  <2> QED
    BY <1>4, <1>5, <2>1, <2>2
<1>7. CASE \E t \in Servers : TakeRequest(t, s)
  <2>1. PICK t \in Servers : TakeRequest(t, s)
    BY <1>7
  <2> DEFINE x == Head(queue[t][s])
  <2>2. x \in Queued(s)
    BY <2>1, TakenQueued
  <2>3. task' = [task EXCEPT ![s][x] = "apply"] /\ UNCHANGED applied
    BY <2>1 DEF TakeRequest, content
  <2>4. x \notin applied[s] /\ x \in Writes
    BY <2>2, QueuedNotBegun DEF Queued
  <2> QED
    BY <1>4, <1>5, <2>3, <2>4
<1>8. CASE Apply(s, w)
  <2>1. /\ task[s][w] = "apply" /\ task' = [task EXCEPT ![s][w] = "check"]
        /\ applied' = [applied EXCEPT ![s] = @ \cup {w}]
    BY <1>8 DEF Apply, Progress
  <2>2. \A t \in Servers, y \in Writes : task'[t][y] = IF t = s /\ y = w THEN "check" ELSE task[t][y]
    BY <2>1 DEF TypeOK, TrafficOK
  <2>3. \A t \in Servers : applied'[t] = IF t = s THEN applied[s] \cup {w} ELSE applied[t]
    BY <2>1 DEF TypeOK, ContentOK
  <2>4. IsFiniteSet(applied[s] \cup {w})
    BY <1>4, FS_AddElement
  <2>5. \A t \in Servers : Passed(t)' = Passed(t) /\ Finished(t)' = Finished(t)
    BY <1>4, <2>1, <2>2, <2>3 DEF Passed, Finished
  <2> QED
    BY <1>4, <2>3, <2>4, <2>5
<1> QED
  BY <1>6, <1>7, <1>8

\* An answer of the successor is counted at one end or the other.
LEMMA ForwardKeepsCounts ==
    ASSUME ChainInv, ChainStands, Linked, SpreadPart, AnswersCounted,
           NEW s \in Servers, NEW w \in Writes,
           Check(s, w) \/ Send(s, w) \/ Write(s, w) \/ ReadReply(s, w)
    PROVE  AnswersCounted'
<1> USE DEF ChainInv
<1>1. UNCHANGED <<acked, link, applied>>
  BY DEF Check, Send, Write, ReadReply, linking, clients, content
<1>2. \A t \in Servers : link[t] # None => link[t] \in Servers
  BY DEF TypeOK, LinkingOK
<1>3. w \in applied[s] \/ task[s][w] \in {"none", "apply"}
  BY DEF SpreadPart, ForwardsApplied
<1>4. \A t \in Servers : IsFiniteSet(applied'[t])
  BY <1>1 DEF AnswersCounted
<1>5. CASE Send(s, w) \/ Write(s, w) \/ (Check(s, w) /\ link[s] # None)
  <2>1. /\ task[s][w] \notin {"done", "none"} /\ UNCHANGED replies
        /\ \E n \in {"send", "write", "wait"} : task' = [task EXCEPT ![s][w] = n]
    BY <1>5 DEF Send, Write, Check, Progress
  <2>2. \A t \in Servers : Passed(t)' = Passed(t) /\ Finished(t)' = Finished(t)
    BY <1>1, <2>1, StageCounts DEF Stages
  <2> QED
    BY <1>1, <1>2, <1>4, <2>1, <2>2, CountsKept
<1>6. CASE (Check(s, w) /\ link[s] = None) \/ ReadReply(s, w)
  <2>1. task[s][w] \in {"check", "wait"} /\ task' = [task EXCEPT ![s][w] = "done"]
    BY <1>6 DEF Check, ReadReply, Progress
  <2>2. /\ \A t \in Servers : Finished(t)' = Finished(t)
        /\ \A t \in Servers : t # s => Passed(t)' = Passed(t)
        /\ Passed(s)' = Passed(s) \cup {w} /\ w \notin Passed(s)
    BY <1>1, <1>3, <2>1, StageCounts DEF Stages
  <2>3. Cardinality(Passed(s))' = Cardinality(Passed(s)) + 1
    BY <2>2, CountsDefined, FS_AddElement
  <2>4. \A t \in Servers : t # s => Cardinality(Passed(t))' = Cardinality(Passed(t))
    BY <2>2
  <2>5. \A t \in Servers : Cardinality(Finished(t))' = Cardinality(Finished(t))
    BY <2>2
  <2>6. \A t \in Servers : link[t] # None => Cardinality(Finished(link[t]))' = Cardinality(Finished(link[t]))
    BY <1>1, <1>2, <2>2
  <2>7. \A t \in Servers : Place(t) \in Nat
    BY DEF Linked
  <2>8. /\ IsFiniteSet(acked')
        /\ \A t \in Servers : Place(t) = 1 => Cardinality(acked') <= Cardinality(Finished(t))'
    BY <1>1, <2>5 DEF AnswersCounted
  <2>9. CASE link[s] = None /\ UNCHANGED replies
    <3>1. \A t \in Servers : ~(Place(s) < Place(t))
      BY <2>9 DEF Linked
    <3>2. ASSUME NEW t \in Servers, link[t] # None
          PROVE  t # s /\ (Cardinality(Passed(t)) + replies[t][link[t]] <= Cardinality(Finished(link[t])))'
      BY <1>1, <2>4, <2>6, <2>9, <3>2 DEF AnswersCounted
    <3>3. ASSUME NEW t \in Servers, NEW u \in Servers, Place(t) < Place(u)
          PROVE  (Cardinality(Passed(t)) <= Cardinality(Finished(u)))'
      BY <2>4, <2>5, <3>1, <3>3 DEF AnswersCounted
    <3> QED
      BY <1>1, <1>4, <2>8, <3>2, <3>3 DEF AnswersCounted
  <2>10. CASE ReadReply(s, w)
    <3> DEFINE v == link[s]
    <3>1. peer[s][w] = v /\ v # None /\ v \in Servers
      BY <2>10 DEF ReadReply, Progress, ChainStands, TypeOK, TrafficOK
    <3>2. Readable(s, w) = {v}
      BY <3>1 DEF Readable
    <3>3. replies[s][v] > 0 /\ replies' = [replies EXCEPT ![s][v] = @ - 1]
      BY <2>10, <3>2 DEF ReadReply
    <3>4. replies \in [Servers -> [Servers -> Nat]]
      BY DEF TypeOK, TrafficOK
    <3>5. \A t, u \in Servers : replies'[t][u] = IF t = s /\ u = v THEN replies[t][u] - 1 ELSE replies[t][u]
      BY <3>1, <3>3, <3>4
    <3>6. Cardinality(Passed(s)) + replies[s][v] <= Cardinality(Finished(v))
      BY <3>1 DEF AnswersCounted
    <3>7. Cardinality(Passed(s)) + 1 <= Cardinality(Finished(v))
      BY <3>1, <3>3, <3>4, <3>6, CountsDefined
    <3>8. ASSUME NEW t \in Servers, link[t] # None
          PROVE  (Cardinality(Passed(t)) + replies[t][link[t]] <= Cardinality(Finished(link[t])))'
      <4>1. CASE t = s
        <5>1. replies'[s][v] = replies[s][v] - 1 /\ replies[s][v] \in Nat /\ Cardinality(Passed(s)) \in Nat
          BY <3>1, <3>4, <3>5, CountsDefined
        <5>2. Cardinality(Passed(s))' + replies'[s][v] = Cardinality(Passed(s)) + replies[s][v]
          BY <2>3, <5>1
        <5> QED
          BY <1>1, <2>6, <3>1, <3>6, <4>1, <5>2
      <4>2. CASE t # s
        BY <1>1, <1>2, <2>4, <2>6, <3>5, <3>8, <4>2 DEF AnswersCounted
      <4> QED
        BY <4>1, <4>2
    <3>9. ASSUME NEW t \in Servers, NEW u \in Servers, Place(t) < Place(u)
          PROVE  (Cardinality(Passed(t)) <= Cardinality(Finished(u)))'
      <4>1. CASE t # s
        BY <2>4, <2>5, <3>9, <4>1 DEF AnswersCounted
      <4>2. CASE t = s
        <5>1. Place(v) = Place(s) + 1 /\ Place(s) \in Nat /\ Place(u) \in Nat
          BY <3>1 DEF Linked
        <5>2. CASE u = v
          BY <2>3, <2>5, <3>7, <4>2, <5>2
        <5>3. CASE u # v
          <6>1. Place(v) # Place(u)
            BY <3>1, <5>3 DEF Linked
          <6>2. Place(v) < Place(u)
            BY <3>9, <4>2, <5>1, <6>1
          <6>3. Cardinality(Passed(v)) <= Cardinality(Finished(u))
            BY <3>1, <6>2 DEF AnswersCounted
          <6>4. Cardinality(Finished(v)) <= Cardinality(Passed(v))
            BY <3>1, CountsDefined
          <6>5. /\ Cardinality(Finished(v)) \in Nat /\ Cardinality(Passed(v)) \in Nat
                /\ Cardinality(Finished(u)) \in Nat /\ Cardinality(Passed(s)) \in Nat
            BY <3>1, CountsDefined
          <6> QED
            BY <2>3, <2>5, <3>7, <4>2, <6>3, <6>4, <6>5
        <5> QED
          BY <5>2, <5>3
      <4> QED
        BY <4>1, <4>2
    <3> QED
      BY <1>1, <1>4, <2>8, <3>8, <3>9 DEF AnswersCounted
  <2> QED
    BY <1>6, <2>9, <2>10 DEF Check
<1> QED
  BY <1>5, <1>6

\* An answer is counted when its write is finished.
LEMMA AnswerKeepsCounts ==
    ASSUME ChainInv, ChainStands, Linked, SpreadPart, WritesOnce, RequestsOnce, AnswersCounted,
           NEW s \in Servers, NEW w \in Writes,
           AnswerClient(s, w) \/ \E t \in Servers : AnswerServer(t, s, w)
    PROVE  AnswersCounted'
<1> USE DEF ChainInv
<1>1. /\ UNCHANGED <<link, applied>>
      /\ task[s][w] = "done" /\ task' = [task EXCEPT ![s][w] = "none"]
  BY DEF AnswerClient, AnswerServer, Progress, linking, content
<1>2. \A t \in Servers : link[t] # None => link[t] \in Servers
  BY DEF TypeOK, LinkingOK
<1>3. w \in applied[s]
  BY <1>1 DEF SpreadPart, ForwardsApplied
<1>4. /\ \A t \in Servers : Passed(t)' = Passed(t)
      /\ \A t \in Servers : t # s => Finished(t)' = Finished(t)
      /\ Finished(s)' = Finished(s) \cup {w} /\ w \notin Finished(s)
  BY <1>1, <1>3, StageCounts DEF Stages
<1>5. Cardinality(Finished(s))' = Cardinality(Finished(s)) + 1
  BY <1>4, CountsDefined, FS_AddElement
<1>6. \A t \in Servers : t # s => Cardinality(Finished(t))' = Cardinality(Finished(t))
  BY <1>4
<1>7. \A t \in Servers : Cardinality(Passed(t))' = Cardinality(Passed(t))
  BY <1>4
<1>8. \A t \in Servers : /\ Cardinality(Finished(t)) \in Nat /\ Cardinality(Passed(t)) \in Nat
                         /\ Cardinality(acked) \in Nat
  BY CountsDefined
<1>9. \A t \in Servers : Cardinality(Finished(t)) <= Cardinality(Finished(t))'
  BY <1>5, <1>6, <1>8
<1>10. \A t \in Servers : Cardinality(Finished(t))' \in Nat
  BY <1>5, <1>6, <1>8
<1>11. \A t \in Servers : link[t] # None =>
            Cardinality(Finished(link[t])) <= Cardinality(Finished(link[t]))'
  BY <1>1, <1>2, <1>9
<1>12. \A t \in Servers : IsFiniteSet(applied'[t])
  BY <1>1 DEF AnswersCounted
<1>13. ASSUME NEW t \in Servers, NEW u \in Servers, Place(t) < Place(u)
       PROVE  (Cardinality(Passed(t)) <= Cardinality(Finished(u)))'
  <2>1. Cardinality(Passed(t)) <= Cardinality(Finished(u))
    BY <1>13 DEF AnswersCounted
  <2> QED
    BY <1>7, <1>8, <1>9, <1>10, <2>1
<1>14. CASE AnswerClient(s, w)
  <2>1. entry[w] = s /\ acked' = acked \cup {w} /\ UNCHANGED replies
    BY <1>14 DEF AnswerClient
  <2>2. Place(s) = 1
    BY <2>1 DEF WritesOnce
  <2>3. IsFiniteSet(acked') /\ Cardinality(acked') <= Cardinality(acked) + 1
    <3>1. IsFiniteSet(acked) /\ Cardinality(acked) \in Nat
      BY CountsDefined
    <3>2. /\ IsFiniteSet(acked \cup {w})
          /\ Cardinality(acked \cup {w}) = IF w \in acked THEN Cardinality(acked) ELSE Cardinality(acked) + 1
      BY <3>1, FS_AddElement
    <3> QED
      BY <2>1, <3>1, <3>2
  <2>4. Cardinality(acked') \in Nat
    BY <2>3, FS_CardinalityType
  <2>5. ASSUME NEW t \in Servers, Place(t) = 1
        PROVE  Cardinality(acked') <= Cardinality(Finished(t))'
    <3>1. t = s
      BY <2>2, <2>5 DEF Linked
    <3>2. Cardinality(acked) <= Cardinality(Finished(s))
      BY <2>2 DEF AnswersCounted
    <3> QED
      BY <1>5, <1>8, <2>3, <2>4, <3>1, <3>2
  <2>6. ASSUME NEW t \in Servers, link[t] # None
        PROVE  (Cardinality(Passed(t)) + replies[t][link[t]] <= Cardinality(Finished(link[t])))'
    <3>1. Cardinality(Passed(t)) + replies[t][link[t]] <= Cardinality(Finished(link[t]))
      BY <2>6 DEF AnswersCounted
    <3>2. /\ Cardinality(Finished(link[t])) \in Nat /\ Cardinality(Finished(link[t]))' \in Nat
          /\ replies[t][link[t]] \in Nat
      BY <1>1, <1>2, <1>8, <1>10, <2>6 DEF TypeOK, TrafficOK
    <3> QED
      BY <1>1, <1>7, <1>8, <1>11, <2>1, <2>6, <3>1, <3>2
  <2> QED
    BY <1>1, <1>12, <1>13, <2>3, <2>5, <2>6 DEF AnswersCounted
<1>15. ASSUME NEW v \in Servers, AnswerServer(v, s, w)
       PROVE  AnswersCounted'
  <2>1. current[v][s] = w /\ UNCHANGED acked
    BY <1>15 DEF AnswerServer, clients
  <2>2. link[v] = s
    BY <2>1, WritesAssumption DEF RequestsOnce
  <2>3. Alive(v)
    BY DEF ChainStands, Serving, Alive, Dead
  <2>4. replies' = [replies EXCEPT ![v][s] = @ + 1]
    BY <1>15, <2>3 DEF AnswerServer
  <2>5. replies \in [Servers -> [Servers -> Nat]]
    BY DEF TypeOK, TrafficOK
  <2>6. \A t, u \in Servers : replies'[t][u] = IF t = v /\ u = s THEN replies[t][u] + 1 ELSE replies[t][u]
    BY <2>4, <2>5
  <2>7. ASSUME NEW t \in Servers, Place(t) = 1
        PROVE  Cardinality(acked') <= Cardinality(Finished(t))'
    <3>1. Cardinality(acked) <= Cardinality(Finished(t))
      BY <2>7 DEF AnswersCounted
    <3> QED
      BY <1>8, <1>9, <1>10, <2>1, <3>1
  <2>8. ASSUME NEW t \in Servers, NEW u \in Servers, link[t] = u
        PROVE  Cardinality(Passed(t))' + replies'[t][u] <= Cardinality(Finished(u))'
    <3>1. Cardinality(Passed(t)) + replies[t][u] <= Cardinality(Finished(u))
      BY <2>8, ServersAssumption DEF AnswersCounted
    <3>2. replies[t][u] \in Nat
      BY <2>5
    <3>3. CASE t = v
      <4>1. u = s /\ replies'[t][u] = replies[t][u] + 1
        BY <2>2, <2>6, <2>8, <3>3
      <4> QED
        BY <1>5, <1>7, <1>8, <3>1, <3>2, <4>1
    <3>4. CASE t # v
      <4>1. u # s
        BY <2>2, <2>8, <3>4 DEF Linked
      <4>2. replies'[t][u] = replies[t][u] /\ Cardinality(Finished(u))' = Cardinality(Finished(u))
        BY <1>6, <2>6, <3>4, <4>1
      <4> QED
        BY <1>7, <3>1, <4>2
    <3> QED
      BY <3>3, <3>4
  <2>9. \A t \in Servers : link'[t] # None => link'[t] \in Servers /\ link'[t] = link[t]
    BY <1>1, <1>2
  <2>10. \A t \in Servers : link'[t] # None =>
            (Cardinality(Passed(t)) + replies[t][link[t]] <= Cardinality(Finished(link[t])))'
    BY <2>8, <2>9
  <2> QED
    BY <1>12, <1>13, <2>1, <2>7, <2>10, CountsDefined DEF AnswersCounted
<1> QED
  BY <1>14, <1>15

StableInv ==
    /\ ChainInv /\ SpreadInv
    /\ ChainStands /\ WritesOnce /\ RequestsOnce /\ AnswersCounted

LEMMA StepPreservesAcks ==
    ASSUME StableChain, StableInv, ~mixed', [Next]_vars
    PROVE  (ChainStands /\ WritesOnce /\ RequestsOnce /\ AnswersCounted)'
<1> USE DEF StableInv
<1>1. CASE UNCHANGED vars
  <2>1. ChainStands'
    BY <1>1 DEF ChainStands, Serving, vars, joining, zookeeper, watching, connecting, linking, traffic
  <2>2. \A t \in Servers : Held(t)' = Held(t)
    BY <1>1 DEF Held, Queued, vars, content, traffic
  <2>3. UNCHANGED <<link, applied, task, queue, current, replies, entry, acked>>
    BY <1>1 DEF vars, linking, content, traffic, clients
  <2>4. \A t \in Servers : link[t] # None => link[t] \in Servers
    BY DEF ChainInv, TypeOK, LinkingOK
  <2>5. WritesOnce'
    BY <2>2, <2>3, <2>4 DEF WritesOnce
  <2>6. RequestsOnce'
    BY <2>3 DEF RequestsOnce
  <2>7. \A t \in Servers : Passed(t)' = Passed(t) /\ Finished(t)' = Finished(t) /\ IsFiniteSet(applied'[t])
    BY <2>3 DEF Passed, Finished, AnswersCounted
  <2>8. AnswersCounted'
    BY <2>3, <2>4, <2>7, CountsKept
  <2> QED
    BY <2>1, <2>5, <2>6, <2>8
<1>2. CASE Next
  <2>1. Linked /\ StableStep
    BY <1>2, StandsLinked, StableSteps
  <2>2. SpreadPart
    BY DEF SpreadInv, SpreadPart, ChainStands
  <2>3. ChainStands'
    BY <2>1, StepPreservesStands
  <2>4. PICK s \in Servers, w \in Writes :
        \/ Submit(w, s) \/ Apply(s, w) \/ Check(s, w) \/ Send(s, w) \/ Write(s, w)
        \/ ReadReply(s, w) \/ AnswerClient(s, w)
        \/ \E t \in Servers : AnswerServer(t, s, w)
        \/ \E t \in Servers : TakeRequest(t, s)
    BY <2>1 DEF StableStep
  <2>5. WritesOnce' /\ RequestsOnce'
    BY <2>1, <2>2, <2>4, SubmitKeepsOnce, ThreadsKeepOnce, WriteKeepsOnce, TakeKeepsOnce
  <2>6. AnswersCounted'
    BY <2>1, <2>2, <2>4, BeginKeepsCounts, ForwardKeepsCounts, AnswerKeepsCounts
  <2> QED
    BY <2>3, <2>5, <2>6
<1> QED
  BY <1>1, <1>2

LEMMA InitAcks ==
    ASSUME StableChain, Init
    PROVE  AcksInv
<1>1. /\ znodes = Servers /\ heads = {s \in Servers : Place(s) = 1}
      /\ \A s \in Servers : /\ pc[s] = "serving" /\ seqno[s] = Place(s) /\ link[s] = InitialNext(s)
                            /\ event[s] = FALSE /\ target[s] = None /\ applied[s] = {}
                            /\ link[s] # None => conn[s] = "whole"
      /\ raced = {}
      /\ \A s \in Servers, w \in Writes : task[s][w] = "none"
      /\ \A s, t \in Servers : queue[s][t] = <<>> /\ current[s][t] = None /\ replies[s][t] = 0
      /\ entry = [w \in Writes |-> None] /\ acked = {}
  BY DEF Init, StableChain
<1>2. ChainStands
  BY <1>1 DEF ChainStands, Serving
<1>3. \A s \in Servers : Held(s) = {}
  BY <1>1 DEF Held, Queued
<1>4. \A s \in Servers : link[s] # None => link[s] \in Servers
  BY InitEstablishesChainInv DEF ChainInv, TypeOK, LinkingOK
<1>5. WritesOnce
  BY <1>1, <1>3, <1>4, ServersAssumption DEF WritesOnce
<1>6. RequestsOnce
  <2>1. <<>> \in Seq(Writes) /\ DOMAIN <<>> = {}
    OBVIOUS
  <2> QED
    BY <1>1, <2>1 DEF RequestsOnce
<1>7. IsFiniteSet({}) /\ Cardinality({}) = 0
  BY FS_EmptySet
<1>8. \A s \in Servers : Passed(s) = {} /\ Finished(s) = {}
  BY <1>1 DEF Passed, Finished
<1>9. /\ \A s \in Servers : Cardinality(Passed(s)) = 0 /\ Cardinality(Finished(s)) = 0
      /\ \A s \in Servers : link[s] # None =>
            Cardinality(Finished(link[s])) = 0 /\ replies[s][link[s]] = 0
      /\ \A s \in Servers : IsFiniteSet(applied[s])
      /\ IsFiniteSet(acked) /\ Cardinality(acked) = 0
  BY <1>1, <1>4, <1>7, <1>8
<1>10. AnswersCounted
  BY <1>9 DEF AnswersCounted
<1> QED
  BY <1>2, <1>5, <1>6, <1>10 DEF AcksInv

\* In a chain of any length that nobody joins and where nothing fails, for any
\* writes, until two threads come between the calls of each other: a write comes to
\* each server once and the answers read on a link are answers to writes the
\* successor finished, whichever thread reads them.
THEOREM AnswersStandForWrites ==
    ASSUME StableChain
    PROVE  Safety => []AcksInv
<1>1. DistinctAddresses
  BY StableAddresses
<1>2. Init => AcksInv
  BY InitAcks
<1>3. ChainInv /\ SpreadInv /\ AcksInv /\ [Next]_vars => AcksInv'
  <2>1. SUFFICES ASSUME ChainInv, SpreadInv, AcksInv, [Next]_vars, ~mixed'
                 PROVE  AcksInv'
    BY DEF AcksInv
  <2>2. ~mixed
    BY <2>1, HistoriesGrow DEF ChainInv
  <2> QED
    BY <2>1, <2>2, StepPreservesAcks DEF StableInv, AcksInv
<1> QED
  BY <1>1, <1>2, <1>3, SafetyImpliesChainInv, WritesSpreadInOrder, PTL DEF Safety

\* So, although answers on a shared connection reach the threads in any order, as
\* many writes are on every server of the chain as clients have answers, as long as
\* no messages mix.
THEOREM AcksAreCovered ==
    ASSUME StableChain
    PROVE  Safety => []AcksCovered
<1>1. ASSUME AcksInv, ~mixed, NEW s \in Servers
      PROVE  Cardinality(acked) <= Cardinality(applied[s])
  <2> DEFINE h == InitialChain[1]
  <2>1. Place(s) \in 1 .. Len(InitialChain) /\ Len(InitialChain) \in Nat
    BY PlaceProperties, InitialAssumption DEF StableChain
  <2>2. h \in Servers /\ Place(h) = 1
    BY <2>1, PlaceProperties, InitialAssumption
  <2>3. AnswersCounted /\ Linked
    BY <1>1, StandsLinked DEF AcksInv
  <2> HIDE DEF h
  <2>4. \A t \in Servers : /\ Cardinality(Finished(t)) \in Nat /\ Cardinality(Passed(t)) \in Nat
                           /\ Cardinality(Finished(t)) <= Cardinality(Passed(t))
                           /\ Cardinality(Passed(t)) <= Cardinality(applied[t])
                           /\ Cardinality(applied[t]) \in Nat /\ Cardinality(acked) \in Nat
    BY <2>3, CountsDefined, FS_CardinalityType DEF AnswersCounted
  <2>5. Cardinality(acked) <= Cardinality(Finished(h))
    BY <2>2, <2>3 DEF AnswersCounted
  <2>6. CASE s = h
    BY <2>4, <2>5, <2>6
  <2>7. CASE s # h
    <3>1. Place(h) < Place(s)
      BY <2>1, <2>2, <2>3, <2>7 DEF Linked
    <3>2. Cardinality(Passed(h)) <= Cardinality(Finished(s))
      BY <2>2, <2>3, <3>1 DEF AnswersCounted
    <3> QED
      BY <2>2, <2>4, <2>5, <3>2
  <2> QED
    BY <2>6, <2>7
<1>2. AcksInv => AcksCovered
  BY <1>1 DEF AcksCovered
<1> QED
  BY <1>2, AnswersStandForWrites, PTL
=============================================================================
