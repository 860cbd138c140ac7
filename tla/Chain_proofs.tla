----------------------------- MODULE Chain_proofs -----------------------------
(***************************************************************************)
(* Proofs about Chain for any finite set of servers, any addresses, shared *)
(* or not, any writes and any bounds: the types, and that writes are       *)
(* forwarded towards later joiners only.                                   *)
(***************************************************************************)
EXTENDS Chain, FiniteSetTheorems, FunctionTheorems, WellFoundedInduction, TLAPS

-----------------------------------------------------------------------------
\* The head and the tail of a set of servers with numbers below a bound.

\* A set of natural numbers has a least element.
LEMMA LeastNatural ==
    ASSUME NEW T \in SUBSET Nat, T # {}
    PROVE  \E n \in T : \A m \in T : n <= m
<1>1. PICK n \in T : \A m \in T : <<m, n>> \notin OpToRel(<, Nat)
  BY WFMin, NatLessThanWellFounded, Zenon
<1>2. \A m \in T : ~ (m < n)
  BY <1>1 DEF OpToRel
<1> QED
  BY <1>2

\* The first of some servers is one of them, and none has a lower number.
LEMMA HeadIsFirst ==
    ASSUME seqno \in [Servers -> Nat], NEW S \in SUBSET Servers, S # {}
    PROVE  HeadOf(S) \in S /\ \A t \in S : seqno[HeadOf(S)] <= seqno[t]
<1> DEFINE numbers == {seqno[s] : s \in S}
<1>1. numbers \in SUBSET Nat /\ numbers # {}
  OBVIOUS
<1>2. PICK n \in numbers : \A m \in numbers : n <= m
  BY <1>1, LeastNatural
<1>3. \E s \in S : \A t \in S : seqno[s] <= seqno[t]
  BY <1>2
<1> QED
  BY <1>3 DEF HeadOf

\* The same of the last, among finitely many numbers.
LEMMA TailIsLast ==
    ASSUME seqno \in [Servers -> Nat], NEW S \in SUBSET Servers, S # {},
           NEW bound \in Nat, \A s \in S : seqno[s] <= bound
    PROVE  TailOf(S) \in S /\ \A t \in S : seqno[TailOf(S)] >= seqno[t]
<1> DEFINE gaps == {bound - seqno[s] : s \in S}
<1>1. gaps \in SUBSET Nat /\ gaps # {}
  OBVIOUS
<1>2. PICK n \in gaps : \A m \in gaps : n <= m
  BY <1>1, LeastNatural
<1>3. PICK s \in S : n = bound - seqno[s]
  BY <1>2
<1>4. \A t \in S : seqno[s] >= seqno[t]
  BY <1>2, <1>3
<1> QED
  BY <1>3, <1>4 DEF TailOf

\* Any set of servers is finite.
LEMMA NumberedFinite ==
    /\ IsFiniteSet(Numbered)
    /\ Cardinality(Numbered) \in Nat
  BY FS_Subset, FS_CardinalityType, ServersAssumption DEF Numbered

-----------------------------------------------------------------------------
\* Types

\* One place of a function of functions gets a new value.
LEMMA UpdateType ==
    ASSUME NEW A, NEW B, NEW V, NEW f \in [A -> [B -> V]], NEW a \in A, NEW b \in B, NEW v \in V
    PROVE  [f EXCEPT ![a][b] = v] \in [A -> [B -> V]]
  OBVIOUS

\* The end of a process leaves well-typed variables behind.
LEMMA DieKeepsTypes ==
    ASSUME TypeOK, NEW s \in Servers, NEW how \in Dead, Die(s, how), failures' \in Nat
    PROVE  TypeOK'
<1> USE DEF TypeOK
<1>1. JoiningOK'
  BY DEF JoiningOK, Die, Dead
<1>2. ZooKeeperOK' /\ ContentOK' /\ ClientsOK'
  BY DEF ZooKeeperOK, ContentOK, ClientsOK, Numbered, Die, zookeeper, content, clients
<1>3. WatchingOK' /\ LinkingOK'
  BY DEF WatchingOK, LinkingOK, Die
<1>4. TrafficOK'
  BY DEF TrafficOK, Stages, Die
<1> QED
  BY <1>1, <1>2, <1>3, <1>4

\* The same for a process that ends by itself.
LEMMA ExitKeepsTypes ==
    ASSUME TypeOK, NEW s \in Servers, Exits(s)
    PROVE  TypeOK'
  BY DieKeepsTypes DEF Exits, Dead, TypeOK

\* Variables that do not change keep their types.
LEMMA PartsKept ==
    ASSUME TypeOK
    PROVE  /\ UNCHANGED joining => JoiningOK'
           /\ UNCHANGED zookeeper => ZooKeeperOK'
           /\ UNCHANGED watching => WatchingOK'
           /\ UNCHANGED linking => LinkingOK'
           /\ UNCHANGED content => ContentOK'
           /\ UNCHANGED traffic => TrafficOK'
           /\ UNCHANGED clients => ClientsOK'
           /\ UNCHANGED failures => failures' \in Nat
<1> USE DEF TypeOK
<1>1. UNCHANGED joining => JoiningOK'
  BY DEF JoiningOK, joining
<1>2. UNCHANGED zookeeper => ZooKeeperOK'
  BY DEF ZooKeeperOK, zookeeper, Numbered
<1>3. UNCHANGED watching => WatchingOK'
  BY DEF WatchingOK, watching, connecting
<1>4. UNCHANGED linking => LinkingOK'
  BY DEF LinkingOK, linking
<1>5. UNCHANGED content => ContentOK'
  BY DEF ContentOK, content
<1>6. UNCHANGED traffic => TrafficOK'
  BY DEF TrafficOK, traffic
<1>7. UNCHANGED clients => ClientsOK'
  BY DEF ClientsOK, clients
<1> QED
  BY <1>1, <1>2, <1>3, <1>4, <1>5, <1>6, <1>7

\* The steps of main.
LEMMA MainKeepsTypes ==
    ASSUME TypeOK, ForwardInv, NEW s \in Servers, Start(s) \/ MainStep(s)
    PROVE  TypeOK'
<1> USE TypeOK, PartsKept DEF TypeOK
<1>1. CASE Start(s) \/ FindRoot(s)
  BY <1>1 DEF Start, FindRoot, Arrives, JoiningOK, Dead
<1>2. CASE CreateRoot(s)
  <2>1. JoiningOK'
    BY <1>2 DEF CreateRoot, Arrives, JoiningOK, Dead
  <2>2. ZooKeeperOK'
    BY <1>2 DEF CreateRoot, ZooKeeperOK, Numbered
  <2> QED
    BY <1>2, <2>1, <2>2 DEF CreateRoot
<1>3. CASE CreateNode(s)
  <2>1. JoiningOK'
    BY <1>3 DEF CreateNode, Arrives, JoiningOK, Dead
  <2>2. ZooKeeperOK'
    <3>1. /\ seqno' \in [Servers -> Nat]
          /\ znodes' \subseteq Numbered'
          /\ root' \in BOOLEAN
      BY <1>3, NumberedFinite DEF CreateNode, ZooKeeperOK, Numbered
    <3>2. heads' \subseteq heads \cup znodes'
      BY <1>3 DEF CreateNode, ChildrenChange
    <3> QED
      BY <3>1, <3>2 DEF ZooKeeperOK, Numbered
  <2>3. WatchingOK'
    BY <1>3 DEF CreateNode, ChildrenChange, WatchingOK, connecting
  <2> QED
    BY <1>3, <2>1, <2>2, <2>3 DEF CreateNode
<1>4. CASE ListChildren(s)
  <2>1. Before(s) # {} => TailOf(Before(s)) \in Servers
    <3> SUFFICES ASSUME Before(s) # {} PROVE TailOf(Before(s)) \in Servers
      OBVIOUS
    <3>1. Before(s) \in SUBSET Servers /\ seqno \in [Servers -> Nat]
      BY DEF Before, ZooKeeperOK, Numbered
    <3>2. \A t \in Before(s) : seqno[t] <= Cardinality(Numbered)
      BY <3>1 DEF ForwardInv, NumbersGrow
    <3>3. TailOf(Before(s)) \in Before(s)
      BY <3>1, <3>2, TailIsLast, NumberedFinite
    <3> QED
      BY <3>1, <3>3
  <2>2. JoiningOK'
    BY <1>4, <2>1, ServersAssumption DEF ListChildren, Arrives, JoiningOK, Dead
  <2>3. WatchingOK'
    BY <1>4 DEF ListChildren, WatchingOK, connecting
  <2> QED
    BY <1>4, <2>2, <2>3 DEF ListChildren
<1>5. CASE SplitPrev(s) \/ ConnectPrev(s)
  <2>1. JoiningOK'
    <3>1. CASE SplitPrev(s)
      BY <3>1 DEF SplitPrev, Arrives, JoiningOK, Dead
    <3>2. CASE ConnectPrev(s)
      <4>1. PICK t \in Reached(s, "main", Address[prev[s]]) : prev' = [prev EXCEPT ![s] = t]
        BY <3>2 DEF ConnectPrev
      <4>2. t \in Servers
        BY <4>1 DEF Reached, Listening
      <4> QED
        BY <3>2, <4>1, <4>2, ServersAssumption DEF ConnectPrev, Arrives, JoiningOK, Dead
    <3> QED
      BY <1>5, <3>1, <3>2
  <2>2. WatchingOK'
    BY <1>5 DEF SplitPrev, ConnectPrev, First, WatchingOK
  <2> QED
    BY <1>5, <2>1, <2>2 DEF SplitPrev, ConnectPrev
<1>6. CASE Fetch(s)
  <2>1. JoiningOK' /\ prev[s] \in Servers
    BY <1>6 DEF Fetch, Arrives, JoiningOK, Dead
  <2>2. ContentOK'
    BY <1>6, <2>1 DEF Fetch, ContentOK
  <2> QED
    BY <1>6, <2>1, <2>2 DEF Fetch
<1>7. CASE CreateRootFails(s) \/ ConnectPrevFails(s) \/ FetchFails(s)
  BY <1>7, ExitKeepsTypes DEF CreateRootFails, ConnectPrevFails, FetchFails
<1> QED
  BY <1>1, <1>2, <1>3, <1>4, <1>5, <1>6, <1>7 DEF MainStep

\* The steps of child_watcher.
LEMMA WatcherKeepsTypes ==
    ASSUME TypeOK, NEW s \in Servers, WatcherStep(s)
    PROVE  TypeOK'
<1> USE TypeOK, PartsKept DEF TypeOK
<1>1. CASE WatcherLists(s)
  <2>1. Behind(s) # {} => HeadOf(Behind(s)) \in Servers
    <3>1. Behind(s) \in SUBSET Servers /\ seqno \in [Servers -> Nat]
      BY DEF Behind, ZooKeeperOK, Numbered
    <3> QED
      BY <3>1, HeadIsFirst
  <2>2. WatchingOK'
    BY <1>1, <2>1 DEF WatcherLists, WatchingOK, connecting
  <2>3. LinkingOK'
    BY <1>1 DEF WatcherLists, linking, LinkingOK
  <2> QED
    BY <1>1, <2>2, <2>3 DEF WatcherLists
<1>2. CASE WatcherSplits(s) \/ WatcherKeeps(s)
  <2>1. Found(s) \subseteq Addresses \cup {None}
    BY <1>2, AddressAssumption DEF WatcherSplits, WatcherKeeps, Found, WatchingOK
  <2>2. WatchingOK'
    <3>1. CASE WatcherSplits(s)
      <4>1. PICK a \in Found(s) : zoo_data' = [zoo_data EXCEPT ![s] = a]
        BY <3>1 DEF WatcherSplits
      <4> QED
        BY <2>1, <3>1, <4>1 DEF WatcherSplits, First, WatchingOK
    <3>2. CASE WatcherKeeps(s)
      BY <2>1, <3>2 DEF WatcherKeeps, WatchingOK, connecting
    <3> QED
      BY <1>2, <3>1, <3>2
  <2>3. LinkingOK'
    BY <1>2, <2>1 DEF WatcherSplits, WatcherKeeps, linking, LinkingOK
  <2> QED
    BY <1>2, <2>2, <2>3 DEF WatcherSplits, WatcherKeeps
<1>5. CASE WatcherConnects(s)
  <2>1. PICK t \in Reached(s, "watcher", next_server[s]) : link' = [link EXCEPT ![s] = t]
    BY <1>5 DEF WatcherConnects
  <2>2. t \in Servers
    BY <2>1 DEF Reached, Listening
  <2>3. WatchingOK' /\ LinkingOK'
    BY <1>5, <2>1, <2>2 DEF WatcherConnects, WatchingOK, LinkingOK
  <2> QED
    BY <1>5, <2>3 DEF WatcherConnects
<1>3. CASE WatcherFails(s)
  BY <1>3, ExitKeepsTypes DEF WatcherFails
<1>4. CASE WatcherListFails(s)
  <2>1. failures' \in Nat
    BY <1>4 DEF WatcherListFails
  <2>2. CASE Die(s, "exited")
    BY <2>1, <2>2, DieKeepsTypes DEF Dead
  <2>3. CASE ~ Die(s, "exited")
    <3>1. WatchingOK'
      BY <1>4, <2>3 DEF WatcherListFails, WatchingOK, connecting
    <3> QED
      BY <1>4, <2>1, <2>3, <3>1 DEF WatcherListFails
  <2> QED
    BY <2>2, <2>3
<1> QED
  BY <1>1, <1>2, <1>3, <1>4, <1>5 DEF WatcherStep

\* Bytes written arrive at a live process or nowhere.
LEMMA DeliverType ==
    ASSUME TypeOK, NEW s \in Servers, NEW t \in Servers,
           NEW items \in Seq(Writes \cup {Mixture}), Deliver(s, t, items)
    PROVE  queue' \in [Servers -> [Servers -> Seq(Writes \cup {Mixture})]]
<1> DEFINE longer == queue[s][t] \o items
<1>1. queue \in [Servers -> [Servers -> Seq(Writes \cup {Mixture})]]
  BY DEF TypeOK, TrafficOK
<1>2. longer \in Seq(Writes \cup {Mixture})
  BY <1>1
<1>3. queue' = queue \/ queue' = [queue EXCEPT ![s][t] = longer]
  BY DEF Deliver
<1> HIDE DEF longer
<1>4. [queue EXCEPT ![s][t] = longer] \in [Servers -> [Servers -> Seq(Writes \cup {Mixture})]]
  BY <1>1, <1>2, UpdateType, Zenon
<1> QED
  BY <1>1, <1>3, <1>4

\* The steps of the connection threads.
LEMMA ThreadsKeepTypes ==
    ASSUME TypeOK, NEW s \in Servers, NEW w \in Writes, ThreadStep(s, w)
    PROVE  TypeOK'
<1> USE TypeOK, PartsKept DEF TypeOK
<1>1. CASE Apply(s, w)
  <2>1. ContentOK'
    BY <1>1 DEF Apply, ContentOK
  <2>2. TrafficOK'
    BY <1>1 DEF Apply, Progress, TrafficOK, Stages
  <2> QED
    BY <1>1, <2>1, <2>2 DEF Apply
<1>2. CASE Check(s, w)
  <2>1. TrafficOK'
    BY <1>2 DEF Check, Progress, TrafficOK, Stages
  <2> QED
    BY <1>2, <2>1 DEF Check
<1>3. CASE Send(s, w)
  <2>1. link[s] \in Servers /\ link[s] # None
    BY <1>3 DEF Send, LinkingOK
  <2>2. TrafficOK'
    BY <1>3, <2>1 DEF Send, Progress, TrafficOK, Stages
  <2> QED
    BY <1>3, <2>2 DEF Send
<1>4. CASE Write(s, w)
  <2>1. peer[s][w] \in Servers
    BY <1>4 DEF Write, Progress, TrafficOK, Stages
  <2>2. queue' \in [Servers -> [Servers -> Seq(Writes \cup {Mixture})]]
    BY <1>4, <2>1, DeliverType, <<w>> \in Seq(Writes \cup {Mixture}) DEF Write
  <2>3. task' \in [Servers -> [Writes -> Stages]]
    BY <1>4 DEF Write, Progress, TrafficOK, Stages
  <2>4. \A t \in Servers, v \in Writes : task'[t][v] \in {"write", "wait"} => peer[t][v] # None
    BY <1>4 DEF Write, Progress, TrafficOK, Stages
  <2>5. UNCHANGED <<peer, current, replies, mixed>>
    BY <1>4 DEF Write
  <2>6. TrafficOK'
    BY <2>2, <2>3, <2>4, <2>5 DEF TrafficOK
  <2> QED
    BY <1>4, <2>6 DEF Write
<1>5. CASE WriteStaleFails(s, w)
  <2>1. TrafficOK'
    BY <1>5 DEF WriteStaleFails, Progress, TrafficOK, Stages
  <2> QED
    BY <1>5, <2>1 DEF WriteStaleFails
<1>6. CASE WriteStaleElsewhere(s, w)
  <2>1. link[s] \in Servers /\ link[s] # None
    BY <1>6 DEF WriteStaleElsewhere, LinkingOK
  <2>2. queue' \in [Servers -> [Servers -> Seq(Writes \cup {Mixture})]]
    <3>1. <<w>> \in Seq(Writes \cup {Mixture}) /\ <<Mixture>> \in Seq(Writes \cup {Mixture})
      OBVIOUS
    <3> QED
      BY <1>6, <2>1, <3>1, DeliverType DEF WriteStaleElsewhere
  <2>3. task' \in [Servers -> [Writes -> Stages]]
    BY <1>6 DEF WriteStaleElsewhere, Progress, TrafficOK, Stages
  <2>4. peer' \in [Servers -> [Writes -> Servers \cup {None}]]
    BY <1>6, <2>1 DEF WriteStaleElsewhere, TrafficOK
  <2>5. \A t \in Servers, v \in Writes : task'[t][v] \in {"write", "wait"} => peer'[t][v] # None
    BY <1>6, <2>1 DEF WriteStaleElsewhere, Progress, TrafficOK, Stages
  <2>6. UNCHANGED <<current, replies>> /\ mixed' \in BOOLEAN
    BY <1>6 DEF WriteStaleElsewhere, TrafficOK
  <2>7. TrafficOK'
    BY <2>2, <2>3, <2>4, <2>5, <2>6 DEF TrafficOK
  <2> QED
    BY <1>6, <2>7 DEF WriteStaleElsewhere
<1>7. CASE SendFails(s, w)
  BY <1>7, ExitKeepsTypes DEF SendFails
<1>8. CASE ReadReply(s, w)
  <2>1. Readable(s, w) \subseteq Servers
    BY DEF Readable, TrafficOK, LinkingOK
  <2>2. PICK t \in Servers : replies[s][t] > 0 /\ replies' = [replies EXCEPT ![s][t] = @ - 1]
    BY <1>8, <2>1 DEF ReadReply
  <2>3. replies' \in [Servers -> [Servers -> Nat]]
    <3>1. replies[s][t] - 1 \in Nat
      BY <2>2 DEF TrafficOK
    <3>2. replies' = [replies EXCEPT ![s][t] = replies[s][t] - 1]
      BY <2>2
    <3>3. replies \in [Servers -> [Servers -> Nat]]
      BY DEF TrafficOK
    <3> QED
      BY <3>1, <3>2, <3>3, UpdateType
  <2>4. task' \in [Servers -> [Writes -> Stages]]
    BY <1>8 DEF ReadReply, Progress, TrafficOK, Stages
  <2>5. peer' \in [Servers -> [Writes -> Servers \cup {None}]]
    BY <1>8 DEF ReadReply, TrafficOK
  <2>6. \A u \in Servers, v \in Writes : task'[u][v] \in {"write", "wait"} => peer'[u][v] # None
    <3>1. /\ task' = [task EXCEPT ![s][w] = "done"]
          /\ peer' = [peer EXCEPT ![s][w] = None]
      BY <1>8 DEF ReadReply, Progress
    <3> QED
      BY <3>1 DEF TrafficOK
  <2>7. UNCHANGED <<queue, current, mixed>>
    BY <1>8 DEF ReadReply
  <2>8. TrafficOK'
    BY <2>3, <2>4, <2>5, <2>6, <2>7 DEF TrafficOK
  <2> QED
    BY <1>8, <2>8 DEF ReadReply
<1>9. CASE ForwardFails(s, w)
  <2>1. TrafficOK'
    BY <1>9 DEF ForwardFails, Progress, TrafficOK, Stages
  <2> QED
    BY <1>9, <2>1 DEF ForwardFails
<1>10. CASE AnswerClient(s, w)
  <2>1. TrafficOK' /\ ClientsOK'
    BY <1>10 DEF AnswerClient, Progress, TrafficOK, Stages, ClientsOK
  <2> QED
    BY <1>10, <2>1 DEF AnswerClient
<1>11. ASSUME NEW t \in Servers, AnswerServer(t, s, w)
      PROVE  TypeOK'
  <2>1. replies' \in [Servers -> [Servers -> Nat]]
    <3>1. \/ replies' = replies
          \/ replies' = [replies EXCEPT ![t][s] = replies[t][s] + 1]
      BY <1>11 DEF AnswerServer
    <3>2. replies \in [Servers -> [Servers -> Nat]]
      BY DEF TrafficOK
    <3>3. replies[t][s] + 1 \in Nat
      BY <3>2
    <3>4. [replies EXCEPT ![t][s] = replies[t][s] + 1] \in [Servers -> [Servers -> Nat]]
      BY <3>2, <3>3, UpdateType
    <3> QED
      BY <3>1, <3>2, <3>4
  <2>2. task' \in [Servers -> [Writes -> Stages]]
    BY <1>11 DEF AnswerServer, Progress, TrafficOK, Stages
  <2>3. current' \in [Servers -> [Servers -> Writes \cup {None}]]
    BY <1>11 DEF AnswerServer, TrafficOK
  <2>4. \A u \in Servers, v \in Writes : task'[u][v] \in {"write", "wait"} => peer[u][v] # None
    BY <1>11 DEF AnswerServer, Progress, TrafficOK, Stages
  <2>5. UNCHANGED <<peer, queue, mixed>>
    BY <1>11 DEF AnswerServer
  <2>6. TrafficOK'
    BY <2>1, <2>2, <2>3, <2>4, <2>5 DEF TrafficOK
  <2> QED
    BY <1>11, <2>6 DEF AnswerServer
<1> QED
  BY <1>1, <1>2, <1>3, <1>4, <1>5, <1>6, <1>7, <1>8, <1>9, <1>10, <1>11 DEF ThreadStep

\* A client that sends a write, and a server that reads one.
LEMMA RequestsKeepTypes ==
    ASSUME TypeOK,
           \/ \E w \in Writes, s \in Servers : Submit(w, s)
           \/ \E s, t \in Servers : TakeRequest(s, t)
    PROVE  TypeOK'
<1> USE TypeOK, PartsKept DEF TypeOK
<1>1. ASSUME NEW w \in Writes, NEW s \in Servers, Submit(w, s)
      PROVE  TypeOK'
  <2>1. TrafficOK' /\ ClientsOK'
    BY <1>1 DEF Submit, Progress, TrafficOK, Stages, ClientsOK
  <2> QED
    BY <1>1, <2>1 DEF Submit
<1>2. ASSUME NEW s \in Servers, NEW t \in Servers, TakeRequest(s, t)
      PROVE  TypeOK'
  <2>1. /\ Head(queue[s][t]) \in Writes
        /\ Tail(queue[s][t]) \in Seq(Writes \cup {Mixture})
    BY <1>2 DEF TakeRequest, TrafficOK, Stages
  <2>2. queue' \in [Servers -> [Servers -> Seq(Writes \cup {Mixture})]]
    <3>1. queue \in [Servers -> [Servers -> Seq(Writes \cup {Mixture})]]
      BY DEF TrafficOK
    <3>2. queue' = [queue EXCEPT ![s][t] = Tail(queue[s][t])]
      BY <1>2 DEF TakeRequest
    <3> QED
      BY <2>1, <3>1, <3>2, UpdateType, Zenon
  <2>3. PICK w \in Writes : /\ current' = [current EXCEPT ![s][t] = w]
                            /\ task' = [task EXCEPT ![t][w] = "apply"]
    BY <1>2, <2>1 DEF TakeRequest
  <2>4. /\ current' \in [Servers -> [Servers -> Writes \cup {None}]]
        /\ task' \in [Servers -> [Writes -> Stages]]
        /\ \A u \in Servers, v \in Writes : task'[u][v] \in {"write", "wait"} => peer[u][v] # None
    BY <2>3 DEF TrafficOK, Stages
  <2>5. UNCHANGED <<peer, replies, mixed>>
    BY <1>2 DEF TakeRequest
  <2>6. TrafficOK'
    BY <2>2, <2>4, <2>5 DEF TrafficOK
  <2> QED
    BY <1>2, <2>6 DEF TakeRequest
<1> QED
  BY <1>1, <1>2

\* Threads that come between the calls of each other, and what that leaves.
LEMMA MixedKeepsTypes ==
    ASSUME TypeOK, NEW s \in Servers, MixedStep(s)
    PROVE  TypeOK'
<1> USE TypeOK, PartsKept DEF TypeOK
<1>1. ASSUME NEW w \in Writes, WriteMixes(s, w)
      PROVE  TypeOK'
  <2>1. peer[s][w] \in Servers
    BY <1>1 DEF WriteMixes, Progress, TrafficOK, Stages
  <2>2. queue' \in [Servers -> [Servers -> Seq(Writes \cup {Mixture})]]
    BY <1>1, <2>1, DeliverType, <<Mixture, w>> \in Seq(Writes \cup {Mixture}) DEF WriteMixes
  <2>3. task' \in [Servers -> [Writes -> Stages]]
    BY <1>1 DEF WriteMixes, Progress, TrafficOK, Stages
  <2>4. \A t \in Servers, v \in Writes : task'[t][v] \in {"write", "wait"} => peer[t][v] # None
    BY <1>1 DEF WriteMixes, Progress, TrafficOK, Stages
  <2>5. UNCHANGED <<peer, current, replies>> /\ mixed' \in BOOLEAN
    BY <1>1 DEF WriteMixes
  <2>6. TrafficOK'
    BY <2>2, <2>3, <2>4, <2>5 DEF TrafficOK
  <2> QED
    BY <1>1, <2>6 DEF WriteMixes
<1>2. ASSUME NEW w \in Writes, ReadsMix(s, w)
      PROVE  TypeOK'
  <2>1. LinkingOK' /\ TrafficOK'
    BY <1>2 DEF ReadsMix, LinkingOK, TrafficOK
  <2> QED
    BY <1>2, <2>1 DEF ReadsMix
<1>3. ASSUME NEW w \in Writes, ReadTorn(s, w)
      PROVE  TypeOK'
  <2>1. TrafficOK'
    BY <1>3 DEF ReadTorn, Progress, TrafficOK, Stages
  <2> QED
    BY <1>3, <2>1 DEF ReadTorn
<1>4. ASSUME NEW t \in Servers, RefuseMixture(t, s)
      PROVE  TypeOK'
  <2>1. queue' \in [Servers -> [Servers -> Seq(Writes \cup {Mixture})]]
    <3>1. <<>> \in Seq(Writes \cup {Mixture})
      OBVIOUS
    <3>2. queue \in [Servers -> [Servers -> Seq(Writes \cup {Mixture})]]
      BY DEF TrafficOK
    <3> QED
      BY <1>4, <3>1, <3>2, UpdateType, Zenon DEF RefuseMixture
  <2>2. LinkingOK' /\ TrafficOK'
    BY <1>4, <2>1 DEF RefuseMixture, LinkingOK, TrafficOK
  <2> QED
    BY <1>4, <2>2 DEF RefuseMixture
<1>5. ASSUME NEW t \in Servers, AcceptMixture(t, s)
      PROVE  TypeOK'
  <2> DEFINE rest(i) == <<Mixture>> \o SubSeq(queue[t][s], i + 1, Len(queue[t][s]))
  <2>1. PICK i \in 2 .. Len(queue[t][s]) :
            /\ queue[t][s][i] # Mixture
            /\ current' = [current EXCEPT ![t][s] = queue[t][s][i]]
            /\ task' = [task EXCEPT ![s][queue[t][s][i]] = "apply"]
            /\ queue' = [queue EXCEPT ![t][s] = rest(i)]
    BY <1>5 DEF AcceptMixture
  <2>2. /\ queue[t][s] \in Seq(Writes \cup {Mixture})
        /\ queue \in [Servers -> [Servers -> Seq(Writes \cup {Mixture})]]
    BY DEF TrafficOK
  <2>3. queue[t][s][i] \in Writes
    BY <2>1, <2>2
  <2>8. rest(i) \in Seq(Writes \cup {Mixture})
    <3> DEFINE tail == SubSeq(queue[t][s], i + 1, Len(queue[t][s]))
    <3>1. tail \in Seq(Writes \cup {Mixture})
      BY <2>2, i + 1 \in 1 .. Len(queue[t][s]) + 1
    <3> HIDE DEF tail
    <3>2. <<Mixture>> \o tail \in Seq(Writes \cup {Mixture})
      BY <3>1
    <3> QED
      BY <3>2 DEF tail
  <2> HIDE DEF rest
  <2>4. queue' \in [Servers -> [Servers -> Seq(Writes \cup {Mixture})]]
    BY <2>1, <2>2, <2>8, UpdateType, Zenon
  <2>5. /\ current' \in [Servers -> [Servers -> Writes \cup {None}]]
        /\ task' \in [Servers -> [Writes -> Stages]]
        /\ \A u \in Servers, v \in Writes : task'[u][v] \in {"write", "wait"} => peer[u][v] # None
    <3> DEFINE w == queue[t][s][i]
    <3>1. w \in Writes /\ current' = [current EXCEPT ![t][s] = w]
          /\ task' = [task EXCEPT ![s][w] = "apply"]
      BY <2>1, <2>3
    <3> HIDE DEF w
    <3> QED
      BY <3>1 DEF TrafficOK, Stages
  <2>6. UNCHANGED <<peer, replies, mixed>>
    BY <1>5 DEF AcceptMixture
  <2>7. TrafficOK'
    BY <2>4, <2>5, <2>6 DEF TrafficOK
  <2> QED
    BY <1>5, <2>7 DEF AcceptMixture
<1>6. ASSUME NEW t \in Servers, FollowMixture(t, s)
      PROVE  TypeOK'
  BY <1>6, ExitKeepsTypes DEF FollowMixture
<1> QED
  BY <1>1, <1>2, <1>3, <1>4, <1>5, <1>6 DEF MixedStep

-----------------------------------------------------------------------------
\* Forwarding upwards

ForwardVars == <<pc, seqno, watch, event, target, zoo_data, connecting, next_server, link>>

\* What most steps leave alone.
LEMMA ForwardKept ==
    ASSUME ForwardInv, UNCHANGED ForwardVars
    PROVE  ForwardInv'
  BY DEF ForwardInv, NumbersGrow, LastRunListens, TokenKept, LookupsLeadUp, ForwardUp,
         ForwardVars, connecting, Alive, Listening, Upward, Numbered

\* A process that ends takes its lookups and its link with it, and an end
\* changes no number.
LEMMA DieKeepsForward ==
    ASSUME TypeOK, ForwardInv, NEW s \in Servers, NEW how \in {"exited", "crashed"}, Die(s, how)
    PROVE  ForwardInv'
<1> USE DEF ForwardInv
<1>1. /\ \A t \in Servers : pc'[t] = IF t = s THEN how ELSE pc[t]
      /\ UNCHANGED seqno
      /\ \A t \in Servers : Alive(t)' <=> Alive(t) /\ t # s
  BY DEF Die, Alive, Dead, zookeeper, TypeOK, JoiningOK
<1>2. NumbersGrow'
  BY <1>1 DEF NumbersGrow, Numbered, Unnumbered
<1>3. LastRunListens'
  BY <1>1 DEF LastRunListens
<1>4. LookupsLeadUp'
  BY <1>1 DEF LookupsLeadUp, Die, Listening, Upward, TypeOK, WatchingOK, LinkingOK
<1>5. ForwardUp'
  BY <1>1 DEF ForwardUp, Die, Upward, TypeOK, LinkingOK
<1>6. TokenKept'
  BY <1>1 DEF TokenKept, Die, TypeOK, WatchingOK
<1> QED
  BY <1>2, <1>3, <1>4, <1>5, <1>6

LEMMA StartKeepsForward ==
    ASSUME TypeOK, ForwardInv, NEW s \in Servers, Start(s)
    PROVE  ForwardInv'
<1> USE DEF ForwardInv
<1>1. /\ UNCHANGED <<seqno, watch, event, target, zoo_data, connecting, next_server, link>>
      /\ pc[s] = "off" /\ seqno[s] = 0 /\ Listening(Address[s]) = {}
      /\ pc' = [pc EXCEPT ![s] = "started"]
      /\ \A t \in Servers : Alive(t)' <=> Alive(t) \/ t = s
  BY DEF Start, Arrives, NumbersGrow, Unnumbered, Alive, Dead, TypeOK, JoiningOK,
         zookeeper, watching, linking
<1>2. NumbersGrow'
  BY <1>1 DEF NumbersGrow, Numbered, Unnumbered, TypeOK, JoiningOK
<1>3. LastRunListens'
  BY <1>1 DEF LastRunListens, Listening
<1>4. LookupsLeadUp'
  BY <1>1 DEF LookupsLeadUp, Listening, Upward, Alive, Dead, connecting
<1>5. ForwardUp'
  BY <1>1 DEF ForwardUp, Upward, connecting
<1>6. TokenKept'
  BY <1>1 DEF TokenKept, connecting, TypeOK, JoiningOK
<1> QED
  BY <1>2, <1>3, <1>4, <1>5, <1>6

\* The new znode has the largest number, and no other server listens on the
\* address of its creator.
LEMMA CreateNodeKeepsForward ==
    ASSUME TypeOK, ForwardInv, NEW s \in Servers, CreateNode(s)
    PROVE  ForwardInv'
<1> USE DEF ForwardInv
<1> DEFINE n == 1 + Cardinality(Numbered)
<1>1. /\ n \in Nat /\ \A t \in Servers : seqno[t] \in Nat /\ seqno[t] < n
      /\ seqno' = [seqno EXCEPT ![s] = n] /\ seqno \in [Servers -> Nat]
  BY NumberedFinite DEF CreateNode, NumbersGrow, TypeOK, ZooKeeperOK
<1>2. /\ pc[s] = "create_node" /\ seqno[s] = 0
      /\ \A t \in Servers : pc'[t] = IF t = s THEN "list" ELSE pc[t]
      /\ \A t \in Servers : Alive(t)' <=> Alive(t)
      /\ Alive(s)
  BY DEF CreateNode, Arrives, NumbersGrow, Unnumbered, Alive, Dead, TypeOK, JoiningOK
<1>3. Cardinality(Numbered') = n
  <2>1. s \notin Numbered /\ Numbered' = Numbered \cup {s}
    BY <1>1, <1>2 DEF Numbered
  <2> QED
    BY <2>1, NumberedFinite, FS_AddElement
<1>4. /\ UNCHANGED <<target, zoo_data, connecting, next_server, link>>
      /\ \A t \in Servers : watch'[t] \/ event'[t] => watch[t] \/ event[t]
  BY DEF CreateNode, ChildrenChange, linking
<1> HIDE DEF n
<1>5. NumbersGrow'
  BY <1>1, <1>2, <1>3 DEF NumbersGrow, Unnumbered
<1>6. LastRunListens'
  BY <1>1, <1>2 DEF LastRunListens
<1>7. ~watch[s] /\ ~event[s] /\ target[s] = None /\ zoo_data[s] = None /\ link[s] = None
  BY <1>2 DEF LookupsLeadUp
<1>8. LookupsLeadUp'
  <2>1. \A t \in Servers : t # s => seqno'[t] = seqno[t]
    BY <1>1
  <2>2. ASSUME NEW t \in Servers
        PROVE  /\ \/ watch'[t] \/ event'[t] \/ target'[t] # None
                  \/ zoo_data'[t] # None \/ link'[t] # None
                  => Alive(t)' /\ seqno'[t] # 0
               /\ target'[t] # None => seqno'[target'[t]] > seqno'[t]
               /\ reconnecting'[t] =>
                    target'[t] # None /\ zoo_data'[t] # None /\ next_server'[t] = zoo_data'[t]
    BY <1>1, <1>2, <1>4, <1>7, <2>1 DEF LookupsLeadUp, TypeOK, WatchingOK, connecting
  <2>3. ASSUME NEW t \in Servers, zoo_data'[t] # None, NEW u \in Listening(zoo_data[t])'
        PROVE  Upward(t, u)'
    <3>1. t # s /\ u \in Listening(zoo_data[t]) /\ Upward(t, u) /\ u \in Servers
      BY <1>2, <1>4, <1>7, <2>3 DEF LookupsLeadUp, Listening
    <3> QED
      BY <1>1, <3>1 DEF Upward
  <2> QED
    BY <1>4, <2>2, <2>3 DEF LookupsLeadUp
<1>9. ForwardUp'
  BY <1>1, <1>4, <1>7 DEF ForwardUp, Upward, TypeOK, LinkingOK, connecting
<1>10. TokenKept'
  BY <1>2, <1>4 DEF TokenKept, connecting
<1> QED
  BY <1>5, <1>6, <1>8, <1>9, <1>10

\* The other steps of main.
LEMMA MainKeepsForward ==
    ASSUME TypeOK, ForwardInv, NEW s \in Servers, MainStep(s)
    PROVE  ForwardInv'
<1> USE DEF ForwardInv
<1>1. CASE \/ FindRoot(s) \/ CreateRoot(s) \/ ListChildren(s)
           \/ SplitPrev(s) \/ ConnectPrev(s) \/ Fetch(s)
  <2> USE DEF FindRoot, CreateRoot, ListChildren, SplitPrev, ConnectPrev, Fetch, Arrives
  <2>1. /\ UNCHANGED <<seqno, event, target, zoo_data, reconnecting, next_server, link>>
        /\ raced \subseteq raced'
        /\ \A t \in Servers : Alive(t)' <=> Alive(t)
        /\ \A t \in Servers : Alive(t) => (pc'[t] \in Unnumbered <=> pc[t] \in Unnumbered)
        /\ \A t \in Servers : ~Alive(t) => pc'[t] = pc[t]
    BY <1>1 DEF First, Alive, Dead, Unnumbered, TypeOK, JoiningOK, zookeeper, watching,
                connecting, linking
  <2>2. \A t \in Servers : watch'[t] => watch[t] \/ (t = s /\ pc[s] = "list")
    BY <1>1 DEF watching, TypeOK, WatchingOK
  <2>3. NumbersGrow'
    BY <2>1 DEF NumbersGrow, Numbered, Alive
  <2>4. LastRunListens'
    BY <2>1 DEF LastRunListens
  <2>5. LookupsLeadUp'
    <3>1. pc[s] = "list" => Alive(s) /\ seqno[s] # 0
      BY DEF NumbersGrow, Alive, Dead, Unnumbered
    <3> QED
      BY <2>1, <2>2, <3>1 DEF LookupsLeadUp, Listening, Upward
  <2>6. ForwardUp'
    BY <2>1 DEF ForwardUp, Upward
  <2>7. TokenKept'
    <3>1. CASE SplitPrev(s)
      <4>1. /\ pc' = [pc EXCEPT ![s] = "split"] /\ token' = [token EXCEPT ![s] = "main"]
            /\ UNCHANGED reconnecting
            /\ raced' = IF reconnecting[s] THEN raced \cup {s} ELSE raced
        BY <3>1 DEF First
      <4> QED
        BY <4>1 DEF TokenKept, TypeOK, JoiningOK, WatchingOK
    <3>2. CASE ConnectPrev(s)
      <4>1. /\ pc[s] = "split" /\ pc' = [pc EXCEPT ![s] = "fetch"]
            /\ token' = [token EXCEPT ![s] = "none"]
            /\ UNCHANGED <<reconnecting, raced>>
        BY <3>2
      <4> QED
        BY <4>1 DEF TokenKept, TypeOK, JoiningOK, WatchingOK
    <3>3. CASE ~SplitPrev(s) /\ ~ConnectPrev(s)
      <4>1. /\ UNCHANGED <<token, reconnecting, raced>>
            /\ \A t \in Servers : pc'[t] = "split" => pc[t] = "split"
        BY <1>1, <3>3 DEF watching, connecting, TypeOK, JoiningOK
      <4> QED
        BY <4>1 DEF TokenKept
    <3> QED
      BY <3>1, <3>2, <3>3
  <2> QED
    BY <2>3, <2>4, <2>5, <2>6, <2>7
<1>2. CASE CreateNode(s)
  BY <1>2, CreateNodeKeepsForward
<1>3. CASE CreateRootFails(s) \/ ConnectPrevFails(s) \/ FetchFails(s)
  BY <1>3, DieKeepsForward DEF CreateRootFails, ConnectPrevFails, FetchFails, Exits
<1> QED
  BY <1>1, <1>2, <1>3 DEF MainStep

\* What zoo_get finds leads upwards: the address of a listed successor, at which
\* a later run may listen, or an old address.
LEMMA FoundLeadsUp ==
    ASSUME TypeOK, ForwardInv, NEW s \in Servers, target[s] # None,
           NEW a \in Found(s), NEW t \in Listening(a)
    PROVE  Upward(s, t)
<1> USE DEF ForwardInv
<1>1. Alive(s) /\ seqno[s] # 0
  BY DEF LookupsLeadUp
<1>2. t \in Servers /\ Alive(t) /\ Address[t] = a
  BY DEF Listening
<1>3. a # None
  BY <1>2, AddressAssumption
<1>4. CASE a = zoo_data[s]
  BY <1>3, <1>4 DEF LookupsLeadUp
<1>5. CASE target[s] \in znodes /\ a = Address[target[s]]
  <2>1. target[s] \in Servers /\ target[s] # None
    BY <1>5, ServersAssumption DEF TypeOK, ZooKeeperOK, Numbered
  <2>2. seqno[target[s]] > seqno[s]
    BY <2>1 DEF LookupsLeadUp
  <2>3. t # target[s] /\ seqno[t] # 0 => seqno[target[s]] < seqno[t]
    BY <1>2, <1>5, <2>1 DEF LastRunListens
  <2>4. t # s
    BY <1>1, <1>2, <1>5, <2>1, <2>2 DEF LastRunListens, TypeOK, ZooKeeperOK
  <2> QED
    BY <1>2, <2>1, <2>2, <2>3, <2>4 DEF Upward, TypeOK, ZooKeeperOK
<1> QED
  BY <1>3, <1>4, <1>5 DEF Found

\* The steps of child_watcher.
LEMMA WatcherKeepsForward ==
    ASSUME TypeOK, ForwardInv, NEW s \in Servers, WatcherStep(s)
    PROVE  ForwardInv'
<1> USE DEF ForwardInv
<1>1. CASE WatcherFails(s)
  BY <1>1, DieKeepsForward DEF WatcherFails, Exits
<1>2. CASE WatcherListFails(s)
  <2>1. CASE Die(s, "exited")
    BY <2>1, DieKeepsForward
  <2>2. CASE ~ Die(s, "exited")
    <3>1. /\ UNCHANGED <<pc, seqno, watch, target, zoo_data, connecting, next_server, link>>
          /\ \A t \in Servers : event'[t] => event[t]
      BY <1>2, <2>2 DEF WatcherListFails, joining, zookeeper, linking, TypeOK, WatchingOK
    <3> QED
      BY <3>1 DEF NumbersGrow, LastRunListens, TokenKept, LookupsLeadUp, ForwardUp, connecting,
                  Numbered, Alive, Listening, Upward
  <2> QED
    BY <2>1, <2>2
<1>3. CASE WatcherLists(s) \/ WatcherSplits(s) \/ WatcherConnects(s) \/ WatcherKeeps(s)
  <2>1. /\ UNCHANGED <<pc, seqno>>
        /\ Alive(s) /\ seqno[s] # 0
    BY <1>3 DEF WatcherLists, WatcherSplits, WatcherConnects, WatcherKeeps, LookupsLeadUp,
                joining, zookeeper
  <2>2. NumbersGrow' /\ LastRunListens'
    BY <2>1 DEF NumbersGrow, LastRunListens, Numbered, Alive
  <2>3. CASE WatcherLists(s)
    <3>1. ASSUME target'[s] # None
          PROVE  seqno[target'[s]] > seqno[s]
      <4>1. Behind(s) # {} /\ target'[s] = HeadOf(Behind(s))
        BY <2>3, <3>1 DEF WatcherLists, TypeOK, WatchingOK
      <4>2. Behind(s) \in SUBSET Servers /\ seqno \in [Servers -> Nat]
        BY DEF Behind, TypeOK, ZooKeeperOK, Numbered
      <4>3. target'[s] \in Behind(s)
        BY <4>1, <4>2, HeadIsFirst
      <4> QED
        BY <4>3 DEF Behind
    <3>2. /\ UNCHANGED <<zoo_data, reconnecting, token, raced>>
          /\ ~reconnecting[s]
          /\ \A t \in Servers : t # s =>
              /\ watch'[t] = watch[t] /\ event'[t] = event[t] /\ target'[t] = target[t]
              /\ link'[t] = link[t] /\ next_server'[t] = next_server[t]
          /\ link'[s] # None => link'[s] = link[s]
      BY <2>3 DEF WatcherLists, LookupsLeadUp, linking, connecting, TypeOK, WatchingOK, LinkingOK
    <3>3. LookupsLeadUp'
      BY <2>1, <3>1, <3>2 DEF LookupsLeadUp, Listening, Upward, Alive
    <3>4. ForwardUp' /\ TokenKept'
      BY <2>1, <3>2 DEF ForwardUp, TokenKept, Upward
    <3> QED
      BY <2>2, <3>3, <3>4
  <2>4. CASE WatcherSplits(s) \/ WatcherKeeps(s)
    <3>1. PICK a \in Found(s) :
              /\ zoo_data' = [zoo_data EXCEPT ![s] = a]
              /\ WatcherSplits(s) => a # None /\ next_server' = [next_server EXCEPT ![s] = a]
      BY <2>4 DEF WatcherSplits, WatcherKeeps
    <3>2. target[s] # None
      BY <2>4 DEF WatcherSplits, WatcherKeeps
    <3>3. \A t \in Listening(a) : Upward(s, t)
      BY <3>2, FoundLeadsUp
    <3>4. /\ UNCHANGED <<watch, event, link>> /\ ~reconnecting[s]
          /\ \A t \in Servers : target'[t] # None => target'[t] = target[t]
          /\ \A t \in Servers : t # s => target'[t] = target[t] /\ reconnecting'[t] = reconnecting[t]
          /\ \A t \in Servers : t # s => next_server'[t] = next_server[t]
          /\ raced \subseteq raced'
      BY <2>4 DEF WatcherSplits, WatcherKeeps, First, linking, connecting, TypeOK, WatchingOK,
                  LinkingOK
    <3>5. reconnecting'[s] =>
              /\ WatcherSplits(s) /\ target'[s] # None
              /\ zoo_data'[s] # None /\ next_server'[s] = zoo_data'[s]
      BY <2>4, <3>1, <3>2, <3>4 DEF WatcherSplits, WatcherKeeps, connecting, TypeOK, WatchingOK,
                                  LinkingOK
    <3>6. LookupsLeadUp'
      <4>1. ASSUME NEW t \in Servers
            PROVE  /\ \/ watch'[t] \/ event'[t] \/ target'[t] # None
                      \/ zoo_data'[t] # None \/ link'[t] # None
                      => Alive(t)' /\ seqno'[t] # 0
                   /\ target'[t] # None => seqno'[target'[t]] > seqno'[t]
                   /\ reconnecting'[t] =>
                        target'[t] # None /\ zoo_data'[t] # None /\ next_server'[t] = zoo_data'[t]
        <5>1. CASE t = s
          BY <2>1, <3>4, <3>5, <5>1 DEF LookupsLeadUp, Alive
        <5>2. CASE t # s
          BY <2>1, <3>1, <3>4, <5>2 DEF LookupsLeadUp, Alive, TypeOK, WatchingOK
        <5> QED
          BY <5>1, <5>2
      <4>2. ASSUME NEW t \in Servers, zoo_data'[t] # None, NEW u \in Listening(zoo_data[t])'
            PROVE  Upward(t, u)'
        <5>1. u \in Listening(zoo_data'[t])
          BY <2>1, <4>2 DEF Listening, Alive
        <5>2. Upward(t, u)
          <6>1. CASE t = s
            BY <3>1, <3>3, <5>1, <6>1 DEF TypeOK, WatchingOK
          <6>2. CASE t # s
            BY <3>1, <4>2, <5>1, <6>2 DEF LookupsLeadUp, TypeOK, WatchingOK
          <6> QED
            BY <6>1, <6>2
        <5> QED
          BY <2>1, <5>2 DEF Upward
      <4> QED
        BY <4>1, <4>2 DEF LookupsLeadUp
    <3>7. ForwardUp'
      BY <2>1, <3>4 DEF ForwardUp, Upward
    <3>8. TokenKept'
      <4>1. CASE WatcherSplits(s)
        <5>1. /\ token' = [token EXCEPT ![s] = "watcher"]
              /\ reconnecting' = [reconnecting EXCEPT ![s] = TRUE]
              /\ raced' = IF pc[s] = "split" THEN raced \cup {s} ELSE raced
          BY <4>1 DEF WatcherSplits, First
        <5> QED
          BY <2>1, <5>1 DEF TokenKept, TypeOK, WatchingOK
      <4>2. CASE WatcherKeeps(s)
        BY <2>1, <4>2 DEF WatcherKeeps, TokenKept, connecting
      <4> QED
        BY <2>4, <4>1, <4>2
    <3> QED
      BY <2>2, <3>6, <3>7, <3>8
  <2>5. CASE WatcherConnects(s)
    <3>1. /\ UNCHANGED <<watch, event, zoo_data, raced, next_server>>
          /\ target' = [target EXCEPT ![s] = None]
          /\ reconnecting' = [reconnecting EXCEPT ![s] = FALSE]
          /\ token' = [token EXCEPT ![s] = "none"]
          /\ reconnecting[s]
      BY <2>5 DEF WatcherConnects
    <3>2. PICK t \in Reached(s, "watcher", next_server[s]) : link' = [link EXCEPT ![s] = t]
      BY <2>5 DEF WatcherConnects
    <3>3. s \notin raced => Upward(s, t)
      <4>1. ASSUME s \notin raced
            PROVE  t \in Listening(zoo_data[s]) /\ zoo_data[s] # None
        BY <3>1, <3>2, <4>1 DEF TokenKept, Reached, LookupsLeadUp
      <4> QED
        BY <4>1 DEF LookupsLeadUp
    <3>4. LookupsLeadUp'
      <4>1. ASSUME NEW u \in Servers
            PROVE  /\ \/ watch'[u] \/ event'[u] \/ target'[u] # None
                      \/ zoo_data'[u] # None \/ link'[u] # None
                      => Alive(u)' /\ seqno'[u] # 0
                   /\ target'[u] # None => seqno'[target'[u]] > seqno'[u]
                   /\ reconnecting'[u] =>
                        target'[u] # None /\ zoo_data'[u] # None /\ next_server'[u] = zoo_data'[u]
        <5>1. CASE u = s
          BY <2>1, <3>1, <5>1 DEF Alive, TypeOK, WatchingOK
        <5>2. CASE u # s
          BY <2>1, <3>1, <3>2, <5>2 DEF LookupsLeadUp, Alive, TypeOK, WatchingOK, LinkingOK
        <5> QED
          BY <5>1, <5>2
      <4>2. \A u \in Servers : zoo_data'[u] # None =>
                \A v \in Listening(zoo_data[u])' : Upward(u, v)'
        BY <2>1, <3>1 DEF LookupsLeadUp, Listening, Alive, Upward
      <4> QED
        BY <3>1, <4>1, <4>2 DEF LookupsLeadUp
    <3>5. ForwardUp'
      BY <2>1, <3>1, <3>2, <3>3 DEF ForwardUp, Upward, TypeOK, LinkingOK
    <3>6. TokenKept'
      <4>1. s \notin raced => pc[s] # "split"
        BY <3>1 DEF TokenKept
      <4> QED
        BY <2>1, <3>1, <4>1 DEF TokenKept, TypeOK, WatchingOK
    <3> QED
      BY <2>2, <3>4, <3>5, <3>6
  <2> QED
    BY <1>3, <2>3, <2>4, <2>5
<1> QED
  BY <1>1, <1>2, <1>3 DEF WatcherStep

\* The end of a session takes a znode away and fires watches.
LEMMA SessionEndKeepsForward ==
    ASSUME TypeOK, ForwardInv, NEW s \in Servers, SessionEnds(s)
    PROVE  ForwardInv'
<1> USE DEF ForwardInv
<1>1. /\ UNCHANGED <<pc, seqno, target, zoo_data, connecting, next_server, link>>
      /\ \A t \in Servers : watch'[t] \/ event'[t] => watch[t] \/ event[t]
  BY DEF SessionEnds, ChildrenChange, joining, linking
<1> QED
  BY <1>1 DEF NumbersGrow, LastRunListens, TokenKept, LookupsLeadUp, ForwardUp, connecting,
              Numbered, Alive, Listening, Upward

\* Connection threads touch no link; one that meets a null pointer ends the process.
LEMMA ThreadsKeepForward ==
    ASSUME TypeOK, ForwardInv, NEW s \in Servers, NEW w \in Writes, ThreadStep(s, w)
    PROVE  ForwardInv'
<1>1. CASE SendFails(s, w)
  BY <1>1, DieKeepsForward DEF SendFails, Exits
<1>2. CASE ~SendFails(s, w)
  <2>1. UNCHANGED ForwardVars
    BY <1>2 DEF ThreadStep, Apply, Check, Send, Write, WriteStaleFails, WriteStaleElsewhere,
                ReadReply, ForwardFails, AnswerClient, AnswerServer, ForwardVars,
                joining, zookeeper, watching, linking
  <2> QED
    BY <2>1, ForwardKept
<1> QED
  BY <1>1, <1>2

LEMMA MixedKeepsForward ==
    ASSUME TypeOK, ForwardInv, NEW s \in Servers, MixedStep(s)
    PROVE  ForwardInv'
<1>1. CASE \E t \in Servers : FollowMixture(t, s)
  BY <1>1, DieKeepsForward DEF FollowMixture, Exits
<1>2. CASE ~ \E t \in Servers : FollowMixture(t, s)
  <2>1. UNCHANGED ForwardVars
    BY <1>2 DEF MixedStep, WriteMixes, ReadsMix, ReadTorn, RefuseMixture, AcceptMixture,
                ForwardVars, joining, zookeeper, watching, linking
  <2> QED
    BY <2>1, ForwardKept
<1> QED
  BY <1>1, <1>2

-----------------------------------------------------------------------------
\* The invariant

ChainInv == TypeOK /\ ForwardInv

\* The place of a server in the initial chain.
LEMMA PlaceProperties ==
    /\ \A s \in Servers :
        /\ Place(s) \in Nat
        /\ Place(s) # 0 => Place(s) \in DOMAIN InitialChain /\ InitialChain[Place(s)] = s
    /\ \A i \in DOMAIN InitialChain : InitialChain[i] \in Servers /\ Place(InitialChain[i]) = i
<1>1. DOMAIN InitialChain = 1 .. Len(InitialChain) /\ Len(InitialChain) \in Nat
      /\ \A i \in DOMAIN InitialChain : InitialChain[i] \in Servers
  BY InitialAssumption
<1>2. \A i, j \in DOMAIN InitialChain : InitialChain[i] = InitialChain[j] => i = j
  BY InitialAssumption
<1>3. ASSUME NEW s \in Servers, \E i \in DOMAIN InitialChain : InitialChain[i] = s
      PROVE  Place(s) \in DOMAIN InitialChain /\ InitialChain[Place(s)] = s
  BY <1>3, Zenon DEF Place
<1>4. ASSUME NEW s \in Servers, ~ \E i \in DOMAIN InitialChain : InitialChain[i] = s
      PROVE  Place(s) = 0
  BY <1>4, Zenon DEF Place
<1> QED
  BY <1>1, <1>2, <1>3, <1>4

\* The initial chain is well linked and numbered 1, 2, 3, ...
LEMMA InitEstablishesChainInv ==
    ASSUME Init
    PROVE  ChainInv
<1>1. \A s \in Servers : InitialNext(s) \in Servers \cup {None}
  BY PlaceProperties, InitialAssumption DEF InitialNext
<1>2. \A s \in Servers : InitialNext(s) # None =>
        /\ Place(s) # 0 /\ InitialNext(s) \in Servers
        /\ Place(InitialNext(s)) = Place(s) + 1
  BY PlaceProperties, InitialAssumption DEF InitialNext
<1>3. /\ \A s \in Servers : seqno[s] = Place(s) /\ seqno[s] \in Nat
      /\ \A s \in Servers : Alive(s) <=> Place(s) # 0
      /\ \A s \in Servers : pc[s] = IF Place(s) = 0 THEN "off" ELSE "serving"
  BY PlaceProperties DEF Init, Alive, Dead
<1>4. TypeOK
  <2>1. JoiningOK /\ ZooKeeperOK
    BY <1>3, PlaceProperties DEF Init, JoiningOK, ZooKeeperOK, Numbered, Dead
  <2>2. WatchingOK /\ LinkingOK
    BY <1>1, AddressAssumption, ServersAssumption DEF Init, WatchingOK, LinkingOK
  <2>3. ContentOK /\ ClientsOK /\ failures \in Nat
    BY DEF Init, ContentOK, ClientsOK
  <2>4. TrafficOK
    <3>1. /\ \A s \in Servers, w \in Writes : task[s][w] = "none"
          /\ task \in [Servers -> [Writes -> Stages]]
      BY DEF Init, Stages
    <3>2. <<>> \in Seq(Writes \cup {Mixture})
      OBVIOUS
    <3>3. [t \in Servers |-> <<>>] \in [Servers -> Seq(Writes \cup {Mixture})]
      BY <3>2
    <3>4. queue \in [Servers -> [Servers -> Seq(Writes \cup {Mixture})]]
      BY <3>3 DEF Init
    <3>5. /\ peer \in [Servers -> [Writes -> Servers \cup {None}]]
          /\ current \in [Servers -> [Servers -> Writes \cup {None}]]
          /\ replies \in [Servers -> [Servers -> Nat]]
          /\ mixed \in BOOLEAN
      BY DEF Init
    <3> QED
      BY <3>1, <3>4, <3>5 DEF TrafficOK
  <2> QED
    BY <2>1, <2>2, <2>3, <2>4 DEF TypeOK
<1>5. NumbersGrow
  <2>1. Cardinality(Numbered) = Len(InitialChain)
    <3> DEFINE n == Len(InitialChain)
               f == [i \in 1 .. n |-> InitialChain[i]]
    <3>1. DOMAIN InitialChain = 1 .. n /\ n \in Nat
      BY InitialAssumption
    <3>2. f \in [1 .. n -> Numbered]
      BY <3>1, <1>3, PlaceProperties DEF Numbered
    <3>3. \A i, j \in 1 .. n : f[i] = f[j] => i = j
      BY <3>1, PlaceProperties
    <3>4. \A s \in Numbered : \E i \in 1 .. n : f[i] = s
      BY <3>1, <1>3, PlaceProperties DEF Numbered
    <3>5. f \in Bijection(1 .. n, Numbered)
      BY <3>2, <3>3, <3>4, Fun_IsBij, Zenon
    <3>6. ExistsBijection(1 .. n, Numbered)
      BY <3>5, Zenon DEF ExistsBijection
    <3> QED
      BY <3>1, <3>6, FS_CountingElements, Zenon
  <2>2. \A s \in Servers : seqno[s] <= Len(InitialChain)
    BY <1>3, PlaceProperties, InitialAssumption
  <2> QED
    BY <1>3, <2>1, <2>2 DEF NumbersGrow, Unnumbered, Alive
<1>6. LastRunListens
  BY <1>3, PlaceProperties, InitialAssumption DEF LastRunListens
<1>7. \A s \in Servers : /\ target[s] = None /\ ~event[s] /\ link[s] = InitialNext(s)
                         /\ watch[s] => Place(s) # 0
                         /\ zoo_data[s] = IF InitialNext(s) = None THEN None
                                                           ELSE Address[InitialNext(s)]
  BY DEF Init
<1>10. \A s \in Servers : ~reconnecting[s] /\ pc[s] # "split"
  BY <1>3 DEF Init
<1>8. LookupsLeadUp
  <2>1. ASSUME NEW s \in Servers, zoo_data[s] # None, NEW t \in Listening(zoo_data[s])
        PROVE  Upward(s, t)
    <3>1. InitialNext(s) # None /\ Address[t] = Address[InitialNext(s)] /\ t \in Servers /\ Alive(t)
      BY <1>7, <2>1 DEF Listening
    <3>2. t = InitialNext(s)
      BY <1>2, <1>3, <1>6, <3>1, PlaceProperties DEF LastRunListens
    <3> QED
      BY <1>2, <1>3, <3>1, <3>2, PlaceProperties DEF Upward
  <2> QED
    BY <1>2, <1>3, <1>7, <1>10, <2>1, PlaceProperties DEF LookupsLeadUp
<1>9. ForwardUp
  BY <1>2, <1>3, <1>7, PlaceProperties DEF ForwardUp, Upward
<1>11. TokenKept
  BY <1>10 DEF TokenKept
<1> QED
  BY <1>4, <1>5, <1>6, <1>8, <1>9, <1>11 DEF ChainInv, ForwardInv

\* Every step preserves the invariant.
LEMMA StepPreservesChainInv ==
    ASSUME ChainInv, [Next]_vars
    PROVE  ChainInv'
<1> USE DEF ChainInv
<1>1. CASE UNCHANGED vars
  <2>1. UNCHANGED ForwardVars /\ UNCHANGED failures
    BY <1>1 DEF vars, ForwardVars, joining, zookeeper, watching, linking
  <2>2. TypeOK'
    BY <1>1, <2>1, PartsKept DEF vars, TypeOK
  <2> QED
    BY <2>1, <2>2, ForwardKept
<1>2. ASSUME NEW w \in Writes, NEW s \in Servers, Submit(w, s)
      PROVE  ChainInv'
  <2>1. UNCHANGED ForwardVars
    BY <1>2 DEF Submit, ForwardVars, joining, zookeeper, watching, linking
  <2> QED
    BY <1>2, <2>1, RequestsKeepTypes, ForwardKept
<1>3. ASSUME NEW s \in Servers, NEW t \in Servers, TakeRequest(t, s)
      PROVE  ChainInv'
  <2>1. UNCHANGED ForwardVars
    BY <1>3 DEF TakeRequest, ForwardVars, joining, zookeeper, watching, linking
  <2> QED
    BY <1>3, <2>1, RequestsKeepTypes, ForwardKept
<1>4. ASSUME NEW s \in Servers, Start(s) \/ MainStep(s)
      PROVE  ChainInv'
  BY <1>4, MainKeepsTypes, MainKeepsForward, StartKeepsForward
<1>5. ASSUME NEW s \in Servers, Crash(s)
      PROVE  ChainInv'
  <2>1. failures' \in Nat /\ Die(s, "crashed")
    BY <1>5 DEF Crash, TypeOK
  <2> QED
    BY <2>1, DieKeepsTypes, DieKeepsForward DEF Dead
<1>6. ASSUME NEW s \in Servers, Expire(s) \/ LoseSession(s)
      PROVE  ChainInv'
  <2> SessionEnds(s) /\ failures' \in Nat
    BY <1>6 DEF Expire, LoseSession, TypeOK
  <2>1. ZooKeeperOK'
    BY DEF SessionEnds, ChildrenChange, TypeOK, ZooKeeperOK, Numbered
  <2>2. WatchingOK'
    BY DEF SessionEnds, ChildrenChange, TypeOK, WatchingOK, connecting
  <2>3. TypeOK'
    BY <2>1, <2>2, PartsKept DEF SessionEnds, TypeOK
  <2> QED
    BY <2>3, SessionEndKeepsForward
<1>7. ASSUME NEW s \in Servers, WatcherStep(s)
      PROVE  ChainInv'
  BY <1>7, WatcherKeepsTypes, WatcherKeepsForward
<1>8. ASSUME NEW s \in Servers, NEW w \in Writes, ThreadStep(s, w)
      PROVE  ChainInv'
  BY <1>8, ThreadsKeepTypes, ThreadsKeepForward
<1>9. ASSUME NEW s \in Servers, MixedStep(s)
      PROVE  ChainInv'
  BY <1>9, MixedKeepsTypes, MixedKeepsForward
<1> QED
  BY <1>1, <1>2, <1>3, <1>4, <1>5, <1>6, <1>7, <1>8, <1>9 DEF Next, ProcessStep

\* So it holds in every reachable state.
LEMMA SafetyImpliesChainInv ==
    Safety => []ChainInv
<1>1. Init => ChainInv
  BY InitEstablishesChainInv
<1>2. ChainInv /\ [Next]_vars => ChainInv'
  BY StepPreservesChainInv
<1> QED
  BY <1>1, <1>2, PTL DEF Safety

\* Every variable of the chain keeps its type, whatever joins and fails: no
\* thread takes an answer that is not there, main connects to a predecessor
\* that exists, and every znode has a number.
THEOREM ChainTypes ==
    Safety => []TypeOK
<1>1. ChainInv => TypeOK
  BY DEF ChainInv
<1> QED
  BY <1>1, SafetyImpliesChainInv, PTL

\* A server forwards to later joiners only, for any number of servers, joins,
\* failures and restarts on shared addresses, unless its two connects overlapped
\* in strtok: rtable_write closes no circle of the others in which the threads of
\* invoke would wait for each other.
THEOREM ForwardsUpward ==
    Safety => []ForwardUp
<1>1. ChainInv => ForwardUp
  BY DEF ChainInv, ForwardInv
<1> QED
  BY <1>1, SafetyImpliesChainInv, PTL
==============================================================================
