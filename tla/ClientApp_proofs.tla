--------------------------- MODULE ClientApp_proofs ---------------------------
(***************************************************************************)
(* Proofs about ClientApp for any set of servers, any widths of addresses, *)
(* any chains at the start and any number of failures: its inductive       *)
(* invariant, and the safety properties that follow from it.               *)
(***************************************************************************)
EXTENDS ClientApp, SequenceTheorems, TLAPS

-----------------------------------------------------------------------------
\* Listings

\* The ends of a listing are servers in it, if it has any.
LEMMA EndsListed ==
    ASSUME NEW l \in Seq(Servers)
    PROVE  /\ EndsOf(l) \in [Roles -> Servers \cup {None}]
           /\ l = <<>> => EndsOf(l) = Nobody
           /\ l # <<>> => /\ EndsOf(l)["head"] = l[1]
                          /\ \A r \in Roles : EndsOf(l)[r] \in Range(l)
                          /\ EndsOf(l) # Nobody
           /\ Range(l) \subseteq Servers
<1>1. Range(l) \subseteq Servers
  BY DEF Range
<1>2. CASE l = <<>>
  BY <1>1, <1>2 DEF EndsOf, Nobody, Roles
<1>3. CASE l # <<>>
  <2>1. Len(l) \in Nat /\ 1 \in DOMAIN l /\ Len(l) \in DOMAIN l
    BY <1>3
  <2>2. l[1] \in Range(l) /\ l[Len(l)] \in Range(l)
    BY <2>1 DEF Range
  <2>3. EndsOf(l) = [head |-> l[1], tail |-> l[Len(l)]]
    BY <1>3 DEF EndsOf
  <2> QED
    BY <1>1, <1>3, <2>2, <2>3, ServersAssumption DEF Roles, Nobody
<1> QED
  BY <1>2, <1>3

\* A server that joins comes last.
LEMMA AppendListed ==
    ASSUME NEW l \in Seq(Servers), NEW s \in Servers
    PROVE  /\ Append(l, s) \in Seq(Servers)
           /\ Append(l, s) # <<>>
           /\ Range(Append(l, s)) = Range(l) \cup {s}
           /\ l # <<>> => Append(l, s)[1] = l[1]
<1>1. /\ Append(l, s) \in Seq(Servers) /\ Len(Append(l, s)) = Len(l) + 1
      /\ Len(l) \in Nat /\ DOMAIN l = 1 .. Len(l)
      /\ DOMAIN Append(l, s) = 1 .. Len(l) + 1
      /\ Append(l, s)[Len(l) + 1] = s
      /\ \A i \in 1 .. Len(l) : Append(l, s)[i] = l[i]
  OBVIOUS
<1> QED
  BY <1>1 DEF Range

\* Leaving takes nobody in.
LEMMA RemoveListed ==
    ASSUME NEW l \in Seq(Servers), NEW i \in DOMAIN l
    PROVE  /\ RemoveAt(l, i) \in Seq(Servers)
           /\ Range(RemoveAt(l, i)) \subseteq Range(l)
<1> DEFINE front == SubSeq(l, 1, i - 1)
           back == SubSeq(l, i + 1, Len(l))
<1>1. Len(l) \in Nat /\ i \in 1 .. Len(l) /\ DOMAIN l = 1 .. Len(l)
  OBVIOUS
<1>2. front \in Seq(Servers) /\ back \in Seq(Servers)
  BY <1>1, SubSeqProperties
<1>3. Len(front) = i - 1 /\ \A j \in 1 .. i - 1 : front[j] = l[j]
  BY <1>1, SubSeqProperties
<1>4. Len(back) = Len(l) - i /\ \A j \in 1 .. Len(l) - i : back[j] = l[j + i]
  BY <1>1, SubSeqProperties
<1> HIDE DEF front, back
<1>5. /\ front \o back \in Seq(Servers) /\ Len(front \o back) = Len(front) + Len(back)
      /\ \A j \in 1 .. Len(front) + Len(back) :
            (front \o back)[j] = IF j <= Len(front) THEN front[j] ELSE back[j - Len(front)]
  BY <1>2, ConcatProperties
<1>6. \A j \in DOMAIN (front \o back) : (front \o back)[j] \in Range(l)
  <2> SUFFICES ASSUME NEW j \in DOMAIN (front \o back)
               PROVE  \E k \in DOMAIN l : (front \o back)[j] = l[k]
    BY DEF Range
  <2>1. j \in 1 .. Len(front) + Len(back)
    BY <1>5
  <2>2. CASE j <= Len(front)
    BY <1>1, <1>3, <1>5, <2>1, <2>2
  <2>3. CASE j > Len(front)
    <3>1. (front \o back)[j] = back[j - Len(front)]
      BY <1>1, <1>3, <1>4, <1>5, <2>1, <2>3
    <3>2. j - Len(front) \in 1 .. Len(l) - i /\ (j - Len(front)) + i \in DOMAIN l
      BY <1>1, <1>3, <1>4, <2>1, <2>3
    <3> QED
      BY <1>4, <3>1, <3>2
  <2> QED
    BY <1>1, <1>3, <2>1, <2>2, <2>3
<1>7. Range(front \o back) \subseteq Range(l)
  BY <1>6 DEF Range
<1> QED
  BY <1>5, <1>7 DEF RemoveAt, front, back

-----------------------------------------------------------------------------
\* Types

\* What a lookup finds is an address, or the beginning of one.
LEMMA FoundType ==
    ASSUME TypeOK, NEW th \in Threads
    PROVE  Found(th) \in Servers \cup {None, Cut}
  BY DEF TypeOK, Found, Read

\* Connections are chosen by role.
LEMMA TargetType ==
    ASSUME NEW c
    PROVE  Target(c) \in Roles
  BY DEF Target, Roles

LEMMA InitTypes ==
    ASSUME Init
    PROVE  TypeOK
<1>1. listing \in Seq(Servers) /\ Range(listing) \subseteq Servers
  BY ListingsAssumption, EndsListed DEF Init
<1>2. listing # <<>> => listing[1] \in Servers
  BY <1>1, EndsListed
<1>3. Nobody \in [Roles -> Servers \cup {None}] /\ Nobody \in [Roles -> Servers \cup {None, Cut}]
  BY DEF Nobody
<1>4. /\ at = [main |-> "start", watcher |-> "idle"]
      /\ role = [main |-> "head", watcher |-> "head"]
      /\ seen = [main |-> Nobody, watcher |-> Nobody]
      /\ buffer = [main |-> None, watcher |-> None]
  BY DEF Init
<1>5. /\ at \in [Threads -> MainStages \cup {"idle"}]
      /\ at["main"] \in MainStages /\ at["watcher"] \in Lookup \cup {"idle"}
      /\ role \in [Threads -> Roles]
      /\ seen \in [Threads -> [Roles -> Servers \cup {None}]]
      /\ buffer \in [Threads -> Servers \cup {None, Cut}]
  BY <1>3, <1>4 DEF Threads, MainStages, Roles
<1>6. /\ Range(listing) \cup alive \subseteq joined /\ joined \subseteq Servers
      /\ heads \subseteq Servers
      /\ watch \in BOOLEAN /\ event \in BOOLEAN /\ raced \in BOOLEAN /\ upset \in BOOLEAN
      /\ name \in [Roles -> Servers \cup {None, Cut}]
      /\ rtable \in [Roles -> Servers \cup {None}]
      /\ token \in Threads /\ command \in Commands /\ to \in Servers \cup {None}
      /\ answered \in BOOLEAN /\ torn \in BOOLEAN
  BY <1>1, <1>2, <1>3 DEF Init, Threads, Commands
<1> QED
  BY <1>1, <1>5, <1>6 DEF TypeOK

\* The listing changes to another one of servers that joined.
LEMMA ListingTypes ==
    ASSUME TypeOK, ListingChanges, listing' \in Seq(Servers),
           Range(listing') \cup alive' \subseteq joined', joined' \subseteq Servers
    PROVE  TypeOK'
<1>1. listing' # <<>> => listing'[1] \in Servers
  BY EndsListed
<1>2. heads' \subseteq Servers
  BY <1>1 DEF TypeOK, ListingChanges
<1> QED
  BY <1>2 DEF TypeOK, ListingChanges, calling

\* A lookup or a connection goes on to the other end, or to its own.
LEMMA ProceedsTypes ==
    ASSUME TypeOK, NEW th \in Threads, NEW data \in Servers \cup {None, Cut}, NEW done,
           Proceeds(th, data, done),
           th = "main" => done \in MainStages, th = "watcher" => done = "idle"
    PROVE  /\ at' \in [Threads -> MainStages \cup {"idle"}]
           /\ at'["main"] \in MainStages /\ at'["watcher"] \in Lookup \cup {"idle"}
           /\ role' \in [Threads -> Roles]
           /\ seen' \in [Threads -> [Roles -> Servers \cup {None}]]
           /\ buffer' \in [Threads -> Servers \cup {None, Cut}]
<1>1. CASE role[th] = "head"
  BY <1>1 DEF TypeOK, Proceeds, Goes, Threads, MainStages, Lookup, Roles
<1>2. CASE role[th] # "head"
  <2>1. Nobody \in [Roles -> Servers \cup {None}]
    BY DEF Nobody
  <2> QED
    BY <1>2, <2>1 DEF TypeOK, Proceeds, Goes, Threads, MainStages, Lookup, Roles
<1> QED
  BY <1>1, <1>2

\* Every step keeps the types.
LEMMA NextTypes ==
    ASSUME TypeOK, [Next]_vars
    PROVE  TypeOK'
<1> USE DEF Goes, Threads, MainStages, Lookup
<1>1. CASE UNCHANGED vars
  BY <1>1 DEF TypeOK, vars, environment, lookups, calling
<1>2. CASE Ends
  BY <1>2 DEF TypeOK, Ends, environment, lookups, calling
<1>3. ASSUME NEW s \in Servers, Join(s) PROVE TypeOK'
  BY <1>3, AppendListed, ListingTypes DEF Join, TypeOK
<1>4. ASSUME NEW s \in Servers, Die(s) PROVE TypeOK'
  BY <1>4 DEF Die, TypeOK, lookups, calling
<1>5. ASSUME NEW s \in Servers, Leaves(s) PROVE TypeOK'
  <2>1. PICK i \in DOMAIN listing : listing' = RemoveAt(listing, i)
    BY <1>5 DEF Leaves
  <2>2. listing' \in Seq(Servers) /\ Range(listing') \subseteq Range(listing)
    BY <2>1, RemoveListed DEF TypeOK
  <2> QED
    BY <1>5, <2>2, ListingTypes DEF Leaves, TypeOK
<1>6. CASE Serve
  BY <1>6 DEF Serve, TypeOK, environment, lookups
<1>7. CASE FindChain
  BY <1>2, <1>7 DEF FindChain, TypeOK, environment, lookups, calling
<1>8. ASSUME NEW th \in Threads, Lists(th), event' \in BOOLEAN, raced' \in BOOLEAN
      PROVE  TypeOK'
  BY <1>8, EndsListed DEF Lists, TypeOK, environment, calling
<1>9. CASE MainLists
  BY <1>8, <1>9 DEF MainLists, TypeOK
<1>10. CASE WatcherLists
  BY <1>8, <1>10 DEF WatcherLists, TypeOK
<1>11. CASE ListsNothing
  BY <1>2, <1>11 DEF ListsNothing
<1>12. CASE MainLooksUp
  BY <1>12, FoundType DEF MainLooksUp, LooksUp, TypeOK, environment
<1>13. CASE WatcherDrops
  BY <1>13, FoundType DEF WatcherDrops, LooksUp, TypeOK, environment
<1>14. CASE WatcherKeeps
  BY <1>14, FoundType, ProceedsTypes DEF WatcherKeeps, TypeOK, environment, calling
<1>15. ASSUME NEW th \in Threads, LookupEnds(th) PROVE TypeOK'
  BY <1>2, <1>15 DEF LookupEnds
<1>16. ASSUME NEW th \in Threads, Splits(th) PROVE TypeOK'
  BY <1>16 DEF Splits, TypeOK, environment, lookups, calling
<1>17. ASSUME NEW th \in Threads, Connects(th) PROVE TypeOK'
  BY <1>17, ProceedsTypes DEF Connects, TypeOK, environment, calling
<1>18. ASSUME NEW th \in Threads, ConnectEnds(th) PROVE TypeOK'
  BY <1>2, <1>18 DEF ConnectEnds
<1>19. ASSUME NEW c \in Commands, ReadLine(c) PROVE TypeOK'
  BY <1>19 DEF ReadLine, TypeOK, environment, lookups
<1>20. CASE ReadKey
  BY <1>20 DEF ReadKey, TypeOK, environment, lookups, calling
<1>21. CASE WriteLength
  BY <1>21, TargetType DEF WriteLength, TypeOK, environment, lookups
<1>22. CASE WriteMessage
  BY <1>22 DEF WriteMessage, TypeOK, environment, lookups
<1>23. CASE ReadLength \/ ReadMessage
  BY <1>23 DEF ReadLength, ReadMessage, TypeOK, environment, lookups, calling
<1>24. CASE Fails
  BY <1>2, <1>24 DEF Fails, TypeOK, environment, lookups, calling
<1>25. CASE CallFails \/ TornCallFails
  BY <1>24, <1>25 DEF CallFails, TornCallFails
<1>26. CASE Quit
  <2>1. Nobody \in [Roles -> Servers \cup {None}]
    BY DEF Nobody
  <2> QED
    BY <1>26, <2>1 DEF Quit, TypeOK, environment, lookups, calling
<1> QED
  BY <1>1, <1>3, <1>4, <1>5, <1>6, <1>7, <1>9, <1>10, <1>11, <1>12, <1>13, <1>14,
     <1>15, <1>16, <1>17, <1>18, <1>19, <1>20, <1>21, <1>22, <1>23, <1>25, <1>26
     DEF Next, MainStep, WatcherStep, Expire, LoseSession

-----------------------------------------------------------------------------
\* The invariant, part by part.  A step of main or of child_watcher leaves the
\* place of the other alone.

\* Before its first lookup nobody has a server in mind.
LEMMA InitFresh ==
    ASSUME Init
    PROVE  FreshLookups
  BY DEF Init, FreshLookups, Threads

LEMMA NextFresh ==
    ASSUME TypeOK, FreshLookups, [Next]_vars
    PROVE  FreshLookups'
<1> USE DEF Goes, Threads
<1>1. ASSUME UNCHANGED <<role, buffer>>,
             \A th \in Threads : at'[th] = at[th] \/ at'[th] \notin {"start", "idle", "look"},
             at'["main"] = "list" => at["main"] \in {"start", "list"},
             at'["watcher"] # "list"
      PROVE  FreshLookups'
  BY <1>1 DEF FreshLookups, TypeOK, MainStages, Lookup
<1>2. CASE UNCHANGED <<role, buffer, at>>
  BY <1>2 DEF FreshLookups
<1>3. CASE Ends
  BY <1>1, <1>3 DEF Ends, lookups, TypeOK, MainStages, Lookup
<1>4. CASE FindChain
  BY <1>1, <1>3, <1>4 DEF FindChain, lookups, TypeOK, MainStages, Lookup
<1>5. ASSUME NEW th \in Threads, Lists(th), at[th] \in {"list", "idle"}
      PROVE  FreshLookups'
  BY <1>5 DEF Lists, FreshLookups, TypeOK, MainStages, Lookup
<1>6. CASE MainLists \/ WatcherLists
  BY <1>5, <1>6 DEF MainLists, WatcherLists
<1>7. CASE ListsNothing
  BY <1>3, <1>7 DEF ListsNothing
<1>8. CASE MainLooksUp
  BY <1>8 DEF MainLooksUp, LooksUp, FreshLookups, TypeOK, MainStages, Lookup
<1>9. CASE WatcherDrops
  BY <1>9 DEF WatcherDrops, LooksUp, FreshLookups, TypeOK, MainStages, Lookup
<1>10. ASSUME NEW th \in Threads, NEW data, NEW done \in {"prompt", "idle"},
              Proceeds(th, data, done)
       PROVE  FreshLookups'
  BY <1>10 DEF Proceeds, FreshLookups, TypeOK, MainStages, Lookup
<1>11. CASE WatcherKeeps
  BY <1>10, <1>11 DEF WatcherKeeps
<1>12. ASSUME NEW th \in Threads, LookupEnds(th) \/ ConnectEnds(th) PROVE FreshLookups'
  BY <1>3, <1>12 DEF LookupEnds, ConnectEnds
<1>13. ASSUME NEW th \in Threads, Splits(th) PROVE FreshLookups'
  BY <1>1, <1>13 DEF Splits, lookups, TypeOK, MainStages, Lookup
<1>14. ASSUME NEW th \in Threads, Connects(th) PROVE FreshLookups'
  BY <1>10, <1>14 DEF Connects
<1>15. ASSUME NEW c \in Commands, ReadLine(c) PROVE FreshLookups'
  BY <1>1, <1>15 DEF ReadLine, lookups, TypeOK, MainStages, Lookup
<1>16. CASE ReadKey \/ WriteLength \/ WriteMessage \/ ReadLength \/ ReadMessage \/ Quit
  BY <1>1, <1>16 DEF ReadKey, WriteLength, WriteMessage, ReadLength, ReadMessage, Quit,
     lookups, TypeOK, MainStages, Lookup
<1>17. CASE Fails
  BY <1>1, <1>3, <1>17 DEF Fails, lookups, TypeOK, MainStages, Lookup
<1>18. CASE CallFails \/ TornCallFails
  BY <1>17, <1>18 DEF CallFails, TornCallFails
<1>19. CASE Serve \/ UNCHANGED vars \/ \E s \in Servers : Join(s) \/ Die(s) \/ Leaves(s)
  BY <1>2, <1>19 DEF Serve, Join, Die, Leaves, ListingChanges, lookups, vars
<1> QED
  BY <1>4, <1>6, <1>7, <1>8, <1>9, <1>11, <1>12, <1>13, <1>14, <1>15, <1>16, <1>18, <1>19
     DEF Next, MainStep, WatcherStep, Expire, LoseSession

\* The command loop finds a connection, unless child_watcher is replacing it.
LEMMA InitConnected ==
    ASSUME Init
    PROVE  AlwaysConnected
  BY DEF Init, AlwaysConnected, DoneWith, Connecting

LEMMA NextConnected ==
    ASSUME TypeOK, FreshLookups, AlwaysConnected, [Next]_vars
    PROVE  AlwaysConnected'
<1> USE DEF Goes, Threads, Running, Connecting, DoneWith
<1> DEFINE Loop == {"prompt", "key", "begin", "half", "wait", "rest"}
<1>1. ASSUME UNCHANGED <<role, name, rtable>>,
             \/ at'["watcher"] = at["watcher"]
             \/ at["watcher"] = "split" /\ at'["watcher"] = "connect"
             \/ at["watcher"] \notin {"split", "connect"},
             \/ at'["main"] = at["main"]
             \/ at'["main"] \in {"ended", "quit"}
             \/ Connecting /\ role["main"] = "head" /\ at'["main"] \in {"list", "look"}
             \/ at["main"] = "split" /\ at'["main"] = "connect"
             \/ at["main"] \in Loop /\ at'["main"] \in Loop
      PROVE  AlwaysConnected'
  BY <1>1 DEF AlwaysConnected, TypeOK, MainStages, Lookup, Roles
<1>2. CASE UNCHANGED <<role, name, rtable, at>>
  BY <1>2 DEF AlwaysConnected
<1>3. CASE Ends
  BY <1>3 DEF Ends, lookups, AlwaysConnected, TypeOK
<1>4. CASE FindChain
  BY <1>1, <1>3, <1>4 DEF FindChain, lookups, TypeOK, FreshLookups
<1>5. CASE MainLists
  BY <1>1, <1>5 DEF MainLists, Lists, TypeOK, FreshLookups
<1>6. CASE WatcherLists
  BY <1>1, <1>6 DEF WatcherLists, Lists, TypeOK
<1>7. CASE ListsNothing
  BY <1>3, <1>7 DEF ListsNothing
<1>8. CASE MainLooksUp
  BY <1>8 DEF MainLooksUp, LooksUp, AlwaysConnected, TypeOK, Roles, MainStages
<1>9. CASE WatcherDrops
  BY <1>9 DEF WatcherDrops, LooksUp, AlwaysConnected, TypeOK, Roles
<1>10. CASE WatcherKeeps
  BY <1>10 DEF WatcherKeeps, Proceeds, AlwaysConnected, TypeOK, Roles
<1>11. ASSUME NEW th \in Threads, LookupEnds(th) \/ ConnectEnds(th)
       PROVE  AlwaysConnected'
  BY <1>3, <1>11 DEF LookupEnds, ConnectEnds
<1>12. ASSUME NEW th \in Threads, Splits(th) PROVE AlwaysConnected'
  BY <1>1, <1>12 DEF Splits, lookups, TypeOK
<1>13. CASE Connects("main")
  <2>1. buffer["main"] # None
    BY <1>13, ServersAssumption DEF Connects, TypeOK
  <2>2. rtable' = [rtable EXCEPT ![role["main"]] = buffer["main"]] /\ name' = name
    BY <1>13 DEF Connects
  <2> QED
    BY <1>13, <2>1, <2>2 DEF Connects, Proceeds, AlwaysConnected, TypeOK, Roles
<1>14. CASE Connects("watcher")
  <2>1. buffer["watcher"] # None
    BY <1>14, ServersAssumption DEF Connects, TypeOK
  <2>2. rtable' = [rtable EXCEPT ![role["watcher"]] = buffer["watcher"]] /\ name' = name
    BY <1>14 DEF Connects
  <2> QED
    BY <1>14, <2>1, <2>2 DEF Connects, Proceeds, AlwaysConnected, TypeOK, Roles
<1>15. ASSUME NEW c \in Commands, ReadLine(c) PROVE AlwaysConnected'
  BY <1>1, <1>15 DEF ReadLine, lookups, TypeOK
<1>16. CASE ReadKey \/ WriteLength \/ WriteMessage \/ ReadLength \/ ReadMessage
  BY <1>1, <1>16 DEF ReadKey, WriteLength, WriteMessage, ReadLength, ReadMessage, lookups, TypeOK
<1>17. CASE Quit
  BY <1>17 DEF Quit, lookups, AlwaysConnected, TypeOK
<1>18. CASE (CallFails \/ TornCallFails) /\ Fails
  BY <1>1, <1>3, <1>18 DEF CallFails, TornCallFails, InCall, Fails, lookups, TypeOK
<1>19. CASE Serve \/ UNCHANGED vars \/ \E s \in Servers : Join(s) \/ Die(s) \/ Leaves(s)
  BY <1>2, <1>19 DEF Serve, Join, Die, Leaves, ListingChanges, lookups, vars
<1> QED
  BY <1>4, <1>5, <1>6, <1>7, <1>8, <1>9, <1>10, <1>11, <1>12, <1>13, <1>14, <1>15, <1>16,
     <1>17, <1>18, <1>19
     DEF Next, MainStep, WatcherStep, Expire, LoseSession, CallFails, TornCallFails

\* All that is looked up, connected to or written to as the head was one.
LEMMA InitHeads ==
    ASSUME Init
    PROVE  OnlyHeads
<1>1. seen = [main |-> Nobody, watcher |-> Nobody] /\ Nobody["head"] = None
  BY DEF Init, Nobody, Roles
<1>2. \A th \in Threads : seen[th]["head"] = None /\ at[th] \notin {"split", "connect"}
  BY <1>1 DEF Init, Threads
<1> QED
  BY <1>1, <1>2 DEF Init, OnlyHeads

\* The first lookup finds the server it asks for, or nothing.
LEMMA HeadFound ==
    ASSUME TypeOK, FreshLookups, NEW th \in Threads,
           at[th] = "look", role[th] = "head", Found(th) # None
    PROVE  /\ Found(th) = seen[th]["head"] /\ Found(th) \in Range(listing)
           /\ Found(th) \in Servers
<1>1. buffer[th] = None
  BY DEF FreshLookups
<1>2. seen[th]["head"] \in Range(listing) /\ Found(th) = seen[th]["head"]
  BY <1>1 DEF Found, Read
<1> QED
  BY <1>2 DEF TypeOK

LEMMA NextHeads ==
    ASSUME TypeOK, FreshLookups, OnlyHeads, [Next]_vars
    PROVE  OnlyHeads'
<1> USE DEF Goes, Threads
<1>1. CASE UNCHANGED vars
  BY <1>1 DEF vars, environment, lookups, calling, OnlyHeads
<1>2. CASE Ends
  BY <1>2 DEF Ends, environment, lookups, calling, OnlyHeads, TypeOK
<1>3. ASSUME ListingChanges, listing' \in Seq(Servers) PROVE OnlyHeads'
  <2>1. heads \subseteq heads' /\ (listing' # <<>> => listing'[1] \in heads')
    BY <1>3 DEF ListingChanges
  <2> QED
    BY <1>3, <2>1 DEF ListingChanges, calling, OnlyHeads
<1>4. ASSUME NEW s \in Servers, Join(s) PROVE OnlyHeads'
  BY <1>3, <1>4, AppendListed DEF Join, TypeOK
<1>5. ASSUME NEW s \in Servers, Die(s) PROVE OnlyHeads'
  BY <1>5 DEF Die, lookups, calling, OnlyHeads
<1>6. ASSUME NEW s \in Servers, Leaves(s) PROVE OnlyHeads'
  BY <1>3, <1>6, RemoveListed DEF Leaves, TypeOK
<1>7. CASE Serve
  <2>1. to # None
    BY <1>7, ServersAssumption DEF Serve, TypeOK
  <2> QED
    BY <1>7, <2>1 DEF Serve, environment, lookups, OnlyHeads, TypeOK
<1>8. CASE FindChain
  BY <1>2, <1>8 DEF FindChain, environment, lookups, calling, OnlyHeads, TypeOK
<1>9. ASSUME NEW th \in Threads, Lists(th) PROVE OnlyHeads'
  <2>1. EndsOf(listing)["head"] \in heads
    BY <1>9, EndsListed DEF Lists, OnlyHeads, TypeOK
  <2> QED
    BY <1>9, <2>1 DEF Lists, environment, calling, OnlyHeads, TypeOK
<1>10. CASE ListsNothing
  BY <1>2, <1>10 DEF ListsNothing
<1>11. CASE MainLooksUp
  <2>1. role["main"] = "head" => Found("main") \in heads
    BY <1>11, HeadFound, ServersAssumption DEF MainLooksUp, LooksUp, OnlyHeads
  <2> QED
    BY <1>11, <2>1 DEF MainLooksUp, LooksUp, environment, OnlyHeads, TypeOK
<1>12. CASE WatcherDrops
  <2>1. role["watcher"] = "head" => Found("watcher") \in heads
    BY <1>12, HeadFound, ServersAssumption DEF WatcherDrops, LooksUp, OnlyHeads
  <2> QED
    BY <1>12, <2>1 DEF WatcherDrops, LooksUp, environment, OnlyHeads, TypeOK
<1>13. ASSUME NEW th \in Threads, NEW data, NEW done \in {"prompt", "idle"},
              Proceeds(th, data, done),
              rtable'["head"] \in {rtable["head"], data},
              role[th] = "head" /\ rtable' # rtable => data \in heads,
              role[th] = "tail" => rtable'["head"] = rtable["head"],
              UNCHANGED <<environment, calling>>
       PROVE  OnlyHeads'
  <2>1. rtable'["head"] \in heads \cup {None}
    BY <1>13 DEF OnlyHeads, TypeOK, Roles
  <2>2. ASSUME NEW o \in Threads PROVE seen'[o]["head"] \in heads \cup {None}
    BY <1>13 DEF Proceeds, OnlyHeads, TypeOK, Nobody, Roles
  <2>3. ASSUME NEW o \in Threads, at'[o] \in {"split", "connect"}, role'[o] = "head"
        PROVE  buffer'[o] \in heads
    BY <1>13, <2>3 DEF Proceeds, OnlyHeads, TypeOK
  <2>4. at'["main"] \in {"key", "begin", "half"} => ~answered
    BY <1>13 DEF Proceeds, OnlyHeads, TypeOK
  <2> QED
    BY <1>13, <2>1, <2>2, <2>3, <2>4 DEF OnlyHeads, environment, calling
<1>14. CASE WatcherKeeps
  BY <1>13, <1>14 DEF WatcherKeeps, environment
<1>15. ASSUME NEW th \in Threads, Connects(th) PROVE OnlyHeads'
  <2>1. role[th] = "head" => buffer[th] \in heads
    BY <1>15 DEF Connects, OnlyHeads
  <2>2. rtable'["head"] \in {rtable["head"], buffer[th]}
        /\ (role[th] = "tail" => rtable'["head"] = rtable["head"])
    BY <1>15 DEF Connects, TypeOK, Roles
  <2> QED
    BY <1>13, <1>15, <2>1, <2>2 DEF Connects, environment
<1>16. ASSUME NEW th \in Threads, LookupEnds(th) \/ ConnectEnds(th) PROVE OnlyHeads'
  BY <1>2, <1>16 DEF LookupEnds, ConnectEnds
<1>17. ASSUME NEW th \in Threads, Splits(th) PROVE OnlyHeads'
  BY <1>17 DEF Splits, environment, lookups, calling, OnlyHeads, TypeOK
<1>18. ASSUME NEW c \in Commands, ReadLine(c) PROVE OnlyHeads'
  BY <1>18 DEF ReadLine, environment, lookups, OnlyHeads, TypeOK
<1>19. CASE ReadKey \/ ReadLength \/ ReadMessage
  BY <1>19 DEF ReadKey, ReadLength, ReadMessage, environment, lookups, calling, OnlyHeads, TypeOK
<1>20. CASE WriteLength
  BY <1>20 DEF WriteLength, Target, environment, lookups, OnlyHeads, TypeOK
<1>21. CASE WriteMessage
  BY <1>21 DEF WriteMessage, environment, lookups, OnlyHeads, TypeOK
<1>22. CASE Fails
  BY <1>2, <1>22 DEF Fails, environment, lookups, calling, OnlyHeads, TypeOK
<1>23. CASE CallFails \/ TornCallFails
  BY <1>22, <1>23 DEF CallFails, TornCallFails
<1>24. CASE Quit
  <2>1. rtable'["head"] = None
    BY <1>24 DEF Quit, Nobody, Roles
  <2> QED
    BY <1>24, <2>1 DEF Quit, environment, lookups, calling, OnlyHeads, TypeOK
<1> QED
  BY <1>1, <1>4, <1>5, <1>6, <1>7, <1>8, <1>9, <1>10, <1>11, <1>12, <1>14, <1>15, <1>16,
     <1>17, <1>18, <1>19, <1>20, <1>21, <1>23, <1>24
     DEF Next, MainStep, WatcherStep, Expire, LoseSession, MainLists, WatcherLists

\* While the watch is set the connections are those of the listing, or about to be.
LEMMA InitCurrent ==
    ASSUME Init
    PROVE  LookupsCurrent
<1>1. \A r \in Roles : rtable[r] = None
  BY DEF Init, Nobody
<1> QED
  BY <1>1 DEF Init, LookupsCurrent, Threads, Lookup

\* An end of the listing is found, or found cut short.
LEMMA CurrentFound ==
    ASSUME TypeOK, NEW th \in Threads, listing # <<>>, seen[th] = EndsOf(listing)
    PROVE  Found(th) \in {EndsOf(listing)[role[th]], Cut}
<1>1. EndsOf(listing)[role[th]] \in Range(listing)
  BY EndsListed DEF TypeOK
<1> QED
  BY <1>1 DEF Found, Read

\* A connection is not to an address cut short.
LEMMA ConnectionType ==
    ASSUME TypeOK, NEW r \in Roles
    PROVE  rtable[r] # Cut
  BY ServersAssumption DEF TypeOK

\* Two functions from roles are equal when they agree on both.
LEMMA SameEnds ==
    ASSUME NEW f \in [Roles -> Servers \cup {None}], NEW g \in [Roles -> Servers \cup {None}],
           f["head"] = g["head"], f["tail"] = g["tail"]
    PROVE  f = g
  BY DEF Roles

LEMMA NextCurrent ==
    ASSUME TypeOK, FreshLookups, AlwaysConnected, LookupsCurrent, [Next]_vars
    PROVE  LookupsCurrent'
<1> USE DEF Goes, Threads, Running, Connecting, DoneWith, Lookup
<1>1. CASE UNCHANGED <<listing, watch, at, role, seen, buffer, name, rtable, raced>>
  BY <1>1 DEF LookupsCurrent
<1>2. CASE at'["main"] \in {"ended", "quit"}
  BY <1>2 DEF LookupsCurrent
<1>3. CASE Ends
  BY <1>2, <1>3 DEF Ends, TypeOK
<1>4. ASSUME ListingChanges PROVE LookupsCurrent'
  BY <1>4 DEF ListingChanges, LookupsCurrent
<1>5. CASE FindChain
  BY <1>3, <1>5 DEF FindChain, environment, lookups, LookupsCurrent, TypeOK
<1>6. CASE MainLists
  BY <1>6 DEF MainLists, Lists, environment, LookupsCurrent, FreshLookups, TypeOK, Roles
<1>7. CASE WatcherLists
  BY <1>7 DEF WatcherLists, Lists, environment, LookupsCurrent, FreshLookups, TypeOK, Roles
<1>8. CASE ListsNothing
  BY <1>3, <1>8 DEF ListsNothing
<1>9. CASE MainLooksUp
  BY <1>9, CurrentFound DEF MainLooksUp, LooksUp, environment, LookupsCurrent, TypeOK, Roles
<1>10. CASE WatcherDrops
  BY <1>10, CurrentFound DEF WatcherDrops, LooksUp, environment, LookupsCurrent, TypeOK, Roles
<1>11. CASE WatcherKeeps
  BY <1>11, CurrentFound, ConnectionType, SameEnds, EndsListed
     DEF WatcherKeeps, Proceeds, environment, LookupsCurrent, AlwaysConnected, FreshLookups, TypeOK, Roles
<1>12. ASSUME NEW th \in Threads, LookupEnds(th) \/ ConnectEnds(th) PROVE LookupsCurrent'
  BY <1>3, <1>12 DEF LookupEnds, ConnectEnds
<1>13. ASSUME NEW th \in Threads, Splits(th) PROVE LookupsCurrent'
  BY <1>13 DEF Splits, environment, lookups, LookupsCurrent, TypeOK
<1>14. CASE Connects("main")
  BY <1>14, ServersAssumption, SameEnds, EndsListed
     DEF Connects, Proceeds, environment, LookupsCurrent, TypeOK, Roles
<1>15. CASE Connects("watcher")
  BY <1>15, ServersAssumption, SameEnds, EndsListed
     DEF Connects, Proceeds, environment, LookupsCurrent, TypeOK, Roles
<1>16. ASSUME NEW c \in Commands, ReadLine(c) PROVE LookupsCurrent'
  BY <1>16 DEF ReadLine, environment, lookups, LookupsCurrent, TypeOK
<1>17. CASE ReadKey \/ WriteLength \/ WriteMessage \/ ReadLength \/ ReadMessage
  BY <1>17 DEF ReadKey, WriteLength, WriteMessage, ReadLength, ReadMessage,
     environment, lookups, LookupsCurrent, TypeOK
<1>18. CASE (CallFails \/ TornCallFails) /\ Fails
  BY <1>3, <1>18 DEF CallFails, TornCallFails, InCall, Fails, environment, lookups,
     LookupsCurrent, TypeOK
<1>19. CASE Quit
  BY <1>2, <1>19 DEF Quit, TypeOK
<1>20. CASE Serve \/ UNCHANGED vars \/ \E s \in Servers : Die(s)
  BY <1>1, <1>20 DEF Serve, Die, environment, lookups, vars
<1> QED
  BY <1>4, <1>5, <1>6, <1>7, <1>8, <1>9, <1>10, <1>11, <1>12, <1>13, <1>14, <1>15, <1>16,
     <1>17, <1>18, <1>19, <1>20
     DEF Next, MainStep, WatcherStep, Join, Leaves, Expire, LoseSession, CallFails, TornCallFails

\* A client whose head and tail stay knows nobody else.
LEMMA InitStay ==
    ASSUME Init
    PROVE  EndsStay
<1>1. /\ \A r \in Roles : name[r] = None /\ rtable[r] = None
      /\ listing \in Seq(Servers)
  BY ListingsAssumption DEF Init, Nobody
<1>2. upset \/ Range(EndsOf(listing)) \subseteq alive
  <2>1. listing # <<>> => \A r \in Roles : EndsOf(listing)[r] \in Range(listing)
    BY <1>1, EndsListed
  <2>2. DOMAIN EndsOf(listing) = Roles
    BY <1>1, EndsListed
  <2>3. (listing = <<>> => upset) /\ alive = Range(listing)
    BY DEF Init
  <2>4. listing # <<>> => \A r \in DOMAIN EndsOf(listing) : EndsOf(listing)[r] \in alive
    BY <2>1, <2>2, <2>3
  <2>5. Range(EndsOf(listing)) = {EndsOf(listing)[r] : r \in DOMAIN EndsOf(listing)}
    BY DEF Range
  <2> QED
    BY <2>3, <2>4, <2>5
<1>3. \/ upset
      \/ listing # <<>> /\ Range(EndsOf(listing)) \subseteq alive
  BY <1>2 DEF Init
<1>4. /\ at["watcher"] = "idle" /\ at["main"] = "start" /\ ~torn
      /\ \A th \in Threads : at[th] \notin Lookup
  BY DEF Init, Threads, Lookup
<1> QED
  BY <1>1, <1>3, <1>4 DEF EndsStay

\* Its lookups find the ends, whole.
LEMMA EndFound ==
    ASSUME TypeOK, FreshLookups, EndsStay, Running, ~upset, ~raced, ~TailTooLong,
           NEW th \in Threads, at[th] = "look"
    PROVE  /\ listing # <<>>
           /\ Found(th) = EndsOf(listing)[role[th]]
           /\ Found(th) \in Servers /\ Found(th) # None
<1>1. /\ listing # <<>> /\ seen[th] = EndsOf(listing)
      /\ role[th] = "tail" => buffer[th] = listing[1]
  BY DEF EndsStay, Lookup
<1>2. EndsOf(listing)[role[th]] \in Range(listing) /\ Range(listing) \subseteq Servers
  BY <1>1, EndsListed DEF TypeOK
<1>3. Found(th) = Read(th, EndsOf(listing)[role[th]])
  BY <1>1, <1>2 DEF Found
<1>4. CASE role[th] = "head"
  BY <1>2, <1>3, <1>4, <1>1, ServersAssumption DEF FreshLookups, Read
<1>5. CASE role[th] = "tail"
  <2>1. buffer[th] = EndsOf(listing)["head"]
    BY <1>1, <1>5, EndsListed DEF TypeOK
  <2>2. ~ (Width[EndsOf(listing)["tail"]] > Width[buffer[th]] + 1)
    BY <2>1 DEF TailTooLong
  <2> QED
    BY <1>1, <1>2, <1>3, <1>5, <2>2, ServersAssumption DEF Read
<1> QED
  BY <1>4, <1>5 DEF TypeOK, Roles

\* The ends are alive.
LEMMA EndAlive ==
    ASSUME TypeOK, EndsStay, Running, ~upset, ~raced, ~TailTooLong, NEW r \in Roles
    PROVE  listing # <<>> /\ EndsOf(listing)[r] \in alive
<1>1. listing # <<>> /\ Range(EndsOf(listing)) \subseteq alive
  BY DEF EndsStay
<1>2. r \in DOMAIN EndsOf(listing)
  BY EndsListed DEF TypeOK
<1> QED
  BY <1>1, <1>2 DEF Range

LEMMA NextStay ==
    ASSUME TypeOK, FreshLookups, EndsStay, [Next]_vars
    PROVE  EndsStay'
<1> USE DEF Goes, Threads, Running, Lookup
<1>1. SUFFICES ASSUME Running', ~upset', ~raced', ~TailTooLong'
               PROVE  EndsStay'
  BY DEF EndsStay
<1>2. TypeOK'
  BY NextTypes
<1>3. ASSUME Running, ~upset, ~raced, EndsOf(listing') = EndsOf(listing),
             listing' # <<>>, alive \subseteq alive',
             UNCHANGED <<at, role, seen, buffer, name, rtable, token, command, to, torn>>
      PROVE  EndsStay'
  <2>1. ~TailTooLong
    BY <1>1, <1>3 DEF TailTooLong
  <2>2. listing'[1] = listing[1]
    BY <1>2, <1>3, <2>1, EndsListed DEF TypeOK, EndsStay
  <2> QED
    BY <1>3, <2>1, <2>2 DEF EndsStay
<1>4. ASSUME ListingChanges, alive \subseteq alive', listing' \in Seq(Servers) PROVE EndsStay'
  <2>1. ~upset /\ EndsOf(listing') = EndsOf(listing) /\ Running /\ ~raced
    BY <1>1, <1>4 DEF ListingChanges
  <2>2. ~TailTooLong
    BY <1>1, <2>1 DEF TailTooLong
  <2>3. listing # <<>>
    BY <2>1, <2>2 DEF EndsStay
  <2>4. listing' # <<>>
    BY <1>4, <2>1, <2>3, EndsListed DEF TypeOK
  <2> QED
    BY <1>3, <1>4, <2>1, <2>4 DEF ListingChanges, calling
<1>5. ASSUME NEW s \in Servers, Join(s) PROVE EndsStay'
  BY <1>4, <1>5, AppendListed DEF Join, TypeOK
<1>6. ASSUME NEW s \in Servers, Leaves(s) PROVE EndsStay'
  BY <1>4, <1>6, RemoveListed DEF Leaves, TypeOK
<1>7. ASSUME NEW s \in Servers, Die(s) PROVE EndsStay'
  <2>1. s \notin Range(EndsOf(listing)) /\ ~upset /\ listing' = listing /\ Running /\ ~raced
    BY <1>1, <1>7 DEF Die
  <2>2. ~TailTooLong
    BY <1>1, <2>1 DEF TailTooLong
  <2> QED
    BY <1>7, <2>1, <2>2 DEF Die, EndsStay, lookups, calling
\* The other steps leave the chain alone.
<1> DEFINE Calm == /\ UNCHANGED environment
                   /\ Running /\ ~upset /\ ~raced /\ ~TailTooLong
<1>8. ASSUME UNCHANGED environment, Running, ~raced PROVE Calm
  BY <1>1, <1>8 DEF environment, TailTooLong
<1>9. ASSUME Calm, UNCHANGED <<at, role, seen, buffer, name, rtable, token, command, to, torn>>
      PROVE  EndsStay'
  BY <1>9 DEF EndsStay, environment
<1>10. CASE Serve \/ UNCHANGED vars
  BY <1>1, <1>8, <1>9, <1>10 DEF Serve, lookups, calling, vars
<1>11. ~Ends
  BY <1>1 DEF Ends, TypeOK
<1>12. CASE FindChain
  BY <1>1, <1>8, <1>11, <1>12 DEF FindChain, environment, lookups, calling, EndsStay, TypeOK
<1>13. CASE MainLists
  BY <1>1, <1>8, <1>13 DEF MainLists, Lists, environment, calling, EndsStay, FreshLookups, TypeOK
<1>14. CASE WatcherLists
  <2>1. ~raced
    BY <1>1, <1>14 DEF WatcherLists
  <2> QED
    BY <1>1, <1>8, <1>14, <2>1
       DEF WatcherLists, Lists, environment, calling, EndsStay, FreshLookups, TypeOK
<1>15. CASE MainLooksUp
  BY <1>1, <1>8, <1>15, EndFound
     DEF MainLooksUp, LooksUp, environment, EndsStay, TypeOK, Roles
<1>16. ~WatcherDrops
  <2> SUFFICES ASSUME WatcherDrops PROVE FALSE
    OBVIOUS
  <2>1. Running /\ ~raced /\ UNCHANGED environment /\ at["watcher"] = "look"
    BY <1>1 DEF WatcherDrops, LooksUp
  <2>2. Found("watcher") = EndsOf(listing)[role["watcher"]]
    BY <1>8, <2>1, EndFound
  <2>3. name[role["watcher"]] \in {None, Found("watcher")}
    BY <1>8, <2>1, <2>2 DEF EndsStay, TypeOK
  <2> QED
    BY <2>3 DEF WatcherDrops
<1>17. CASE WatcherKeeps
  <2>1. Calm /\ at["watcher"] = "look"
    BY <1>8, <1>1, <1>17 DEF WatcherKeeps
  <2>2. role["watcher"] = "head" => Found("watcher") = listing[1]
    BY <2>1, EndFound, EndsListed DEF TypeOK
  <2> QED
    BY <1>17, <2>1, <2>2 DEF WatcherKeeps, Proceeds, environment, calling, EndsStay, TypeOK, Roles
<1>18. ASSUME NEW th \in Threads PROVE ~LookupEnds(th) /\ ~ConnectEnds(th)
  BY <1>11 DEF LookupEnds, ConnectEnds
<1>19. ASSUME NEW th \in Threads, Splits(th) PROVE EndsStay'
  BY <1>1, <1>8, <1>19 DEF Splits, environment, lookups, calling, EndsStay, TypeOK
<1>20. ASSUME NEW th \in Threads, Connects(th) PROVE EndsStay'
  <2>1. Calm /\ at[th] = "connect"
    BY <1>1, <1>8, <1>20 DEF Connects
  <2>2. th = "main" /\ buffer["main"] = EndsOf(listing)[role["main"]]
    BY <2>1 DEF EndsStay
  <2>3. role["main"] = "head" => buffer["main"] = listing[1]
    BY <2>1, <2>2, EndsListed DEF TypeOK, EndsStay
  <2> QED
    BY <1>20, <2>1, <2>2, <2>3
       DEF Connects, Proceeds, environment, calling, EndsStay, TypeOK, Roles
<1>21. ASSUME NEW c \in Commands, ReadLine(c) PROVE EndsStay'
  BY <1>1, <1>8, <1>21 DEF ReadLine, environment, lookups, EndsStay, TypeOK
<1>22. CASE ReadKey \/ ReadLength \/ ReadMessage
  BY <1>1, <1>8, <1>22
     DEF ReadKey, ReadLength, ReadMessage, environment, lookups, calling, EndsStay, TypeOK
<1>23. CASE WriteLength
  BY <1>1, <1>8, <1>23, TargetType
     DEF WriteLength, environment, lookups, EndsStay, TypeOK
<1>24. CASE WriteMessage
  BY <1>1, <1>8, <1>24 DEF WriteMessage, environment, lookups, EndsStay, TypeOK
<1>25. CASE (CallFails \/ TornCallFails) /\ Fails
  BY <1>1, <1>8, <1>11, <1>25
     DEF CallFails, TornCallFails, InCall, Fails, environment, lookups, calling, EndsStay, TypeOK
<1>26. ~Quit /\ ~ListsNothing
  BY <1>1, <1>11 DEF Quit, ListsNothing, TypeOK
<1> QED
  BY <1>5, <1>6, <1>7, <1>10, <1>12, <1>13, <1>14, <1>15, <1>16, <1>17, <1>18, <1>19, <1>20,
     <1>21, <1>22, <1>23, <1>24, <1>25, <1>26
     DEF Next, MainStep, WatcherStep, Expire, LoseSession, CallFails, TornCallFails

-----------------------------------------------------------------------------
\* Main results

LEMMA InitInv ==
    ASSUME Init
    PROVE  ClientInv
  BY InitTypes, InitFresh, InitConnected, InitHeads, InitCurrent, InitStay DEF ClientInv

LEMMA NextInv ==
    ASSUME ClientInv, [Next]_vars
    PROVE  ClientInv'
  BY NextTypes, NextFresh, NextConnected, NextHeads, NextCurrent, NextStay DEF ClientInv

\* For any servers, any chain at the start, and whatever joins, dies and leaves
\* between the steps of main and of child_watcher: the command loop finds a
\* connection, everything taken for the head was one, while the watch is set
\* nothing is out of date, and an undisturbed client knows the two ends only.
THEOREM ClientCorrect ==
    Spec => []ClientInv
<1>1. Init => ClientInv
  BY InitInv
<1>2. ClientInv /\ [Next]_vars => ClientInv'
  BY NextInv
<1> QED
  BY <1>1, <1>2, PTL DEF Spec

\* A write is answered by a server that is or was the head.
THEOREM WritesFindHeads ==
    Spec => []WritesReachHeads
<1>1. ClientInv => WritesReachHeads
  BY DEF ClientInv, OnlyHeads, WritesReachHeads
<1> QED
  BY <1>1, ClientCorrect, PTL

\* While the watch is set again and no lookup is under way the client is
\* connected to the first and to the last server of the chain.
THEOREM ConnectionsSettle ==
    Spec => []SettledConnections
<1>1. ClientInv => SettledConnections
  BY DEF ClientInv, LookupsCurrent, SettledConnections
<1> QED
  BY <1>1, ClientCorrect, PTL

\* The client does not end by itself, by exit(1) or by a null pointer, as long as
\* the first and the last server stay, the address of the last fits and main was
\* left alone while it connected: whatever happens to the servers between them.
THEOREM EndsNeedCause ==
    Spec => EndsHaveCause
<1> DEFINE Cause == \/ upset \/ raced' \/ TailTooLong
           Step == at["main"] # "ended" /\ at'["main"] = "ended" => Cause
<1>1. ASSUME ClientInv, Next PROVE Step
  <2> SUFFICES ASSUME at["main"] # "ended", at'["main"] = "ended",
                      ~upset, ~raced', ~TailTooLong
               PROVE  FALSE
    OBVIOUS
  <2> USE DEF Goes, Threads, Running
  <2>1. TypeOK /\ FreshLookups /\ AlwaysConnected /\ LookupsCurrent /\ EndsStay
    BY <1>1 DEF ClientInv
  <2>2. at["main"] # "quit" => Running
    OBVIOUS
  <2>3. ASSUME Running, ~raced PROVE listing # <<>> /\ \A r \in Roles : EndsOf(listing)[r] \in alive
    BY <2>1, <2>3, EndAlive DEF Roles
  <2>4. ASSUME FindChain PROVE FALSE
    <3>1. joined = {} /\ ~raced
      BY <2>1, <2>4 DEF FindChain, Ends, TypeOK
    <3>2. alive = {} /\ at["main"] = "start"
      BY <2>1, <2>4, <3>1 DEF FindChain, TypeOK
    <3> QED
      BY <2>3, <3>1, <3>2 DEF Roles
  <2>5. ASSUME ListsNothing PROVE FALSE
    BY <2>3, <2>5 DEF ListsNothing, Ends
  <2>6. ASSUME NEW th \in Threads, LookupEnds(th) PROVE FALSE
    <3>1. Running /\ ~raced /\ at[th] = "look"
      BY <2>6 DEF LookupEnds, Ends
    <3>2. Found(th) # None
      BY <2>1, <3>1, EndFound
    <3>3. th = "watcher" => name[role[th]] # None
      BY <2>1, <3>1 DEF LookupsCurrent, AlwaysConnected, DoneWith, TypeOK
    <3> QED
      BY <2>6, <3>2, <3>3 DEF LookupEnds
  <2>7. ASSUME NEW th \in Threads, ConnectEnds(th) PROVE FALSE
    <3>1. Running /\ ~raced /\ at[th] = "connect"
      BY <2>7 DEF ConnectEnds, Ends
    <3>2. th = "main" /\ token = th /\ buffer[th] = EndsOf(listing)[role[th]]
      BY <2>1, <3>1 DEF EndsStay, Lookup
    <3>3. buffer[th] \in alive
      BY <2>1, <2>3, <3>1, <3>2 DEF TypeOK
    <3> QED
      BY <2>7, <3>2, <3>3 DEF ConnectEnds
  <2>8. ASSUME CallFails \/ TornCallFails PROVE FALSE
    <3>1. Running /\ ~raced /\ InCall
      BY <2>1, <2>8 DEF CallFails, TornCallFails, InCall, Fails, Ends, TypeOK
    <3>2. ~torn /\ at["watcher"] \in {"idle", "look"}
      BY <2>1, <3>1 DEF EndsStay
    <3>3. rtable[Target(command)] # None
      BY <2>1, <3>1, <3>2, TargetType DEF AlwaysConnected, DoneWith, Connecting, InCall
    <3>4. at["main"] \in {"half", "wait", "rest"} => to \in alive
      BY <2>1, <2>3, <3>1, TargetType DEF EndsStay
    <3> QED
      BY <2>8, <3>2, <3>3, <3>4 DEF CallFails, TornCallFails
  <2>9. \A th \in Threads : \A stage : Goes(th, stage) /\ stage # "ended" => FALSE
    BY <2>1 DEF TypeOK
  <2>10. UNCHANGED at => FALSE
    OBVIOUS
  <2> QED
    BY <1>1, <2>4, <2>5, <2>6, <2>7, <2>8, <2>9, <2>10
       DEF Next, MainStep, WatcherStep, MainLists, WatcherLists, Lists, MainLooksUp, WatcherDrops,
           WatcherKeeps, Proceeds, Splits, Connects, ReadKey, WriteLength, WriteMessage,
           ReadLength, ReadMessage, Serve, Quit, ReadLine, Join, Die, Expire, LoseSession, Leaves,
           ListingChanges, lookups
<1>2. UNCHANGED vars => Step
  BY DEF vars
<1>3. ClientInv /\ [Next]_vars => Step
  BY <1>1, <1>2
<1> QED
  BY <1>3, ClientCorrect, PTL DEF Spec, EndsHaveCause, TailTooLong
=============================================================================
