------------------------------ MODULE ClientApp ------------------------------
(***************************************************************************)
(* The command line client (table_client.c): main looks up the first and   *)
(* the last server of the chain, connects to both and sends commands over  *)
(* network_send_receive; child_watcher, in the thread of the ZooKeeper     *)
(* client, replaces the connections when the chain changes, under the feet *)
(* of a command that is waiting for its answer.                            *)
(*                                                                         *)
(* The servers are an environment: they join at the end, they die, their   *)
(* znodes vanish, and a live one answers what it reads.  Each has its own  *)
(* address; a restart is another server.  Put stands for put and del, keys *)
(* for getkeys, gettable and stats, which follow the result unchecked.     *)
(***************************************************************************)
EXTENDS Integers, SequencesExt

CONSTANTS Servers, None,
          Cut,          \* an address cut short, where nobody listens
          Width,        \* length of the address of a server
          Listings,     \* the chains there may be when the client starts
          MaxFailures   \* bound: servers that die or lose their session

ASSUME ServersAssumption == None \notin Servers /\ Cut \notin Servers /\ None # Cut
ASSUME WidthAssumption == Width \in [Servers -> Nat]
ASSUME ListingsAssumption == Listings \subseteq Seq(Servers)

Roles == {"head", "tail"}
Commands == {"put", "get", "size", "keys"}

VARIABLES
    listing,  \* children of /chain in their order
    alive,    \* servers that run
    joined,   \* servers that ever joined
    failures,
    watch,    \* the watch on the children is set
    event,    \* it fired and child_watcher was not called yet
    at,       \* where main and child_watcher are
    role,     \* the connection each of them is at
    seen,     \* the first and the last server of the listing each of them got
    buffer,   \* zoo_data of each
    name,     \* the strings head and tail
    rtable,   \* the servers rtable_head and rtable_tail are connected to
    token,    \* whose string the static pointer of strtok is in
    command,
    to,       \* the server the command was sent to
    answered, \* it has answered
    torn,     \* the connection was closed since the command began to use it
    heads,    \* history: servers that were first
    raced,    \* history: child_watcher ran before main was done connecting
    upset     \* history: the first or the last server changed or died

environment == <<listing, alive, joined, failures, heads, upset>>
lookups == <<watch, event, role, seen, buffer, name>>
calling == <<command, to, answered, torn>>
vars == <<environment, lookups, at, rtable, token, calling, raced>>

Running == at["main"] \notin {"ended", "quit"}
Connecting == at["main"] \in {"start", "list", "look", "split", "connect"}
InCall == at["main"] \in {"begin", "half", "wait", "rest"}

Nobody == [r \in Roles |-> None]
EndsOf(l) == IF l = <<>> THEN Nobody ELSE [head |-> l[1], tail |-> l[Len(l)]]

Init ==
    /\ listing \in Listings
    /\ alive = Range(listing)
    /\ joined = alive
    /\ failures = 0
    /\ watch = FALSE /\ event = FALSE
    /\ at = [main |-> "start", watcher |-> "idle"]
    /\ role = [main |-> "head", watcher |-> "head"]
    /\ seen = [main |-> Nobody, watcher |-> Nobody]
    /\ buffer = [main |-> None, watcher |-> None]
    /\ name = Nobody
    /\ rtable = Nobody
    /\ token = "main"
    /\ command = "get" /\ to = None /\ answered = FALSE /\ torn = FALSE
    /\ heads = IF listing = <<>> THEN {} ELSE {listing[1]}
    /\ raced = FALSE
    /\ upset = (listing = <<>>)

-----------------------------------------------------------------------------
\* The chain

ListingChanges ==
    /\ event' = (event \/ watch)
    /\ watch' = FALSE
    /\ heads' = IF listing' = <<>> THEN heads ELSE heads \cup {listing'[1]}
    /\ upset' = (upset \/ EndsOf(listing') # EndsOf(listing))
    /\ UNCHANGED <<role, seen, buffer, name, at, rtable, token, calling, raced>>

Join(s) ==
    /\ s \notin joined
    /\ joined' = joined \cup {s} /\ alive' = alive \cup {s}
    /\ listing' = Append(listing, s)
    /\ UNCHANGED failures
    /\ ListingChanges

Die(s) ==
    /\ s \in alive /\ failures < MaxFailures
    /\ alive' = alive \ {s} /\ failures' = failures + 1
    /\ upset' = (upset \/ s \in Range(EndsOf(listing)))
    /\ UNCHANGED <<listing, joined, heads, lookups, at, rtable, token, calling, raced>>

Leaves(s) ==
    /\ \E i \in DOMAIN listing : listing[i] = s /\ listing' = RemoveAt(listing, i)
    /\ UNCHANGED <<alive, joined>>
    /\ ListingChanges

\* The session of a dead server expires, or a live one loses its own.
Expire(s) == s \notin alive /\ Leaves(s) /\ UNCHANGED failures
LoseSession(s) ==
    s \in alive /\ failures < MaxFailures /\ failures' = failures + 1 /\ Leaves(s)

\* The server reads the whole request and sends its answer.
Serve ==
    /\ at["main"] = "wait" /\ to \in alive /\ ~answered
    /\ answered' = TRUE
    /\ UNCHANGED <<environment, lookups, at, rtable, token, command, to, torn, raced>>

-----------------------------------------------------------------------------
\* Looking up and connecting, by main and by child_watcher

Goes(th, stage) == at' = [at EXCEPT ![th] = stage]

\* exit(1), or a null pointer followed.
Ends == /\ Goes("main", "ended")
        /\ UNCHANGED <<environment, lookups, rtable, token, calling, raced>>

FindChain ==
    /\ at["main"] = "start"
    /\ IF joined = {} THEN Ends
       ELSE /\ Goes("main", "list")
            /\ UNCHANGED <<environment, lookups, rtable, token, calling, raced>>

\* zoo_wget_children sets the watch and lists.
Lists(th) ==
    /\ listing # <<>>
    /\ seen' = [seen EXCEPT ![th] = EndsOf(listing)]
    /\ watch' = TRUE
    /\ Goes(th, "look")
    /\ UNCHANGED <<environment, role, buffer, name, rtable, token, calling>>

MainLists == at["main"] = "list" /\ Lists("main") /\ UNCHANGED <<event, raced>>

\* Mutant: the watch is not set again.
WatcherLists_Once ==
    /\ Running /\ event /\ at["watcher"] = "idle"
    /\ event' = FALSE
    /\ raced' = (raced \/ Connecting)
    /\ listing # <<>>
    /\ seen' = [seen EXCEPT !["watcher"] = EndsOf(listing)]
    /\ Goes("watcher", "look")
    /\ UNCHANGED <<environment, watch, role, buffer, name, rtable, token, calling>>

WatcherLists ==
    /\ Running /\ event /\ at["watcher"] = "idle"
    /\ event' = FALSE
    /\ raced' = (raced \/ Connecting)
    /\ Lists("watcher")

\* There is no child to look up: the address is empty.
ListsNothing ==
    /\ Running /\ listing = <<>>
    /\ at["main"] = "list" \/ (event /\ at["watcher"] = "idle")
    /\ Ends

\* Mutant: the buffer is as long as the last address without its end.
Read_Unterminated(th, s) ==
    IF buffer[th] # None /\ Width[s] >= Width[buffer[th]] THEN Cut ELSE s

\* zoo_get writes no more than zoo_data_len bytes, which the lookup of the head
\* has set to the length of its address and the 0 behind it.
Read(th, s) == IF buffer[th] # None /\ Width[s] > Width[buffer[th]] + 1 THEN Cut ELSE s

\* A znode that vanished leaves the buffer as it was: empty, or the head's.
Found(th) ==
    LET s == seen[th][role[th]] IN
    IF s \in Range(listing) THEN Read(th, s) ELSE buffer[th]

LooksUp(th) ==
    /\ Running /\ at[th] = "look" /\ Found(th) # None
    /\ buffer' = [buffer EXCEPT ![th] = Found(th)]
    /\ UNCHANGED <<environment, watch, event, role, seen, token, command, to, answered, raced>>

MainLooksUp ==
    /\ LooksUp("main")
    /\ name' = [name EXCEPT ![role["main"]] = Found("main")]
    /\ Goes("main", "split")
    /\ UNCHANGED <<rtable, torn>>

\* Mutant: the two connections are mixed up.
Target_Swapped(c) == IF c = "put" THEN "tail" ELSE "head"

\* The connection a command uses.
Target(c) == IF c = "put" THEN "head" ELSE "tail"

\* From the head to the tail, or to the end.
Proceeds(th, data, done) ==
    IF role[th] = "head"
    THEN /\ role' = [role EXCEPT ![th] = "tail"]
         /\ buffer' = [buffer EXCEPT ![th] = data]
         /\ Goes(th, "look")
         /\ UNCHANGED seen
    ELSE /\ role' = [role EXCEPT ![th] = "head"]
         /\ buffer' = [buffer EXCEPT ![th] = None]
         /\ seen' = [seen EXCEPT ![th] = Nobody]
         /\ Goes(th, done)

\* Mutant: the new address is noted and no connection is made.
WatcherDrops_NoReconnect ==
    LET r == role["watcher"] IN
    /\ Running /\ at["watcher"] = "look" /\ Found("watcher") # None
    /\ name[r] \notin {None, Found("watcher")}
    /\ name' = [name EXCEPT ![r] = Found("watcher")]
    /\ rtable' = [rtable EXCEPT ![r] = None]
    /\ Proceeds("watcher", Found("watcher"), "idle")
    /\ UNCHANGED <<environment, watch, event, token, calling, raced>>

\* The address changed: the connection is closed, whoever uses it.
WatcherDrops ==
    LET r == role["watcher"] IN
    /\ LooksUp("watcher")
    /\ name[r] \notin {None, Found("watcher")}
    /\ name' = [name EXCEPT ![r] = Found("watcher")]
    /\ rtable' = [rtable EXCEPT ![r] = None]
    /\ torn' = (torn \/ (InCall /\ at["main"] # "begin" /\ Target(command) = r))
    /\ Goes("watcher", "split")

\* Mutant: only the address of the head is compared.
WatcherKeeps_Tail ==
    /\ Running /\ at["watcher"] = "look" /\ Found("watcher") # None
    /\ name[role["watcher"]] # None
    /\ role["watcher"] = "tail" \/ name["head"] = Found("watcher")
    /\ Proceeds("watcher", Found("watcher"), "idle")
    /\ UNCHANGED <<environment, watch, event, name, rtable, token, calling, raced>>

WatcherKeeps ==
    /\ Running /\ at["watcher"] = "look" /\ Found("watcher") # None
    /\ name[role["watcher"]] = Found("watcher")
    /\ Proceeds("watcher", Found("watcher"), "idle")
    /\ UNCHANGED <<environment, watch, event, name, rtable, token, calling, raced>>

\* The address is empty, or main has not set the string yet.
LookupEnds(th) ==
    /\ Running /\ at[th] = "look"
    /\ Found(th) = None \/ (th = "watcher" /\ name[role[th]] = None)
    /\ Ends

\* rtable_connect takes the address apart with strtok, ...
Splits(th) ==
    /\ Running /\ at[th] = "split"
    /\ token' = th
    /\ Goes(th, "connect")
    /\ UNCHANGED <<environment, lookups, rtable, calling, raced>>

\* ... and connects.
Connects(th) ==
    /\ Running /\ at[th] = "connect"
    /\ token = th /\ buffer[th] \in alive
    /\ rtable' = [rtable EXCEPT ![role[th]] = buffer[th]]
    /\ Proceeds(th, buffer[th], IF th = "main" THEN "prompt" ELSE "idle")
    /\ UNCHANGED <<environment, watch, event, name, token, calling, raced>>

\* Nobody listens there, or the port is read out of the other thread's string.
ConnectEnds(th) ==
    /\ Running /\ at[th] = "connect"
    /\ token # th \/ buffer[th] \notin alive
    /\ Ends

-----------------------------------------------------------------------------
\* A command

ReadLine(c) ==
    /\ at["main"] = "prompt"
    /\ command' = c /\ token' = "main"
    /\ to' = None /\ answered' = FALSE /\ torn' = FALSE
    /\ Goes("main", "key")
    /\ UNCHANGED <<environment, lookups, rtable, raced>>

\* When child_watcher called strtok since, the key is not the user's, or missing,
\* and the line may be refused.
ReadKey ==
    /\ at["main"] = "key"
    /\ \/ Goes("main", "begin")
       \/ token # "main" /\ Goes("main", "prompt")
    /\ token' = "main"
    /\ UNCHANGED <<environment, lookups, rtable, calling, raced>>

\* network_send_receive takes the descriptor and writes the length ...
WriteLength ==
    LET server == rtable[Target(command)] IN
    /\ at["main"] = "begin" /\ server # None
    /\ to' = server
    /\ Goes("main", "half")
    /\ UNCHANGED <<environment, lookups, rtable, token, command, answered, torn, raced>>

\* ... and the message, by the same descriptor, which may by now be the one of
\* the next connection: nobody has a whole request then.
WriteMessage ==
    /\ at["main"] = "half"
    /\ to' = IF torn THEN None ELSE to
    /\ Goes("main", "wait")
    /\ UNCHANGED <<environment, lookups, rtable, token, command, answered, torn, raced>>

\* A read that was waiting when the connection was closed still gets its bytes.
ReadLength ==
    /\ at["main"] = "wait" /\ answered
    /\ Goes("main", "rest")
    /\ UNCHANGED <<environment, lookups, rtable, token, calling, raced>>

ReadMessage ==
    /\ at["main"] = "rest" /\ ~torn
    /\ Goes("main", "prompt")
    /\ UNCHANGED <<environment, lookups, rtable, token, calling, raced>>

\* NULL: an error is printed, or the result is used unchecked.
Fails ==
    IF command = "keys" THEN Ends
    ELSE /\ Goes("main", "prompt")
         /\ UNCHANGED <<environment, lookups, rtable, token, calling, raced>>

\* Mutant: the end of the stream is not noticed.
CallFails_Never == at["main"] = "begin" /\ rtable[Target(command)] = None /\ Fails

\* The server died; or the call begins while its connection is being replaced and
\* the descriptor is closed already.  One that is taken by the next connection
\* when the call writes to it makes it a call on that one, made a little later.
CallFails ==
    /\ \/ at["main"] = "begin" /\ rtable[Target(command)] = None
       \/ at["main"] \in {"half", "wait", "rest"} /\ ~torn /\ to \notin alive
    /\ Fails

\* The descriptor was closed: the next write or read fails, unless it is that
\* of the new connection by then, from which no answer ever comes.
TornCallFails == InCall /\ torn /\ Fails

Quit ==
    /\ at["main"] = "prompt"
    /\ Goes("main", "quit")
    /\ rtable' = Nobody
    /\ UNCHANGED <<environment, lookups, token, calling, raced>>

-----------------------------------------------------------------------------
MainStep ==
    \/ FindChain \/ MainLists \/ MainLooksUp
    \/ LookupEnds("main") \/ Splits("main") \/ Connects("main") \/ ConnectEnds("main")
    \/ ReadKey \/ WriteLength \/ WriteMessage \/ ReadLength \/ ReadMessage \/ CallFails

WatcherStep ==
    \/ WatcherLists \/ WatcherDrops \/ WatcherKeeps
    \/ LookupEnds("watcher") \/ Splits("watcher") \/ Connects("watcher") \/ ConnectEnds("watcher")

Next ==
    \/ MainStep \/ WatcherStep \/ ListsNothing \/ TornCallFails \/ Serve \/ Quit
    \/ \E c \in Commands : ReadLine(c)
    \/ \E s \in Servers : Join(s) \/ Die(s) \/ Expire(s) \/ LoseSession(s)

\* Both threads run, a live server answers, and the sessions of the dead expire.
\* Nobody has to type a command, and a torn call need not fail.
Spec ==
    /\ Init /\ [][Next]_vars
    /\ WF_vars(MainStep) /\ WF_vars(WatcherStep) /\ WF_vars(ListsNothing) /\ WF_vars(Serve)
    /\ \A s \in Servers : WF_vars(Expire(s))

-----------------------------------------------------------------------------
Threads == {"main", "watcher"}
Lookup == {"look", "split", "connect"}
MainStages == Lookup \cup {"start", "list", "prompt", "key", "begin", "half", "wait", "rest",
                          "ended", "quit"}

\* The state is well formed: main and child_watcher are at places of their code,
\* and no server is listed or runs that never joined.
TypeOK ==
    /\ listing \in Seq(Servers) /\ Range(listing) \cup alive \subseteq joined
    /\ joined \subseteq Servers /\ heads \subseteq Servers
    /\ watch \in BOOLEAN /\ event \in BOOLEAN /\ raced \in BOOLEAN /\ upset \in BOOLEAN
    /\ at \in [Threads -> MainStages \cup {"idle"}]
    /\ at["main"] \in MainStages /\ at["watcher"] \in Lookup \cup {"idle"}
    /\ role \in [Threads -> Roles]
    /\ seen \in [Threads -> [Roles -> Servers \cup {None}]]
    /\ buffer \in [Threads -> Servers \cup {None, Cut}]
    /\ name \in [Roles -> Servers \cup {None, Cut}]
    /\ rtable \in [Roles -> Servers \cup {None}]
    /\ token \in Threads
    /\ command \in Commands
    /\ to \in Servers \cup {None}
    /\ answered \in BOOLEAN /\ torn \in BOOLEAN

\* Before its first lookup nobody has a server in mind.
FreshLookups ==
    \A th \in Threads :
        /\ at[th] \in {"start", "list", "idle"} => role[th] = "head"
        /\ at[th] \in {"start", "list", "idle", "look"} /\ role[th] = "head" => buffer[th] = None

\* main has set a string and made its connection.
DoneWith(r) == ~Connecting \/ (r = "head" /\ role["main"] = "tail")

\* From then on the command loop finds a connection, unless child_watcher is just
\* replacing it.
AlwaysConnected ==
    /\ at["main"] \in {"split", "connect"} => name[role["main"]] # None
    /\ \A r \in Roles : Running /\ DoneWith(r) =>
        /\ name[r] # None
        /\ rtable[r] = None => at["watcher"] \in {"split", "connect"} /\ role["watcher"] = r

\* Whoever is looked up, connected to or asked to write as the head was the head.
OnlyHeads ==
    /\ listing # <<>> => listing[1] \in heads
    /\ \A th \in Threads :
        /\ seen[th]["head"] \in heads \cup {None}
        /\ at[th] \in {"split", "connect"} /\ role[th] = "head" => buffer[th] \in heads
    /\ rtable["head"] \in heads \cup {None}
    /\ command = "put" => to \in heads \cup {None}
    /\ at["main"] \in {"key", "begin", "half"} => ~answered
    /\ answered => to # None

\* While the watch is set the listing is the one that was read, and who looks up
\* its ends finds them.
LookupsCurrent ==
    Running /\ ~raced =>
        /\ at["watcher"] # "idle" => ~Connecting
        /\ \A th \in Threads : at[th] \in {"split", "connect"} => buffer[th] = name[role[th]]
        /\ \A r \in Roles : rtable[r] \in {None, name[r]} /\ (rtable[r] # None => DoneWith(r))
        /\ watch => listing # <<>>
        /\ watch => \A th \in Threads : at[th] \in Lookup =>
            /\ seen[th] = EndsOf(listing)
            /\ role[th] = "tail" => rtable["head"] = listing[1]
            /\ at[th] # "look" => buffer[th] \in {EndsOf(listing)[role[th]], Cut}
        /\ watch /\ ~Connecting /\ at["watcher"] = "idle" => rtable = EndsOf(listing)

\* The address of the tail does not fit into the buffer that held the head's.
TailTooLong == Width[EndsOf(listing).tail] > Width[EndsOf(listing).head] + 1

\* As long as the head and the tail stay, every string, connection and lookup of
\* the client is one of theirs, and no connection is replaced.
EndsStay ==
    Running /\ ~upset /\ ~raced /\ ~TailTooLong =>
        /\ listing # <<>> /\ Range(EndsOf(listing)) \subseteq alive
        /\ at["watcher"] \in {"idle", "look"}
        /\ \A th \in Threads : at[th] \in Lookup =>
            /\ seen[th] = EndsOf(listing)
            /\ at[th] = "look" /\ role[th] = "tail" => buffer[th] = listing[1]
            /\ at[th] # "look" => buffer[th] = EndsOf(listing)[role[th]]
        /\ at["main"] = "connect" => token = "main"
        /\ \A r \in Roles : name[r] \in {None, EndsOf(listing)[r]}
        /\ \A r \in Roles : rtable[r] \in {None, EndsOf(listing)[r]}
        /\ ~torn
        /\ at["main"] \in {"half", "wait", "rest"} => to = EndsOf(listing)[Target(command)]

\* The command loop always finds a connection, all that is taken for the head was
\* one, while the watch is set nothing is out of date, and an undisturbed client
\* knows nobody but the two ends of the chain.
ClientInv ==
    /\ TypeOK /\ FreshLookups /\ AlwaysConnected /\ OnlyHeads /\ LookupsCurrent /\ EndsStay

\* A write is handled by a server that is or was the head, as Chain takes it to
\* be, a read by one that was an end of the chain: whatever happens between the
\* listing, the lookups and the connections.
WritesReachHeads ==
    answered /\ command = "put" => to \in heads

\* No change of the chain is overlooked: when the watch is set again and no
\* lookup is under way, the client is connected to the first and to the last
\* server, unless child_watcher had run before main was done connecting.
SettledConnections ==
    Running /\ ~Connecting /\ watch /\ at["watcher"] = "idle" /\ ~raced =>
        rtable = EndsOf(listing)

\* Servers in the middle of the chain may come, go and die: the client lives on
\* as long as its head and its tail do, whatever it is doing, unless the address
\* of the tail does not fit or child_watcher ran before main was done.
EndsHaveCause ==
    [][at["main"] # "ended" /\ at'["main"] = "ended" =>
        \/ upset \/ raced'
        \/ Width[EndsOf(listing).tail] > Width[EndsOf(listing).head] + 1]_vars

\* A command comes back, or ends the client, unless its connection was replaced.
CommandsReturn == InCall ~> ~InCall \/ torn

\* A command comes back.
CommandReturns == InCall ~> ~InCall

\* When the chain no longer changes the client ends up connected to its head and
\* its tail for good.
FollowsChain ==
    <>[](Running => raced \/ (~Connecting /\ rtable = EndsOf(listing)))
=============================================================================
