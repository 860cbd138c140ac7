-------------------------------- MODULE Link --------------------------------
(***************************************************************************)
(* The bytes of one connection: the threads of a process that call         *)
(* network_send_receive on it (network_client.c), the thread of            *)
(* client_procedure at its other end (network_receive and network_send of  *)
(* network_server.c), and write_all and read_all of message.c under both.  *)
(*                                                                         *)
(* A message is a frame: its size as a short in two bytes, then its        *)
(* packed form.  A byte is known by the message and the place in its frame *)
(* it comes from; there are Base values of a byte instead of 256.  TCP is  *)
(* external: bytes arrive in order, a write or a read moves any number of  *)
(* them, and whoever uses a connection whose other end is closed fails,    *)
(* at the latest when it waits to read.                                    *)
(***************************************************************************)
EXTENDS Integers, FiniteSets, SequencesExt

CONSTANTS Threads, Server, None,
          Base,          \* values of a byte
          RequestSizes,  \* packed sizes of the requests
          AnswerSizes,   \* and of the answers
          Room,          \* bound: bytes on their way in one direction
          MaxCalls,      \* bound: calls of a thread
          MaxSent        \* bound: calls of all threads

\* The least size that is negative as a short.
Limit == (Base * Base) \div 2

ASSUME ThreadsAssumption ==
    IsFiniteSet(Threads) /\ Server \notin Threads /\ None \notin Threads \X Nat
ASSUME BoundsAssumption == {Room, MaxCalls, MaxSent} \subseteq Nat

\* A packed MessageT has its opcode at least.  A size of 2 * Limit or more
\* would be a small short again, and pack would write past its buffer.
ASSUME SizesAssumption ==
    Base \in Nat \ {0} /\ RequestSizes \cup AnswerSizes \subseteq 1 .. 2 * Limit - 1

\* The buffers of a connection hold a frame, which has 32769 bytes at most.
ASSUME RoomAssumption ==
    \A n \in RequestSizes \cup AnswerSizes : n < Limit => n + 2 <= Room

VARIABLES
    stage,    \* where a thread is in network_send_receive, or client_procedure
    unsent,   \* what the two calls of write_all have left to write
    got,      \* what the two calls of read_all have read so far
    wire,     \* bytes on their way to the server and to the threads
    calls,    \* history: requests sent by each thread
    handled,  \* history: requests the server invoked, as <<thread, number>>
    outcome,  \* the request whose answer the last call returned, None for NULL
              \* and for an answer to what nobody sent
    overlapped \* history: two threads were in a call at the same time

vars == <<stage, unsent, got, wire, calls, handled, outcome, overlapped>>

Ends == Threads \cup {Server}
Process(e) == IF e = Server THEN {Server} ELSE Threads
Out(e) == IF e = Server THEN "to_threads" ELSE "to_server"
In(e) == IF e = Server THEN "to_server" ELSE "to_threads"
Directions == {"to_server", "to_threads"}

\* The other end of the connection is closed.
PeerGone(e) == \A f \in Ends \ Process(e) : stage[f] \in {"closed", "dead"}

Requests == Threads \X (1 .. MaxCalls)
Sent == {r \in Requests : r[2] <= calls[r[1]]}

Message(request, sizes) == [request : {request}, size : sizes]
Frame(m) == [i \in 1 .. m.size + 2 |-> [of |-> m, at |-> i]]

Short(n) == IF n >= Limit THEN n - 2 * Limit ELSE n

\* htons puts the high byte first.  What is packed has some value or other.
ByteValue(b) == CASE b.at = 1 -> b.of.size \div Base
                  [] b.at = 2 -> b.of.size % Base
                  [] OTHER    -> b.at % Base

\* Mutant: the bytes of the length in the wrong order, one htons or ntohs missing.
Length_HostOrder(bytes) == Short(Base * ByteValue(bytes[2]) + ByteValue(bytes[1]))

Length(bytes) == Short(Base * ByteValue(bytes[1]) + ByteValue(bytes[2]))

Init ==
    /\ stage = [e \in Ends |-> IF e = Server THEN "receive" ELSE "idle"]
    /\ unsent = [e \in Ends |-> <<>>]
    /\ got = [e \in Ends |-> <<>>]
    /\ wire = [d \in Directions |-> <<>>]
    /\ calls = [t \in Threads |-> 0]
    /\ handled = {}
    /\ outcome = [t \in Threads |-> None]
    /\ overlapped = FALSE

-----------------------------------------------------------------------------
\* Killed from outside, or by a null pointer.
Dies(e) ==
    /\ stage[e] # "dead"
    /\ stage' = [f \in Ends |-> IF f \in Process(e) THEN "dead" ELSE stage[f]]
    /\ unsent' = [f \in Ends |-> IF f \in Process(e) THEN <<>> ELSE unsent[f]]
    /\ got' = [f \in Ends |-> IF f \in Process(e) THEN <<>> ELSE got[f]]
    /\ UNCHANGED <<wire, calls, handled, outcome, overlapped>>

\* The size fits in a short, and the message is packed behind it.
Pack(e, m) ==
    /\ Short(m.size) > 0
    /\ stage' = [stage EXCEPT ![e] = "send"]
    /\ unsent' = [unsent EXCEPT ![e] = Frame(m)]
    /\ got' = [got EXCEPT ![e] = <<>>]

\* malloc of a negative size returns NULL and message_t__pack follows it.
PackDies(e, sizes) == (\E n \in sizes : Short(n) < 0) /\ Dies(e)

\* A call returns NULL, or client_procedure closes the connection and ends.
GivesUp(e) ==
    /\ stage' = [stage EXCEPT ![e] = IF e = Server THEN "closed" ELSE "idle"]
    /\ unsent' = [unsent EXCEPT ![e] = <<>>]
    /\ got' = [got EXCEPT ![e] = <<>>]
    /\ outcome' = [t \in Threads |-> IF t = e THEN None ELSE outcome[t]]
    /\ UNCHANGED <<calls, handled, overlapped>>

\* The bytes left of the buffer of one write_all: of the length, or the rest.
Buffer(e) == CASE stage[e] # "send"       -> 0
               [] unsent[e][1].at <= 2 -> 3 - unsent[e][1].at
               [] OTHER                -> Len(unsent[e])

\* One write takes n bytes and leaves rest.  To a closed end it may still
\* succeed, for nothing.
Writes(e, n, rest) ==
    /\ stage[e] = "send"
    /\ PeerGone(e) \/ n + Len(wire[Out(e)]) <= Room
    /\ wire' = IF PeerGone(e) THEN wire
               ELSE [wire EXCEPT ![Out(e)] = @ \o SubSeq(unsent[e], 1, n)]
    /\ unsent' = [unsent EXCEPT ![e] = rest]
    /\ stage' = [stage EXCEPT ![e] = IF rest = <<>> THEN "receive" ELSE @]
    /\ UNCHANGED <<got, calls, handled, outcome, overlapped>>

\* Mutant: write_all does not advance its buffer after a partial write.
WriteSome_SameBytes(e) ==
    \E n \in 1 .. Buffer(e) :
        Writes(e, n, SubSeq(unsent[e], 1, Buffer(e) - n)
                        \o SubSeq(unsent[e], Buffer(e) + 1, Len(unsent[e])))

WriteSome(e) ==
    \E n \in 1 .. Buffer(e) : Writes(e, n, SubSeq(unsent[e], n + 1, Len(unsent[e])))

WriteFails(e) == stage[e] = "send" /\ PeerGone(e) /\ GivesUp(e) /\ UNCHANGED wire

\* The bytes one read_all has yet to read: of the length, or of the message.
Missing(e) == (IF Len(got[e]) < 2 THEN 2 ELSE 2 + Length(got[e])) - Len(got[e])

Reads(e, n) ==
    /\ stage[e] = "receive" /\ n <= Len(wire[In(e)])
    /\ got' = [got EXCEPT ![e] = @ \o SubSeq(wire[In(e)], 1, n)]
    /\ wire' = [wire EXCEPT ![In(e)] = SubSeq(@, n + 1, Len(@))]
    /\ UNCHANGED <<stage, unsent, calls, handled, outcome, overlapped>>

\* Mutant: read_all asks for more than it needs.
ReadSome_Greedy(e) == \E n \in 1 .. Room : Missing(e) > 0 /\ Reads(e, n)

ReadSome(e) == \E n \in 1 .. Missing(e) : Reads(e, n)

\* Mutant: read_all takes the end of the stream for an interruption.
ReadFails_Never(e) == FALSE

\* Mutant: a call gives up waiting and leaves its answer on the connection.
ReadFails_Timeout(e) ==
    stage[e] = "receive" /\ Missing(e) > 0 /\ GivesUp(e) /\ UNCHANGED wire

\* The stream ends before read_all has all bytes, or was reset and what had not
\* arrived is lost.
ReadFails(e) ==
    /\ stage[e] = "receive" /\ Missing(e) > 0
    /\ PeerGone(e)
    /\ GivesUp(e)
    /\ wire' = [wire EXCEPT ![In(e)] = <<>>]

\* What was read after the length is a message as it was packed.
IsWhole(e) ==
    /\ Len(got[e]) > 2
    /\ SubSeq(got[e], 3, Len(got[e])) = SubSeq(Frame(got[e][3].of), 3, got[e][3].of.size + 2)

\* read_all returns at once for a length below 1.  A mixture may not unpack.
ReceiveFails(e) ==
    /\ stage[e] = "receive"
    /\ Len(got[e]) >= 2 /\ Missing(e) <= 0 /\ ~IsWhole(e)
    /\ GivesUp(e) /\ UNCHANGED wire

Received(e) == stage[e] = "receive" /\ Len(got[e]) > 2 /\ Missing(e) = 0

\* The request that what was received is, or answers.  A mixture may unpack as
\* well, for its bytes are well formed by chance or some lie inside a value: as
\* one of the messages that begin in it, or as one that nobody sent, None.
Unpacks(e) ==
    IF IsWhole(e) THEN {got[e][3].of.request}
    ELSE {None} \cup {b.of.request : b \in {c \in Range(got[e]) : c.at = 3}}

-----------------------------------------------------------------------------
Waiting == {t \in Threads : stage[t] \in {"send", "receive"}}

Call(t) ==
    /\ stage[t] = "idle" /\ calls[t] < MaxCalls /\ Cardinality(Sent) < MaxSent
    /\ \/ /\ \E m \in Message(<<t, calls[t] + 1>>, RequestSizes) : Pack(t, m)
          /\ calls' = [calls EXCEPT ![t] = @ + 1]
          /\ overlapped' = (overlapped \/ Waiting # {})
          /\ UNCHANGED <<wire, handled, outcome>>
       \/ PackDies(t, RequestSizes)

Return(t) ==
    /\ Received(t)
    /\ stage' = [stage EXCEPT ![t] = "idle"]
    /\ \E r \in Unpacks(t) : outcome' = [outcome EXCEPT ![t] = r]
    /\ got' = [got EXCEPT ![t] = <<>>]
    /\ UNCHANGED <<unsent, wire, calls, handled, overlapped>>

\* invoke changes the message into its answer, which network_send packs; an
\* answer too long ends the server, after the request took effect.
Handle ==
    /\ Received(Server)
    /\ \E r \in Unpacks(Server) :
        /\ handled' = handled \cup ({r} \ {None})
        /\ got' = [got EXCEPT ![Server][3].of.request = r]
    /\ stage' = [stage EXCEPT ![Server] = "invoked"]
    /\ UNCHANGED <<unsent, wire, calls, outcome, overlapped>>

Answer ==
    /\ stage[Server] = "invoked"
    /\ \/ /\ \E m \in Message(got[Server][3].of.request, AnswerSizes) : Pack(Server, m)
          /\ UNCHANGED <<wire, calls, handled, outcome, overlapped>>
       \/ PackDies(Server, AnswerSizes)

\* What an end does once it is called.
Step(e) ==
    \/ WriteSome(e) \/ WriteFails(e) \/ ReadSome(e) \/ ReadFails(e) \/ ReceiveFails(e)
    \/ e # Server /\ Return(e)
    \/ e = Server /\ (Handle \/ Answer)

Next ==
    \/ \E t \in Threads : Call(t)
    \/ \E e \in Ends : Step(e) \/ Dies(e)

Safety == Init /\ [][Next]_vars

\* Threads keep running, and what was written arrives.
Spec == Safety /\ \A e \in Ends : WF_vars(Step(e))

-----------------------------------------------------------------------------
Messages == [request : Requests \cup {None}, size : RequestSizes \cup AnswerSizes]
Bytes == [of : Messages, at : 1 .. 2 * Limit + 1]

EndOfFrame(bytes) ==
    \E m \in Messages : \E k \in 1 .. m.size + 2 : bytes = SubSeq(Frame(m), k, m.size + 2)

\* A thread writes all it has to, the end of a frame, before it reads, and reads
\* no byte more than the length announces.
TypeOK ==
    /\ stage \in [Ends -> {"idle", "send", "receive", "invoked", "closed", "dead"}]
    /\ unsent \in [Ends -> Seq(Bytes)] /\ got \in [Ends -> Seq(Bytes)]
    /\ \A e \in Ends : unsent[e] # <<>> <=> stage[e] = "send"
    /\ \A e \in Ends : unsent[e] # <<>> => EndOfFrame(unsent[e])
    /\ \A t \in Threads : stage[t] \notin {"invoked", "closed"}
    /\ \A t, u \in Threads : stage[t] = "dead" => stage[u] = "dead"
    /\ stage[Server] # "idle"
    /\ \A e \in Ends : got[e] # <<>> => stage[e] \in {"receive", "invoked"}
    /\ stage[Server] = "invoked" => Len(got[Server]) > 2
    /\ \A e \in Ends : Len(got[e]) > 2 => Missing(e) >= 0
    /\ wire \in [Directions -> Seq(Bytes)] /\ \A d \in Directions : Len(wire[d]) <= Room
    /\ calls \in [Threads -> 0 .. MaxCalls]
    /\ handled \subseteq Requests
    /\ outcome \in [Threads -> Requests \cup {None}]

\* What an end has read, and what is on its way to it.
Line(e) == got[e] \o wire[In(e)]

\* The frames of a request or an answer.
Frames(request, sizes) ==
    {Frame(m) : m \in {n \in Messages : n.request = request /\ n.size \in sizes /\ n.size < Limit}}

Quiet == Waiting = {} /\ \E t \in Threads : stage[t] = "idle"

\* Calls in turn: what was written of a frame is what was read of it, what is on
\* its way and what is left to write, and the other direction is empty.
Sending(t) ==
    /\ wire["to_threads"] = <<>>
    /\ stage[Server] # "dead" =>
        stage[Server] = "receive"
        /\ Line(Server) \o unsent[t] \in Frames(<<t, calls[t]>>, RequestSizes)

Handling(t) ==
    /\ Line(t) = <<>>
    /\ stage[Server] \in {"receive", "invoked"}
    /\ Line(Server) \in Frames(<<t, calls[t]>>, RequestSizes)

Answering(t) ==
    /\ Line(Server) = <<>>
    /\ stage[Server] \in {"send", "receive"}
    /\ Line(t) \o unsent[Server] \in Frames(<<t, calls[t]>>, AnswerSizes)

Abandoned(t) ==
    /\ stage[Server] = "dead"
    /\ Line(t) = <<>> \/ \E f \in Frames(<<t, calls[t]>>, AnswerSizes) : IsPrefix(Line(t), f)

InTurn ==
    /\ \A t, u \in Waiting : t = u
    /\ stage[Server] = "closed" => \A t \in Threads : stage[t] = "dead"
    /\ stage[Server] \in {"receive", "invoked"} /\ Line(Server) # <<>> =>
        \E t \in Threads : \E f \in Frames(<<t, calls[t]>>, RequestSizes) : IsPrefix(Line(Server), f)
    /\ stage[Server] = "invoked" => wire["to_server"] = <<>>
    /\ stage[Server] = "send" => Line(Server) = <<>>
    /\ Quiet =>
        /\ wire["to_threads"] = <<>>
        /\ stage[Server] = "dead" \/ (stage[Server] = "receive" /\ Line(Server) = <<>>)
    /\ \A t \in Waiting :
        IF stage[t] = "send" THEN Sending(t)
        ELSE Handling(t) \/ Answering(t) \/ Abandoned(t)

\* Whatever calls overlap: what has arrived, or will, of a request came in the
\* order it was written, and the byte that gets it handled comes no second time.
Arriving == IF stage[Server] = "invoked" THEN wire["to_server"] ELSE Line(Server)

Ordered(bytes) ==
    \A i, j \in DOMAIN bytes :
        i < j /\ bytes[i].of.request = bytes[j].of.request => bytes[i].at < bytes[j].at

ByteOnce(b) ==
    /\ b.of.request \in Sent
    /\ b.of.request \in handled => b.at > 3
    /\ \A t \in Threads :
        unsent[t] # <<>> /\ unsent[t][1].of.request = b.of.request => b.at < unsent[t][1].at

RequestsOnce ==
    /\ handled \subseteq Sent
    /\ Ordered(Arriving) /\ \A i \in DOMAIN Arriving : ByteOnce(Arriving[i])
    /\ \A t \in Threads : unsent[t] # <<>> =>
        /\ unsent[t][1].of.request = <<t, calls[t]>>
        /\ <<t, calls[t]>> \in handled => unsent[t][1].at > 3

\* What the server writes answers requests it has handled, or what it took for
\* one in a mixture.
AnswersHandled ==
    /\ stage[Server] = "invoked" => got[Server][3].of.request \in handled \cup {None}
    /\ unsent[Server] # <<>> => unsent[Server][1].of.request \in handled \cup {None}
    /\ \A t \in Threads : \A i \in DOMAIN got[t] : got[t][i].of.request \in handled \cup {None}
    /\ \A i \in DOMAIN wire["to_threads"] :
        wire["to_threads"][i].of.request \in handled \cup {None}

\* Bytes go where they belong, and as long as no two calls overlap the two ends
\* agree on what was sent.
LinkInv == TypeOK /\ RequestsOnce /\ AnswersHandled /\ (overlapped \/ InTurn)

\* What an end has read since it began to receive is the beginning of one
\* frame: the two calls of read_all never get out of step with the two of
\* write_all, and no bytes come in between.
FramesWhole ==
    \A e \in Ends : got[e] # <<>> => IsPrefix(got[e], Frame(got[e][1].of))

\* Whatever way frames are cut by partial writes and reads, this holds as long
\* as no two threads use the connection at the same time.
FramesWholeInTurn == overlapped \/ FramesWhole

\* A call that returns NULL leaves nothing to be found: between calls in turn it
\* fails only because the server is dead, so no later one can read its answer.
FailuresAreFinal ==
    [][\A t \in Threads :
        t \in Waiting /\ stage'[t] = "idle" /\ outcome'[t] = None =>
            overlapped \/ stage[Server] = "dead"]_vars

\* A call in turn comes back: with an answer, with NULL, or its process is dead.
CallsReturn ==
    \A t \in Threads : t \in Waiting ~> t \notin Waiting \/ overlapped

\* The functions implement a request handled at most once, and answered with
\* its own answer when calls are made in turn.
E == INSTANCE Exchange WITH waiting <- Waiting
ImplementsExchange == E!Spec
=============================================================================
