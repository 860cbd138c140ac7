------------------------------ MODULE Exchange ------------------------------
(* What network_send_receive promises the threads that call it on one         *)
(* connection: a request is handled at most once, and a call returns the     *)
(* answer to its own request, after it was handled, or nothing.  Once two    *)
(* calls overlapped, it may be the answer to another request.                *)
EXTENDS Naturals

CONSTANTS Threads, None

VARIABLES
    calls,   \* the requests each thread has sent
    waiting, \* the threads inside a call
    handled, \* the requests the server has handled
    outcome, \* of the last call of each thread: the request answered, None for NULL
    overlapped

vars == <<calls, waiting, handled, outcome, overlapped>>

Request(t) == <<t, calls[t]>>
Sent == UNION {{<<t, n>> : n \in 1 .. calls[t]} : t \in Threads}

Init ==
    /\ calls = [t \in Threads |-> 0]
    /\ waiting = {}
    /\ handled = {}
    /\ outcome = [t \in Threads |-> None]
    /\ overlapped = FALSE

Call(t) ==
    /\ t \notin waiting
    /\ calls' = [calls EXCEPT ![t] = @ + 1]
    /\ waiting' = waiting \cup {t}
    /\ overlapped' = (overlapped \/ waiting # {})
    /\ UNCHANGED <<handled, outcome>>

\* A request may be handled although its call failed meanwhile.
Handle ==
    /\ \E r \in Sent \ handled : handled' = handled \cup {r}
    /\ UNCHANGED <<calls, waiting, outcome, overlapped>>

Return(t) ==
    /\ t \in waiting /\ waiting' = waiting \ {t}
    /\ \E r \in (IF overlapped THEN handled ELSE handled \cap {Request(t)}) \cup {None} :
        outcome' = [outcome EXCEPT ![t] = r]
    /\ UNCHANGED <<calls, handled, overlapped>>

ProcessEnds == waiting' = {} /\ UNCHANGED <<calls, handled, outcome, overlapped>>

Next == Handle \/ ProcessEnds \/ \E t \in Threads : Call(t) \/ Return(t)

Spec == Init /\ [][Next]_vars
=============================================================================
