----------------------------- MODULE AtomicStore -----------------------------
(***************************************************************************)
(* What one server promises to the clients connected to it: each request   *)
(* on the table takes effect at one instant between its arrival and its    *)
(* answer, and the answer is the one of that instant.                      *)
(***************************************************************************)
EXTENDS Integers, FiniteSets

CONSTANTS Threads, Keys, NULL, Requests, Loaded, NoCall, NoResult

VARIABLES map, call, result

Present == {k \in Keys : map[k] # NULL}

Init ==
    /\ map \in Loaded
    /\ call = [t \in Threads |-> NoCall]
    /\ result = [t \in Threads |-> NoResult]

Arrive(t) ==
    /\ call[t] = NoCall
    /\ \E r \in Requests : call' = [call EXCEPT ![t] = r]
    /\ UNCHANGED <<map, result>>

Answered(t, r) == result' = [result EXCEPT ![t] = r] /\ UNCHANGED call

Effect(t) ==
    /\ call[t] # NoCall /\ result[t] = NoResult
    /\ LET k == call[t].key
           v == call[t].value
       IN  \/ /\ call[t].op = "put" /\ v # NULL
              /\ map' = [map EXCEPT ![k] = v]
              /\ Answered(t, <<"put", 0>>)
           \/ /\ call[t].op = "put" /\ v = NULL
              /\ UNCHANGED map
              /\ Answered(t, <<"put", -1>>)
           \/ /\ call[t].op = "del"
              /\ map' = [map EXCEPT ![k] = NULL]
              /\ Answered(t, <<"del", IF k \in Present THEN 0 ELSE 1>>)
           \/ /\ call[t].op = "get"
              /\ UNCHANGED map
              /\ Answered(t, <<"get", map[k]>>)
           \/ /\ call[t].op = "size"
              /\ UNCHANGED map
              /\ Answered(t, <<"size", Cardinality(Present)>>)
           \/ /\ call[t].op = "getkeys"
              /\ UNCHANGED map
              /\ Answered(t, <<"getkeys", Present>>)
           \/ /\ call[t].op = "gettable"
              /\ UNCHANGED map
              /\ Answered(t, <<"gettable", {<<x, map[x]>> : x \in Present}>>)

\* The answer leaves, or the connection is lost.
Return(t) ==
    /\ result[t] # NoResult
    /\ call' = [call EXCEPT ![t] = NoCall]
    /\ result' = [result EXCEPT ![t] = NoResult]
    /\ UNCHANGED map

Next == \E t \in Threads : Arrive(t) \/ Effect(t) \/ Return(t)

Spec == Init /\ [][Next]_<<map, call, result>>
=============================================================================
