--------------------------- MODULE ReadersWriters ---------------------------
(***************************************************************************)
(* What a semaphore_t promises to the handlers of table_skel.c: any number *)
(* of threads may be inside for reading, a thread inside for writing is    *)
(* alone.  Nothing is said about waiting.                                  *)
(***************************************************************************)
CONSTANT Threads
VARIABLE inside

Init == inside = [t \in Threads |-> "out"]

BeginRead(t) ==
    /\ inside[t] = "out"
    /\ \A u \in Threads : inside[u] # "write"
    /\ inside' = [inside EXCEPT ![t] = "read"]

BeginWrite(t) ==
    /\ \A u \in Threads : inside[u] = "out"
    /\ inside' = [inside EXCEPT ![t] = "write"]

End(t) ==
    /\ inside[t] # "out"
    /\ inside' = [inside EXCEPT ![t] = "out"]

Next == \E t \in Threads : BeginRead(t) \/ BeginWrite(t) \/ End(t)

Spec == Init /\ [][Next]_inside
=============================================================================
