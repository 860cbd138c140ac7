-------------------------------- MODULE KVMap --------------------------------
(***************************************************************************)
(* What table.h promises: a map from keys to values.  `map` is the content *)
(* and `reply` the last call with its arguments and what it returned.     *)
(***************************************************************************)
EXTENDS Integers, FiniteSets, SequencesExt

CONSTANTS Keys, Values, NULL

VARIABLES map, reply

Present == {k \in Keys : map[k] # NULL}

Init ==
    /\ map = [k \in Keys |-> NULL]
    /\ reply = <<"create", 0>>

Put(k, v) ==
    /\ map' = [map EXCEPT ![k] = v]
    /\ reply' = <<"put", k, v, 0>>

\* A value without content is refused.
PutNothing ==
    /\ reply' = <<"put", -1>>
    /\ UNCHANGED map

Delete(k) ==
    /\ map' = [map EXCEPT ![k] = NULL]
    /\ reply' = <<"remove", k, IF k \in Present THEN 0 ELSE 1>>

Get(k) ==
    /\ reply' = <<"get", k, map[k]>>
    /\ UNCHANGED map

Size ==
    /\ reply' = <<"size", Cardinality(Present)>>
    /\ UNCHANGED map

\* The keys come in no promised order, each of them once.
GetKeys ==
    /\ \E keys \in SetToSeqs(Present) : reply' = <<"get_keys", keys>>
    /\ UNCHANGED map

Next ==
    \/ \E k \in Keys, v \in Values : Put(k, v)
    \/ \E k \in Keys : Delete(k) \/ Get(k)
    \/ PutNothing \/ Size \/ GetKeys

Spec == Init /\ [][Next]_<<map, reply>>
=============================================================================
