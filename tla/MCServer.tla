------------------------------ MODULE MCServer ------------------------------
(***************************************************************************)
(* Small sets of requests for Server: every operation, on two keys that    *)
(* share a list in the worst case and two values.                          *)
(***************************************************************************)
EXTENDS Server

CONSTANTS k1, k2, v1, v2

Request(op, key, value) == [op |-> op, key |-> key, value |-> value]

MCRequests ==
    {Request("put", k1, v2), Request("put", k2, v1),
     Request("put", k1, NULL), Request("del", k1, NULL), Request("get", k1, NULL),
     Request("size", NULL, NULL), Request("getkeys", NULL, NULL),
     Request("gettable", NULL, NULL), Request("stats", NULL, NULL),
     Request("bad", NULL, NULL)}

\* An empty table, as the first server has, and one with an entry to overwrite.
MCLoaded == {[k \in Keys |-> NULL], [k \in Keys |-> IF k = k1 THEN v1 ELSE NULL]}
=============================================================================
