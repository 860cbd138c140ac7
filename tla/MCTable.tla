------------------------------- MODULE MCTable -------------------------------
(***************************************************************************)
(* Four keys, "a" < "ab" < "b" < "c" in the order of strcmp, with the sums *)
(* of their characters.  Of two lists the first holds "b" and the second   *)
(* "a", "ab" and "c".                                                      *)
(***************************************************************************)
EXTENDS Table

MCCharSum == <<97, 195, 98, 99>>
=============================================================================
