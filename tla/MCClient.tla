------------------------------ MODULE MCClient ------------------------------
(* The instance of ClientApp that TLC checks: three servers, the address of *)
(* the last too long to be read after one of the others, and chains of none *)
(* to three servers when the client starts.                                 *)
EXTENDS ClientApp

CONSTANTS s1, s2, s3

MCServers == {s1, s2, s3}
MCWidth == [s \in MCServers |-> IF s = s3 THEN 3 ELSE 1]
MCListings == {<<>>, <<s1>>, <<s1, s2>>, <<s1, s3, s2>>}
=============================================================================
