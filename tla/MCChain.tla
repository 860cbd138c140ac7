------------------------------- MODULE MCChain -------------------------------
(* Three runs of table_server, with an address each or two of them with the *)
(* same one, and the chains they may have formed before.                    *)
EXTENDS Chain

CONSTANTS s1, s2, s3, a1, a2, a3

OwnAddress    == [s \in Servers |-> CASE s = s1 -> a1 [] s = s2 -> a2 [] OTHER -> a3]
SharedAddress == [s \in Servers |-> CASE s = s1 -> a1 [] s = s2 -> a2 [] OTHER -> a2]

NoChain   == <<>>
OneServer == <<s1>>
TwoServers == <<s1, s2>>
ThreeServers == <<s1, s2, s3>>

\* Before any server has started all of them are alike, each with its own
\* address, and so are writes of one kind.
Renamed(p) == p @@ [a \in Addresses |-> OwnAddress[p[CHOOSE s \in Servers : OwnAddress[s] = a]]]
AllAlike == {Renamed(p) @@ q : p \in Permutations(Servers), q \in Permutations(Writes)}
=============================================================================
