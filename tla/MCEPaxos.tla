------------------------------ MODULE MCEPaxos ------------------------------
(* EPaxos for TLC.                                                         *)
EXTENDS EPaxosInv, TLC

CONSTANTS a1, a2, b1, b2, k

\* Two commands for each of two replicas, all on one key.
OneKey == [c \in Cmd |-> k]
TwoOwners == [c \in Cmd |-> IF c \in {a1, a2} THEN {1} ELSE {2}]

\* The connection from a replica with commands to the one without.
OneConnection == {<<2, 3>>}
=============================================================================
