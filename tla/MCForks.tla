------------------------------- MODULE MCForks -------------------------------
(* Forks for TLC.                                                          *)
EXTENDS Forks, TLC

CmdSymmetry == Permutations(Cmd)

\* One leader; or a second candidate, in another relay group.
AtNode1 == [c \in Cmd |-> {1}]
AtNodes14 == [c \in Cmd |-> IF c = CHOOSE d \in Cmd : TRUE THEN {1} ELSE {4}]

\* Fixed relays, flag cfr: node 2 is the relay of node 1.
Relay2 == [n \in Node |-> IF n = 1 THEN {2} ELSE Node]
RelaysOf14 == [n \in Node |-> IF n = 1 THEN {2, 3} ELSE IF n = 4 THEN {2, 5} ELSE Node]
=============================================================================
