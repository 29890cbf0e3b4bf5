----------------------------- MODULE MCPigPaxos -----------------------------
(* PigPaxos for TLC.                                                       *)
EXTENDS PigPaxosInv, TLC

\* Commands are opaque to the protocol.
CmdSymmetry == Permutations(Cmd)

\* Where clients send their requests.
AtNode1 == [c \in Cmd |-> {1}]
AtNodes12 == [c \in Cmd |-> {1, 2}]

\* Relays drawn anew for every message, and relays that are always the same.
AnyRelay == [n \in Node |-> Node]
FixedRelay == [n \in Node |-> IF n = 3 THEN {1} ELSE {3}]
=============================================================================
