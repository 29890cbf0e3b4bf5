---------------------------- MODULE MCQuorumRead ----------------------------
(* QuorumRead for TLC.                                                     *)
EXTENDS QuorumRead

\* Where clients send their requests.
AtNode1 == [c \in Cmd |-> {1}]
AtNodes12 == [c \in Cmd |-> {1, 2}]

\* Commands are opaque to the protocol.
CmdSymmetry == Permutations(Cmd)
=============================================================================
