-------------------------------- MODULE Forks --------------------------------
(***************************************************************************)
(* The two copies of PigPaxos that are meant to need fewer messages: flag  *)
(* algorithm of the server chooses one when it starts, and every replica   *)
(* runs the same.                                                          *)
(***************************************************************************)
EXTENDS LayerPaxos, ChainPaxos

CONSTANT Algorithms   \* the programs to look at: "layerpaxos", "chainpaxos"

VARIABLE algorithm

forkVars == <<vars, algorithm>>

ForkInit == Init /\ algorithm \in Algorithms

RunReplica(n) ==
  \/ algorithm = "layerpaxos" /\ LayerNext(n)
  \/ algorithm = "chainpaxos" /\ ChainNext(n)

ForkNext ==
  /\ \/ \E c \in Cmd : \E n \in Entry[c] : Submit(n, c)
     \/ \E n \in Node : RunReplica(n)
  /\ UNCHANGED algorithm

ForkSpec == ForkInit /\ [][ForkNext]_forkVars
-----------------------------------------------------------------------------
\* Phase 2 needs a majority: when a leader commits a slot, a majority of the
\* nodes have stored its proposal, or one of a later ballot, whatever the
\* relay told it (readyToRelayP2b, HandleP2b).
CommittedByMajority ==
  \A n \in Node, s \in Slot :
    LET e == node[n].log[s]
    IN  e.status = "committed" /\ e.quorum # {} =>
          LET stored == {q \in Node : \/ node[q].log[s].ballot >= e.ballot
                                     \/ s < node[q].execute}
          IN  2 * Cardinality(stored) > Cardinality(Node)
=============================================================================
