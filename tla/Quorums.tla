------------------------------- MODULE Quorums -------------------------------
(***************************************************************************)
(* Quorum of quorum.go: acknowledgements are counted as they come, by node *)
(* and by zone, and a quorum system is a test of the counts.  Two quorums  *)
(* are filled side by side, as those of two ballots or two instances.      *)
(***************************************************************************)
EXTENDS Integers, FiniteSets

CONSTANTS
  Layouts  \* for each layout of a cluster the zones of its nodes, a function

VARIABLES
  zoneOf,  \* the layout
  quorum   \* quorum[k], k = 1, 2: [size, acks, zones]

\* Three nodes or more: three quarters of two are one.
ASSUME LayoutsAssumption ==
  /\ Layouts # {}
  /\ \A l \in Layouts : IsFiniteSet(DOMAIN l) /\ Cardinality(DOMAIN l) >= 3

quorumVars == <<zoneOf, quorum>>

Voter == DOMAIN zoneOf
ZoneIds == {zoneOf[v] : v \in Voter}
NumVoters == Cardinality(Voter)
npz(z) == Cardinality({v \in Voter : zoneOf[v] = z})

\* A zone without votes has no entry in the map.
NewQuorum == [size |-> 0, acks |-> {}, zones |-> [z \in ZoneIds |-> 0]]

ACK(q, v) ==
  IF v \in q.acks THEN q
  ELSE [size |-> q.size + 1, acks |-> q.acks \cup {v},
        zones |-> [q.zones EXCEPT ![zoneOf[v]] = @ + 1]]

\* Mutant: half of the nodes are enough.
HalfOfNodes(q) == q.size >= NumVoters \div 2

Majority(q) == q.size > NumVoters \div 2
FastQuorum(q) == q.size >= (NumVoters * 3) \div 4
GridRow(q) == \A z \in ZoneIds : q.zones[z] > 0
GridColumn(q) == \E z \in ZoneIds : q.zones[z] = npz(z)
MajorityZones(q) == Cardinality({z \in ZoneIds : q.zones[z] > npz(z) \div 2})
FGridQ1(q, Fz) == MajorityZones(q) >= Cardinality(ZoneIds) - Fz
FGridQ2(q, Fz) == MajorityZones(q) >= Fz + 1

\* A vote comes in, for the second time perhaps.
Vote ==
  /\ \E k \in {1, 2}, v \in Voter : quorum' = [quorum EXCEPT ![k] = ACK(@, v)]
  /\ UNCHANGED zoneOf

\* A retry of the phase forgets its votes.
ResetQuorum ==
  /\ \E k \in {1, 2} : quorum' = [quorum EXCEPT ![k] = NewQuorum]
  /\ UNCHANGED zoneOf

QuorumsInit(layouts) ==
  /\ zoneOf \in layouts
  /\ quorum = [k \in {1, 2} |-> NewQuorum]

QuorumsNext == Vote \/ ResetQuorum
-----------------------------------------------------------------------------
\* The pairs of tests that a protocol relies on to have a node in common.
BothSatisfied(p, q) ==
  \/ Majority(p) /\ (Majority(q) \/ FastQuorum(q))
  \/ FastQuorum(p) /\ FastQuorum(q)
  \/ GridRow(p) /\ GridColumn(q)
  \/ \E Fz \in 0 .. Cardinality(ZoneIds) - 1 : FGridQ1(p, Fz) /\ FGridQ2(q, Fz)

\* Whatever votes come twice and whatever is forgotten, two quorums that meet
\* the tests of one system share a node, with zones of different sizes and
\* numbers of nodes the divisions do not divide (ACK, Majority, FastQuorum,
\* GridRow, GridColumn, FGridQ1, FGridQ2).
QuorumsMeet ==
  BothSatisfied(quorum[1], quorum[2]) => quorum[1].acks \cap quorum[2].acks # {}
=============================================================================
