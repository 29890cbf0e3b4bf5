------------------------------ MODULE PeerGroups ------------------------------
(***************************************************************************)
(* How a replica of PigPaxos, Layer Paxos or Chain Paxos splits the nodes  *)
(* into relay groups when it starts, and how it draws a relay from each    *)
(* when it broadcasts.  A node that cannot be reached goes on a gray list  *)
(* and is not drawn until the ticker takes it off again.                   *)
(*                                                                         *)
(* Nodes are numbered in the order of their IDs, by zone first.  Nothing   *)
(* checks that the flags fit the nodes: a replica whose groups cannot be   *)
(* made does not start.                                                    *)
(***************************************************************************)
EXTENDS Naturals, Sequences, FiniteSets, Functions

CONSTANT
  Clusters   \* [zone, rpg, pg]: the zone of every node; flags rpg and pg

ASSUME ClustersAssumption ==
  /\ Clusters # {}
  /\ \A c \in Clusters : /\ c.zone \in Seq(Nat) \ {<<>>}
                         /\ c.rpg \in BOOLEAN
                         /\ c.pg \in Nat

VARIABLES
  cluster,   \* the cluster the replica belongs to
  self,      \* the replica
  group,     \* relayGroups
  own,       \* myRelayGroup
  placed,    \* how many nodes have a group
  pgNum,     \* the group that is being filled
  stage,     \* "starting" in NewReplica, "started", "crashed", or
             \* "drawing" in GetRandomNodeId, with the gray list locked
  gray,      \* GrayNodes
  relays     \* the relays drawn so far for the broadcast under way

groupVars == <<cluster, self, group, own, placed, pgNum, stage, gray, relays>>

Nodes == DOMAIN cluster.zone
NumGroups == IF cluster.rpg THEN Cardinality(Range(cluster.zone)) ELSE cluster.pg

\* nodesPerGroup of peersToGroups.
Share == Cardinality(Nodes) \div NumGroups

\* Zones are taken as indices from 1; nodes are divided by the number of groups.
CanPlace(n) == IF cluster.rpg THEN cluster.zone[n] \in 1 .. NumGroups ELSE NumGroups > 0

PlaceInZone(n) ==
  /\ group' = [group EXCEPT ![cluster.zone[n]] = @ \cup {n}]
  /\ UNCHANGED <<own, pgNum>>

\* The node goes to the current group, which may be the replica's own.
JoinCurrent(n) ==
  /\ group' = [group EXCEPT ![pgNum] = @ \cup {n}]
  /\ own' = IF n = self THEN pgNum ELSE own

\* Mutant: the count of a group is not reset for the next one.
PlaceWithoutReset(n) ==
  /\ JoinCurrent(n)
  /\ pgNum' = IF placed + 1 >= Share /\ pgNum < NumGroups THEN pgNum + 1 ELSE pgNum

\* Mutant: a group takes one node more than its share.
PlaceOneMore(n) ==
  /\ JoinCurrent(n)
  /\ pgNum' = IF Cardinality(group'[pgNum]) > Share /\ pgNum < NumGroups THEN pgNum + 1 ELSE pgNum

\* peersToGroups: the last group takes the rest.
PlaceInTurn(n) ==
  /\ JoinCurrent(n)
  /\ pgNum' = IF Cardinality(group[pgNum] \cup {n}) >= Share /\ pgNum < NumGroups
              THEN pgNum + 1 ELSE pgNum

Place ==
  /\ stage = "starting" /\ placed < Cardinality(Nodes)
  /\ CanPlace(placed + 1)
  /\ placed' = placed + 1
  /\ IF cluster.rpg THEN PlaceInZone(placed') ELSE PlaceInTurn(placed')
  /\ UNCHANGED <<cluster, self, stage, gray, relays>>

\* A zone is no index of the groups, or there are no groups to divide by.
CrashPlacing ==
  /\ stage = "starting" /\ placed < Cardinality(Nodes)
  /\ ~CanPlace(placed + 1)
  /\ stage' = "crashed"
  /\ UNCHANGED <<cluster, self, group, own, placed, pgNum, gray, relays>>

\* NewReplica goes through the nodes of every group: a group that nobody has
\* been placed in is nil.
Start ==
  /\ stage = "starting" /\ placed = Cardinality(Nodes)
  /\ stage' = IF {} \in Range(group) THEN "crashed" ELSE "started"
  /\ UNCHANGED <<cluster, self, group, own, placed, pgNum, gray, relays>>

\* Broadcast turns to the next group, or begins.
StartDraw ==
  /\ stage = "started" /\ stage' = "drawing"
  /\ relays' = IF Len(relays) = NumGroups THEN <<>> ELSE relays
  /\ UNCHANGED <<cluster, self, group, own, placed, pgNum, gray>>

Usable == group[Len(relays) + 1] \ (gray \cup {self})

\* The loop of GetRandomNodeId hits a node it may use; the lock is released.
Draw ==
  /\ stage = "drawing" /\ stage' = "started"
  /\ \E n \in Usable : relays' = Append(relays, n)
  /\ UNCHANGED <<cluster, self, group, own, placed, pgNum, gray>>

\* Send: the message of a broadcast, a relay or an answer fails.
SendFails ==
  /\ stage = "started"
  /\ \E n \in Nodes \ {self} : gray' = gray \cup {n}
  /\ UNCHANGED <<cluster, self, group, own, placed, pgNum, stage, relays>>

\* The ticker waits for the lock of the gray list.
GrayTimeout(n) ==
  /\ stage = "started" /\ n \in gray
  /\ gray' = gray \ {n}
  /\ UNCHANGED <<cluster, self, group, own, placed, pgNum, stage, relays>>

\* The replica of every node of every cluster.
Replicas == UNION {{[cluster |-> c, self |-> n] : n \in DOMAIN c.zone} : c \in Clusters}

GroupsInit(replicas) ==
  /\ \E r \in replicas : cluster = r.cluster /\ self = r.self
  /\ group = [i \in 1 .. NumGroups |-> {}]
  /\ own = IF cluster.rpg THEN cluster.zone[self] ELSE 1
  /\ placed = 0 /\ pgNum = 1
  /\ stage = "starting" /\ gray = {} /\ relays = <<>>

GroupsNext ==
  \/ Place \/ CrashPlacing \/ Start
  \/ StartDraw \/ Draw \/ SendFails
  \/ \E n \in Nodes : GrayTimeout(n)

GroupsSpec == GroupsInit(Replicas) /\ [][GroupsNext]_groupVars
-----------------------------------------------------------------------------
\* What the relaying modules assume of Groups and of their own group: with a
\* replica that has started, every node is in one group, the replica in the one
\* it takes for its own; groups made by number have equal shares, but for the
\* last, which takes the rest of the division (peersToGroups, NewReplica).
GroupsPartition ==
  stage \in {"started", "drawing"} =>
    /\ UNION Range(group) = Nodes
    /\ \A i, j \in DOMAIN group : i # j => group[i] \cap group[j] = {}
    /\ own \in DOMAIN group /\ self \in group[own]
    /\ ~cluster.rpg =>
         \A i \in DOMAIN group :
           Cardinality(group[i]) = IF i < NumGroups THEN Share
                                   ELSE Cardinality(Nodes) - (NumGroups - 1) * Share

\* There are groups, and a node for each; zones are numbered from 1.
FlagsFit ==
  IF cluster.rpg THEN Range(cluster.zone) = 1 .. NumGroups
  ELSE NumGroups \in 1 .. Cardinality(Nodes)

\* A replica whose flags fit the nodes starts, however the nodes divide among
\* the groups, and one whose flags do not fit never does: no group is nil when
\* a message is broadcast (NewReplica, peersToGroups).
StartsIfFlagsFit ==
  stage # "starting" => (stage # "crashed" <=> FlagsFit)
=============================================================================
