----------------------------- MODULE EPaxosInv -----------------------------
(***************************************************************************)
(* The inductive invariant behind CommittedAgree and ConflictsOrdered of   *)
(* EPaxos.  Own(p, s) is instance s of p at its owner, the only replica    *)
(* that finishes it: what the others hold and what is under way is         *)
(* compared with it.                                                       *)
(***************************************************************************)
EXTENDS EPaxos

\* The fields of a replica and of an instance.
Fields == {"id", "log", "slot", "committed", "executed", "conflicts", "maxSeqPerKey",
           "db", "replies", "out"}

InstanceFields == {"status", "cmd", "seq", "dep", "quorum", "changed"}

\* What the proofs need of the shape of replica n.
IsReplica(r, n) ==
  /\ DOMAIN r = Fields
  /\ r.id = n
  /\ DOMAIN r.log = Node /\ DOMAIN r.slot = Node
  /\ \A q \in Node : DOMAIN r.log[q] = Slot
  /\ \A q \in Node, s \in Slot : DOMAIN r.log[q][s] = InstanceFields
  /\ r.conflicts \in [Node -> [Key -> Int]]

\* The own instances of replica n: there is none beyond its slot, each has a
\* command, and the owner is the first to acknowledge it.
OwnOK(r, n) ==
  /\ r.slot[n] \in Int /\ r.slot[n] >= -1
  /\ \A s \in Slot :
       LET i == r.log[n][s]
       IN  /\ i.status \in Status
           /\ i.dep \in [Node -> Nat]
           /\ i.quorum \subseteq Node
           /\ i.status # "none" => i.cmd \in Cmd /\ s <= r.slot[n]
           /\ i.status = "preaccepted" => n \in i.quorum

Own(p, s) == node[p].log[p][s]

InFlight(a, b) == Range(links[a][b])

\* A message on its way from a to b agrees with the instance at its owner.
MsgOK(a, b, m) ==
  /\ a # b /\ m.slot \in Slot
  /\ m.type = "PreAccept" => Own(a, m.slot).status # "none" /\ m.cmd = Own(a, m.slot).cmd
  /\ m.type = "Commit" => /\ Own(a, m.slot).status = "committed"
                          /\ m.cmd = Own(a, m.slot).cmd
                          /\ m.seq = Own(a, m.slot).seq
                          /\ m.dep = Own(a, m.slot).dep
  /\ m.type = "PreAcceptReply" => Own(b, m.slot).status # "none" /\ m.dep \in [Node -> Nat]

\* Replicas between two messages, and the connections.
Base ==
  /\ DOMAIN node = Node
  /\ \A n \in Node : IsReplica(node[n], n) /\ OwnOK(node[n], n) /\ node[n].out = [q \in Node |-> <<>>]
  /\ DOMAIN links = Node
  /\ \A a \in Node : DOMAIN links[a] = Node
  /\ \A a, b \in Node : links[a][b] \in Seq(InFlight(a, b))
  /\ \A a, b \in Node : \A m \in InFlight(a, b) : MsgOK(a, b, m)

\* What another replica holds as committed its owner has committed.
Copies ==
  \A n, q \in Node, s \in Slot :
    n # q /\ node[n].log[q][s].status = "committed" =>
      /\ Own(q, s).status = "committed"
      /\ node[n].log[q][s].cmd = Own(q, s).cmd
      /\ node[n].log[q][s].seq = Own(q, s).seq
      /\ node[n].log[q][s].dep = Own(q, s).dep

\* The dependencies of a settled instance are final.
Settled(p, s) == Own(p, s).status \in {"accepted", "committed"}

KeyOfOwn(p, s) == KeyOf[Own(p, s).cmd]

(***************************************************************************)
(* The dependencies that replica r has told, or is telling, the owner of   *)
(* an instance not yet settled: those on their way, and those the owner    *)
(* has merged, its own among them.                                         *)
(***************************************************************************)
Tellings(r, p, s) ==
  IF Own(p, s).status = "preaccepted"
  THEN (IF r \in Own(p, s).quorum THEN {Own(p, s).dep} ELSE {})
       \cup {m.dep : m \in {x \in InFlight(r, p) : x.type = "PreAcceptReply" /\ x.slot = s}}
  ELSE {}

\* Two instances that must be ordered.
Conflicting(p, s, q, u) ==
  s >= 1 /\ u >= 1 /\ <<p, s>> # <<q, u>> /\ KeyOfOwn(p, s) = KeyOfOwn(q, u)

\* Three quarters of two nodes are one: the owner never counts alone, because
\* it counts when an answer comes.
Fast(Q) == FastQuorum(Q) /\ Cardinality(Q) >= 2

\* Who has told the dependencies of an instance has recorded it (update).
Recorded ==
  \A r, p \in Node, s \in Slot :
    Tellings(r, p, s) # {} => node[r].conflicts[p][KeyOfOwn(p, s)] >= s

\* Of two conflicting instances a replica told the second of the first.
TellingsOrdered ==
  \A r, p \in Node, s \in Slot : \A D \in Tellings(r, p, s) :
    \A q \in Node, u \in Slot : \A E \in Tellings(r, q, u) :
      Conflicting(p, s, q, u) => D[q] >= u \/ E[p] >= s

\* Replica r stands for a settled instance: it has recorded it, and whatever it
\* tells of a conflicting one is ordered with it.
Witness(p, s, r) ==
  /\ node[r].conflicts[p][KeyOfOwn(p, s)] >= s
  /\ \A q \in Node, u \in Slot : \A E \in Tellings(r, q, u) :
       Conflicting(p, s, q, u) => Own(p, s).dep[q] >= u \/ E[p] >= s

SettledWitnessed ==
  \A p \in Node, s \in Slot : Settled(p, s) =>
    \E Q \in SUBSET Node : Fast(Q) /\ \A r \in Q : Witness(p, s, r)

\* Of two settled instances that conflict one depends on the other.
SettledOrdered ==
  \A p, q \in Node, s, u \in Slot :
    Settled(p, s) /\ Settled(q, u) /\ Conflicting(p, s, q, u) =>
      Own(p, s).dep[q] >= u \/ Own(q, u).dep[p] >= s

Ordering == Recorded /\ TellingsOrdered /\ SettledWitnessed /\ SettledOrdered

(***************************************************************************)
(* The inductive invariant: what replicas hold as committed is what the    *)
(* owner committed, and every fast quorum leaves witnesses of what it      *)
(* settled, of which the next one meets at least one (handlePreAccept,     *)
(* handlePreAcceptReply, attributes, update).                              *)
(***************************************************************************)
Inv == Base /\ Copies /\ Ordering
=============================================================================
