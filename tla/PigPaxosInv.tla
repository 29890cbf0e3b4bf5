---------------------------- MODULE PigPaxosInv ----------------------------
(***************************************************************************)
(* The inductive invariant behind OneCommandPerBallot and LeadsOnce.       *)
(*                                                                         *)
(* OneCommandPerBallot is not inductive: that a leader never proposes two  *)
(* commands for a slot rests on which ballots a node owns, on where P2a's  *)
(* of a ballot can and cannot be, and on what a leader's log looks like    *)
(* from execute on.  All of it is local: a predicate on the state of one   *)
(* replica or on one message, relative to the set I of the ballots issued  *)
(* and the set P of the proposals made so far.                             *)
(***************************************************************************)
EXTENDS PigPaxos

\* A ballot that may turn up: an issued one, or the zero ballot.
KnownBallot(I, b) == b \in I \cup {0}

\* A log entry, or what a message says of slot s, is a proposal of its ballot.
Proposed(P, s, x) == x.ballot # 0 => <<x.ballot, s, x.command>> \in P

P1bOK(I, P, p) ==
  /\ KnownBallot(I, p.ballot)
  /\ \A s \in Slot : Proposed(P, s, p.log[s])

P1bSeqOK(I, P, q) == \A i \in DOMAIN q : P1bOK(I, P, q[i])

(***************************************************************************)
(* P1a and P2a come from the owner of their ballot and are never addressed *)
(* to it; answers carry known ballots; P2a, P1b and RecoverReply say only  *)
(* what was proposed.                                                      *)
(***************************************************************************)
MsgOK(I, P, m) ==
  /\ m.type = "P1a" => m.ballot \in I /\ m.src = ID(m.ballot) /\ m.src \notin m.dst
  /\ m.type = "P2a" => /\ m.ballot \in I /\ m.src = ID(m.ballot) /\ m.src \notin m.dst
                       /\ <<m.ballot, m.slot, m.command>> \in P
  /\ m.type = "P1b" => P1bOK(I, P, m.p1b)
  /\ m.type = "P1bs" => P1bSeqOK(I, P, m.p1bs)
  /\ m.type \in {"P2b", "P2bAggregated"} => KnownBallot(I, m.ballot)
  /\ m.type = "RecoverReply" => Proposed(P, m.slot, m)

\* The log of a replica: proposals only, open entries have a ballot, nothing
\* lies beyond the highest slot.
LogOK(P, r) ==
  \A s \in Slot :
    /\ Proposed(P, s, r.log[s])
    /\ r.log[s].status = "open" => r.log[s].ballot # 0
    /\ s > r.slot => r.log[s].status = "none"

(***************************************************************************)
(* Ownership.  The node has seen every ballot of its own that was issued;  *)
(* a candidate has proposed nothing under its ballot yet; a leader has     *)
(* proposed nothing beyond its highest slot, and every open entry it may   *)
(* still propose again carries its ballot.                                 *)
(***************************************************************************)
OwnerOK(I, P, r) ==
  /\ KnownBallot(I, r.ballot)
  /\ \A b \in I : ID(b) = r.id => b <= r.ballot
  /\ r.active => ID(r.ballot) = r.id
  /\ ID(r.ballot) = r.id /\ ~r.active => \A p \in P : p[1] # r.ballot
  /\ r.active => \A p \in P : p[1] = r.ballot => p[2] <= r.slot
  /\ r.active => \A s \in Slot : s >= r.execute /\ r.log[s].status = "open"
                                   => r.log[s].ballot = r.ballot

\* What a replica collects as a relay, or has yet to handle, is well formed.
RelayOK(I, P, r) ==
  /\ P1bSeqOK(I, P, r.p1bQueue)
  /\ P1bSeqOK(I, P, r.p1bRelay.p1bs)
  /\ r.p1bRelay.pending => r.p1bRelay.hop \in Node
  /\ \A s \in Slot : /\ KnownBallot(I, r.p2bRelay[s].ballot)
                     /\ r.p2bRelay[s].pending => r.p2bRelay[s].hop \in Node

ReplicaOK(I, P, r) ==
  /\ LogOK(P, r)
  /\ OwnerOK(I, P, r)
  /\ RelayOK(I, P, r)
  /\ \A m \in r.out : MsgOK(I, P, m)

\* One command per ballot and slot, and only under issued ballots.
ProposalsOK(I, P) ==
  /\ \A p \in P : p[1] \in I
  /\ \A p, q \in P : p[1] = q[1] /\ p[2] = q[2] => p[3] = q[3]

\* The inductive invariant.
Inv ==
  /\ TypeOK
  /\ \A b \in issued : ID(b) \in Node
  /\ ProposalsOK(issued, proposals)
  /\ \A n \in Node : ReplicaOK(issued, proposals, node[n])
  /\ \A m \in DOMAIN msgs : MsgOK(issued, proposals, m)

(***************************************************************************)
(* The promises.  Relative to the ballots B that the nodes have reached:   *)
(* a P1b vouches for a ballot its sender has reached, wherever it is, and  *)
(* so does the count of promises of the owner of a ballot, from the start  *)
(* of phase 1 on.  Seen from replica r, its own ballot is the one in r.    *)
(***************************************************************************)
Reached(B, r, q) == IF q = r.id THEN r.ballot ELSE B[q]

P1bSeqVouched(B, r, ps) == \A i \in DOMAIN ps : ps[i].ballot <= Reached(B, r, ps[i].id)

MsgVouched(B, r, m) ==
  /\ m.type = "P1b" => m.p1b.ballot <= Reached(B, r, m.p1b.id)
  /\ m.type = "P1bs" => P1bSeqVouched(B, r, m.p1bs)

PromisesOK(B, r) ==
  /\ P1bSeqVouched(B, r, r.p1bQueue)
  /\ P1bSeqVouched(B, r, r.p1bRelay.p1bs)
  /\ \A m \in r.out : MsgVouched(B, r, m)
  /\ ID(r.ballot) = r.id => \A q \in r.quorum : r.ballot <= Reached(B, r, q)

\* The database of a replica: one command per executed slot, and each of them
\* was proposed for its slot.
DatabaseOK(P, r) ==
  /\ Len(r.db) = r.execute
  /\ \A i \in 1..Len(r.db) : \E p \in P : p[2] = i - 1 /\ p[3] = r.db[i]

\* The ballots the nodes have reached.
BallotReached == [n \in Node |-> node[n].ballot]

\* The inductive invariant of the promises and the databases.
RecordInv ==
  /\ \A n \in Node : PromisesOK(BallotReached, node[n]) /\ DatabaseOK(proposals, node[n])
  /\ \A m \in DOMAIN msgs, n \in Node : MsgVouched(BallotReached, node[n], m)

(***************************************************************************)
(* The requests.  Only an entry that is there, and that is not executed    *)
(* yet, holds a request; execution never gets beyond the highest slot.     *)
(***************************************************************************)
HoldingOK(r) ==
  /\ r.execute <= r.slot + 1
  /\ \A s \in Slot : r.log[s].status = "none" \/ s < r.execute => r.log[s].request = NoCmd

\* A command is held once from its submission on, and nowhere before; only a
\* network that drops client requests may leave it with nobody.
RequestInv ==
  /\ \A n \in Node : HoldingOK(node[n])
  /\ \A c \in Cmd :
       IF c \in submitted
       THEN \/ \E h \in Holders(c) : Holders(c) = {h}
            \/ "Request" \in Lossy /\ Holders(c) = {}
       ELSE Holders(c) = {}

(***************************************************************************)
(* The history.  While no slot is contested, a proposer holds the request  *)
(* of everything it proposed until it answers it, with the outcome of that *)
(* very command: no merge, proposal, commit or recovered entry touches an  *)
(* entry that holds a request.  Commits speak of slots their sender        *)
(* proposed for; recovery only of slots whose entry at the node that asked *)
(* holds no request.                                                       *)
(***************************************************************************)
\* The slots a node may ask for, and get answers about.
Asked(r) == {s \in Slot : s <= r.slot /\ r.log[s].request = NoCmd}

\* Node q made a proposal for slot s.
ProposedBy(P, q, s) == \E p \in P : p[2] = s /\ ID(p[1]) = q

\* A request is held by the entry of its own proposal.
EntriesOK(r) ==
  \A s \in Slot : r.log[s].request # NoCmd =>
    /\ r.log[s].ballot # 0 /\ ID(r.log[s].ballot) = r.id
    /\ r.log[s].command = r.log[s].request

\* What the node proposed waits in its log or has been answered.
PlacedOK(P, r) ==
  \A p \in P : ID(p[1]) = r.id =>
    \/ r.log[p[2]].request = p[3]
    \/ p[2] < r.execute /\ <<p[3], p[3]>> \in r.replies

HistoryOK(P, r) ==
  /\ EntriesOK(r)
  /\ PlacedOK(P, r)
  /\ \A x \in r.replies : x[1] = x[2]
  /\ \A s \in r.p3slots : ProposedBy(P, r.id, s)

\* What a message of a commit or of a recovery says, if A[q] is what q asks for.
MsgPlaced(P, A, m) ==
  /\ m.type \in {"P2a", "P3"} => \A s \in m.p3.slots : ProposedBy(P, m.src, s)
  /\ m.type = "P3" => m.src \notin m.dst
  /\ m.type = "RecoverRequest" => m.slot \in A[m.id]
  /\ m.type = "RecoverReply" => \A q \in m.dst : m.slot \in A[q]

\* The inductive invariant of the history: a command is proposed for one slot.
HistoryInv ==
  /\ IsFiniteSet(submitted)
  /\ Uncontested =>
       /\ \A n \in Node : HistoryOK(proposals, node[n])
       /\ \A m \in DOMAIN msgs : MsgPlaced(proposals, [n \in Node |-> Asked(node[n])], m)
       /\ \A p, q \in proposals : p[3] = q[3] => p[2] = q[2]
=============================================================================
