------------------------------ MODULE PigRelay ------------------------------
(***************************************************************************)
(* The relay layer of a replica (pigpaxos/replica.go): a relay hands a P1a *)
(* or P2a of the leader to the rest of its group, collects the answers of  *)
(* the group, its own included, and sends them to the leader as one        *)
(* message, when enough have come or when the collection times out.        *)
(*                                                                         *)
(* A message a node sends to itself is handled at once (Replica.Send calls *)
(* HandleMsg), so it is part of the step that sends it.  maxDepth is 2: a  *)
(* message with via = 0 has reached a relay, any other a leaf.             *)
(***************************************************************************)
EXTENDS PigNode

CONSTANTS
  UseSmallP2b,  \* flag smallp2b: answer with the missing IDs, not with the votes
  RelaySlack    \* flag rgslack: how many of the slowest votes not to wait for

ASSUME RelayAssumption == UseSmallP2b \in BOOLEAN /\ RelaySlack \in Nat

\* BroadcastToPeerGroup: pass m on to the group, without its sender.
Propagate(r, m) ==
  Emit(r, {[m EXCEPT !.via = r.id, !.dst = {q}] : q \in GroupOf(r.id) \ {r.id, m.src}})

-----------------------------------------------------------------------------
(* Phase 1.                                                                *)

\* readyToRelayP1b: the whole group, or all of it but the candidate.
ReadyToRelayP1b(r, p1bs, b) ==
  \/ Len(p1bs) = Cardinality(GroupOf(r.id))
  \/ Len(p1bs) = Cardinality(GroupOf(r.id)) - 1 /\ ID(b) \in GroupOf(r.id)

FlushP1b(r, p1bs) ==
  Emit([r EXCEPT !.p1bRelay = NoP1bRelay],
       {[type |-> "P1bs", p1bs |-> p1bs, dst |-> {r.p1bRelay.hop}]})

HandleP1bRelay(r, p) ==
  LET p1bs == Append(r.p1bRelay.p1bs, p)
  IN  IF ReadyToRelayP1b(r, p1bs, p.ballot) THEN FlushP1b(r, p1bs)
      ELSE [r EXCEPT !.p1bRelay.p1bs = p1bs]

\* handleP1b: the relay collects; any other node counts the promise itself.
ReceiveP1b(r, p) ==
  IF r.p1bRelay.pending THEN HandleP1bRelay(r, p) ELSE HandleP1b(r, p)

(***************************************************************************)
(* handleP1aRelay at a relay.  A new ballot starts a new collection, and   *)
(* the owner of the ballot superseded by it is sent the bare P1a if the    *)
(* old collection was still open.  The relay's own P1b loops back.  A      *)
(* relay that sends the bare P1a to itself is gone: no handler is          *)
(* registered for that type.                                               *)
(***************************************************************************)
HandleP1aRelay(r, m) ==
  LET new == r.ballot < m.ballot
      nack == new /\ r.p1bRelay.pending
      r1 == IF nack THEN Emit(r, {[type |-> "Prepare", ballot |-> m.ballot,
                                   dst |-> {ID(r.ballot)}]})
                    ELSE r
      r2 == IF new THEN [r1 EXCEPT !.p1bRelay = [pending |-> TRUE, hop |-> m.src, p1bs |-> <<>>]]
                   ELSE r1
      r3 == HandleP1a(r2, m.ballot)
      r4 == ReceiveP1b(r3, P1bOf(r3))
  IN  IF nack /\ ID(r.ballot) = r.id THEN [r EXCEPT !.halted = TRUE]
      ELSE IF new THEN Propagate(r4, m)
      ELSE r4

\* The same at a leaf: answer the relay.
HandleP1aLeaf(r, m) ==
  LET r1 == HandleP1a(r, m.ballot)
  IN  Emit(r1, {[type |-> "P1b", p1b |-> P1bOf(r1), dst |-> {m.via}]})

-----------------------------------------------------------------------------
(* Phase 2.                                                                *)

SendNack(r, b, s, id) ==
  Emit(r, {[type |-> "P2b", ballot |-> b, slot |-> s, ids |-> <<>>, dst |-> {id}]})

\* Mutant: a collection that timed out is reported complete.
NobodyMissing(r, ids) == {}

ComputeMissingIDsForP2b(r, ids) == GroupOf(r.id) \ Range(ids)

\* readyToRelayP2b counts the entries of the list, not the nodes in it.
ReadyToRelayP2b(r, b, ids) ==
  \/ Len(ids) = Cardinality(GroupOf(r.id)) - RelaySlack
  \/ Len(ids) = Cardinality(GroupOf(r.id)) - 1 - RelaySlack /\ ID(b) \in GroupOf(r.id)

\* Send the collected votes of slot s to the leader and forget the slot.
FlushP2b(r, s, ids, missing) ==
  LET c == r.p2bRelay[s]
      small == [type |-> "P2bAggregated", ballot |-> c.ballot, slot |-> s,
                lastExecute |-> r.execute - 1, relay |-> r.id,
                missing |-> missing, dst |-> {c.hop}]
      full  == [type |-> "P2b", ballot |-> c.ballot, slot |-> s, ids |-> ids, dst |-> {c.hop}]
  IN  Emit([r EXCEPT !.p2bRelay[s] = NoP2bRelay], {IF UseSmallP2b THEN small ELSE full})

HandleP2bRelay(r, b, s, ids) ==
  LET c == r.p2bRelay[s]
      all == c.ids \o ids
      missing == IF RelaySlack > 0 THEN ComputeMissingIDsForP2b(r, all) ELSE {}
  IN  IF ~c.pending THEN r
      ELSE IF c.ballot # b THEN SendNack(r, b, s, ID(c.ballot))
      ELSE IF ReadyToRelayP2b(r, b, all) THEN FlushP2b(r, s, all, missing)
      ELSE [r EXCEPT !.p2bRelay[s].ids = all]

\* handleP2b: a leader counts the votes, any other node collects them.
ReceiveP2b(r, b, s, ids) ==
  IF IsLeader(r) THEN HandleP2b(r, s, b, Range(ids)) ELSE HandleP2bRelay(r, b, s, ids)

\* handleP2bAggregated: the leader takes every node of the relay's group that
\* is not reported missing for a voter.
HandleP2bAggregated(r, m) ==
  IF IsLeader(r)
  THEN HandleP2b(UpdateLastExecuteByNode(r, m.relay, m.lastExecute),
                 m.slot, m.ballot, GroupOf(m.relay) \ m.missing)
  ELSE r

\* The collection a relay opens, or leaves as it is, for a P2a.
OpenP2bRelay(r, m) ==
  LET c == r.p2bRelay[m.slot]
      fresh == [pending |-> TRUE, hop |-> m.src, ballot |-> m.ballot, ids |-> <<>>]
      opened == [r EXCEPT !.p2bRelay[m.slot] = fresh]
  IN  IF ~c.pending THEN opened
      ELSE IF c.ballot < m.ballot THEN SendNack(opened, m.ballot, m.slot, ID(c.ballot))
      ELSE IF c.ballot > m.ballot THEN SendNack(r, c.ballot, m.slot, ID(c.ballot))
      ELSE r

\* HandleP2a applies the P3 that travels with a P2a last.
HandleP3msg(r, p3) == IF p3.slots # {} THEN HandleP3(r, p3) ELSE r

\* handleP2aRelay at a relay; its own vote loops back.
HandleP2aRelay(r, m) ==
  LET r1 == HandleP2a(OpenP2bRelay(r, m), m)
      r2 == ReceiveP2b(r1, r1.ballot, m.slot, <<r.id>>)
  IN  Propagate(HandleP3msg(r2, m.p3), m)

\* The same at a leaf: vote to the relay.
HandleP2aLeaf(r, m) ==
  LET r1 == HandleP2a(r, m)
      vote == [type |-> "P2b", ballot |-> r1.ballot, slot |-> m.slot,
               ids |-> <<r.id>>, dst |-> {m.via}]
  IN  HandleP3msg(Emit(r1, {vote}), m.p3)

HandleP3Relay(r, m) == Propagate(HandleP3(r, m.p3), m)
=============================================================================
