----------------------------- MODULE LayerPaxos -----------------------------
(***************************************************************************)
(* Layer Paxos (layerpaxos/): PigPaxos with relays that wait for half of   *)
(* their group only.  layerpaxos.go repeats pigpaxos.go statement by       *)
(* statement, so its handlers are those of PigNode; layerpaxos/replica.go  *)
(* differs from pigpaxos/replica.go in the two thresholds and in the list  *)
(* of missing voters, which a relay always sends.                          *)
(***************************************************************************)
EXTENDS PigPaxos

(* layerpaxos.go: the copies. *)
LayerHandleRequest(r, c) == HandleRequest(r, c)
LayerHandleP1a(r, b) == HandleP1a(r, b)
LayerHandleP1b(r, p) == HandleP1b(r, p)
LayerHandleP2a(r, m) == HandleP2a(r, m)
LayerHandleP2b(r, s, b, ids) == HandleP2b(r, s, b, ids)
LayerHandleP3(r, p3) == HandleP3(r, p3)
LayerHandleP3RecoverRequest(r, m) == HandleP3RecoverRequest(r, m.slot, m.id)
LayerHandleP3RecoverReply(r, m) == HandleP3RecoverReply(r, m)
LayerUpdateLastExecuteByNode(r, q, x) == UpdateLastExecuteByNode(r, q, x)

(* layerpaxos/replica.go: the copies. *)
LayerPropagate(r, m) == Propagate(r, m)
LayerOpenP2bRelay(r, m) == OpenP2bRelay(r, m)
LayerComputeMissingIDsForP2b(r, ids) == ComputeMissingIDsForP2b(r, ids)
LayerTick(n) == Tick(n)

-----------------------------------------------------------------------------
(* Phase 1.                                                                *)

\* readyToRelayP1b: a majority of the group, or one less where the candidate
\* belongs to it.
LayerReadyToRelayP1b(r, p1bs, b) ==
  LET half == Cardinality(GroupOf(r.id)) \div 2
  IN  \/ Len(p1bs) = half + 1
      \/ Len(p1bs) = half /\ ID(b) \in GroupOf(r.id)

LayerHandleP1bRelay(r, p) ==
  LET p1bs == Append(r.p1bRelay.p1bs, p)
  IN  IF LayerReadyToRelayP1b(r, p1bs, p.ballot) THEN FlushP1b(r, p1bs)
      ELSE [r EXCEPT !.p1bRelay.p1bs = p1bs]

\* handleP1b: the P1bs that come after the collection was sent are handled by
\* the relay itself.
LayerReceiveP1b(r, p) ==
  IF r.p1bRelay.pending THEN LayerHandleP1bRelay(r, p) ELSE LayerHandleP1b(r, p)

\* handleP1aRelay at a relay.
LayerHandleP1aRelay(r, m) ==
  LET new == r.ballot < m.ballot
      nack == new /\ r.p1bRelay.pending
      opened == [r EXCEPT !.p1bRelay = [pending |-> TRUE, hop |-> m.src, p1bs |-> <<>>],
                          !.out = IF nack
                                  THEN @ \cup {[type |-> "Prepare", ballot |-> m.ballot,
                                                dst |-> {ID(r.ballot)}]}
                                  ELSE @]
      r1 == LayerHandleP1a(IF new THEN opened ELSE r, m.ballot)
      r2 == LayerReceiveP1b(r1, P1bOf(r1))
  IN  IF nack /\ ID(r.ballot) = r.id THEN [r EXCEPT !.halted = TRUE]
      ELSE IF new THEN LayerPropagate(r2, m)
      ELSE r2

\* handleP1aRelay at a leaf.
LayerHandleP1aLeaf(r, m) == HandleP1aLeaf(r, m)

-----------------------------------------------------------------------------
(* Phase 2.                                                                *)

LayerReadyToRelayP2b(r, b, ids) ==
  LET half == Cardinality(GroupOf(r.id)) \div 2
  IN  \/ Len(ids) = half + 1
      \/ Len(ids) = half /\ ID(b) \in GroupOf(r.id)

\* Mutant: the missing voters are listed with a slack only, as in PigPaxos.
MissingWithSlackOnly(r, b, s, ids) ==
  LET c == r.p2bRelay[s]
      all == c.ids \o ids
      missing == IF RelaySlack > 0 THEN LayerComputeMissingIDsForP2b(r, all) ELSE {}
  IN  IF ~c.pending THEN r
      ELSE IF c.ballot # b THEN SendNack(r, b, s, ID(c.ballot))
      ELSE IF LayerReadyToRelayP2b(r, b, all) THEN FlushP2b(r, s, all, missing)
      ELSE [r EXCEPT !.p2bRelay[s].ids = all]

LayerHandleP2bRelay(r, b, s, ids) ==
  LET c == r.p2bRelay[s]
      all == c.ids \o ids
  IN  IF ~c.pending THEN r
      ELSE IF c.ballot # b THEN SendNack(r, b, s, ID(c.ballot))
      ELSE IF LayerReadyToRelayP2b(r, b, all)
           THEN FlushP2b(r, s, all, LayerComputeMissingIDsForP2b(r, all))
      ELSE [r EXCEPT !.p2bRelay[s].ids = all]

LayerReceiveP2b(r, b, s, ids) ==
  IF IsLeader(r) THEN LayerHandleP2b(r, s, b, Range(ids))
                 ELSE LayerHandleP2bRelay(r, b, s, ids)

LayerHandleP2bAggregated(r, m) ==
  IF IsLeader(r)
  THEN LayerHandleP2b(LayerUpdateLastExecuteByNode(r, m.relay, m.lastExecute),
                      m.slot, m.ballot, GroupOf(m.relay) \ m.missing)
  ELSE r

\* HandleP2a applies the P3 that travels with a P2a last.
LayerHandleP3msg(r, p3) == IF p3.slots # {} THEN LayerHandleP3(r, p3) ELSE r

\* handleP2aRelay at a relay and at a leaf.
LayerHandleP2aRelay(r, m) ==
  LET r1 == LayerHandleP2a(LayerOpenP2bRelay(r, m), m)
      r2 == LayerReceiveP2b(r1, r1.ballot, m.slot, <<r.id>>)
  IN  LayerPropagate(LayerHandleP3msg(r2, m.p3), m)

LayerHandleP2aLeaf(r, m) ==
  LET r1 == LayerHandleP2a(r, m)
      vote == [type |-> "P2b", ballot |-> r1.ballot, slot |-> m.slot,
               ids |-> <<r.id>>, dst |-> {m.via}]
  IN  LayerHandleP3msg(Emit(r1, {vote}), m.p3)

-----------------------------------------------------------------------------
(* The steps of a replica.                                                 *)

LayerReceiveRequest(n) ==
  LET r == node[n]
      mine == ~StableLeader \/ IsLeader(r) \/ r.ballot = 0
  IN  /\ Ready(n)
      /\ \E m \in Inbox(n, "Request") :
           Step(n, {m}, IF mine THEN LayerHandleRequest(r, m.command)
                                ELSE Forward(r, ID(r.ballot), {m.command}))

LayerReceiveP1a(n) ==
  /\ Ready(n)
  /\ \E m \in Inbox(n, "P1a") :
       Step(n, {m}, IF m.via = 0 THEN LayerHandleP1aRelay(node[n], m)
                                 ELSE LayerHandleP1aLeaf(node[n], m))

LayerReceiveP2a(n) ==
  /\ Ready(n)
  /\ \E m \in Inbox(n, "P2a") :
       Step(n, {m}, IF m.via = 0 THEN LayerHandleP2aRelay(node[n], m)
                                 ELSE LayerHandleP2aLeaf(node[n], m))

LayerReceiveP3(n) ==
  /\ Ready(n)
  /\ \E m \in Inbox(n, "P3") :
       LET r == LayerHandleP3(node[n], m.p3)
       IN  Step(n, {m}, IF m.via = 0 THEN LayerPropagate(r, m) ELSE r)

LayerReceiveLeafP1b(n) ==
  /\ Ready(n)
  /\ \E m \in Inbox(n, "P1b") : Step(n, {m}, LayerReceiveP1b(node[n], m.p1b))

LayerHandleP1bLeader(n) ==
  LET r == node[n]
  IN  /\ ~r.halted
      /\ r.p1bQueue # <<>>
      /\ Step(n, {}, LayerHandleP1b([r EXCEPT !.p1bQueue = Tail(@)], Head(r.p1bQueue)))

LayerReceiveVote(n) ==
  /\ Ready(n)
  /\ \E m \in Inbox(n, "P2b") :
       Step(n, {m}, LayerReceiveP2b(node[n], m.ballot, m.slot, m.ids))

LayerReceiveP2bAggregated(n) ==
  /\ Ready(n)
  /\ \E m \in Inbox(n, "P2bAggregated") :
       Step(n, {m}, LayerHandleP2bAggregated(node[n], m))

LayerReceiveRecoverRequest(n) ==
  /\ Ready(n)
  /\ \E m \in Inbox(n, "RecoverRequest") :
       Step(n, {m}, LayerHandleP3RecoverRequest(node[n], m))

LayerReceiveRecoverReply(n) ==
  /\ Ready(n)
  /\ \E m \in Inbox(n, "RecoverReply") :
       Step(n, {m}, LayerHandleP3RecoverReply(node[n], m))

LayerNext(n) ==
  \/ LayerReceiveRequest(n)
  \/ LayerReceiveP1a(n)
  \/ LayerReceiveP2a(n)
  \/ LayerReceiveP3(n)
  \/ ReceivePrepare(n)
  \/ LayerReceiveLeafP1b(n)
  \/ ReceiveP1bs(n)
  \/ LayerHandleP1bLeader(n)
  \/ LayerReceiveVote(n)
  \/ LayerReceiveP2bAggregated(n)
  \/ LayerReceiveRecoverRequest(n)
  \/ LayerReceiveRecoverReply(n)
  \/ LayerTick(n)
=============================================================================
