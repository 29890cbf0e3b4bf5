----------------------------- MODULE ChainPaxos -----------------------------
(***************************************************************************)
(* Chain Paxos (chainpaxos/): PigPaxos with phase 2 along a chain.  A      *)
(* relay sends a P2a to one node of its group, which stores it and sends   *)
(* it on to the next one; the last node of the group, the tail, votes, and *)
(* the relay reports the group when it has its own vote and another one.   *)
(* The rest of chainpaxos.go repeats pigpaxos.go.                          *)
(***************************************************************************)
EXTENDS PigPaxos

(* chainpaxos.go: the copies. *)
ChainHandleRequest(r, c) == HandleRequest(r, c)
ChainHandleP1aLeaf(r, m) == HandleP1aLeaf(r, m)
ChainHandleP1b(r, p) == HandleP1b(r, p)
ChainHandleP2a(r, m) == HandleP2a(r, m)
ChainHandleP2b(r, s, b, ids) == HandleP2b(r, s, b, ids)
ChainHandleP3(r, p3) == HandleP3(r, p3)
ChainHandleP3RecoverRequest(r, m) == HandleP3RecoverRequest(r, m.slot, m.id)
ChainHandleP3RecoverReply(r, m) == HandleP3RecoverReply(r, m)
ChainUpdateLastExecuteByNode(r, q, x) == UpdateLastExecuteByNode(r, q, x)

(* chainpaxos/replica.go: the copies. *)
ChainHandleP1aRelay(r, m) == HandleP1aRelay(r, m)
ChainHandleP1bRelay(r, p) == HandleP1bRelay(r, p)
ChainOpenP2bRelay(r, m) == OpenP2bRelay(r, m)
ChainComputeMissingIDsForP2b(r, ids) == ComputeMissingIDsForP2b(r, ids)
ChainTick(n) == Tick(n)

-----------------------------------------------------------------------------
(* The chain.  hops are the nodes that have the message behind them: the   *)
(* leader, the relay, and the nodes of the chain so far.                   *)

ChainMessage ==
  [type : {"P2aChain"}, ballot : Ballot, slot : Slot, command : Cmd, p3 : P3Info,
   hops : SUBSET Node, relay : Node, dst : SUBSET Node]

\* The lists of a group are sorted: its last node has the largest ID.
TailOf(g) == Max(g)

\* The first node of the group that is not in hops is next; there may be none.
PassOn(r, m, hops) ==
  LET left == GroupOf(r.id) \ hops
  IN  IF left = {} THEN r ELSE Emit(r, {[m EXCEPT !.hops = hops, !.dst = {Min(left)}]})

SendToChainHead(r, m) ==
  PassOn(r, [type |-> "P2aChain", ballot |-> m.ballot, slot |-> m.slot,
             command |-> m.command, p3 |-> m.p3, hops |-> {}, relay |-> r.id, dst |-> {}],
         {m.src, r.id})

\* A P3 that travels with a proposal is applied last.
ChainHandleP3msg(r, p3) == IF p3.slots # {} THEN ChainHandleP3(r, p3) ELSE r

\* An inner node of the chain, which does not vote even if it refuses.
HandleP2aChain(r, m) == ChainHandleP3msg(ChainHandleP2a(r, m), m.p3)

HandleP2aChainTail(r, m) ==
  LET r1 == ChainHandleP2a(r, m)
      vote == [type |-> "P2b", ballot |-> r1.ballot, slot |-> m.slot,
               ids |-> <<r.id>>, dst |-> {m.relay}]
  IN  ChainHandleP3msg(Emit(r1, {vote}), m.p3)

HandleP2aFollower(r, m) ==
  IF r.id = TailOf(GroupOf(r.id)) THEN HandleP2aChainTail(r, m)
  ELSE PassOn(HandleP2aChain(r, m), m, m.hops \cup {r.id})

-----------------------------------------------------------------------------
(* The relay.                                                              *)

\* Mutant: the relay does not wait for the tail.
ReadyWithoutTail(ids) == Len(ids) = 1 - RelaySlack

\* readyToRelayP2b: the relay and the tail, whatever the size of the group.
ChainReadyToRelayP2b(ids) == Len(ids) = 2 - RelaySlack

ChainHandleP2bRelay(r, b, s, ids) ==
  LET c == r.p2bRelay[s]
      all == c.ids \o ids
      missing == IF RelaySlack > 0 THEN ChainComputeMissingIDsForP2b(r, all) ELSE {}
  IN  IF ~c.pending THEN r
      ELSE IF c.ballot # b THEN SendNack(r, b, s, ID(c.ballot))
      ELSE IF ChainReadyToRelayP2b(all) THEN FlushP2b(r, s, all, missing)
      ELSE [r EXCEPT !.p2bRelay[s].ids = all]

ChainReceiveP2b(r, b, s, ids) ==
  IF IsLeader(r) THEN ChainHandleP2b(r, s, b, Range(ids))
                 ELSE ChainHandleP2bRelay(r, b, s, ids)

ChainHandleP2bAggregated(r, m) ==
  IF IsLeader(r)
  THEN ChainHandleP2b(ChainUpdateLastExecuteByNode(r, m.relay, m.lastExecute),
                      m.slot, m.ballot, GroupOf(m.relay) \ m.missing)
  ELSE r

ChainHandleP2aRelay(r, m) ==
  LET r1 == ChainHandleP2a(ChainOpenP2bRelay(r, m), m)
      r2 == ChainReceiveP2b(r1, r1.ballot, m.slot, <<r.id>>)
  IN  SendToChainHead(ChainHandleP3msg(r2, m.p3), m)

-----------------------------------------------------------------------------
(* The steps of a replica.                                                 *)

ChainReceiveRequest(n) ==
  LET r == node[n]
      mine == ~StableLeader \/ IsLeader(r) \/ r.ballot = 0
  IN  /\ Ready(n)
      /\ \E m \in Inbox(n, "Request") :
           Step(n, {m}, IF mine THEN ChainHandleRequest(r, m.command)
                                ELSE Forward(r, ID(r.ballot), {m.command}))

ChainReceiveP1a(n) ==
  /\ Ready(n)
  /\ \E m \in Inbox(n, "P1a") :
       Step(n, {m}, IF m.via = 0 THEN ChainHandleP1aRelay(node[n], m)
                                 ELSE ChainHandleP1aLeaf(node[n], m))

ChainReceiveP2a(n) ==
  /\ Ready(n)
  /\ \E m \in Inbox(n, "P2a") : Step(n, {m}, ChainHandleP2aRelay(node[n], m))

ChainReceiveP2aChain(n) ==
  /\ Ready(n)
  /\ \E m \in Inbox(n, "P2aChain") : Step(n, {m}, HandleP2aFollower(node[n], m))

\* handleRoutedMsg does not pass a P3 on to the group.
ChainReceiveP3(n) ==
  /\ Ready(n)
  /\ \E m \in Inbox(n, "P3") : Step(n, {m}, ChainHandleP3(node[n], m.p3))

ChainReceiveLeafP1b(n) ==
  LET r == node[n]
  IN  /\ Ready(n)
      /\ \E m \in Inbox(n, "P1b") :
           Step(n, {m}, IF r.p1bRelay.pending THEN ChainHandleP1bRelay(r, m.p1b)
                                              ELSE ChainHandleP1b(r, m.p1b))

ChainHandleP1bLeader(n) ==
  LET r == node[n]
  IN  /\ ~r.halted
      /\ r.p1bQueue # <<>>
      /\ Step(n, {}, ChainHandleP1b([r EXCEPT !.p1bQueue = Tail(@)], Head(r.p1bQueue)))

ChainReceiveVote(n) ==
  /\ Ready(n)
  /\ \E m \in Inbox(n, "P2b") :
       Step(n, {m}, ChainReceiveP2b(node[n], m.ballot, m.slot, m.ids))

ChainReceiveP2bAggregated(n) ==
  /\ Ready(n)
  /\ \E m \in Inbox(n, "P2bAggregated") :
       Step(n, {m}, ChainHandleP2bAggregated(node[n], m))

ChainReceiveRecoverRequest(n) ==
  /\ Ready(n)
  /\ \E m \in Inbox(n, "RecoverRequest") :
       Step(n, {m}, ChainHandleP3RecoverRequest(node[n], m))

ChainReceiveRecoverReply(n) ==
  /\ Ready(n)
  /\ \E m \in Inbox(n, "RecoverReply") :
       Step(n, {m}, ChainHandleP3RecoverReply(node[n], m))

ChainNext(n) ==
  \/ ChainReceiveRequest(n)
  \/ ChainReceiveP1a(n)
  \/ ChainReceiveP2a(n)
  \/ ChainReceiveP2aChain(n)
  \/ ChainReceiveP3(n)
  \/ ReceivePrepare(n)
  \/ ChainReceiveLeafP1b(n)
  \/ ReceiveP1bs(n)
  \/ ChainHandleP1bLeader(n)
  \/ ChainReceiveVote(n)
  \/ ChainReceiveP2bAggregated(n)
  \/ ChainReceiveRecoverRequest(n)
  \/ ChainReceiveRecoverReply(n)
  \/ ChainTick(n)
=============================================================================
