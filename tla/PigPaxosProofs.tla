--------------------------- MODULE PigPaxosProofs ---------------------------
(***************************************************************************)
(* Inv is an inductive invariant of PigPaxos. What a handler does to one   *)
(* replica was settled in the module this one extends; here the relay      *)
(* layer follows, and then the rest of the system: the other replicas, the *)
(* network and the history variables.                                      *)
(***************************************************************************)
EXTENDS PigNodeProofs

(* The relay layer keeps a replica well formed.                             *)

\* Every node is in its relay group.
LEMMA GroupOfFacts == \A n \in Node : n \in GroupOf(n) /\ GroupOf(n) \in SUBSET Node
<1> SUFFICES ASSUME NEW n \in Node PROVE n \in GroupOf(n) /\ GroupOf(n) \in SUBSET Node
  OBVIOUS
<1>1. \E g \in Groups : n \in g
  BY GroupsAssumption
<1>2. GroupOf(n) \in Groups /\ n \in GroupOf(n)
  BY <1>1 DEF GroupOf
<1> QED
  BY <1>2, GroupsAssumption

\* BroadcastToPeerGroup passes on well-formed messages, never to the node that
\* sent them first.
LEMMA PropagateGood ==
  ASSUME NEW I, NEW P, NEW r, Good(I, P, r), NEW m \in Message, MsgOK(I, P, m),
         m.type \in {"P1a", "P2a", "P3"}
  PROVE  Good(I, P, Propagate(r, m)) /\ Keeps(r, Propagate(r, m))
<1> DEFINE ms == {[m EXCEPT !.via = r.id, !.dst = {q}] : q \in GroupOf(r.id) \ {r.id, m.src}}
<1>1. r.id \in Node
  BY DEF Good, Replica
<1>2. ASSUME NEW q \in GroupOf(r.id) \ {r.id, m.src}
      PROVE  /\ [m EXCEPT !.via = r.id, !.dst = {q}] \in Message
             /\ MsgOK(I, P, [m EXCEPT !.via = r.id, !.dst = {q}])
  <2>1. q \in Node /\ q # m.src
    BY <1>1, GroupOfFacts
  <2>2. CASE m.type = "P1a"
    BY <1>1, <2>1, <2>2 DEF Message, MsgOK
  <2>3. CASE m.type = "P2a"
    BY <1>1, <2>1, <2>3 DEF Message, MsgOK
  <2>4. CASE m.type = "P3"
    BY <1>1, <2>1, <2>4 DEF Message, MsgOK
  <2> QED
    BY <2>2, <2>3, <2>4
<1>3. \A x \in ms : x \in Message /\ MsgOK(I, P, x)
  BY <1>2
<1> HIDE DEF ms
<1>4. Propagate(r, m) = Emit(r, ms)
  BY DEF Propagate, ms
<1> QED
  BY <1>3, <1>4, EmitGood

-----------------------------------------------------------------------------
\* A change of the relay state alone keeps a replica well formed.
LEMMA RelayChangeGood ==
  ASSUME NEW I, NEW P, NEW r, Good(I, P, r), NEW t \in Replica,
         t.id = r.id, t.ballot = r.ballot, t.active = r.active, t.slot = r.slot,
         t.execute = r.execute, t.log = r.log, t.out = r.out, RelayOK(I, P, t)
  PROVE  Good(I, P, t) /\ Keeps(r, t)
<1>1. r.ballot \in Nat
  BY DEF Good, Replica, Ballot
<1>2. Keeps(r, t)
  BY <1>1 DEF Keeps
<1>3. ReplicaOK(I, P, t)
  BY DEF Good, ReplicaOK, LogOK, OwnerOK
<1> QED
  BY <1>2, <1>3 DEF Good

\* The same for the collection of P1b's.
LEMMA P1bRelayChangeGood ==
  ASSUME NEW I, NEW P, NEW r, Good(I, P, r), NEW c \in P1bRelay,
         P1bSeqOK(I, P, c.p1bs), c.pending => c.hop \in Node
  PROVE  Good(I, P, [r EXCEPT !.p1bRelay = c]) /\ Keeps(r, [r EXCEPT !.p1bRelay = c])
<1> DEFINE t == [r EXCEPT !.p1bRelay = c]
<1>1. t \in Replica
  BY DEF Good, Replica
<1>2. /\ t.id = r.id /\ t.ballot = r.ballot /\ t.active = r.active /\ t.slot = r.slot
      /\ t.execute = r.execute /\ t.log = r.log /\ t.out = r.out
      /\ t.p1bQueue = r.p1bQueue /\ t.p2bRelay = r.p2bRelay /\ t.p1bRelay = c
  BY DEF Good, Replica
<1> HIDE DEF t
<1>3. RelayOK(I, P, t)
  BY <1>2 DEF Good, ReplicaOK, RelayOK
<1>4. Good(I, P, t) /\ Keeps(r, t)
  BY <1>1, <1>2, <1>3, RelayChangeGood
<1> QED
  BY <1>4 DEF t

\* The same for the collection of the votes of a slot.
LEMMA P2bRelayChangeGood ==
  ASSUME NEW I, NEW P, NEW r, Good(I, P, r), NEW s \in Slot, NEW c \in P2bRelay,
         KnownBallot(I, c.ballot), c.pending => c.hop \in Node
  PROVE  Good(I, P, [r EXCEPT !.p2bRelay[s] = c]) /\ Keeps(r, [r EXCEPT !.p2bRelay[s] = c])
<1> DEFINE t == [r EXCEPT !.p2bRelay[s] = c]
<1>1. t \in Replica
  BY DEF Good, Replica
<1>2. /\ t.id = r.id /\ t.ballot = r.ballot /\ t.active = r.active /\ t.slot = r.slot
      /\ t.execute = r.execute /\ t.log = r.log /\ t.out = r.out
      /\ t.p1bQueue = r.p1bQueue /\ t.p1bRelay = r.p1bRelay
      /\ \A x \in Slot : t.p2bRelay[x] = IF x = s THEN c ELSE r.p2bRelay[x]
  BY DEF Good, Replica
<1> HIDE DEF t
<1>3. RelayOK(I, P, t)
  BY <1>2 DEF Good, ReplicaOK, RelayOK
<1>4. Good(I, P, t) /\ Keeps(r, t)
  BY <1>1, <1>2, <1>3, RelayChangeGood
<1> QED
  BY <1>4 DEF t

\* No collection of P1b's.
LEMMA NoP1bRelayOK == NoP1bRelay \in P1bRelay /\ ~NoP1bRelay.pending /\ NoP1bRelay.p1bs = <<>>
BY EmptySeq DEF NoP1bRelay, P1bRelay

\* No collection of votes.
LEMMA NoP2bRelayOK == NoP2bRelay \in P2bRelay /\ ~NoP2bRelay.pending /\ NoP2bRelay.ballot = 0
BY EmptySeq DEF NoP2bRelay, P2bRelay, Ballot

\* Sending the collected P1b's to the candidate (handleP1bRelay, startTicker).
LEMMA FlushP1bGood ==
  ASSUME NEW I, NEW P, NEW r, Good(I, P, r), r.p1bRelay.pending,
         NEW p1bs \in Seq(P1bRecord), P1bSeqOK(I, P, p1bs)
  PROVE  Good(I, P, FlushP1b(r, p1bs)) /\ Keeps(r, FlushP1b(r, p1bs))
<1> DEFINE t == [r EXCEPT !.p1bRelay = NoP1bRelay]
           m == [type |-> "P1bs", p1bs |-> p1bs, dst |-> {r.p1bRelay.hop}]
<1>1. r.p1bRelay.hop \in Node
  BY DEF Good, ReplicaOK, RelayOK
<1>2. P1bSeqOK(I, P, NoP1bRelay.p1bs)
  BY NoP1bRelayOK DEF P1bSeqOK
<1>3. Good(I, P, t) /\ Keeps(r, t)
  BY <1>2, NoP1bRelayOK, P1bRelayChangeGood
<1>4. m \in Message /\ MsgOK(I, P, m)
  BY <1>1 DEF Message, MsgOK
<1>5. FlushP1b(r, p1bs) = Emit(t, {m})
  BY DEF FlushP1b
<1> HIDE DEF t, m
<1>6. Good(I, P, Emit(t, {m})) /\ Keeps(t, Emit(t, {m}))
  BY <1>3, <1>4, EmitGood
<1> QED
  BY <1>3, <1>5, <1>6, GoodKeeps

\* handleP1bRelay keeps a replica well formed.
LEMMA HandleP1bRelayGood ==
  ASSUME NEW I, NEW P, NEW r, Good(I, P, r), r.p1bRelay.pending,
         NEW p \in P1bRecord, P1bOK(I, P, p)
  PROVE  Good(I, P, HandleP1bRelay(r, p)) /\ Keeps(r, HandleP1bRelay(r, p))
<1> DEFINE p1bs == Append(r.p1bRelay.p1bs, p)
           c == [r.p1bRelay EXCEPT !.p1bs = p1bs]
<1>1. r \in Replica /\ r.p1bRelay \in P1bRelay /\ r.p1bRelay.p1bs \in Seq(P1bRecord)
  BY DEF Good, Replica, P1bRelay
<1>2. p1bs \in Seq(P1bRecord)
  BY <1>1, AppendProperties
<1>3. P1bSeqOK(I, P, p1bs)
  <2>1. P1bSeqOK(I, P, r.p1bRelay.p1bs)
    BY DEF Good, ReplicaOK, RelayOK
  <2>2. DOMAIN p1bs = 1..(Len(r.p1bRelay.p1bs) + 1)
    BY <1>1, AppendProperties, LenProperties
  <2>3. \A i \in 1..(Len(r.p1bRelay.p1bs) + 1) :
           p1bs[i] = IF i <= Len(r.p1bRelay.p1bs) THEN r.p1bRelay.p1bs[i] ELSE p
    BY <1>1
  <2>4. DOMAIN r.p1bRelay.p1bs = 1..Len(r.p1bRelay.p1bs) /\ Len(r.p1bRelay.p1bs) \in Nat
    BY <1>1, LenProperties
  <2> HIDE DEF p1bs
  <2> QED
    BY <2>1, <2>2, <2>3, <2>4 DEF P1bSeqOK
<1>4. c \in P1bRelay /\ c.p1bs = p1bs /\ c.hop = r.p1bRelay.hop
  BY <1>1, <1>2 DEF P1bRelay
<1>5. r.p1bRelay.hop \in Node
  BY DEF Good, ReplicaOK, RelayOK
<1>6. [r EXCEPT !.p1bRelay.p1bs = p1bs] = [r EXCEPT !.p1bRelay = c]
  BY <1>1 DEF Replica
<1> HIDE DEF p1bs, c
<1>7. Good(I, P, [r EXCEPT !.p1bRelay = c]) /\ Keeps(r, [r EXCEPT !.p1bRelay = c])
  BY <1>3, <1>4, <1>5, P1bRelayChangeGood
<1>8. Good(I, P, FlushP1b(r, p1bs)) /\ Keeps(r, FlushP1b(r, p1bs))
  BY <1>2, <1>3, FlushP1bGood
<1> QED
  BY <1>6, <1>7, <1>8 DEF HandleP1bRelay, p1bs

\* handleP1b has a proper outcome at a relay and at a candidate.
LEMMA ReceiveP1bOutcome ==
  ASSUME NEW I, NEW P, Context(I, P), NEW r, Good(I, P, r), NEW p \in P1bRecord, P1bOK(I, P, p),
         ReceiveP1b(r, p).slot <= MaxSlot
  PROVE  Outcome(I, P, r, ReceiveP1b(r, p))
<1>1. CASE r.p1bRelay.pending
  BY <1>1, HandleP1bRelayGood, QuietOutcome DEF ReceiveP1b
<1>2. CASE ~r.p1bRelay.pending
  BY <1>2, HandleP1bOutcome DEF ReceiveP1b
<1> QED
  BY <1>1, <1>2

\* The fields of a P1a.
LEMMA P1aFields ==
  ASSUME NEW m \in Message, m.type = "P1a"
  PROVE  m.ballot \in Ballot /\ m.src \in Node /\ m.via \in Node \cup {0}
BY DEF Message

\* A leaf that answers a P1a stays well formed.
LEMMA HandleP1aLeafGood ==
  ASSUME NEW I, NEW P, Context(I, P), NEW r, Good(I, P, r), NEW m \in Message, m.type = "P1a",
         MsgOK(I, P, m), m.via # 0
  PROVE  Good(I, P, HandleP1aLeaf(r, m)) /\ Keeps(r, HandleP1aLeaf(r, m))
<1> DEFINE r1 == HandleP1a(r, m.ballot)
           a == [type |-> "P1b", p1b |-> P1bOf(r1), dst |-> {m.via}]
<1>1. m.via \in Node /\ m.ballot \in I
  BY P1aFields DEF MsgOK
<1>2. Good(I, P, r1) /\ Keeps(r, r1)
  BY <1>1, HandleP1aGood
<1> HIDE DEF r1
<1>3. P1bOf(r1) \in P1bRecord /\ P1bOK(I, P, P1bOf(r1))
  BY <1>2, P1bOfOK
<1>4. a \in Message /\ MsgOK(I, P, a)
  BY <1>1, <1>3 DEF Message, MsgOK
<1> HIDE DEF a
<1>5. Good(I, P, Emit(r1, {a})) /\ Keeps(r1, Emit(r1, {a}))
  BY <1>2, <1>4, EmitGood
<1>6. Keeps(r, Emit(r1, {a}))
  BY <1>2, <1>5, GoodKeeps
<1> QED
  BY <1>5, <1>6 DEF HandleP1aLeaf, r1, a

\* handleP1aRelay has a proper outcome, whatever becomes of the collection
\* that was open and of the relay's own P1b.
LEMMA HandleP1aRelayOutcome ==
  ASSUME NEW I, NEW P, Context(I, P), NEW r, Good(I, P, r), NEW m \in Message, m.type = "P1a",
         MsgOK(I, P, m), HandleP1aRelay(r, m).slot <= MaxSlot
  PROVE  Outcome(I, P, r, HandleP1aRelay(r, m))
<1> DEFINE new == r.ballot < m.ballot
           nack == new /\ r.p1bRelay.pending
           a == [type |-> "Prepare", ballot |-> m.ballot, dst |-> {ID(r.ballot)}]
           r1 == IF nack THEN Emit(r, {a}) ELSE r
           c == [pending |-> TRUE, hop |-> m.src, p1bs |-> <<>>]
           r2 == IF new THEN [r1 EXCEPT !.p1bRelay = c] ELSE r1
           r3 == HandleP1a(r2, m.ballot)
           r4 == ReceiveP1b(r3, P1bOf(r3))
           h == HandleP1aRelay(r, m)
<1>1. m.ballot \in I /\ m.ballot \in Ballot /\ m.src \in Node
  BY P1aFields DEF MsgOK
<1>2. h = IF nack /\ ID(r.ballot) = r.id THEN [r EXCEPT !.halted = TRUE]
          ELSE IF new THEN Propagate(r4, m) ELSE r4
  BY DEF HandleP1aRelay
<1>3. CASE nack /\ ID(r.ballot) = r.id
  BY <1>2, <1>3, HaltGood, QuietOutcome
<1>4. CASE ~(nack /\ ID(r.ballot) = r.id)
  <2>1. Good(I, P, r1) /\ Keeps(r, r1)
    <3>1. r.ballot \in Ballot /\ ID(r.ballot) \in Int
      BY OwnerIsInt DEF Good, Replica
    <3>2. a \in Message /\ MsgOK(I, P, a)
      BY <1>1, <3>1 DEF Message, MsgOK
    <3> HIDE DEF a
    <3> QED
      BY <3>2, EmitGood, SelfKeeps
  <2> HIDE DEF r1
  <2>2. /\ Good(I, P, r2) /\ Keeps(r, r2) /\ (new => r2.p1bRelay.pending)
    <3>1. c \in P1bRelay /\ c.hop \in Node /\ P1bSeqOK(I, P, c.p1bs) /\ c.pending
      BY <1>1, EmptySeq DEF P1bRelay, P1bSeqOK
    <3> HIDE DEF c
    <3>2. Good(I, P, [r1 EXCEPT !.p1bRelay = c]) /\ Keeps(r1, [r1 EXCEPT !.p1bRelay = c])
      BY <2>1, <3>1, P1bRelayChangeGood
    <3>3. [r1 EXCEPT !.p1bRelay = c].p1bRelay = c
      BY <2>1 DEF Good, Replica
    <3>4. Keeps(r, [r1 EXCEPT !.p1bRelay = c])
      BY <2>1, <3>2, GoodKeeps
    <3> QED
      BY <2>1, <3>1, <3>2, <3>3, <3>4
  <2> HIDE DEF r2
  <2>3. Good(I, P, r3) /\ Keeps(r2, r3)
    BY <1>1, <2>2, HandleP1aGood
  <2>4. r3.p1bRelay = r2.p1bRelay
    BY <2>2 DEF Good, Replica, HandleP1a, ForwardPending, Forward, Emit
  <2>5. Keeps(r, r3)
    BY <2>2, <2>3, GoodKeeps
  <2> HIDE DEF r3
  <2>6. P1bOf(r3) \in P1bRecord /\ P1bOK(I, P, P1bOf(r3))
    BY <2>3, P1bOfOK
  <2>7. CASE new
    <3>1. r4 = HandleP1bRelay(r3, P1bOf(r3)) /\ r3.p1bRelay.pending
      BY <2>2, <2>4, <2>7 DEF ReceiveP1b
    <3>2. Good(I, P, r4) /\ Keeps(r3, r4)
      BY <2>3, <2>6, <3>1, HandleP1bRelayGood
    <3> HIDE DEF r4
    <3>3. Good(I, P, Propagate(r4, m)) /\ Keeps(r4, Propagate(r4, m))
      BY <3>2, PropagateGood
    <3>4. Keeps(r, r4)
      BY <2>3, <2>5, <3>2, GoodKeeps
    <3>5. Keeps(r, Propagate(r4, m))
      BY <3>2, <3>3, <3>4, GoodKeeps
    <3>6. h = Propagate(r4, m)
      BY <1>2, <1>4, <2>7
    <3> QED
      BY <3>3, <3>5, <3>6, QuietOutcome
  <2>8. CASE ~new
    <3>1. h = r4
      BY <1>2, <1>4, <2>8
    <3>2. Outcome(I, P, r3, r4)
      BY <2>3, <2>6, <3>1, ReceiveP1bOutcome
    <3> HIDE DEF r4
    <3> QED
      BY <2>3, <2>5, <3>1, <3>2, OutcomeAfter
  <2> QED
    BY <2>7, <2>8
<1> QED
  BY <1>3, <1>4

-----------------------------------------------------------------------------
\* A nack is well formed.
LEMMA SendNackGood ==
  ASSUME NEW I, NEW P, Context(I, P), NEW r, Good(I, P, r), NEW b, KnownBallot(I, b),
         NEW s \in Slot, NEW id \in Int
  PROVE  Good(I, P, SendNack(r, b, s, id)) /\ Keeps(r, SendNack(r, b, s, id))
<1> DEFINE a == [type |-> "P2b", ballot |-> b, slot |-> s, ids |-> <<>>, dst |-> {id}]
<1>1. b \in Ballot /\ <<>> \in Seq(Node)
  BY KnownIsBallot, EmptySeq
<1>2. a \in Message /\ MsgOK(I, P, a)
  BY <1>1 DEF Message, MsgOK
<1> HIDE DEF a
<1> QED
  BY <1>2, EmitGood DEF SendNack, a

\* Sending the collected votes to the leader (handleP2bRelay, startTicker).
LEMMA FlushP2bGood ==
  ASSUME NEW I, NEW P, Context(I, P), NEW r, Good(I, P, r), NEW s \in Slot, r.p2bRelay[s].pending,
         NEW ids \in Seq(Node), NEW missing \in SUBSET Node
  PROVE  Good(I, P, FlushP2b(r, s, ids, missing)) /\ Keeps(r, FlushP2b(r, s, ids, missing))
<1> DEFINE c == r.p2bRelay[s]
           small == [type |-> "P2bAggregated", ballot |-> c.ballot, slot |-> s,
                     lastExecute |-> r.execute - 1, relay |-> r.id,
                     missing |-> missing, dst |-> {c.hop}]
           full == [type |-> "P2b", ballot |-> c.ballot, slot |-> s, ids |-> ids, dst |-> {c.hop}]
           t == [r EXCEPT !.p2bRelay[s] = NoP2bRelay]
           m == IF UseSmallP2b THEN small ELSE full
<1>1. /\ r \in Replica /\ r.id \in Node /\ r.execute - 1 \in -1..MaxSlot
      /\ c.hop \in Node /\ KnownBallot(I, c.ballot)
  BY SMTT(30), MaxSlotAssumption DEF Good, Replica, ReplicaOK, RelayOK
<1>2. c.ballot \in Ballot /\ c.hop \in Int
  BY <1>1, KnownIsBallot, NodeIsPositive
<1>3. Good(I, P, t) /\ Keeps(r, t)
  BY NoP2bRelayOK, P2bRelayChangeGood DEF KnownBallot
<1>4. small \in Message /\ MsgOK(I, P, small)
  BY <1>1, <1>2 DEF Message, MsgOK
<1>5. full \in Message /\ MsgOK(I, P, full)
  BY <1>1, <1>2 DEF Message, MsgOK
<1> HIDE DEF t, small, full
<1>6. m \in Message /\ MsgOK(I, P, m)
  BY <1>4, <1>5
<1>7. FlushP2b(r, s, ids, missing) = Emit(t, {m})
  BY DEF FlushP2b, t, small, full
<1> HIDE DEF m
<1>8. Good(I, P, Emit(t, {m})) /\ Keeps(t, Emit(t, {m}))
  BY <1>3, <1>6, EmitGood
<1> QED
  BY <1>3, <1>7, <1>8, GoodKeeps

\* computeMissingIDsForP2b returns nodes.
LEMMA MissingAreNodes ==
  ASSUME NEW r \in Replica, NEW ids
  PROVE  ComputeMissingIDsForP2b(r, ids) \in SUBSET Node
<1>1. r.id \in Node
  BY DEF Replica
<1> QED
  BY <1>1, GroupOfFacts DEF ComputeMissingIDsForP2b

\* handleP2bRelay keeps a replica well formed.
LEMMA HandleP2bRelayGood ==
  ASSUME NEW I, NEW P, Context(I, P), NEW r, Good(I, P, r), NEW b, KnownBallot(I, b),
         NEW s \in Slot, NEW ids \in Seq(Node)
  PROVE  Good(I, P, HandleP2bRelay(r, b, s, ids)) /\ Keeps(r, HandleP2bRelay(r, b, s, ids))
<1> DEFINE c == r.p2bRelay[s]
           all == c.ids \o ids
           missing == IF RelaySlack > 0 THEN ComputeMissingIDsForP2b(r, all) ELSE {}
           d == [c EXCEPT !.ids = all]
           h == HandleP2bRelay(r, b, s, ids)
<1>1. r \in Replica /\ c \in P2bRelay /\ c.ids \in Seq(Node) /\ KnownBallot(I, c.ballot)
  BY DEF Good, Replica, P2bRelay, ReplicaOK, RelayOK
<1>2. all \in Seq(Node) /\ c.ballot \in Ballot /\ ID(c.ballot) \in Int
  BY <1>1, ConcatProperties, KnownIsBallot, OwnerIsInt
<1>3. missing \in SUBSET Node
  BY <1>1, MissingAreNodes
<1>4. CASE ~c.pending
  BY <1>4, SelfKeeps DEF HandleP2bRelay
<1>5. CASE c.pending
  <2>1. d \in P2bRelay /\ d.ballot = c.ballot /\ d.hop = c.hop /\ c.hop \in Node
    BY <1>1, <1>2, <1>5 DEF P2bRelay, Good, ReplicaOK, RelayOK
  <2>2. [r EXCEPT !.p2bRelay[s].ids = all] = [r EXCEPT !.p2bRelay[s] = d]
    BY <1>1 DEF Replica
  <2>3. \/ h = SendNack(r, b, s, ID(c.ballot))
        \/ h = FlushP2b(r, s, all, missing)
        \/ h = [r EXCEPT !.p2bRelay[s] = d]
    BY <1>5, <2>2 DEF HandleP2bRelay
  <2> HIDE DEF h, d, missing, all
  <2>4. Good(I, P, SendNack(r, b, s, ID(c.ballot))) /\ Keeps(r, SendNack(r, b, s, ID(c.ballot)))
    BY <1>2, SendNackGood
  <2>5. Good(I, P, FlushP2b(r, s, all, missing)) /\ Keeps(r, FlushP2b(r, s, all, missing))
    BY <1>2, <1>3, <1>5, FlushP2bGood
  <2>6. Good(I, P, [r EXCEPT !.p2bRelay[s] = d]) /\ Keeps(r, [r EXCEPT !.p2bRelay[s] = d])
    BY <1>1, <2>1, P2bRelayChangeGood
  <2>7. Good(I, P, h) /\ Keeps(r, h)
    BY <2>3, <2>4, <2>5, <2>6
  <2> QED
    BY <2>7 DEF h
<1> QED
  BY <1>4, <1>5

\* handleP2b keeps a replica well formed, as a leader and as a relay.
LEMMA ReceiveP2bGood ==
  ASSUME NEW I, NEW P, Context(I, P), NEW r, Good(I, P, r), NEW b, KnownBallot(I, b),
         NEW s \in Slot, NEW ids \in Seq(Node)
  PROVE  Good(I, P, ReceiveP2b(r, b, s, ids)) /\ Keeps(r, ReceiveP2b(r, b, s, ids))
<1>1. Range(ids) \in SUBSET Node
  <2>1. DOMAIN ids = 1..Len(ids)
    BY LenProperties
  <2> QED
    BY <2>1, ElementOfSeq DEF Range
<1> QED
  BY <1>1, HandleP2bGood, HandleP2bRelayGood DEF ReceiveP2b

\* handleP2bAggregated keeps a replica well formed.
LEMMA HandleP2bAggregatedGood ==
  ASSUME NEW I, NEW P, Context(I, P), NEW r, Good(I, P, r), NEW m \in Message,
         m.type = "P2bAggregated", MsgOK(I, P, m)
  PROVE  Good(I, P, HandleP2bAggregated(r, m)) /\ Keeps(r, HandleP2bAggregated(r, m))
<1> DEFINE t == UpdateLastExecuteByNode(r, m.relay, m.lastExecute)
           ids == GroupOf(m.relay) \ m.missing
           h == HandleP2b(t, m.slot, m.ballot, ids)
<1>1. m.relay \in Node /\ m.lastExecute \in -1..MaxSlot /\ m.slot \in Slot
  BY DEF Message
<1>2. KnownBallot(I, m.ballot)
  BY DEF MsgOK
<1>3. ids \in SUBSET Node
  BY <1>1, GroupOfFacts
<1>4. Good(I, P, t) /\ Keeps(r, t)
  BY <1>1, UpdateLastExecuteGood
<1> HIDE DEF t, ids
<1>5. Good(I, P, h) /\ Keeps(t, h)
  BY <1>1, <1>2, <1>3, <1>4, HandleP2bGood
<1>6. Keeps(r, h)
  BY <1>4, <1>5, GoodKeeps
<1>7. HandleP2bAggregated(r, m) = r \/ HandleP2bAggregated(r, m) = h
  BY DEF HandleP2bAggregated, t, ids
<1> QED
  BY <1>5, <1>6, <1>7, SelfKeeps

\* Opening the collection of a slot, with the nacks that may go with it, keeps
\* a replica well formed.
LEMMA OpenP2bRelayGood ==
  ASSUME NEW I, NEW P, Context(I, P), NEW r, Good(I, P, r), NEW m \in Message, m.type = "P2a",
         MsgOK(I, P, m)
  PROVE  Good(I, P, OpenP2bRelay(r, m)) /\ Keeps(r, OpenP2bRelay(r, m))
<1> DEFINE c == r.p2bRelay[m.slot]
           fresh == [pending |-> TRUE, hop |-> m.src, ballot |-> m.ballot, ids |-> <<>>]
           opened == [r EXCEPT !.p2bRelay[m.slot] = fresh]
           h == OpenP2bRelay(r, m)
<1>1. m.slot \in Slot /\ m.src \in Node /\ m.ballot \in Ballot /\ m.ballot \in I
  BY P2aFields DEF MsgOK
<1>2. KnownBallot(I, c.ballot) /\ KnownBallot(I, m.ballot)
  BY <1>1 DEF Good, ReplicaOK, RelayOK, KnownBallot
<1>3. ID(c.ballot) \in Int
  BY <1>2, KnownIsBallot, OwnerIsInt
<1>4. fresh \in P2bRelay /\ fresh.hop \in Node /\ fresh.ballot = m.ballot
  BY <1>1, EmptySeq DEF P2bRelay
<1> HIDE DEF fresh
<1>5. Good(I, P, opened) /\ Keeps(r, opened)
  BY <1>1, <1>2, <1>4, P2bRelayChangeGood
<1>6. \/ h = opened \/ h = SendNack(opened, m.ballot, m.slot, ID(c.ballot))
      \/ h = SendNack(r, c.ballot, m.slot, ID(c.ballot)) \/ h = r
  BY DEF OpenP2bRelay, fresh
<1> HIDE DEF opened, h
<1> DEFINE x == SendNack(opened, m.ballot, m.slot, ID(c.ballot))
           y == SendNack(r, c.ballot, m.slot, ID(c.ballot))
<1>7. Good(I, P, x) /\ Keeps(opened, x)
  BY <1>1, <1>2, <1>3, <1>5, SendNackGood
<1>8. Good(I, P, y) /\ Keeps(r, y)
  BY <1>1, <1>2, <1>3, SendNackGood
<1> HIDE DEF x, y
<1>9. Keeps(r, x)
  BY <1>5, <1>7, GoodKeeps
<1>10. Good(I, P, h) /\ Keeps(r, h)
  BY <1>5, <1>6, <1>7, <1>8, <1>9, SelfKeeps DEF x, y
<1> QED
  BY <1>10 DEF h

\* The P3 that travels with a P2a keeps a replica well formed.
LEMMA HandleP3msgGood ==
  ASSUME NEW I, NEW P, Context(I, P), NEW r, Good(I, P, r), NEW p3 \in P3Info
  PROVE  Good(I, P, HandleP3msg(r, p3)) /\ Keeps(r, HandleP3msg(r, p3))
BY HandleP3Good, SelfKeeps DEF HandleP3msg

\* handleP2aRelay keeps a relay well formed.
LEMMA HandleP2aRelayGood ==
  ASSUME NEW I, NEW P, Context(I, P), NEW r, Good(I, P, r), NEW m \in Message, m.type = "P2a",
         MsgOK(I, P, m), r.id \in m.dst
  PROVE  Good(I, P, HandleP2aRelay(r, m)) /\ Keeps(r, HandleP2aRelay(r, m))
<1> DEFINE o == OpenP2bRelay(r, m)
           r1 == HandleP2a(o, m)
           r2 == ReceiveP2b(r1, r1.ballot, m.slot, <<r.id>>)
           r3 == HandleP3msg(r2, m.p3)
           r4 == Propagate(r3, m)
<1>1. /\ m.slot \in Slot /\ m.p3 \in P3Info /\ r.id \in Node
      /\ <<r.id>> \in Seq(Node)
  BY P2aFields DEF Good, Replica
<1>2. Good(I, P, o) /\ Keeps(r, o)
  BY OpenP2bRelayGood
<1>3. ID(m.ballot) # o.id
  BY <1>2 DEF MsgOK, Keeps
<1> HIDE DEF o
<1>4. Good(I, P, r1) /\ Keeps(o, r1)
  BY <1>2, <1>3, HandleP2aGood
<1>5. KnownBallot(I, r1.ballot)
  BY <1>4 DEF Good, ReplicaOK, OwnerOK
<1> HIDE DEF r1
<1>6. Good(I, P, r2) /\ Keeps(r1, r2)
  BY <1>1, <1>4, <1>5, ReceiveP2bGood
<1> HIDE DEF r2
<1>7. Good(I, P, r3) /\ Keeps(r2, r3)
  BY <1>1, <1>6, HandleP3msgGood
<1> HIDE DEF r3
<1>8. Good(I, P, r4) /\ Keeps(r3, r4)
  BY <1>7, PropagateGood
<1>9. Keeps(r, r1)
  BY <1>2, <1>4, GoodKeeps
<1>10. Keeps(r, r2)
  BY <1>4, <1>6, <1>9, GoodKeeps
<1>11. Keeps(r, r3)
  BY <1>6, <1>7, <1>10, GoodKeeps
<1>12. Keeps(r, r4)
  BY <1>7, <1>8, <1>11, GoodKeeps
<1> QED
  BY <1>8, <1>12 DEF HandleP2aRelay, o, r1, r2, r3

\* A leaf that votes stays well formed.
LEMMA HandleP2aLeafGood ==
  ASSUME NEW I, NEW P, Context(I, P), NEW r, Good(I, P, r), NEW m \in Message, m.type = "P2a",
         MsgOK(I, P, m), r.id \in m.dst, m.via # 0
  PROVE  Good(I, P, HandleP2aLeaf(r, m)) /\ Keeps(r, HandleP2aLeaf(r, m))
<1> DEFINE r1 == HandleP2a(r, m)
           vote == [type |-> "P2b", ballot |-> r1.ballot, slot |-> m.slot,
                    ids |-> <<r.id>>, dst |-> {m.via}]
           r2 == Emit(r1, {vote})
           r3 == HandleP3msg(r2, m.p3)
<1>1. /\ m.slot \in Slot /\ m.p3 \in P3Info /\ m.via \in Node /\ m.via \in Int
      /\ r.id \in Node /\ <<r.id>> \in Seq(Node)
  BY P2aFields, NodeIsPositive DEF Good, Replica
<1>2. ID(m.ballot) # r.id
  BY DEF MsgOK
<1>3. Good(I, P, r1) /\ Keeps(r, r1)
  BY <1>2, HandleP2aGood
<1>4. KnownBallot(I, r1.ballot) /\ r1.ballot \in Ballot
  BY <1>3 DEF Good, ReplicaOK, OwnerOK, Replica
<1> HIDE DEF r1
<1>5. vote \in Message /\ MsgOK(I, P, vote)
  BY <1>1, <1>4 DEF Message, MsgOK
<1> HIDE DEF vote
<1>6. Good(I, P, r2) /\ Keeps(r1, r2)
  BY <1>3, <1>5, EmitGood
<1> HIDE DEF r2
<1>7. Good(I, P, r3) /\ Keeps(r2, r3)
  BY <1>1, <1>6, HandleP3msgGood
<1>8. Keeps(r, r2)
  BY <1>3, <1>6, GoodKeeps
<1>9. Keeps(r, r3)
  BY <1>6, <1>7, <1>8, GoodKeeps
<1> QED
  BY <1>7, <1>9 DEF HandleP2aLeaf, r1, vote, r2

\* A relay that handles a P3 and passes it on stays well formed.
LEMMA HandleP3RelayGood ==
  ASSUME NEW I, NEW P, Context(I, P), NEW r, Good(I, P, r), NEW m \in Message, m.type = "P3",
         MsgOK(I, P, m)
  PROVE  Good(I, P, HandleP3Relay(r, m)) /\ Keeps(r, HandleP3Relay(r, m))
<1> DEFINE t == HandleP3(r, m.p3)
<1>1. m.p3 \in P3Info
  BY DEF Message
<1>2. Good(I, P, t) /\ Keeps(r, t)
  BY <1>1, HandleP3Good
<1> HIDE DEF t
<1>3. Good(I, P, Propagate(t, m)) /\ Keeps(t, Propagate(t, m))
  BY <1>2, PropagateGood
<1>4. Keeps(r, Propagate(t, m))
  BY <1>2, <1>3, GoodKeeps
<1> QED
  BY <1>3, <1>4 DEF HandleP3Relay, t

-----------------------------------------------------------------------------
(* The steps of the system.                                                 *)

\* What LeadsOnce says of a step.
LeadsOnceStep ==
  \A n \in Node :
    /\ node[n].ballot <= node'[n].ballot
    /\ node'[n].active => ID(node'[n].ballot) = n
    /\ node[n].active /\ ~node'[n].active => node[n].ballot < node'[n].ballot

\* Adding a set to a bag.
LEMMA BagWith ==
  ASSUME NEW A, NEW S, IsABag(A)
  PROVE  IsABag(A (+) SetToBag(S)) /\ DOMAIN (A (+) SetToBag(S)) = DOMAIN A \cup S
<1>1. DOMAIN (A (+) SetToBag(S)) = DOMAIN A \cup S
  BY DEF (+), SetToBag, BagToSet
<1>2. \A e \in DOMAIN A \cup S :
        (A (+) SetToBag(S))[e] = (IF e \in DOMAIN A THEN A[e] ELSE 0) + (IF e \in S THEN 1 ELSE 0)
  BY DEF (+), SetToBag, BagToSet
<1>3. \A e \in DOMAIN A : A[e] \in Nat /\ A[e] > 0
  BY DEF IsABag
<1>4. \A e \in DOMAIN A \cup S : (A (+) SetToBag(S))[e] \in Nat /\ (A (+) SetToBag(S))[e] > 0
  BY <1>2, <1>3
<1>5. (A (+) SetToBag(S)) = [e \in DOMAIN (A (+) SetToBag(S)) |-> (A (+) SetToBag(S))[e]]
  BY DEF (+)
<1> QED
  BY <1>1, <1>4, <1>5 DEF IsABag

\* Removing a set from a bag.
LEMMA BagWithout ==
  ASSUME NEW A, NEW S, IsABag(A)
  PROVE  IsABag(A (-) SetToBag(S)) /\ DOMAIN (A (-) SetToBag(S)) \subseteq DOMAIN A
BY DEF IsABag, (-), SetToBag, BagToSet

\* Inv, in the terms of the lemmas about handlers.
LEMMA InvContext ==
  ASSUME Inv
  PROVE  /\ Context(issued, proposals)
         /\ \A n \in Node : Good(issued, proposals, node[n]) /\ node[n].id = n
         /\ \A m \in DOMAIN msgs : m \in Message /\ MsgOK(issued, proposals, m)
BY DEF Inv, TypeOK, Context, Good

\* A replica whose messages were handed to the network is well formed.
LEMMA SentGood ==
  ASSUME NEW I, NEW P, NEW t, Good(I, P, t)
  PROVE  Good(I, P, [t EXCEPT !.out = {}])
<1> DEFINE u == [t EXCEPT !.out = {}]
<1>1. u \in Replica
  BY DEF Good, Replica
<1>2. /\ u.id = t.id /\ u.ballot = t.ballot /\ u.active = t.active /\ u.slot = t.slot
      /\ u.execute = t.execute /\ u.log = t.log /\ u.out = {}
      /\ u.p1bQueue = t.p1bQueue /\ u.p1bRelay = t.p1bRelay /\ u.p2bRelay = t.p2bRelay
  BY DEF Good, Replica
<1> HIDE DEF u
<1>3. ReplicaOK(I, P, u)
  BY <1>2 DEF Good, ReplicaOK, LogOK, OwnerOK, RelayOK
<1> QED
  BY <1>1, <1>3 DEF Good, u

\* A step of node n that runs a handler with a proper outcome preserves Inv
\* and does what LeadsOnce says: the handler's messages are well formed, and
\* what it issues and proposes is under ballots of n, which no other replica
\* owns.
LEMMA StepKeepsInv ==
  ASSUME Inv, NEW n \in Node, NEW taken, NEW t,
         Outcome(issued, proposals, node[n], t), Step(n, taken, t)
  PROVE  Inv' /\ LeadsOnceStep
<1> DEFINE I2 == issued \cup BallotsOf(t)
           P2 == proposals \cup PropsOf(t)
           u == [t EXCEPT !.out = {}]
<1>1. issued' = I2 /\ proposals' = P2 /\ lost' = lost /\ submitted' = submitted
  BY DEF Step, BallotsOf, PropsOf
<1>2. node' = [node EXCEPT ![n] = u]
  BY DEF Step
<1>3. /\ Context(I2, P2) /\ Good(I2, P2, t) /\ Keeps(node[n], t)
      /\ \A b \in I2 : b \in issued \/ ID(b) = n
      /\ \A p \in P2 : p \in proposals \/ ID(p[1]) = n
  BY InvContext DEF Outcome
<1>4. issued \subseteq I2 /\ proposals \subseteq P2
  OBVIOUS
<1> HIDE DEF I2, P2
<1>5. /\ Good(I2, P2, u) /\ u.id = n /\ u.out = {} /\ u.ballot = t.ballot /\ u.active = t.active
  <2>1. Good(I2, P2, u)
    BY <1>3, SentGood
  <2>2. t.id = n
    BY <1>3, InvContext DEF Keeps
  <2> QED
    BY <1>3, <2>1, <2>2 DEF Good, Replica
<1> HIDE DEF u
<1>6. \A q \in Node : node'[q] = IF q = n THEN u ELSE node[q]
  BY <1>2 DEF Inv, TypeOK
<1>7. \A q \in Node : Good(I2, P2, node'[q]) /\ node'[q].id = q /\ node'[q].out = {}
  <2> SUFFICES ASSUME NEW q \in Node, q # n
               PROVE  Good(I2, P2, node[q]) /\ node[q].id = q /\ node[q].out = {}
    BY <1>5, <1>6
  <2>1. Good(issued, proposals, node[q]) /\ node[q].id = q /\ node[q].out = {}
    BY InvContext DEF Inv, TypeOK
  <2>2. \A b \in I2 : b \in issued \/ ID(b) # node[q].id
    BY <1>3, <2>1
  <2>3. \A p \in P2 : p \in proposals \/ ID(p[1]) # node[q].id
    BY <1>3, <2>1
  <2> QED
    BY <1>4, <2>1, <2>2, <2>3, OthersGood
<1>8. node' \in [Node -> Replica]
  <2>1. DOMAIN node' = Node /\ node' = [q \in Node |-> node'[q]]
    BY <1>2 DEF Inv, TypeOK
  <2> QED
    BY <1>7, <2>1 DEF Good
<1>9. /\ IsABag(msgs')
      /\ \A m \in DOMAIN msgs' : m \in Message /\ MsgOK(I2, P2, m)
  <2> DEFINE B == msgs (-) SetToBag(taken)
  <2>1. IsABag(msgs)
    BY DEF Inv, TypeOK
  <2>2. IsABag(B) /\ DOMAIN B \subseteq DOMAIN msgs
    BY <2>1, BagWithout
  <2>3. msgs' = B (+) SetToBag(t.out)
    BY DEF Step
  <2> HIDE DEF B
  <2>4. IsABag(msgs') /\ DOMAIN msgs' = DOMAIN B \cup t.out
    BY <2>2, <2>3, BagWith
  <2>5. \A m \in t.out : m \in Message /\ MsgOK(I2, P2, m)
    BY <1>3 DEF Good, Replica, ReplicaOK
  <2>6. \A m \in DOMAIN msgs : m \in Message /\ MsgOK(I2, P2, m)
    BY <1>4, InvContext, MsgOKMonotone
  <2> QED
    BY <2>2, <2>4, <2>5, <2>6
<1>10. TypeOK'
  <2>1. lost' \in 0..MaxLost /\ submitted' \subseteq Cmd
    BY <1>1 DEF Inv, TypeOK
  <2>2. issued' \subseteq Ballot /\ proposals' \subseteq Ballot \X Slot \X Cmd
    BY <1>1, <1>3 DEF Context
  <2>3. DOMAIN msgs' \subseteq Message
    BY <1>9
  <2> QED
    BY <1>7, <1>8, <1>9, <2>1, <2>2, <2>3 DEF TypeOK
<1>11. Inv'
  <2>1. (\A b \in issued' : ID(b) \in Node) /\ ProposalsOK(issued', proposals')
    BY <1>1, <1>3 DEF Context
  <2>2. \A q \in Node : ReplicaOK(issued', proposals', node'[q])
    BY <1>1, <1>7 DEF Good
  <2>3. \A m \in DOMAIN msgs' : MsgOK(issued', proposals', m)
    BY <1>1, <1>9
  <2> QED
    BY <1>10, <2>1, <2>2, <2>3 DEF Inv
<1>12. LeadsOnceStep
  <2> SUFFICES ASSUME NEW q \in Node
               PROVE  /\ node[q].ballot <= node'[q].ballot
                      /\ node'[q].active => ID(node'[q].ballot) = q
                      /\ node[q].active /\ ~node'[q].active => node[q].ballot < node'[q].ballot
    BY DEF LeadsOnceStep
  <2>1. node'[q].active => ID(node'[q].ballot) = q
    BY <1>7 DEF Good, ReplicaOK, OwnerOK
  <2>2. CASE q = n
    BY <1>3, <1>5, <1>6, <2>1, <2>2 DEF Keeps
  <2>3. CASE q # n
    <3>1. node[q].ballot \in Nat
      BY InvContext DEF Good, Replica, Ballot
    <3> QED
      BY <1>6, <2>1, <2>3, <3>1
  <2> QED
    BY <2>2, <2>3
<1> QED
  BY <1>11, <1>12

-----------------------------------------------------------------------------
\* A new replica is well formed.
LEMMA NewReplicaGood ==
  ASSUME NEW n \in Node
  PROVE  NewReplica(n) \in Replica /\ ReplicaOK({}, {}, NewReplica(n))
<1>1. 0 \in Ballot
  BY DEF Ballot
<1>2. NoEntry \in LogEntry
  BY <1>1 DEF NoEntry, LogEntry, MaybeCmd
<1>3. [s \in Slot |-> NoEntry] \in [Slot -> LogEntry]
  BY <1>2
<1>4. [s \in Slot |-> NoP2bRelay] \in [Slot -> P2bRelay]
  BY NoP2bRelayOK
<1>5. [q \in Node |-> NotReported] \in [Node -> -2..MaxSlot]
  BY MaxSlotAssumption DEF NotReported
<1>6. NewReplica(n) \in Replica
  BY <1>1, <1>3, <1>4, <1>5, NoP1bRelayOK, MaxSlotAssumption DEF NewReplica, Replica
<1>7. ID(0) # n
  BY ZeroBallot, NodeIsPositive
<1>8. /\ LogOK({}, NewReplica(n)) /\ OwnerOK({}, {}, NewReplica(n))
      /\ RelayOK({}, {}, NewReplica(n))
  BY <1>7, NoP1bRelayOK, NoP2bRelayOK
  DEF NewReplica, LogOK, Proposed, NoEntry, OwnerOK, KnownBallot, RelayOK, P1bSeqOK
<1> QED
  BY <1>6, <1>8 DEF ReplicaOK, NewReplica

\* Inv holds initially.
LEMMA InitInv == Init => Inv
<1> SUFFICES ASSUME Init
             PROVE  Inv
  OBVIOUS
<1>1. DOMAIN msgs = {} /\ IsABag(msgs)
  BY DEF Init, EmptyBag, SetToBag, IsABag
<1>2. \A n \in Node : node[n] = NewReplica(n)
  BY DEF Init
<1>3. TypeOK
  <2>1. \A n \in Node : NewReplica(n).id = n /\ NewReplica(n).out = {}
    BY DEF NewReplica
  <2> QED
    BY <1>1, <1>2, <2>1, NewReplicaGood, PigPaxosAssumption DEF Init, TypeOK
<1>4. \A n \in Node : ReplicaOK(issued, proposals, node[n])
  BY <1>2, NewReplicaGood DEF Init
<1> QED
  BY <1>1, <1>3, <1>4 DEF Init, Inv, ProposalsOK

-----------------------------------------------------------------------------
\* A message a node takes is well formed and addressed to it.
LEMMA InboxFacts ==
  ASSUME Inv, NEW n \in Node, NEW type, NEW m \in Inbox(n, type)
  PROVE  m \in Message /\ m.type = type /\ n \in m.dst /\ MsgOK(issued, proposals, m)
BY InvContext DEF Inbox

\* A step of a quiet handler preserves Inv.
LEMMA QuietStep ==
  ASSUME Inv, NEW n \in Node, NEW taken, NEW t, Good(issued, proposals, t), Keeps(node[n], t),
         Step(n, taken, t)
  PROVE  Inv' /\ LeadsOnceStep
BY InvContext, QuietOutcome, StepKeepsInv

\* The queue of P1b's yet to be handled by handleP1bLeader.
LEMMA QueueGood ==
  ASSUME NEW I, NEW P, NEW r, Good(I, P, r), NEW q \in Seq(P1bRecord), P1bSeqOK(I, P, q)
  PROVE  Good(I, P, [r EXCEPT !.p1bQueue = q]) /\ Keeps(r, [r EXCEPT !.p1bQueue = q])
<1> DEFINE t == [r EXCEPT !.p1bQueue = q]
<1>1. t \in Replica
  BY DEF Good, Replica
<1>2. /\ t.id = r.id /\ t.ballot = r.ballot /\ t.active = r.active /\ t.slot = r.slot
      /\ t.execute = r.execute /\ t.log = r.log /\ t.out = r.out /\ t.p1bQueue = q
      /\ t.p1bRelay = r.p1bRelay /\ t.p2bRelay = r.p2bRelay
  BY DEF Good, Replica
<1> HIDE DEF t
<1>3. RelayOK(I, P, t)
  BY <1>2 DEF Good, ReplicaOK, RelayOK
<1> QED
  BY <1>1, <1>2, <1>3, RelayChangeGood DEF t

\* Every handler of a message or request preserves Inv.
LEMMA ReceiveKeepsInv ==
  ASSUME Inv, NEW n \in Node, Receive(n)
  PROVE  Inv' /\ LeadsOnceStep
<1> DEFINE r == node[n]
<1>1. /\ Context(issued, proposals) /\ Good(issued, proposals, r) /\ r.id = n
  BY InvContext
<1>2. ASSUME NEW taken, NEW t, Step(n, taken, t)
      PROVE  t.slot <= MaxSlot
  BY <1>2 DEF Step, WithinBounds
<1>3. CASE ReceiveRequest(n)
  <2>1. PICK m \in Inbox(n, "Request") :
          Step(n, {m}, IF ~StableLeader \/ IsLeader(r) \/ r.ballot = 0
                       THEN HandleRequest(r, m.command) ELSE Forward(r, ID(r.ballot), {m.command}))
    BY <1>3 DEF ReceiveRequest
  <2>2. m.command \in Cmd
    BY InboxFacts DEF Message
  <2>3. CASE Step(n, {m}, HandleRequest(r, m.command))
    BY <1>1, <1>2, <2>2, <2>3, HandleRequestOutcome, StepKeepsInv
  <2>4. CASE Step(n, {m}, Forward(r, ID(r.ballot), {m.command}))
    <3>1. ID(r.ballot) \in Int
      BY <1>1, OwnerIsInt DEF Good, Replica
    <3> QED
      BY <1>1, <2>2, <2>4, <3>1, ForwardGood, QuietStep
  <2> QED
    BY <2>1, <2>3, <2>4
<1>4. CASE ReceiveP1a(n)
  <2>1. PICK m \in Inbox(n, "P1a") :
          Step(n, {m}, IF m.via = 0 THEN HandleP1aRelay(r, m) ELSE HandleP1aLeaf(r, m))
    BY <1>4 DEF ReceiveP1a
  <2>2. m \in Message /\ m.type = "P1a" /\ MsgOK(issued, proposals, m)
    BY InboxFacts
  <2>3. CASE m.via = 0
    <3>1. Step(n, {m}, HandleP1aRelay(r, m))
      BY <2>1, <2>3
    <3> QED
      BY <1>1, <1>2, <2>2, <3>1, HandleP1aRelayOutcome, StepKeepsInv
  <2>4. CASE m.via # 0
    BY <1>1, <2>1, <2>2, <2>4, HandleP1aLeafGood, QuietStep
  <2> QED
    BY <2>3, <2>4
<1>5. CASE ReceiveP2a(n)
  <2>1. PICK m \in Inbox(n, "P2a") :
          Step(n, {m}, IF m.via = 0 THEN HandleP2aRelay(r, m) ELSE HandleP2aLeaf(r, m))
    BY <1>5 DEF ReceiveP2a
  <2>2. m \in Message /\ m.type = "P2a" /\ MsgOK(issued, proposals, m) /\ r.id \in m.dst
    BY <1>1, InboxFacts
  <2>3. CASE m.via = 0
    BY <1>1, <2>1, <2>2, <2>3, HandleP2aRelayGood, QuietStep
  <2>4. CASE m.via # 0
    BY <1>1, <2>1, <2>2, <2>4, HandleP2aLeafGood, QuietStep
  <2> QED
    BY <2>3, <2>4
<1>6. CASE ReceiveP3(n)
  <2>1. PICK m \in Inbox(n, "P3") :
          Step(n, {m}, IF m.via = 0 THEN HandleP3Relay(r, m) ELSE HandleP3(r, m.p3))
    BY <1>6 DEF ReceiveP3
  <2>2. m \in Message /\ m.type = "P3" /\ MsgOK(issued, proposals, m)
    BY InboxFacts
  <2>3. m.p3 \in P3Info
    BY <2>2 DEF Message
  <2>4. CASE m.via = 0
    BY <1>1, <2>1, <2>2, <2>4, HandleP3RelayGood, QuietStep
  <2>5. CASE m.via # 0
    BY <1>1, <2>1, <2>3, <2>5, HandleP3Good, QuietStep
  <2> QED
    BY <2>4, <2>5
<1>7. CASE ReceivePrepare(n)
  BY <1>1, <1>7, HaltGood, QuietStep DEF ReceivePrepare
<1>8. CASE ReceiveLeafP1b(n)
  <2>1. PICK m \in Inbox(n, "P1b") : Step(n, {m}, ReceiveP1b(r, m.p1b))
    BY <1>8 DEF ReceiveLeafP1b
  <2>2. m \in Message /\ m.type = "P1b" /\ MsgOK(issued, proposals, m)
    BY InboxFacts
  <2>3. m.p1b \in P1bRecord /\ P1bOK(issued, proposals, m.p1b)
    BY <2>2 DEF Message, MsgOK
  <2> QED
    BY <1>1, <1>2, <2>1, <2>3, ReceiveP1bOutcome, StepKeepsInv
<1>9. CASE ReceiveP1bs(n)
  <2>1. PICK m \in Inbox(n, "P1bs") : Step(n, {m}, [r EXCEPT !.p1bQueue = m.p1bs])
    BY <1>9 DEF ReceiveP1bs
  <2>2. m \in Message /\ m.type = "P1bs" /\ MsgOK(issued, proposals, m)
    BY InboxFacts
  <2>3. m.p1bs \in Seq(P1bRecord) /\ P1bSeqOK(issued, proposals, m.p1bs)
    BY <2>2 DEF Message, MsgOK
  <2> QED
    BY <1>1, <2>1, <2>3, QueueGood, QuietStep
<1>10. CASE HandleP1bLeader(n)
  <2> DEFINE s == [r EXCEPT !.p1bQueue = Tail(r.p1bQueue)]
             p == Head(r.p1bQueue)
  <2>1. r.p1bQueue # <<>> /\ Step(n, {}, HandleP1b(s, p))
    BY <1>10 DEF HandleP1bLeader
  <2>2. r.p1bQueue \in Seq(P1bRecord) /\ P1bSeqOK(issued, proposals, r.p1bQueue)
    BY <1>1 DEF Good, Replica, ReplicaOK, RelayOK
  <2>3. p \in P1bRecord /\ P1bOK(issued, proposals, p)
    BY <2>1, <2>2 DEF P1bSeqOK
  <2>4. Tail(r.p1bQueue) \in Seq(P1bRecord) /\ P1bSeqOK(issued, proposals, Tail(r.p1bQueue))
    BY <2>1, <2>2 DEF P1bSeqOK
  <2>5. Good(issued, proposals, s) /\ Keeps(r, s)
    BY <1>1, <2>4, QueueGood
  <2> HIDE DEF r, s, p
  <2>6. Outcome(issued, proposals, s, HandleP1b(s, p))
    BY <1>1, <1>2, <2>1, <2>3, <2>5, HandleP1bOutcome
  <2>7. Outcome(issued, proposals, r, HandleP1b(s, p))
    BY <1>1, <2>5, <2>6, OutcomeAfter
  <2> QED
    BY <2>1, <2>7, StepKeepsInv DEF r
<1>11. CASE ReceiveVote(n)
  <2>1. PICK m \in Inbox(n, "P2b") : Step(n, {m}, ReceiveP2b(r, m.ballot, m.slot, m.ids))
    BY <1>11 DEF ReceiveVote
  <2>2. m \in Message /\ m.type = "P2b" /\ MsgOK(issued, proposals, m)
    BY InboxFacts
  <2>3. m.slot \in Slot /\ m.ids \in Seq(Node) /\ KnownBallot(issued, m.ballot)
    BY <2>2 DEF Message, MsgOK
  <2> QED
    BY <1>1, <2>1, <2>3, ReceiveP2bGood, QuietStep
<1>12. CASE ReceiveP2bAggregated(n)
  <2>1. PICK m \in Inbox(n, "P2bAggregated") : Step(n, {m}, HandleP2bAggregated(r, m))
    BY <1>12 DEF ReceiveP2bAggregated
  <2>2. m \in Message /\ m.type = "P2bAggregated" /\ MsgOK(issued, proposals, m)
    BY InboxFacts
  <2> QED
    BY <1>1, <2>1, <2>2, HandleP2bAggregatedGood, QuietStep
<1>13. CASE ReceiveRecoverRequest(n)
  <2>1. PICK m \in Inbox(n, "RecoverRequest") :
          Step(n, {m}, HandleP3RecoverRequest(r, m.slot, m.id))
    BY <1>13 DEF ReceiveRecoverRequest
  <2>2. m.slot \in Slot /\ m.id \in Node
    BY InboxFacts DEF Message
  <2> QED
    BY <1>1, <2>1, <2>2, HandleP3RecoverRequestGood, QuietStep
<1>14. CASE ReceiveRecoverReply(n)
  <2>1. PICK m \in Inbox(n, "RecoverReply") : Step(n, {m}, HandleP3RecoverReply(r, m))
    BY <1>14 DEF ReceiveRecoverReply
  <2>2. m \in Message /\ m.type = "RecoverReply" /\ MsgOK(issued, proposals, m)
    BY InboxFacts
  <2> QED
    BY <1>1, <2>1, <2>2, HandleP3RecoverReplyGood, QuietStep
<1> QED
  BY <1>3, <1>4, <1>5, <1>6, <1>7, <1>8, <1>9, <1>10, <1>11, <1>12, <1>13, <1>14 DEF Receive

\* Every timeout of the ticker preserves Inv.
LEMMA TickKeepsInv ==
  ASSUME Inv, NEW n \in Node, Tick(n)
  PROVE  Inv' /\ LeadsOnceStep
<1> DEFINE r == node[n]
<1>1. /\ Context(issued, proposals) /\ Good(issued, proposals, r) /\ r.id = n
  BY InvContext
<1>2. CASE TickRetryP2a(n)
  BY <1>1, <1>2, RetryP2aGood, QuietStep DEF TickRetryP2a
<1>3. CASE TickRetryP1a(n)
  BY <1>1, <1>3, RetryP1aGood, QuietStep DEF TickRetryP1a, IsLeader
<1>4. CASE TickP3(n)
  <2> DEFINE p3 == [ballot |-> r.p3ballot, slots |-> r.p3slots]
             s == [r EXCEPT !.p3slots = {}]
  <2>1. Step(n, {}, Emit(s, RoutedP3(n, p3)))
    BY <1>4 DEF TickP3
  <2>2. p3 \in P3Info /\ s \in Replica /\ SameCore(r, s)
    BY <1>1 DEF Good, Replica, P3Info, SameCore
  <2> HIDE DEF p3, s
  <2>3. Good(issued, proposals, s) /\ Keeps(r, s)
    BY <1>1, <2>2, SameCoreGood
  <2>4. /\ Good(issued, proposals, Emit(s, RoutedP3(n, p3)))
        /\ Keeps(s, Emit(s, RoutedP3(n, p3)))
    BY <2>2, <2>3, RoutedP3OK, EmitGood
  <2>5. Keeps(r, Emit(s, RoutedP3(n, p3)))
    BY <1>1, <2>3, <2>4, GoodKeeps
  <2> QED
    BY <2>1, <2>4, <2>5, QuietStep
<1>5. CASE TickRelayP1b(n)
  <2>1. r.p1bRelay.pending /\ Step(n, {}, FlushP1b(r, r.p1bRelay.p1bs))
    BY <1>5 DEF TickRelayP1b
  <2>2. r.p1bRelay.p1bs \in Seq(P1bRecord) /\ P1bSeqOK(issued, proposals, r.p1bRelay.p1bs)
    BY <1>1 DEF Good, Replica, P1bRelay, ReplicaOK, RelayOK
  <2> QED
    BY <1>1, <2>1, <2>2, FlushP1bGood, QuietStep
<1>6. ASSUME NEW s \in Slot, TickRelayP2b(n, s)
      PROVE  Inv' /\ LeadsOnceStep
  <2> DEFINE ids == r.p2bRelay[s].ids
  <2>1. /\ r.p2bRelay[s].pending
        /\ Step(n, {}, FlushP2b(r, s, ids, ComputeMissingIDsForP2b(r, ids)))
    BY <1>6 DEF TickRelayP2b
  <2>2. ids \in Seq(Node) /\ ComputeMissingIDsForP2b(r, ids) \in SUBSET Node
    BY <1>1, MissingAreNodes DEF Good, Replica, P2bRelay
  <2> QED
    BY <1>1, <2>1, <2>2, FlushP2bGood, QuietStep
<1>7. CASE TickCleanup(n)
  BY <1>1, <1>7, CleanupLogGood, QuietStep DEF TickCleanup
<1> QED
  BY <1>2, <1>3, <1>4, <1>5, <1>6, <1>7 DEF Tick

\* Every step preserves Inv and does what LeadsOnce says.
LEMMA NextKeepsInv ==
  ASSUME Inv, [Next]_vars
  PROVE  Inv' /\ (LeadsOnceStep \/ UNCHANGED vars)
<1>1. ASSUME NEW n \in Node, Receive(n) \/ Tick(n)
      PROVE  Inv' /\ LeadsOnceStep
  BY <1>1, ReceiveKeepsInv, TickKeepsInv
<1>2. ASSUME UNCHANGED <<node, issued, proposals>>,
             IsABag(msgs'), \A m \in DOMAIN msgs' : m \in Message /\ MsgOK(issued, proposals, m),
             lost' \in 0..MaxLost, submitted' \subseteq Cmd
      PROVE  Inv' /\ LeadsOnceStep
  <2>1. TypeOK'
    BY <1>2 DEF Inv, TypeOK
  <2>2. Inv'
    BY <1>2, <2>1 DEF Inv
  <2>3. \A n \in Node : node[n].ballot \in Nat /\ (node[n].active => ID(node[n].ballot) = n)
    BY InvContext DEF Good, Replica, Ballot, ReplicaOK, OwnerOK
  <2> QED
    BY <1>2, <2>2, <2>3 DEF LeadsOnceStep
<1>3. /\ IsABag(msgs) /\ lost \in 0..MaxLost /\ submitted \subseteq Cmd
      /\ \A m \in DOMAIN msgs : m \in Message /\ MsgOK(issued, proposals, m)
  BY InvContext DEF Inv, TypeOK
<1>4. ASSUME NEW c \in Cmd, NEW n \in Entry[c], Submit(n, c)
      PROVE  Inv' /\ LeadsOnceStep
  <2> DEFINE m == [type |-> "Request", command |-> c, dst |-> {n}]
  <2>1. m \in Message /\ MsgOK(issued, proposals, m)
    BY PigPaxosAssumption, NodeIsPositive DEF Message, MsgOK
  <2>2. msgs' = msgs (+) SetToBag({m})
    BY <1>4 DEF Submit
  <2> HIDE DEF m
  <2>3. IsABag(msgs') /\ DOMAIN msgs' = DOMAIN msgs \cup {m}
    BY <1>3, <2>2, BagWith
  <2> QED
    BY <1>2, <1>3, <1>4, <2>1, <2>3 DEF Submit
<1>5. CASE Lose
  <2>1. PICK m \in DOMAIN msgs : /\ lost < MaxLost /\ msgs' = msgs (-) SetToBag({m})
                                 /\ lost' = lost + 1
                                 /\ UNCHANGED <<node, submitted, issued, proposals>>
    BY <1>5 DEF Lose
  <2>2. IsABag(msgs') /\ DOMAIN msgs' \subseteq DOMAIN msgs
    BY <1>3, <2>1, BagWithout
  <2>3. lost' \in 0..MaxLost
    BY <1>3, <2>1, PigPaxosAssumption
  <2> QED
    BY <1>2, <1>3, <2>1, <2>2, <2>3
<1>6. CASE UNCHANGED vars
  <2>1. UNCHANGED <<node, msgs, lost, submitted, issued, proposals>>
    BY <1>6 DEF vars
  <2> QED
    BY <1>2, <1>3, <2>1
<1> QED
  BY <1>1, <1>4, <1>5, <1>6 DEF Next

-----------------------------------------------------------------------------
\* Inv holds in every reachable state, for any number of nodes, slots and
\* commands, any partition into relay groups, any flags, and a network that
\* loses and reorders messages.
THEOREM InductiveInvariant == Spec => []Inv
<1>1. Inv /\ [Next]_vars => Inv'
  BY NextKeepsInv
<1> QED
  BY <1>1, InitInv, PTL DEF Spec

\* Every replica, message and history variable keeps its type: no handler of
\* pigpaxos.go or replica.go leaves the state space.
THEOREM TypeCorrect == Spec => []TypeOK
<1>1. Inv => TypeOK
  BY DEF Inv
<1> QED
  BY <1>1, InductiveInvariant, PTL

\* A ballot stands for at most one command in a slot, whatever the
\* interleaving of elections, retries (RetryP2a), relays and recoveries:
\* HandleP2b and HandleP3 may match votes and commits with entries by ballot.
THEOREM BallotsAreUnambiguous == Spec => []OneCommandPerBallot
<1>1. Inv => OneCommandPerBallot
  BY DEF Inv, ProposalsOK, ReplicaOK, LogOK, Proposed, OneCommandPerBallot
<1> QED
  BY <1>1, InductiveInvariant, PTL

\* A ballot is led by its owner only and ballots never decrease; a leader that
\* is deposed (HandleP1a, HandleP1b, HandleP2a, HandleP2b) has moved to a
\* higher ballot and never leads the old one again.
THEOREM LeadershipIsFinal == Spec => LeadsOnce
<1> DEFINE A == \A n \in Node :
                  /\ node[n].ballot <= node'[n].ballot
                  /\ node'[n].active => ID(node'[n].ballot) = n
                  /\ node[n].active /\ ~node'[n].active => node[n].ballot < node'[n].ballot
<1>1. Inv /\ [Next]_vars => [A]_vars
  BY NextKeepsInv DEF LeadsOnceStep
<1> QED
  BY <1>1, InductiveInvariant, PTL DEF Spec, LeadsOnce
=============================================================================
