---------------------------- MODULE SupportProofs ----------------------------
(***************************************************************************)
(* Proofs about the parts of package paxi that all protocols stand on: the *)
(* hybrid clock never shows a time that no physical clock has shown, and   *)
(* goes forward unless it wraps; two quorums of one system share a node;   *)
(* the relay groups of a replica that starts partition the nodes, and it   *)
(* starts just if its flags fit them; a forwarded request's reply goes     *)
(* back the way the request has come.                                      *)
(*                                                                         *)
(* Each part has its own invariant, which the steps of the other parts     *)
(* leave alone; SupportInv is their conjunction.                           *)
(***************************************************************************)
EXTENDS Support, FiniteSetTheorems, TLAPS

Logical == -WrapAt .. WrapAt - 1
Stamp == [physical : Nat, logical : Logical]

\* Clocks and timestamps under way show times that some physical clock has
\* shown, and a timestamp is packed as HLC.ToInt64 does.
ClockInv ==
  /\ latest \in Nat
  /\ wall \in [Process -> 0 .. latest]
  /\ clock \in [Process -> Stamp]
  /\ \A p \in Process : clock[p].physical \in 0 .. latest
  /\ \A m \in flying : /\ m.sent \in Stamp /\ m.sent.physical \in 0 .. latest
                       /\ m.packed = ToInt64(m.sent)

\* The int16 of the logical part wraps at its end and nowhere else.
LEMMA Wraps ==
  ASSUME NEW l \in Logical
  PROVE  ToInt16(l + 1) = IF l = WrapAt - 1 THEN -WrapAt ELSE l + 1
<1>1. WrapAt \in Nat \ {0} /\ l \in Int /\ -WrapAt <= l /\ l < WrapAt
  BY HybridClockAssumption DEF Logical
<1>2. CASE l = WrapAt - 1
  <2>1. (l + 1 + WrapAt) = 2 * WrapAt
    BY <1>1, <1>2
  <2>2. (2 * WrapAt) % (2 * WrapAt) = 0
    BY <1>1
  <2> QED
    BY <1>1, <1>2, <2>1, <2>2 DEF ToInt16
<1>3. CASE l # WrapAt - 1
  <2>1. l + 1 + WrapAt \in 0 .. 2 * WrapAt - 1
    BY <1>1, <1>3
  <2>2. (l + 1 + WrapAt) % (2 * WrapAt) = l + 1 + WrapAt
    BY <1>1, <2>1
  <2> QED
    BY <1>1, <1>3, <2>2 DEF ToInt16
<1> QED
  BY <1>2, <1>3

\* HLC.IncrementLogical moves a timestamp forward within its millisecond, or
\* its logical part wraps.
LEMMA IncrementFacts ==
  ASSUME NEW t \in [physical : Int, logical : Logical]
  PROVE  /\ IncrementLogical(t) \in [physical : Int, logical : Logical]
         /\ IncrementLogical(t).physical = t.physical
         /\ \/ IncrementLogical(t).logical = t.logical + 1
            \/ IncrementLogical(t).logical = -WrapAt
<1>1. WrapAt \in Nat \ {0}
  BY HybridClockAssumption
<1>2. ToInt16(t.logical + 1) = IF t.logical = WrapAt - 1 THEN -WrapAt ELSE t.logical + 1
  BY Wraps
<1>3. ToInt16(t.logical + 1) \in Logical
  BY <1>1, <1>2 DEF Logical
<1> QED
  BY <1>2, <1>3 DEF IncrementLogical

\* Division with rest gives back what was put together.
LEMMA DivisionIsUnique ==
  ASSUME NEW w \in Nat \ {0}, NEW h \in Nat, NEW l \in 0 .. w - 1
  PROVE  (h * w + l) \div w = h /\ (h * w + l) % w = l
<1> DEFINE b == h * w + l
           q == b \div w
           r == b % w
<1>1. b \in Nat
  OBVIOUS
<1>2. q \in Nat /\ r \in 0 .. w - 1 /\ b = w * q + r
  BY <1>1
<1>3. w * h - w * q = r - l
  BY <1>1, <1>2
<1> HIDE DEF b, q, r
<1>4. ASSUME NEW i \in Nat, NEW j \in Nat, i > j PROVE w * i - w * j >= w
  <2>1. i - j \in Nat \ {0} /\ w * i - w * j = w * (i - j)
    BY <1>4
  <2>2. ASSUME NEW k \in Nat \ {0} PROVE w * k >= w
    BY <2>2
  <2> QED
    BY <2>1, <2>2
<1>5. w * h \in Int /\ w * q \in Int
  BY <1>2
<1>6. ~(h > q)
  BY <1>2, <1>3, <1>4, <1>5
<1>7. ~(h < q)
  BY <1>2, <1>3, <1>4, <1>5
<1>8. h = q
  BY <1>2, <1>6, <1>7
<1>9. l = r
  BY <1>2, <1>3, <1>5, <1>8
<1> QED
  BY <1>8, <1>9 DEF b, q, r

\* A timestamp that is packed and unpacked keeps its logical part; a wrapped
\* one comes out as the last before the first millisecond (HLC.ToInt64).
LEMMA Unpacked ==
  ASSUME NEW t \in Stamp
  PROVE  /\ NewTimestampI64(ToInt64(t)) \in [physical : Int, logical : Logical]
         /\ t.logical >= 0 => NewTimestampI64(ToInt64(t)) = t
         /\ t.logical < 0 => NewTimestampI64(ToInt64(t)).physical = -1
<1> DEFINE W == 2 * WrapAt
           u == NewTimestampI64(ToInt64(t))
           l == t.logical
           h == t.physical
<1>1. /\ WrapAt \in Nat \ {0} /\ l \in Int /\ -WrapAt <= l /\ l < WrapAt /\ h \in Nat
      /\ t = [physical |-> h, logical |-> l]
  BY HybridClockAssumption DEF Logical, Stamp
<1>2. CASE l < 0
  <2>1. ToInt64(t) = l
    BY <1>2 DEF ToInt64
  <2>2. l \div W = -1 /\ l % W = l + W
    BY <1>1, <1>2
  <2>3. (l + W + WrapAt) % W = l + WrapAt
    BY <1>1, <1>2
  <2>4. ToInt16(l + W) = l
    BY <1>1, <2>3 DEF ToInt16
  <2>5. u = [physical |-> -1, logical |-> l]
    BY <2>1, <2>2, <2>4 DEF NewTimestampI64
  <2> QED
    BY <1>1, <1>2, <2>5, u = NewTimestampI64(ToInt64(t)) DEF Stamp
<1>3. CASE l >= 0
  <2>1. ToInt64(t) = h * W + l
    BY <1>1, <1>3 DEF ToInt64
  <2>2. (h * W + l) \div W = h /\ (h * W + l) % W = l
    <3>1. W \in Nat \ {0} /\ l \in 0 .. W - 1
      BY <1>1, <1>3
    <3> HIDE DEF W, h, l
    <3> QED
      BY <1>1, <3>1, DivisionIsUnique
  <2>3. (l + WrapAt) % W = l + WrapAt
    BY <1>1, <1>3
  <2>4. ToInt16(l) = l
    BY <1>1, <2>3 DEF ToInt16
  <2>5. u = [physical |-> h, logical |-> l]
    BY <2>1, <2>2, <2>4 DEF NewTimestampI64
  <2> QED
    BY <1>1, <1>3, <2>5 DEF Stamp
<1> QED
  BY <1>1, <1>2, <1>3

\* HLC.Now is later than the clock it is taken from, and no physical clock is
\* overtaken.
LEMMA NowFacts ==
  ASSUME NEW m \in Nat, NEW c \in Stamp, c.physical <= m, NEW pt \in 0 .. m
  PROVE  /\ Now(c, pt) \in Stamp /\ Now(c, pt).physical <= m
         /\ Before(c, Now(c, pt)) \/ Now(c, pt).logical = -WrapAt
<1>1. c \in [physical : Int, logical : Logical] /\ c.physical \in Nat /\ c.logical \in Int
  BY DEF Stamp, Logical
<1>2. CASE c.physical >= pt
  <2>1. Now(c, pt) = IncrementLogical(c)
    BY <1>2 DEF Now
  <2> QED
    BY <1>1, <2>1, IncrementFacts DEF Before, Stamp
<1>3. CASE c.physical < pt
  <2>1. Now(c, pt) = [physical |-> pt, logical |-> 0]
    BY <1>1, <1>3 DEF Now, Reset
  <2> QED
    BY <1>1, <1>3, <2>1, HybridClockAssumption DEF Before, Stamp, Logical
<1> QED
  BY <1>1, <1>2, <1>3

\* HLC.Update is later than the clock and than the timestamp it meets, and no
\* physical clock is overtaken.
LEMMA UpdateFacts ==
  ASSUME NEW m \in Nat, NEW c \in Stamp, c.physical <= m, NEW pt \in 0 .. m,
         NEW t \in [physical : Int, logical : Logical], t.physical <= m
  PROVE  /\ Update(c, pt, t) \in Stamp /\ Update(c, pt, t).physical <= m
         /\ Before(c, Update(c, pt, t)) \/ Update(c, pt, t).logical = -WrapAt
         /\ Before(t, Update(c, pt, t)) \/ Update(c, pt, t).logical = -WrapAt
<1> DEFINE u == Update(c, pt, t)
           later == IF t.logical > c.logical THEN t ELSE c
<1>1. /\ c \in [physical : Int, logical : Logical] /\ c.physical \in Nat /\ c.logical \in Int
      /\ t.physical \in Int /\ t.logical \in Int
  BY DEF Stamp, Logical
<1>2. CASE pt > c.physical /\ pt > t.physical
  <2>1. u = [physical |-> pt, logical |-> 0]
    BY <1>2 DEF Update, Reset
  <2> QED
    BY <1>1, <1>2, <2>1, HybridClockAssumption DEF Before, Stamp, Logical
<1>3. CASE ~(pt > c.physical /\ pt > t.physical) /\ t.physical > c.physical
  <2>1. u = IncrementLogical(t)
    BY <1>3 DEF Update
  <2> QED
    BY <1>1, <1>3, <2>1, IncrementFacts DEF Before, Stamp
<1>4. CASE ~(pt > c.physical /\ pt > t.physical) /\ c.physical > t.physical
  <2>1. u = IncrementLogical(c)
    BY <1>1, <1>4 DEF Update
  <2> QED
    BY <1>1, <1>4, <2>1, IncrementFacts DEF Before, Stamp
<1>5. CASE ~(pt > c.physical /\ pt > t.physical) /\ c.physical = t.physical
  <2>1. u = IncrementLogical(later)
    BY <1>1, <1>5 DEF Update
  <2>2. /\ later \in [physical : Int, logical : Logical] /\ later.physical = c.physical
        /\ later.logical \in Int /\ later.logical >= c.logical /\ later.logical >= t.logical
    BY <1>1, <1>5
  <2> HIDE DEF later, u
  <2>3. u \in [physical : Int, logical : Logical] /\ u.physical = c.physical
        /\ (u.logical = later.logical + 1 \/ u.logical = -WrapAt)
    BY <2>1, <2>2, IncrementFacts
  <2>4. u \in Stamp /\ u.physical <= m
    BY <1>1, <2>3 DEF Stamp
  <2>5. (Before(c, u) /\ Before(t, u)) \/ u.logical = -WrapAt
    BY <1>1, <1>5, <2>2, <2>3 DEF Before
  <2> QED
    BY <2>4, <2>5 DEF u
<1> QED
  BY <1>1, <1>2, <1>3, <1>4, <1>5

\* What a receiver makes of a message (node.recv).
LEMMA ReceiptFacts ==
  ASSUME ClockInv, NEW p \in Process, NEW m \in flying
  PROVE  LET u == Update(clock[p], wall[p], NewTimestampI64(m.packed))
         IN  /\ u \in Stamp /\ u.physical <= latest
             /\ Before(clock[p], u) \/ u.logical = -WrapAt
             /\ Before(m.sent, u) \/ u.logical = -WrapAt \/ m.sent.logical < 0
<1> DEFINE t == NewTimestampI64(m.packed)
<1>1. /\ latest \in Nat /\ clock[p] \in Stamp /\ clock[p].physical <= latest
      /\ wall[p] \in 0 .. latest /\ m.sent \in Stamp /\ m.sent.physical \in 0 .. latest
      /\ m.packed = ToInt64(m.sent)
  BY DEF ClockInv
<1>2. t \in [physical : Int, logical : Logical] /\ (m.sent.logical >= 0 => t = m.sent)
      /\ (m.sent.logical < 0 => t.physical = -1) /\ m.sent.logical \in Int
  BY <1>1, Unpacked DEF Stamp, Logical
<1>3. t.physical <= latest
  BY <1>1, <1>2
<1> HIDE DEF t
<1>4. t = NewTimestampI64(m.packed)
  BY DEF t
<1>5. LET u == Update(clock[p], wall[p], t)
      IN  /\ u \in Stamp /\ u.physical <= latest
          /\ Before(clock[p], u) \/ u.logical = -WrapAt
          /\ Before(t, u) \/ u.logical = -WrapAt
  BY <1>1, <1>2, <1>3, UpdateFacts
<1> QED
  BY <1>1, <1>2, <1>4, <1>5

\* What a sender stamps its message with (socket.Send).
LEMMA SendFacts ==
  ASSUME ClockInv, NEW p \in Process
  PROVE  LET u == Now(clock[p], wall[p])
         IN  /\ u \in Stamp /\ u.physical <= latest
             /\ Before(clock[p], u) \/ u.logical = -WrapAt
<1>1. /\ latest \in Nat /\ wall[p] \in 0 .. latest /\ clock[p] \in Stamp
      /\ clock[p].physical <= latest
  BY DEF ClockInv
<1> QED
  BY <1>1, NowFacts

\* Sending, receiving and setting a physical clock keep ClockInv.
LEMMA ClockStep ==
  ASSUME ClockInv, ClockNext \/ UNCHANGED clockVars
  PROVE  ClockInv'
<1>1. ASSUME NEW p \in Process, SendStamped(p) PROVE ClockInv'
  <2> DEFINE u == Now(clock[p], wall[p])
  <2>1. u \in Stamp /\ u.physical \in 0 .. latest
    BY SendFacts DEF Stamp, ClockInv
  <2>2. /\ flying' = flying \cup {[packed |-> ToInt64(u), sent |-> u]}
        /\ clock' = [clock EXCEPT ![p] = u] /\ wall' = wall /\ latest' = latest
    BY <1>1 DEF SendStamped
  <2> HIDE DEF u
  <2>3. clock' \in [Process -> Stamp] /\ \A q \in Process : clock'[q].physical \in 0 .. latest
    BY <2>1, <2>2 DEF ClockInv
  <2>4. \A m \in flying' : /\ m.sent \in Stamp /\ m.sent.physical \in 0 .. latest
                           /\ m.packed = ToInt64(m.sent)
    BY <2>1, <2>2 DEF ClockInv
  <2> QED
    BY <2>2, <2>3, <2>4 DEF ClockInv
<1>2. ASSUME NEW p \in Process, NEW m \in flying, ReceiveStamped(p, m) PROVE ClockInv'
  <2> DEFINE u == Update(clock[p], wall[p], NewTimestampI64(m.packed))
  <2>1. u \in Stamp /\ u.physical \in 0 .. latest
    BY ReceiptFacts DEF Stamp, ClockInv
  <2>2. /\ flying' = flying \ {m} /\ clock' = [clock EXCEPT ![p] = u]
        /\ wall' = wall /\ latest' = latest
    BY <1>2 DEF ReceiveStamped
  <2> HIDE DEF u
  <2> QED
    BY <2>1, <2>2 DEF ClockInv
<1>3. ASSUME NEW p \in Process, NEW t \in 0 .. MaxTime, SetWall(p, t) PROVE ClockInv'
  <2>1. /\ wall' = [wall EXCEPT ![p] = t] /\ latest' = IF t > latest THEN t ELSE latest
        /\ clock' = clock /\ flying' = flying
    BY <1>3 DEF SetWall
  <2>2. latest' \in Nat /\ latest <= latest' /\ t \in 0 .. latest' /\ latest \in Nat
    BY <2>1, HybridClockAssumption DEF ClockInv
  <2>3. 0 .. latest \subseteq 0 .. latest'
    BY <2>2
  <2> QED
    BY <2>1, <2>2, <2>3 DEF ClockInv
<1>4. CASE UNCHANGED clockVars
  BY <1>4 DEF clockVars, ClockInv
<1> QED
  BY <1>1, <1>2, <1>3, <1>4 DEF ClockNext

\* The clocks start at zero.
LEMMA ClockStart == ClockInit => ClockInv
BY HybridClockAssumption DEF ClockInit, ClockInv, Reset, Stamp, Logical

\* ClockInv says more than NotAhead.
LEMMA ClockInvNotAhead == ClockInv => NotAhead
BY DEF ClockInv, NotAhead

\* A step of the clocks respects the order of events.
LEMMA StepsHappenBefore ==
  ASSUME ClockInv, NEW p \in Process
  PROVE  /\ SendStamped(p) => Before(clock[p], clock'[p]) \/ Wrapped(p)
         /\ \A m \in flying : ReceiveStamped(p, m) =>
              /\ Before(clock[p], clock'[p]) \/ Wrapped(p)
              /\ Before(m.sent, clock'[p]) \/ Wrapped(p) \/ m.sent.logical < 0
<1>1. ASSUME SendStamped(p) PROVE Before(clock[p], clock'[p]) \/ Wrapped(p)
  <2>1. clock'[p] = Now(clock[p], wall[p])
    BY <1>1 DEF SendStamped, ClockInv
  <2> QED
    BY <2>1, SendFacts DEF Wrapped
<1>2. ASSUME NEW m \in flying, ReceiveStamped(p, m)
      PROVE  /\ Before(clock[p], clock'[p]) \/ Wrapped(p)
             /\ Before(m.sent, clock'[p]) \/ Wrapped(p) \/ m.sent.logical < 0
  <2>1. clock'[p] = Update(clock[p], wall[p], NewTimestampI64(m.packed))
    BY <1>2 DEF ReceiveStamped, ClockInv
  <2> QED
    BY <2>1, ReceiptFacts DEF Wrapped
<1> QED
  BY <1>1, <1>2
-----------------------------------------------------------------------------
\* The nodes of zone z whose acknowledgement q holds.
AcksIn(q, z) == {v \in q.acks : zoneOf[v] = z}

\* A quorum counts what it holds (Quorum.ACK).
QuorumOK(q) ==
  /\ q \in [size : Nat, acks : SUBSET Voter, zones : [ZoneIds -> Nat]]
  /\ q.size = Cardinality(q.acks)
  /\ \A z \in ZoneIds : q.zones[z] = Cardinality(AcksIn(q, z))

QuorumsInv ==
  /\ zoneOf \in Layouts
  /\ DOMAIN quorum = {1, 2}
  /\ \A k \in {1, 2} : QuorumOK(quorum[k])

\* The layout is that of a finite cluster.
LEMMA LayoutFacts ==
  ASSUME zoneOf \in Layouts
  PROVE  /\ IsFiniteSet(Voter) /\ NumVoters \in Nat /\ NumVoters >= 3
         /\ IsFiniteSet(ZoneIds) /\ Cardinality(ZoneIds) \in Nat
<1>1. IsFiniteSet(Voter) /\ NumVoters >= 3
  BY LayoutsAssumption DEF Voter, NumVoters
<1>2. NumVoters \in Nat
  BY <1>1, FS_CardinalityType DEF NumVoters
<1> DEFINE f == [v \in Voter |-> zoneOf[v]]
<1>3. f \in Surjection(Voter, ZoneIds)
  BY DEF ZoneIds, Surjection
<1>4. IsFiniteSet(ZoneIds)
  BY <1>1, <1>3, FS_Surjection
<1> QED
  BY <1>1, <1>2, <1>4, FS_CardinalityType

\* The acknowledgements of a quorum, and those of one zone, are finite sets.
LEMMA AcksAreFinite ==
  ASSUME zoneOf \in Layouts, NEW q, QuorumOK(q), NEW z \in ZoneIds
  PROVE  /\ q.acks \subseteq Voter /\ IsFiniteSet(q.acks)
         /\ AcksIn(q, z) \subseteq {v \in Voter : zoneOf[v] = z}
         /\ IsFiniteSet(AcksIn(q, z)) /\ IsFiniteSet({v \in Voter : zoneOf[v] = z})
         /\ npz(z) \in Nat
<1>1. q.acks \subseteq Voter /\ AcksIn(q, z) \subseteq {v \in Voter : zoneOf[v] = z}
  BY DEF QuorumOK, AcksIn
<1>2. IsFiniteSet(Voter) /\ {v \in Voter : zoneOf[v] = z} \subseteq Voter /\ AcksIn(q, z) \subseteq Voter
  BY <1>1, LayoutFacts
<1>3. IsFiniteSet(q.acks) /\ IsFiniteSet(AcksIn(q, z)) /\ IsFiniteSet({v \in Voter : zoneOf[v] = z})
  BY <1>1, <1>2, FS_Subset
<1> QED
  BY <1>1, <1>3, FS_CardinalityType DEF npz

\* A new quorum holds nothing.
LEMMA NewQuorumOK == QuorumOK(NewQuorum)
<1>1. ASSUME NEW z \in ZoneIds PROVE AcksIn(NewQuorum, z) = {}
  BY DEF AcksIn, NewQuorum
<1> QED
  BY <1>1, FS_EmptySet DEF QuorumOK, NewQuorum

\* A vote is counted once, for its node and for its zone.
LEMMA AckOK ==
  ASSUME zoneOf \in Layouts, NEW q, QuorumOK(q), NEW v \in Voter
  PROVE  QuorumOK(ACK(q, v))
<1> SUFFICES ASSUME v \notin q.acks PROVE QuorumOK(ACK(q, v))
  BY DEF ACK
<1> DEFINE t == ACK(q, v)
           y == zoneOf[v]
<1>1. y \in ZoneIds
  BY DEF ZoneIds
<1>2. /\ t.size = q.size + 1 /\ t.acks = q.acks \cup {v}
      /\ t.zones = [q.zones EXCEPT ![y] = @ + 1]
      /\ t = [size |-> t.size, acks |-> t.acks, zones |-> t.zones]
  BY DEF ACK
<1>3. t \in [size : Nat, acks : SUBSET Voter, zones : [ZoneIds -> Nat]]
  <2>1. /\ t.size \in Nat /\ t.acks \in SUBSET Voter /\ t.zones \in [ZoneIds -> Nat]
    BY <1>1, <1>2 DEF QuorumOK
  <2> HIDE DEF t
  <2> QED
    BY <1>2, <2>1
<1>4. t.size = Cardinality(t.acks)
  <2>1. IsFiniteSet(q.acks)
    BY <1>1, AcksAreFinite
  <2>2. Cardinality(q.acks \cup {v}) = Cardinality(q.acks) + 1
    BY <2>1, FS_AddElement
  <2>3. q.size = Cardinality(q.acks)
    BY DEF QuorumOK
  <2> QED
    BY <1>2, <2>2, <2>3
<1>5. ASSUME NEW z \in ZoneIds PROVE t.zones[z] = Cardinality(AcksIn(t, z))
  <2>1. AcksIn(t, z) = IF z = y THEN AcksIn(q, z) \cup {v} ELSE AcksIn(q, z)
    BY <1>2 DEF AcksIn
  <2>2. t.zones[z] = IF z = y THEN q.zones[z] + 1 ELSE q.zones[z]
    BY <1>2 DEF QuorumOK
  <2>3. v \notin AcksIn(q, z)
    BY DEF AcksIn
  <2>4. Cardinality(AcksIn(q, z) \cup {v}) = Cardinality(AcksIn(q, z)) + 1
    BY <2>3, AcksAreFinite, FS_AddElement
  <2> QED
    BY <2>1, <2>2, <2>4 DEF QuorumOK
<1> QED
  BY <1>3, <1>4, <1>5 DEF QuorumOK

\* Two counts that exceed a set together share an element of it.
LEMMA ZonesShareNode ==
  ASSUME zoneOf \in Layouts, NEW p, QuorumOK(p), NEW q, QuorumOK(q), NEW z \in ZoneIds,
         p.zones[z] + q.zones[z] > npz(z)
  PROVE  p.acks \cap q.acks # {}
<1> DEFINE U == {v \in Voter : zoneOf[v] = z}
<1>1. AcksIn(p, z) \cap AcksIn(q, z) # {}
  <2>1. IsFiniteSet(U) /\ AcksIn(p, z) \subseteq U /\ AcksIn(q, z) \subseteq U
    BY AcksAreFinite
  <2>2. Cardinality(AcksIn(p, z)) + Cardinality(AcksIn(q, z)) > Cardinality(U)
    BY DEF QuorumOK, npz
  <2> HIDE DEF U
  <2> QED
    BY <2>1, <2>2, FS_MajoritiesIntersect
<1> QED
  BY <1>1 DEF AcksIn

\* Two quorums of one system share a node.
LEMMA QuorumsShareNode ==
  ASSUME zoneOf \in Layouts, NEW p, QuorumOK(p), NEW q, QuorumOK(q), BothSatisfied(p, q)
  PROVE  p.acks \cap q.acks # {}
<1> USE LayoutFacts
<1>1. /\ p.size \in Nat /\ p.acks \subseteq Voter /\ p.size = Cardinality(p.acks)
      /\ q.size \in Nat /\ q.acks \subseteq Voter /\ q.size = Cardinality(q.acks)
  BY DEF QuorumOK
<1>2. CASE p.size + q.size > NumVoters
  BY <1>1, <1>2, FS_MajoritiesIntersect DEF NumVoters
<1>3. CASE Majority(p) /\ (Majority(q) \/ FastQuorum(q))
  BY <1>1, <1>2, <1>3 DEF Majority, FastQuorum
<1>4. CASE FastQuorum(p) /\ FastQuorum(q)
  BY <1>1, <1>2, <1>4 DEF FastQuorum
<1>5. CASE GridRow(p) /\ GridColumn(q)
  <2>1. PICK z \in ZoneIds : q.zones[z] = npz(z)
    BY <1>5 DEF GridColumn
  <2>2. p.zones[z] > 0 /\ p.zones[z] \in Nat /\ q.zones[z] \in Nat
    BY <1>5 DEF GridRow, QuorumOK
  <2> QED
    BY <2>1, <2>2, ZonesShareNode
<1>6. CASE \E Fz \in 0 .. Cardinality(ZoneIds) - 1 : FGridQ1(p, Fz) /\ FGridQ2(q, Fz)
  <2> DEFINE Z(x) == {z \in ZoneIds : x.zones[z] > npz(z) \div 2}
  <2>1. PICK Fz \in 0 .. Cardinality(ZoneIds) - 1 :
          Cardinality(Z(p)) >= Cardinality(ZoneIds) - Fz /\ Cardinality(Z(q)) >= Fz + 1
    BY <1>6 DEF FGridQ1, FGridQ2, MajorityZones
  <2>2. Cardinality(Z(p)) \in Nat /\ Cardinality(Z(q)) \in Nat
    BY FS_Subset, FS_CardinalityType, Z(p) \subseteq ZoneIds, Z(q) \subseteq ZoneIds
  <2>3. Z(p) \cap Z(q) # {}
    BY <2>1, <2>2, FS_MajoritiesIntersect
  <2>4. PICK z \in ZoneIds : p.zones[z] > npz(z) \div 2 /\ q.zones[z] > npz(z) \div 2
    BY <2>3
  <2>5. npz(z) \in Nat /\ p.zones[z] \in Nat /\ q.zones[z] \in Nat
    BY AcksAreFinite DEF QuorumOK
  <2>6. p.zones[z] + q.zones[z] > npz(z)
    BY <2>4, <2>5
  <2> QED
    BY <2>6, ZonesShareNode
<1> QED
  BY <1>3, <1>4, <1>5, <1>6 DEF BothSatisfied

\* Votes and retries keep it.
LEMMA QuorumsStep ==
  ASSUME QuorumsInv, QuorumsNext \/ UNCHANGED quorumVars
  PROVE  QuorumsInv'
<1>1. zoneOf' = zoneOf
  BY DEF QuorumsNext, Vote, ResetQuorum, quorumVars
<1>2. DOMAIN quorum' = {1, 2} /\ \A k \in {1, 2} : QuorumOK(quorum'[k])
  <2>1. CASE Vote
    <3>1. PICK i \in {1, 2}, v \in Voter : quorum' = [quorum EXCEPT ![i] = ACK(@, v)]
      BY <2>1 DEF Vote
    <3>2. QuorumOK(quorum[i]) /\ QuorumOK(ACK(quorum[i], v))
      BY AckOK DEF QuorumsInv
    <3> QED
      BY <3>1, <3>2 DEF QuorumsInv
  <2>2. CASE ResetQuorum
    BY <2>2, NewQuorumOK DEF ResetQuorum, QuorumsInv
  <2>3. CASE UNCHANGED quorumVars
    BY <2>3 DEF quorumVars, QuorumsInv
  <2> QED
    BY <2>1, <2>2, <2>3 DEF QuorumsNext
<1> QED
  BY <1>1, <1>2 DEF QuorumsInv, QuorumOK, AcksIn, Voter, ZoneIds

\* It holds of new quorums.
LEMMA QuorumsStart ==
  ASSUME NEW layouts \in SUBSET Layouts, QuorumsInit(layouts)
  PROVE  QuorumsInv
BY NewQuorumOK DEF QuorumsInit, QuorumsInv

\* QuorumsInv says more than QuorumsMeet.
LEMMA QuorumsInvMeet == QuorumsInv => QuorumsMeet
BY QuorumsShareNode DEF QuorumsInv, QuorumsMeet
-----------------------------------------------------------------------------
\* How many nodes a group takes before it is the next one's turn: one, if there
\* are more groups than nodes.
Turn == IF Share = 0 THEN 1 ELSE Share

\* peersToGroups by zone: a group is what has been placed of its zone.
FilledByZone ==
  cluster.rpg => \A i \in 1 .. NumGroups : group[i] = {n \in 1 .. placed : cluster.zone[n] = i}

\* Groups before group num have their share, and groups after it have nobody.
FullBefore(groups, num, share, number) ==
  \A i \in 1 .. number : i < num => Cardinality(groups[i]) = share
EmptyAfter(groups, num, number) ==
  \A i \in 1 .. number : i > num => groups[i] = {}

\* How many nodes the groups before group num have taken.
TakenBefore(num, share) == (num - 1) * share

\* Groups that are full, the one that is being filled, empty ones; count nodes
\* in all.
InTurn(groups, num, count, share, number) ==
  /\ num \in 1 .. number
  /\ FullBefore(groups, num, share, number)
  /\ EmptyAfter(groups, num, number)
  /\ Cardinality(groups[num]) = count - TakenBefore(num, share)
  /\ num < number => Cardinality(groups[num]) < share

\* peersToGroups in turn: every group but the last takes its share.
FilledInTurn ==
  ~cluster.rpg /\ NumGroups > 0 => InTurn(group, pgNum, placed, Turn, NumGroups)

\* The replica finds itself in its own group, once it has been placed.
OwnGroup ==
  /\ cluster.rpg => own = cluster.zone[self]
  /\ ~cluster.rpg /\ self <= placed => own \in 1 .. NumGroups /\ self \in group[own]

Filling ==
  /\ placed \in 0 .. Cardinality(Nodes)
  /\ group \in [1 .. NumGroups -> SUBSET (1 .. placed)]
  /\ UNION Range(group) = 1 .. placed
  /\ \A i, j \in 1 .. NumGroups : i # j => group[i] \cap group[j] = {}
  /\ FilledByZone
  /\ FilledInTurn

\* A replica that has started has placed all nodes, and its flags fit.
Started ==
  /\ stage \in {"starting", "started", "drawing", "crashed"}
  /\ StartsIfFlagsFit
  /\ stage \in {"started", "drawing"} => placed = Cardinality(Nodes)

GroupsInv ==
  /\ cluster \in Clusters
  /\ self \in Nodes
  /\ Filling
  /\ OwnGroup
  /\ Started

\* Division with rest.
LEMMA DivisionFacts ==
  ASSUME NEW b \in Nat, NEW w \in Nat \ {0}
  PROVE  b \div w \in Nat /\ b % w \in 0 .. w - 1 /\ b = w * (b \div w) + (b % w)
<1>1. b \div w \in Nat
  OBVIOUS
<1>2. b % w \in 0 .. w - 1
  OBVIOUS
<1>3. b = w * (b \div w) + (b % w)
  OBVIOUS
<1> QED
  BY <1>1, <1>2, <1>3

\* A cluster has nodes 1 to their number.
LEMMA ClusterFacts ==
  ASSUME cluster \in Clusters
  PROVE  /\ Cardinality(Nodes) \in Nat \ {0}
         /\ Nodes = 1 .. Cardinality(Nodes) /\ IsFiniteSet(Nodes)
         /\ NumGroups \in Nat /\ cluster.rpg \in BOOLEAN
         /\ \A n \in Nodes : cluster.zone[n] \in Range(cluster.zone)
<1> DEFINE zone == cluster.zone
           k == Len(zone)
<1>1. zone \in Seq(Nat) /\ zone # <<>> /\ cluster.pg \in Nat /\ cluster.rpg \in BOOLEAN
  BY ClustersAssumption
<1>2. k \in Nat \ {0} /\ DOMAIN zone = 1 .. k
  BY <1>1
<1>3. IsFiniteSet(Nodes) /\ Cardinality(Nodes) = k
  BY <1>2, FS_Interval DEF Nodes
<1>4. Nodes = 1 .. Cardinality(Nodes)
  BY <1>2, <1>3 DEF Nodes
<1>5. IsFiniteSet(Range(zone))
  <2> DEFINE f == [n \in Nodes |-> zone[n]]
  <2>1. f \in Surjection(Nodes, Range(zone))
    BY DEF Surjection, Range, Nodes
  <2> QED
    BY <1>3, <2>1, FS_Surjection
<1>6. NumGroups \in Nat
  BY <1>1, <1>5, FS_CardinalityType DEF NumGroups
<1>7. \A n \in Nodes : zone[n] \in Range(zone)
  BY DEF Range, Nodes
<1> QED
  BY <1>1, <1>2, <1>3, <1>4, <1>6, <1>7

\* Products of natural numbers are monotone.
LEMMA TimesMonotone ==
  ASSUME NEW a \in Nat, NEW b \in Nat, NEW c \in Nat, a <= b
  PROVE  a * c <= b * c /\ a * c \in Nat /\ b * c \in Nat
<1>1. b - a \in Nat /\ b * c = a * c + (b - a) * c
  OBVIOUS
<1>2. (b - a) * c \in Nat
  BY <1>1
<1>3. a * c \in Nat /\ b * c \in Nat
  OBVIOUS
<1> QED
  BY <1>1, <1>2, <1>3

\* The shares of all groups are no more than the nodes there are; there is a
\* node for each group just if the share is not zero.
LEMMA ShareFacts ==
  ASSUME cluster \in Clusters, NumGroups > 0
  PROVE  /\ Share \in Nat /\ Turn \in Nat \ {0}
         /\ NumGroups <= Cardinality(Nodes) <=> Share > 0
         /\ \A i \in 1 .. NumGroups : i * Share <= Cardinality(Nodes)
<1> DEFINE L == Cardinality(Nodes)
           g == NumGroups
<1>1. L \in Nat \ {0} /\ g \in Nat \ {0}
  BY ClusterFacts
<1>2. Share = L \div g
  BY DEF Share
<1> HIDE DEF L, g
<1> DEFINE k == L \div g
           rest == L % g
<1>3. k \in Nat /\ rest \in 0 .. g - 1 /\ L = g * k + rest
  BY <1>1, DivisionFacts
<1> HIDE DEF k, rest
<1>4. ASSUME k > 0 PROVE g <= L
  <2>1. 1 * g <= k * g /\ k * g = g * k /\ g * k \in Nat
    BY <1>1, <1>3, <1>4, TimesMonotone
  <2> QED
    BY <1>1, <1>3, <2>1
<1>5. ASSUME k = 0 PROVE ~(g <= L)
  <2>1. g * k = 0
    BY <1>1, <1>5
  <2> QED
    BY <1>1, <1>3, <2>1
<1>6. ASSUME NEW i \in 1 .. g PROVE i * k <= L
  <2>1. i * k <= g * k /\ i * k \in Nat /\ g * k \in Nat
    BY <1>1, <1>3, TimesMonotone
  <2> QED
    BY <1>1, <1>3, <2>1
<1>7. Share = k
  BY <1>2 DEF k
<1>8. Turn \in Nat \ {0}
  BY <1>3, <1>7 DEF Turn
<1>9. g <= L <=> k > 0
  BY <1>3, <1>4, <1>5
<1> QED
  BY <1>3, <1>6, <1>7, <1>8, <1>9 DEF L, g

\* When all nodes are placed in turn and there is one for each group, the last
\* group has been reached, and all but the last have their share.
LEMMA TurnsEnd ==
  ASSUME cluster \in Clusters, FilledInTurn, ~cluster.rpg, NumGroups > 0,
         placed = Cardinality(Nodes), NumGroups <= Cardinality(Nodes)
  PROVE  \A i \in 1 .. NumGroups :
           /\ Cardinality(group[i]) = IF i < NumGroups THEN Share
                                      ELSE Cardinality(Nodes) - (NumGroups - 1) * Share
           /\ Cardinality(group[i]) >= Share
<1> DEFINE L == Cardinality(Nodes)
<1>1. L \in Nat \ {0} /\ NumGroups \in Nat \ {0}
  BY ClusterFacts
<1>2. Share \in Nat /\ Share > 0 /\ Turn = Share
  BY ShareFacts DEF Turn
<1>3. /\ pgNum \in 1 .. NumGroups
      /\ \A i \in 1 .. NumGroups : i < pgNum => Cardinality(group[i]) = Share
      /\ Cardinality(group[pgNum]) = L - (pgNum - 1) * Share
      /\ (pgNum < NumGroups => Cardinality(group[pgNum]) < Share)
  BY <1>2 DEF FilledInTurn, InTurn, FullBefore, TakenBefore
<1>4. pgNum * Share <= L /\ pgNum * Share \in Nat /\ pgNum \in Nat
  <2>1. pgNum * Share <= L
    BY <1>3, ShareFacts
  <2>2. pgNum \in Nat
    BY <1>1, <1>3
  <2> QED
    BY <1>2, <2>1, <2>2
<1>5. (pgNum - 1) * Share = pgNum * Share - Share
  BY <1>2, <1>4
<1>6. Cardinality(group[pgNum]) >= Share
  BY <1>1, <1>2, <1>3, <1>4, <1>5
<1>7. pgNum = NumGroups
  BY <1>1, <1>2, <1>3, <1>6
<1> QED
  BY <1>1, <1>2, <1>3, <1>6, <1>7

\* The partition follows.
LEMMA GroupsInvPartition == GroupsInv => GroupsPartition
<1> SUFFICES ASSUME GroupsInv, stage \in {"started", "drawing"} PROVE GroupsPartition
  BY DEF GroupsPartition
<1>1. placed = Cardinality(Nodes) /\ FlagsFit
  BY DEF GroupsInv, Started, StartsIfFlagsFit
<1>2. UNION Range(group) = Nodes
  BY <1>1, ClusterFacts DEF GroupsInv, Filling
<1>3. DOMAIN group = 1 .. NumGroups
  BY DEF GroupsInv, Filling
<1>4. self \in 1 .. placed /\ self <= placed
  BY <1>1, ClusterFacts DEF GroupsInv
<1>5. own \in 1 .. NumGroups /\ self \in group[own]
  <2>1. CASE cluster.rpg
    <3>1. own = cluster.zone[self] /\ own \in Range(cluster.zone)
      BY <2>1, ClusterFacts DEF GroupsInv, OwnGroup
    <3>2. own \in 1 .. NumGroups
      BY <1>1, <2>1, <3>1 DEF FlagsFit
    <3> QED
      BY <1>4, <2>1, <3>1, <3>2 DEF GroupsInv, Filling, FilledByZone
  <2>2. CASE ~cluster.rpg
    BY <1>4, <2>2 DEF GroupsInv, OwnGroup
  <2> QED
    BY <2>1, <2>2
<1>6. ASSUME ~cluster.rpg, NEW i \in 1 .. NumGroups
      PROVE  Cardinality(group[i]) = IF i < NumGroups THEN Share
                                     ELSE Cardinality(Nodes) - (NumGroups - 1) * Share
  <2>1. NumGroups > 0 /\ NumGroups <= Cardinality(Nodes)
    BY <1>1, <1>6, ClusterFacts DEF FlagsFit, GroupsInv
  <2> QED
    BY <1>1, <1>6, <2>1, TurnsEnd DEF GroupsInv, Filling
<1> QED
  BY <1>2, <1>3, <1>5, <1>6 DEF GroupsPartition, GroupsInv, Filling

\* A node that is placed joins one group and leaves the others as they are.
LEMMA PlacedInOneGroup ==
  ASSUME GroupsInv, placed < Cardinality(Nodes), NEW j \in 1 .. NumGroups, NEW g,
         DOMAIN g = 1 .. NumGroups,
         \A i \in 1 .. NumGroups : g[i] = IF i = j THEN group[i] \cup {placed + 1} ELSE group[i]
  PROVE  /\ \A i \in 1 .. NumGroups : g[i] \subseteq 1 .. placed + 1
         /\ UNION Range(g) = 1 .. placed + 1
         /\ \A i, k \in 1 .. NumGroups : i # k => g[i] \cap g[k] = {}
<1> DEFINE n == placed + 1
<1>1. /\ placed \in Nat /\ NumGroups \in Nat
      /\ group \in [1 .. NumGroups -> SUBSET (1 .. placed)] /\ UNION Range(group) = 1 .. placed
      /\ \A i, k \in 1 .. NumGroups : i # k => group[i] \cap group[k] = {}
  BY ClusterFacts DEF GroupsInv, Filling
<1>2. 1 .. n = 1 .. placed \cup {n} /\ n \notin 1 .. placed
  BY <1>1
<1> HIDE DEF n
<1>3. \A i \in 1 .. NumGroups : g[i] = IF i = j THEN group[i] \cup {n} ELSE group[i]
  BY DEF n
<1>4. \A i \in 1 .. NumGroups : g[i] \subseteq 1 .. n /\ n \notin group[i]
  BY <1>1, <1>2, <1>3
<1>5. UNION Range(g) = 1 .. n
  <2>1. \A x : x \in UNION Range(g) <=> \E i \in 1 .. NumGroups : x \in g[i]
    BY DEF Range
  <2>2. \A x : x \in 1 .. placed <=> \E i \in 1 .. NumGroups : x \in group[i]
    BY <1>1 DEF Range
  <2>3. n \in g[j]
    BY <1>3
  <2>4. \A i \in 1 .. NumGroups : group[i] \subseteq g[i]
    BY <1>3
  <2>5. ASSUME NEW x \in 1 .. n PROVE \E i \in 1 .. NumGroups : x \in g[i]
    BY <1>2, <2>2, <2>3, <2>4
  <2>6. ASSUME NEW i \in 1 .. NumGroups, NEW x \in g[i] PROVE x \in 1 .. n
    BY <1>4
  <2> QED
    BY <2>1, <2>5, <2>6
<1>6. \A i, k \in 1 .. NumGroups : i # k => g[i] \cap g[k] = {}
  BY <1>1, <1>3, <1>4
<1> QED
  BY <1>4, <1>5, <1>6 DEF n

\* Placing by zone keeps FilledByZone.
LEMMA ZoneStep ==
  ASSUME GroupsInv, placed < Cardinality(Nodes), cluster.rpg,
         cluster.zone[placed + 1] \in 1 .. NumGroups,
         group' = [group EXCEPT ![cluster.zone[placed + 1]] = @ \cup {placed + 1}]
  PROVE  \A i \in 1 .. NumGroups : group'[i] = {n \in 1 .. placed + 1 : cluster.zone[n] = i}
<1> DEFINE n == placed + 1
<1>1. placed \in Nat /\ 1 .. n = 1 .. placed \cup {n}
  BY ClusterFacts DEF GroupsInv, Filling
<1>2. /\ group \in [1 .. NumGroups -> SUBSET (1 .. placed)]
      /\ \A i \in 1 .. NumGroups : group[i] = {m \in 1 .. placed : cluster.zone[m] = i}
  BY DEF GroupsInv, Filling, FilledByZone
<1> HIDE DEF n
<1>3. group' = [group EXCEPT ![cluster.zone[n]] = @ \cup {n}] /\ cluster.zone[n] \in 1 .. NumGroups
  BY DEF n
<1>4. ASSUME NEW i \in 1 .. NumGroups PROVE group'[i] = {m \in 1 .. n : cluster.zone[m] = i}
  <2>1. group'[i] = IF i = cluster.zone[n] THEN group[i] \cup {n} ELSE group[i]
    BY <1>2, <1>3
  <2>2. {m \in 1 .. n : cluster.zone[m] = i}
          = {m \in 1 .. placed : cluster.zone[m] = i}
              \cup IF i = cluster.zone[n] THEN {n} ELSE {}
    BY <1>1
  <2> QED
    BY <1>2, <2>1, <2>2
<1> QED
  BY <1>4 DEF n

\* Placing in turn keeps FilledInTurn.
LEMMA TurnStep ==
  ASSUME GroupsInv, placed < Cardinality(Nodes), ~cluster.rpg, NumGroups > 0,
         group' = [group EXCEPT ![pgNum] = @ \cup {placed + 1}],
         pgNum' = IF Cardinality(group[pgNum] \cup {placed + 1}) >= Turn /\ pgNum < NumGroups
                THEN pgNum + 1 ELSE pgNum
  PROVE  pgNum \in 1 .. NumGroups /\ InTurn(group', pgNum', placed + 1, Turn, NumGroups)
<1> DEFINE n == placed + 1
           c == Cardinality(group[pgNum])
<1>1. /\ NumGroups \in Nat \ {0} /\ placed \in Nat /\ pgNum \in 1 .. NumGroups
      /\ group \in [1 .. NumGroups -> SUBSET (1 .. placed)]
  BY ClusterFacts DEF GroupsInv, Filling, FilledInTurn, InTurn, FullBefore, EmptyAfter
<1>2. /\ \A i \in 1 .. NumGroups : i < pgNum => Cardinality(group[i]) = Turn
      /\ \A i \in 1 .. NumGroups : i > pgNum => group[i] = {}
      /\ c = placed - TakenBefore(pgNum, Turn)
      /\ (pgNum < NumGroups => c < Turn)
  BY DEF GroupsInv, Filling, FilledInTurn, InTurn, FullBefore, EmptyAfter
<1>3. Turn \in Nat /\ Turn > 0
  BY ShareFacts DEF GroupsInv
<1>4. c \in Nat /\ Cardinality(group[pgNum] \cup {n}) = c + 1
  <2>1. group[pgNum] \subseteq 1 .. placed /\ n \notin group[pgNum]
    BY <1>1
  <2>2. IsFiniteSet(group[pgNum])
    <3>1. IsFiniteSet(1 .. placed)
      BY <1>1, FS_Interval
    <3> QED
      BY <2>1, <3>1, FS_Subset
  <2> HIDE DEF n
  <2> QED
    BY <2>1, <2>2, FS_CardinalityType, FS_AddElement
<1>5. \A i \in 1 .. NumGroups : group'[i] = IF i = pgNum THEN group[i] \cup {n} ELSE group[i]
  BY <1>1
<1>6. /\ TakenBefore(pgNum + 1, Turn) = TakenBefore(pgNum, Turn) + Turn
      /\ TakenBefore(pgNum, Turn) \in Nat
  BY <1>1, <1>3 DEF TakenBefore
<1> HIDE DEF n, c
<1>7. CASE c + 1 >= Turn /\ pgNum < NumGroups
  <2>1. pgNum' = pgNum + 1 /\ pgNum' \in 1 .. NumGroups /\ pgNum' - 1 = pgNum
    BY <1>1, <1>4, <1>7 DEF n
  <2>2. c + 1 = Turn
    BY <1>2, <1>3, <1>4, <1>7
  <2>3. group'[pgNum'] = {} /\ Cardinality(group'[pgNum']) = 0
    <3>1. pgNum' > pgNum /\ pgNum' # pgNum
      BY <1>1, <2>1
    <3>2. group'[pgNum'] = {}
      BY <1>2, <1>5, <2>1, <3>1
    <3> QED
      BY <3>2, FS_EmptySet
  <2>4. (placed + 1) - TakenBefore(pgNum', Turn) = 0
    BY <1>1, <1>2, <1>3, <1>4, <1>6, <2>1, <2>2
  <2>5. FullBefore(group', pgNum', Turn, NumGroups)
    <3> SUFFICES ASSUME NEW i \in 1 .. NumGroups, i < pgNum'
                 PROVE  Cardinality(group'[i]) = Turn
      BY DEF FullBefore
    <3>1. i < pgNum \/ i = pgNum
      BY <1>1, <2>1
    <3> QED
      BY <1>1, <1>2, <1>4, <1>5, <2>2, <3>1
  <2>6. EmptyAfter(group', pgNum', NumGroups)
    BY <1>1, <1>2, <1>5, <2>1 DEF EmptyAfter
  <2>7. Cardinality(group'[pgNum']) = (placed + 1) - TakenBefore(pgNum', Turn)
    BY <2>3, <2>4
  <2>8. pgNum' < NumGroups => Cardinality(group'[pgNum']) < Turn
    BY <1>3, <2>3
  <2> QED
    BY <1>1, <2>1, <2>5, <2>6, <2>7, <2>8 DEF InTurn
<1>8. CASE ~(c + 1 >= Turn /\ pgNum < NumGroups)
  <2>1. pgNum' = pgNum
    BY <1>1, <1>4, <1>8 DEF n
  <2>2. Cardinality(group'[pgNum']) = c + 1
    BY <1>1, <1>4, <1>5, <2>1
  <2>3. c + 1 = (placed + 1) - TakenBefore(pgNum', Turn)
    BY <1>1, <1>2, <1>6, <2>1
  <2>4. pgNum' < NumGroups => c + 1 < Turn
    BY <1>1, <1>3, <1>4, <1>8, <2>1
  <2>5. FullBefore(group', pgNum', Turn, NumGroups)
    BY <1>1, <1>2, <1>5, <2>1 DEF FullBefore
  <2>9. EmptyAfter(group', pgNum', NumGroups)
    BY <1>1, <1>2, <1>5, <2>1 DEF EmptyAfter
  <2>6. Cardinality(group'[pgNum']) = (placed + 1) - TakenBefore(pgNum', Turn)
    BY <2>2, <2>3
  <2>7. pgNum' \in 1 .. NumGroups
    BY <1>1, <2>1
  <2>8. pgNum' < NumGroups => Cardinality(group'[pgNum']) < Turn
    BY <2>2, <2>4
  <2>10. InTurn(group', pgNum', placed + 1, Turn, NumGroups)
    BY <2>5, <2>6, <2>7, <2>8, <2>9 DEF InTurn
  <2> QED
    BY <1>1, <2>10
<1> QED
  BY <1>1, <1>7, <1>8

\* Placing a node keeps GroupsInv (peersToGroups, NewReplica).
LEMMA PlaceStep ==
  ASSUME GroupsInv, Place
  PROVE  GroupsInv'
<1> DEFINE n == placed + 1
           j == IF cluster.rpg THEN cluster.zone[n] ELSE pgNum
<1>1. /\ placed < Cardinality(Nodes) /\ placed' = n /\ CanPlace(n)
      /\ stage = "starting" /\ stage' = stage /\ cluster' = cluster /\ self' = self
  BY DEF Place
<1>2. Nodes' = Nodes /\ NumGroups' = NumGroups /\ Turn' = Turn
  BY <1>1 DEF Nodes, NumGroups, Share, Turn
<1>3. /\ Cardinality(Nodes) \in Nat /\ NumGroups \in Nat /\ cluster.rpg \in BOOLEAN
      /\ placed \in Nat /\ placed \in 0 .. Cardinality(Nodes)
      /\ group \in [1 .. NumGroups -> SUBSET (1 .. placed)]
  BY <1>1, ClusterFacts DEF GroupsInv, Filling
<1>4. group' = [group EXCEPT ![j] = @ \cup {n}]
  BY <1>1, <1>3 DEF Place, PlaceInZone, PlaceInTurn, JoinCurrent
<1>5. j \in 1 .. NumGroups /\ FilledByZone' /\ FilledInTurn'
  <2>1. CASE cluster.rpg
    <3>1. group' = [group EXCEPT ![cluster.zone[placed + 1]] = @ \cup {placed + 1}]
      BY <1>4, <2>1
    <3>2. cluster.zone[placed + 1] \in 1 .. NumGroups
      BY <1>1, <2>1 DEF CanPlace
    <3>3. \A i \in 1 .. NumGroups : group'[i] = {m \in 1 .. placed + 1 : cluster.zone[m] = i}
      BY <1>1, <2>1, <3>1, <3>2, ZoneStep
    <3> QED
      BY <1>1, <1>2, <2>1, <3>2, <3>3 DEF FilledByZone, FilledInTurn
  <2>2. CASE ~cluster.rpg
    <3>1. pgNum' = IF Cardinality(group[pgNum] \cup {placed + 1}) >= Share /\ pgNum < NumGroups
                   THEN pgNum + 1 ELSE pgNum
      BY <1>1, <2>2 DEF Place, PlaceInTurn
    <3>2. group' = [group EXCEPT ![pgNum] = @ \cup {placed + 1}]
      <4>1. j = pgNum
        BY <1>3, <2>2
      <4> HIDE DEF j
      <4> QED
        BY <1>4, <4>1
    <3>3. NumGroups > 0
      BY <1>1, <2>2 DEF CanPlace
    <3>4. pgNum \in 1 .. NumGroups /\ InTurn(group', pgNum', placed + 1, Turn, NumGroups)
      <4> DEFINE count == Cardinality(group[pgNum] \cup {placed + 1})
      <4>1. Share \in Nat
        BY <3>3, ShareFacts DEF GroupsInv
      <4>2. pgNum \in 1 .. NumGroups
        BY <2>2, <3>3 DEF GroupsInv, Filling, FilledInTurn, InTurn
      <4>3. count \in Nat \ {0}
        <5>1. IsFiniteSet(group[pgNum])
          <6>1. IsFiniteSet(1 .. placed)
            BY <1>3, FS_Interval
          <6>2. group[pgNum] \subseteq 1 .. placed
            BY <1>3, <4>2
          <6> QED
            BY <6>1, <6>2, FS_Subset
        <5>2. /\ IsFiniteSet(group[pgNum] \cup {placed + 1})
              /\ group[pgNum] \cup {placed + 1} # {}
          BY <5>1, FS_AddElement
        <5> QED
          BY <5>2, FS_CardinalityType, FS_EmptySet
      <4> HIDE DEF count
      <4>4. count >= Share <=> count >= Turn
        BY <4>1, <4>3 DEF Turn
      <4>5. pgNum' = IF count >= Turn /\ pgNum < NumGroups THEN pgNum + 1 ELSE pgNum
        BY <3>1, <4>4 DEF count
      <4> QED
        BY <1>1, <2>2, <3>2, <3>3, <4>5, TurnStep DEF count
    <3>5. FilledInTurn'
      BY <1>1, <1>2, <3>4 DEF FilledInTurn
    <3>6. FilledByZone'
      BY <1>1, <2>2 DEF FilledByZone
    <3> QED
      BY <2>2, <3>4, <3>5, <3>6
  <2> QED
    BY <1>3, <2>1, <2>2
<1> HIDE DEF j
<1>6. /\ DOMAIN group' = 1 .. NumGroups
      /\ \A i \in 1 .. NumGroups : group'[i] = IF i = j THEN group[i] \cup {placed + 1} ELSE group[i]
  BY <1>3, <1>4
<1>7. /\ \A i \in 1 .. NumGroups : group'[i] \subseteq 1 .. n
      /\ UNION Range(group') = 1 .. n
      /\ \A i, k \in 1 .. NumGroups : i # k => group'[i] \cap group'[k] = {}
  BY <1>1, <1>5, <1>6, PlacedInOneGroup
<1>8. group' \in [1 .. NumGroups -> SUBSET (1 .. n)]
  BY <1>3, <1>4, <1>6, <1>7
<1>9. n \in 0 .. Cardinality(Nodes)
  BY <1>1, <1>3
<1>10. Filling'
  BY <1>1, <1>2, <1>5, <1>7, <1>8, <1>9 DEF Filling
<1>11. OwnGroup'
  <2>1. CASE cluster.rpg
    BY <1>1, <2>1 DEF Place, PlaceInZone, GroupsInv, OwnGroup
  <2>2. CASE ~cluster.rpg
    <3>1. own' = IF n = self THEN pgNum ELSE own
      BY <1>1, <2>2 DEF Place, PlaceInTurn, JoinCurrent
    <3>2. j = pgNum
      BY <1>3, <2>2 DEF j
    <3>3. CASE self = n
      BY <1>1, <1>2, <1>5, <1>6, <2>2, <3>1, <3>2, <3>3 DEF OwnGroup
    <3>4. CASE self # n
      <4> SUFFICES ASSUME self <= n PROVE own' \in 1 .. NumGroups /\ self \in group'[own']
        BY <1>1, <1>2, <2>2 DEF OwnGroup
      <4>1. self \in Nat
        BY ClusterFacts DEF GroupsInv
      <4>2. self <= placed
        BY <1>3, <3>4, <4>1
      <4>3. own \in 1 .. NumGroups /\ self \in group[own]
        BY <2>2, <4>2 DEF GroupsInv, OwnGroup
      <4> QED
        BY <1>6, <3>1, <3>4, <4>3
    <3> QED
      BY <3>3, <3>4
  <2> QED
    BY <2>1, <2>2
<1>12. Started'
  BY <1>1 DEF GroupsInv, Started, StartsIfFlagsFit
<1> QED
  BY <1>1, <1>2, <1>10, <1>11, <1>12 DEF GroupsInv

\* The steps that do not place a node leave the groups as they are.
LEMMA FillingKept ==
  ASSUME GroupsInv, UNCHANGED <<cluster, self, group, own, placed, pgNum>>
  PROVE  /\ cluster' \in Clusters /\ self' \in Nodes'
         /\ Filling' /\ OwnGroup' /\ Nodes' = Nodes /\ FlagsFit' = FlagsFit
<1>1. Nodes' = Nodes /\ NumGroups' = NumGroups /\ Turn' = Turn
  BY DEF Nodes, NumGroups, Share, Turn
<1> QED
  BY <1>1 DEF GroupsInv, Filling, FilledByZone, FilledInTurn, OwnGroup, FlagsFit

\* A replica that cannot place a node has flags that do not fit.
LEMMA CrashStep ==
  ASSUME GroupsInv, CrashPlacing
  PROVE  GroupsInv'
<1> DEFINE n == placed + 1
<1>1. /\ placed < Cardinality(Nodes) /\ ~CanPlace(n) /\ stage' = "crashed"
      /\ UNCHANGED <<cluster, self, group, own, placed, pgNum>>
  BY DEF CrashPlacing
<1>2. n \in Nodes
  BY <1>1, ClusterFacts DEF GroupsInv, Filling
<1>3. ~FlagsFit
  <2>1. CASE cluster.rpg
    BY <1>1, <1>2, <2>1, ClusterFacts DEF CanPlace, FlagsFit, GroupsInv
  <2>2. CASE ~cluster.rpg
    BY <1>1, <2>2, ClusterFacts DEF CanPlace, FlagsFit, GroupsInv
  <2> QED
    BY <2>1, <2>2
<1> QED
  BY <1>1, <1>3, FillingKept DEF GroupsInv, Started, StartsIfFlagsFit

\* When all nodes are placed, no group is empty just if the flags fit.
LEMMA FitFacts ==
  ASSUME GroupsInv, placed = Cardinality(Nodes)
  PROVE  {} \in Range(group) <=> ~FlagsFit
<1>1. /\ Cardinality(Nodes) \in Nat \ {0} /\ NumGroups \in Nat
      /\ placed \in Nat \ {0} /\ Nodes = 1 .. placed
      /\ IsFiniteSet(Nodes) /\ DOMAIN group = 1 .. NumGroups
      /\ \A i \in 1 .. NumGroups : group[i] \subseteq Nodes
  BY ClusterFacts DEF GroupsInv, Filling
<1>2. {} \in Range(group) <=> \E i \in 1 .. NumGroups : group[i] = {}
  BY <1>1 DEF Range
<1>3. CASE cluster.rpg
  <2>1. \A i \in 1 .. NumGroups : group[i] = {m \in Nodes : cluster.zone[m] = i}
    BY <1>1, <1>3 DEF GroupsInv, Filling, FilledByZone
  <2>2. Range(cluster.zone) \subseteq 1 .. NumGroups
    <3> SUFFICES ASSUME NEW m \in Nodes PROVE cluster.zone[m] \in 1 .. NumGroups
      BY DEF Range, Nodes
    <3>1. m \in UNION Range(group)
      BY <1>1 DEF GroupsInv, Filling
    <3>2. PICK i \in 1 .. NumGroups : m \in group[i]
      BY <1>1, <3>1 DEF Range
    <3> QED
      BY <2>1, <3>2
  <2>3. \A i : i \in Range(cluster.zone) <=> \E m \in Nodes : cluster.zone[m] = i
    BY DEF Range, Nodes
  <2>4. FlagsFit <=> \A i \in 1 .. NumGroups : i \in Range(cluster.zone)
    BY <1>3, <2>2 DEF FlagsFit
  <2> QED
    BY <1>2, <2>1, <2>3, <2>4
<1>4. CASE ~cluster.rpg
  <2>1. NumGroups > 0
    <3> SUFFICES ASSUME NumGroups = 0 PROVE FALSE
      BY <1>1
    <3>1. UNION Range(group) = {}
      BY <1>1 DEF Range
    <3>2. 1 \in 1 .. placed
      BY <1>1
    <3> QED
      BY <1>1, <3>1, <3>2 DEF GroupsInv, Filling
  <2>2. FlagsFit <=> NumGroups <= Cardinality(Nodes)
    BY <1>1, <1>4, <2>1 DEF FlagsFit
  <2>3. ASSUME NumGroups <= Cardinality(Nodes), NEW i \in 1 .. NumGroups PROVE group[i] # {}
    <3>1. Cardinality(group[i]) >= Share
      BY <1>4, <2>1, <2>3, TurnsEnd DEF GroupsInv, Filling
    <3>2. Share > 0 /\ Share \in Nat
      BY <2>1, <2>3, ShareFacts DEF GroupsInv
    <3> QED
      BY <3>1, <3>2, FS_EmptySet
  <2>4. ASSUME ~(NumGroups <= Cardinality(Nodes)) PROVE group[NumGroups] = {}
    <3>1. Turn = 1
      BY <2>1, <2>4, ShareFacts DEF Turn, GroupsInv
    <3>2. /\ pgNum \in 1 .. NumGroups
          /\ \A i \in 1 .. NumGroups : i > pgNum => group[i] = {}
          /\ Cardinality(group[pgNum]) = placed - (pgNum - 1)
      BY <1>1, <1>4, <2>1, <3>1 DEF GroupsInv, Filling, FilledInTurn, InTurn, EmptyAfter, TakenBefore
    <3>3. CASE pgNum < NumGroups
      BY <1>1, <2>1, <3>2, <3>3
    <3>4. CASE pgNum = NumGroups
      <4>1. IsFiniteSet(group[pgNum])
        BY <1>1, <3>2, FS_Subset
      <4>2. Cardinality(group[pgNum]) <= 0
        <5>1. placed \in Nat /\ NumGroups \in Nat /\ placed < NumGroups
          BY <1>1, <2>4
        <5>2. Cardinality(group[pgNum]) = placed - (NumGroups - 1)
          BY <3>2, <3>4
        <5> QED
          BY <5>1, <5>2
      <4>3. Cardinality(group[pgNum]) = 0
        BY <4>1, <4>2, FS_CardinalityType
      <4> QED
        BY <3>4, <4>1, <4>3, FS_EmptySet
    <3> QED
      BY <1>1, <3>2, <3>3, <3>4
  <2> QED
    BY <1>1, <1>2, <2>1, <2>2, <2>3, <2>4
<1> QED
  BY <1>3, <1>4

\* NewReplica ends, or the replica does.
LEMMA StartStep ==
  ASSUME GroupsInv, Start
  PROVE  GroupsInv'
<1>1. /\ placed = Cardinality(Nodes)
      /\ stage' = IF {} \in Range(group) THEN "crashed" ELSE "started"
      /\ UNCHANGED <<cluster, self, group, own, placed, pgNum>>
  BY DEF Start
<1>2. /\ cluster' \in Clusters /\ self' \in Nodes' /\ Filling' /\ OwnGroup'
      /\ Nodes' = Nodes /\ FlagsFit' = FlagsFit
  BY <1>1, FillingKept
<1>3. stage' # "crashed" <=> FlagsFit
  BY <1>1, FitFacts
<1>4. Started'
  BY <1>1, <1>2, <1>3 DEF Started, StartsIfFlagsFit
<1> QED
  BY <1>2, <1>4 DEF GroupsInv

\* Every step keeps GroupsInv.
LEMMA GroupsStep ==
  ASSUME GroupsInv, GroupsNext \/ UNCHANGED groupVars
  PROVE  GroupsInv'
<1>1. CASE Place
  BY <1>1, PlaceStep
<1>2. CASE CrashPlacing
  BY <1>2, CrashStep
<1>3. CASE Start
  BY <1>3, StartStep
<1>4. CASE StartDraw \/ Draw \/ SendFails \/ (\E n \in Nodes : GrayTimeout(n)) \/ UNCHANGED groupVars
  <2>1. /\ UNCHANGED <<cluster, self, group, own, placed, pgNum>>
        /\ stage' = stage \/ {stage, stage'} \subseteq {"started", "drawing"}
    BY <1>4 DEF StartDraw, Draw, SendFails, GrayTimeout, groupVars
  <2>2. /\ cluster' \in Clusters /\ self' \in Nodes' /\ Filling' /\ OwnGroup'
        /\ Nodes' = Nodes /\ FlagsFit' = FlagsFit
    BY <2>1, FillingKept
  <2>3. Started'
    BY <2>1, <2>2 DEF GroupsInv, Started, StartsIfFlagsFit
  <2> QED
    BY <2>2, <2>3 DEF GroupsInv
<1> QED
  BY <1>1, <1>2, <1>3, <1>4 DEF GroupsNext

\* Every node of every cluster can be the replica.
LEMMA SomeReplica == Replicas # {}
<1>1. PICK c \in Clusters : c.zone \in Seq(Nat) \ {<<>>}
  BY ClustersAssumption
<1>2. 1 \in DOMAIN c.zone
  BY <1>1
<1>3. [cluster |-> c, self |-> 1] \in Replicas
  BY <1>2 DEF Replicas
<1> QED
  BY <1>3

\* No node has a group in the beginning.
LEMMA GroupsStart ==
  ASSUME NEW replicas \in SUBSET Replicas, GroupsInit(replicas)
  PROVE  GroupsInv
<1>1. PICK r \in replicas : cluster = r.cluster /\ self = r.self
  BY DEF GroupsInit
<1>2. cluster \in Clusters /\ self \in Nodes
  BY <1>1 DEF Replicas, Nodes
<1>3. /\ group = [i \in 1 .. NumGroups |-> {}] /\ placed = 0 /\ pgNum = 1 /\ stage = "starting"
      /\ own = IF cluster.rpg THEN cluster.zone[self] ELSE 1
  BY DEF GroupsInit
<1>4. NumGroups \in Nat /\ Cardinality(Nodes) \in Nat /\ self \in Nat /\ self > 0
  BY <1>2, ClusterFacts
<1>5. 1 .. placed = {}
  BY <1>3
<1>6. UNION Range(group) = {}
  BY <1>3 DEF Range
<1>7. FilledByZone
  BY <1>3, <1>5 DEF FilledByZone
<1>8. FilledInTurn
  <2> SUFFICES ASSUME NumGroups > 0 PROVE FilledInTurn
    BY DEF FilledInTurn
  <2>1. Turn \in Nat /\ Turn > 0
    BY <1>2, ShareFacts
  <2>2. pgNum \in 1 .. NumGroups /\ group[pgNum] = {} /\ TakenBefore(pgNum, Turn) = 0
    BY <1>3, <1>4, <2>1 DEF TakenBefore
  <2>3. Cardinality(group[pgNum]) = 0
    BY <2>2, FS_EmptySet
  <2> QED
    BY <1>3, <1>4, <2>1, <2>2, <2>3 DEF FilledInTurn, InTurn, FullBefore, EmptyAfter
<1>9. Filling
  <2>1. group \in [1 .. NumGroups -> SUBSET (1 .. placed)]
    BY <1>3
  <2>2. \A i, j \in 1 .. NumGroups : i # j => group[i] \cap group[j] = {}
    BY <1>3
  <2>3. placed \in 0 .. Cardinality(Nodes)
    BY <1>3, <1>4
  <2> QED
    BY <1>5, <1>6, <1>7, <1>8, <2>1, <2>2, <2>3 DEF Filling
<1>10. OwnGroup
  BY <1>3, <1>4 DEF OwnGroup
<1>11. Started
  BY <1>3 DEF Started, StartsIfFlagsFit
<1> QED
  BY <1>2, <1>9, <1>10, <1>11 DEF GroupsInv
-----------------------------------------------------------------------------
Texts == {Text[r] : r \in Req}

\* The channels of the requests with text t that node n has forwarded.
Forwarded(n, t) ==
  {c \in Channel : /\ Text[c[1]] = t
                   /\ c[2] < Len(path[c[1]])
                   /\ path[c[1]][c[2]] = n}

\* The request of channel c has come to the node of channel c.
Came(c) == c[2] <= Len(path[c[1]]) /\ (place[c[1]] = "flying" => c[2] < Len(path[c[1]]))

ForwardTypes ==
  /\ path \in [Req -> Seq(Server)]
  /\ place \in [Req -> {"client", "held", "flying", "answered"}]
  /\ \A r \in Req : /\ Len(path[r]) <= MaxPath
                    /\ place[r] = "client" => path[r] = <<>>
                    /\ place[r] # "client" => Len(path[r]) >= 1
  /\ forwards \in [Server -> [Texts -> Channel \cup {NoChannel}]]
  /\ buffer \in [Channel -> SUBSET Req]
  /\ waiting \subseteq Channel
  /\ replies \subseteq [to : Server, of : Req, by : Channel]
  /\ answer \in [Req -> SUBSET Req]

\* The table of a node holds the channel of some request it forwarded; waiters
\* and replies belong to nodes a request has come to; a reply goes to the node
\* before the one it comes from, once, under the text of the request it answers.
Ways ==
  /\ \A n \in Server, t \in Texts : Forwarded(n, t) # {} => forwards[n][t] \in Forwarded(n, t)
  /\ \A c \in waiting : Came(c)
  /\ \A c \in Channel : \A q \in buffer[c] : Came(c) /\ Text[q] = Text[c[1]]
  /\ \A m \in replies :
       /\ Came(m.by) /\ m.by[2] > 1 /\ m.by \notin waiting
       /\ m.to = path[m.by[1]][m.by[2] - 1]
       /\ Text[m.of] = Text[m.by[1]]

\* Channels before the k-th wait for the reply.
WaitingBefore(r, k) ==
  \A i \in 1 .. MaxPath : i < k => <<r, i>> \in waiting /\ buffer[<<r, i>>] = {}

\* The reply is in the k-th channel, or on its way to it.
OnItsWay(r, k) ==
  /\ <<r, k>> \in waiting /\ WaitingBefore(r, k)
  /\ \/ buffer[<<r, k>>] = {r}
     \/ /\ buffer[<<r, k>>] = {} /\ k < Len(path[r])
        /\ [to |-> path[r][k], of |-> r, by |-> <<r, k + 1>>] \in replies

\* Nobody else's reply gets into the channels of r, and its own comes home.
Undisturbed(r) ==
  /\ \A k \in 1 .. MaxPath : buffer[<<r, k>>] \subseteq {r}
  /\ \A m \in replies : m.by[1] = r => m.of = r
  /\ place[r] = "held" => WaitingBefore(r, Len(path[r]) + 1)
  /\ place[r] = "flying" => WaitingBefore(r, Len(path[r]))
  /\ place[r] = "answered" => answer[r] = {r} \/ \E k \in 1 .. Len(path[r]) : OnItsWay(r, k)

ForwardInv ==
  /\ ForwardTypes
  /\ Ways
  /\ \A r \in Req : Overwritten(r) \/ Undisturbed(r)

\* A node that has forwarded one request with a text knows its channel.
LEMMA OnlyOneForwarded ==
  ASSUME NEW r \in Req, ~Overwritten(r), NEW n \in Server,
         NEW c \in Forwarded(n, Text[r]), NEW d \in Forwarded(n, Text[r])
  PROVE  c = d
<1> DEFINE F == Forwarded(n, Text[r])
<1>1. IsFiniteSet(F)
  <2>1. IsFiniteSet(1 .. MaxPath)
    BY ForwardingAssumption, FS_Interval
  <2>2. IsFiniteSet(Channel)
    BY <2>1, ForwardingAssumption, FS_Product DEF Channel
  <2> QED
    BY <2>2, FS_Subset DEF Forwarded
<1>2. ~(Cardinality(F) > 1)
  BY DEF Overwritten, Forwarded
<1> HIDE DEF F
<1>3. Cardinality(F) \in Nat
  BY <1>1, FS_CardinalityType
<1>4. c \in F /\ d \in F
  BY DEF F
<1> SUFFICES ASSUME c # d PROVE FALSE
  OBVIOUS
<1>5. IsFiniteSet({c}) /\ Cardinality({c}) = 1
  BY FS_Singleton
<1>6. Cardinality({c} \cup {d}) = 2
  <2>1. d \notin {c}
    OBVIOUS
  <2>2. Cardinality({c} \cup {d}) = Cardinality({c}) + 1
    BY <1>5, <2>1, FS_AddElement
  <2> QED
    BY <1>5, <2>2
<1>7. {c} \cup {d} \subseteq F
  BY <1>4
<1>8. Cardinality({c} \cup {d}) <= Cardinality(F)
  BY <1>1, <1>7, FS_Subset
<1> QED
  BY <1>2, <1>3, <1>6, <1>8

\* More is forwarded with every step, so what was overwritten stays so.
LEMMA OverwrittenStays ==
  ASSUME NEW r \in Req, Overwritten(r),
         \A n \in Server : Forwarded(n, Text[r]) \subseteq Forwarded(n, Text[r])'
  PROVE  Overwritten(r)'
<1>1. PICK n \in Server : Cardinality(Forwarded(n, Text[r])) > 1
  BY DEF Overwritten, Forwarded
<1> DEFINE F == Forwarded(n, Text[r])
           G == Forwarded(n, Text[r])'
<1>2. IsFiniteSet(G)
  <2>1. IsFiniteSet(1 .. MaxPath)
    BY ForwardingAssumption, FS_Interval
  <2>2. IsFiniteSet(Channel)
    BY <2>1, ForwardingAssumption, FS_Product DEF Channel
  <2>3. G \subseteq Channel
    BY DEF Forwarded
  <2> QED
    BY <2>2, <2>3, FS_Subset
<1>3. F \subseteq G /\ Cardinality(F) > 1
  BY <1>1
<1>4. G = {c \in Channel : /\ Text[c[1]] = Text[r]
                           /\ c[2] < Len(path'[c[1]])
                           /\ path'[c[1]][c[2]] = n}
  BY DEF Forwarded
<1> HIDE DEF F, G
<1>5. IsFiniteSet(F) /\ Cardinality(F) <= Cardinality(G)
  BY <1>2, <1>3, FS_Subset
<1>6. Cardinality(F) \in Nat /\ Cardinality(G) \in Nat
  BY <1>2, <1>5, FS_CardinalityType
<1>7. Cardinality(G) > 1
  BY <1>3, <1>5, <1>6
<1> QED
  BY <1>4, <1>7 DEF Overwritten

\* A channel is a request and its place on the way.
LEMMA ChannelFacts ==
  /\ \A c \in Channel : /\ c = <<c[1], c[2]>> /\ c[1] \in Req /\ c[2] \in 1 .. MaxPath
                        /\ c[2] \in Nat /\ c[2] >= 1
  /\ \A r \in Req, k \in 1 .. MaxPath : <<r, k>> \in Channel
BY ForwardingAssumption DEF Channel

\* The types of what belongs to one request.
LEMMA RequestFacts ==
  ASSUME ForwardInv, NEW r \in Req
  PROVE  /\ path[r] \in Seq(Server) /\ Len(path[r]) \in Nat /\ Len(path[r]) <= MaxPath
         /\ \A k \in 1 .. Len(path[r]) : path[r][k] \in Server
         /\ place[r] \in {"client", "held", "flying", "answered"}
         /\ place[r] = "client" => path[r] = <<>> /\ Len(path[r]) = 0
         /\ place[r] # "client" => /\ Len(path[r]) >= 1
                                   /\ At(r) \in Server /\ Mine(r) \in Channel
<1>1. /\ path[r] \in Seq(Server) /\ Len(path[r]) \in Nat /\ Len(path[r]) <= MaxPath
      /\ place[r] \in {"client", "held", "flying", "answered"}
      /\ place[r] = "client" => path[r] = <<>>
      /\ place[r] # "client" => Len(path[r]) >= 1
  BY DEF ForwardInv, ForwardTypes
<1>2. \A k \in 1 .. Len(path[r]) : path[r][k] \in Server
  BY <1>1
<1>3. place[r] # "client" => At(r) \in Server /\ Mine(r) \in Channel
  BY <1>1, <1>2, ForwardingAssumption, ChannelFacts DEF At, Mine
<1> QED
  BY <1>1, <1>2, <1>3

\* A step that does not touch request r, its channels and its replies.
SameFor(r) ==
  /\ path'[r] = path[r] /\ place'[r] = place[r] /\ answer'[r] = answer[r]
  /\ \A k \in 1 .. MaxPath : /\ buffer'[<<r, k>>] = buffer[<<r, k>>]
                             /\ <<r, k>> \in waiting => <<r, k>> \in waiting'
  /\ \A m : m.by[1] = r => (m \in replies <=> m \in replies')

\* What a step does not touch stays undisturbed.
LEMMA OthersUndisturbed ==
  ASSUME ForwardInv, NEW r \in Req, Undisturbed(r), SameFor(r)
  PROVE  Undisturbed(r)'
<1>1. /\ path'[r] = path[r] /\ place'[r] = place[r] /\ answer'[r] = answer[r]
      /\ \A k \in 1 .. MaxPath : /\ buffer'[<<r, k>>] = buffer[<<r, k>>]
                                 /\ <<r, k>> \in waiting => <<r, k>> \in waiting'
      /\ \A m : m.by[1] = r => (m \in replies <=> m \in replies')
  BY DEF SameFor
<1>2. /\ \A k \in 1 .. MaxPath : buffer'[<<r, k>>] \subseteq {r}
      /\ \A m \in replies' : m.by[1] = r => m.of = r
  BY <1>1 DEF Undisturbed
<1>3. ASSUME NEW k \in Int, WaitingBefore(r, k) PROVE WaitingBefore(r, k)'
  BY <1>1, <1>3 DEF WaitingBefore
<1>4. Len(path[r]) \in Nat /\ Len(path[r]) <= MaxPath
  BY RequestFacts
<1>5. ASSUME NEW k \in 1 .. Len(path[r]), OnItsWay(r, k) PROVE OnItsWay(r, k)'
  <2>1. k \in 1 .. MaxPath /\ k \in Int
    BY <1>4, ForwardingAssumption
  <2>2. <<r, k>> \in waiting' /\ WaitingBefore(r, k)'
    BY <1>1, <1>3, <1>5, <2>1 DEF OnItsWay
  <2> DEFINE m == [to |-> path[r][k], of |-> r, by |-> <<r, k + 1>>]
  <2>3. m.by[1] = r
    OBVIOUS
  <2>4. m \in replies => m \in replies'
    BY <1>1, <2>3
  <2> QED
    BY <1>1, <1>5, <2>1, <2>2, <2>4 DEF OnItsWay
<1>6. place'[r] = "held" => WaitingBefore(r, Len(path[r]) + 1)'
  BY <1>1, <1>3, <1>4 DEF Undisturbed
<1>7. place'[r] = "flying" => WaitingBefore(r, Len(path[r]))'
  BY <1>1, <1>3, <1>4 DEF Undisturbed
<1>8. place'[r] = "answered" =>
        answer'[r] = {r} \/ \E k \in 1 .. Len(path'[r]) : OnItsWay(r, k)'
  BY <1>1, <1>5 DEF Undisturbed
<1> QED
  BY <1>1, <1>2, <1>6, <1>7, <1>8 DEF Undisturbed

\* A step that leaves the paths as they are keeps what is forwarded.
LEMMA ForwardedKept ==
  ASSUME path' = path, NEW n, NEW t
  PROVE  Forwarded(n, t)' = Forwarded(n, t)
BY DEF Forwarded

\* A client's request comes to its first node (the HTTP handler).
LEMMA SubmitToStep ==
  ASSUME ForwardInv, NEW n \in Server, NEW r \in Req, SubmitTo(n, r)
  PROVE  ForwardInv'
<1>1. /\ place[r] = "client" /\ path[r] = <<>> /\ Len(path[r]) = 0
      /\ place' = [place EXCEPT ![r] = "held"] /\ path' = [path EXCEPT ![r] = <<n>>]
      /\ waiting' = waiting \cup {<<r, 1>>}
      /\ forwards' = forwards /\ buffer' = buffer /\ replies' = replies /\ answer' = answer
  BY RequestFacts DEF SubmitTo
<1>2. 1 \in 1 .. MaxPath /\ <<r, 1>> \in Channel /\ <<n>> \in Seq(Server) /\ Len(<<n>>) = 1
  BY ForwardingAssumption, ChannelFacts
<1>3. /\ path'[r] = <<n>> /\ Len(path'[r]) = 1 /\ place'[r] = "held"
      /\ \A q \in Req : q # r => path'[q] = path[q] /\ place'[q] = place[q]
  BY <1>1, <1>2 DEF ForwardInv, ForwardTypes
<1>4. ForwardTypes'
  <2>1. path' \in [Req -> Seq(Server)] /\ place' \in [Req -> {"client", "held", "flying", "answered"}]
    BY <1>1, <1>2 DEF ForwardInv, ForwardTypes
  <2>2. \A q \in Req : /\ Len(path'[q]) <= MaxPath
                       /\ place'[q] = "client" => path'[q] = <<>>
                       /\ place'[q] # "client" => Len(path'[q]) >= 1
    <3>1. MaxPath >= 1
      BY ForwardingAssumption
    <3>2. Len(path'[r]) <= MaxPath /\ Len(path'[r]) >= 1 /\ place'[r] # "client"
      BY <1>3, <3>1
    <3> QED
      BY <1>3, <3>2 DEF ForwardInv, ForwardTypes
  <2> QED
    BY <1>1, <1>2, <2>1, <2>2 DEF ForwardInv, ForwardTypes
<1>5. ASSUME NEW c \in Channel, Came(c) PROVE Came(c)' /\ c[1] # r /\ path'[c[1]] = path[c[1]]
  BY <1>1, <1>3, <1>5, ChannelFacts DEF Came
<1>6. ASSUME NEW p, NEW t PROVE Forwarded(p, t)' = Forwarded(p, t)
  <2>1. ASSUME NEW c \in Channel
        PROVE  (c[2] < Len(path'[c[1]]) /\ path'[c[1]][c[2]] = p)
                 <=> (c[2] < Len(path[c[1]]) /\ path[c[1]][c[2]] = p)
    <3>1. c[1] \in Req /\ c[2] \in Nat /\ c[2] >= 1
      BY ChannelFacts
    <3>2. CASE c[1] = r
      BY <1>1, <1>3, <3>1, <3>2
    <3>3. CASE c[1] # r
      BY <1>3, <3>1, <3>3
    <3> QED
      BY <3>2, <3>3
  <2> QED
    BY <2>1 DEF Forwarded
<1>7. <<r, 1>> \notin {m.by : m \in replies} /\ \A k \in 1 .. MaxPath : buffer[<<r, k>>] = {}
  <2>1. \A m \in replies : m.by \in Channel /\ Came(m.by)
    BY DEF ForwardInv, Ways, ForwardTypes
  <2>2. ASSUME NEW m \in replies PROVE m.by # <<r, 1>>
    BY <1>5, <2>1
  <2>3. ASSUME NEW k \in 1 .. MaxPath PROVE buffer[<<r, k>>] = {}
    <3>1. <<r, k>> \in Channel /\ ~Came(<<r, k>>)
      BY <1>5, ChannelFacts
    <3> QED
      BY <3>1 DEF ForwardInv, Ways
  <2> QED
    BY <2>2, <2>3
<1>8. Ways'
  <2>1. \A p \in Server, t \in Texts :
          Forwarded(p, t)' # {} => forwards'[p][t] \in Forwarded(p, t)'
    BY <1>1, <1>6 DEF ForwardInv, Ways
  <2>2. \A c \in waiting' : Came(c)'
    <3>1. Came(<<r, 1>>)'
      BY <1>3 DEF Came
    <3> QED
      BY <1>1, <1>5, <3>1 DEF ForwardInv, Ways, ForwardTypes
  <2>3. \A c \in Channel : \A q \in buffer'[c] : Came(c)' /\ Text[q] = Text[c[1]]
    BY <1>1, <1>5 DEF ForwardInv, Ways
  <2>4. ASSUME NEW m \in replies'
        PROVE  /\ Came(m.by)' /\ m.by[2] > 1 /\ m.by \notin waiting'
               /\ m.to = path'[m.by[1]][m.by[2] - 1]
               /\ Text[m.of] = Text[m.by[1]]
    <3>1. /\ m.by \in Channel /\ Came(m.by) /\ m.by[2] > 1 /\ m.by \notin waiting
          /\ m.to = path[m.by[1]][m.by[2] - 1] /\ Text[m.of] = Text[m.by[1]] /\ m.by # <<r, 1>>
      BY <1>1, <1>7 DEF ForwardInv, Ways, ForwardTypes
    <3> QED
      BY <1>1, <1>5, <3>1
  <2> QED
    BY <2>1, <2>2, <2>3, <2>4 DEF Ways
<1>9. ASSUME NEW q \in Req PROVE Overwritten(q)' \/ Undisturbed(q)'
  <2>1. CASE Overwritten(q)
    BY <1>6, <2>1, OverwrittenStays
  <2>2. CASE Undisturbed(q) /\ q # r
    <3>1. SameFor(q)
      BY <1>1, <1>3, <2>2 DEF SameFor
    <3> QED
      BY <2>2, <3>1, OthersUndisturbed
  <2>3. CASE Undisturbed(q) /\ q = r
    <3>1. WaitingBefore(r, 2)'
      BY <1>1, <1>2, <1>7 DEF WaitingBefore
    <3>2. /\ \A k \in 1 .. MaxPath : buffer'[<<r, k>>] \subseteq {r}
          /\ \A m \in replies' : m.by[1] = r => m.of = r
      BY <1>1, <2>3 DEF Undisturbed
    <3>3. WaitingBefore(r, Len(path[r]) + 1)'
      BY <1>3, <3>1
    <3> QED
      BY <1>3, <2>3, <3>2, <3>3 DEF Undisturbed
  <2> QED
    BY <2>1, <2>2, <2>3 DEF ForwardInv
<1> QED
  BY <1>4, <1>8, <1>9 DEF ForwardInv

\* A node forwards a request and remembers its channel (node.Forward).
LEMMA ForwardStep ==
  ASSUME ForwardInv, NEW n \in Server, NEW r \in Req, Forward(n, r)
  PROVE  ForwardInv'
<1> DEFINE k == Len(path[r])
<1>1. /\ place[r] = "held" /\ k < MaxPath /\ k \in Nat /\ k >= 1
      /\ forwards' = [forwards EXCEPT ![At(r)][Text[r]] = Mine(r)]
      /\ path' = [path EXCEPT ![r] = Append(@, n)] /\ place' = [place EXCEPT ![r] = "flying"]
      /\ buffer' = buffer /\ waiting' = waiting /\ replies' = replies /\ answer' = answer
  BY RequestFacts DEF Forward
<1>2. /\ path[r] \in Seq(Server) /\ At(r) \in Server /\ Mine(r) \in Channel
      /\ At(r) = path[r][k] /\ Mine(r) = <<r, k>>
  BY <1>1, RequestFacts DEF At, Mine
<1>3. /\ path'[r] = Append(path[r], n) /\ place'[r] = "flying"
      /\ \A q \in Req : q # r => path'[q] = path[q] /\ place'[q] = place[q]
  BY <1>1 DEF ForwardInv, ForwardTypes
<1>4. /\ path'[r] \in Seq(Server) /\ Len(path'[r]) = k + 1
      /\ \A i \in 1 .. k : path'[r][i] = path[r][i]
  BY <1>1, <1>2, <1>3
<1>5. Text[r] \in Texts
  BY DEF Texts
<1>6. ForwardTypes'
  <2>1. path' \in [Req -> Seq(Server)] /\ place' \in [Req -> {"client", "held", "flying", "answered"}]
    BY <1>1, <1>3, <1>4 DEF ForwardInv, ForwardTypes
  <2>2. \A q \in Req : /\ Len(path'[q]) <= MaxPath
                       /\ place'[q] = "client" => path'[q] = <<>>
                       /\ place'[q] # "client" => Len(path'[q]) >= 1
    BY <1>1, <1>3, <1>4, ForwardingAssumption DEF ForwardInv, ForwardTypes
  <2>3. forwards' \in [Server -> [Texts -> Channel \cup {NoChannel}]]
    BY <1>1, <1>2, <1>5 DEF ForwardInv, ForwardTypes
  <2> QED
    BY <1>1, <2>1, <2>2, <2>3 DEF ForwardInv, ForwardTypes
<1>7. ASSUME NEW c \in Channel
      PROVE  Came(c) => Came(c)' /\ \A i \in 1 .. c[2] : path'[c[1]][i] = path[c[1]][i]
  <2>1. c[1] \in Req /\ c[2] \in Nat /\ c[2] >= 1 /\ c = <<c[1], c[2]>>
    BY ChannelFacts
  <2>2. CASE c[1] = r
    BY <1>1, <1>3, <1>4, <2>1, <2>2 DEF Came
  <2>3. CASE c[1] # r
    BY <1>3, <2>1, <2>3 DEF Came
  <2> QED
    BY <2>2, <2>3
<1>8. ASSUME NEW p, NEW t
      PROVE  Forwarded(p, t)' = IF p = At(r) /\ t = Text[r] THEN Forwarded(p, t) \cup {<<r, k>>}
                                ELSE Forwarded(p, t)
  <2>1. ASSUME NEW c \in Channel
        PROVE  (c[2] < Len(path'[c[1]]) /\ path'[c[1]][c[2]] = p)
                 <=> \/ c[2] < Len(path[c[1]]) /\ path[c[1]][c[2]] = p
                     \/ c = <<r, k>> /\ p = At(r)
    <3>1. c[1] \in Req /\ c[2] \in Nat /\ c[2] >= 1 /\ c = <<c[1], c[2]>>
      BY ChannelFacts
    <3>2. CASE c[1] = r
      BY <1>1, <1>2, <1>4, <3>1, <3>2
    <3>3. CASE c[1] # r
      BY <1>3, <3>1, <3>3
    <3> QED
      BY <3>2, <3>3
  <2>2. <<r, k>> \in Channel /\ <<r, k>>[1] = r
    BY <1>2
  <2> HIDE DEF k
  <2> QED
    BY <2>1, <2>2 DEF Forwarded
<1>9. Ways'
  <2>1. ASSUME NEW p \in Server, NEW t \in Texts, Forwarded(p, t)' # {}
        PROVE  forwards'[p][t] \in Forwarded(p, t)'
    <3>1. CASE p = At(r) /\ t = Text[r]
      <4>1. forwards'[p][t] = <<r, k>>
        BY <1>1, <1>2, <1>5, <3>1 DEF ForwardInv, ForwardTypes
      <4> QED
        BY <1>8, <3>1, <4>1
    <3>2. CASE ~(p = At(r) /\ t = Text[r])
      <4>1. forwards'[p][t] = forwards[p][t]
        BY <1>1, <1>2, <1>5, <3>2 DEF ForwardInv, ForwardTypes
      <4>2. Forwarded(p, t)' = Forwarded(p, t)
        BY <1>8, <3>2
      <4> QED
        BY <2>1, <4>1, <4>2 DEF ForwardInv, Ways
    <3> QED
      BY <3>1, <3>2
  <2>2. \A c \in waiting' : Came(c)'
    BY <1>1, <1>7 DEF ForwardInv, Ways, ForwardTypes
  <2>3. \A c \in Channel : \A q \in buffer'[c] : Came(c)' /\ Text[q] = Text[c[1]]
    BY <1>1, <1>7 DEF ForwardInv, Ways
  <2>4. ASSUME NEW m \in replies'
        PROVE  /\ Came(m.by)' /\ m.by[2] > 1 /\ m.by \notin waiting'
               /\ m.to = path'[m.by[1]][m.by[2] - 1]
               /\ Text[m.of] = Text[m.by[1]]
    <3>1. /\ m.by \in Channel /\ Came(m.by) /\ m.by[2] > 1 /\ m.by \notin waiting
          /\ m.to = path[m.by[1]][m.by[2] - 1] /\ Text[m.of] = Text[m.by[1]]
      BY <1>1 DEF ForwardInv, Ways, ForwardTypes
    <3>2. m.by[2] - 1 \in 1 .. m.by[2]
      BY <3>1, ChannelFacts
    <3> QED
      BY <1>1, <1>7, <3>1, <3>2
  <2> QED
    BY <2>1, <2>2, <2>3, <2>4 DEF Ways
<1>10. ASSUME NEW q \in Req PROVE Overwritten(q)' \/ Undisturbed(q)'
  <2>1. CASE Overwritten(q)
    BY <1>8, <2>1, OverwrittenStays
  <2>2. CASE Undisturbed(q) /\ q # r
    <3>1. SameFor(q)
      BY <1>1, <1>3, <2>2 DEF SameFor
    <3> QED
      BY <2>2, <3>1, OthersUndisturbed
  <2>3. CASE Undisturbed(q) /\ q = r
    <3>1. WaitingBefore(r, k + 1)
      BY <1>1, <2>3 DEF Undisturbed
    <3>2. WaitingBefore(r, Len(path[r]))'
      BY <1>1, <1>4, <3>1 DEF WaitingBefore
    <3>3. /\ \A i \in 1 .. MaxPath : buffer'[<<r, i>>] \subseteq {r}
          /\ \A m \in replies' : m.by[1] = r => m.of = r
      BY <1>1, <2>3 DEF Undisturbed
    <3> QED
      BY <1>3, <2>3, <3>2, <3>3 DEF Undisturbed
  <2> QED
    BY <2>1, <2>2, <2>3 DEF ForwardInv
<1> QED
  BY <1>6, <1>9, <1>10 DEF ForwardInv

\* A node takes in a request that another forwarded (node.recv).
LEMMA ReceiveRequestStep ==
  ASSUME ForwardInv, NEW n \in Server, NEW r \in Req, ReceiveRequest(n, r)
  PROVE  ForwardInv'
<1> DEFINE k == Len(path[r])
<1>1. /\ place[r] = "flying" /\ k \in Nat /\ k >= 1 /\ k <= MaxPath
      /\ place' = [place EXCEPT ![r] = "held"] /\ waiting' = waiting \cup {<<r, k>>}
      /\ path' = path /\ forwards' = forwards /\ buffer' = buffer /\ replies' = replies
      /\ answer' = answer
  BY RequestFacts DEF ReceiveRequest, Mine
<1>2. /\ place'[r] = "held" /\ \A q \in Req : q # r => place'[q] = place[q]
      /\ <<r, k>> \in Channel /\ ~Came(<<r, k>>)
  BY <1>1, RequestFacts DEF ForwardInv, ForwardTypes, Mine, Came
<1>3. ForwardTypes'
  BY <1>1, <1>2 DEF ForwardInv, ForwardTypes
<1>4. ASSUME NEW c \in Channel, Came(c) PROVE Came(c)' /\ c # <<r, k>>
  BY <1>1, <1>2, <1>4, ChannelFacts DEF Came
<1>5. ASSUME NEW p, NEW t PROVE Forwarded(p, t)' = Forwarded(p, t)
  BY <1>1, ForwardedKept
<1>6. Ways'
  <2>1. \A p \in Server, t \in Texts :
          Forwarded(p, t)' # {} => forwards'[p][t] \in Forwarded(p, t)'
    BY <1>1, <1>5 DEF ForwardInv, Ways
  <2>2. \A c \in waiting' : Came(c)'
    <3>1. Came(<<r, k>>)'
      BY <1>1, <1>2 DEF Came
    <3> QED
      BY <1>1, <1>4, <3>1 DEF ForwardInv, Ways, ForwardTypes
  <2>3. \A c \in Channel : \A q \in buffer'[c] : Came(c)' /\ Text[q] = Text[c[1]]
    BY <1>1, <1>4 DEF ForwardInv, Ways
  <2>4. \A m \in replies' : /\ Came(m.by)' /\ m.by[2] > 1 /\ m.by \notin waiting'
                            /\ m.to = path'[m.by[1]][m.by[2] - 1]
                            /\ Text[m.of] = Text[m.by[1]]
    BY <1>1, <1>4 DEF ForwardInv, Ways, ForwardTypes
  <2> QED
    BY <2>1, <2>2, <2>3, <2>4 DEF Ways
<1>7. ASSUME NEW q \in Req PROVE Overwritten(q)' \/ Undisturbed(q)'
  <2>1. CASE Overwritten(q)
    BY <1>5, <2>1, OverwrittenStays
  <2>2. CASE Undisturbed(q) /\ q # r
    <3>1. SameFor(q)
      BY <1>1, <1>2, <2>2 DEF SameFor
    <3> QED
      BY <2>2, <3>1, OthersUndisturbed
  <2>3. CASE Undisturbed(q) /\ q = r
    <3>1. WaitingBefore(r, k) /\ buffer[<<r, k>>] = {}
      BY <1>1, <1>2, <2>3 DEF Undisturbed, ForwardInv, Ways
    <3>2. WaitingBefore(r, Len(path[r]) + 1)'
      BY <1>1, <3>1 DEF WaitingBefore
    <3>3. /\ \A i \in 1 .. MaxPath : buffer'[<<r, i>>] \subseteq {r}
          /\ \A m \in replies' : m.by[1] = r => m.of = r
      BY <1>1, <2>3 DEF Undisturbed
    <3> QED
      BY <1>2, <2>3, <3>2, <3>3 DEF Undisturbed
  <2> QED
    BY <2>1, <2>2, <2>3 DEF ForwardInv
<1> QED
  BY <1>3, <1>6, <1>7 DEF ForwardInv

\* The node that holds a request answers it (Request.Reply).
LEMMA AnswerAtStep ==
  ASSUME ForwardInv, NEW n \in Server, NEW r \in Req, AnswerAt(n, r)
  PROVE  ForwardInv'
<1> DEFINE k == Len(path[r])
<1>1. /\ place[r] = "held" /\ k \in Nat /\ k >= 1 /\ k <= MaxPath /\ <<r, k>> \in Channel
      /\ place' = [place EXCEPT ![r] = "answered"]
      /\ buffer' = [buffer EXCEPT ![<<r, k>>] = {r}]
      /\ path' = path /\ forwards' = forwards /\ waiting' = waiting /\ replies' = replies
      /\ answer' = answer
  BY RequestFacts DEF AnswerAt, Mine
<1>2. /\ place'[r] = "answered" /\ \A q \in Req : q # r => place'[q] = place[q]
      /\ \A c \in Channel : buffer'[c] = IF c = <<r, k>> THEN {r} ELSE buffer[c]
  BY <1>1 DEF ForwardInv, ForwardTypes
<1>3. ForwardTypes'
  <2>1. buffer' \in [Channel -> SUBSET Req] /\ place' \in [Req -> {"client", "held", "flying", "answered"}]
    BY <1>1 DEF ForwardInv, ForwardTypes
  <2> QED
    BY <1>1, <1>2, <2>1 DEF ForwardInv, ForwardTypes
<1>4. ASSUME NEW c \in Channel PROVE Came(c)' = Came(c)
  BY <1>1, <1>2, ChannelFacts DEF Came
<1>5. Came(<<r, k>>)
  BY <1>1 DEF Came
<1>6. ASSUME NEW p, NEW t PROVE Forwarded(p, t)' = Forwarded(p, t)
  BY <1>1, ForwardedKept
<1>7. Ways'
  <2>1. \A p \in Server, t \in Texts :
          Forwarded(p, t)' # {} => forwards'[p][t] \in Forwarded(p, t)'
    BY <1>1, <1>6 DEF ForwardInv, Ways
  <2>2. \A c \in waiting' : Came(c)'
    BY <1>1, <1>4 DEF ForwardInv, Ways, ForwardTypes
  <2>3. \A c \in Channel : \A q \in buffer'[c] : Came(c)' /\ Text[q] = Text[c[1]]
    BY <1>1, <1>2, <1>4, <1>5 DEF ForwardInv, Ways
  <2>4. \A m \in replies' : /\ Came(m.by)' /\ m.by[2] > 1 /\ m.by \notin waiting'
                            /\ m.to = path'[m.by[1]][m.by[2] - 1]
                            /\ Text[m.of] = Text[m.by[1]]
    BY <1>1, <1>4 DEF ForwardInv, Ways, ForwardTypes
  <2> QED
    BY <2>1, <2>2, <2>3, <2>4 DEF Ways
<1>8. ASSUME NEW q \in Req PROVE Overwritten(q)' \/ Undisturbed(q)'
  <2>1. CASE Overwritten(q)
    BY <1>6, <2>1, OverwrittenStays
  <2>2. CASE Undisturbed(q) /\ q # r
    <3>1. SameFor(q)
      BY <1>1, <1>2, <2>2, ChannelFacts DEF SameFor
    <3> QED
      BY <2>2, <3>1, OthersUndisturbed
  <2>3. CASE Undisturbed(q) /\ q = r
    <3>1. WaitingBefore(r, k + 1)
      BY <1>1, <2>3 DEF Undisturbed
    <3>2. WaitingBefore(r, k)'
      <4>1. ASSUME NEW i \in 1 .. MaxPath, i < k
            PROVE  <<r, i>> \in waiting' /\ buffer'[<<r, i>>] = {}
        <5>1. <<r, i>> \in Channel /\ <<r, i>> # <<r, k>>
          BY <4>1, ChannelFacts
        <5> QED
          BY <1>1, <1>2, <3>1, <4>1, <5>1 DEF WaitingBefore
      <4> QED
        BY <1>1, <4>1 DEF WaitingBefore
    <3>3. OnItsWay(r, k)'
      <4>1. <<r, k>> \in waiting' /\ buffer'[<<r, k>>] = {r}
        BY <1>1, <1>2, <3>1 DEF WaitingBefore
      <4> QED
        BY <1>1, <3>2, <4>1 DEF OnItsWay
    <3>4. /\ \A i \in 1 .. MaxPath : buffer'[<<r, i>>] \subseteq {r}
          /\ \A m \in replies' : m.by[1] = r => m.of = r
      BY <1>1, <1>2, <2>3, ChannelFacts DEF Undisturbed
    <3>5. \E i \in 1 .. Len(path'[r]) : OnItsWay(r, i)'
      BY <1>1, <3>3
    <3> QED
      BY <1>2, <2>3, <3>4, <3>5 DEF Undisturbed
  <2> QED
    BY <2>1, <2>2, <2>3 DEF ForwardInv
<1> QED
  BY <1>3, <1>7, <1>8 DEF ForwardInv

\* A waiter hands a reply on: to the client, or to the node before its own.
LEMMA HandOnStep ==
  ASSUME ForwardInv, NEW r \in Req, NEW k \in 1 .. MaxPath, HandOn(r, k)
  PROVE  ForwardInv'
<1> DEFINE c == <<r, k>>
           sent == {[to |-> path[r][k - 1], of |-> q, by |-> c] : q \in buffer[c]}
<1>1. /\ c \in waiting /\ buffer[c] # {} /\ c \in Channel /\ c[1] = r /\ c[2] = k
      /\ waiting' = waiting \ {c} /\ buffer' = [buffer EXCEPT ![c] = {}]
      /\ path' = path /\ place' = place /\ forwards' = forwards
  BY ChannelFacts DEF HandOn
<1>2. \/ k = 1 /\ answer' = [answer EXCEPT ![r] = buffer[c]] /\ replies' = replies
      \/ k > 1 /\ replies' = replies \cup sent /\ answer' = answer
  BY DEF HandOn
<1>3. /\ Came(c) /\ k \in Nat /\ k <= Len(path[r]) /\ Len(path[r]) \in Nat /\ buffer[c] \subseteq Req
      /\ \A q \in buffer[c] : Text[q] = Text[r]
      /\ \A d \in Channel : buffer'[d] = IF d = c THEN {} ELSE buffer[d]
  <2>1. Came(c) /\ \A q \in buffer[c] : Text[q] = Text[r]
    BY <1>1 DEF ForwardInv, Ways
  <2>2. \A d \in Channel : buffer'[d] = IF d = c THEN {} ELSE buffer[d]
    BY <1>1 DEF ForwardInv, ForwardTypes
  <2>3. k \in Nat /\ Len(path[r]) \in Nat /\ buffer[c] \subseteq Req
    BY <1>1, RequestFacts, ForwardingAssumption DEF ForwardInv, ForwardTypes
  <2> QED
    BY <1>1, <2>1, <2>2, <2>3 DEF Came
<1> HIDE DEF c
<1>4. ASSUME NEW m \in sent, k > 1
      PROVE  /\ m.to = path[r][k - 1] /\ m.to \in Server /\ m.of \in buffer[c] /\ m.by = c
             /\ m \in [to : Server, of : Req, by : Channel]
  <2>1. path[r][k - 1] \in Server
    BY <1>3, <1>4, RequestFacts
  <2> QED
    BY <1>1, <1>3, <2>1
<1>5. ASSUME NEW m \in replies' PROVE m \in replies \/ (m \in sent /\ k > 1)
  BY <1>2
<1> HIDE DEF sent
<1>6. ForwardTypes'
  <2>1. buffer' \in [Channel -> SUBSET Req] /\ answer' \in [Req -> SUBSET Req]
    BY <1>1, <1>2, <1>3 DEF ForwardInv, ForwardTypes
  <2>2. replies' \subseteq [to : Server, of : Req, by : Channel]
    BY <1>4, <1>5 DEF ForwardInv, ForwardTypes
  <2> QED
    BY <1>1, <2>1, <2>2 DEF ForwardInv, ForwardTypes
<1>7. ASSUME NEW d \in Channel PROVE Came(d)' = Came(d)
  BY <1>1 DEF Came
<1>8. ASSUME NEW p, NEW t PROVE Forwarded(p, t)' = Forwarded(p, t)
  BY <1>1, ForwardedKept
<1>9. Ways'
  <2>1. \A p \in Server, t \in Texts :
          Forwarded(p, t)' # {} => forwards'[p][t] \in Forwarded(p, t)'
    BY <1>1, <1>8 DEF ForwardInv, Ways
  <2>2. \A d \in waiting' : Came(d)'
    BY <1>1, <1>7 DEF ForwardInv, Ways, ForwardTypes
  <2>3. \A d \in Channel : \A q \in buffer'[d] : Came(d)' /\ Text[q] = Text[d[1]]
    BY <1>3, <1>7 DEF ForwardInv, Ways
  <2>4. ASSUME NEW m \in replies'
        PROVE  /\ Came(m.by)' /\ m.by[2] > 1 /\ m.by \notin waiting'
               /\ m.to = path'[m.by[1]][m.by[2] - 1]
               /\ Text[m.of] = Text[m.by[1]]
    <3>1. CASE m \in replies
      BY <1>1, <1>7, <3>1 DEF ForwardInv, Ways, ForwardTypes
    <3>2. CASE m \in sent /\ k > 1
      BY <1>1, <1>3, <1>4, <1>7, <3>2
    <3> QED
      BY <1>5, <3>1, <3>2
  <2> QED
    BY <2>1, <2>2, <2>3, <2>4 DEF Ways
<1>10. ASSUME NEW q \in Req PROVE Overwritten(q)' \/ Undisturbed(q)'
  <2>1. CASE Overwritten(q)
    BY <1>8, <2>1, OverwrittenStays
  <2>2. CASE Undisturbed(q) /\ q # r
    <3>1. \A i \in 1 .. MaxPath : <<q, i>> \in Channel /\ <<q, i>> # c
      BY <1>1, <2>2, ChannelFacts DEF c
    <3>2. \A m : m.by[1] = q => (m \in replies <=> m \in replies')
      BY <1>1, <1>2, <1>4, <1>5, <2>2
    <3>3. answer'[q] = answer[q]
      BY <1>2, <2>2 DEF ForwardInv, ForwardTypes
    <3>4. SameFor(q)
      BY <1>1, <1>3, <3>1, <3>2, <3>3 DEF SameFor
    <3> QED
      BY <2>2, <3>4, OthersUndisturbed
  <2>3. CASE Undisturbed(q) /\ q = r
    <3>1. buffer[c] = {r}
      BY <1>1, <2>3 DEF Undisturbed, c
    <3>2. \A i \in 1 .. MaxPath : buffer'[<<r, i>>] \subseteq {r}
      BY <1>3, <2>3, ChannelFacts DEF Undisturbed
    <3>3. \A m \in replies' : m.by[1] = r => m.of = r
      BY <1>4, <1>5, <2>3, <3>1 DEF Undisturbed
    <3>4. ASSUME NEW i \in Int, WaitingBefore(r, i) PROVE i <= k
      <4>1. k < i => buffer[c] = {}
        BY <3>4 DEF WaitingBefore, c
      <4> QED
        BY <1>3, <3>1, <3>4, <4>1
    <3>5. ASSUME NEW i \in Int, WaitingBefore(r, i), i <= k PROVE WaitingBefore(r, i)'
      <4>1. ASSUME NEW j \in 1 .. MaxPath, j < i
            PROVE  <<r, j>> \in waiting' /\ buffer'[<<r, j>>] = {}
        <5>1. <<r, j>> \in Channel /\ <<r, j>> # c
          BY <1>3, <3>5, <4>1, ChannelFacts DEF c
        <5> QED
          BY <1>1, <1>3, <3>5, <4>1, <5>1 DEF WaitingBefore
      <4> QED
        BY <4>1 DEF WaitingBefore
    <3>6. place[r] \notin {"held", "flying"}
      <4>1. CASE place[r] = "held"
        BY <1>3, <2>3, <3>4, <4>1 DEF Undisturbed
      <4>2. CASE place[r] = "flying"
        <5>1. k < Len(path[r])
          BY <1>1, <1>3, <4>2 DEF Came
        <5> QED
          BY <1>3, <2>3, <3>4, <4>2, <5>1 DEF Undisturbed
      <4> QED
        BY <4>1, <4>2
    <3>7. ASSUME place[r] = "answered"
          PROVE  answer'[r] = {r} \/ \E i \in 1 .. Len(path[r]) : OnItsWay(r, i)'
      <4>1. CASE k = 1
        BY <1>2, <3>1, <4>1 DEF ForwardInv, ForwardTypes
      <4>2. CASE k > 1 /\ answer[r] = {r}
        BY <1>2, <4>2
      <4>3. ASSUME k > 1, NEW i \in 1 .. Len(path[r]), OnItsWay(r, i)
            PROVE  \E j \in 1 .. Len(path[r]) : OnItsWay(r, j)'
        <5>1. /\ i \in Nat /\ i >= 1 /\ i <= MaxPath /\ i <= Len(path[r]) /\ <<r, i>> \in Channel
              /\ WaitingBefore(r, i) /\ <<r, i>> \in waiting /\ i <= k
          BY <1>3, <3>4, <4>3, RequestFacts, ChannelFacts, ForwardingAssumption DEF OnItsWay
        <5>2. CASE i = k
          <6>1. <<r, k - 1>> \in Channel /\ <<r, k - 1>> # c /\ k - 1 \in 1 .. MaxPath
            BY <4>3, <5>1, <5>2, ChannelFacts, ForwardingAssumption DEF c
          <6>2. <<r, k - 1>> \in waiting' /\ buffer'[<<r, k - 1>>] = {}
            BY <1>1, <1>3, <5>1, <5>2, <6>1 DEF WaitingBefore
          <6>3. WaitingBefore(r, k - 1)
            BY <1>3, <5>1, <5>2 DEF WaitingBefore
          <6>4. WaitingBefore(r, k - 1)'
            BY <1>3, <3>5, <6>3
          <6>5. [to |-> path[r][k - 1], of |-> r, by |-> c] \in sent
            BY <3>1 DEF sent
          <6>6. [to |-> path'[r][k - 1], of |-> r, by |-> <<r, k - 1 + 1>>] \in replies'
            BY <1>1, <1>2, <1>3, <4>3, <6>5 DEF c
          <6>7. k - 1 < Len(path'[r])
            BY <1>1, <1>3
          <6>8. OnItsWay(r, k - 1)'
            BY <6>2, <6>4, <6>6, <6>7, ZenonT(30) DEF OnItsWay
          <6> QED
            BY <1>3, <4>3, <6>8
        <5>3. CASE i < k
          <6>1. <<r, i>> # c
            BY <5>1, <5>3 DEF c
          <6>2. <<r, i>> \in waiting' /\ WaitingBefore(r, i)' /\ buffer'[<<r, i>>] = buffer[<<r, i>>]
            BY <1>1, <1>3, <3>5, <5>1, <6>1
          <6>3. replies \subseteq replies'
            BY <1>2
          <6>4. OnItsWay(r, i)'
            BY <1>1, <4>3, <6>2, <6>3 DEF OnItsWay
          <6> QED
            BY <4>3, <6>4
        <5> QED
          BY <1>3, <5>1, <5>2, <5>3
      <4> QED
        BY <1>2, <2>3, <3>7, <4>1, <4>2, <4>3 DEF Undisturbed
    <3> QED
      BY <1>1, <2>3, <3>2, <3>3, <3>6, <3>7 DEF Undisturbed
  <2> QED
    BY <2>1, <2>2, <2>3 DEF ForwardInv
<1> QED
  BY <1>6, <1>9, <1>10 DEF ForwardInv

\* A node gives a reply to the last request it forwarded under its text
\* (node.recv on a Reply).
LEMMA ReceiveReplyStep ==
  ASSUME ForwardInv, NEW n \in Server, NEW m \in replies, ReceiveReply(n, m)
  PROVE  ForwardInv'
<1> DEFINE c == forwards[n][Text[m.of]]
           p == m.by[1]
           k == m.by[2]
<1>1. /\ m.to = n /\ buffer[c] = {}
      /\ buffer' = [buffer EXCEPT ![c] = {m.of}] /\ replies' = replies \ {m}
      /\ path' = path /\ place' = place /\ forwards' = forwards /\ waiting' = waiting
      /\ answer' = answer
  BY DEF ReceiveReply
<1>2. /\ m.of \in Req /\ m.by \in Channel /\ Came(m.by) /\ k > 1 /\ m.by \notin waiting
      /\ n = path[p][k - 1] /\ Text[m.of] = Text[p]
  BY <1>1 DEF ForwardInv, ForwardTypes, Ways
<1>3. /\ p \in Req /\ k \in 1 .. MaxPath /\ k \in Nat /\ m.by = <<p, k>>
      /\ Len(path[p]) \in Nat /\ k <= Len(path[p]) /\ (place[p] = "flying" => k < Len(path[p]))
  BY <1>2, ChannelFacts, RequestFacts DEF Came
<1> HIDE DEF c, p, k
<1>4. k - 1 \in 1 .. MaxPath /\ <<p, k - 1>> \in Channel /\ k - 1 < Len(path[p])
  BY <1>2, <1>3, ChannelFacts, ForwardingAssumption
<1>5. <<p, k - 1>> \in Forwarded(n, Text[p])
  BY <1>2, <1>4 DEF Forwarded
<1>6. c \in Forwarded(n, Text[p])
  <2>1. Text[p] \in Texts
    BY <1>3 DEF Texts
  <2> QED
    BY <1>2, <1>5, <2>1 DEF ForwardInv, Ways, c
<1>7. c \in Channel /\ Text[c[1]] = Text[p] /\ c[2] < Len(path[c[1]]) /\ Came(c)
  <2>1. c \in Channel /\ Text[c[1]] = Text[p] /\ c[2] < Len(path[c[1]])
    BY <1>6 DEF Forwarded
  <2>2. c[2] \in Nat /\ Len(path[c[1]]) \in Nat
    BY <2>1, ChannelFacts, RequestFacts
  <2> QED
    BY <2>1, <2>2 DEF Came
<1>8. \A d \in Channel : buffer'[d] = IF d = c THEN {m.of} ELSE buffer[d]
  BY <1>1, <1>7 DEF ForwardInv, ForwardTypes
<1>9. ForwardTypes'
  <2>1. buffer' \in [Channel -> SUBSET Req] /\ replies' \subseteq [to : Server, of : Req, by : Channel]
    BY <1>1, <1>2, <1>7 DEF ForwardInv, ForwardTypes
  <2> QED
    BY <1>1, <2>1 DEF ForwardInv, ForwardTypes
<1>10. ASSUME NEW d \in Channel PROVE Came(d)' = Came(d)
  BY <1>1 DEF Came
<1>11. ASSUME NEW s, NEW t PROVE Forwarded(s, t)' = Forwarded(s, t)
  BY <1>1, ForwardedKept
<1>12. Ways'
  <2>1. \A s \in Server, t \in Texts :
          Forwarded(s, t)' # {} => forwards'[s][t] \in Forwarded(s, t)'
    BY <1>1, <1>11 DEF ForwardInv, Ways
  <2>2. \A d \in waiting' : Came(d)'
    BY <1>1, <1>10 DEF ForwardInv, Ways, ForwardTypes
  <2>3. \A d \in Channel : \A q \in buffer'[d] : Came(d)' /\ Text[q] = Text[d[1]]
    BY <1>2, <1>7, <1>8, <1>10 DEF ForwardInv, Ways
  <2>4. \A w \in replies' : /\ Came(w.by)' /\ w.by[2] > 1 /\ w.by \notin waiting'
                            /\ w.to = path'[w.by[1]][w.by[2] - 1]
                            /\ Text[w.of] = Text[w.by[1]]
    BY <1>1, <1>10 DEF ForwardInv, Ways, ForwardTypes
  <2> QED
    BY <2>1, <2>2, <2>3, <2>4 DEF Ways
<1>13. ASSUME NEW q \in Req PROVE Overwritten(q)' \/ Undisturbed(q)'
  <2>1. CASE Overwritten(q)
    BY <1>11, <2>1, OverwrittenStays
  <2>2. CASE Undisturbed(q) /\ q # p /\ q # c[1]
    <3>1. \A i \in 1 .. MaxPath : <<q, i>> \in Channel /\ <<q, i>> # c
      BY <2>2, ChannelFacts
    <3>2. \A w : w.by[1] = q => (w \in replies <=> w \in replies')
      BY <1>1, <2>2 DEF p
    <3>3. SameFor(q)
      BY <1>1, <1>8, <3>1, <3>2 DEF SameFor
    <3> QED
      BY <2>2, <3>3, OthersUndisturbed
  <2>3. CASE ~Overwritten(q) /\ Undisturbed(q) /\ (q = p \/ q = c[1])
    <3>1. c = <<p, k - 1>>
      <4>1. Text[q] = Text[p] /\ n \in Server
        BY <1>7, <2>3
      <4> QED
        BY <1>5, <1>6, <2>3, <4>1, OnlyOneForwarded
    <3>2. q = p /\ m.of = p
      BY <2>3, <3>1 DEF Undisturbed, p
    <3>3. Undisturbed(p)
      BY <2>3, <3>2
    <3>4. \A i \in 1 .. MaxPath : buffer'[<<p, i>>] \subseteq {p}
      BY <1>3, <1>8, <3>2, <3>3, ChannelFacts DEF Undisturbed
    <3>5. \A w \in replies' : w.by[1] = p => w.of = p
      BY <1>1, <3>3 DEF Undisturbed
    <3>6. ASSUME NEW i \in Int, WaitingBefore(p, i) PROVE i <= k
      <4>1. k < i => m.by \in waiting
        BY <1>3, <3>6 DEF WaitingBefore
      <4> QED
        BY <1>2, <1>3, <3>6, <4>1
    <3>7. place[p] \notin {"held", "flying"}
      <4>1. CASE place[p] = "held"
        BY <1>3, <3>3, <3>6, <4>1 DEF Undisturbed
      <4>2. CASE place[p] = "flying"
        BY <1>3, <3>3, <3>6, <4>2 DEF Undisturbed
      <4> QED
        BY <4>1, <4>2
    <3>8. ASSUME NEW i \in 1 .. Len(path[p]), OnItsWay(p, i) PROVE OnItsWay(p, i)'
      <4>1. /\ i \in Nat /\ i <= MaxPath /\ i \in 1 .. MaxPath /\ <<p, i>> \in Channel
            /\ WaitingBefore(p, i) /\ <<p, i>> \in waiting
        BY <1>3, <3>8, RequestFacts, ChannelFacts, ForwardingAssumption DEF OnItsWay
      <4>2. i < k
        <5>1. i <= k /\ i # k
          BY <1>2, <1>3, <3>6, <4>1
        <5> QED
          BY <1>3, <4>1, <5>1
      <4>3. WaitingBefore(p, i)'
        <5>1. ASSUME NEW j \in 1 .. MaxPath, j < i
              PROVE  <<p, j>> \in waiting' /\ buffer'[<<p, j>>] = {}
          <6>1. j # k - 1
            BY <1>3, <4>1, <4>2, <5>1, ForwardingAssumption
          <6>2. <<p, j>> \in Channel /\ <<p, j>> # c
            BY <1>3, <3>1, <6>1, ChannelFacts
          <6> QED
            BY <1>1, <1>8, <4>1, <5>1, <6>2 DEF WaitingBefore
        <5> QED
          BY <5>1 DEF WaitingBefore
      <4>4. CASE i = k - 1
        <5>1. buffer'[<<p, i>>] = {p}
          BY <1>7, <1>8, <3>1, <3>2, <4>4
        <5> QED
          BY <1>1, <4>1, <4>3, <5>1, ZenonT(30) DEF OnItsWay
      <4>5. CASE i # k - 1
        <5>1. buffer'[<<p, i>>] = buffer[<<p, i>>]
          BY <1>8, <3>1, <4>1, <4>5
        <5>2. [to |-> path[p][i], of |-> p, by |-> <<p, i + 1>>] # m
          <6>1. i + 1 # k
            BY <1>3, <4>1, <4>5
          <6> QED
            BY <6>1 DEF k
        <5>3. \/ buffer[<<p, i>>] = {p}
              \/ /\ buffer[<<p, i>>] = {} /\ i < Len(path[p])
                 /\ [to |-> path[p][i], of |-> p, by |-> <<p, i + 1>>] \in replies
          BY <3>8 DEF OnItsWay
        <5>4. \/ buffer'[<<p, i>>] = {p}
              \/ /\ buffer'[<<p, i>>] = {} /\ i < Len(path'[p])
                 /\ [to |-> path'[p][i], of |-> p, by |-> <<p, i + 1>>] \in replies'
          BY <1>1, <5>1, <5>2, <5>3
        <5> QED
          BY <1>1, <4>1, <4>3, <5>4, ZenonT(30) DEF OnItsWay
      <4> QED
        BY <4>4, <4>5
    <3>9. place'[p] = "answered" =>
            answer'[p] = {p} \/ \E i \in 1 .. Len(path'[p]) : OnItsWay(p, i)'
      BY <1>1, <3>3, <3>8 DEF Undisturbed
    <3> QED
      BY <1>1, <3>2, <3>4, <3>5, <3>7, <3>9 DEF Undisturbed
  <2> QED
    BY <2>1, <2>2, <2>3 DEF ForwardInv
<1> QED
  BY <1>9, <1>12, <1>13 DEF ForwardInv

\* Every step of a request's journey keeps the invariant.
LEMMA ForwardStepAll ==
  ASSUME ForwardInv, ForwardNext \/ UNCHANGED forwardVars
  PROVE  ForwardInv'
<1>1. ASSUME NEW n \in Server, NEW r \in Req,
             SubmitTo(n, r) \/ Forward(n, r) \/ ReceiveRequest(n, r) \/ AnswerAt(n, r)
      PROVE  ForwardInv'
  BY <1>1, SubmitToStep, ForwardStep, ReceiveRequestStep, AnswerAtStep
<1>2. ASSUME NEW r \in Req, NEW k \in 1 .. MaxPath, HandOn(r, k) PROVE ForwardInv'
  BY <1>2, HandOnStep
<1>3. ASSUME NEW n \in Server, NEW m \in replies, ReceiveReply(n, m) PROVE ForwardInv'
  BY <1>3, ReceiveReplyStep
<1>4. CASE UNCHANGED forwardVars
  <2>1. /\ path' = path /\ place' = place /\ forwards' = forwards /\ buffer' = buffer
        /\ waiting' = waiting /\ replies' = replies /\ answer' = answer
    BY <1>4 DEF forwardVars
  <2>2. ForwardTypes'
    BY <2>1 DEF ForwardInv, ForwardTypes
  <2>3. ASSUME NEW n, NEW t PROVE Forwarded(n, t)' = Forwarded(n, t)
    BY <2>1, ForwardedKept
  <2>4. ASSUME NEW c PROVE Came(c)' = Came(c)
    BY <2>1 DEF Came
  <2>5. Ways'
    BY <2>1, <2>3, <2>4 DEF ForwardInv, Ways
  <2>6. ASSUME NEW r \in Req PROVE Overwritten(r)' \/ Undisturbed(r)'
    <3>1. SameFor(r)
      BY <2>1 DEF SameFor
    <3> QED
      BY <2>3, <3>1, OverwrittenStays, OthersUndisturbed DEF ForwardInv
  <2> QED
    BY <2>2, <2>5, <2>6 DEF ForwardInv
<1> QED
  BY <1>1, <1>2, <1>3, <1>4 DEF ForwardNext

\* Before anything is sent there are no channels, and nothing in them.
LEMMA ForwardStart ==
  ASSUME ForwardInit
  PROVE  ForwardInv
<1>1. /\ path = [r \in Req |-> <<>>] /\ place = [r \in Req |-> "client"]
      /\ forwards = [n \in Server |-> [t \in Texts |-> NoChannel]]
      /\ buffer = [c \in Channel |-> {}] /\ waiting = {} /\ replies = {}
      /\ answer = [r \in Req |-> {}]
  BY DEF ForwardInit, Texts
<1>2. ForwardTypes
  BY <1>1, ForwardingAssumption DEF ForwardTypes
<1>3. ASSUME NEW n, NEW t PROVE Forwarded(n, t) = {}
  BY <1>1, ChannelFacts DEF Forwarded
<1>4. Ways
  BY <1>1, <1>3 DEF Ways
<1>5. ASSUME NEW r \in Req PROVE Undisturbed(r)
  BY <1>1, ChannelFacts DEF Undisturbed
<1> QED
  BY <1>2, <1>4, <1>5 DEF ForwardInv

\* When nothing is under way, no reply is either.
LEMMA ForwardInvAnswers ==
  ASSUME ForwardInv
  PROVE  AnswersComeHome
<1> SUFFICES ASSUME replies = {}, \A c \in waiting : buffer[c] = {},
                    NEW r \in Req, place[r] = "answered", ~Overwritten(r)
             PROVE  answer[r] = {r}
  BY DEF AnswersComeHome
<1>1. Undisturbed(r)
  BY DEF ForwardInv
<1>2. ASSUME NEW k \in 1 .. Len(path[r]), OnItsWay(r, k) PROVE FALSE
  <2>1. <<r, k>> \in waiting /\ buffer[<<r, k>>] = {r}
    BY <1>2 DEF OnItsWay
  <2> QED
    BY <2>1
<1> QED
  BY <1>1, <1>2 DEF Undisturbed
-----------------------------------------------------------------------------

\* Every part is in a state of its own invariant.
SupportInv == ClockInv /\ QuorumsInv /\ GroupsInv /\ ForwardInv

\* A behaviour about another part starts from one instance of this one.
LEMMA InstancesFacts ==
  ASSUME NEW s, NEW S, S # {}
  PROVE  Instances(s, S) \in SUBSET S
BY DEF Instances

\* It holds in the beginning.
LEMMA SupportStart == SupportInit => SupportInv
<1> SUFFICES ASSUME SupportInit PROVE SupportInv
  OBVIOUS
<1>1. ClockInv /\ ForwardInv
  BY ClockStart, ForwardStart DEF SupportInit
<1>2. GroupsInv
  <2>1. Instances("groups", Replicas) \in SUBSET Replicas
    BY SomeReplica, InstancesFacts
  <2> QED
    BY <2>1, GroupsStart DEF SupportInit
<1>3. QuorumsInv
  <2>1. Instances("quorums", Layouts) \in SUBSET Layouts
    BY LayoutsAssumption, InstancesFacts
  <2> QED
    BY <2>1, QuorumsStart DEF SupportInit
<1> QED
  BY <1>1, <1>2, <1>3 DEF SupportInv

\* A step of Support is a step of each part, or leaves it alone.
LEMMA StepOfEach ==
  ASSUME [SupportNext]_supportVars
  PROVE  /\ ClockNext \/ UNCHANGED clockVars
         /\ QuorumsNext \/ UNCHANGED quorumVars
         /\ GroupsNext \/ UNCHANGED groupVars
         /\ ForwardNext \/ UNCHANGED forwardVars
<1>1. CASE CheckerRuns
  BY <1>1 DEF CheckerRuns
<1>2. CASE ClockRuns
  BY <1>2 DEF ClockRuns
<1>3. CASE GroupsRun
  BY <1>3 DEF GroupsRun
<1>4. CASE QuorumsRun
  BY <1>4 DEF QuorumsRun
<1>5. CASE DatabaseRuns
  BY <1>5 DEF DatabaseRuns
<1>6. CASE ForwardingRuns
  BY <1>6 DEF ForwardingRuns
<1>7. CASE UNCHANGED supportVars
  BY <1>7 DEF supportVars
<1> QED
  BY <1>1, <1>2, <1>3, <1>4, <1>5, <1>6, <1>7 DEF SupportNext

\* Every step keeps it.
LEMMA SupportStep == SupportInv /\ [SupportNext]_supportVars => SupportInv'
BY StepOfEach, ClockStep, QuorumsStep, GroupsStep, ForwardStepAll DEF SupportInv

\* All parts stay in their invariants: clocks and timestamps stay within what
\* the physical clocks have shown, quorums count what they hold, groups fill up
\* one after the other, and replies retrace their requests (hlc.go, quorum.go,
\* peersToGroups, GetRandomNodeId, node.recv, node.Forward).
THEOREM SupportInvariant == SupportSpec => []SupportInv
BY SupportStart, SupportStep, PTL DEF SupportSpec

\* No clock shows a time that no physical clock has shown, whatever the number
\* of processes, their steps and the size of the logical part (HLC.Update).
THEOREM ClocksNotAhead == SupportSpec => []NotAhead
<1>1. SupportInv => NotAhead
  BY ClockInvNotAhead DEF SupportInv
<1> QED
  BY <1>1, SupportInvariant, PTL

\* A receipt comes after its sending on the hybrid clock, and a clock goes
\* forward, unless a logical part has wrapped (HLC.Now, HLC.Update, ToInt64).
THEOREM ReceiptsAfterSendings == SupportSpec => HappensBefore
<1> DEFINE Ordered ==
      \A p \in Process :
        /\ SendStamped(p) => Before(clock[p], clock'[p]) \/ Wrapped(p)
        /\ \A m \in flying : ReceiveStamped(p, m) =>
             /\ Before(clock[p], clock'[p]) \/ Wrapped(p)
             /\ Before(m.sent, clock'[p]) \/ Wrapped(p) \/ m.sent.logical < 0
<1>1. SupportInv => Ordered
  BY StepsHappenBefore DEF SupportInv
<1>2. SupportInv => [Ordered]_clockVars
  BY <1>1
<1>3. HappensBefore <=> [][Ordered]_clockVars
  BY DEF HappensBefore
<1> HIDE DEF Ordered
<1> QED
  BY <1>2, <1>3, SupportInvariant, PTL

\* Two quorums that meet the tests of one system share a node, for clusters of
\* three nodes or more in whatever zones (ACK, Majority, FastQuorum, GridRow,
\* GridColumn, FGridQ1, FGridQ2).
THEOREM QuorumsIntersect == SupportSpec => []QuorumsMeet
<1>1. SupportInv => QuorumsMeet
  BY QuorumsInvMeet DEF SupportInv
<1> QED
  BY <1>1, SupportInvariant, PTL

\* The relay groups of a replica that has started partition the nodes, whatever
\* the zones and the flags, and the replica is in the group it takes for its own
\* (peersToGroups, NewReplica).
THEOREM RelayGroupsPartition == SupportSpec => []GroupsPartition
<1>1. SupportInv => GroupsPartition
  BY GroupsInvPartition DEF SupportInv
<1> QED
  BY <1>1, SupportInvariant, PTL

\* A replica starts if the zones are numbered from 1 or there are groups and a
\* node for each, and only then: more groups than nodes, no groups and a zone
\* that is left out each end NewReplica.
THEOREM ReplicaStarts == SupportSpec => []StartsIfFlagsFit
<1>1. SupportInv => StartsIfFlagsFit
  BY DEF SupportInv, GroupsInv, Started
<1> QED
  BY <1>1, SupportInvariant, PTL

\* Over however many nodes a request has gone, the client gets the reply to its
\* own request, unless a table had to hold two entries for one text (node.recv,
\* node.Forward, the HTTP handler).
THEOREM RepliesComeHome == SupportSpec => []AnswersComeHome
<1>1. SupportInv => AnswersComeHome
  BY ForwardInvAnswers DEF SupportInv
<1> QED
  BY <1>1, SupportInvariant, PTL
=============================================================================
