---------------------------- MODULE PigNodeProofs ----------------------------
(***************************************************************************)
(* The handlers keep a replica well formed: first what they are built      *)
(* from, then those of phase 1, then those of phases 2 and 3, of recovery  *)
(* and of cleanup.  I and P stand for the ballots issued and the proposals *)
(* made. A handler is quiet if it adds to neither; for the others, Outcome *)
(* says what their messages add.                                           *)
(***************************************************************************)
EXTENDS PigPaxosInv, SequenceTheorems, FiniteSetTheorems, WellFoundedInduction, TLAPS

(* Numbers: how a ballot splits into its counter and its owner (ballot.go), *)
(* and that finite sets of integers have a least and a greatest element.    *)

\* A ballot is made of its counter N and its owner ID (Ballot.N, Ballot.ID).
LEMMA DivMod ==
  ASSUME NEW b \in Nat
  PROVE  /\ N(b) \in Nat
         /\ ID(b) \in 0..(IdSpace - 1)
         /\ b = IdSpace * N(b) + ID(b)
<1>1. b \div IdSpace \in Nat
  BY IdSpaceAssumption
<1>2. b % IdSpace \in 0..(IdSpace - 1)
  BY IdSpaceAssumption
<1>3. b = IdSpace * (b \div IdSpace) + (b % IdSpace)
  BY IdSpaceAssumption
<1> QED
  BY <1>1, <1>2, <1>3 DEF N, ID

\* A product of positive numbers is at least each factor.
LEMMA ProductAtLeast ==
  ASSUME NEW a \in Nat \ {0}, NEW d \in Nat \ {0}
  PROVE  a * d >= a
OBVIOUS

\* The owner of a ballot built by NewBallot is the ID it was built with.
LEMMA OwnerOfNewBallot ==
  ASSUME NEW k \in Nat, NEW id \in 0..(IdSpace - 1)
  PROVE  NewBallot(k, id) \in Nat /\ ID(NewBallot(k, id)) = id
<1> DEFINE b == NewBallot(k, id)
           q == N(b)
           i == ID(b)
<1>1. b \in Nat
  BY IdSpaceAssumption DEF NewBallot
<1>2. q \in Nat /\ i \in 0..(IdSpace - 1) /\ b = IdSpace * q + i
  BY <1>1, DivMod
<1>3. IdSpace * k - IdSpace * q = i - id
  BY <1>1, <1>2, IdSpaceAssumption DEF NewBallot
<1> HIDE DEF b, q, i
<1>4. IdSpace * (k - q) = IdSpace * k - IdSpace * q
  BY <1>2, IdSpaceAssumption
<1>5. ~(k > q)
  BY <1>2, <1>3, <1>4, IdSpaceAssumption, k > q => IdSpace * (k - q) >= IdSpace, ProductAtLeast
<1>6. ~(k < q)
  <2> SUFFICES ASSUME k < q PROVE FALSE
    OBVIOUS
  <2>1. IdSpace * (q - k) >= IdSpace
    BY <1>2, IdSpaceAssumption, ProductAtLeast
  <2>2. IdSpace * (q - k) = IdSpace * q - IdSpace * k
    BY <1>2, IdSpaceAssumption
  <2> QED
    BY <2>1, <2>2, <1>2, <1>3, IdSpaceAssumption
<1>7. i = id
  BY <1>2, <1>3, <1>5, <1>6, IdSpaceAssumption
<1> QED
  BY <1>1, <1>7 DEF b, i

\* Ballot.Next returns a ballot above the old one that belongs to the node it
\* was called with: P1a always moves to a higher ballot of its own.
LEMMA NextBallotFacts ==
  ASSUME NEW b \in Ballot, NEW n \in 0..(IdSpace - 1)
  PROVE  /\ NextBallot(b, n) \in Ballot
         /\ NextBallot(b, n) > b
         /\ ID(NextBallot(b, n)) = n
<1>2. N(b) \in Nat /\ N(b) + 1 \in Nat /\ b = IdSpace * N(b) + ID(b) /\ ID(b) \in 0..(IdSpace - 1)
  BY DivMod DEF Ballot
<1>3. NextBallot(b, n) \in Nat /\ ID(NextBallot(b, n)) = n
  BY <1>2, OwnerOfNewBallot DEF NextBallot
<1>4. ASSUME NEW k \in Nat PROVE (k + 1) * IdSpace = IdSpace * k + IdSpace
  BY IdSpaceAssumption
<1>5. (N(b) + 1) * IdSpace = IdSpace * N(b) + IdSpace
  BY <1>2, <1>4
<1>6. ASSUME NEW x \in Int, NEW y \in Int, NEW i \in 0..(IdSpace - 1),
             b = y + i, x = y + IdSpace + n
      PROVE  x > b
  BY <1>6, IdSpaceAssumption
<1>7. IdSpace * N(b) \in Int /\ NextBallot(b, n) = IdSpace * N(b) + IdSpace + n
  BY <1>2, <1>5, IdSpaceAssumption DEF NextBallot, NewBallot
<1>8. NextBallot(b, n) > b
  BY <1>2, <1>3, <1>6, <1>7
<1> QED
  BY <1>3, <1>8 DEF Ballot

\* The zero ballot has owner 0, which is no node's ID.
LEMMA ZeroBallot == ID(0) = 0
<1>1. NewBallot(0, 0) = 0
  BY IdSpaceAssumption DEF NewBallot
<1> QED
  BY <1>1, OwnerOfNewBallot, IdSpaceAssumption

\* A nonempty set of naturals has a least element, and Min returns it (the
\* slot where exec stops).
LEMMA LeastElement ==
  ASSUME NEW S \in SUBSET Nat, S # {}
  PROVE  Min(S) \in S /\ \A y \in S : Min(S) <= y
<1> DEFINE R == {ss \in Nat \X Nat : ss[1] < ss[2]}
<1>1. IsWellFoundedOn(R, Nat)
  BY NatLessThanWellFounded, Zenon DEF OpToRel
<1> HIDE DEF R
<1>2. PICK x \in S : \A y \in S : ~(<<y, x>> \in R)
  BY <1>1, WFMin
<1>3. ASSUME NEW y \in S PROVE x <= y
  <2>1. <<y, x>> \notin R /\ <<y, x>> \in Nat \X Nat
    BY <1>2
  <2>2. ~(y < x)
    BY <2>1 DEF R
  <2> QED
    BY <2>2
<1> QED
  BY <1>3 DEF Min

\* A nonempty set of integers with an upper bound has a greatest element, and
\* Max returns it (the highest slot).
LEMMA GreatestElement ==
  ASSUME NEW k \in Int, NEW S \in SUBSET Int, S # {}, \A x \in S : x <= k
  PROVE  Max(S) \in S /\ \A y \in S : Max(S) >= y
<1> DEFINE T == {k - x : x \in S}
<1>1. T \in SUBSET Nat /\ T # {}
  <2>1. ASSUME NEW x \in S PROVE k - x \in Nat
    OBVIOUS
  <2> QED
    BY <2>1
<1>2. Min(T) \in T /\ \A y \in T : Min(T) <= y
  BY <1>1, LeastElement
<1>3. PICK x \in S : Min(T) = k - x
  BY <1>2
<1>4. ASSUME NEW y \in S PROVE x >= y
  <2>1. k - y \in T
    OBVIOUS
  <2>2. k - x <= k - y
    BY <1>2, <1>3, <2>1
  <2> QED
    BY <2>2
<1> QED
  BY <1>4 DEF Max

-----------------------------------------------------------------------------
(* Replicas and their messages.                                             *)

\* What is assumed of the ballots issued and the proposals made.
Context(I, P) ==
  /\ I \subseteq Ballot /\ \A b \in I : ID(b) \in Node
  /\ P \subseteq Ballot \X Slot \X Cmd
  /\ ProposalsOK(I, P)

\* A well-formed replica.
Good(I, P, r) == r \in Replica /\ ReplicaOK(I, P, r)

\* What no handler does: change the node's name, lower its ballot, or stop
\* leading a ballot without moving to a higher one.
Keeps(r, t) ==
  /\ t.id = r.id
  /\ r.ballot <= t.ballot
  /\ r.active /\ ~t.active => r.ballot < t.ballot

-----------------------------------------------------------------------------
\* The owner of a ballot is an integer (it may be 0, nobody: Node.Forward to
\* the leader of the zero ballot goes nowhere).
LEMMA OwnerIsInt == \A b \in Ballot : ID(b) \in Int
BY DivMod DEF Ballot

\* Node IDs are the nonzero values of the lower half of a ballot.
LEMMA NodeIsPositive == \A n \in Node : n \in Nat /\ n # 0 /\ n \in 0..(IdSpace - 1)
BY NodeAssumption, IdSpaceAssumption

\* A known ballot with an owner was issued.
LEMMA OwnedBallot ==
  ASSUME NEW I, NEW P, Context(I, P), NEW b, KnownBallot(I, b), ID(b) \in Node
  PROVE  b \in I /\ b # 0
BY ZeroBallot, NodeIsPositive DEF KnownBallot

\* A known ballot is a ballot.
LEMMA KnownIsBallot ==
  ASSUME NEW I, NEW P, Context(I, P), NEW b, KnownBallot(I, b)
  PROVE  b \in Ballot
BY DEF KnownBallot, Context, Ballot

\* The P1a's that Broadcast sends for an issued ballot are well formed, and
\* none is addressed to the owner of the ballot.
LEMMA RoutedP1aOK ==
  ASSUME NEW I, NEW P, Context(I, P), NEW b \in I
  PROVE  \A m \in RoutedP1a(ID(b), b) : m \in Message /\ MsgOK(I, P, m)
<1>1. \A d \in Relays(ID(b)) : d \in SUBSET Node /\ ID(b) \notin d
  BY GroupsAssumption DEF Relays
<1> QED
  BY <1>1 DEF RoutedP1a, Message, MsgOK, Context

\* The same for the P2a's of a proposal.
LEMMA RoutedP2aOK ==
  ASSUME NEW I, NEW P, Context(I, P), NEW b \in I, NEW s \in Slot, NEW c \in Cmd,
         NEW p3 \in P3Info, <<b, s, c>> \in P
  PROVE  \A m \in RoutedP2a(ID(b), b, s, c, p3) : m \in Message /\ MsgOK(I, P, m)
<1>1. \A d \in Relays(ID(b)) : d \in SUBSET Node /\ ID(b) \notin d
  BY GroupsAssumption DEF Relays
<1> QED
  BY <1>1 DEF RoutedP2a, Message, MsgOK, Context

\* The P3's that Broadcast sends are well formed.
LEMMA RoutedP3OK ==
  ASSUME NEW I, NEW P, NEW n \in Node, NEW p3 \in P3Info
  PROVE  \A m \in RoutedP3(n, p3) : m \in Message /\ MsgOK(I, P, m)
<1>1. \A d \in Relays(n) : d \in SUBSET Node
  BY GroupsAssumption DEF Relays
<1> QED
  BY <1>1 DEF RoutedP3, Message, MsgOK

\* Sending well-formed messages keeps a replica well formed.
LEMMA EmitGood ==
  ASSUME NEW I, NEW P, NEW r, Good(I, P, r), NEW ms,
         \A m \in ms : m \in Message /\ MsgOK(I, P, m)
  PROVE  Good(I, P, Emit(r, ms)) /\ Keeps(r, Emit(r, ms))
<1>1. Emit(r, ms) \in Replica
  BY DEF Good, Emit, Replica
<1>2. ReplicaOK(I, P, Emit(r, ms))
  BY DEF Good, Emit, Replica, ReplicaOK, LogOK, OwnerOK, RelayOK
<1>3. Keeps(r, Emit(r, ms))
  BY DEF Good, Emit, Replica, Keeps, Ballot
<1> QED
  BY <1>1, <1>2, <1>3 DEF Good

\* Node.Forward keeps a replica well formed.
LEMMA ForwardGood ==
  ASSUME NEW I, NEW P, NEW r, Good(I, P, r), NEW id \in Int, NEW cs \in SUBSET Cmd
  PROVE  Good(I, P, Forward(r, id, cs)) /\ Keeps(r, Forward(r, id, cs))
<1>1. \A m \in {[type |-> "Request", command |-> c, dst |-> {id}] : c \in cs} :
         m \in Message /\ MsgOK(I, P, m)
  BY DEF Message, MsgOK
<1> QED
  BY <1>1, EmitGood DEF Forward

\* sendRecoverRequest keeps a replica well formed.
LEMMA SendRecoverRequestGood ==
  ASSUME NEW I, NEW P, NEW r, Good(I, P, r), NEW b \in Ballot, NEW S \in SUBSET Slot
  PROVE  Good(I, P, SendRecoverRequest(r, b, S)) /\ Keeps(r, SendRecoverRequest(r, b, S))
<1>1. r.id \in Node /\ ID(b) \in Int
  BY OwnerIsInt DEF Good, Replica
<1>2. \A m \in {[type |-> "RecoverRequest", slot |-> s, id |-> r.id, dst |-> {ID(b)}] : s \in S} :
         m \in Message /\ MsgOK(I, P, m)
  BY <1>1 DEF Message, MsgOK
<1> QED
  BY <1>2, EmitGood DEF SendRecoverRequest

-----------------------------------------------------------------------------
\* exec stops at a slot no lower than execute, and every slot it passes is
\* committed and no placeholder.
LEMMA ExecuteEndFacts ==
  ASSUME NEW r \in Replica
  PROVE  /\ ExecuteEnd(r) \in r.execute..(MaxSlot + 1)
         /\ \A s \in r.execute..(ExecuteEnd(r) - 1) :
              s \in Slot /\ r.log[s].status = "committed" /\ r.log[s].ballot # 0
<1> DEFINE S == {s \in r.execute..(MaxSlot + 1) : s = MaxSlot + 1 \/ ~Executable(r.log[s])}
<1>1. r.execute \in 0..(MaxSlot + 1)
  BY DEF Replica
<1>2. S \in SUBSET Nat /\ MaxSlot + 1 \in S
  BY <1>1, MaxSlotAssumption
<1>3. Min(S) \in S /\ \A y \in S : Min(S) <= y
  BY <1>2, LeastElement
<1>4. ASSUME NEW s \in r.execute..(Min(S) - 1)
      PROVE  s \in Slot /\ r.log[s].status = "committed" /\ r.log[s].ballot # 0
  <2> HIDE DEF S
  <2>1. Min(S) \in Nat /\ Min(S) <= MaxSlot + 1
    BY <1>2, <1>3, MaxSlotAssumption
  <2>2. s \in Slot /\ s < Min(S)
    BY <1>1, <2>1, MaxSlotAssumption DEF Slot
  <2>3. s \notin S
    BY <1>2, <1>3, <2>1, <2>2
  <2> QED
    BY <1>1, <2>1, <2>2, <2>3, MaxSlotAssumption DEF Executable, Slot, S
<1> QED
  BY <1>3, <1>4 DEF ExecuteEnd

\* The part of exec that executes and answers.
Executed(r, end) ==
  [r EXCEPT
     !.execute = end,
     !.db = @ \o [i \in 1..(end - r.execute) |-> r.log[r.execute + i - 1].command],
     !.replies = @ \cup {<<r.log[s].request, r.log[s].command>> :
                           s \in {t \in r.execute..(end - 1) : r.log[t].request # NoCmd}},
     !.log = [s \in Slot |-> IF s \in r.execute..(end - 1) THEN [r.log[s] EXCEPT !.request = NoCmd]
                                           ELSE r.log[s]]]

\* Executing committed slots and answering their requests yields a replica.
LEMMA ExecutedType ==
  ASSUME NEW r \in Replica, NEW end \in r.execute..(MaxSlot + 1),
         \A s \in r.execute..(end - 1) : s \in Slot
  PROVE  Executed(r, end) \in Replica
<1> DEFINE t == Executed(r, end)
           done == r.execute..(end - 1)
<1>1. r.execute \in 0..(MaxSlot + 1)
  BY DEF Replica
<1>2. end \in 0..(MaxSlot + 1) /\ end - r.execute \in Nat
  BY <1>1, MaxSlotAssumption
<1>3. [i \in 1..(end - r.execute) |-> r.log[r.execute + i - 1].command] \in Seq(MaybeCmd)
  <2>1. \A i \in 1..(end - r.execute) : r.execute + i - 1 \in done
    BY <1>1, <1>2, MaxSlotAssumption
  <2>2. \A i \in 1..(end - r.execute) : r.log[r.execute + i - 1].command \in MaybeCmd
    BY <1>1, <2>1 DEF Replica, LogEntry
  <2> QED
    BY <1>2, <2>2
<1>4. r.db \o [i \in 1..(end - r.execute) |-> r.log[r.execute + i - 1].command] \in Seq(MaybeCmd)
  BY <1>1, <1>3, ConcatProperties DEF Replica
<1>5. {<<r.log[s].request, r.log[s].command>> : s \in {x \in done : r.log[x].request # NoCmd}}
        \in SUBSET (Cmd \X MaybeCmd)
  <2>1. \A s \in done : r.log[s].request \in MaybeCmd /\ r.log[s].command \in MaybeCmd
    BY <1>1 DEF Replica, LogEntry
  <2>2. \A s \in done : r.log[s].request # NoCmd => r.log[s].request \in Cmd
    BY <2>1 DEF MaybeCmd
  <2> QED
    BY <2>1, <2>2
<1>6. [s \in Slot |-> IF s \in done THEN [r.log[s] EXCEPT !.request = NoCmd] ELSE r.log[s]]
        \in [Slot -> LogEntry]
  <2>1. \A e \in LogEntry : [e EXCEPT !.request = NoCmd] \in LogEntry
    BY DEF LogEntry, MaybeCmd
  <2>2. \A s \in Slot : r.log[s] \in LogEntry
    BY <1>1 DEF Replica
  <2> QED
    BY <2>1, <2>2
<1> QED
  BY <1>1, <1>2, <1>4, <1>5, <1>6 DEF Executed, Replica

\* Executing committed slots and answering their requests keeps a replica well
\* formed: only the request of an executed entry changes.
LEMMA ExecutedGood ==
  ASSUME NEW I, NEW P, NEW r, Good(I, P, r), NEW end \in r.execute..(MaxSlot + 1),
         \A s \in r.execute..(end - 1) : s \in Slot /\ r.log[s].status = "committed"
  PROVE  Good(I, P, Executed(r, end)) /\ Keeps(r, Executed(r, end))
<1> DEFINE t == Executed(r, end)
           done == r.execute..(end - 1)
<1>1. r \in Replica /\ r.execute \in 0..(MaxSlot + 1)
  BY DEF Good, Replica
<1>2. end \in 0..(MaxSlot + 1)
  BY <1>1, MaxSlotAssumption
<1>3. t \in Replica
  BY <1>1, ExecutedType
<1>4. /\ t.id = r.id /\ t.ballot = r.ballot /\ t.active = r.active /\ t.slot = r.slot
      /\ t.p1bQueue = r.p1bQueue /\ t.p1bRelay = r.p1bRelay /\ t.p2bRelay = r.p2bRelay
      /\ t.out = r.out /\ t.execute = end
  BY <1>1 DEF Executed, Replica
<1>5. \A s \in Slot : /\ t.log[s].ballot = r.log[s].ballot
                      /\ t.log[s].command = r.log[s].command
                      /\ t.log[s].status = r.log[s].status
  BY <1>1 DEF Executed, Replica, LogEntry
<1> HIDE DEF t
<1>6. LogOK(P, t)
  BY <1>4, <1>5 DEF Good, ReplicaOK, LogOK, Proposed
<1>7. OwnerOK(I, P, t)
  BY <1>1, <1>2, <1>4, <1>5 DEF Good, ReplicaOK, OwnerOK, Slot
<1>8. RelayOK(I, P, t) /\ \A m \in t.out : MsgOK(I, P, m)
  BY <1>4 DEF Good, ReplicaOK, RelayOK
<1>9. Keeps(r, t)
  BY <1>1, <1>4 DEF Keeps, Replica, Ballot
<1> QED
  BY <1>3, <1>6, <1>7, <1>8, <1>9 DEF Good, ReplicaOK, t

\* A replica that stops is still well formed.
LEMMA HaltGood ==
  ASSUME NEW I, NEW P, NEW r, Good(I, P, r)
  PROVE  Good(I, P, [r EXCEPT !.halted = TRUE]) /\ Keeps(r, [r EXCEPT !.halted = TRUE])
<1> DEFINE t == [r EXCEPT !.halted = TRUE]
<1>1. t \in Replica
  BY DEF Good, Replica
<1>2. t.id = r.id /\ t.ballot = r.ballot /\ t.active = r.active /\ r.ballot \in Nat
  BY DEF Good, Replica, Ballot
<1>3. Keeps(r, t)
  BY <1>2 DEF Keeps
<1>4. ReplicaOK(I, P, t)
  BY DEF Good, Replica, ReplicaOK, LogOK, OwnerOK, RelayOK
<1> QED
  BY <1>1, <1>3, <1>4 DEF Good

\* Keeps composes.
LEMMA KeepsTransitive ==
  ASSUME NEW r, NEW s, NEW t, r.ballot \in Ballot, s.ballot \in Ballot, t.ballot \in Ballot,
         Keeps(r, s), Keeps(s, t)
  PROVE  Keeps(r, t)
BY DEF Keeps, Ballot

\* exec keeps a replica well formed, also where it asks for a recovery and
\* where it blocks.
LEMMA ExecGood ==
  ASSUME NEW I, NEW P, NEW r, Good(I, P, r)
  PROVE  Good(I, P, Exec(r)) /\ Keeps(r, Exec(r))
<1> DEFINE end == ExecuteEnd(r)
           t == Executed(r, end)
<1>1. r \in Replica /\ r.ballot \in Ballot
  BY DEF Good, Replica
<1>2. Good(I, P, t) /\ Keeps(r, t)
  BY <1>1, ExecuteEndFacts, ExecutedGood
<1>3. t.ballot \in Ballot
  BY <1>2 DEF Good, Replica
<1>4. Good(I, P, [t EXCEPT !.halted = TRUE]) /\ Keeps(t, [t EXCEPT !.halted = TRUE])
  BY <1>2, HaltGood
<1>5. end \in Slot => /\ Good(I, P, SendRecoverRequest(t, r.ballot, {end}))
                      /\ Keeps(t, SendRecoverRequest(t, r.ballot, {end}))
  BY <1>1, <1>2, SendRecoverRequestGood
<1>6. \/ Exec(r) = t
      \/ Exec(r) = [t EXCEPT !.halted = TRUE]
      \/ end \in Slot /\ Exec(r) = SendRecoverRequest(t, r.ballot, {end})
  BY DEF Exec, Executed
<1> HIDE DEF t, end
<1>7. \A u : Good(I, P, u) => u.ballot \in Ballot
  BY DEF Good, Replica
<1> QED
  BY <1>1, <1>2, <1>3, <1>4, <1>5, <1>6, <1>7, KeepsTransitive

-----------------------------------------------------------------------------
\* The replicas differ in nothing the invariant speaks of.
SameCore(r, t) ==
  /\ t.id = r.id /\ t.ballot = r.ballot /\ t.active = r.active
  /\ t.slot = r.slot /\ t.execute = r.execute /\ t.log = r.log
  /\ t.p1bQueue = r.p1bQueue /\ t.p1bRelay = r.p1bRelay /\ t.p2bRelay = r.p2bRelay
  /\ t.out = r.out

\* A change outside ballot, log, relay state and sent messages keeps a replica
\* well formed.
LEMMA SameCoreGood ==
  ASSUME NEW I, NEW P, NEW r, Good(I, P, r), NEW t \in Replica, SameCore(r, t)
  PROVE  Good(I, P, t) /\ Keeps(r, t)
<1>1. r.ballot \in Nat
  BY DEF Good, Replica, Ballot
<1>2. Keeps(r, t)
  BY <1>1 DEF SameCore, Keeps
<1>3. ReplicaOK(I, P, t)
  BY DEF Good, SameCore, ReplicaOK, LogOK, OwnerOK, RelayOK
<1> QED
  BY <1>2, <1>3 DEF Good

\* forward keeps a replica well formed.
LEMMA ForwardPendingGood ==
  ASSUME NEW I, NEW P, NEW r, Good(I, P, r)
  PROVE  Good(I, P, ForwardPending(r)) /\ Keeps(r, ForwardPending(r))
<1> DEFINE t == Forward(r, ID(r.ballot), Range(r.requests))
           u == [t EXCEPT !.requests = <<>>]
<1>1. r.requests \in Seq(Cmd) /\ r.ballot \in Ballot /\ ID(r.ballot) \in Int
  BY OwnerIsInt DEF Good, Replica
<1>2. Range(r.requests) \in SUBSET Cmd
  <2>1. DOMAIN r.requests = 1..Len(r.requests)
    BY <1>1, LenProperties
  <2> QED
    BY <1>1, <2>1, ElementOfSeq DEF Range
<1>3. Good(I, P, t) /\ Keeps(r, t)
  BY <1>1, <1>2, ForwardGood
<1> HIDE DEF t
<1>4. u \in Replica
  BY <1>3, EmptySeq DEF Good, Replica
<1>5. SameCore(t, u)
  BY <1>3 DEF Good, Replica, SameCore
<1>6. Good(I, P, u) /\ Keeps(t, u)
  BY <1>3, <1>4, <1>5, SameCoreGood
<1>7. t.ballot \in Ballot /\ u.ballot \in Ballot
  BY <1>3, <1>4 DEF Good, Replica
<1>8. Keeps(r, u)
  BY <1>1, <1>3, <1>6, <1>7, KeepsTransitive
<1> QED
  BY <1>6, <1>8 DEF ForwardPending, t

\* Moving to another node's higher ballot keeps a replica well formed
\* (HandleP1a, HandleP1b, HandleP2a, HandleP2b).
LEMMA DeposedGood ==
  ASSUME NEW I, NEW P, Context(I, P), NEW r, Good(I, P, r), NEW b \in I,
         ID(b) # r.id, b > r.ballot
  PROVE  /\ Good(I, P, [r EXCEPT !.ballot = b, !.active = FALSE])
         /\ Keeps(r, [r EXCEPT !.ballot = b, !.active = FALSE])
<1> DEFINE t == [r EXCEPT !.ballot = b, !.active = FALSE]
<1>1. r \in Replica /\ b \in Nat /\ r.ballot \in Nat
  BY DEF Good, Replica, Context, Ballot
<1>2. t \in Replica
  BY <1>1 DEF Replica, Ballot
<1>3. /\ t.id = r.id /\ t.ballot = b /\ t.active = FALSE /\ t.slot = r.slot /\ t.log = r.log
      /\ t.p1bQueue = r.p1bQueue /\ t.p1bRelay = r.p1bRelay /\ t.p2bRelay = r.p2bRelay
      /\ t.out = r.out
  BY <1>1 DEF Replica
<1> HIDE DEF t
<1>4. LogOK(P, t) /\ RelayOK(I, P, t) /\ \A m \in t.out : MsgOK(I, P, m)
  BY <1>3 DEF Good, ReplicaOK, LogOK, RelayOK
<1>5. OwnerOK(I, P, t)
  <2>1. \A a \in I : a \in Nat /\ (ID(a) = r.id => a <= r.ballot)
    BY DEF Good, ReplicaOK, OwnerOK, Context, Ballot
  <2>2. \A a \in I : ID(a) = t.id => a <= t.ballot
    BY <1>1, <1>3, <2>1
  <2> QED
    BY <1>3, <2>2 DEF OwnerOK, KnownBallot
<1>6. Keeps(r, t)
  BY <1>1, <1>3 DEF Keeps
<1> QED
  BY <1>2, <1>4, <1>5, <1>6 DEF Good, ReplicaOK, t

\* A known ballot above the replica's own is another node's: a node has seen
\* every ballot it issued.
LEMMA HigherIsForeign ==
  ASSUME NEW I, NEW P, Context(I, P), NEW r, Good(I, P, r), NEW b, KnownBallot(I, b),
         b > r.ballot
  PROVE  b \in I /\ ID(b) # r.id
<1>1. r.ballot \in Nat /\ b \in Nat /\ b # 0
  BY KnownIsBallot DEF Good, Replica, Ballot
<1>2. b \in I
  BY <1>1 DEF KnownBallot
<1> QED
  BY <1>1, <1>2 DEF Good, ReplicaOK, OwnerOK

\* HandleP1a keeps a replica well formed.
LEMMA HandleP1aGood ==
  ASSUME NEW I, NEW P, Context(I, P), NEW r, Good(I, P, r), NEW b \in I
  PROVE  /\ Good(I, P, HandleP1a(r, b)) /\ Keeps(r, HandleP1a(r, b))
<1>1. CASE b > r.ballot
  <2> DEFINE t == [r EXCEPT !.ballot = b, !.active = FALSE]
  <2>1. ID(b) # r.id
    BY <1>1, HigherIsForeign DEF KnownBallot
  <2>2. Good(I, P, t) /\ Keeps(r, t)
    BY <1>1, <2>1, DeposedGood
  <2> HIDE DEF t
  <2>3. Good(I, P, ForwardPending(t)) /\ Keeps(t, ForwardPending(t))
    BY <2>2, ForwardPendingGood
  <2>4. r.ballot \in Ballot /\ t.ballot \in Ballot /\ ForwardPending(t).ballot \in Ballot
    BY <2>2, <2>3 DEF Good, Replica
  <2>5. Keeps(r, ForwardPending(t))
    BY <2>2, <2>3, <2>4, KeepsTransitive
  <2> QED
    BY <1>1, <2>3, <2>5 DEF HandleP1a, t
<1>2. CASE ~(b > r.ballot)
  <2>1. HandleP1a(r, b) = r
    BY <1>2 DEF HandleP1a
  <2>2. r.ballot \in Nat
    BY DEF Good, Replica, Ballot
  <2> QED
    BY <2>1, <2>2 DEF Keeps
<1> QED
  BY <1>1, <1>2

\* The P1b a replica answers with is well formed: it lists only proposals.
LEMMA P1bOfOK ==
  ASSUME NEW I, NEW P, NEW r, Good(I, P, r)
  PROVE  P1bOf(r) \in P1bRecord /\ P1bOK(I, P, P1bOf(r))
<1>1. r \in Replica /\ \A s \in Slot : r.log[s] \in LogEntry
  BY DEF Good, Replica
<1>2. P1bOf(r).log \in [Slot -> CommandBallot]
  <2>1. \A s \in Slot : [ballot |-> r.log[s].ballot, command |-> r.log[s].command] \in CommandBallot
    BY <1>1 DEF LogEntry, CommandBallot
  <2>2. [ballot |-> 0, command |-> NoCmd] \in CommandBallot
    BY DEF CommandBallot, Ballot, MaybeCmd
  <2> QED
    BY <2>1, <2>2 DEF P1bOf
<1>3. P1bOf(r) \in P1bRecord
  BY <1>1, <1>2 DEF P1bOf, P1bRecord, Replica
<1>4. \A s \in Slot : \/ P1bOf(r).log[s].ballot = 0
                      \/ /\ P1bOf(r).log[s].ballot = r.log[s].ballot
                         /\ P1bOf(r).log[s].command = r.log[s].command
  BY DEF P1bOf
<1>5. P1bOf(r).ballot = r.ballot
  BY DEF P1bOf
<1> QED
  BY <1>3, <1>4, <1>5 DEF Good, ReplicaOK, LogOK, OwnerOK, P1bOK, Proposed

-----------------------------------------------------------------------------
\* A message stays well formed when ballots are issued and proposals are made.
LEMMA MsgOKMonotone ==
  ASSUME NEW I, NEW P, NEW I2, NEW P2, I \subseteq I2, P \subseteq P2, NEW m, MsgOK(I, P, m)
  PROVE  MsgOK(I2, P2, m)
BY DEF MsgOK, P1bOK, P1bSeqOK, KnownBallot, Proposed

\* So does the relay state of a replica.
LEMMA RelayOKMonotone ==
  ASSUME NEW I, NEW P, NEW I2, NEW P2, I \subseteq I2, P \subseteq P2, NEW r, RelayOK(I, P, r)
  PROVE  RelayOK(I2, P2, r)
BY DEF RelayOK, P1bOK, P1bSeqOK, KnownBallot, Proposed

\* What other nodes issue and propose does not disturb a replica.
LEMMA OthersGood ==
  ASSUME NEW I, NEW P, NEW I2, NEW P2, I \subseteq I2, P \subseteq P2, NEW r, Good(I, P, r),
         \A b \in I2 : b \in I \/ ID(b) # r.id,
         \A p \in P2 : p \in P \/ ID(p[1]) # r.id
  PROVE  Good(I2, P2, r)
<1>1. RelayOK(I2, P2, r) /\ \A m \in r.out : MsgOK(I2, P2, m)
  BY RelayOKMonotone, MsgOKMonotone DEF Good, ReplicaOK
<1>2. LogOK(P2, r)
  BY DEF Good, ReplicaOK, LogOK, Proposed
<1>3. OwnerOK(I2, P2, r)
  BY DEF Good, ReplicaOK, OwnerOK, KnownBallot
<1> QED
  BY <1>1, <1>2, <1>3 DEF Good, ReplicaOK

\* The ballots that the messages of a step issue.
BallotsOf(t) == {m.ballot : m \in Sent(t, "P1a")}

\* The proposals that the messages of a step make.
PropsOf(t) == {<<m.ballot, m.slot, m.command>> : m \in Sent(t, "P2a")}

\* A handler may turn r into t: with what its messages issue and propose
\* added, everything is well formed, and the additions are under the node's
\* own ballots.
Outcome(I, P, r, t) ==
  LET I2 == I \cup BallotsOf(t)
      P2 == P \cup PropsOf(t)
  IN  /\ Context(I2, P2) /\ Good(I2, P2, t) /\ Keeps(r, t)
      /\ \A b \in I2 : b \in I \/ ID(b) = r.id
      /\ \A p \in P2 : p \in P \/ ID(p[1]) = r.id

\* A handler that keeps the replica well formed and whose new proposals are
\* its own has a proper outcome.
LEMMA ProposingOutcome ==
  ASSUME NEW I, NEW P, NEW P2, NEW r, NEW t, Context(I, P2), Good(I, P2, t), Keeps(r, t),
         P \subseteq P2, \A p \in P2 : p \in P \/ (p \in PropsOf(t) /\ ID(p[1]) = r.id)
  PROVE  Outcome(I, P, r, t)
<1>1. BallotsOf(t) \subseteq I
  BY DEF Good, ReplicaOK, MsgOK, BallotsOf, Sent
<1>2. PropsOf(t) \subseteq P2
  BY DEF Good, ReplicaOK, MsgOK, PropsOf, Sent
<1>3. I \cup BallotsOf(t) = I /\ P \cup PropsOf(t) = P2
  BY <1>1, <1>2
<1> QED
  BY <1>3 DEF Outcome

\* A quiet handler that keeps the replica well formed has a proper outcome.
LEMMA QuietOutcome ==
  ASSUME NEW I, NEW P, NEW r, NEW t, Context(I, P), Good(I, P, t), Keeps(r, t)
  PROVE  Outcome(I, P, r, t)
BY ProposingOutcome

\* Broadcast always has a relay group to send to.
LEMMA RelaysNonEmpty == \A n \in Node : \E d : d \in Relays(n)
<1> SUFFICES ASSUME NEW n \in Node PROVE \E d : d \in Relays(n)
  OBVIOUS
<1>1. PICK g \in Groups : n \in g
  BY GroupsAssumption
<1>2. {q \in g : q # n /\ q \in RelayChoice[n]} \in Relays(n)
  BY DEF Relays
<1> QED
  BY <1>2

-----------------------------------------------------------------------------
\* P1a issues a fresh ballot of the node's own, under which nothing has been
\* proposed.
LEMMA P1aOutcome ==
  ASSUME NEW I, NEW P, Context(I, P), NEW r, Good(I, P, r), ~r.active
  PROVE  Outcome(I, P, r, P1a(r))
<1> DEFINE b == NextBallot(r.ballot, r.id)
           t == [r EXCEPT !.ballot = b, !.quorum = {r.id}]
           I2 == I \cup {b}
<1>1. r \in Replica /\ r.ballot \in Nat /\ r.id \in Node
  BY DEF Good, Replica, Ballot
<1>2. b \in Nat /\ b > r.ballot /\ ID(b) = r.id
  BY <1>1, NextBallotFacts, NodeIsPositive DEF Ballot
<1> HIDE DEF b
<1>3. Context(I2, P)
  BY <1>1, <1>2 DEF Context, ProposalsOK, Ballot
<1>4. t \in Replica
  BY <1>1, <1>2 DEF Replica, Ballot
<1>5. /\ t.id = r.id /\ t.ballot = b /\ t.active = r.active /\ t.slot = r.slot /\ t.log = r.log
      /\ t.p1bQueue = r.p1bQueue /\ t.p1bRelay = r.p1bRelay /\ t.p2bRelay = r.p2bRelay
      /\ t.out = r.out
  BY <1>1 DEF Replica
<1> HIDE DEF t
<1>6. LogOK(P, t)
  BY <1>5 DEF Good, ReplicaOK, LogOK
<1>7. RelayOK(I2, P, t) /\ \A m \in t.out : MsgOK(I2, P, m)
  <2>1. RelayOK(I2, P, r) /\ \A m \in r.out : MsgOK(I2, P, m)
    BY RelayOKMonotone, MsgOKMonotone DEF Good, ReplicaOK
  <2> QED
    BY <1>5, <2>1 DEF RelayOK
<1>8. OwnerOK(I2, P, t)
  <2>1. \A a \in I : a \in Nat /\ (ID(a) = r.id => a <= r.ballot)
    BY DEF Good, ReplicaOK, OwnerOK, Context, Ballot
  <2>2. \A a \in I2 : ID(a) = t.id => a <= t.ballot
    BY <1>1, <1>2, <1>5, <2>1
  <2>3. \A p \in P : p[1] # b
    <3>1. ASSUME NEW p \in P, p[1] = b PROVE FALSE
      <4>1. p[1] \in I
        BY DEF Context, ProposalsOK
      <4>2. b <= r.ballot
        BY <1>2, <2>1, <3>1, <4>1
      <4> QED
        BY <1>1, <1>2, <4>2
    <3> QED
      BY <3>1
  <2> QED
    BY <1>5, <2>2, <2>3 DEF OwnerOK, KnownBallot
<1>9. Good(I2, P, t)
  BY <1>4, <1>6, <1>7, <1>8 DEF Good, ReplicaOK
<1>10. \A m \in RoutedP1a(r.id, b) : m \in Message /\ MsgOK(I2, P, m)
  BY <1>2, <1>3, RoutedP1aOK
<1>11. Good(I2, P, P1a(r)) /\ Keeps(t, P1a(r))
  BY <1>9, <1>10, EmitGood DEF P1a, t, b
<1>12. Keeps(r, P1a(r))
  <2>1. Keeps(r, t)
    BY <1>1, <1>2, <1>5 DEF Keeps
  <2>2. r.ballot \in Ballot /\ t.ballot \in Ballot /\ P1a(r).ballot \in Ballot
    BY <1>4, <1>1, <1>11 DEF Good, Replica
  <2> QED
    BY <1>11, <2>1, <2>2, KeepsTransitive
<1>13. b \in BallotsOf(P1a(r))
  <2>1. P1a(r).out = t.out \cup RoutedP1a(r.id, b)
    BY <1>4 DEF P1a, Emit, Replica, t, b
  <2>2. PICK d : d \in Relays(r.id)
    BY <1>1, RelaysNonEmpty
  <2> DEFINE m == [type |-> "P1a", ballot |-> b, src |-> r.id, via |-> 0, dst |-> d]
  <2>3. m \in P1a(r).out
    BY <2>1, <2>2 DEF RoutedP1a
  <2> QED
    BY <2>3 DEF BallotsOf, Sent
<1>14. BallotsOf(P1a(r)) \subseteq I2 /\ PropsOf(P1a(r)) \subseteq P
  BY <1>11 DEF Good, ReplicaOK, MsgOK, BallotsOf, PropsOf, Sent
<1>15. I \cup BallotsOf(P1a(r)) = I2 /\ P \cup PropsOf(P1a(r)) = P
  BY <1>13, <1>14
<1> QED
  BY <1>2, <1>3, <1>11, <1>12, <1>15 DEF Outcome

\* RetryP1a is quiet: its ballot was issued before.
LEMMA RetryP1aGood ==
  ASSUME NEW I, NEW P, Context(I, P), NEW r, Good(I, P, r), ID(r.ballot) = r.id
  PROVE  Good(I, P, RetryP1a(r)) /\ Keeps(r, RetryP1a(r))
<1> DEFINE t == [r EXCEPT !.quorum = {r.id}]
<1>1. r \in Replica /\ r.ballot \in Ballot /\ r.id \in Node
  BY DEF Good, Replica
<1>2. r.ballot \in I
  BY <1>1, OwnedBallot DEF Good, ReplicaOK, OwnerOK
<1>3. t \in Replica /\ SameCore(r, t)
  BY <1>1 DEF Replica, SameCore
<1>4. Good(I, P, t) /\ Keeps(r, t)
  BY <1>3, SameCoreGood
<1> HIDE DEF t
<1>5. \A m \in RoutedP1a(r.id, r.ballot) : m \in Message /\ MsgOK(I, P, m)
  BY <1>2, RoutedP1aOK
<1>6. Good(I, P, RetryP1a(r)) /\ Keeps(t, RetryP1a(r))
  BY <1>4, <1>5, EmitGood DEF RetryP1a, t
<1>7. t.ballot \in Ballot /\ RetryP1a(r).ballot \in Ballot
  BY <1>4, <1>6 DEF Good, Replica
<1> QED
  BY <1>1, <1>4, <1>6, <1>7, KeepsTransitive

\* The highest slot never decreases and covers the slots added to it.
LEMMA MaxSlotOf ==
  ASSUME NEW k \in -1..MaxSlot, NEW S \in SUBSET Slot
  PROVE  /\ Max({k} \cup S) \in -1..MaxSlot
         /\ k <= Max({k} \cup S)
         /\ \A s \in S : s <= Max({k} \cup S)
<1> DEFINE T == {k} \cup S
<1>1. T \in SUBSET Int /\ T # {} /\ (\A x \in T : x \in -1..MaxSlot /\ x <= MaxSlot)
  BY MaxSlotAssumption DEF Slot
<1>2. k \in T /\ \A s \in S : s \in T
  OBVIOUS
<1> HIDE DEF T
<1>3. Max(T) \in T /\ \A y \in T : Max(T) >= y
  <2>1. MaxSlot \in Int /\ T \in SUBSET Int /\ T # {} /\ \A x \in T : x <= MaxSlot
    BY <1>1, MaxSlotAssumption
  <2> QED
    BY ONLY <2>1, GreatestElement, Zenon
<1>4. Max(T) \in -1..MaxSlot /\ k <= Max(T) /\ \A s \in S : s <= Max(T)
  BY <1>1, <1>2, <1>3
<1> QED
  BY <1>4 DEF T

\* update either keeps an entry or takes over what the P1b says, whole.
LEMMA MergeFacts ==
  ASSUME NEW e \in LogEntry, NEW cb \in CommandBallot
  PROVE  /\ Merge(e, cb) \in LogEntry
         /\ \/ Merge(e, cb) = e
            \/ /\ cb.ballot # 0
               /\ Merge(e, cb).ballot = cb.ballot
               /\ Merge(e, cb).command = cb.command
<1>1. Learned(cb.ballot, cb.command) \in LogEntry
  BY DEF Learned, NoEntry, LogEntry, CommandBallot, MaybeCmd
<1>2. [e EXCEPT !.ballot = cb.ballot, !.command = cb.command] \in LogEntry
  BY DEF LogEntry, CommandBallot
<1>3. /\ Learned(cb.ballot, cb.command).ballot = cb.ballot
      /\ Learned(cb.ballot, cb.command).command = cb.command
  BY DEF Learned, NoEntry
<1>4. /\ [e EXCEPT !.ballot = cb.ballot, !.command = cb.command].ballot = cb.ballot
      /\ [e EXCEPT !.ballot = cb.ballot, !.command = cb.command].command = cb.command
  BY DEF LogEntry
<1>5. \/ Merge(e, cb) = e
      \/ cb.ballot # 0 /\ e.status = "none" /\ Merge(e, cb) = Learned(cb.ballot, cb.command)
      \/ cb.ballot # 0 /\ Merge(e, cb) = [e EXCEPT !.ballot = cb.ballot, !.command = cb.command]
  BY DEF Merge
<1> QED
  BY <1>1, <1>2, <1>3, <1>4, <1>5

\* update keeps a replica that does not lead well formed.
LEMMA UpdateGood ==
  ASSUME NEW I, NEW P, NEW r, Good(I, P, r), ~r.active,
         NEW l \in [Slot -> CommandBallot], \A s \in Slot : Proposed(P, s, l[s])
  PROVE  /\ Good(I, P, Update(r, l)) /\ Keeps(r, Update(r, l))
         /\ Update(r, l).active = r.active /\ Update(r, l).ballot = r.ballot
<1> DEFINE t == Update(r, l)
           S == {s \in Slot : l[s].ballot # 0}
<1>1. r \in Replica /\ r.ballot \in Nat /\ r.slot \in -1..MaxSlot
  BY DEF Good, Replica, Ballot
<1>2. \A s \in Slot : r.log[s] \in LogEntry
  BY <1>1 DEF Replica
<1>3. Max({r.slot} \cup S) \in -1..MaxSlot /\ r.slot <= Max({r.slot} \cup S)
        /\ \A s \in S : s <= Max({r.slot} \cup S)
  BY <1>1, MaxSlotOf
<1>4. [s \in Slot |-> Merge(r.log[s], l[s])] \in [Slot -> LogEntry]
  BY <1>2, MergeFacts
<1>5. t \in Replica
  BY <1>1, <1>3, <1>4 DEF Update, Replica
<1>6. /\ t.id = r.id /\ t.ballot = r.ballot /\ t.active = r.active
      /\ t.p1bQueue = r.p1bQueue /\ t.p1bRelay = r.p1bRelay /\ t.p2bRelay = r.p2bRelay
      /\ t.out = r.out /\ t.slot = Max({r.slot} \cup S)
      /\ t.log = [s \in Slot |-> Merge(r.log[s], l[s])]
  BY <1>1 DEF Update, Replica
<1> HIDE DEF t
<1>7. ASSUME NEW s \in Slot
      PROVE  /\ Proposed(P, s, t.log[s])
             /\ t.log[s].status = "open" => t.log[s].ballot # 0
             /\ s > t.slot => t.log[s].status = "none"
  <2> DEFINE e == r.log[s]
             f == Merge(e, l[s])
  <2>1. e \in LogEntry /\ l[s] \in CommandBallot /\ t.log[s] = f
    BY <1>2, <1>6
  <2>2. /\ Proposed(P, s, e) /\ (e.status = "open" => e.ballot # 0)
        /\ s > r.slot => e.status = "none"
    BY DEF Good, ReplicaOK, LogOK
  <2>3. Proposed(P, s, f)
    BY <2>1, <2>2, MergeFacts DEF Proposed
  <2>4. f.status = "open" => f.ballot # 0
    BY <2>1, <2>2, MergeFacts
  <2>5. s > t.slot => f.status = "none"
    <3> SUFFICES ASSUME s > t.slot PROVE f.status = "none"
      OBVIOUS
    <3>0. s \in Int /\ t.slot \in Int /\ r.slot \in Int /\ r.slot <= t.slot
      BY <1>1, <1>3, <1>6, MaxSlotAssumption DEF Slot
    <3>1. s \notin S
      <4> DEFINE k == t.slot
      <4>1. \A x \in S : x <= k
        BY <1>3, <1>6
      <4> HIDE DEF k, S
      <4>2. k \in Int /\ s \in Int /\ s > k
        BY <3>0 DEF k
      <4> QED
        BY ONLY <4>1, <4>2, SMT
    <3>3. l[s].ballot = 0
      BY <3>1
    <3>2. s > r.slot
      BY <3>0
    <3> QED
      BY <2>1, <2>2, <3>2, <3>3, MergeFacts
  <2> QED
    BY <2>1, <2>3, <2>4, <2>5
<1>8. LogOK(P, t)
  BY <1>7 DEF LogOK
<1>9. OwnerOK(I, P, t)
  BY <1>6 DEF Good, ReplicaOK, OwnerOK
<1>10. RelayOK(I, P, t) /\ \A m \in t.out : MsgOK(I, P, m)
  BY <1>6 DEF Good, ReplicaOK, RelayOK
<1>11. Keeps(r, t)
  BY <1>1, <1>6 DEF Keeps
<1> QED
  BY <1>5, <1>6, <1>8, <1>9, <1>10, <1>11 DEF Good, ReplicaOK, t

-----------------------------------------------------------------------------
(* Phases 2 and 3, recovery and cleanup.                                    *)

\* The proposals P2a makes for a sequence of requests.
NewProposals(r, reqs) == {<<r.ballot, r.slot + i, reqs[i]>> : i \in 1..Len(reqs)}

\* P2a hands out slots beyond the highest one, so what it proposes under its
\* ballot contradicts no earlier proposal.
LEMMA P2aGood ==
  ASSUME NEW I, NEW P, Context(I, P), NEW r, Good(I, P, r), r.active,
         NEW reqs \in Seq(Cmd), r.slot + Len(reqs) <= MaxSlot
  PROVE  /\ Context(I, P \cup NewProposals(r, reqs))
         /\ Good(I, P \cup NewProposals(r, reqs), P2a(r, reqs))
         /\ Keeps(r, P2a(r, reqs))
         /\ NewProposals(r, reqs) \cup PropsOf(r) \subseteq PropsOf(P2a(r, reqs))
<1> DEFINE n == Len(reqs)
           P2 == P \cup NewProposals(r, reqs)
           new == (r.slot + 1)..(r.slot + n)
           piggyback == reqs # <<>> /\ r.p3ballot > 0
           p3(i) == IF piggyback
                    THEN [ballot |-> r.p3ballot, slots |-> IF i = 1 THEN r.p3slots ELSE {}]
                    ELSE NoP3
           entry(c) == [status |-> "open", ballot |-> r.ballot, command |-> c,
                        request |-> c, quorum |-> {r.id}]
           l == [s \in Slot |-> IF s \in new THEN entry(reqs[s - r.slot]) ELSE r.log[s]]
           t == [r EXCEPT !.slot = @ + n, !.log = l,
                          !.p3slots = IF piggyback THEN {} ELSE @,
                          !.p3started = @ \/ piggyback]
           ms == UNION {RoutedP2a(r.id, r.ballot, r.slot + i, reqs[i], p3(i)) : i \in DOMAIN reqs}
<1>1. r \in Replica /\ r.ballot \in Nat /\ r.id \in Node /\ r.slot \in -1..MaxSlot
  BY DEF Good, Replica, Ballot
<1>2. n \in Nat /\ DOMAIN reqs = 1..n /\ \A i \in 1..n : reqs[i] \in Cmd
  BY LenProperties, ElementOfSeq
<1>3. r.ballot \in I /\ ID(r.ballot) = r.id
  BY <1>1, OwnedBallot DEF Good, ReplicaOK, OwnerOK
<1>4. \A i \in 1..n : r.slot + i \in Slot /\ r.slot + i > r.slot
  BY <1>1, <1>2, MaxSlotAssumption DEF Slot
<1>5. \A p \in NewProposals(r, reqs) :
        p[1] = r.ballot /\ p[2] \in Slot /\ p[2] > r.slot /\ p[3] = reqs[p[2] - r.slot]
  BY <1>1, <1>2, <1>4, MaxSlotAssumption DEF NewProposals
<1>6. \A p \in P : p[1] = r.ballot => p[2] <= r.slot
  BY DEF Good, ReplicaOK, OwnerOK
<1>7. Context(I, P2)
  <2>1. NewProposals(r, reqs) \subseteq Ballot \X Slot \X Cmd
    BY <1>1, <1>2, <1>4 DEF NewProposals, Ballot
  <2>2. \A p \in P2 : p[1] \in I
    BY <1>3, <1>5 DEF Context, ProposalsOK
  <2>3. \A p, q \in P2 : p[1] = q[1] /\ p[2] = q[2] => p[3] = q[3]
    <3>1. \A p \in P, q \in NewProposals(r, reqs) : ~(p[1] = q[1] /\ p[2] = q[2])
      <4> SUFFICES ASSUME NEW p \in P, NEW q \in NewProposals(r, reqs), p[1] = q[1], p[2] = q[2]
                   PROVE  FALSE
        OBVIOUS
      <4>1. p[2] <= r.slot /\ p[2] > r.slot
        BY <1>5, <1>6
      <4> QED
        BY <1>1, <1>5, <4>1, MaxSlotAssumption DEF Slot
    <3>2. \A p, q \in NewProposals(r, reqs) : p[2] = q[2] => p[3] = q[3]
      BY <1>5
    <3>3. \A p, q \in P : p[1] = q[1] /\ p[2] = q[2] => p[3] = q[3]
      BY DEF Context, ProposalsOK
    <3> QED
      BY <3>1, <3>2, <3>3
  <2> QED
    BY <2>1, <2>2, <2>3 DEF Context, ProposalsOK
<1>8. l \in [Slot -> LogEntry]
  <2>1. \A c \in Cmd : entry(c) \in LogEntry
    BY <1>1 DEF LogEntry, MaybeCmd, Ballot
  <2>2. \A s \in new : s - r.slot \in 1..n
    BY <1>1, <1>2, MaxSlotAssumption
  <2>3. \A s \in Slot : r.log[s] \in LogEntry
    BY <1>1 DEF Replica
  <2> QED
    BY <1>2, <2>1, <2>2, <2>3
<1>9. r.slot + n \in -1..MaxSlot
  BY <1>1, <1>2, MaxSlotAssumption
<1>10. t \in Replica
  BY ZenonT(30), <1>1, <1>8, <1>9 DEF Replica
<1>11. /\ t.id = r.id /\ t.ballot = r.ballot /\ t.active = r.active /\ t.execute = r.execute
       /\ t.p1bQueue = r.p1bQueue /\ t.p1bRelay = r.p1bRelay /\ t.p2bRelay = r.p2bRelay
       /\ t.out = r.out /\ t.slot = r.slot + n /\ t.log = l
  BY <1>1 DEF Replica
<1>12. \A s \in Slot : \/ s \notin new /\ t.log[s] = r.log[s]
                       \/ /\ s \in new /\ t.log[s].status = "open" /\ t.log[s].ballot = r.ballot
                          /\ <<r.ballot, s, t.log[s].command>> \in P2
  <2>1. ASSUME NEW s \in Slot, s \in new
        PROVE  /\ t.log[s].status = "open" /\ t.log[s].ballot = r.ballot
               /\ <<r.ballot, s, t.log[s].command>> \in NewProposals(r, reqs)
    <3>1. s - r.slot \in 1..n /\ r.slot + (s - r.slot) = s
      BY <1>1, <1>2, <2>1, MaxSlotAssumption DEF Slot
    <3>2. t.log[s] = entry(reqs[s - r.slot])
      BY <1>11, <2>1
    <3> QED
      BY <3>1, <3>2 DEF NewProposals
  <2>2. ASSUME NEW s \in Slot, s \notin new PROVE t.log[s] = r.log[s]
    BY <1>11, <2>2
  <2> QED
    BY <2>1, <2>2
<1>13. \A i \in 1..n : p3(i) \in P3Info
  BY <1>1 DEF Replica, P3Info, NoP3, Ballot
<1>14. P2a(r, reqs) = Emit(t, ms)
  BY DEF P2a
<1> HIDE DEF t, p3, l
<1>15. \A m \in ms : m \in Message /\ MsgOK(I, P2, m)
  <2> SUFFICES ASSUME NEW i \in 1..n,
                      NEW m \in RoutedP2a(r.id, r.ballot, r.slot + i, reqs[i], p3(i))
               PROVE  m \in Message /\ MsgOK(I, P2, m)
    BY <1>2
  <2>1. <<r.ballot, r.slot + i, reqs[i]>> \in P2
    BY DEF NewProposals
  <2> QED
    BY <1>2, <1>3, <1>4, <1>7, <1>13, <2>1, RoutedP2aOK
<1>16. Good(I, P2, t)
  <2> HIDE DEF P2, new
  <2>0. P \subseteq P2
    BY DEF P2
  <2>1. LogOK(P2, t)
    <3> SUFFICES ASSUME NEW s \in Slot
                 PROVE  /\ Proposed(P2, s, t.log[s])
                        /\ t.log[s].status = "open" => t.log[s].ballot # 0
                        /\ s > t.slot => t.log[s].status = "none"
      BY DEF LogOK
    <3>1. CASE s \notin new
      <4>1. s > t.slot => s > r.slot
        BY <1>1, <1>2, <1>11, MaxSlotAssumption DEF Slot
      <4> QED
        BY <1>12, <2>0, <3>1, <4>1 DEF Good, ReplicaOK, LogOK, Proposed
    <3>2. CASE s \in new
      <4>1. ~(s > t.slot)
        BY <1>1, <1>2, <1>11, <3>2, MaxSlotAssumption DEF Slot, new
      <4>2. r.ballot # 0
        BY <1>1, <1>3, OwnedBallot DEF Good, ReplicaOK, OwnerOK
      <4> QED
        BY <1>12, <3>2, <4>1, <4>2 DEF Proposed
    <3> QED
      BY <3>1, <3>2
  <2>2. OwnerOK(I, P2, t)
    <3>1. \A p \in P2 : p[1] = t.ballot => p[2] <= t.slot
      <4>1. \A p \in P : p[1] = r.ballot => p[2] <= r.slot + n
        <5>1. \A p \in P : p[2] \in Slot
          BY DEF Context
        <5> QED
          BY <1>1, <1>2, <1>6, <5>1, MaxSlotAssumption DEF Slot
      <4>2. \A i \in 1..n : r.slot + i <= r.slot + n
        BY <1>1, <1>2, MaxSlotAssumption
      <4>3. \A p \in NewProposals(r, reqs) : p[2] <= r.slot + n
        BY <4>2 DEF NewProposals
      <4> QED
        BY <1>11, <4>1, <4>3 DEF P2
    <3>2. \A s \in Slot : s >= t.execute /\ t.log[s].status = "open" => t.log[s].ballot = t.ballot
      BY <1>11, <1>12 DEF Good, ReplicaOK, OwnerOK
    <3> QED
      BY <1>11, <3>1, <3>2 DEF Good, ReplicaOK, OwnerOK
  <2>3. RelayOK(I, P2, t) /\ \A m \in t.out : MsgOK(I, P2, m)
    <3>1. RelayOK(I, P2, r) /\ \A m \in r.out : MsgOK(I, P2, m)
      BY <2>0, RelayOKMonotone, MsgOKMonotone DEF Good, ReplicaOK
    <3> QED
      BY <1>11, <3>1 DEF RelayOK
  <2> QED
    BY <1>10, <2>1, <2>2, <2>3 DEF Good, ReplicaOK
<1>17. Good(I, P2, P2a(r, reqs)) /\ Keeps(t, P2a(r, reqs))
  <2> HIDE DEF ms, P2
  <2> QED
    BY <1>14, <1>15, <1>16, EmitGood
<1>18. Keeps(r, P2a(r, reqs))
  <2>1. Keeps(r, t)
    BY <1>1, <1>11 DEF Keeps
  <2>2. r.ballot \in Ballot /\ t.ballot \in Ballot /\ P2a(r, reqs).ballot \in Ballot
    BY <1>1, <1>16, <1>17 DEF Good, Replica, Ballot
  <2> QED
    BY <1>17, <2>1, <2>2, KeepsTransitive
<1>19. P2a(r, reqs).out = r.out \cup ms
  BY <1>10, <1>11, <1>14 DEF Emit, Replica
<1>20. NewProposals(r, reqs) \cup PropsOf(r) \subseteq PropsOf(P2a(r, reqs))
  <2>1. PropsOf(r) \subseteq PropsOf(P2a(r, reqs))
    BY <1>19 DEF PropsOf, Sent
  <2>2. ASSUME NEW i \in 1..n
        PROVE  <<r.ballot, r.slot + i, reqs[i]>> \in PropsOf(P2a(r, reqs))
    <3>1. PICK d : d \in Relays(r.id)
      BY <1>1, RelaysNonEmpty
    <3> DEFINE m == [type |-> "P2a", ballot |-> r.ballot, slot |-> r.slot + i, command |-> reqs[i],
                     p3 |-> p3(i), src |-> r.id, via |-> 0, dst |-> d]
    <3>2. m \in RoutedP2a(r.id, r.ballot, r.slot + i, reqs[i], p3(i))
      BY <3>1 DEF RoutedP2a
    <3>3. m \in P2a(r, reqs).out
      BY <1>2, <1>19, <3>2
    <3> QED
      BY <3>3 DEF PropsOf, Sent
  <2> QED
    BY <2>1, <2>2 DEF NewProposals
<1> QED
  BY <1>7, <1>17, <1>18, <1>20

\* RetryP2a is quiet: an open entry that a leader may resend carries the
\* leader's ballot, so the P2a repeats a proposal.
LEMMA RetryP2aGood ==
  ASSUME NEW I, NEW P, Context(I, P), NEW r, Good(I, P, r), r.active, r.execute <= r.slot,
         r.log[r.execute].status = "open"
  PROVE  Good(I, P, RetryP2a(r)) /\ Keeps(r, RetryP2a(r))
<1> DEFINE s == r.execute
           c == r.log[s].command
<1>1. r \in Replica /\ r.id \in Node /\ s \in Slot
  BY SMTT(30), MaxSlotAssumption DEF Good, Replica, Slot
<1>2. r.ballot \in I /\ ID(r.ballot) = r.id /\ r.ballot # 0
  BY <1>1, OwnedBallot DEF Good, ReplicaOK, OwnerOK
<1>3. s \in Int /\ s >= r.execute
  BY <1>1, MaxSlotAssumption DEF Slot
<1>4. r.log[s].ballot = r.ballot
  BY <1>1, <1>3 DEF Good, ReplicaOK, OwnerOK
<1>5. <<r.ballot, s, c>> \in P
  BY <1>1, <1>2, <1>4 DEF Good, ReplicaOK, LogOK, Proposed
<1>6. c \in Cmd
  BY <1>5 DEF Context
<1>7. NoP3 \in P3Info
  BY DEF NoP3, P3Info, Ballot
<1>8. \A m \in RoutedP2a(r.id, r.ballot, s, c, NoP3) : m \in Message /\ MsgOK(I, P, m)
  BY <1>1, <1>2, <1>5, <1>6, <1>7, RoutedP2aOK
<1> QED
  BY <1>8, EmitGood DEF RetryP2a

\* What a new leader proposes again (HandleP1b).
Reproposals(r) == {<<r.ballot, s, r.log[s].command>> : s \in Unfinished(r)}

\* A candidate that wins phase 1 proposes the open entries again and then its
\* pending requests, each slot once: under its ballot nothing was proposed
\* before.
LEMMA BecomeLeaderOutcome ==
  ASSUME NEW I, NEW P, Context(I, P), NEW r, Good(I, P, r), ~r.active, ID(r.ballot) = r.id,
         BecomeLeader(r).slot <= MaxSlot
  PROVE  Outcome(I, P, r, BecomeLeader(r))
<1> DEFINE U == Unfinished(r)
           P1 == P \cup Reproposals(r)
           l == [s \in Slot |-> IF s \in U
                                THEN [r.log[s] EXCEPT !.ballot = r.ballot, !.quorum = {r.id}]
                                ELSE r.log[s]]
           t == [r EXCEPT !.active = TRUE, !.p3ballot = r.ballot, !.requests = <<>>, !.log = l]
           ms == UNION {RoutedP2a(r.id, r.ballot, s, r.log[s].command, NoP3) : s \in U}
           r1 == Emit(t, ms)
<1>1. /\ r \in Replica /\ r.ballot \in Nat /\ r.id \in Node /\ r.slot \in -1..MaxSlot
      /\ r.requests \in Seq(Cmd)
  BY DEF Good, Replica, Ballot
<1>2. r.ballot \in I /\ r.ballot # 0
  BY <1>1, OwnedBallot DEF Good, ReplicaOK, OwnerOK
<1>3. \A s \in Slot : r.log[s] \in LogEntry
  BY <1>1 DEF Replica
<1>4. \A s \in U : s \in Slot /\ s >= r.execute /\ s <= r.slot /\ r.log[s].status = "open"
  BY DEF Unfinished
<1>5. \A s \in U : r.log[s].command \in Cmd
  BY <1>4 DEF Good, ReplicaOK, LogOK, Proposed, Context
<1>6. \A p \in P : p[1] # r.ballot
  BY DEF Good, ReplicaOK, OwnerOK
<1>7. Context(I, P1)
  <2>1. Reproposals(r) \subseteq Ballot \X Slot \X Cmd
    BY <1>1, <1>4, <1>5 DEF Reproposals, Ballot
  <2>2. \A p \in Reproposals(r) : p[1] = r.ballot /\ p[3] = r.log[p[2]].command
    BY DEF Reproposals
  <2>3. \A p \in P1 : p[1] \in I
    BY <1>2, <2>2 DEF Context, ProposalsOK
  <2>4. \A p, q \in P1 : p[1] = q[1] /\ p[2] = q[2] => p[3] = q[3]
    BY <1>6, <2>2 DEF Context, ProposalsOK
  <2> QED
    BY <2>1, <2>3, <2>4 DEF Context, ProposalsOK
<1>8. l \in [Slot -> LogEntry]
  <2>1. \A e \in LogEntry : [e EXCEPT !.ballot = r.ballot, !.quorum = {r.id}] \in LogEntry
    BY <1>1 DEF LogEntry, Ballot
  <2> QED
    BY <1>3, <2>1
<1>9. t \in Replica
  BY <1>1, <1>8, EmptySeq DEF Replica, Ballot
<1>10. /\ t.id = r.id /\ t.ballot = r.ballot /\ t.active = TRUE /\ t.execute = r.execute
       /\ t.p1bQueue = r.p1bQueue /\ t.p1bRelay = r.p1bRelay /\ t.p2bRelay = r.p2bRelay
       /\ t.out = r.out /\ t.slot = r.slot /\ t.log = l
  BY <1>1 DEF Replica
<1>11. \A s \in Slot : \/ s \notin U /\ t.log[s] = r.log[s]
                       \/ /\ s \in U /\ t.log[s].ballot = r.ballot
                          /\ t.log[s].command = r.log[s].command
  BY <1>3, <1>10 DEF LogEntry
<1>12. BecomeLeader(r) = P2a(r1, r.requests)
  BY DEF BecomeLeader
<1> HIDE DEF t, l
<1>13. Good(I, P1, t)
  <2> HIDE DEF P1, U
  <2>0. P \subseteq P1
    BY DEF P1
  <2>1. LogOK(P1, t)
    <3> SUFFICES ASSUME NEW s \in Slot
                 PROVE  /\ Proposed(P1, s, t.log[s])
                        /\ t.log[s].status = "open" => t.log[s].ballot # 0
                        /\ s > t.slot => t.log[s].status = "none"
      BY DEF LogOK
    <3>1. CASE s \notin U
      BY <1>10, <1>11, <2>0, <3>1 DEF Good, ReplicaOK, LogOK, Proposed
    <3>2. CASE s \in U
      <4>1. ~(s > t.slot)
        BY <1>1, <1>4, <1>10, <3>2, MaxSlotAssumption DEF Slot
      <4>2. <<r.ballot, s, r.log[s].command>> \in P1
        BY <3>2 DEF P1, Reproposals, U
      <4> QED
        BY <1>2, <1>11, <3>2, <4>1, <4>2 DEF Proposed
    <3> QED
      BY <3>1, <3>2
  <2>2. OwnerOK(I, P1, t)
    <3>1. \A p \in P1 : p[1] = t.ballot => p[2] <= t.slot
      BY <1>4, <1>6, <1>10 DEF P1, Reproposals, U
    <3>2. \A s \in Slot : s >= t.execute /\ t.log[s].status = "open" => t.log[s].ballot = t.ballot
      <4> SUFFICES ASSUME NEW s \in Slot, s >= r.execute, t.log[s].status = "open", s \notin U
                   PROVE  FALSE
        BY <1>10, <1>11
      <4>1. r.log[s].status = "open" /\ ~(s <= r.slot)
        BY <1>11 DEF U, Unfinished
      <4>2. s > r.slot
        BY <1>1, <4>1, MaxSlotAssumption DEF Slot
      <4> QED
        BY <4>1, <4>2 DEF Good, ReplicaOK, LogOK
    <3> QED
      BY <1>10, <3>1, <3>2 DEF Good, ReplicaOK, OwnerOK
  <2>3. RelayOK(I, P1, t) /\ \A m \in t.out : MsgOK(I, P1, m)
    <3>1. RelayOK(I, P1, r) /\ \A m \in r.out : MsgOK(I, P1, m)
      BY <2>0, RelayOKMonotone, MsgOKMonotone DEF Good, ReplicaOK
    <3> QED
      BY <1>10, <3>1 DEF RelayOK
  <2> QED
    BY <1>9, <2>1, <2>2, <2>3 DEF Good, ReplicaOK
<1>14. \A m \in ms : m \in Message /\ MsgOK(I, P1, m)
  <2> SUFFICES ASSUME NEW s \in U, NEW m \in RoutedP2a(r.id, r.ballot, s, r.log[s].command, NoP3)
               PROVE  m \in Message /\ MsgOK(I, P1, m)
    OBVIOUS
  <2>1. <<r.ballot, s, r.log[s].command>> \in P1
    BY DEF Reproposals
  <2>2. NoP3 \in P3Info
    BY DEF NoP3, P3Info, Ballot
  <2> QED
    BY <1>2, <1>4, <1>5, <1>7, <2>1, <2>2, RoutedP2aOK
<1>15. Good(I, P1, r1)
  <2> HIDE DEF ms, P1
  <2> QED
    BY <1>13, <1>14, EmitGood
<1>16. /\ r1.id = r.id /\ r1.ballot = r.ballot /\ r1.active /\ r1.slot = r.slot
       /\ r1.out = r.out \cup ms
  BY <1>9, <1>10 DEF Emit, Replica
<1>17. Reproposals(r) \subseteq PropsOf(r1)
  <2> SUFFICES ASSUME NEW s \in U PROVE <<r.ballot, s, r.log[s].command>> \in PropsOf(r1)
    BY DEF Reproposals
  <2>1. PICK d : d \in Relays(r.id)
    BY <1>1, RelaysNonEmpty
  <2> DEFINE m == [type |-> "P2a", ballot |-> r.ballot, slot |-> s, command |-> r.log[s].command,
                   p3 |-> NoP3, src |-> r.id, via |-> 0, dst |-> d]
  <2>2. m \in RoutedP2a(r.id, r.ballot, s, r.log[s].command, NoP3)
    BY <2>1 DEF RoutedP2a
  <2>3. m \in r1.out
    BY <1>16, <2>2
  <2> HIDE DEF r1, ms
  <2> QED
    BY <2>3 DEF PropsOf, Sent
<1> HIDE DEF r1, ms, P1
<1>18. r1.slot + Len(r.requests) <= MaxSlot
  <2>1. P2a(r1, r.requests).slot = r1.slot + Len(r.requests)
    BY <1>15 DEF Good, Replica, P2a, Emit
  <2> QED
    BY <1>12, <2>1
<1> DEFINE P2 == P1 \cup NewProposals(r1, r.requests)
           v == BecomeLeader(r)
<1>19. /\ Context(I, P2) /\ Good(I, P2, v) /\ Keeps(r1, v)
       /\ NewProposals(r1, r.requests) \cup PropsOf(r1) \subseteq PropsOf(v)
  <2>1. r.requests \in Seq(Cmd) /\ r1.active
    BY <1>1, <1>16
  <2>2. /\ Context(I, P1 \cup NewProposals(r1, r.requests))
        /\ Good(I, P1 \cup NewProposals(r1, r.requests), P2a(r1, r.requests))
        /\ Keeps(r1, P2a(r1, r.requests))
        /\ NewProposals(r1, r.requests) \cup PropsOf(r1) \subseteq PropsOf(P2a(r1, r.requests))
    BY ONLY <1>7, <1>15, <1>18, <2>1, P2aGood
  <2> QED
    BY ONLY <1>12, <2>2
<1>20. Keeps(r, v)
  BY <1>16, <1>19 DEF Keeps
<1>21. \A p \in P2 : p \in P \/ (p \in PropsOf(v) /\ ID(p[1]) = r.id)
  <2>1. \A p \in Reproposals(r) : p[1] = r.ballot /\ p \in PropsOf(v)
    BY <1>17, <1>19 DEF Reproposals
  <2>2. \A p \in NewProposals(r1, r.requests) : p[1] = r.ballot /\ p \in PropsOf(v)
    BY <1>16, <1>19 DEF NewProposals
  <2> QED
    BY <2>1, <2>2 DEF P1
<1>22. P \subseteq P2
  BY DEF P1
<1> HIDE DEF P2, v
<1>23. Outcome(I, P, r, v)
  BY <1>19, <1>20, <1>21, <1>22, ProposingOutcome
<1> QED
  BY <1>23 DEF v

\* Keeps composes along well-formed replicas.
LEMMA GoodKeeps ==
  ASSUME NEW I, NEW P, NEW r, NEW s, NEW t, Good(I, P, r), Good(I, P, s), Good(I, P, t),
         Keeps(r, s), Keeps(s, t)
  PROVE  Keeps(r, t)
<1>1. r.ballot \in Ballot /\ s.ballot \in Ballot /\ t.ballot \in Ballot
  BY DEF Good, Replica
<1> QED
  BY <1>1, KeepsTransitive

\* A quiet change followed by a proper outcome is a proper outcome.
LEMMA OutcomeAfter ==
  ASSUME NEW I, NEW P, NEW r, NEW s, NEW t, Good(I, P, r), Good(I, P, s), Keeps(r, s),
         Outcome(I, P, s, t)
  PROVE  Outcome(I, P, r, t)
<1>1. r.ballot \in Ballot /\ s.ballot \in Ballot /\ t.ballot \in Ballot
  BY DEF Good, Replica, Outcome
<1>2. Keeps(r, t) /\ r.id = s.id
  BY <1>1, KeepsTransitive DEF Outcome, Keeps
<1> QED
  BY <1>2 DEF Outcome

\* Doing nothing keeps everything.
LEMMA SelfKeeps ==
  ASSUME NEW I, NEW P, NEW r, Good(I, P, r)
  PROVE  Keeps(r, r)
<1>1. r.ballot \in Nat
  BY DEF Good, Replica, Ballot
<1> QED
  BY <1>1 DEF Keeps

\* HandleP1b has a proper outcome, whether it ignores the P1b, is deposed by
\* it, counts it or wins.
LEMMA HandleP1bOutcome ==
  ASSUME NEW I, NEW P, Context(I, P), NEW r, Good(I, P, r), NEW p \in P1bRecord, P1bOK(I, P, p),
         HandleP1b(r, p).slot <= MaxSlot
  PROVE  Outcome(I, P, r, HandleP1b(r, p))
<1> DEFINE r1 == Update(r, p.log)
           d1 == [r1 EXCEPT !.ballot = p.ballot, !.active = FALSE]
           r2 == IF p.ballot > r1.ballot THEN ForwardPending(d1) ELSE r1
           r3 == [r2 EXCEPT !.quorum = @ \cup {p.id}]
<1>1. CASE p.ballot < r.ballot \/ r.active
  <2>1. HandleP1b(r, p) = r
    BY <1>1 DEF HandleP1b
  <2> QED
    BY <2>1, SelfKeeps, QuietOutcome
<1>2. CASE ~(p.ballot < r.ballot \/ r.active)
  <2>1. /\ Good(I, P, r1) /\ Keeps(r, r1) /\ r1.active = r.active /\ r1.ballot = r.ballot
    <3>1. p.log \in [Slot -> CommandBallot]
      BY DEF P1bRecord
    <3> QED
      BY <1>2, <3>1, UpdateGood DEF P1bOK
  <2>2. KnownBallot(I, p.ballot)
    BY DEF P1bOK
  <2> HIDE DEF r1
  <2>3. CASE p.ballot > r1.ballot
    <3>1. p.ballot \in I /\ ID(p.ballot) # r1.id
      BY <2>1, <2>2, <2>3, HigherIsForeign
    <3>2. Good(I, P, d1) /\ Keeps(r1, d1)
      BY <2>1, <2>3, <3>1, DeposedGood
    <3> HIDE DEF d1
    <3>3. Good(I, P, ForwardPending(d1)) /\ Keeps(d1, ForwardPending(d1))
      BY <3>2, ForwardPendingGood
    <3>4. HandleP1b(r, p) = ForwardPending(d1)
      <4>1. ID(p.ballot) # r.id
        BY <2>1, <3>1 DEF Keeps
      <4> QED
        BY <1>2, <2>3, <4>1 DEF HandleP1b, r1, d1
    <3>5. Keeps(r, ForwardPending(d1))
      BY <2>1, <3>2, <3>3, GoodKeeps
    <3> QED
      BY <3>3, <3>4, <3>5, QuietOutcome
  <2>4. CASE ~(p.ballot > r1.ballot)
    <3>1. r2 = r1
      BY <2>4
    <3>2. CASE ~(ID(p.ballot) = r.id /\ p.ballot = r2.ballot)
      <4>1. HandleP1b(r, p) = r1
        BY <1>2, <2>4, <3>2 DEF HandleP1b, r1
      <4> QED
        BY <2>1, <4>1, QuietOutcome
    <3>3. CASE ID(p.ballot) = r.id /\ p.ballot = r2.ballot
      <4> DEFINE q == [r1 EXCEPT !.quorum = @ \cup {p.id}]
      <4>1. q \in Replica /\ SameCore(r1, q)
        BY ZenonT(30), <2>1 DEF Good, Replica, SameCore, P1bRecord
      <4>2. Good(I, P, q) /\ Keeps(r1, q)
        BY <2>1, <4>1, SameCoreGood
      <4>3. Keeps(r, q)
        BY <2>1, <4>2, GoodKeeps
      <4>4. HandleP1b(r, p) = IF Majority(q.quorum) THEN BecomeLeader(q) ELSE q
        BY <1>2, <2>4, <3>3 DEF HandleP1b, r1
      <4>5. ~q.active /\ ID(q.ballot) = q.id
        BY <1>2, <2>1, <3>1, <3>3, <4>1 DEF SameCore, Keeps
      <4> HIDE DEF q
      <4>6. CASE Majority(q.quorum)
        <5>1. Outcome(I, P, q, BecomeLeader(q))
          BY <4>2, <4>4, <4>5, <4>6, BecomeLeaderOutcome
        <5> QED
          BY <4>2, <4>3, <4>4, <4>6, <5>1, OutcomeAfter
      <4>7. CASE ~Majority(q.quorum)
        BY <4>2, <4>3, <4>4, <4>7, QuietOutcome
      <4> QED
        BY <4>6, <4>7
    <3> QED
      BY <3>2, <3>3
  <2> QED
    BY <2>3, <2>4
<1> QED
  BY <1>1, <1>2

\* HandleRequest has a proper outcome, whether it proposes, queues, or starts
\* phase 1.
LEMMA HandleRequestOutcome ==
  ASSUME NEW I, NEW P, Context(I, P), NEW r, Good(I, P, r), NEW c \in Cmd,
         HandleRequest(r, c).slot <= MaxSlot
  PROVE  Outcome(I, P, r, HandleRequest(r, c))
<1> DEFINE r1 == [r EXCEPT !.requests = Append(@, c)]
<1>1. r1 \in Replica /\ SameCore(r, r1)
  <2>1. r \in Replica /\ r.requests \in Seq(Cmd)
    BY DEF Good, Replica
  <2>2. Append(r.requests, c) \in Seq(Cmd)
    BY <2>1, AppendProperties
  <2> QED
    BY <2>1, <2>2 DEF Replica, SameCore
<1>2. Good(I, P, r1) /\ Keeps(r, r1) /\ r1.active = r.active
  BY <1>1, SameCoreGood DEF SameCore
<1>3. CASE r.active
  <2> DEFINE v == P2a(r, <<c>>)
             P2 == P \cup NewProposals(r, <<c>>)
  <2>1. HandleRequest(r, c) = v
    BY <1>3 DEF HandleRequest
  <2>2. <<c>> \in Seq(Cmd) /\ Len(<<c>>) = 1
    OBVIOUS
  <2>3. v.slot = r.slot + Len(<<c>>)
    BY DEF Good, Replica, P2a, Emit
  <2>4. /\ Context(I, P2) /\ Good(I, P2, v) /\ Keeps(r, v)
        /\ NewProposals(r, <<c>>) \cup PropsOf(r) \subseteq PropsOf(v)
    <3>1. r.slot + Len(<<c>>) <= MaxSlot
      BY <2>1, <2>3
    <3> QED
      BY <1>3, <2>2, <3>1, P2aGood
  <2>5. \A p \in P2 : p \in P \/ (p \in PropsOf(v) /\ ID(p[1]) = r.id)
    <3>1. \A p \in NewProposals(r, <<c>>) : p[1] = r.ballot
      BY DEF NewProposals
    <3>2. ID(r.ballot) = r.id
      BY <1>3 DEF Good, ReplicaOK, OwnerOK
    <3> HIDE DEF v
    <3> QED
      BY <2>4, <3>1, <3>2
  <2>6. P \subseteq P2
    OBVIOUS
  <2> HIDE DEF P2, v
  <2>7. Outcome(I, P, r, v)
    BY <2>4, <2>5, <2>6, ProposingOutcome
  <2> QED
    BY <2>1, <2>7
<1>4. CASE ~r.active /\ ID(r.ballot) # r.id
  <2>1. HandleRequest(r, c) = P1a(r1)
    BY <1>4 DEF HandleRequest
  <2> HIDE DEF r1
  <2>2. Outcome(I, P, r1, P1a(r1))
    BY <1>2, <1>4, P1aOutcome
  <2> QED
    BY <1>2, <2>1, <2>2, OutcomeAfter
<1>5. CASE ~r.active /\ ID(r.ballot) = r.id
  <2>1. HandleRequest(r, c) = r1
    BY <1>5 DEF HandleRequest
  <2> QED
    BY <1>2, <2>1, QuietOutcome
<1> QED
  BY <1>3, <1>4, <1>5

-----------------------------------------------------------------------------
\* Committing, clearing or keeping entries, and dropping their requests, keeps
\* a replica well formed.
LEMMA LogChangeGood ==
  ASSUME NEW I, NEW P, Context(I, P), NEW r, Good(I, P, r), NEW t \in Replica,
         t.id = r.id, t.ballot = r.ballot, t.active = r.active, t.execute = r.execute,
         t.p1bQueue = r.p1bQueue, t.p1bRelay = r.p1bRelay, t.p2bRelay = r.p2bRelay,
         t.out = r.out, r.slot <= t.slot,
         \A s \in Slot :
           \/ t.log[s].status = "none" /\ t.log[s].ballot = 0
           \/ /\ t.log[s].status = "committed" /\ s <= t.slot /\ Proposed(P, s, t.log[s])
           \/ /\ r.log[s].status = "open" /\ t.log[s].status = "open"
              /\ t.log[s].ballot = r.log[s].ballot /\ t.log[s].command = r.log[s].command
           \/ t.log[s] = r.log[s]
  PROVE  Good(I, P, t) /\ Keeps(r, t)
<1>1. /\ r.slot \in Int /\ t.slot \in Int /\ Slot \subseteq Int /\ r.ballot \in Nat
      /\ \A p \in P : p[2] \in Slot
  BY MaxSlotAssumption DEF Good, Replica, Ballot, Slot, Context
<1>2. LogOK(P, t)
  <2> SUFFICES ASSUME NEW s \in Slot
               PROVE  /\ Proposed(P, s, t.log[s])
                      /\ t.log[s].status = "open" => t.log[s].ballot # 0
                      /\ s > t.slot => t.log[s].status = "none"
    BY DEF LogOK
  <2>1. /\ Proposed(P, s, r.log[s])
        /\ r.log[s].status = "open" => r.log[s].ballot # 0
        /\ s > r.slot => r.log[s].status = "none"
    BY DEF Good, ReplicaOK, LogOK
  <2>2. s > t.slot => s > r.slot
    BY <1>1
  <2>3. s <= t.slot => ~(s > t.slot)
    BY <1>1
  <2> QED
    BY <2>1, <2>2, <2>3 DEF Proposed
<1>3. OwnerOK(I, P, t)
  <2>1. r.active => \A p \in P : p[1] = r.ballot => p[2] <= t.slot
    <3>1. r.active => \A p \in P : p[1] = r.ballot => p[2] <= r.slot
      BY DEF Good, ReplicaOK, OwnerOK
    <3> QED
      BY <1>1, <3>1
  <2>2. r.active => \A s \in Slot : s >= t.execute /\ t.log[s].status = "open"
                                       => t.log[s].ballot = r.ballot
    BY DEF Good, ReplicaOK, OwnerOK
  <2> QED
    BY <2>1, <2>2 DEF Good, ReplicaOK, OwnerOK
<1>4. RelayOK(I, P, t) /\ \A m \in t.out : MsgOK(I, P, m)
  BY DEF Good, ReplicaOK, RelayOK
<1>5. Keeps(r, t)
  BY <1>1 DEF Keeps
<1> QED
  BY <1>2, <1>3, <1>4, <1>5 DEF Good, ReplicaOK

\* HandleP2a either keeps an entry or takes over the proposal, whole.
LEMMA AcceptFacts ==
  ASSUME NEW e \in LogEntry, NEW b \in Ballot, NEW c \in Cmd
  PROVE  /\ Accept(e, b, c) \in LogEntry
         /\ \/ Accept(e, b, c) = e /\ e.status # "none"
            \/ Accept(e, b, c).ballot = b /\ Accept(e, b, c).command = c
<1> DEFINE x == Learned(b, c)
           y == [e EXCEPT !.ballot = b, !.command = c,
                          !.request = IF e.command # c THEN NoCmd ELSE @]
           z == [e EXCEPT !.ballot = b, !.command = c]
<1>1. x \in LogEntry /\ x.ballot = b /\ x.command = c
  BY DEF Learned, NoEntry, LogEntry, MaybeCmd
<1>2. y \in LogEntry /\ y.ballot = b /\ y.command = c
  BY DEF LogEntry, MaybeCmd
<1>3. z \in LogEntry /\ z.ballot = b /\ z.command = c
  BY DEF LogEntry, MaybeCmd
<1>4. Accept(e, b, c) \in {x, y, z} \/ (Accept(e, b, c) = e /\ e.status # "none")
  BY DEF Accept
<1> HIDE DEF x, y, z
<1> QED
  BY <1>1, <1>2, <1>3, <1>4

\* The fields of a P2a.
LEMMA P2aFields ==
  ASSUME NEW m \in Message, m.type = "P2a"
  PROVE  /\ m.slot \in Slot /\ m.command \in Cmd /\ m.ballot \in Ballot /\ m.p3 \in P3Info
         /\ m.src \in Node /\ m.via \in Node \cup {0}
BY DEF Message

\* HandleP2a keeps a replica well formed: the proposer of the P2a is another
\* node.
LEMMA HandleP2aGood ==
  ASSUME NEW I, NEW P, Context(I, P), NEW r, Good(I, P, r), NEW m \in Message, m.type = "P2a",
         MsgOK(I, P, m), ID(m.ballot) # r.id
  PROVE  Good(I, P, HandleP2a(r, m)) /\ Keeps(r, HandleP2a(r, m))
<1> DEFINE e == r.log[m.slot]
           f == Accept(e, m.ballot, m.command)
           displaced == {c \in {e.request} : c # NoCmd /\ e.status = "open" /\ m.ballot > e.ballot
                                             /\ e.command # m.command}
           t == [r EXCEPT !.ballot = m.ballot, !.active = FALSE, !.slot = Max({@, m.slot}),
                          !.log[m.slot] = f]
<1>1. m.slot \in Slot /\ m.command \in Cmd /\ m.ballot \in Ballot
  BY P2aFields
<1>2. m.ballot \in I /\ <<m.ballot, m.slot, m.command>> \in P
  BY DEF MsgOK
<1>3. r \in Replica /\ r.ballot \in Nat /\ r.slot \in -1..MaxSlot /\ e \in LogEntry
  BY <1>1 DEF Good, Replica, Ballot
<1>4. CASE m.ballot < r.ballot
  <2>1. HandleP2a(r, m) = r
    BY <1>4 DEF HandleP2a
  <2> QED
    BY <2>1, SelfKeeps
<1>5. CASE ~(m.ballot < r.ballot)
  <2>1. /\ f \in LogEntry
        /\ \/ f = e /\ e.status # "none"
           \/ f.ballot = m.ballot /\ f.command = m.command
    BY <1>1, <1>3, AcceptFacts
  <2>2. /\ Max({r.slot, m.slot}) \in -1..MaxSlot /\ r.slot <= Max({r.slot, m.slot})
        /\ m.slot <= Max({r.slot, m.slot})
    <3>1. {r.slot} \cup {m.slot} = {r.slot, m.slot}
      OBVIOUS
    <3> QED
      BY <1>1, <1>3, <3>1, MaxSlotOf
  <2>3. HandleP2a(r, m) = Forward(t, ID(m.ballot), displaced)
    BY <1>5 DEF HandleP2a
  <2>4. t \in Replica
    BY <1>1, <1>3, <2>1, <2>2 DEF Replica
  <2>5. /\ t.id = r.id /\ t.ballot = m.ballot /\ t.active = FALSE
        /\ t.p1bQueue = r.p1bQueue /\ t.p1bRelay = r.p1bRelay /\ t.p2bRelay = r.p2bRelay
        /\ t.out = r.out /\ t.slot = Max({r.slot, m.slot})
        /\ t.log = [r.log EXCEPT ![m.slot] = f]
    BY <1>3 DEF Replica
  <2>6. \A s \in Slot : t.log[s] = IF s = m.slot THEN f ELSE r.log[s]
    BY <1>3, <2>5 DEF Replica
  <2> HIDE DEF t, f
  <2>7. LogOK(P, t)
    <3> SUFFICES ASSUME NEW s \in Slot
                 PROVE  /\ Proposed(P, s, t.log[s])
                        /\ t.log[s].status = "open" => t.log[s].ballot # 0
                        /\ s > t.slot => t.log[s].status = "none"
      BY DEF LogOK
    <3>1. /\ Proposed(P, s, r.log[s])
          /\ r.log[s].status = "open" => r.log[s].ballot # 0
          /\ s > r.slot => r.log[s].status = "none"
      BY DEF Good, ReplicaOK, LogOK
    <3>2. s > t.slot => s > r.slot /\ s # m.slot
      BY <1>1, <1>3, <2>2, <2>5, MaxSlotAssumption DEF Slot
    <3>3. m.ballot # 0
      BY <1>2, ZeroBallot, NodeIsPositive DEF Context
    <3> QED
      BY <1>2, <2>1, <2>6, <3>1, <3>2, <3>3 DEF Proposed
  <2>8. OwnerOK(I, P, t)
    <3>1. \A a \in I : a \in Nat /\ (ID(a) = r.id => a <= r.ballot)
      BY DEF Good, ReplicaOK, OwnerOK, Context, Ballot
    <3>2. \A a \in I : ID(a) = t.id => a <= t.ballot
      BY <1>1, <1>3, <1>5, <2>5, <3>1 DEF Ballot
    <3> QED
      BY <1>2, <2>5, <3>2 DEF OwnerOK, KnownBallot
  <2>9. RelayOK(I, P, t) /\ \A x \in t.out : MsgOK(I, P, x)
    BY <2>5 DEF Good, ReplicaOK, RelayOK
  <2>10. Good(I, P, t)
    BY <2>4, <2>7, <2>8, <2>9 DEF Good, ReplicaOK
  <2>11. Keeps(r, t)
    <3>1. r.active => m.ballot # r.ballot
      BY DEF Good, ReplicaOK, OwnerOK
    <3> QED
      BY <1>1, <1>3, <1>5, <2>5, <3>1 DEF Keeps, Ballot
  <2>12. displaced \in SUBSET Cmd /\ ID(m.ballot) \in Int
    BY <1>1, <1>3, OwnerIsInt DEF LogEntry, MaybeCmd
  <2> HIDE DEF displaced
  <2>13. /\ Good(I, P, Forward(t, ID(m.ballot), displaced))
         /\ Keeps(t, Forward(t, ID(m.ballot), displaced))
    BY <2>10, <2>12, ForwardGood
  <2>14. Keeps(r, Forward(t, ID(m.ballot), displaced))
    BY <2>10, <2>11, <2>13, GoodKeeps
  <2> QED
    BY <2>3, <2>13, <2>14
<1> QED
  BY <1>4, <1>5

\* HandleP2b keeps a replica well formed, whether it is deposed, counts votes,
\* commits, or stops.
LEMMA HandleP2bGood ==
  ASSUME NEW I, NEW P, Context(I, P), NEW r, Good(I, P, r), NEW s \in Slot, NEW b,
         KnownBallot(I, b), NEW ids \in SUBSET Node
  PROVE  Good(I, P, HandleP2b(r, s, b, ids)) /\ Keeps(r, HandleP2b(r, s, b, ids))
<1> DEFINE e == r.log[s]
           p3 == [ballot |-> r.p3ballot, slots |-> r.p3slots]
           d == [r EXCEPT !.ballot = b, !.active = FALSE]
           d1 == [d EXCEPT !.p3ballot = 0, !.p3slots = {}, !.p3started = TRUE]
           r1 == IF b > r.ballot THEN Emit(d1, RoutedP3(r.id, p3)) ELSE r
           q == e.quorum \cup ids
           r2 == [r1 EXCEPT !.log[s].quorum = q]
           r3 == [r2 EXCEPT !.log[s].status = "committed", !.p3slots = @ \cup {s}]
           h == HandleP2b(r, s, b, ids)
<1>1. r \in Replica /\ e \in LogEntry /\ r.ballot \in Nat
  BY DEF Good, Replica, Ballot
<1>2. Good(I, P, r1) /\ Keeps(r, r1) /\ r1.log = r.log
  <2>1. CASE b > r.ballot
    <3>1. b \in I /\ ID(b) # r.id
      BY <2>1, HigherIsForeign
    <3>2. Good(I, P, d) /\ Keeps(r, d)
      BY <2>1, <3>1, DeposedGood
    <3>3. d.log = r.log
      BY <1>1 DEF Replica
    <3> HIDE DEF d
    <3>4. d1 \in Replica /\ SameCore(d, d1)
      BY <3>2 DEF Good, Replica, SameCore, Ballot
    <3>5. Good(I, P, d1) /\ Keeps(d, d1)
      BY <3>2, <3>4, SameCoreGood
    <3>6. p3 \in P3Info /\ r.id \in Node
      BY <1>1 DEF Replica, P3Info
    <3>7. \A m \in RoutedP3(r.id, p3) : m \in Message /\ MsgOK(I, P, m)
      BY <3>6, RoutedP3OK
    <3>8. [r EXCEPT !.ballot = b, !.active = FALSE, !.p3ballot = 0, !.p3slots = {},
                    !.p3started = TRUE] = d1
      BY <1>1 DEF Replica, d
    <3> HIDE DEF d1
    <3>9. Good(I, P, Emit(d1, RoutedP3(r.id, p3))) /\ Keeps(d1, Emit(d1, RoutedP3(r.id, p3)))
      BY <3>5, <3>7, EmitGood
    <3>10. Emit(d1, RoutedP3(r.id, p3)).log = r.log
      BY <3>3, <3>4 DEF Emit, Replica, SameCore
    <3>11. Keeps(r, d1)
      BY <3>2, <3>5, GoodKeeps
    <3>12. Keeps(r, Emit(d1, RoutedP3(r.id, p3)))
      BY <3>5, <3>9, <3>11, GoodKeeps
    <3> QED
      BY <2>1, <3>9, <3>10, <3>12
  <2>2. CASE ~(b > r.ballot)
    BY <2>2, SelfKeeps
  <2> QED
    BY <2>1, <2>2
<1>3. \/ h = r \/ h = r1 \/ h = [r1 EXCEPT !.halted = TRUE]
      \/ e.status = "open" /\ h = r2
      \/ e.status = "open" /\ h = Exec(r3)
  <2>1. b > r.ballot => r1 = Emit([r EXCEPT !.ballot = b, !.active = FALSE, !.p3ballot = 0,
                                            !.p3slots = {}, !.p3started = TRUE],
                                  RoutedP3(r.id, p3))
    BY <1>1 DEF Replica
  <2>2. ~(b > r.ballot) => r1 = r
    OBVIOUS
  <2> HIDE DEF r1
  <2>3. CASE b > r.ballot
    BY <2>1, <2>3 DEF HandleP2b
  <2>4. CASE ~(b > r.ballot)
    BY <2>2, <2>4 DEF HandleP2b
  <2> QED
    BY <2>3, <2>4
<1> HIDE DEF r1, h
<1>4. r1 \in Replica /\ r1.log[s] = e /\ e.quorum \in SUBSET Node
  BY <1>1, <1>2 DEF Good, LogEntry
<1>5. ASSUME e.status = "open" PROVE Good(I, P, r2) /\ Keeps(r1, r2)
  <2>1. [e EXCEPT !.quorum = q] \in LogEntry
    BY <1>1, <1>4 DEF LogEntry
  <2>2. r2 \in Replica
    BY <1>4, <2>1 DEF Replica
  <2>3. /\ r2.id = r1.id /\ r2.ballot = r1.ballot /\ r2.active = r1.active
        /\ r2.execute = r1.execute /\ r2.p1bQueue = r1.p1bQueue /\ r2.p1bRelay = r1.p1bRelay
        /\ r2.p2bRelay = r1.p2bRelay /\ r2.out = r1.out /\ r2.slot = r1.slot
    BY <1>4 DEF Replica
  <2>4. \A x \in Slot : \/ r2.log[x] = r1.log[x]
                        \/ /\ r1.log[x].status = "open" /\ r2.log[x].status = "open"
                           /\ r2.log[x].ballot = r1.log[x].ballot
                           /\ r2.log[x].command = r1.log[x].command
    <3>1. r2.log = [r1.log EXCEPT ![s] = [e EXCEPT !.quorum = q]]
      BY <1>4 DEF Replica
    <3>2. \A x \in Slot : r2.log[x] = IF x = s THEN [e EXCEPT !.quorum = q] ELSE r1.log[x]
      BY <1>4, <3>1 DEF Replica
    <3> QED
      BY <1>1, <1>4, <1>5, <3>2 DEF LogEntry
  <2>5. r1.slot <= r2.slot
    BY <1>4, <2>3, MaxSlotAssumption DEF Replica
  <2> HIDE DEF r2
  <2> QED
    BY <1>2, <2>2, <2>3, <2>4, <2>5, LogChangeGood
<1>6. ASSUME e.status = "open" PROVE Good(I, P, r3) /\ Keeps(r1, r3)
  <2> DEFINE f == [e EXCEPT !.quorum = q, !.status = "committed"]
  <2>1. f \in LogEntry
    BY <1>1, <1>4 DEF LogEntry
  <2>2. r3.log = [r1.log EXCEPT ![s] = f]
    BY <1>1, <1>4 DEF Replica, LogEntry
  <2>3. r3 \in Replica
    <3>1. r2 \in Replica
      BY <1>5, <1>6 DEF Good
    <3>2. [r1.log EXCEPT ![s] = f] \in [Slot -> LogEntry]
      BY <1>4, <2>1 DEF Replica
    <3>3. r3 = [r2 EXCEPT !.log = [r1.log EXCEPT ![s] = f], !.p3slots = @ \cup {s}]
      BY <2>2, <3>1 DEF Replica
    <3> HIDE DEF r2, r3, f
    <3> QED
      BY <3>1, <3>2, <3>3 DEF Replica
  <2>4. /\ r3.id = r1.id /\ r3.ballot = r1.ballot /\ r3.active = r1.active
        /\ r3.execute = r1.execute /\ r3.p1bQueue = r1.p1bQueue /\ r3.p1bRelay = r1.p1bRelay
        /\ r3.p2bRelay = r1.p2bRelay /\ r3.out = r1.out /\ r3.slot = r1.slot
    BY <1>4 DEF Replica
  <2>5. /\ Proposed(P, s, e) /\ s <= r1.slot
    <3>1. Proposed(P, s, e) /\ ~(s > r1.slot)
      BY <1>2, <1>4, <1>6 DEF Good, ReplicaOK, LogOK
    <3> QED
      BY <1>4, <3>1, MaxSlotAssumption DEF Slot, Replica
  <2>6. \A x \in Slot : \/ r3.log[x] = r1.log[x]
                        \/ /\ r3.log[x].status = "committed" /\ x <= r3.slot
                           /\ Proposed(P, x, r3.log[x])
    <3>1. f.status = "committed" /\ f.ballot = e.ballot /\ f.command = e.command
      BY <1>1 DEF LogEntry
    <3> HIDE DEF f
    <3>2. \A x \in Slot : r3.log[x] = IF x = s THEN f ELSE r1.log[x]
      BY <1>4, <2>2 DEF Replica
    <3> QED
      BY <2>4, <2>5, <3>1, <3>2 DEF Proposed
  <2>7. r1.slot <= r3.slot
    BY <1>4, <2>4, MaxSlotAssumption DEF Replica
  <2> HIDE DEF r3
  <2> QED
    BY <1>2, <2>3, <2>4, <2>6, <2>7, LogChangeGood
<1> HIDE DEF r2, r3
<1>7. e.status = "open" => Good(I, P, Exec(r3)) /\ Keeps(r1, Exec(r3))
  <2> SUFFICES ASSUME e.status = "open" PROVE Good(I, P, Exec(r3)) /\ Keeps(r1, Exec(r3))
    OBVIOUS
  <2>1. Good(I, P, r3) /\ Keeps(r1, r3)
    BY <1>6
  <2>2. Good(I, P, Exec(r3)) /\ Keeps(r3, Exec(r3))
    BY <2>1, ExecGood
  <2> QED
    BY <1>2, <2>1, <2>2, GoodKeeps
<1>8. Good(I, P, [r1 EXCEPT !.halted = TRUE]) /\ Keeps(r1, [r1 EXCEPT !.halted = TRUE])
  BY <1>2, HaltGood
<1>9. Good(I, P, h) /\ (h = r \/ h = r1 \/ Keeps(r1, h))
  BY <1>2, <1>3, <1>5, <1>7, <1>8
<1>10. Keeps(r, h)
  BY <1>2, <1>9, SelfKeeps, GoodKeeps
<1> QED
  BY <1>9, <1>10 DEF h

-----------------------------------------------------------------------------
\* HandleP3 changes neither the ballot nor the command of an entry it finds.
LEMMA CommitFacts ==
  ASSUME NEW e \in LogEntry, NEW b \in Ballot
  PROVE  /\ Commit(e, b) \in LogEntry
         /\ \/ e.status = "none" /\ Commit(e, b) = Placeholder
            \/ /\ Commit(e, b).ballot = e.ballot /\ Commit(e, b).command = e.command
               /\ e.status # "none"
               /\ \/ Commit(e, b).status = "committed"
                  \/ Commit(e, b).status = e.status
<1> DEFINE x == [e EXCEPT !.status = "committed"]
           y == [e EXCEPT !.request = NoCmd]
<1>1. Placeholder \in LogEntry
  BY DEF Placeholder, NoEntry, LogEntry, Ballot, MaybeCmd
<1>2. x \in LogEntry /\ x.status = "committed" /\ x.ballot = e.ballot /\ x.command = e.command
  BY DEF LogEntry
<1>3. y \in LogEntry /\ y.status = e.status /\ y.ballot = e.ballot /\ y.command = e.command
  BY DEF LogEntry, MaybeCmd
<1>4. \/ e.status = "none" /\ Commit(e, b) = Placeholder
      \/ e.status # "none" /\ Commit(e, b) \in {x, y}
  BY DEF Commit
<1> HIDE DEF x, y
<1> QED
  BY <1>1, <1>2, <1>3, <1>4

\* HandleP3 keeps a replica well formed.
LEMMA HandleP3Good ==
  ASSUME NEW I, NEW P, Context(I, P), NEW r, Good(I, P, r), NEW p3 \in P3Info
  PROVE  Good(I, P, HandleP3(r, p3)) /\ Keeps(r, HandleP3(r, p3))
<1> DEFINE stale == {s \in p3.slots : /\ r.log[s].status # "none"
                                      /\ r.log[s].ballot # p3.ballot
                                      /\ r.log[s].request # NoCmd}
           l == [s \in Slot |-> IF s \in p3.slots THEN Commit(r.log[s], p3.ballot) ELSE r.log[s]]
           r1 == [r EXCEPT !.slot = Max({@} \cup p3.slots), !.log = l]
           r2 == Forward(r1, ID(p3.ballot), {r.log[s].request : s \in stale})
           r3 == SendRecoverRequest(r2, p3.ballot, stale)
<1>1. /\ r \in Replica /\ r.slot \in -1..MaxSlot /\ p3.slots \in SUBSET Slot
      /\ p3.ballot \in Ballot /\ \A s \in Slot : r.log[s] \in LogEntry
  BY DEF Good, Replica, P3Info
<1>2. /\ Max({r.slot} \cup p3.slots) \in -1..MaxSlot /\ r.slot <= Max({r.slot} \cup p3.slots)
      /\ \A s \in p3.slots : s <= Max({r.slot} \cup p3.slots)
  BY <1>1, MaxSlotOf
<1>3. l \in [Slot -> LogEntry]
  BY <1>1, CommitFacts
<1>4. r1 \in Replica
  BY <1>1, <1>2, <1>3 DEF Replica
<1>5. /\ r1.id = r.id /\ r1.ballot = r.ballot /\ r1.active = r.active /\ r1.execute = r.execute
      /\ r1.p1bQueue = r.p1bQueue /\ r1.p1bRelay = r.p1bRelay /\ r1.p2bRelay = r.p2bRelay
      /\ r1.out = r.out /\ r1.slot = Max({r.slot} \cup p3.slots) /\ r1.log = l
  BY <1>1 DEF Replica
<1>6. ASSUME NEW s \in Slot
      PROVE  \/ /\ r1.log[s].status = "committed" /\ s <= r1.slot /\ Proposed(P, s, r1.log[s])
             \/ r1.log[s].status = "none" /\ r1.log[s].ballot = 0
             \/ /\ r.log[s].status = "open" /\ r1.log[s].status = "open"
                /\ r1.log[s].ballot = r.log[s].ballot /\ r1.log[s].command = r.log[s].command
             \/ r1.log[s] = r.log[s]
  <2>1. CASE s \notin p3.slots
    BY <1>5, <2>1
  <2>2. CASE s \in p3.slots
    <3> DEFINE e == r.log[s]
               f == Commit(e, p3.ballot)
    <3>1. r1.log[s] = f /\ s <= r1.slot
      BY <1>2, <1>5, <2>2
    <3>2. /\ \/ e.status = "none" /\ f = Placeholder
             \/ /\ f.ballot = e.ballot /\ f.command = e.command /\ e.status # "none"
                /\ f.status = "committed" \/ f.status = e.status
      BY <1>1, CommitFacts
    <3>3. Placeholder.status = "committed" /\ Placeholder.ballot = 0
      BY DEF Placeholder, NoEntry
    <3>4. Proposed(P, s, e) /\ e.status \in {"none", "open", "committed"}
      BY <1>1 DEF Good, ReplicaOK, LogOK, LogEntry
    <3>5. Proposed(P, s, f)
      BY <3>2, <3>3, <3>4 DEF Proposed
    <3> HIDE DEF f
    <3> QED
      BY <3>1, <3>2, <3>3, <3>4, <3>5
  <2> QED
    BY <2>1, <2>2
<1>7. Good(I, P, r1) /\ Keeps(r, r1)
  <2> HIDE DEF r1
  <2> QED
    BY <1>2, <1>4, <1>5, <1>6, LogChangeGood
<1>8. /\ stale \in SUBSET Slot /\ ID(p3.ballot) \in Int
      /\ {r.log[s].request : s \in stale} \in SUBSET Cmd
  <2>1. \A e \in LogEntry : e.request # NoCmd => e.request \in Cmd
    BY DEF LogEntry, MaybeCmd
  <2> QED
    BY <1>1, <2>1, OwnerIsInt
<1>9. HandleP3(r, p3) = Exec(r3)
  BY DEF HandleP3
<1> HIDE DEF r1, stale
<1>10. Good(I, P, r2) /\ Keeps(r1, r2)
  BY <1>7, <1>8, ForwardGood
<1> HIDE DEF r2
<1>11. Good(I, P, r3) /\ Keeps(r2, r3)
  BY <1>1, <1>8, <1>10, SendRecoverRequestGood
<1> HIDE DEF r3
<1>12. Good(I, P, Exec(r3)) /\ Keeps(r3, Exec(r3))
  BY <1>11, ExecGood
<1>13. Keeps(r, r2)
  BY <1>7, <1>10, GoodKeeps
<1>14. Keeps(r, r3)
  BY <1>10, <1>11, <1>13, GoodKeeps
<1>15. Keeps(r, Exec(r3))
  BY <1>11, <1>12, <1>14, GoodKeeps
<1> QED
  BY <1>9, <1>12, <1>15

\* HandleP3RecoverRequest answers with a proposal and keeps the replica well
\* formed.
LEMMA HandleP3RecoverRequestGood ==
  ASSUME NEW I, NEW P, Context(I, P), NEW r, Good(I, P, r), NEW s \in Slot, NEW id \in Node
  PROVE  /\ Good(I, P, HandleP3RecoverRequest(r, s, id))
         /\ Keeps(r, HandleP3RecoverRequest(r, s, id))
<1> DEFINE e == r.log[s]
           answer == [type |-> "RecoverReply", ballot |-> e.ballot, slot |-> s,
                      command |-> e.command, dst |-> {id}]
           r1 == IF e.status = "committed" THEN Emit(r, {answer}) ELSE r
<1>1. e \in LogEntry /\ Proposed(P, s, e)
  BY DEF Good, Replica, ReplicaOK, LogOK
<1>2. answer \in Message /\ MsgOK(I, P, answer)
  BY <1>1 DEF Message, MsgOK, Proposed, LogEntry
<1>3. Good(I, P, Emit(r, {answer})) /\ Keeps(r, Emit(r, {answer}))
  BY <1>2, EmitGood
<1>4. HandleP3RecoverRequest(r, s, id) = Exec(r1)
  BY DEF HandleP3RecoverRequest
<1>5. Good(I, P, r1) /\ Keeps(r, r1)
  BY <1>3, SelfKeeps
<1> HIDE DEF r1
<1>6. Good(I, P, Exec(r1)) /\ Keeps(r1, Exec(r1))
  BY <1>5, ExecGood
<1>7. Keeps(r, Exec(r1))
  BY <1>5, <1>6, GoodKeeps
<1> QED
  BY <1>4, <1>6, <1>7

\* HandleP3RecoverReply keeps a replica well formed: what it takes over was
\* proposed.
LEMMA HandleP3RecoverReplyGood ==
  ASSUME NEW I, NEW P, Context(I, P), NEW r, Good(I, P, r), NEW m \in Message,
         m.type = "RecoverReply", MsgOK(I, P, m)
  PROVE  Good(I, P, HandleP3RecoverReply(r, m)) /\ Keeps(r, HandleP3RecoverReply(r, m))
<1> DEFINE e == r.log[m.slot]
           f == IF e.status = "none" THEN e
                ELSE [e EXCEPT !.status = "committed", !.ballot = m.ballot, !.command = m.command]
           r1 == [r EXCEPT !.slot = Max({@, m.slot}), !.log[m.slot] = f]
<1>1. m.slot \in Slot /\ m.ballot \in Ballot /\ m.command \in MaybeCmd
  BY DEF Message
<1>2. Proposed(P, m.slot, m)
  BY DEF MsgOK
<1>3. r \in Replica /\ r.slot \in -1..MaxSlot /\ e \in LogEntry
  BY <1>1 DEF Good, Replica
<1>4. f \in LogEntry /\ (f = e \/ (f.status = "committed" /\ f.ballot = m.ballot
                                    /\ f.command = m.command))
  BY <1>1, <1>3 DEF LogEntry
<1>5. /\ Max({r.slot, m.slot}) \in -1..MaxSlot /\ r.slot <= Max({r.slot, m.slot})
      /\ m.slot <= Max({r.slot, m.slot})
  <2>1. {r.slot} \cup {m.slot} = {r.slot, m.slot}
    OBVIOUS
  <2> QED
    BY <1>1, <1>3, <2>1, MaxSlotOf
<1>6. HandleP3RecoverReply(r, m) = Exec(r1)
  BY DEF HandleP3RecoverReply
<1> HIDE DEF f
<1>7. r1 \in Replica
  BY <1>1, <1>3, <1>4, <1>5 DEF Replica
<1>8. /\ r1.id = r.id /\ r1.ballot = r.ballot /\ r1.active = r.active /\ r1.execute = r.execute
      /\ r1.p1bQueue = r.p1bQueue /\ r1.p1bRelay = r.p1bRelay /\ r1.p2bRelay = r.p2bRelay
      /\ r1.out = r.out /\ r1.slot = Max({r.slot, m.slot})
      /\ \A s \in Slot : r1.log[s] = IF s = m.slot THEN f ELSE r.log[s]
  BY <1>3 DEF Replica
<1> HIDE DEF r1
<1>9. \A s \in Slot : \/ r1.log[s] = r.log[s]
                      \/ /\ r1.log[s].status = "committed" /\ s <= r1.slot
                         /\ Proposed(P, s, r1.log[s])
  BY <1>2, <1>4, <1>5, <1>8 DEF Proposed
<1>10. Good(I, P, r1) /\ Keeps(r, r1)
  BY <1>5, <1>7, <1>8, <1>9, LogChangeGood
<1>11. Good(I, P, Exec(r1)) /\ Keeps(r1, Exec(r1))
  BY <1>10, ExecGood
<1>12. Keeps(r, Exec(r1))
  BY <1>10, <1>11, GoodKeeps
<1> QED
  BY <1>6, <1>11, <1>12

-----------------------------------------------------------------------------
\* UpdateLastExecuteByNode keeps a replica well formed.
LEMMA UpdateLastExecuteGood ==
  ASSUME NEW I, NEW P, NEW r, Good(I, P, r), NEW q \in Node, NEW x \in -1..MaxSlot
  PROVE  /\ Good(I, P, UpdateLastExecuteByNode(r, q, x))
         /\ Keeps(r, UpdateLastExecuteByNode(r, q, x))
<1>1. x \in -2..MaxSlot
  BY MaxSlotAssumption
<1>2. /\ UpdateLastExecuteByNode(r, q, x) \in Replica
      /\ SameCore(r, UpdateLastExecuteByNode(r, q, x))
  BY <1>1 DEF UpdateLastExecuteByNode, Good, Replica, SameCore
<1> QED
  BY <1>2, SameCoreGood

\* The cleanup marker is a slot, the slot after the last, or -1, and not beyond
\* what the node itself has executed.
LEMMA CleanupMarker ==
  ASSUME NEW r \in Replica, \A q \in Node : r.executeBy[q] # NotReported => r.executeBy[q] >= -1
  PROVE  GetSafeLogCleanupMarker(r) \in -1..(MaxSlot + 1) /\ GetSafeLogCleanupMarker(r) <= r.execute
<1> DEFINE S == {r.execute} \cup {r.executeBy[q] : q \in {p \in Node : r.executeBy[p] # NotReported}}
           T == {x + 1 : x \in S}
<1>1. \A x \in S : x \in -1..(MaxSlot + 1)
  BY MaxSlotAssumption DEF Replica, NotReported
<1>2. r.execute \in S
  OBVIOUS
<1>3. GetSafeLogCleanupMarker(r) = Min(S)
  BY DEF GetSafeLogCleanupMarker
<1> HIDE DEF S
<1>4. T \in SUBSET Nat /\ T # {}
  BY <1>1, <1>2
<1>5. Min(T) \in T /\ \A y \in T : Min(T) <= y
  BY <1>4, LeastElement
<1>6. PICK x \in S : Min(T) = x + 1
  BY <1>5
<1>7. \A y \in S : x <= y
  <2> SUFFICES ASSUME NEW y \in S PROVE x <= y
    OBVIOUS
  <2>1. x + 1 <= y + 1
    BY <1>5, <1>6
  <2> QED
    BY <1>1, <2>1
<1>8. Min(S) \in S /\ \A y \in S : Min(S) <= y
  BY <1>7 DEF Min
<1> QED
  BY <1>1, <1>2, <1>3, <1>8

\* CleanupLog keeps a replica well formed.
LEMMA CleanupLogGood ==
  ASSUME NEW I, NEW P, Context(I, P), NEW r, Good(I, P, r)
  PROVE  Good(I, P, CleanupLog(r)) /\ Keeps(r, CleanupLog(r))
<1> DEFINE marker == GetSafeLogCleanupMarker(r)
           l == [s \in Slot |-> IF s >= r.cleaned /\ s < marker THEN NoEntry ELSE r.log[s]]
           t == [r EXCEPT !.cleaned = marker, !.log = l]
<1>1. r \in Replica /\ \A s \in Slot : r.log[s] \in LogEntry
  BY DEF Good, Replica
<1>2. marker \in -1..(MaxSlot + 1)
  <2>1. \A q \in Node : r.executeBy[q] # NotReported => r.executeBy[q] >= -1
    BY <1>1, MaxSlotAssumption DEF Replica, NotReported
  <2> QED
    BY <1>1, <2>1, CleanupMarker
<1> HIDE DEF marker
<1>3. NoEntry \in LogEntry /\ NoEntry.status = "none" /\ NoEntry.ballot = 0
  BY DEF NoEntry, LogEntry, Ballot, MaybeCmd
<1>4. l \in [Slot -> LogEntry]
  BY <1>1, <1>3
<1>5. t \in Replica
  BY <1>1, <1>2, <1>4 DEF Replica
<1>6. /\ t.id = r.id /\ t.ballot = r.ballot /\ t.active = r.active /\ t.execute = r.execute
      /\ t.p1bQueue = r.p1bQueue /\ t.p1bRelay = r.p1bRelay /\ t.p2bRelay = r.p2bRelay
      /\ t.out = r.out /\ t.slot = r.slot /\ t.log = l
  BY <1>1 DEF Replica
<1>7. r.slot <= t.slot
  BY <1>1, <1>6, MaxSlotAssumption DEF Replica
<1>8. \A s \in Slot : t.log[s] = r.log[s] \/ (t.log[s].status = "none" /\ t.log[s].ballot = 0)
  BY <1>3, <1>6
<1>9. CleanupLog(r) = t
  BY DEF CleanupLog, marker
<1> HIDE DEF t
<1> QED
  BY <1>5, <1>6, <1>7, <1>8, <1>9, LogChangeGood
=============================================================================
