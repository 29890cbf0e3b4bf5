---------------------------- MODULE EPaxosProofs ----------------------------
(***************************************************************************)
(* EPaxos: replicas that have an instance committed hold the same command  *)
(* and attributes, and of two committed commands on one key one depends on *)
(* the other, for any number of replicas, commands, keys and slots, with   *)
(* messages lost and out of order.                                         *)
(*                                                                         *)
(* First what each handler does to the replica that runs it, then that a   *)
(* step which tells nothing new, tells one thing, or settles one instance  *)
(* keeps conflicting instances ordered, then the actions.                  *)
(***************************************************************************)
EXTENDS EPaxosInv, SequenceTheorems, FiniteSetTheorems, TLAPS

-----------------------------------------------------------------------------
(* Numbers, queues, and what a replica records.                            *)

\* Nothing recorded is forgotten (update).
Grown(r, t) == \A q \in Node, key \in Key : r.conflicts[q][key] <= t.conflicts[q][key]

\* Max of two integers.
LEMMA MaxOfTwo ==
  ASSUME NEW a \in Int, NEW b \in Int
  PROVE  Max({a, b}) \in Int /\ Max({a, b}) >= a /\ Max({a, b}) >= b /\ Max({a, b}) \in {a, b}
<1>1. \E x \in {a, b} : \A y \in {a, b} : x >= y
  <2>1. CASE a >= b
    BY <2>1
  <2>2. CASE b >= a
    BY <2>2
  <2> QED
    BY <2>1, <2>2
<1>2. Max({a, b}) \in {a, b} /\ \A y \in {a, b} : Max({a, b}) >= y
  BY <1>1 DEF Max
<1> QED
  BY <1>2

\* A sequence over a set has its elements in it.
LEMMA SeqRange ==
  ASSUME NEW S, NEW l \in Seq(S)
  PROVE  Range(l) \subseteq S /\ l \in Seq(Range(l)) /\ DOMAIN l = 1 .. Len(l) /\ Len(l) \in Nat
<1>1. DOMAIN l = 1 .. Len(l) /\ Len(l) \in Nat /\ \A i \in 1 .. Len(l) : l[i] \in S
  OBVIOUS
<1>2. \A i \in 1 .. Len(l) : l[i] \in Range(l)
  BY <1>1 DEF Range
<1>3. l \in Seq(Range(l))
  BY <1>1, <1>2
<1> QED
  BY <1>1, <1>3 DEF Range

\* What is in a queue after more was put into it.
LEMMA RangeOfConcat ==
  ASSUME NEW S, NEW T, NEW l \in Seq(S), NEW k \in Seq(T)
  PROVE  l \o k \in Seq(S \cup T)
<1>1. l \in Seq(S \cup T) /\ k \in Seq(S \cup T)
  OBVIOUS
<1> QED
  BY <1>1

\* What is in a queue after one message was taken out.
LEMMA RangeOfRemoveAt ==
  ASSUME NEW S, NEW l \in Seq(S), NEW i \in DOMAIN l
  PROVE  RemoveAt(l, i) \in Seq(S)
<1>1. i \in 1 .. Len(l) /\ Len(l) \in Nat
  OBVIOUS
<1>2. SubSeq(l, 1, i - 1) \in Seq(S) /\ SubSeq(l, i + 1, Len(l)) \in Seq(S)
  <2>1. \A j \in 1 .. Len(l) : l[j] \in S
    OBVIOUS
  <2>2. SubSeq(l, 1, i - 1) \in Seq(S)
    BY <1>1, <2>1, SubSeqProperties
  <2>3. SubSeq(l, i + 1, Len(l)) \in Seq(S)
    BY <1>1, <2>1, SubSeqProperties
  <2> QED
    BY <2>2, <2>3
<1> QED
  BY <1>2 DEF RemoveAt

\* The dependencies a replica gives cover what it has recorded.
LEMMA ConflictFacts ==
  ASSUME NEW n \in Node, NEW r, IsReplica(r, n), NEW c \in Cmd
  PROVE  /\ KeyOf[c] \in Key
         /\ Conflicts(r, c) \in [Node -> Nat]
         /\ \A q \in Node : Conflicts(r, c)[q] >= r.conflicts[q][KeyOf[c]]
<1>1. KeyOf[c] \in Key
  BY EPaxosAssumption
<1>2. ASSUME NEW q \in Node
      PROVE  /\ r.conflicts[q][KeyOf[c]] \in Int
             /\ Max({0, r.conflicts[q][KeyOf[c]]}) \in Nat
             /\ Max({0, r.conflicts[q][KeyOf[c]]}) >= r.conflicts[q][KeyOf[c]]
  <2>1. r.conflicts[q][KeyOf[c]] \in Int
    BY <1>1 DEF IsReplica
  <2>2. ASSUME NEW z \in Int, NEW x \in Int, z = 0
        PROVE  Max({z, x}) \in Nat /\ Max({z, x}) >= x
    BY <2>2, MaxOfTwo
  <2>3. 0 \in Int
    OBVIOUS
  <2>4. Max({0, r.conflicts[q][KeyOf[c]]}) \in Nat
        /\ Max({0, r.conflicts[q][KeyOf[c]]}) >= r.conflicts[q][KeyOf[c]]
    BY <2>1, <2>2, <2>3, Zenon
  <2> QED
    BY <2>1, <2>4
<1> QED
  BY <1>1, <1>2 DEF Conflicts

\* Recording an instance (update).
LEMMA UpdateFacts ==
  ASSUME NEW n \in Node, NEW r, IsReplica(r, n), NEW c \in Cmd, NEW q \in Node, NEW s \in Slot, NEW seq
  PROVE  LET t == Update(r, c, q, s, seq)
         IN  /\ IsReplica(t, n)
             /\ t.log = r.log /\ t.slot = r.slot /\ t.out = r.out
             /\ Grown(r, t) /\ t.conflicts[q][KeyOf[c]] >= s
<1> DEFINE t == Update(r, c, q, s, seq)
           key == KeyOf[c]
<1>1. key \in Key /\ s \in Int /\ r.conflicts[q][key] \in Int
  BY EPaxosAssumption DEF IsReplica, Slot
<1>2. /\ DOMAIN t = Fields /\ t.id = r.id /\ t.log = r.log /\ t.slot = r.slot /\ t.out = r.out
      /\ t.conflicts = [r.conflicts EXCEPT ![q][key] = Max({r.conflicts[q][key], s})]
  BY DEF Update, IsReplica, Fields
<1> HIDE DEF t, key
<1>3. Max({r.conflicts[q][key], s}) \in Int /\ Max({r.conflicts[q][key], s}) >= s
      /\ Max({r.conflicts[q][key], s}) >= r.conflicts[q][key]
  BY <1>1, MaxOfTwo
<1>4. t.conflicts \in [Node -> [Key -> Int]] /\ Grown(r, t) /\ t.conflicts[q][key] >= s
  <2>1. t.conflicts \in [Node -> [Key -> Int]]
    BY <1>1, <1>2, <1>3 DEF IsReplica
  <2>2. t.conflicts[q][key] >= s
    BY <1>1, <1>2, <1>3 DEF IsReplica
  <2>3. ASSUME NEW p \in Node, NEW k \in Key PROVE r.conflicts[p][k] <= t.conflicts[p][k]
    <3>1. r.conflicts[p][k] \in Int
      BY DEF IsReplica
    <3>2. t.conflicts[p][k] = r.conflicts[p][k] \/ (p = q /\ k = key)
      BY <1>1, <1>2 DEF IsReplica
    <3>3. t.conflicts[q][key] = Max({r.conflicts[q][key], s})
      BY <1>1, <1>2 DEF IsReplica
    <3> QED
      BY <1>3, <3>1, <3>2, <3>3
  <2> QED
    BY <2>1, <2>2, <2>3 DEF Grown
<1>5. IsReplica(t, n)
  BY <1>2, <1>4 DEF IsReplica
<1> QED
  BY <1>2, <1>4, <1>5 DEF t, key

\* Executing changes neither the log nor what is recorded of it (execute).
LEMMA UpdateCommitFacts ==
  ASSUME NEW n \in Node, NEW r, IsReplica(r, n), NEW q \in Node, NEW t \in UpdateCommit(r, q)
  PROVE  /\ IsReplica(t, n)
         /\ t.log = r.log /\ t.slot = r.slot /\ t.out = r.out /\ t.conflicts = r.conflicts
<1> DEFINE r1 == [r EXCEPT !.committed[q] = CommittedUpTo(r, q)]
<1>1. /\ DOMAIN r1 = Fields /\ r1.id = r.id
      /\ r1.log = r.log /\ r1.slot = r.slot /\ r1.out = r.out /\ r1.conflicts = r.conflicts
  BY DEF IsReplica, Fields
<1>2. t \in Execute(r1)
  BY DEF UpdateCommit
<1> HIDE DEF r1
<1>3. PICK x, d, e : t = [r1 EXCEPT !.executed = x, !.db = d, !.replies = e]
  BY <1>2 DEF Execute
<1>4. /\ DOMAIN t = Fields /\ t.id = r1.id
      /\ t.log = r1.log /\ t.slot = r1.slot /\ t.out = r1.out /\ t.conflicts = r1.conflicts
  BY <1>1, <1>3 DEF Fields
<1> QED
  BY <1>1, <1>4 DEF IsReplica

-----------------------------------------------------------------------------
(* What the handlers do: of requests and of the messages of others.        *)

\* A replica between two messages.
Good(r, n) == IsReplica(r, n) /\ OwnOK(r, n) /\ r.out = [q \in Node |-> <<>>]

\* What a replica has sent: nothing, one message to all others, or an answer.
Tells(t, n, m) == t.out = [q \in Node |-> IF q = n THEN <<>> ELSE <<m>>]

Answers(t, q, m) == t.out = [p \in Node |-> IF p = q THEN <<m>> ELSE <<>>]

Silent(t) == t.out = [q \in Node |-> <<>>]

\* A log differs in one entry at most.
SameElsewhere(r, t, q, s) ==
  \A p \in Node, u \in Slot : <<p, u>> # <<q, s>> => t.log[p][u] = r.log[p][u]

\* t is r with entry i in the log; t may differ in what else it holds.
Puts(r, t, q, s, i) ==
  /\ DOMAIN i = InstanceFields
  /\ DOMAIN t = Fields /\ t.id = r.id /\ DOMAIN t.slot = Node
  /\ t.conflicts = r.conflicts
  /\ t.log = [r.log EXCEPT ![q][s] = i]

\* Writing one entry of a log.
LEMMA LogPut ==
  ASSUME NEW n \in Node, NEW r, IsReplica(r, n), NEW q \in Node, NEW s \in Slot,
         NEW t, NEW i, Puts(r, t, q, s, i)
  PROVE  IsReplica(t, n) /\ t.log[q][s] = i /\ SameElsewhere(r, t, q, s)
<1> USE DEF Puts
<1>1. DOMAIN t.log = Node /\ \A p \in Node : DOMAIN t.log[p] = Slot
  BY DEF IsReplica
<1>2. t.log[q][s] = i
  BY DEF IsReplica
<1>3. SameElsewhere(r, t, q, s)
  BY DEF IsReplica, SameElsewhere
<1>4. \A p \in Node, u \in Slot : DOMAIN t.log[p][u] = InstanceFields
  BY <1>2, <1>3 DEF IsReplica, SameElsewhere
<1> QED
  BY <1>1, <1>2, <1>3, <1>4 DEF IsReplica

\* What Announce sends.
LEMMA AnnounceFacts ==
  ASSUME NEW n \in Node, NEW r, IsReplica(r, n), Silent(r), NEW s \in Slot, NEW type
  PROVE  LET t == Announce(r, s, type)
             i == r.log[n][s]
         IN  /\ IsReplica(t, n)
             /\ t.log = r.log /\ t.slot = r.slot /\ t.conflicts = r.conflicts
             /\ Tells(t, n, [type |-> type, slot |-> s, cmd |-> i.cmd, seq |-> i.seq, dep |-> i.dep])
<1> DEFINE i == r.log[n][s]
           m == [type |-> type, slot |-> s, cmd |-> i.cmd, seq |-> i.seq, dep |-> i.dep]
           t == Announce(r, s, type)
<1>1. r.id = n /\ r.out = [q \in Node |-> <<>>] /\ DOMAIN r = Fields
  BY DEF IsReplica, Silent
<1>2. t = [r EXCEPT !.out = [q \in Node |-> IF q = n THEN @[q] ELSE Append(@[q], m)]]
  BY <1>1 DEF Announce, Broadcast
<1> HIDE DEF t, m
<1>3. /\ DOMAIN t = Fields /\ t.id = n /\ t.log = r.log /\ t.slot = r.slot
      /\ t.conflicts = r.conflicts
      /\ t.out = [q \in Node |-> IF q = n THEN r.out[q] ELSE Append(r.out[q], m)]
  BY <1>1, <1>2 DEF Fields
<1>4. \A q \in Node : r.out[q] = <<>> /\ Append(r.out[q], m) = <<m>>
  BY <1>1
<1>5. Tells(t, n, m)
  BY <1>3, <1>4 DEF Tells
<1>6. IsReplica(t, n)
  BY <1>3 DEF IsReplica
<1> QED
  BY <1>3, <1>5, <1>6 DEF t, m

\* What an answer sends.
LEMMA SendFacts ==
  ASSUME NEW n \in Node, NEW r, IsReplica(r, n), Silent(r), NEW q \in Node, NEW m
  PROVE  LET t == Send(r, q, m)
         IN  /\ IsReplica(t, n)
             /\ t.log = r.log /\ t.slot = r.slot /\ t.conflicts = r.conflicts
             /\ Answers(t, q, m)
<1> DEFINE t == Send(r, q, m)
<1>1. r.id = n /\ r.out = [p \in Node |-> <<>>] /\ DOMAIN r = Fields
  BY DEF IsReplica, Silent
<1>2. /\ DOMAIN t = Fields /\ t.id = n /\ t.log = r.log /\ t.slot = r.slot
      /\ t.conflicts = r.conflicts /\ t.out = [r.out EXCEPT ![q] = Append(r.out[q], m)]
  BY <1>1 DEF Send, Fields
<1> HIDE DEF t
<1>3. Append(r.out[q], m) = <<m>>
  BY <1>1
<1>4. Answers(t, q, m)
  BY <1>1, <1>2, <1>3 DEF Answers
<1>5. IsReplica(t, n)
  BY <1>2 DEF IsReplica
<1> QED
  BY <1>2, <1>4, <1>5 DEF t

\* The new instance of a request (handleRequest).
LEMMA HandleRequestFacts ==
  ASSUME NEW n \in Node, NEW r, Good(r, n), NEW c \in Cmd, r.slot[n] < MaxSlot
  PROVE  LET s == r.slot[n] + 1
             t == HandleRequest(r, c)
         IN  /\ s \in Slot /\ IsReplica(t, n) /\ Grown(r, t)
             /\ t.slot[n] = s /\ SameElsewhere(r, t, n, s)
             /\ t.conflicts[n][KeyOf[c]] >= s
             /\ t.log[n][s].status = "preaccepted" /\ t.log[n][s].cmd = c
             /\ t.log[n][s].quorum = {n} /\ t.log[n][s].dep = Conflicts(r, c)
             /\ \E m : /\ Tells(t, n, m) /\ m.type = "PreAccept" /\ m.slot = s /\ m.cmd = c
<1> DEFINE s == r.slot[n] + 1
           seq == SeqAbove(r, c)
           i == [Instance("preaccepted", c, seq, Conflicts(r, c)) EXCEPT !.quorum = {n}]
           r0 == [r EXCEPT !.slot[n] = s, !.log[n][s] = i]
           r1 == Update(r0, c, n, s, seq)
           t == HandleRequest(r, c)
<1>1. IsReplica(r, n) /\ OwnOK(r, n) /\ Silent(r) /\ r.id = n
  BY DEF Good, Silent, IsReplica
<1>2. s \in Slot
  BY <1>1, EPaxosAssumption DEF OwnOK, Slot
<1>3. t = Announce(r1, s, "PreAccept")
  BY <1>1 DEF HandleRequest
<1>4. DOMAIN i = InstanceFields /\ i.status = "preaccepted" /\ i.cmd = c /\ i.quorum = {n}
      /\ i.dep = Conflicts(r, c)
  BY DEF Instance, NoInstance, InstanceFields
<1> HIDE DEF i, seq
<1>5. /\ DOMAIN r0 = Fields /\ r0.id = r.id /\ r0.slot = [r.slot EXCEPT ![n] = s]
      /\ r0.log = [r.log EXCEPT ![n][s] = i] /\ r0.conflicts = r.conflicts /\ r0.out = r.out
  BY <1>1 DEF IsReplica, Fields
<1> HIDE DEF r0
<1>6. DOMAIN r0.slot = Node /\ r0.slot[n] = s
  BY <1>1, <1>5 DEF IsReplica
<1>7. IsReplica(r0, n) /\ r0.log[n][s] = i /\ SameElsewhere(r, r0, n, s)
  <2>1. Puts(r, r0, n, s, i)
    BY <1>4, <1>5, <1>6 DEF Puts
  <2> HIDE DEF s
  <2> QED
    BY <1>1, <1>2, <2>1, LogPut
<1>8. /\ IsReplica(r1, n) /\ r1.log = r0.log /\ r1.slot = r0.slot /\ r1.out = r0.out
      /\ Grown(r0, r1) /\ r1.conflicts[n][KeyOf[c]] >= s
  <2> HIDE DEF s
  <2> QED
    BY <1>2, <1>7, UpdateFacts
<1> HIDE DEF r1, s, t
<1>9. Silent(r1)
  BY <1>1, <1>5, <1>8 DEF Silent
<1>10. /\ IsReplica(t, n) /\ t.log = r1.log /\ t.slot = r1.slot /\ t.conflicts = r1.conflicts
       /\ \E m : Tells(t, n, m) /\ m.type = "PreAccept" /\ m.slot = s /\ m.cmd = r1.log[n][s].cmd
  <2> DEFINE m == [type |-> "PreAccept", slot |-> s, cmd |-> r1.log[n][s].cmd,
                   seq |-> r1.log[n][s].seq, dep |-> r1.log[n][s].dep]
  <2>1. /\ IsReplica(t, n) /\ t.log = r1.log /\ t.slot = r1.slot /\ t.conflicts = r1.conflicts
        /\ Tells(t, n, m)
    BY <1>2, <1>3, <1>8, <1>9, AnnounceFacts
  <2>2. m.type = "PreAccept" /\ m.slot = s /\ m.cmd = r1.log[n][s].cmd
    OBVIOUS
  <2> HIDE DEF m
  <2> QED
    BY <2>1, <2>2
<1>11. Grown(r, t)
  BY <1>5, <1>8, <1>10 DEF Grown
<1>12. SameElsewhere(r, t, n, s)
  BY <1>7, <1>8, <1>10 DEF SameElsewhere
<1> QED
  BY <1>2, <1>4, <1>6, <1>7, <1>8, <1>10, <1>11, <1>12 DEF s, t

\* A handler that leaves the own instances of replica n alone.
OwnKept(r, t, n) ==
  /\ IsReplica(t, n) /\ Grown(r, t)
  /\ t.slot[n] = r.slot[n] /\ \A s \in Slot : t.log[n][s] = r.log[n][s]

\* A proposal of another replica comes (handlePreAccept).
LEMMA HandlePreAcceptFacts ==
  ASSUME NEW n \in Node, NEW r, Good(r, n), NEW q \in Node, q # n,
         NEW m, m.slot \in Slot, m.cmd \in Cmd
  PROVE  LET t == HandlePreAccept(r, q, m)
             old == r.log[q][m.slot]
         IN  /\ OwnKept(r, t, n)
             /\ SameElsewhere(r, t, q, m.slot)
             /\ \/ /\ t.log[q][m.slot].status = "preaccepted"
                   /\ t.conflicts[q][KeyOf[m.cmd]] >= m.slot
                   /\ \E a : /\ Answers(t, q, a) /\ a.type = "PreAcceptReply"
                             /\ a.slot = m.slot /\ a.dep = Conflicts(r, m.cmd)
                \/ /\ Silent(t) /\ old.cmd = NoCmd
                   /\ t.log[q][m.slot].cmd = m.cmd /\ t.log[q][m.slot].status = old.status
                \/ t = r
<1> DEFINE s == m.slot
           old == r.log[q][s]
           seq == SeqAbove(r, m.cmd)
           dep == Conflicts(r, m.cmd)
           t == HandlePreAccept(r, q, m)
<1>1. IsReplica(r, n) /\ Silent(r) /\ r.id = n /\ DOMAIN r = Fields /\ DOMAIN r.slot = Node
      /\ DOMAIN old = InstanceFields
  BY DEF Good, Silent, IsReplica
<1>2. ASSUME NEW x, IsReplica(x, n), SameElsewhere(r, x, q, s), Grown(r, x), x.slot[n] = r.slot[n]
      PROVE  OwnKept(r, x, n)
  <2>1. \A u \in Slot : <<n, u>> # <<q, s>>
    OBVIOUS
  <2> QED
    BY <1>2, <2>1 DEF OwnKept, SameElsewhere
<1>3. CASE old.status \notin {"accepted", "committed"}
  <2> DEFINE i == Instance("preaccepted", m.cmd, seq, dep)
             r0 == [r EXCEPT !.slot[q] = Max({@, s}), !.log[q][s] = i]
             r1 == Update(r0, m.cmd, q, s, seq)
             a == [type |-> "PreAcceptReply", slot |-> s, seq |-> seq, dep |-> dep,
                   committed |-> r.committed]
  <2>1. t = Send(r1, q, a)
    BY <1>3 DEF HandlePreAccept
  <2>2. DOMAIN i = InstanceFields /\ i.status = "preaccepted"
    BY DEF Instance, NoInstance, InstanceFields
  <2>3. a.type = "PreAcceptReply" /\ a.slot = s /\ a.dep = dep
    OBVIOUS
  <2> HIDE DEF i, a, seq, dep
  <2>4. /\ DOMAIN r0 = Fields /\ r0.id = r.id /\ r0.conflicts = r.conflicts /\ r0.out = r.out
        /\ r0.slot = [r.slot EXCEPT ![q] = Max({r.slot[q], s})]
        /\ r0.log = [r.log EXCEPT ![q][s] = i]
    BY <1>1 DEF IsReplica, Fields
  <2> HIDE DEF r0
  <2>5. Puts(r, r0, q, s, i) /\ r0.slot[n] = r.slot[n]
    BY <1>1, <2>2, <2>4 DEF Puts
  <2>6. IsReplica(r0, n) /\ r0.log[q][s] = i /\ SameElsewhere(r, r0, q, s)
    <3> HIDE DEF s
    <3> QED
      BY <1>1, <2>5, LogPut DEF s
  <2>7. /\ IsReplica(r1, n) /\ r1.log = r0.log /\ r1.slot = r0.slot /\ r1.out = r0.out
        /\ Grown(r0, r1) /\ r1.conflicts[q][KeyOf[m.cmd]] >= s
    BY <2>6, UpdateFacts
  <2> HIDE DEF r1, t
  <2>8. Silent(r1)
    BY <1>1, <2>4, <2>7 DEF Silent
  <2>9. /\ IsReplica(t, n) /\ t.log = r1.log /\ t.slot = r1.slot /\ t.conflicts = r1.conflicts
        /\ Answers(t, q, a)
    BY <2>1, <2>7, <2>8, SendFacts
  <2>10. Grown(r, t) /\ SameElsewhere(r, t, q, s)
    BY <2>4, <2>6, <2>7, <2>9 DEF Grown, SameElsewhere
  <2>11. OwnKept(r, t, n)
    BY <1>2, <2>5, <2>7, <2>9, <2>10
  <2>12. t.log[q][s].status = "preaccepted" /\ t.conflicts[q][KeyOf[m.cmd]] >= s
    BY <2>2, <2>6, <2>7, <2>9
  <2> QED
    BY <2>3, <2>9, <2>10, <2>11, <2>12 DEF t, dep
<1>4. CASE old.status \in {"accepted", "committed"} /\ old.cmd = NoCmd
  <2> DEFINE i == [old EXCEPT !.cmd = m.cmd]
             r0 == [r EXCEPT !.log[q][s].cmd = m.cmd]
  <2>1. t = Update(r0, m.cmd, q, s, m.seq)
    BY <1>4 DEF HandlePreAccept
  <2>2. DOMAIN i = InstanceFields /\ i.cmd = m.cmd /\ i.status = old.status
    BY <1>1 DEF InstanceFields
  <2>3. /\ DOMAIN r0 = Fields /\ r0.id = r.id /\ r0.conflicts = r.conflicts /\ r0.out = r.out
        /\ r0.slot = r.slot /\ r0.log = [r.log EXCEPT ![q][s] = i]
    BY <1>1 DEF IsReplica, Fields
  <2> HIDE DEF i, r0
  <2>4. Puts(r, r0, q, s, i)
    BY <1>1, <2>2, <2>3 DEF Puts
  <2>5. IsReplica(r0, n) /\ r0.log[q][s] = i /\ SameElsewhere(r, r0, q, s)
    <3> HIDE DEF s
    <3> QED
      BY <1>1, <2>4, LogPut DEF s
  <2>6. /\ IsReplica(t, n) /\ t.log = r0.log /\ t.slot = r0.slot /\ t.out = r0.out
        /\ Grown(r0, t)
    BY <2>1, <2>5, UpdateFacts
  <2> HIDE DEF t
  <2>7. Silent(t) /\ Grown(r, t) /\ SameElsewhere(r, t, q, s)
        /\ t.log[q][s].cmd = m.cmd /\ t.log[q][s].status = old.status
    BY <1>1, <2>2, <2>3, <2>5, <2>6 DEF Silent, Grown, SameElsewhere
  <2>8. OwnKept(r, t, n)
    BY <1>2, <2>3, <2>6, <2>7
  <2> QED
    BY <1>4, <2>7, <2>8 DEF t
<1>5. CASE old.status \in {"accepted", "committed"} /\ old.cmd # NoCmd
  <2>1. t = r
    BY <1>5 DEF HandlePreAccept
  <2>2. Grown(r, r) /\ SameElsewhere(r, r, q, s)
    BY <1>1 DEF Grown, SameElsewhere, IsReplica
  <2> QED
    BY <1>1, <1>2, <2>1, <2>2
<1> QED
  BY <1>3, <1>4, <1>5

\* The slow path of another replica comes (handleAccept).
LEMMA HandleAcceptFacts ==
  ASSUME NEW n \in Node, NEW r, Good(r, n), NEW q \in Node, q # n, NEW m, m.slot \in Slot
  PROVE  LET t == HandleAccept(r, q, m)
         IN  /\ OwnKept(r, t, n)
             /\ SameElsewhere(r, t, q, m.slot)
             /\ \/ /\ t.log[q][m.slot].status = "accepted"
                   /\ \E a : Answers(t, q, a) /\ a.type = "AcceptReply" /\ a.slot = m.slot
                \/ t = r
<1> DEFINE s == m.slot
           old == r.log[q][s]
           t == HandleAccept(r, q, m)
<1>1. IsReplica(r, n) /\ Silent(r) /\ r.id = n /\ DOMAIN r = Fields /\ DOMAIN r.slot = Node
  BY DEF Good, Silent, IsReplica
<1>2. ASSUME NEW x, IsReplica(x, n), SameElsewhere(r, x, q, s), Grown(r, x), x.slot[n] = r.slot[n]
      PROVE  OwnKept(r, x, n)
  <2>1. \A u \in Slot : <<n, u>> # <<q, s>>
    OBVIOUS
  <2> QED
    BY <1>2, <2>1 DEF OwnKept, SameElsewhere
<1>3. Grown(r, r) /\ SameElsewhere(r, r, q, s)
  BY <1>1 DEF Grown, SameElsewhere, IsReplica
<1>4. CASE old.status = "committed"
  <2>1. t = r
    BY <1>4 DEF HandleAccept
  <2> QED
    BY <1>1, <1>2, <1>3, <2>1
<1>5. CASE old.status # "committed"
  <2> DEFINE i == Instance("accepted", old.cmd, m.seq, m.dep)
             r0 == [r EXCEPT !.slot[q] = Max({@, s}), !.log[q][s] = i]
             a == [type |-> "AcceptReply", slot |-> s]
  <2>1. t = Send(r0, q, a)
    BY <1>5 DEF HandleAccept
  <2>2. DOMAIN i = InstanceFields /\ i.status = "accepted"
    BY DEF Instance, NoInstance, InstanceFields
  <2>3. a.type = "AcceptReply" /\ a.slot = s
    OBVIOUS
  <2> HIDE DEF i, a
  <2>4. /\ DOMAIN r0 = Fields /\ r0.id = r.id /\ r0.conflicts = r.conflicts /\ r0.out = r.out
        /\ r0.slot = [r.slot EXCEPT ![q] = Max({r.slot[q], s})]
        /\ r0.log = [r.log EXCEPT ![q][s] = i]
    BY <1>1 DEF IsReplica, Fields
  <2> HIDE DEF r0
  <2>5. Puts(r, r0, q, s, i) /\ r0.slot[n] = r.slot[n]
    BY <1>1, <2>2, <2>4 DEF Puts
  <2>6. IsReplica(r0, n) /\ r0.log[q][s] = i /\ SameElsewhere(r, r0, q, s)
    <3> HIDE DEF s
    <3> QED
      BY <1>1, <2>5, LogPut DEF s
  <2>7. Silent(r0)
    BY <1>1, <2>4 DEF Silent
  <2> HIDE DEF t
  <2>8. /\ IsReplica(t, n) /\ t.log = r0.log /\ t.slot = r0.slot /\ t.conflicts = r0.conflicts
        /\ Answers(t, q, a)
    BY <2>1, <2>6, <2>7, SendFacts
  <2>9. Grown(r, t) /\ SameElsewhere(r, t, q, s)
    BY <1>3, <2>4, <2>6, <2>8 DEF Grown, SameElsewhere
  <2>10. OwnKept(r, t, n)
    BY <1>2, <2>5, <2>8, <2>9
  <2> QED
    BY <2>2, <2>3, <2>6, <2>8, <2>9, <2>10 DEF t
<1> QED
  BY <1>4, <1>5

\* Another replica has committed (handleCommit).
LEMMA HandleCommitFacts ==
  ASSUME NEW n \in Node, NEW r, Good(r, n), NEW q \in Node, q # n,
         NEW m, m.slot \in Slot, m.cmd \in Cmd, NEW t \in HandleCommit(r, q, m)
  PROVE  /\ OwnKept(r, t, n) /\ Silent(t)
         /\ SameElsewhere(r, t, q, m.slot)
         /\ t.log[q][m.slot].cmd = m.cmd /\ t.log[q][m.slot].seq = m.seq
         /\ t.log[q][m.slot].dep = m.dep
<1> DEFINE s == m.slot
           i == Instance("committed", m.cmd, m.seq, m.dep)
           r0 == [r EXCEPT !.slot[q] = Max({@, s}), !.log[q][s] = i]
           r1 == Update(r0, m.cmd, q, s, m.seq)
<1>1. IsReplica(r, n) /\ Silent(r) /\ r.id = n /\ DOMAIN r = Fields /\ DOMAIN r.slot = Node
  BY DEF Good, Silent, IsReplica
<1>2. t \in UpdateCommit(r1, q)
  BY DEF HandleCommit
<1>3. DOMAIN i = InstanceFields /\ i.cmd = m.cmd /\ i.seq = m.seq /\ i.dep = m.dep
  BY DEF Instance, NoInstance, InstanceFields
<1> HIDE DEF i
<1>4. /\ DOMAIN r0 = Fields /\ r0.id = r.id /\ r0.conflicts = r.conflicts /\ r0.out = r.out
      /\ r0.slot = [r.slot EXCEPT ![q] = Max({r.slot[q], s})]
      /\ r0.log = [r.log EXCEPT ![q][s] = i]
  BY <1>1 DEF IsReplica, Fields
<1> HIDE DEF r0
<1>5. Puts(r, r0, q, s, i) /\ r0.slot[n] = r.slot[n]
  BY <1>1, <1>3, <1>4 DEF Puts
<1>6. IsReplica(r0, n) /\ r0.log[q][s] = i /\ SameElsewhere(r, r0, q, s)
  <2> HIDE DEF s
  <2> QED
    BY <1>1, <1>5, LogPut DEF s
<1>7. /\ IsReplica(r1, n) /\ r1.log = r0.log /\ r1.slot = r0.slot /\ r1.out = r0.out
      /\ Grown(r0, r1)
  BY <1>6, UpdateFacts
<1> HIDE DEF r1
<1>8. /\ IsReplica(t, n) /\ t.log = r1.log /\ t.slot = r1.slot /\ t.out = r1.out
      /\ t.conflicts = r1.conflicts
  BY <1>2, <1>7, UpdateCommitFacts
<1>9. Grown(r, t) /\ SameElsewhere(r, t, q, s) /\ Silent(t)
  BY <1>1, <1>4, <1>6, <1>7, <1>8 DEF Grown, SameElsewhere, Silent
<1>10. OwnKept(r, t, n)
  <2>1. \A u \in Slot : <<n, u>> # <<q, s>>
    OBVIOUS
  <2> QED
    BY <1>5, <1>7, <1>8, <1>9, <2>1 DEF OwnKept, SameElsewhere
<1> QED
  BY <1>3, <1>6, <1>7, <1>8, <1>9, <1>10

-----------------------------------------------------------------------------
(* What the handlers do: of the answers to an owner.                       *)

\* A handler that writes one own instance of replica n and nothing else.
OwnWritten(r, t, n, s) ==
  /\ IsReplica(t, n) /\ t.conflicts = r.conflicts /\ t.slot = r.slot
  /\ SameElsewhere(r, t, n, s)
  /\ t.log[n][s].cmd = r.log[n][s].cmd

\* A message that speaks of instance i.
Speaks(m, type, s, i) ==
  m.type = type /\ m.slot = s /\ m.cmd = i.cmd /\ m.seq = i.seq /\ m.dep = i.dep

\* The owner commits (CommitOwn).
LEMMA CommitOwnFacts ==
  ASSUME NEW n \in Node, NEW r, IsReplica(r, n), Silent(r), NEW s \in Slot, NEW t \in CommitOwn(r, s)
  PROVE  /\ OwnWritten(r, t, n, s)
         /\ t.log[n][s].status = "committed" /\ t.log[n][s].quorum = r.log[n][s].quorum
         /\ t.log[n][s].seq = r.log[n][s].seq /\ t.log[n][s].dep = r.log[n][s].dep
         /\ \E m : Tells(t, n, m) /\ Speaks(m, "Commit", s, t.log[n][s])
<1> DEFINE i == [r.log[n][s] EXCEPT !.status = "committed"]
           r0 == [r EXCEPT !.log[n][s].status = "committed"]
<1>1. r.id = n /\ DOMAIN r = Fields /\ DOMAIN r.slot = Node /\ DOMAIN r.log[n][s] = InstanceFields
  BY DEF IsReplica
<1>2. PICK x \in UpdateCommit(r0, n) : t = ReplyAtCommit(Announce(x, s, "Commit"), s)
  BY <1>1 DEF CommitOwn
<1>3. /\ DOMAIN i = InstanceFields /\ i.status = "committed" /\ i.cmd = r.log[n][s].cmd
      /\ i.seq = r.log[n][s].seq /\ i.dep = r.log[n][s].dep /\ i.quorum = r.log[n][s].quorum
  BY <1>1 DEF InstanceFields
<1>4. /\ DOMAIN r0 = Fields /\ r0.id = r.id /\ r0.conflicts = r.conflicts /\ r0.out = r.out
      /\ r0.slot = r.slot /\ r0.log = [r.log EXCEPT ![n][s] = i]
  BY <1>1 DEF IsReplica, Fields
<1> HIDE DEF i, r0
<1>5. Puts(r, r0, n, s, i)
  BY <1>1, <1>3, <1>4 DEF Puts
<1>6. IsReplica(r0, n) /\ r0.log[n][s] = i /\ SameElsewhere(r, r0, n, s)
  BY <1>5, LogPut
<1>7. /\ IsReplica(x, n) /\ x.log = r0.log /\ x.slot = r0.slot /\ x.out = r0.out
      /\ x.conflicts = r0.conflicts
  BY <1>2, <1>6, UpdateCommitFacts
<1>8. Silent(x)
  BY <1>4, <1>7 DEF Silent
<1> DEFINE y == Announce(x, s, "Commit")
           m == [type |-> "Commit", slot |-> s, cmd |-> x.log[n][s].cmd,
                 seq |-> x.log[n][s].seq, dep |-> x.log[n][s].dep]
<1>9. /\ IsReplica(y, n) /\ y.log = x.log /\ y.slot = x.slot /\ y.conflicts = x.conflicts
      /\ Tells(y, n, m)
  BY <1>7, <1>8, AnnounceFacts
<1>10. Speaks(m, "Commit", s, x.log[n][s])
  BY DEF Speaks
<1>11. t = ReplyAtCommit(y, s)
  BY <1>2
<1> HIDE DEF y, m
<1>12. /\ DOMAIN t = Fields /\ t.id = y.id /\ t.log = y.log /\ t.slot = y.slot
       /\ t.conflicts = y.conflicts /\ t.out = y.out
  BY <1>9, <1>11 DEF ReplyAtCommit, IsReplica, Fields
<1>13. IsReplica(t, n)
  BY <1>9, <1>12 DEF IsReplica
<1>14. SameElsewhere(r, t, n, s) /\ t.log[n][s] = i
  BY <1>6, <1>7, <1>9, <1>12 DEF SameElsewhere
<1>15. Tells(t, n, m) /\ Speaks(m, "Commit", s, t.log[n][s])
  BY <1>7, <1>9, <1>10, <1>12 DEF Tells
<1>16. OwnWritten(r, t, n, s)
  BY <1>3, <1>4, <1>7, <1>9, <1>12, <1>13, <1>14 DEF OwnWritten
<1> QED
  BY <1>3, <1>14, <1>15, <1>16

\* The owner takes the slow path (StartAccept).
LEMMA StartAcceptFacts ==
  ASSUME NEW n \in Node, NEW r, IsReplica(r, n), Silent(r), NEW s \in Slot
  PROVE  LET t == StartAccept(r, s)
         IN  /\ OwnWritten(r, t, n, s)
             /\ t.log[n][s].status = "accepted" /\ t.log[n][s].quorum = {n}
             /\ t.log[n][s].dep = r.log[n][s].dep
             /\ \E m : Tells(t, n, m) /\ m.type = "Accept" /\ m.slot = s
<1> DEFINE old == r.log[n][s]
           i == [old EXCEPT !.status = "accepted", !.quorum = {n}]
           r0 == [r EXCEPT !.log[n][s].status = "accepted", !.log[n][s].quorum = {n}]
           m == [type |-> "Accept", slot |-> s, seq |-> old.seq, dep |-> old.dep]
           t == StartAccept(r, s)
<1>1. r.id = n /\ DOMAIN r = Fields /\ DOMAIN r.slot = Node /\ DOMAIN old = InstanceFields
      /\ r.out = [q \in Node |-> <<>>]
  BY DEF IsReplica, Silent
<1>2. t = Broadcast(r0, m)
  BY <1>1 DEF StartAccept
<1>3. /\ DOMAIN i = InstanceFields /\ i.status = "accepted" /\ i.cmd = old.cmd
      /\ i.dep = old.dep /\ i.quorum = {n}
  BY <1>1 DEF InstanceFields
<1>4. /\ DOMAIN r0 = Fields /\ r0.id = r.id /\ r0.conflicts = r.conflicts /\ r0.out = r.out
      /\ r0.slot = r.slot /\ r0.log = [r.log EXCEPT ![n][s] = i]
  <2> DEFINE j == [old EXCEPT !.status = "accepted"]
             ra == [r EXCEPT !.log[n][s].status = "accepted"]
  <2>1. /\ DOMAIN ra = Fields /\ ra.id = r.id /\ ra.conflicts = r.conflicts /\ ra.out = r.out
        /\ ra.slot = r.slot /\ ra.log = [r.log EXCEPT ![n][s] = j]
    BY <1>1 DEF IsReplica, Fields
  <2>2. r0 = [ra EXCEPT !.log[n][s].quorum = {n}]
    OBVIOUS
  <2>3. i = [j EXCEPT !.quorum = {n}]
    OBVIOUS
  <2> HIDE DEF ra, j, r0, i
  <2>4. DOMAIN r.log = Node /\ DOMAIN r.log[n] = Slot
    BY DEF IsReplica
  <2>5. /\ DOMAIN r0 = Fields /\ r0.id = ra.id /\ r0.conflicts = ra.conflicts
        /\ r0.out = ra.out /\ r0.slot = ra.slot
        /\ r0.log = [ra.log EXCEPT ![n][s] = [ra.log[n][s] EXCEPT !.quorum = {n}]]
    BY <2>1, <2>2 DEF Fields
  <2>6. ra.log[n][s] = j
    BY <2>1, <2>4
  <2>7. r0.log = [ra.log EXCEPT ![n][s] = i]
    BY <2>3, <2>5, <2>6
  <2>8. r0.log = [r.log EXCEPT ![n][s] = i]
    BY <2>1, <2>4, <2>7
  <2> QED
    BY <2>1, <2>5, <2>8
<1>5. m.type = "Accept" /\ m.slot = s
  OBVIOUS
<1> HIDE DEF i, r0, m
<1>6. Puts(r, r0, n, s, i)
  BY <1>1, <1>3, <1>4 DEF Puts
<1>7. IsReplica(r0, n) /\ r0.log[n][s] = i /\ SameElsewhere(r, r0, n, s)
  BY <1>6, LogPut
<1>8. /\ DOMAIN t = Fields /\ t.id = n /\ t.log = r0.log /\ t.slot = r0.slot
      /\ t.conflicts = r0.conflicts
      /\ t.out = [q \in Node |-> IF q = n THEN r0.out[q] ELSE Append(r0.out[q], m)]
  BY <1>1, <1>2, <1>4 DEF Broadcast, Fields
<1> HIDE DEF t
<1>9. Tells(t, n, m)
  <2>1. \A q \in Node : r0.out[q] = <<>> /\ Append(r0.out[q], m) = <<m>>
    BY <1>1, <1>4
  <2> QED
    BY <1>8, <2>1 DEF Tells
<1>10. IsReplica(t, n)
  BY <1>7, <1>8 DEF IsReplica
<1>11. SameElsewhere(r, t, n, s) /\ t.log[n][s] = i
  BY <1>7, <1>8 DEF SameElsewhere
<1>12. OwnWritten(r, t, n, s)
  BY <1>3, <1>4, <1>8, <1>10, <1>11 DEF OwnWritten
<1> QED
  BY <1>3, <1>5, <1>9, <1>11, <1>12 DEF t

\* The larger of two dependencies on every replica.
Merged(d, e) == [q \in Node |-> Max({d[q], e[q]})]

\* Merging dependencies keeps what each says.
LEMMA MergedFacts ==
  ASSUME NEW d \in [Node -> Nat], NEW e \in [Node -> Nat]
  PROVE  /\ Merged(d, e) \in [Node -> Nat]
         /\ \A q \in Node : d[q] <= Merged(d, e)[q] /\ e[q] <= Merged(d, e)[q]
<1>1. ASSUME NEW q \in Node
      PROVE  Max({d[q], e[q]}) \in Nat /\ Max({d[q], e[q]}) >= d[q] /\ Max({d[q], e[q]}) >= e[q]
  <2>1. d[q] \in Int /\ e[q] \in Int /\ d[q] >= 0
    OBVIOUS
  <2>2. Max({d[q], e[q]}) \in Int /\ Max({d[q], e[q]}) >= d[q] /\ Max({d[q], e[q]}) >= e[q]
    BY <2>1, MaxOfTwo
  <2> QED
    BY <2>1, <2>2
<1> QED
  BY <1>1 DEF Merged

\* Replica n moves from r to t when it counts an answer of q on its instance s
\* that gives dependencies dep.
Counted(r, t, n, q, s, dep) ==
  LET old == r.log[n][s]
      i == t.log[n][s]
      Q == old.quorum \cup {q}
  IN  /\ OwnWritten(r, t, n, s)
      /\ i.dep = Merged(old.dep, dep)
      /\ \/ i.status = old.status /\ i.quorum = Q /\ Silent(t)
         \/ /\ FastQuorum(Q) /\ i.status = "committed" /\ i.quorum = Q
            /\ \E w : Tells(t, n, w) /\ Speaks(w, "Commit", s, i)
         \/ /\ FastQuorum(Q) /\ i.status = "accepted" /\ i.quorum = {n}
            /\ \E w : Tells(t, n, w) /\ w.type = "Accept" /\ w.slot = s

\* An answer to a proposal is counted (handlePreAcceptReply).
LEMMA CountPreAcceptFacts ==
  ASSUME NEW n \in Node, NEW r, Good(r, n), NEW q \in Node, NEW m, m.slot \in Slot,
         NEW t \in CountPreAccept(r, q, m)
  PROVE  Counted(r, t, n, q, m.slot, m.dep)
<1> DEFINE s == m.slot
           old == r.log[n][s]
           Q == old.quorum \cup {q}
           i == MergeAttributes([old EXCEPT !.quorum = @ \cup {q}], m.seq, m.dep)
           r1 == [r EXCEPT !.log[n][s] = i,
                           !.committed = [p \in Node |-> Max({@[p], m.committed[p]})]]
<1>1. /\ r.id = n /\ DOMAIN r = Fields /\ DOMAIN r.slot = Node /\ DOMAIN old = InstanceFields
      /\ IsReplica(r, n) /\ Silent(r) /\ s \in Slot
  BY DEF Good, IsReplica, Silent
<1>2. /\ DOMAIN i = InstanceFields /\ i.status = old.status /\ i.cmd = old.cmd /\ i.quorum = Q
      /\ i.dep = Merged(old.dep, m.dep)
  BY <1>1 DEF MergeAttributes, Merged, InstanceFields
<1>3. \/ t = r1
      \/ FastQuorum(Q) /\ t \in CommitOwn(r1, s)
      \/ FastQuorum(Q) /\ t = StartAccept(r1, s)
  <2>1. \/ t = r1
        \/ FastQuorum(i.quorum) /\ t \in CommitOwn(r1, s)
        \/ FastQuorum(i.quorum) /\ t = StartAccept(r1, s)
    <3> HIDE DEF i
    <3> QED
      BY <1>1 DEF CountPreAccept, i
  <2> QED
    BY <1>2, <2>1
<1>4. /\ DOMAIN r1 = Fields /\ r1.id = r.id /\ r1.conflicts = r.conflicts /\ r1.out = r.out
      /\ r1.slot = r.slot /\ r1.log = [r.log EXCEPT ![n][s] = i]
  BY <1>1 DEF IsReplica, Fields
<1> HIDE DEF i, r1
<1>5. Puts(r, r1, n, s, i)
  BY <1>1, <1>2, <1>4 DEF Puts
<1>6. IsReplica(r1, n) /\ r1.log[n][s] = i /\ SameElsewhere(r, r1, n, s)
  <2> HIDE DEF s
  <2> QED
    BY <1>1, <1>5, LogPut DEF s
<1>7. Silent(r1)
  BY <1>1, <1>4 DEF Silent
<1>8. ASSUME NEW x, OwnWritten(r1, x, n, s) PROVE OwnWritten(r, x, n, s)
  BY <1>2, <1>4, <1>6, <1>8 DEF OwnWritten, SameElsewhere
<1>9. CASE t = r1
  <2>1. OwnWritten(r, t, n, s)
    BY <1>2, <1>4, <1>6, <1>9 DEF OwnWritten
  <2> QED
    BY <1>2, <1>6, <1>7, <1>9, <2>1 DEF Counted
<1>10. CASE FastQuorum(Q) /\ t \in CommitOwn(r1, s)
  <2>1. /\ OwnWritten(r1, t, n, s)
        /\ t.log[n][s].status = "committed" /\ t.log[n][s].quorum = r1.log[n][s].quorum
        /\ t.log[n][s].dep = r1.log[n][s].dep
        /\ \E w : Tells(t, n, w) /\ Speaks(w, "Commit", s, t.log[n][s])
    BY <1>1, <1>6, <1>7, <1>10, CommitOwnFacts
  <2> QED
    BY <1>2, <1>6, <1>8, <1>10, <2>1 DEF Counted
<1>11. CASE FastQuorum(Q) /\ t = StartAccept(r1, s)
  <2>1. /\ OwnWritten(r1, t, n, s)
        /\ t.log[n][s].status = "accepted" /\ t.log[n][s].quorum = {n}
        /\ t.log[n][s].dep = r1.log[n][s].dep
        /\ \E w : Tells(t, n, w) /\ w.type = "Accept" /\ w.slot = s
    BY <1>1, <1>6, <1>7, <1>11, StartAcceptFacts
  <2> QED
    BY <1>2, <1>6, <1>8, <1>11, <2>1 DEF Counted
<1> QED
  BY <1>3, <1>9, <1>10, <1>11

\* An answer of the slow path is counted (handleAcceptReply).
LEMMA HandleAcceptReplyFacts ==
  ASSUME NEW n \in Node, NEW r, Good(r, n), NEW q \in Node, NEW m, m.slot \in Slot,
         NEW t \in HandleAcceptReply(r, q, m)
  PROVE  LET s == m.slot
             old == r.log[n][s]
             i == t.log[n][s]
         IN  \/ t = r
             \/ /\ OwnWritten(r, t, n, s)
                /\ old.status = "accepted" /\ i.dep = old.dep
                /\ i.quorum = old.quorum \cup {q}
                /\ \/ i.status = "accepted" /\ Silent(t)
                   \/ /\ i.status = "committed"
                      /\ \E w : Tells(t, n, w) /\ Speaks(w, "Commit", s, i)
<1> DEFINE s == m.slot
           old == r.log[n][s]
           i == [old EXCEPT !.quorum = @ \cup {q}]
           r1 == [r EXCEPT !.log[n][s].quorum = @ \cup {q}]
<1>1. /\ r.id = n /\ DOMAIN r = Fields /\ DOMAIN r.slot = Node /\ DOMAIN old = InstanceFields
      /\ IsReplica(r, n) /\ Silent(r) /\ s \in Slot
  BY DEF Good, IsReplica, Silent
<1>2. t = r \/ (old.status = "accepted" /\ (t = r1 \/ t \in CommitOwn(r1, s)))
  BY <1>1 DEF HandleAcceptReply
<1>3. /\ DOMAIN i = InstanceFields /\ i.status = old.status /\ i.cmd = old.cmd
      /\ i.quorum = old.quorum \cup {q} /\ i.dep = old.dep
  BY <1>1 DEF InstanceFields
<1>4. /\ DOMAIN r1 = Fields /\ r1.id = r.id /\ r1.conflicts = r.conflicts /\ r1.out = r.out
      /\ r1.slot = r.slot /\ r1.log = [r.log EXCEPT ![n][s] = i]
  BY <1>1 DEF IsReplica, Fields
<1> HIDE DEF i, r1
<1>5. Puts(r, r1, n, s, i)
  BY <1>1, <1>3, <1>4 DEF Puts
<1>6. IsReplica(r1, n) /\ r1.log[n][s] = i /\ SameElsewhere(r, r1, n, s)
  <2> HIDE DEF s
  <2> QED
    BY <1>1, <1>5, LogPut DEF s
<1>7. Silent(r1)
  BY <1>1, <1>4 DEF Silent
<1>8. ASSUME NEW x, OwnWritten(r1, x, n, s) PROVE OwnWritten(r, x, n, s)
  BY <1>3, <1>4, <1>6, <1>8 DEF OwnWritten, SameElsewhere
<1>9. CASE old.status = "accepted" /\ t = r1
  <2>1. OwnWritten(r, t, n, s)
    BY <1>3, <1>4, <1>6, <1>9 DEF OwnWritten
  <2> QED
    BY <1>3, <1>6, <1>7, <1>9, <2>1
<1>10. CASE old.status = "accepted" /\ t \in CommitOwn(r1, s)
  <2>1. /\ OwnWritten(r1, t, n, s)
        /\ t.log[n][s].status = "committed" /\ t.log[n][s].quorum = r1.log[n][s].quorum
        /\ t.log[n][s].dep = r1.log[n][s].dep
        /\ \E w : Tells(t, n, w) /\ Speaks(w, "Commit", s, t.log[n][s])
    BY <1>1, <1>6, <1>7, <1>10, CommitOwnFacts
  <2> QED
    BY <1>3, <1>6, <1>8, <1>10, <2>1
<1> QED
  BY <1>2, <1>9, <1>10

-----------------------------------------------------------------------------
(* How the order of conflicting instances is kept.                         *)

\* What no step does to the instances of their owners and to what is recorded.
Forward ==
  /\ \A p \in Node, s \in Slot :
       /\ Own(p, s).status # "none" => Own(p, s)'.status # "none" /\ Own(p, s)'.cmd = Own(p, s).cmd
       /\ Settled(p, s) => Settled(p, s)' /\ Own(p, s)'.dep = Own(p, s).dep
  /\ \A r \in Node : Grown(node[r], node'[r])

\* Dependencies that cover others.
Smaller(D, E) == \A q \in Node : D[q] <= E[q]

\* Only of an instance not yet settled something is told.
LEMMA TellingFacts ==
  ASSUME Base, NEW r \in Node, NEW p \in Node, NEW s \in Slot, NEW D \in Tellings(r, p, s)
  PROVE  D \in [Node -> Nat] /\ Own(p, s).status = "preaccepted" /\ KeyOfOwn(p, s) \in Key
<1>1. Own(p, s).status = "preaccepted"
  BY DEF Tellings
<1>2. OwnOK(node[p], p) /\ \A m \in InFlight(r, p) : MsgOK(r, p, m)
  BY DEF Base
<1>3. Own(p, s).dep \in [Node -> Nat] /\ Own(p, s).cmd \in Cmd
  BY <1>1, <1>2 DEF OwnOK, Own
<1>4. KeyOfOwn(p, s) \in Key
  BY <1>3, EPaxosAssumption DEF KeyOfOwn
<1>5. CASE D = Own(p, s).dep
  BY <1>1, <1>3, <1>4, <1>5
<1>6. CASE \E m \in InFlight(r, p) : m.type = "PreAcceptReply" /\ m.slot = s /\ D = m.dep
  BY <1>1, <1>2, <1>4, <1>6 DEF MsgOK
<1> QED
  BY <1>1, <1>5, <1>6 DEF Tellings

\* The dependencies told are dependencies.
TellingsTyped ==
  \A r, p \in Node, s \in Slot : \A D \in Tellings(r, p, s) : D \in [Node -> Nat]

\* That is so before a step,
LEMMA BaseTyped == Base => TellingsTyped
BY TellingFacts DEF TellingsTyped

\* and after it.
LEMMA BaseTypedNext == Base' => TellingsTyped'
BY BaseTyped, PTL

\* Of a settled instance nothing is told any more.
LEMMA SettledFacts ==
  ASSUME Base, NEW p \in Node, NEW s \in Slot, Settled(p, s)
  PROVE  /\ Own(p, s).dep \in [Node -> Nat] /\ KeyOfOwn(p, s) \in Key
         /\ \A r \in Node : Tellings(r, p, s) = {}
<1>1. Own(p, s).status # "none" /\ Own(p, s).status # "preaccepted"
  BY DEF Settled
<1>2. Own(p, s).dep \in [Node -> Nat] /\ Own(p, s).cmd \in Cmd
  BY <1>1 DEF Base, OwnOK, Own
<1> QED
  BY <1>1, <1>2, EPaxosAssumption DEF Tellings, KeyOfOwn

\* What is recorded stays recorded.
LEMMA RecordedKept ==
  ASSUME Base, Base', Forward, NEW r \in Node, NEW p \in Node, NEW s \in Slot,
         Own(p, s).status # "none", KeyOfOwn(p, s) \in Key
  PROVE  /\ KeyOfOwn(p, s)' = KeyOfOwn(p, s)
         /\ node[r].conflicts[p][KeyOfOwn(p, s)] >= s =>
              node'[r].conflicts[p][KeyOfOwn(p, s)'] >= s
<1>1. KeyOfOwn(p, s)' = KeyOfOwn(p, s)
  BY DEF Forward, KeyOfOwn
<1> DEFINE key == KeyOfOwn(p, s)
<1>2. node[r].conflicts[p][key] \in Int /\ node'[r].conflicts[p][key] \in Int
  BY DEF Base, IsReplica
<1>3. node[r].conflicts[p][key] <= node'[r].conflicts[p][key]
  BY DEF Forward, Grown
<1>4. s \in Int
  BY DEF Slot
<1> QED
  BY <1>1, <1>2, <1>3, <1>4

\* A conflict of two instances that exist was one before the step.
LEMMA ConflictKept ==
  ASSUME Forward, NEW p \in Node, NEW s \in Slot, NEW q \in Node, NEW u \in Slot,
         Own(p, s).status # "none", Own(q, u).status # "none"
  PROVE  Conflicting(p, s, q, u)' <=> Conflicting(p, s, q, u)
BY DEF Forward, KeyOfOwn, Conflicting

\* Orders are kept when dependencies grow.
LEMMA OrderKept ==
  ASSUME NEW D \in [Node -> Nat], NEW D2 \in [Node -> Nat], Smaller(D, D2),
         NEW E \in [Node -> Nat], NEW E2 \in [Node -> Nat], Smaller(E, E2),
         NEW p \in Node, NEW s \in Slot, NEW q \in Node, NEW u \in Slot,
         D[q] >= u \/ E[p] >= s
  PROVE  D2[q] >= u \/ E2[p] >= s
<1>1. D[q] \in Nat /\ D2[q] \in Nat /\ E[p] \in Nat /\ E2[p] \in Nat /\ s \in Int /\ u \in Int
  BY DEF Slot
<1>2. D[q] <= D2[q] /\ E[p] <= E2[p]
  BY DEF Smaller
<1> QED
  BY <1>1, <1>2

\* Every dependency told is one that was told before, or covers one.
Covered ==
  \A r, p \in Node, s \in Slot : \A D \in Tellings(r, p, s)' :
    \E E \in Tellings(r, p, s) : Smaller(E, D)

\* A witness of a settled instance stays one.
LEMMA WitnessKept ==
  ASSUME Base, Base', Forward, Covered, NEW p \in Node, NEW s \in Slot, Settled(p, s),
         NEW r \in Node, Witness(p, s, r)
  PROVE  Witness(p, s, r)'
<1>1. /\ Settled(p, s)' /\ Own(p, s)'.dep = Own(p, s).dep /\ Own(p, s).status # "none"
      /\ Own(p, s).dep \in [Node -> Nat] /\ KeyOfOwn(p, s) \in Key
  BY SettledFacts DEF Forward, Settled
<1>2. node'[r].conflicts[p][KeyOfOwn(p, s)'] >= s
  BY <1>1, RecordedKept DEF Witness
<1>3. ASSUME NEW q \in Node, NEW u \in Slot, NEW E \in Tellings(r, q, u)',
             Conflicting(p, s, q, u)'
      PROVE  Own(p, s)'.dep[q] >= u \/ E[p] >= s
  <2>1. PICK F \in Tellings(r, q, u) : Smaller(F, E)
    BY <1>3 DEF Covered
  <2>2. F \in [Node -> Nat] /\ E \in [Node -> Nat] /\ Own(q, u).status # "none"
    BY <2>1, <1>3, TellingFacts, BaseTypedNext DEF TellingsTyped
  <2>3. Own(p, s).dep[q] >= u \/ F[p] >= s
    BY <1>1, <1>3, <2>1, <2>2, ConflictKept DEF Witness
  <2>4. Own(p, s).dep[q] \in Nat /\ F[p] \in Nat /\ E[p] \in Nat /\ F[p] <= E[p]
        /\ s \in Int /\ u \in Int
    BY <1>1, <2>1, <2>2 DEF Smaller, Slot
  <2> QED
    BY <1>1, <2>3, <2>4
<1> QED
  BY <1>2, <1>3 DEF Witness

\* What is told stays recorded where nothing new is told.
LEMMA CoveredRecorded ==
  ASSUME Base, Base', Forward, Covered, Recorded
  PROVE  Recorded'
<1> SUFFICES ASSUME NEW r \in Node, NEW p \in Node, NEW s \in Slot, NEW D \in Tellings(r, p, s)'
             PROVE  node'[r].conflicts[p][KeyOfOwn(p, s)'] >= s
  BY DEF Recorded
<1>1. PICK E \in Tellings(r, p, s) : TRUE
  BY DEF Covered
<1>2. Own(p, s).status # "none" /\ KeyOfOwn(p, s) \in Key
  BY <1>1, TellingFacts
<1>3. node[r].conflicts[p][KeyOfOwn(p, s)] >= s
  BY <1>1 DEF Recorded
<1> QED
  BY <1>2, <1>3, RecordedKept

\* What is told stays ordered where nothing new is told.
LEMMA CoveredOrdered ==
  ASSUME Base, Base', Forward, Covered, TellingsOrdered
  PROVE  TellingsOrdered'
<1> SUFFICES ASSUME NEW r \in Node, NEW p \in Node, NEW q \in Node, NEW s \in Slot, NEW u \in Slot,
                    NEW D \in Tellings(r, p, s)', NEW E \in Tellings(r, q, u)',
                    Conflicting(p, s, q, u)'
             PROVE  D[q] >= u \/ E[p] >= s
  BY DEF TellingsOrdered
<1>1. PICK D1 \in Tellings(r, p, s) : Smaller(D1, D)
  BY DEF Covered
<1>2. PICK E1 \in Tellings(r, q, u) : Smaller(E1, E)
  BY DEF Covered
<1>3. /\ Own(p, s).status # "none" /\ Own(q, u).status # "none"
      /\ D1 \in [Node -> Nat] /\ E1 \in [Node -> Nat]
  BY <1>1, <1>2, TellingFacts
<1>4. D \in [Node -> Nat] /\ E \in [Node -> Nat]
  BY BaseTypedNext DEF TellingsTyped
<1>5. D1[q] >= u \/ E1[p] >= s
  BY <1>1, <1>2, <1>3, ConflictKept DEF TellingsOrdered
<1> QED
  BY <1>1, <1>2, <1>3, <1>4, <1>5, OrderKept

\* Instances settled before stay ordered.
LEMMA SettledKept ==
  ASSUME Base, Forward, SettledOrdered, NEW p \in Node, NEW s \in Slot, NEW q \in Node, NEW u \in Slot,
         Settled(p, s), Settled(q, u), Conflicting(p, s, q, u)'
  PROVE  Own(p, s)'.dep[q] >= u \/ Own(q, u)'.dep[p] >= s
<1>1. Own(p, s).status # "none" /\ Own(q, u).status # "none"
  BY DEF Settled
<1>2. Conflicting(p, s, q, u)
  BY <1>1, ConflictKept
<1> QED
  BY <1>2 DEF Forward, SettledOrdered

\* A step that tells nothing new and settles nothing.
LEMMA Quiet ==
  ASSUME Base, Base', Forward, Covered, Ordering,
         \A p \in Node, s \in Slot : Settled(p, s)' => Settled(p, s)
  PROVE  Ordering'
<1>1. Recorded' /\ TellingsOrdered'
  BY CoveredRecorded, CoveredOrdered DEF Ordering
<1>2. SettledWitnessed'
  BY WitnessKept DEF Ordering, SettledWitnessed
<1>3. SettledOrdered'
  <2> SUFFICES ASSUME NEW p \in Node, NEW q \in Node, NEW s \in Slot, NEW u \in Slot,
                      Settled(p, s), Settled(q, u), Conflicting(p, s, q, u)'
               PROVE  Own(p, s)'.dep[q] >= u \/ Own(q, u)'.dep[p] >= s
    BY DEF SettledOrdered
  <2> QED
    BY SettledKept DEF Ordering
<1> QED
  BY <1>1, <1>2, <1>3 DEF Ordering

\* Two fast quorums of more than one replica meet.
LEMMA FastMeet ==
  ASSUME NEW P \in SUBSET Node, NEW Q \in SUBSET Node, Fast(P), Fast(Q)
  PROVE  P \cap Q # {}
<1>1. IsFiniteSet(Node) /\ Cardinality(Node) \in Nat
  BY EPaxosAssumption, FS_CardinalityType
<1>2. IsFiniteSet(P) /\ IsFiniteSet(Q) /\ Cardinality(P) \in Nat /\ Cardinality(Q) \in Nat
  BY <1>1, FS_Subset, FS_CardinalityType
<1> DEFINE N == Cardinality(Node)
           a == Cardinality(P)
           b == Cardinality(Q)
<1>3. a >= (N * 3) \div 4 /\ b >= (N * 3) \div 4 /\ a >= 2 /\ b >= 2
  BY DEF Fast, FastQuorum
<1> HIDE DEF N, a, b
<1>4. ASSUME NEW x \in Nat, NEW y \in Nat, NEW z \in Nat, x >= (z * 3) \div 4, y >= (z * 3) \div 4,
             x >= 2, y >= 2
      PROVE  x + y > z
  <2>1. 4 * ((z * 3) \div 4) + 3 >= z * 3 /\ (z * 3) \div 4 \in Nat
    OBVIOUS
  <2> QED
    BY <1>4, <2>1
<1>5. a + b > N
  BY <1>1, <1>2, <1>3, <1>4 DEF a, b, N
<1> QED
  BY <1>1, <1>5, FS_MajoritiesIntersect DEF a, b, N

\* A step that settles one instance, once a fast quorum has told its replicas'
\* dependencies, and tells nothing new.
LEMMA Settling ==
  ASSUME Base, Base', Forward, Covered, Ordering,
         NEW p0 \in Node, NEW s0 \in Slot, NEW Q0 \in SUBSET Node, Fast(Q0),
         Own(p0, s0).status = "preaccepted", Settled(p0, s0)',
         \A r \in Q0 : \E D \in Tellings(r, p0, s0) : Smaller(D, Own(p0, s0)'.dep),
         \A p \in Node, s \in Slot : Settled(p, s)' => Settled(p, s) \/ <<p, s>> = <<p0, s0>>
  PROVE  Ordering'
<1> DEFINE D0 == Own(p0, s0)'.dep
<1>1. Recorded' /\ TellingsOrdered'
  BY CoveredRecorded, CoveredOrdered DEF Ordering
<1>2. Own(p0, s0).status # "none" /\ KeyOfOwn(p0, s0) \in Key
  <2>1. Own(p0, s0).cmd \in Cmd
    BY DEF Base, OwnOK, Own
  <2> QED
    BY <2>1, EPaxosAssumption DEF KeyOfOwn
<1>3. D0 \in [Node -> Nat]
  BY DEF Base, OwnOK, Own
<1> HIDE DEF D0
<1>4. ASSUME NEW r \in Q0
      PROVE  Witness(p0, s0, r)'
  <2>1. PICK D \in Tellings(r, p0, s0) : Smaller(D, D0)
    BY DEF D0
  <2>2. D \in [Node -> Nat]
    BY <2>1, TellingFacts
  <2>3. node'[r].conflicts[p0][KeyOfOwn(p0, s0)'] >= s0
    BY <1>2, <2>1, RecordedKept DEF Ordering, Recorded
  <2>4. ASSUME NEW q \in Node, NEW u \in Slot, NEW E \in Tellings(r, q, u)',
               Conflicting(p0, s0, q, u)'
        PROVE  D0[q] >= u \/ E[p0] >= s0
    <3>1. PICK E1 \in Tellings(r, q, u) : Smaller(E1, E)
      BY <2>4 DEF Covered
    <3>2. E1 \in [Node -> Nat] /\ Own(q, u).status # "none" /\ E \in [Node -> Nat]
      BY <2>4, <3>1, TellingFacts, BaseTypedNext DEF TellingsTyped
    <3>3. Conflicting(p0, s0, q, u)
      BY <1>2, <2>4, <3>2, ConflictKept
    <3>4. D[q] >= u \/ E1[p0] >= s0
      BY <2>1, <3>1, <3>3 DEF Ordering, TellingsOrdered
    <3> QED
      BY <1>3, <2>1, <2>2, <3>1, <3>2, <3>4, OrderKept
  <2> QED
    BY <2>3, <2>4 DEF Witness, D0
<1>5. SettledWitnessed'
  <2> SUFFICES ASSUME NEW p \in Node, NEW s \in Slot, Settled(p, s)'
               PROVE  \E Q \in SUBSET Node : Fast(Q) /\ \A r \in Q : Witness(p, s, r)'
    BY DEF SettledWitnessed
  <2>1. CASE Settled(p, s)
    BY <2>1, WitnessKept DEF Ordering, SettledWitnessed
  <2>2. CASE <<p, s>> = <<p0, s0>>
    BY <2>2, <1>4
  <2> QED
    BY <2>1, <2>2
<1>6. ASSUME NEW q \in Node, NEW u \in Slot, Settled(q, u), Conflicting(p0, s0, q, u)'
      PROVE  D0[q] >= u \/ Own(q, u)'.dep[p0] >= s0
  <2>1. PICK Q \in SUBSET Node : Fast(Q) /\ \A r \in Q : Witness(q, u, r)
    BY <1>6 DEF Ordering, SettledWitnessed
  <2>2. PICK r \in Node : r \in Q /\ r \in Q0
    BY <2>1, FastMeet
  <2>3. PICK D \in Tellings(r, p0, s0) : Smaller(D, D0)
    BY <2>2 DEF D0
  <2>4. D \in [Node -> Nat] /\ Own(q, u).dep \in [Node -> Nat] /\ Own(q, u).status # "none"
    BY <1>6, <2>3, TellingFacts, SettledFacts DEF Settled
  <2>5. Conflicting(q, u, p0, s0)
    <3>1. Conflicting(p0, s0, q, u)
      BY <1>2, <1>6, <2>4, ConflictKept
    <3> QED
      BY <3>1 DEF Conflicting
  <2>6. Own(q, u).dep[p0] >= s0 \/ D[q] >= u
    BY <2>1, <2>2, <2>3, <2>5 DEF Witness
  <2>7. Smaller(Own(q, u).dep, Own(q, u).dep)
    BY <2>4 DEF Smaller
  <2>8. Own(q, u)'.dep = Own(q, u).dep
    BY <1>6 DEF Forward
  <2> QED
    BY <1>3, <2>3, <2>4, <2>6, <2>7, <2>8, OrderKept
<1>7. SettledOrdered'
  <2> SUFFICES ASSUME NEW p \in Node, NEW q \in Node, NEW s \in Slot, NEW u \in Slot,
                      Settled(p, s)', Settled(q, u)', Conflicting(p, s, q, u)'
               PROVE  Own(p, s)'.dep[q] >= u \/ Own(q, u)'.dep[p] >= s
    BY DEF SettledOrdered
  <2>1. CASE Settled(p, s) /\ Settled(q, u)
    BY <2>1, SettledKept DEF Ordering
  <2>2. CASE <<p, s>> = <<p0, s0>> /\ Settled(q, u)
    BY <2>2, <1>6 DEF D0
  <2>3. CASE Settled(p, s) /\ <<q, u>> = <<p0, s0>>
    <3>1. Conflicting(p0, s0, p, s)'
      BY <2>3 DEF Conflicting
    <3> QED
      BY <2>3, <3>1, <1>6 DEF D0
  <2>4. CASE <<p, s>> = <<p0, s0>> /\ <<q, u>> = <<p0, s0>>
    BY <2>4 DEF Conflicting
  <2> QED
    BY <2>1, <2>2, <2>3, <2>4
<1> QED
  BY <1>1, <1>5, <1>7 DEF Ordering

\* A step at which replica n0 tells the dependencies D0 of an instance, which
\* cover all that n0 has recorded, and records the instance.
LEMMA Telling ==
  ASSUME Base, Base', Forward, Ordering,
         NEW n0 \in Node, NEW p0 \in Node, NEW s0 \in Slot, NEW D0 \in [Node -> Nat],
         Own(p0, s0)'.cmd \in Cmd,
         \A r, p \in Node, s \in Slot : \A D \in Tellings(r, p, s)' :
           \/ D \in Tellings(r, p, s)
           \/ <<r, p, s>> = <<n0, p0, s0>> /\ D = D0,
         \A q \in Node : D0[q] >= node[n0].conflicts[q][KeyOfOwn(p0, s0)'],
         node'[n0].conflicts[p0][KeyOfOwn(p0, s0)'] >= s0,
         \A p \in Node, s \in Slot : Settled(p, s)' => Settled(p, s)
  PROVE  Ordering'
<1> DEFINE key == KeyOfOwn(p0, s0)'
<1>1. key \in Key
  BY EPaxosAssumption DEF KeyOfOwn
<1> HIDE DEF key
<1>2. \A q \in Node : node[n0].conflicts[q][key] \in Int
  <2>1. IsReplica(node[n0], n0)
    BY DEF Base
  <2>2. node[n0].conflicts \in [Node -> [Key -> Int]]
    BY <2>1 DEF IsReplica
  <2> QED
    BY <1>1, <2>2
<1>3. Recorded'
  <2> SUFFICES ASSUME NEW r \in Node, NEW p \in Node, NEW s \in Slot, NEW D \in Tellings(r, p, s)'
               PROVE  node'[r].conflicts[p][KeyOfOwn(p, s)'] >= s
    BY DEF Recorded
  <2>1. CASE D \in Tellings(r, p, s)
    <3>1. Own(p, s).status # "none" /\ KeyOfOwn(p, s) \in Key
      BY <2>1, TellingFacts
    <3>2. node[r].conflicts[p][KeyOfOwn(p, s)] >= s
      BY <2>1 DEF Ordering, Recorded
    <3> QED
      BY <3>1, <3>2, RecordedKept
  <2>2. CASE <<r, p, s>> = <<n0, p0, s0>>
    BY <2>2
  <2> QED
    BY <2>1, <2>2
\* What was told of another conflicting instance is in D0.
<1>4. ASSUME NEW q \in Node, NEW u \in Slot, Own(q, u).status # "none",
             node[n0].conflicts[q][KeyOfOwn(q, u)] >= u, Conflicting(p0, s0, q, u)'
      PROVE  D0[q] >= u
  <2>1. KeyOfOwn(q, u) = key
    BY <1>4 DEF Forward, KeyOfOwn, Conflicting, key
  <2>2. D0[q] >= node[n0].conflicts[q][key] /\ node[n0].conflicts[q][key] >= u
    BY <1>4, <2>1 DEF key
  <2>3. D0[q] \in Nat /\ u \in Int
    BY DEF Slot
  <2> QED
    BY <1>2, <2>2, <2>3
<1>5. ASSUME NEW q \in Node, NEW u \in Slot, NEW E \in Tellings(n0, q, u), Conflicting(p0, s0, q, u)'
      PROVE  D0[q] >= u
  <2>1. Own(q, u).status # "none"
    BY <1>5, TellingFacts
  <2>2. node[n0].conflicts[q][KeyOfOwn(q, u)] >= u
    BY <1>5 DEF Ordering, Recorded
  <2> QED
    BY <1>4, <1>5, <2>1, <2>2
<1>6. TellingsOrdered'
  <2> SUFFICES ASSUME NEW r \in Node, NEW p \in Node, NEW q \in Node, NEW s \in Slot, NEW u \in Slot,
                      NEW D \in Tellings(r, p, s)', NEW E \in Tellings(r, q, u)',
                      Conflicting(p, s, q, u)'
               PROVE  D[q] >= u \/ E[p] >= s
    BY DEF TellingsOrdered
  <2>1. CASE D \in Tellings(r, p, s) /\ E \in Tellings(r, q, u)
    <3>1. Own(p, s).status # "none" /\ Own(q, u).status # "none"
      BY <2>1, TellingFacts
    <3> QED
      BY <2>1, <3>1, ConflictKept DEF Ordering, TellingsOrdered
  <2>2. CASE <<r, p, s>> = <<n0, p0, s0>> /\ D = D0 /\ E \in Tellings(r, q, u)
    BY <2>2, <1>5
  <2>3. CASE D \in Tellings(r, p, s) /\ <<r, q, u>> = <<n0, p0, s0>> /\ E = D0
    <3>1. Conflicting(p0, s0, p, s)'
      BY <2>3 DEF Conflicting
    <3> QED
      BY <2>3, <3>1, <1>5
  <2>4. CASE <<r, p, s>> = <<n0, p0, s0>> /\ <<r, q, u>> = <<n0, p0, s0>>
    BY <2>4 DEF Conflicting
  <2> QED
    BY <2>1, <2>2, <2>3, <2>4
<1>7. ASSUME NEW p \in Node, NEW s \in Slot, Settled(p, s), NEW r \in Node, Witness(p, s, r)
      PROVE  Witness(p, s, r)'
  <2>1. /\ Settled(p, s)' /\ Own(p, s)'.dep = Own(p, s).dep /\ Own(p, s).status # "none"
        /\ Own(p, s).dep \in [Node -> Nat] /\ KeyOfOwn(p, s) \in Key
    BY <1>7, SettledFacts DEF Forward, Settled
  <2>2. node'[r].conflicts[p][KeyOfOwn(p, s)'] >= s
    BY <1>7, <2>1, RecordedKept DEF Witness
  <2>3. ASSUME NEW q \in Node, NEW u \in Slot, NEW E \in Tellings(r, q, u)',
               Conflicting(p, s, q, u)'
        PROVE  Own(p, s)'.dep[q] >= u \/ E[p] >= s
    <3>1. CASE E \in Tellings(r, q, u)
      <4>1. Own(q, u).status # "none"
        BY <3>1, TellingFacts
      <4> QED
        BY <1>7, <2>1, <2>3, <3>1, <4>1, ConflictKept DEF Witness
    <3>2. CASE <<r, q, u>> = <<n0, p0, s0>> /\ E = D0
      <4>1. Conflicting(p0, s0, p, s)'
        BY <2>3, <3>2 DEF Conflicting
      <4>2. node[n0].conflicts[p][KeyOfOwn(p, s)] >= s
        BY <1>7, <3>2 DEF Witness
      <4> QED
        BY <1>4, <2>1, <3>2, <4>1, <4>2
    <3> QED
      BY <2>3, <3>1, <3>2
  <2> QED
    BY <2>2, <2>3 DEF Witness
<1>8. SettledWitnessed'
  BY <1>7 DEF Ordering, SettledWitnessed
<1>9. SettledOrdered'
  <2> SUFFICES ASSUME NEW p \in Node, NEW q \in Node, NEW s \in Slot, NEW u \in Slot,
                      Settled(p, s), Settled(q, u), Conflicting(p, s, q, u)'
               PROVE  Own(p, s)'.dep[q] >= u \/ Own(q, u)'.dep[p] >= s
    BY DEF SettledOrdered
  <2> QED
    BY SettledKept DEF Ordering
<1> QED
  BY <1>3, <1>6, <1>8, <1>9 DEF Ordering

-----------------------------------------------------------------------------
(* Steps: what they do to the connections and to the instances.            *)

\* Replica n moves to state t and its connections take what it has sent.
Moved(n, t) ==
  /\ DOMAIN node' = Node /\ \A p \in Node : p # n => node'[p] = node[p]
  /\ IsReplica(node'[n], n) /\ node'[n].out = [q \in Node |-> <<>>]
  /\ node'[n].log = t.log /\ node'[n].slot = t.slot /\ node'[n].conflicts = t.conflicts
  /\ DOMAIN links' = Node /\ \A a \in Node : DOMAIN links'[a] = Node
  /\ \A a, b \in Node :
       /\ links'[a][b] \in Seq(InFlight(a, b)')
       /\ InFlight(a, b)' \subseteq InFlight(a, b) \cup (IF a = n THEN Range(t.out[b]) ELSE {})

\* What the connections hold, as queues.
Queues(l) ==
  /\ DOMAIN l = Node /\ \A a \in Node : DOMAIN l[a] = Node
  /\ \A a, b \in Node : l[a][b] \in Seq(InFlight(a, b))

\* A queue of messages that were sent before or are sent now.
LEMMA QueueFacts ==
  ASSUME NEW S, NEW l \in Seq(S)
  PROVE  l \in Seq(Range(l)) /\ Range(l) \subseteq S
BY SeqRange

\* A step of a replica: it moves, and its connections take what it sends.
LEMMA MovedFacts ==
  ASSUME Base, NEW n \in Node, NEW t, IsReplica(t, n),
         \A b \in Node : t.out[b] \in Seq(Range(t.out[b])),
         NEW l, Queues(l), Put(n, t), links' = Flush(l, n, t)
  PROVE  Moved(n, t)
<1>1. DOMAIN node = Node /\ DOMAIN t = Fields
  BY DEF Base, IsReplica
<1> DEFINE e == [t EXCEPT !.out = [q \in Node |-> <<>>]]
<1>2. /\ DOMAIN e = Fields /\ e.id = t.id /\ e.log = t.log /\ e.slot = t.slot
      /\ e.conflicts = t.conflicts /\ e.out = [q \in Node |-> <<>>]
  BY <1>1 DEF Fields
<1>3. node' = [node EXCEPT ![n] = e]
  BY DEF Put
<1> HIDE DEF e
<1>4. IsReplica(e, n)
  BY <1>2 DEF IsReplica
<1>5. DOMAIN node' = Node /\ node'[n] = e /\ \A p \in Node : p # n => node'[p] = node[p]
  BY <1>1, <1>3
<1>6. links' = [l EXCEPT ![n] = [q \in Node |-> l[n][q] \o t.out[q]]]
  BY DEF Flush
<1>7. /\ DOMAIN links' = Node /\ \A a \in Node : DOMAIN links'[a] = Node
      /\ \A a, b \in Node : links'[a][b] = IF a = n THEN l[a][b] \o t.out[b] ELSE l[a][b]
  BY <1>6 DEF Queues
<1>8. ASSUME NEW a \in Node, NEW b \in Node
      PROVE  /\ links'[a][b] \in Seq(InFlight(a, b)')
             /\ InFlight(a, b)' \subseteq InFlight(a, b) \cup (IF a = n THEN Range(t.out[b]) ELSE {})
  <2> DEFINE S == InFlight(a, b) \cup (IF a = n THEN Range(t.out[b]) ELSE {})
  <2>1. l[a][b] \in Seq(InFlight(a, b)) /\ t.out[b] \in Seq(Range(t.out[b]))
    BY DEF Queues
  <2>2. CASE a = n
    <3>1. l[a][b] \o t.out[b] \in Seq(InFlight(a, b) \cup Range(t.out[b]))
      BY <2>1, RangeOfConcat
    <3>2. links'[a][b] \in Seq(S)
      BY <1>7, <2>2, <3>1
    <3> HIDE DEF S
    <3> QED
      BY <3>2, QueueFacts DEF InFlight, S
  <2>3. CASE a # n
    <3>1. links'[a][b] \in Seq(S)
      BY <1>7, <2>1, <2>3
    <3> HIDE DEF S
    <3> QED
      BY <3>1, QueueFacts DEF InFlight, S
  <2> QED
    BY <2>2, <2>3
<1> QED
  BY <1>2, <1>4, <1>5, <1>7, <1>8 DEF Moved

\* The connections without one message.
LEMMA TakenFacts ==
  ASSUME Base, NEW a \in Node, NEW b \in Node, NEW i \in DOMAIN links[a][b]
  PROVE  Queues([links EXCEPT ![a][b] = RemoveAt(@, i)])
<1> DEFINE l == [links EXCEPT ![a][b] = RemoveAt(@, i)]
<1>1. RemoveAt(links[a][b], i) \in Seq(InFlight(a, b))
  <2>1. links[a][b] \in Seq(InFlight(a, b))
    BY DEF Base
  <2> QED
    BY <2>1, RangeOfRemoveAt
<1>2. DOMAIN links = Node /\ \A c \in Node : DOMAIN links[c] = Node
  BY DEF Base
<1>3. \A c, d \in Node : links[c][d] \in Seq(InFlight(c, d))
  BY DEF Base
<1>4. DOMAIN l = Node /\ \A c \in Node : DOMAIN l[c] = Node
  BY <1>2
<1>5. \A c, d \in Node : l[c][d] = IF c = a /\ d = b THEN RemoveAt(links[a][b], i) ELSE links[c][d]
  BY <1>2
<1> HIDE DEF l
<1>6. \A c, d \in Node : l[c][d] \in Seq(InFlight(c, d))
  BY <1>1, <1>3, <1>5
<1> QED
  BY <1>4, <1>6 DEF Queues, l

\* The message a replica takes is one on its way to it.
LEMMA TakenMessage ==
  ASSUME Base, NEW a \in Node, NEW b \in Node, NEW i \in DOMAIN links[a][b]
  PROVE  links[a][b][i] \in InFlight(a, b) /\ MsgOK(a, b, links[a][b][i])
<1>1. links[a][b][i] \in InFlight(a, b)
  BY DEF InFlight, Range
<1> QED
  BY <1>1 DEF Base

\* One message is a queue.
LEMMA OneMessage ==
  ASSUME NEW m
  PROVE  <<m>> \in Seq(Range(<<m>>)) /\ Range(<<m>>) = {m}
<1>1. <<m>> \in Seq({m}) /\ DOMAIN <<m>> = {1} /\ <<m>>[1] = m
  OBVIOUS
<1>2. Range(<<m>>) = {m}
  BY <1>1 DEF Range
<1> QED
  BY <1>1, <1>2

\* What a handler that sends nothing adds to the connections.
LEMMA SilentSends ==
  ASSUME NEW t, Silent(t), NEW b \in Node
  PROVE  t.out[b] \in Seq(Range(t.out[b])) /\ Range(t.out[b]) = {}
<1>1. <<>> \in Seq({}) /\ Range(<<>>) = {}
  BY DEF Range
<1>2. t.out[b] = <<>>
  BY DEF Silent
<1> QED
  BY <1>1, <1>2

\* The same for a message to all others,
LEMMA TellsSends ==
  ASSUME NEW t, NEW n, NEW m, Tells(t, n, m), NEW b \in Node
  PROVE  t.out[b] \in Seq(Range(t.out[b])) /\ Range(t.out[b]) = IF b = n THEN {} ELSE {m}
<1>1. <<>> \in Seq({}) /\ Range(<<>>) = {}
  BY DEF Range
<1>2. t.out[b] = IF b = n THEN <<>> ELSE <<m>>
  BY DEF Tells
<1> QED
  BY <1>1, <1>2, OneMessage

\* and for an answer.
LEMMA AnswersSends ==
  ASSUME NEW t, NEW q, NEW m, Answers(t, q, m), NEW b \in Node
  PROVE  t.out[b] \in Seq(Range(t.out[b])) /\ Range(t.out[b]) = IF b = q THEN {m} ELSE {}
<1>1. <<>> \in Seq({}) /\ Range(<<>>) = {}
  BY DEF Range
<1>2. t.out[b] = IF b = q THEN <<m>> ELSE <<>>
  BY DEF Answers
<1> QED
  BY <1>1, <1>2, OneMessage

\* What no step does to the command of an instance and to a committed one.
Kept ==
  \A p \in Node, s \in Slot :
    /\ Own(p, s).status # "none" => Own(p, s)'.status # "none" /\ Own(p, s)'.cmd = Own(p, s).cmd
    /\ Own(p, s).status = "committed" =>
         /\ Own(p, s)'.status = "committed"
         /\ Own(p, s)'.seq = Own(p, s).seq /\ Own(p, s)'.dep = Own(p, s).dep

\* A message on its way stays true.
LEMMA MessageKept ==
  ASSUME Kept, NEW a \in Node, NEW b \in Node, NEW m, MsgOK(a, b, m)
  PROVE  MsgOK(a, b, m)'
BY DEF Kept, MsgOK

\* What a replica holds of the instances of others after a step.
CopiesFollow(n) ==
  \A q \in Node, s \in Slot :
    n # q /\ node'[n].log[q][s].status = "committed" =>
      \/ node'[n].log[q][s] = node[n].log[q][s]
      \/ /\ Own(q, s)'.status = "committed"
         /\ node'[n].log[q][s].cmd = Own(q, s)'.cmd
         /\ node'[n].log[q][s].seq = Own(q, s)'.seq
         /\ node'[n].log[q][s].dep = Own(q, s)'.dep

\* Copies of committed instances stay right.
LEMMA CopiesKept ==
  ASSUME Copies, Kept, \A n \in Node : CopiesFollow(n)
  PROVE  Copies'
<1> SUFFICES ASSUME NEW n \in Node, NEW q \in Node, NEW s \in Slot, n # q,
                    node'[n].log[q][s].status = "committed"
             PROVE  /\ Own(q, s)'.status = "committed"
                    /\ node'[n].log[q][s].cmd = Own(q, s)'.cmd
                    /\ node'[n].log[q][s].seq = Own(q, s)'.seq
                    /\ node'[n].log[q][s].dep = Own(q, s)'.dep
  BY DEF Copies
<1>1. CASE node'[n].log[q][s] = node[n].log[q][s]
  <2>1. /\ Own(q, s).status = "committed"
        /\ node[n].log[q][s].cmd = Own(q, s).cmd
        /\ node[n].log[q][s].seq = Own(q, s).seq
        /\ node[n].log[q][s].dep = Own(q, s).dep
    BY <1>1 DEF Copies
  <2> QED
    BY <1>1, <2>1 DEF Kept
<1>2. CASE node'[n].log[q][s] # node[n].log[q][s]
  BY <1>2 DEF CopiesFollow
<1> QED
  BY <1>1, <1>2

\* The step of a replica that keeps its own instances in order.
LEMMA BaseKept ==
  ASSUME Base, Kept, NEW n \in Node, NEW t, Moved(n, t), OwnOK(t, n),
         \A b \in Node : \A m \in Range(t.out[b]) : MsgOK(n, b, m)'
  PROVE  Base'
<1>1. /\ DOMAIN node' = Node /\ DOMAIN links' = Node /\ \A a \in Node : DOMAIN links'[a] = Node
      /\ \A a, b \in Node : links'[a][b] \in Seq(InFlight(a, b)')
  BY DEF Moved
<1>2. ASSUME NEW p \in Node
      PROVE  /\ IsReplica(node'[p], p) /\ OwnOK(node'[p], p)
             /\ node'[p].out = [q \in Node |-> <<>>]
  <2>1. CASE p = n
    BY <2>1 DEF Moved, OwnOK
  <2>2. CASE p # n
    BY <2>2 DEF Moved, Base
  <2> QED
    BY <2>1, <2>2
<1>3. ASSUME NEW a \in Node, NEW b \in Node, NEW m \in InFlight(a, b)'
      PROVE  MsgOK(a, b, m)'
  <2>1. CASE m \in InFlight(a, b)
    <3>1. MsgOK(a, b, m)
      BY <2>1 DEF Base
    <3> QED
      BY <3>1, MessageKept
  <2>2. CASE a = n /\ m \in Range(t.out[b])
    BY <2>2
  <2> QED
    BY <2>1, <2>2 DEF Moved
<1> QED
  BY <1>1, <1>2, <1>3 DEF Base

\* A step that leaves the own instances of replica n alone.
LEMMA OwnKeptStep ==
  ASSUME Base, Copies, NEW n \in Node, NEW t, Moved(n, t), OwnKept(node[n], t, n),
         NEW q \in Node, q # n, NEW s \in Slot, SameElsewhere(node[n], t, q, s),
         \A b \in Node : \A m \in Range(t.out[b]) : MsgOK(n, b, m),
         t.log[q][s].status = "committed" =>
           \/ t.log[q][s] = node[n].log[q][s]
           \/ /\ Own(q, s).status = "committed"
              /\ t.log[q][s].cmd = Own(q, s).cmd
              /\ t.log[q][s].seq = Own(q, s).seq
              /\ t.log[q][s].dep = Own(q, s).dep
  PROVE  /\ Base' /\ Copies' /\ Forward
         /\ \A p \in Node, u \in Slot : Own(p, u)' = Own(p, u)
<1>1. ASSUME NEW p \in Node, NEW u \in Slot
      PROVE  Own(p, u)' = Own(p, u)
  <2>1. CASE p = n
    BY <2>1 DEF Own, Moved, OwnKept
  <2>2. CASE p # n
    BY <2>2 DEF Own, Moved
  <2> QED
    BY <2>1, <2>2
<1>2. Kept
  BY <1>1 DEF Kept
<1>3. Forward
  <2>1. \A r \in Node : Grown(node[r], node'[r])
    <3>1. Grown(node[n], node'[n])
      BY DEF Moved, OwnKept, Grown
    <3>2. ASSUME NEW r \in Node, r # n
          PROVE  Grown(node[r], node'[r])
      <4>1. node'[r] = node[r] /\ IsReplica(node[r], r)
        BY <3>2 DEF Moved, Base
      <4> QED
        BY <4>1 DEF IsReplica, Grown
    <3> QED
      BY <3>1, <3>2
  <2> QED
    BY <1>1, <2>1 DEF Forward, Settled
<1>4. OwnOK(t, n)
  <2>1. OwnOK(node[n], n)
    BY DEF Base
  <2> QED
    BY <2>1 DEF OwnOK, OwnKept
<1>5. \A b \in Node : \A m \in Range(t.out[b]) : MsgOK(n, b, m)'
  BY <1>2, MessageKept
<1>6. Base'
  BY <1>2, <1>4, <1>5, BaseKept
<1>7. \A p \in Node : CopiesFollow(p)
  <2>1. \A p \in Node : p # n => CopiesFollow(p)
    BY DEF Moved, CopiesFollow
  <2>2. CopiesFollow(n)
    <3> SUFFICES ASSUME NEW p \in Node, NEW u \in Slot, n # p,
                        node'[n].log[p][u].status = "committed"
                 PROVE  \/ node'[n].log[p][u] = node[n].log[p][u]
                        \/ /\ Own(p, u)'.status = "committed"
                           /\ node'[n].log[p][u].cmd = Own(p, u)'.cmd
                           /\ node'[n].log[p][u].seq = Own(p, u)'.seq
                           /\ node'[n].log[p][u].dep = Own(p, u)'.dep
      BY DEF CopiesFollow
    <3>1. node'[n].log = t.log
      BY DEF Moved
    <3>2. CASE <<p, u>> = <<q, s>>
      BY <1>1, <3>1, <3>2
    <3>3. CASE <<p, u>> # <<q, s>>
      BY <3>1, <3>3 DEF SameElsewhere
    <3> QED
      BY <3>2, <3>3
  <2> QED
    BY <2>1, <2>2
<1>8. Copies'
  BY <1>2, <1>7, CopiesKept
<1> QED
  BY <1>1, <1>3, <1>6, <1>8

\* A step that writes one own instance of replica n.
LEMMA OwnWrittenStep ==
  ASSUME Base, Copies, NEW n \in Node, NEW t, Moved(n, t), NEW s \in Slot,
         OwnWritten(node[n], t, n, s),
         Own(n, s).status \in {"preaccepted", "accepted"},
         t.log[n][s].status \in {"preaccepted", "accepted", "committed"},
         t.log[n][s].status = "preaccepted" => Own(n, s).status = "preaccepted",
         t.log[n][s].dep \in [Node -> Nat],
         Own(n, s).status = "accepted" => t.log[n][s].dep = Own(n, s).dep,
         t.log[n][s].status = "preaccepted" => n \in t.log[n][s].quorum,
         t.log[n][s].quorum \subseteq Node,
         \A b \in Node : \A m \in Range(t.out[b]) :
           /\ n # b
           /\ \/ m.type = "Accept" /\ m.slot = s
              \/ t.log[n][s].status = "committed" /\ Speaks(m, "Commit", s, t.log[n][s])
  PROVE  /\ Base' /\ Copies' /\ Forward
         /\ Own(n, s)' = t.log[n][s]
         /\ \A p \in Node, u \in Slot : <<p, u>> # <<n, s>> => Own(p, u)' = Own(p, u)
<1>1. ASSUME NEW p \in Node, NEW u \in Slot, <<p, u>> # <<n, s>>
      PROVE  Own(p, u)' = Own(p, u)
  <2>1. CASE p = n
    BY <1>1, <2>1 DEF Own, Moved, OwnWritten, SameElsewhere
  <2>2. CASE p # n
    BY <2>2 DEF Own, Moved
  <2> QED
    BY <2>1, <2>2
<1>2. Own(n, s)' = t.log[n][s]
  BY DEF Own, Moved
<1>3. Own(n, s)'.cmd = Own(n, s).cmd
  BY <1>2 DEF OwnWritten, Own
<1>4. Kept
  BY <1>1, <1>2, <1>3 DEF Kept
<1>5. Forward
  <2>1. \A r \in Node : Grown(node[r], node'[r])
    <3>1. \A r \in Node : node'[r].conflicts = node[r].conflicts
      BY DEF Moved, OwnWritten
    <3>2. \A r \in Node : node[r].conflicts \in [Node -> [Key -> Int]]
      BY DEF Base, IsReplica
    <3> QED
      BY <3>1, <3>2 DEF Grown
  <2> QED
    BY <1>1, <1>2, <1>3, <2>1 DEF Forward, Settled
<1>6. OwnOK(t, n)
  <2>1. OwnOK(node[n], n)
    BY DEF Base
  <2>2. t.slot = node[n].slot
    BY DEF OwnWritten
  <2>3. t.log[n][s].cmd = node[n].log[n][s].cmd /\ Own(n, s) = node[n].log[n][s]
    BY DEF OwnWritten, Own
  <2>4. ASSUME NEW u \in Slot
        PROVE  /\ t.log[n][u].status \in Status
               /\ t.log[n][u].dep \in [Node -> Nat]
               /\ t.log[n][u].quorum \subseteq Node
               /\ t.log[n][u].status # "none" => t.log[n][u].cmd \in Cmd /\ u <= t.slot[n]
               /\ t.log[n][u].status = "preaccepted" => n \in t.log[n][u].quorum
    <3>1. CASE u = s
      BY <2>1, <2>2, <2>3, <3>1 DEF OwnOK, Status
    <3>2. CASE u # s
      <4>1. t.log[n][u] = node[n].log[n][u]
        BY <3>2 DEF OwnWritten, SameElsewhere
      <4> QED
        BY <2>1, <2>2, <4>1 DEF OwnOK
    <3> QED
      BY <3>1, <3>2
  <2> QED
    BY <2>1, <2>2, <2>4 DEF OwnOK
<1>7. \A b \in Node : \A m \in Range(t.out[b]) : MsgOK(n, b, m)'
  BY <1>2 DEF MsgOK, Speaks
<1>8. Base'
  BY <1>4, <1>6, <1>7, BaseKept
<1>9. \A p \in Node : CopiesFollow(p)
  <2>1. \A p \in Node : p # n => CopiesFollow(p)
    BY DEF Moved, CopiesFollow
  <2>2. CopiesFollow(n)
    BY DEF Moved, CopiesFollow, OwnWritten, SameElsewhere
  <2> QED
    BY <2>1, <2>2
<1>10. Copies'
  BY <1>4, <1>9, CopiesKept
<1> QED
  BY <1>1, <1>2, <1>5, <1>8, <1>10

-----------------------------------------------------------------------------
(* The actions.                                                            *)

\* A replica between two messages.
LEMMA GoodNode ==
  ASSUME Base, NEW n \in Node
  PROVE  /\ Good(node[n], n) /\ IsReplica(node[n], n) /\ Silent(node[n])
         /\ OwnKept(node[n], node[n], n)
         /\ \A q \in Node, s \in Slot : SameElsewhere(node[n], node[n], q, s)
<1>1. Good(node[n], n) /\ IsReplica(node[n], n) /\ Silent(node[n])
  BY DEF Base, Good, Silent
<1>2. Grown(node[n], node[n])
  BY <1>1 DEF IsReplica, Grown
<1> QED
  BY <1>1, <1>2 DEF OwnKept, SameElsewhere

\* A replica takes a message and moves to t (Receive).
LEMMA ReceiveFacts ==
  ASSUME Base, NEW n \in Node, NEW q \in Node, NEW i \in DOMAIN links[q][n],
         NEW S, Receive(n, q, i, S),
         \A t \in S : IsReplica(t, n) /\ \A b \in Node : t.out[b] \in Seq(Range(t.out[b]))
  PROVE  \E t \in S : Moved(n, t)
<1> DEFINE l == [links EXCEPT ![q][n] = RemoveAt(@, i)]
<1>1. PICK t \in S : Put(n, t) /\ links' = Flush(l, n, t)
  BY DEF Receive
<1>2. Queues(l)
  BY TakenFacts
<1> HIDE DEF l
<1> QED
  BY <1>1, <1>2, MovedFacts

\* A step that leaves all instances of their owners alone and answers no
\* proposal keeps the order.
LEMMA OwnKeptOrdering ==
  ASSUME Base, Base', Forward, Ordering, NEW n \in Node, NEW t, Moved(n, t),
         \A p \in Node, u \in Slot : Own(p, u)' = Own(p, u),
         \A b \in Node : \A m \in Range(t.out[b]) : m.type # "PreAcceptReply"
  PROVE  Ordering'
<1>1. ASSUME NEW r \in Node, NEW p \in Node, NEW s \in Slot, NEW D \in Tellings(r, p, s)'
      PROVE  D \in Tellings(r, p, s)
  <2>1. \A m \in InFlight(r, p)' : m.type = "PreAcceptReply" => m \in InFlight(r, p)
    BY DEF Moved
  <2> QED
    BY <1>1, <2>1 DEF Tellings
<1>2. Covered
  BY <1>1, TellingFacts DEF Covered, Smaller
<1>3. \A p \in Node, s \in Slot : Settled(p, s)' => Settled(p, s)
  BY DEF Settled
<1> QED
  BY <1>2, <1>3, Quiet

\* A proposal is taken (handlePreAccept).
LEMMA PreAcceptKeeps ==
  ASSUME Inv, NEW n \in Node, NEW q \in Node, ReceivePreAccept(n, q)
  PROVE  Inv'
<1> USE DEF Inv
<1>1. PICK i \in DOMAIN links[q][n] :
        /\ Arrives(n, q, "PreAccept", i)
        /\ Receive(n, q, i, {HandlePreAccept(node[n], q, links[q][n][i])})
  BY DEF ReceivePreAccept
<1> DEFINE r == node[n]
<1>2. PICK m, s : /\ m = links[q][n][i] /\ s = m.slot /\ s \in Slot
                  /\ m.type = "PreAccept" /\ q # n /\ Own(q, s).status # "none"
                  /\ m.cmd = Own(q, s).cmd /\ m.cmd \in Cmd
  <2>1. links[q][n][i].type = "PreAccept" /\ MsgOK(q, n, links[q][n][i])
    BY <1>1, TakenMessage DEF Arrives
  <2>2. OwnOK(node[q], q)
    BY DEF Base
  <2> QED
    BY <2>1, <2>2 DEF MsgOK, OwnOK, Own
<1>3. PICK t : t = HandlePreAccept(r, q, m) /\ Receive(n, q, i, {t})
  BY <1>1, <1>2
<1> DEFINE old == r.log[q][s]
<1>4. Good(r, n) /\ IsReplica(r, n) /\ Silent(r)
  BY GoodNode
<1>5. /\ OwnKept(r, t, n) /\ SameElsewhere(r, t, q, s)
      /\ \/ /\ t.log[q][s].status = "preaccepted"
            /\ t.conflicts[q][KeyOf[m.cmd]] >= s
            /\ \E a : /\ Answers(t, q, a) /\ a.type = "PreAcceptReply"
                      /\ a.slot = s /\ a.dep = Conflicts(r, m.cmd)
         \/ /\ Silent(t) /\ old.cmd = NoCmd
            /\ t.log[q][s].cmd = m.cmd /\ t.log[q][s].status = old.status
         \/ t = r
  <2> HIDE DEF r, old
  <2>1. /\ OwnKept(r, t, n) /\ SameElsewhere(r, t, q, m.slot)
        /\ \/ /\ t.log[q][m.slot].status = "preaccepted"
              /\ t.conflicts[q][KeyOf[m.cmd]] >= m.slot
              /\ \E a : /\ Answers(t, q, a) /\ a.type = "PreAcceptReply"
                        /\ a.slot = m.slot /\ a.dep = Conflicts(r, m.cmd)
           \/ /\ Silent(t) /\ r.log[q][m.slot].cmd = NoCmd
              /\ t.log[q][m.slot].cmd = m.cmd
              /\ t.log[q][m.slot].status = r.log[q][m.slot].status
           \/ t = r
    <3>1. m.slot \in Slot /\ m.cmd \in Cmd /\ q # n
      BY <1>2
    <3> QED
      BY <1>3, <1>4, <3>1, HandlePreAcceptFacts
  <2>2. m.slot = s
    BY <1>2
  <2> QED
    BY <2>1, <2>2 DEF old
<1>6. IsReplica(t, n) /\ \A b \in Node : t.out[b] \in Seq(Range(t.out[b]))
  BY <1>4, <1>5, SilentSends, AnswersSends DEF OwnKept
<1>7. Moved(n, t)
  BY <1>3, <1>6, ReceiveFacts
<1> HIDE DEF r, old
<1>8. CASE \E a : /\ t.log[q][s].status = "preaccepted"
                  /\ t.conflicts[q][KeyOf[m.cmd]] >= s
                  /\ Answers(t, q, a) /\ a.type = "PreAcceptReply"
                  /\ a.slot = s /\ a.dep = Conflicts(r, m.cmd)
  <2>1. PICK a : /\ t.log[q][s].status = "preaccepted"
                 /\ t.conflicts[q][KeyOf[m.cmd]] >= s
                 /\ Answers(t, q, a) /\ a.type = "PreAcceptReply"
                 /\ a.slot = s /\ a.dep = Conflicts(r, m.cmd)
    BY <1>8
  <2>2. /\ KeyOf[m.cmd] \in Key /\ a.dep \in [Node -> Nat]
        /\ \A p \in Node : a.dep[p] >= r.conflicts[p][KeyOf[m.cmd]]
    <3>1. m.cmd \in Cmd
      BY <1>2
    <3>2. a.dep = Conflicts(r, m.cmd)
      BY <2>1
    <3> QED
      BY <1>4, <3>1, <3>2, ConflictFacts
  <2>3. \A b \in Node : Range(t.out[b]) = IF b = q THEN {a} ELSE {}
    BY <2>1, AnswersSends
  <2>4. MsgOK(n, q, a)
    BY <1>2, <2>1, <2>2 DEF MsgOK
  <2>5. Base' /\ Copies' /\ Forward /\ \A p \in Node, u \in Slot : Own(p, u)' = Own(p, u)
    <3>1. \A b \in Node : \A w \in Range(t.out[b]) : MsgOK(n, b, w)
      BY <2>3, <2>4
    <3>2. t.log[q][s].status # "committed" /\ q # n /\ s \in Slot
      BY <1>2, <2>1
    <3>3. OwnKept(node[n], t, n) /\ SameElsewhere(node[n], t, q, s)
      BY <1>5 DEF r
    <3> QED
      BY <1>7, <3>1, <3>2, <3>3, OwnKeptStep
  <2>6. ASSUME NEW x \in Node, NEW p \in Node, NEW u \in Slot, NEW D \in Tellings(x, p, u)'
        PROVE  \/ D \in Tellings(x, p, u)
               \/ <<x, p, u>> = <<n, q, s>> /\ D = a.dep
    <3>1. \A w \in InFlight(x, p)' :
            w \in InFlight(x, p) \/ (x = n /\ p = q /\ w = a)
      BY <1>7, <2>3 DEF Moved
    <3>2. ASSUME NEW w \in InFlight(x, p)', w.type = "PreAcceptReply", w.slot = u, D = w.dep,
                 Own(p, u).status = "preaccepted"
          PROVE  \/ D \in Tellings(x, p, u)
                 \/ <<x, p, u>> = <<n, q, s>> /\ D = a.dep
      <4>1. CASE w \in InFlight(x, p)
        BY <3>2, <4>1 DEF Tellings
      <4>2. CASE x = n /\ p = q /\ w = a
        BY <2>1, <3>2, <4>2
      <4> QED
        BY <3>1, <4>1, <4>2
    <3> QED
      BY <2>5, <2>6, <3>2 DEF Tellings
  <2>7. KeyOfOwn(q, s)' = KeyOf[m.cmd] /\ Own(q, s)'.cmd \in Cmd
    BY <1>2, <2>5 DEF KeyOfOwn
  <2>8. \A p \in Node : a.dep[p] >= node[n].conflicts[p][KeyOfOwn(q, s)']
    BY <2>2, <2>7 DEF r
  <2>9. node'[n].conflicts[q][KeyOfOwn(q, s)'] >= s
    BY <1>7, <2>1, <2>7 DEF Moved
  <2>10. \A p \in Node, u \in Slot : Settled(p, u)' => Settled(p, u)
    BY <2>5 DEF Settled
  <2>11. s \in Slot /\ Ordering
    BY <1>2
  <2>12. Ordering'
    <3> DEFINE D0 == a.dep
    <3>1. D0 \in [Node -> Nat] /\ \A p \in Node : D0[p] >= node[n].conflicts[p][KeyOfOwn(q, s)']
      BY <2>2, <2>8
    <3>2. \A x, p \in Node, u \in Slot : \A D \in Tellings(x, p, u)' :
            D \in Tellings(x, p, u) \/ (<<x, p, u>> = <<n, q, s>> /\ D = D0)
      BY <2>6
    <3> HIDE DEF D0
    <3> QED
      BY <2>5, <2>7, <2>9, <2>10, <2>11, <3>1, <3>2, Telling
  <2> QED
    BY <2>5, <2>12 DEF Inv
<1>9. CASE Silent(t)
  <2>1. \A b \in Node : Range(t.out[b]) = {}
    BY <1>9, SilentSends
  <2>2. t.log[q][s].status = "committed" => t.log[q][s] = node[n].log[q][s]
    <3>1. CASE t = r
      BY <3>1 DEF r
    <3>2. CASE old.cmd = NoCmd /\ t.log[q][s].status = old.status
      <4>1. old.status = "committed" => old.cmd = Own(q, s).cmd
        BY <1>2 DEF Copies, old, r
      <4> QED
        BY <1>2, <3>2, <4>1, EPaxosAssumption
    <3>3. CASE t.log[q][s].status = "preaccepted"
      BY <3>3
    <3> QED
      BY <1>5, <3>1, <3>2, <3>3
  <2>3. Base' /\ Copies' /\ Forward /\ \A p \in Node, u \in Slot : Own(p, u)' = Own(p, u)
    <3>1. \A b \in Node : \A w \in Range(t.out[b]) : MsgOK(n, b, w)
      BY <2>1
    <3>2. q # n /\ s \in Slot
      BY <1>2
    <3>3. OwnKept(node[n], t, n) /\ SameElsewhere(node[n], t, q, s)
      BY <1>5 DEF r
    <3> QED
      BY <1>7, <2>2, <3>1, <3>2, <3>3, OwnKeptStep
  <2> QED
    BY <1>7, <2>1, <2>3, OwnKeptOrdering
<1> QED
  BY <1>4, <1>5, <1>8, <1>9

\* A replica and another one are two.
LEMMA TwoReplicas ==
  ASSUME NEW n \in Node, NEW q \in Node, n # q, NEW Q \in SUBSET Node, n \in Q, q \in Q
  PROVE  Cardinality(Q) >= 2
<1>1. IsFiniteSet(Q)
  BY EPaxosAssumption, FS_Subset
<1>2. IsFiniteSet({q}) /\ Cardinality({q}) = 1
  BY FS_Singleton
<1>3. IsFiniteSet({n} \cup {q}) /\ Cardinality({q} \cup {n}) = 2
  BY <1>2, FS_AddElement
<1>4. Cardinality({q} \cup {n}) <= Cardinality(Q)
  BY <1>1, FS_Subset
<1>5. Cardinality(Q) \in Nat
  BY <1>1, FS_CardinalityType
<1> QED
  BY <1>3, <1>4, <1>5

\* The slow path of another replica is taken (handleAccept).
LEMMA AcceptKeeps ==
  ASSUME Inv, NEW n \in Node, NEW q \in Node, ReceiveAccept(n, q)
  PROVE  Inv'
<1> USE DEF Inv
<1>1. PICK i \in DOMAIN links[q][n] :
        /\ Arrives(n, q, "Accept", i)
        /\ Receive(n, q, i, {HandleAccept(node[n], q, links[q][n][i])})
  BY DEF ReceiveAccept
<1> DEFINE r == node[n]
<1>2. PICK m, s : m = links[q][n][i] /\ s = m.slot /\ s \in Slot /\ q # n
  BY TakenMessage DEF MsgOK
<1>3. PICK t : t = HandleAccept(r, q, m) /\ Receive(n, q, i, {t})
  BY <1>1, <1>2
<1>4. Good(r, n) /\ Silent(r)
  BY GoodNode
<1> HIDE DEF r
<1>5. /\ OwnKept(r, t, n) /\ SameElsewhere(r, t, q, s)
      /\ \/ /\ t.log[q][s].status = "accepted"
            /\ \E a : Answers(t, q, a) /\ a.type = "AcceptReply" /\ a.slot = s
         \/ t = r
  <2>1. /\ OwnKept(r, t, n) /\ SameElsewhere(r, t, q, m.slot)
        /\ \/ /\ t.log[q][m.slot].status = "accepted"
              /\ \E a : Answers(t, q, a) /\ a.type = "AcceptReply" /\ a.slot = m.slot
           \/ t = r
    BY <1>2, <1>3, <1>4, HandleAcceptFacts
  <2>2. m.slot = s
    BY <1>2
  <2> QED
    BY <2>1, <2>2
<1>6. \A b \in Node : t.out[b] \in Seq(Range(t.out[b]))
  <2>1. CASE \E a : Answers(t, q, a)
    BY <2>1, AnswersSends
  <2>2. CASE t = r
    BY <1>4, <2>2, SilentSends
  <2> QED
    BY <1>5, <2>1, <2>2
<1>7. \A b \in Node : \A w \in Range(t.out[b]) :
        w.type = "AcceptReply" /\ w.slot = s /\ b = q
  <2>1. CASE t = r
    BY <1>4, <2>1, SilentSends
  <2>2. CASE \E a : Answers(t, q, a) /\ a.type = "AcceptReply" /\ a.slot = s
    <3>1. PICK a : Answers(t, q, a) /\ a.type = "AcceptReply" /\ a.slot = s
      BY <2>2
    <3>2. \A b \in Node : Range(t.out[b]) = IF b = q THEN {a} ELSE {}
      BY <3>1, AnswersSends
    <3> QED
      BY <3>1, <3>2
  <2> QED
    BY <1>5, <2>1, <2>2
<1>8. Moved(n, t)
  <2>1. IsReplica(t, n)
    BY <1>5 DEF OwnKept
  <2> QED
    BY <1>3, <1>6, <2>1, ReceiveFacts
<1>9. \A b \in Node : \A w \in Range(t.out[b]) : MsgOK(n, b, w)
  BY <1>2, <1>7 DEF MsgOK
<1>10. t.log[q][s].status = "committed" => t.log[q][s] = r.log[q][s]
  BY <1>5
<1>11. Base' /\ Copies' /\ Forward /\ \A p \in Node, u \in Slot : Own(p, u)' = Own(p, u)
  BY <1>2, <1>5, <1>8, <1>9, <1>10, OwnKeptStep DEF r
<1>12. Ordering'
  BY <1>7, <1>8, <1>11, OwnKeptOrdering
<1> QED
  BY <1>11, <1>12

\* Another replica has committed (handleCommit).
LEMMA CommitKeeps ==
  ASSUME Inv, NEW n \in Node, NEW q \in Node, ReceiveCommit(n, q)
  PROVE  Inv'
<1> USE DEF Inv
<1>1. PICK i \in DOMAIN links[q][n] :
        /\ Arrives(n, q, "Commit", i)
        /\ Receive(n, q, i, HandleCommit(node[n], q, links[q][n][i]))
  BY DEF ReceiveCommit
<1> DEFINE r == node[n]
<1>2. PICK m, s : /\ m = links[q][n][i] /\ s = m.slot /\ s \in Slot /\ q # n
                  /\ Own(q, s).status = "committed"
                  /\ m.cmd = Own(q, s).cmd /\ m.seq = Own(q, s).seq /\ m.dep = Own(q, s).dep
                  /\ m.cmd \in Cmd
  <2>1. links[q][n][i].type = "Commit" /\ MsgOK(q, n, links[q][n][i])
    BY <1>1, TakenMessage DEF Arrives
  <2>2. OwnOK(node[q], q)
    BY DEF Base
  <2> QED
    BY <2>1, <2>2 DEF MsgOK, OwnOK, Own
<1>3. Receive(n, q, i, HandleCommit(r, q, m))
  BY <1>1, <1>2
<1>4. Good(r, n) /\ Silent(r)
  BY GoodNode
<1> HIDE DEF r
<1>5. ASSUME NEW t \in HandleCommit(r, q, m)
      PROVE  /\ OwnKept(r, t, n) /\ Silent(t) /\ SameElsewhere(r, t, q, s)
             /\ t.log[q][s].cmd = m.cmd /\ t.log[q][s].seq = m.seq /\ t.log[q][s].dep = m.dep
  <2>1. /\ OwnKept(r, t, n) /\ Silent(t) /\ SameElsewhere(r, t, q, m.slot)
        /\ t.log[q][m.slot].cmd = m.cmd /\ t.log[q][m.slot].seq = m.seq
        /\ t.log[q][m.slot].dep = m.dep
    <3>1. m.slot \in Slot /\ m.cmd \in Cmd
      BY <1>2
    <3>2. q # n
      BY <1>2
    <3> QED
      BY <1>4, <3>1, <3>2, HandleCommitFacts
  <2>2. m.slot = s
    BY <1>2
  <2> QED
    BY <2>1, <2>2
<1>6. PICK t \in HandleCommit(r, q, m) : Moved(n, t)
  <2>1. \A t \in HandleCommit(r, q, m) :
          IsReplica(t, n) /\ \A b \in Node : t.out[b] \in Seq(Range(t.out[b]))
    BY <1>5, SilentSends DEF OwnKept
  <2> QED
    BY <1>3, <2>1, ReceiveFacts
<1>7. \A b \in Node : Range(t.out[b]) = {}
  BY <1>5, SilentSends
<1>8. Base' /\ Copies' /\ Forward /\ \A p \in Node, u \in Slot : Own(p, u)' = Own(p, u)
  <2>1. \A b \in Node : \A w \in Range(t.out[b]) : MsgOK(n, b, w)
    BY <1>7
  <2>2. OwnKept(node[n], t, n) /\ SameElsewhere(node[n], t, q, s)
    BY <1>5 DEF r
  <2>3. /\ Own(q, s).status = "committed" /\ t.log[q][s].cmd = Own(q, s).cmd
        /\ t.log[q][s].seq = Own(q, s).seq /\ t.log[q][s].dep = Own(q, s).dep
    BY <1>2, <1>5
  <2> QED
    BY <1>2, <1>6, <2>1, <2>2, <2>3, OwnKeptStep
<1>9. Ordering'
  BY <1>6, <1>7, <1>8, OwnKeptOrdering
<1> QED
  BY <1>8, <1>9

\* An answer of the slow path is counted (handleAcceptReply).
LEMMA AcceptReplyKeeps ==
  ASSUME Inv, NEW n \in Node, NEW q \in Node, ReceiveAcceptReply(n, q)
  PROVE  Inv'
<1> USE DEF Inv
<1>1. PICK i \in DOMAIN links[q][n] :
        /\ Arrives(n, q, "AcceptReply", i)
        /\ Receive(n, q, i, HandleAcceptReply(node[n], q, links[q][n][i]))
  BY DEF ReceiveAcceptReply
<1> DEFINE r == node[n]
<1>2. PICK m, s : m = links[q][n][i] /\ s = m.slot /\ s \in Slot /\ q # n
  BY TakenMessage DEF MsgOK
<1>3. Receive(n, q, i, HandleAcceptReply(r, q, m))
  BY <1>1, <1>2
<1>4. Good(r, n) /\ Silent(r) /\ IsReplica(r, n)
  BY GoodNode
<1> HIDE DEF r
<1>5. ASSUME NEW t \in HandleAcceptReply(r, q, m)
      PROVE  \/ t = r
             \/ /\ OwnWritten(r, t, n, s)
                /\ r.log[n][s].status = "accepted" /\ t.log[n][s].dep = r.log[n][s].dep
                /\ t.log[n][s].quorum = r.log[n][s].quorum \cup {q}
                /\ \/ t.log[n][s].status = "accepted" /\ Silent(t)
                   \/ /\ t.log[n][s].status = "committed"
                      /\ \E w : Tells(t, n, w) /\ Speaks(w, "Commit", s, t.log[n][s])
  <2>1. \/ t = r
        \/ /\ OwnWritten(r, t, n, m.slot)
           /\ r.log[n][m.slot].status = "accepted"
           /\ t.log[n][m.slot].dep = r.log[n][m.slot].dep
           /\ t.log[n][m.slot].quorum = r.log[n][m.slot].quorum \cup {q}
           /\ \/ t.log[n][m.slot].status = "accepted" /\ Silent(t)
              \/ /\ t.log[n][m.slot].status = "committed"
                 /\ \E w : Tells(t, n, w) /\ Speaks(w, "Commit", m.slot, t.log[n][m.slot])
    <3>1. m.slot \in Slot
      BY <1>2
    <3> QED
      BY <1>4, <3>1, HandleAcceptReplyFacts
  <2>2. m.slot = s
    BY <1>2
  <2> QED
    BY <2>1, <2>2
<1>6. PICK t \in HandleAcceptReply(r, q, m) : Moved(n, t)
  <2>1. ASSUME NEW t \in HandleAcceptReply(r, q, m)
        PROVE  IsReplica(t, n) /\ \A b \in Node : t.out[b] \in Seq(Range(t.out[b]))
    <3>1. CASE t = r
      BY <1>4, <3>1, SilentSends
    <3>2. CASE OwnWritten(r, t, n, s) /\ Silent(t)
      BY <3>2, SilentSends DEF OwnWritten
    <3>3. CASE OwnWritten(r, t, n, s) /\ \E w : Tells(t, n, w)
      BY <3>3, TellsSends DEF OwnWritten
    <3> QED
      BY <1>5, <3>1, <3>2, <3>3
  <2> QED
    BY <1>3, <2>1, ReceiveFacts
<1>7. CASE t = r
  <2>1. \A b \in Node : Range(t.out[b]) = {}
    BY <1>4, <1>7, SilentSends
  <2>2. OwnKept(node[n], t, n) /\ SameElsewhere(node[n], t, q, s)
    BY <1>2, <1>7, GoodNode DEF r
  <2>3. Base' /\ Copies' /\ Forward /\ \A p \in Node, u \in Slot : Own(p, u)' = Own(p, u)
    <3>1. \A b \in Node : \A w \in Range(t.out[b]) : MsgOK(n, b, w)
      BY <2>1
    <3>2. t.log[q][s] = node[n].log[q][s]
      BY <1>7 DEF r
    <3> QED
      BY <1>2, <1>6, <2>2, <3>1, <3>2, OwnKeptStep
  <2> QED
    BY <1>6, <2>1, <2>3, OwnKeptOrdering
<1>8. CASE /\ OwnWritten(r, t, n, s)
           /\ r.log[n][s].status = "accepted" /\ t.log[n][s].dep = r.log[n][s].dep
           /\ t.log[n][s].quorum = r.log[n][s].quorum \cup {q}
           /\ \/ t.log[n][s].status = "accepted" /\ Silent(t)
              \/ /\ t.log[n][s].status = "committed"
                 /\ \E w : Tells(t, n, w) /\ Speaks(w, "Commit", s, t.log[n][s])
  <2>1. /\ Own(n, s) = r.log[n][s] /\ Own(n, s).status = "accepted"
        /\ Own(n, s).dep \in [Node -> Nat] /\ Own(n, s).quorum \subseteq Node
    BY <1>2, <1>8 DEF Own, r, Base, OwnOK
  <2>2. \A b \in Node : \A w \in Range(t.out[b]) :
          /\ n # b /\ w.type = "Commit"
          /\ t.log[n][s].status = "committed" /\ Speaks(w, "Commit", s, t.log[n][s])
    <3>1. CASE Silent(t)
      BY <3>1, SilentSends
    <3>2. CASE /\ t.log[n][s].status = "committed"
               /\ \E w : Tells(t, n, w) /\ Speaks(w, "Commit", s, t.log[n][s])
      <4>1. PICK w : Tells(t, n, w) /\ Speaks(w, "Commit", s, t.log[n][s])
        BY <3>2
      <4>2. \A b \in Node : Range(t.out[b]) = IF b = n THEN {} ELSE {w}
        BY <4>1, TellsSends
      <4> QED
        BY <3>2, <4>1, <4>2 DEF Speaks
    <3> QED
      BY <1>8, <3>1, <3>2
  <2>3. /\ Base' /\ Copies' /\ Forward
        /\ Own(n, s)' = t.log[n][s]
        /\ \A p \in Node, u \in Slot : <<p, u>> # <<n, s>> => Own(p, u)' = Own(p, u)
    <3>1. OwnWritten(node[n], t, n, s)
      BY <1>8 DEF r
    <3>2. t.log[n][s].dep \in [Node -> Nat] /\ t.log[n][s].dep = Own(n, s).dep
          /\ t.log[n][s].quorum \subseteq Node /\ t.log[n][s].status \in {"accepted", "committed"}
      BY <1>8, <2>1
    <3> QED
      <4>1. s \in Slot /\ Own(n, s).status \in {"preaccepted", "accepted"}
        BY <1>2, <2>1
      <4>2. /\ t.log[n][s].status \in {"preaccepted", "accepted", "committed"}
            /\ t.log[n][s].status = "preaccepted" =>
                 Own(n, s).status = "preaccepted" /\ n \in t.log[n][s].quorum
            /\ Own(n, s).status = "accepted" => t.log[n][s].dep = Own(n, s).dep
        BY <3>2
      <4>3. \A b \in Node : \A w \in Range(t.out[b]) :
              /\ n # b
              /\ \/ w.type = "Accept" /\ w.slot = s
                 \/ t.log[n][s].status = "committed" /\ Speaks(w, "Commit", s, t.log[n][s])
        BY <2>2
      <4>4. t.log[n][s].dep \in [Node -> Nat] /\ t.log[n][s].quorum \subseteq Node
        BY <3>2
      <4> QED
        BY <1>6, <3>1, <4>1, <4>2, <4>3, <4>4, OwnWrittenStep
  <2>4. ASSUME NEW x \in Node, NEW p \in Node, NEW u \in Slot, NEW D \in Tellings(x, p, u)'
        PROVE  D \in Tellings(x, p, u)
    <3>1. \A w \in InFlight(x, p)' : w.type = "PreAcceptReply" => w \in InFlight(x, p)
      BY <1>6, <2>2 DEF Moved
    <3>2. <<p, u>> # <<n, s>>
      BY <1>8, <2>3, <2>4 DEF Tellings
    <3> QED
      BY <2>3, <2>4, <3>1, <3>2 DEF Tellings
  <2>5. Covered
    BY <2>4, TellingFacts DEF Covered, Smaller
  <2>6. \A p \in Node, u \in Slot : Settled(p, u)' => Settled(p, u)
    BY <2>1, <2>3 DEF Settled
  <2>7. Ordering'
    BY <2>3, <2>5, <2>6, Quiet
  <2> QED
    BY <2>3, <2>7
<1> QED
  BY <1>5, <1>7, <1>8

\* An answer to a proposal is counted (handlePreAcceptReply).
LEMMA PreAcceptReplyKeeps ==
  ASSUME Inv, NEW n \in Node, NEW q \in Node, ReceivePreAcceptReply(n, q)
  PROVE  Inv'
<1> USE DEF Inv
<1>1. PICK i \in DOMAIN links[q][n] :
        /\ Arrives(n, q, "PreAcceptReply", i)
        /\ Receive(n, q, i, HandlePreAcceptReply(node[n], q, links[q][n][i]))
  BY DEF ReceivePreAcceptReply
<1> DEFINE r == node[n]
<1>2. PICK m, s : /\ m = links[q][n][i] /\ s = m.slot /\ s \in Slot /\ q # n
                  /\ m \in InFlight(q, n) /\ m.type = "PreAcceptReply"
                  /\ m.dep \in [Node -> Nat]
  BY <1>1, TakenMessage DEF MsgOK, Arrives
<1>3. Receive(n, q, i, HandlePreAcceptReply(r, q, m))
  BY <1>1, <1>2
<1>4. Good(r, n) /\ Silent(r) /\ IsReplica(r, n) /\ r.id = n
  BY GoodNode DEF IsReplica
<1> DEFINE old == r.log[n][s]
           Q == old.quorum \cup {q}
<1>5. old = Own(n, s)
  BY DEF Own
<1> HIDE DEF r
<1>6. ASSUME NEW t \in HandlePreAcceptReply(r, q, m)
      PROVE  \/ t = r
             \/ /\ old.status = "preaccepted"
                /\ OwnWritten(r, t, n, s)
                /\ t.log[n][s].dep = Merged(old.dep, m.dep)
                /\ \/ t.log[n][s].status = old.status /\ t.log[n][s].quorum = Q /\ Silent(t)
                   \/ /\ FastQuorum(Q) /\ t.log[n][s].status = "committed"
                      /\ t.log[n][s].quorum = Q
                      /\ \E w : Tells(t, n, w) /\ Speaks(w, "Commit", s, t.log[n][s])
                   \/ /\ FastQuorum(Q) /\ t.log[n][s].status = "accepted"
                      /\ t.log[n][s].quorum = {n}
                      /\ \E w : Tells(t, n, w) /\ w.type = "Accept" /\ w.slot = s
  <2>1. t = r \/ (r.log[n][m.slot].status = "preaccepted" /\ t \in CountPreAccept(r, q, m))
    BY <1>4 DEF HandlePreAcceptReply
  <2>2. m.slot = s /\ m.slot \in Slot
    BY <1>2
  <2>3. CASE r.log[n][m.slot].status = "preaccepted" /\ t \in CountPreAccept(r, q, m)
    <3>1. Counted(r, t, n, q, m.slot, m.dep)
      BY <1>4, <2>2, <2>3, CountPreAcceptFacts
    <3>2. Counted(r, t, n, q, s, m.dep)
      BY <2>2, <3>1
    <3> QED
      BY <2>2, <2>3, <3>2 DEF Counted
  <2> QED
    BY <2>1, <2>3
<1>7. PICK t \in HandlePreAcceptReply(r, q, m) : Moved(n, t)
  <2>1. ASSUME NEW t \in HandlePreAcceptReply(r, q, m)
        PROVE  IsReplica(t, n) /\ \A b \in Node : t.out[b] \in Seq(Range(t.out[b]))
    <3>1. CASE t = r
      BY <1>4, <3>1, SilentSends
    <3>2. CASE OwnWritten(r, t, n, s) /\ Silent(t)
      BY <3>2, SilentSends DEF OwnWritten
    <3>3. CASE OwnWritten(r, t, n, s) /\ \E w : Tells(t, n, w)
      BY <3>3, TellsSends DEF OwnWritten
    <3> QED
      BY <1>6, <3>1, <3>2, <3>3
  <2> QED
    BY <1>3, <2>1, ReceiveFacts
<1> HIDE DEF old, Q
<1>8. CASE t = r
  <2>1. \A b \in Node : Range(t.out[b]) = {}
    BY <1>4, <1>8, SilentSends
  <2>2. OwnKept(node[n], t, n) /\ SameElsewhere(node[n], t, q, s)
    BY <1>2, <1>8, GoodNode DEF r
  <2>3. Base' /\ Copies' /\ Forward /\ \A p \in Node, u \in Slot : Own(p, u)' = Own(p, u)
    <3>1. \A b \in Node : \A w \in Range(t.out[b]) : MsgOK(n, b, w)
      BY <2>1
    <3>2. t.log[q][s] = node[n].log[q][s]
      BY <1>8 DEF r
    <3> QED
      BY <1>2, <1>7, <2>2, <3>1, <3>2, OwnKeptStep
  <2> QED
    BY <1>7, <2>1, <2>3, OwnKeptOrdering
<1>9. CASE /\ old.status = "preaccepted"
           /\ OwnWritten(r, t, n, s)
           /\ t.log[n][s].dep = Merged(old.dep, m.dep)
           /\ \/ t.log[n][s].status = old.status /\ t.log[n][s].quorum = Q /\ Silent(t)
              \/ /\ FastQuorum(Q) /\ t.log[n][s].status = "committed"
                 /\ t.log[n][s].quorum = Q
                 /\ \E w : Tells(t, n, w) /\ Speaks(w, "Commit", s, t.log[n][s])
              \/ /\ FastQuorum(Q) /\ t.log[n][s].status = "accepted"
                 /\ t.log[n][s].quorum = {n}
                 /\ \E w : Tells(t, n, w) /\ w.type = "Accept" /\ w.slot = s
  <2> DEFINE new == t.log[n][s]
  <2>1. /\ Own(n, s).status = "preaccepted" /\ Own(n, s).dep \in [Node -> Nat]
        /\ Own(n, s).quorum \subseteq Node /\ n \in Own(n, s).quorum
    BY <1>2, <1>5, <1>9 DEF Own, Base, OwnOK
  <2>2. /\ Q \subseteq Node /\ n \in Q /\ q \in Q /\ Q = Own(n, s).quorum \cup {q}
    BY <1>5, <2>1 DEF Q
  <2>3. /\ new.dep \in [Node -> Nat]
        /\ Smaller(Own(n, s).dep, new.dep) /\ Smaller(m.dep, new.dep)
    <3>1. Own(n, s).dep \in [Node -> Nat] /\ m.dep \in [Node -> Nat]
      BY <1>2, <2>1
    <3>2. new.dep = Merged(Own(n, s).dep, m.dep)
      BY <1>5, <1>9
    <3> HIDE DEF new
    <3> QED
      BY <3>1, <3>2, MergedFacts DEF Smaller
  <2>4. /\ new.status \in {"preaccepted", "accepted", "committed"}
        /\ new.quorum \in {Q, {n}}
        /\ new.status # "preaccepted" => FastQuorum(Q)
        /\ n \in new.quorum /\ new.quorum \subseteq Node
        /\ new.status = "preaccepted" => new.quorum = Q
    BY <1>9, <2>2
  <2>5. \A b \in Node : \A w \in Range(t.out[b]) :
          /\ n # b
          /\ \/ w.type = "Accept" /\ w.slot = s
             \/ new.status = "committed" /\ Speaks(w, "Commit", s, new)
    <3>1. CASE Silent(t)
      BY <3>1, SilentSends
    <3>2. CASE \E w : /\ Tells(t, n, w)
                      /\ \/ w.type = "Accept" /\ w.slot = s
                         \/ new.status = "committed" /\ Speaks(w, "Commit", s, new)
      <4>1. PICK w : /\ Tells(t, n, w)
                     /\ \/ w.type = "Accept" /\ w.slot = s
                        \/ new.status = "committed" /\ Speaks(w, "Commit", s, new)
        BY <3>2
      <4>2. \A b \in Node : Range(t.out[b]) = IF b = n THEN {} ELSE {w}
        <5>1. Tells(t, n, w)
          BY <4>1
        <5> QED
          BY <5>1, TellsSends
      <4> QED
        BY <4>1, <4>2
    <3> QED
      BY <1>9, <3>1, <3>2
  <2>6. \A b \in Node : \A w \in Range(t.out[b]) : w.type # "PreAcceptReply"
    BY <2>5 DEF Speaks
  <2> HIDE DEF new
  <2>7. /\ Base' /\ Copies' /\ Forward
        /\ Own(n, s)' = new
        /\ \A p \in Node, u \in Slot : <<p, u>> # <<n, s>> => Own(p, u)' = Own(p, u)
    <3>1. OwnWritten(node[n], t, n, s)
      BY <1>9 DEF r
    <3> QED
      <4>1. s \in Slot /\ Own(n, s).status \in {"preaccepted", "accepted"}
            /\ Own(n, s).status # "accepted" /\ Own(n, s).status = "preaccepted"
        BY <1>2, <2>1
      <4> QED
        BY <1>7, <2>3, <2>4, <2>5, <3>1, <4>1, OwnWrittenStep DEF new
\* Each replica of the quorum has told something that the dependencies cover.
  <2>8. ASSUME NEW x \in Q
        PROVE  \E D \in Tellings(x, n, s) : Smaller(D, new.dep)
    <3>1. CASE x \in Own(n, s).quorum
      BY <2>1, <2>3, <3>1 DEF Tellings
    <3>2. CASE x = q
      <4>1. m.dep \in Tellings(q, n, s)
        BY <1>2, <2>1 DEF Tellings
      <4> QED
        BY <2>3, <3>2, <4>1
    <3> QED
      BY <2>2, <3>1, <3>2
  <2>9. Covered
    <3> SUFFICES ASSUME NEW x \in Node, NEW p \in Node, NEW u \in Slot, NEW D \in Tellings(x, p, u)'
                 PROVE  \E E \in Tellings(x, p, u) : Smaller(E, D)
      BY DEF Covered
    <3>1. \A w \in InFlight(x, p)' : w.type = "PreAcceptReply" => w \in InFlight(x, p)
      BY <1>7, <2>6 DEF Moved
    <3>2. CASE D \in Tellings(x, p, u)
      BY <3>2, TellingFacts DEF Smaller
    <3>3. CASE <<p, u>> # <<n, s>>
      BY <2>7, <3>1, <3>2, <3>3 DEF Tellings
    <3>4. CASE <<p, u>> = <<n, s>>
      <4>1. new.status = "preaccepted"
        BY <2>7, <3>4 DEF Tellings
      <4>2. CASE D = new.dep /\ x \in Q
        BY <2>8, <3>4, <4>2
      <4>3. CASE \E w \in InFlight(x, p) : w.type = "PreAcceptReply" /\ w.slot = u /\ D = w.dep
        BY <2>1, <3>2, <3>4, <4>3 DEF Tellings
      <4> QED
        BY <2>4, <2>7, <3>1, <3>4, <4>1, <4>2, <4>3 DEF Tellings
    <3> QED
      BY <3>3, <3>4
  <2>10. \A p \in Node, u \in Slot : Settled(p, u)' => Settled(p, u) \/ <<p, u>> = <<n, s>>
    BY <2>7 DEF Settled
  <2>11. CASE new.status = "preaccepted"
    <3>1. \A p \in Node, u \in Slot : Settled(p, u)' => Settled(p, u)
      BY <2>7, <2>10, <2>11 DEF Settled
    <3> QED
      BY <2>7, <2>9, <3>1, Quiet
  <2>12. CASE new.status \in {"accepted", "committed"}
    <3>1. Fast(Q)
      BY <1>2, <2>2, <2>4, <2>12, TwoReplicas DEF Fast
    <3>2. Settled(n, s)'
      BY <2>7, <2>12 DEF Settled
    <3>3. \A x \in Q : \E D \in Tellings(x, n, s) : Smaller(D, Own(n, s)'.dep)
      BY <2>7, <2>8
    <3> QED
      <4>1. Q \in SUBSET Node /\ s \in Slot /\ Own(n, s).status = "preaccepted"
        BY <1>2, <2>1, <2>2
      <4> QED
        BY <2>7, <2>9, <2>10, <3>1, <3>2, <3>3, <4>1, Settling
  <2> QED
    BY <2>4, <2>11, <2>12
<1> QED
  BY <1>6, <1>8, <1>9 DEF Q, old

\* A client's command starts an instance (handleRequest).
LEMMA SubmitKeeps ==
  ASSUME Inv, NEW n \in Node, NEW c \in Cmd, Submit(n, c)
  PROVE  Inv'
<1> USE DEF Inv
<1> DEFINE r == node[n]
<1>1. PICK s, t : s = r.slot[n] + 1 /\ t = HandleRequest(r, c)
  OBVIOUS
<1>2. Good(r, n) /\ IsReplica(r, n) /\ r.slot[n] < MaxSlot
  BY GoodNode DEF Submit
<1>3. Put(n, t) /\ links' = Flush(links, n, t)
  BY <1>1 DEF Submit
<1> HIDE DEF r
<1>4. /\ s \in Slot /\ IsReplica(t, n) /\ Grown(r, t)
      /\ t.slot[n] = s /\ SameElsewhere(r, t, n, s)
      /\ t.conflicts[n][KeyOf[c]] >= s
      /\ t.log[n][s].status = "preaccepted" /\ t.log[n][s].cmd = c
      /\ t.log[n][s].quorum = {n} /\ t.log[n][s].dep = Conflicts(r, c)
      /\ \E m : Tells(t, n, m) /\ m.type = "PreAccept" /\ m.slot = s /\ m.cmd = c
  BY <1>1, <1>2, HandleRequestFacts
<1>5. PICK m : Tells(t, n, m) /\ m.type = "PreAccept" /\ m.slot = s /\ m.cmd = c
  BY <1>4
<1>6. \A b \in Node : /\ t.out[b] \in Seq(Range(t.out[b]))
                      /\ Range(t.out[b]) = IF b = n THEN {} ELSE {m}
  BY <1>5, TellsSends
<1>7. Queues(links)
  BY DEF Base, Queues
<1>8. Moved(n, t)
  BY <1>3, <1>4, <1>6, <1>7, MovedFacts
<1> DEFINE D0 == Conflicts(r, c)
<1>9. /\ KeyOf[c] \in Key /\ D0 \in [Node -> Nat]
      /\ \A p \in Node : D0[p] >= r.conflicts[p][KeyOf[c]]
  BY <1>2, ConflictFacts
<1> HIDE DEF D0
<1>10. OwnOK(r, n)
  BY <1>2 DEF Good
\* The instance is new.
<1>11. Own(n, s).status = "none"
  <2>1. r.slot[n] \in Int /\ s = r.slot[n] + 1
    BY <1>1, <1>10 DEF OwnOK
  <2>2. ~(s <= r.slot[n])
    BY <2>1
  <2> QED
    BY <1>4, <1>10, <2>2 DEF OwnOK, Own, r
<1>12. Own(n, s)' = t.log[n][s]
  BY <1>8 DEF Own, Moved
<1>13. ASSUME NEW p \in Node, NEW u \in Slot, <<p, u>> # <<n, s>>
       PROVE  Own(p, u)' = Own(p, u)
  <2>1. CASE p = n
    BY <1>4, <1>8, <1>13, <2>1 DEF Own, Moved, SameElsewhere, r
  <2>2. CASE p # n
    BY <1>8, <2>2 DEF Own, Moved
  <2> QED
    BY <2>1, <2>2
<1>14. Kept
  BY <1>11, <1>13 DEF Kept
<1>15. Forward
  <2>1. ASSUME NEW x \in Node
        PROVE  Grown(node[x], node'[x])
    <3>1. CASE x = n
      BY <1>4, <1>8, <3>1 DEF Moved, Grown, r
    <3>2. CASE x # n
      <4>1. node'[x] = node[x] /\ IsReplica(node[x], x)
        BY <1>8, <3>2 DEF Moved, Base
      <4> QED
        BY <4>1 DEF IsReplica, Grown
    <3> QED
      BY <3>1, <3>2
  <2> QED
    BY <1>11, <1>13, <2>1 DEF Forward, Settled
<1>16. OwnOK(t, n)
  <2>1. ASSUME NEW u \in Slot
        PROVE  /\ t.log[n][u].status \in Status
               /\ t.log[n][u].dep \in [Node -> Nat]
               /\ t.log[n][u].quorum \subseteq Node
               /\ t.log[n][u].status # "none" => t.log[n][u].cmd \in Cmd /\ u <= t.slot[n]
               /\ t.log[n][u].status = "preaccepted" => n \in t.log[n][u].quorum
    <3>1. CASE u = s
      BY <1>4, <1>9, <3>1 DEF Status, D0, Slot
    <3>2. CASE u # s
      <4>1. t.log[n][u] = r.log[n][u]
        BY <1>4, <3>2 DEF SameElsewhere
      <4>2. r.slot[n] \in Int /\ u \in Int /\ t.slot[n] = r.slot[n] + 1
        BY <1>1, <1>4, <1>10 DEF OwnOK, Slot
      <4>3. u <= r.slot[n] => u <= t.slot[n]
        BY <4>2
      <4> QED
        BY <1>10, <4>1, <4>3 DEF OwnOK
    <3> QED
      BY <3>1, <3>2
  <2>2. t.slot[n] \in Int /\ t.slot[n] >= -1
    BY <1>4 DEF Slot
  <2> QED
    BY <2>1, <2>2 DEF OwnOK
<1>17. \A b \in Node : \A w \in Range(t.out[b]) : MsgOK(n, b, w)'
  <2>1. ASSUME NEW b \in Node, n # b
        PROVE  MsgOK(n, b, m)'
    BY <1>4, <1>5, <1>12, <2>1 DEF MsgOK
  <2> QED
    BY <1>6, <2>1
<1>18. Base'
  BY <1>8, <1>14, <1>16, <1>17, BaseKept
<1>19. \A p \in Node : CopiesFollow(p)
  <2>1. \A p \in Node : p # n => CopiesFollow(p)
    BY <1>8 DEF Moved, CopiesFollow
  <2>2. CopiesFollow(n)
    BY <1>4, <1>8 DEF Moved, CopiesFollow, SameElsewhere, r
  <2> QED
    BY <2>1, <2>2
<1>20. Copies'
  BY <1>14, <1>19, CopiesKept
<1>21. Ordering'
  <2>1. ASSUME NEW x \in Node, NEW p \in Node, NEW u \in Slot, NEW D \in Tellings(x, p, u)'
        PROVE  D \in Tellings(x, p, u) \/ (<<x, p, u>> = <<n, n, s>> /\ D = D0)
    <3>1. \A w \in InFlight(x, p)' : w.type = "PreAcceptReply" => w \in InFlight(x, p)
      BY <1>5, <1>6, <1>8 DEF Moved
    <3>2. CASE <<p, u>> # <<n, s>>
      BY <1>13, <2>1, <3>1, <3>2 DEF Tellings
    <3>3. CASE <<p, u>> = <<n, s>>
      <4>1. \A w \in InFlight(x, n) : ~(w.type = "PreAcceptReply" /\ w.slot = s)
        BY <1>11 DEF Base, MsgOK
      <4>2. D \in (IF x \in Own(n, s)'.quorum THEN {Own(n, s)'.dep} ELSE {})
        BY <2>1, <3>1, <3>3, <4>1 DEF Tellings
      <4> QED
        BY <1>4, <1>12, <3>3, <4>2 DEF D0
    <3> QED
      BY <3>2, <3>3
  <2>2. KeyOfOwn(n, s)' = KeyOf[c] /\ Own(n, s)'.cmd \in Cmd
    BY <1>4, <1>12 DEF KeyOfOwn
  <2>3. \A p \in Node : D0[p] >= node[n].conflicts[p][KeyOfOwn(n, s)']
    BY <1>9, <2>2 DEF r
  <2>4. node'[n].conflicts[n][KeyOfOwn(n, s)'] >= s
    BY <1>4, <1>8, <2>2 DEF Moved
  <2>5. \A p \in Node, u \in Slot : Settled(p, u)' => Settled(p, u)
    BY <1>4, <1>12, <1>13 DEF Settled
  <2>6. s \in Slot /\ D0 \in [Node -> Nat]
    BY <1>4, <1>9
  <2> QED
    BY <1>15, <1>18, <2>1, <2>2, <2>3, <2>4, <2>5, <2>6, Telling
<1> QED
  BY <1>18, <1>20, <1>21

\* A proposal is lost.
LEMMA LoseKeeps ==
  ASSUME Inv, Lose
  PROVE  Inv'
<1> USE DEF Inv
<1>1. PICK a \in Node, b \in Node : \E i \in DOMAIN links[a][b] :
        links' = [links EXCEPT ![a][b] = RemoveAt(@, i)] /\ UNCHANGED node
  BY DEF Lose
<1>2. PICK i \in DOMAIN links[a][b] : links' = [links EXCEPT ![a][b] = RemoveAt(@, i)]
  BY <1>1
<1>3. Queues(links')
  BY <1>2, TakenFacts
<1>4. a # b
  BY TakenMessage DEF MsgOK
<1>5. Good(node[a], a) /\ Silent(node[a]) /\ OwnKept(node[a], node[a], a)
      /\ \A s \in Slot : SameElsewhere(node[a], node[a], b, s)
  BY GoodNode
<1>6. \A x \in Node : Range(node[a].out[x]) = {}
  BY <1>5, SilentSends
<1>7. Moved(a, node[a])
  <2>1. DOMAIN node' = Node /\ \A p \in Node : node'[p] = node[p]
    BY <1>1 DEF Base
  <2>2. IsReplica(node'[a], a) /\ node'[a].out = [q \in Node |-> <<>>]
    BY <1>5, <2>1 DEF Good
  <2>3. ASSUME NEW x \in Node, NEW y \in Node
        PROVE  links'[x][y] \in Seq(InFlight(x, y)') /\ InFlight(x, y)' \subseteq InFlight(x, y)
    <3>1. links'[x][y] \in Seq(InFlight(x, y))
      BY <1>3 DEF Queues
    <3> QED
      BY <3>1, QueueFacts DEF InFlight
  <2>4. DOMAIN links' = Node /\ \A x \in Node : DOMAIN links'[x] = Node
    BY <1>3 DEF Queues
  <2> QED
    BY <2>1, <2>2, <2>3, <2>4 DEF Moved
<1>8. Base' /\ Copies' /\ Forward /\ \A p \in Node, u \in Slot : Own(p, u)' = Own(p, u)
  <2>1. 0 \in Slot
    BY EPaxosAssumption DEF Slot
  <2>2. SameElsewhere(node[a], node[a], b, 0)
    BY <1>5, <2>1
  <2>3. \A x \in Node : \A w \in Range(node[a].out[x]) : MsgOK(a, x, w)
    BY <1>6
  <2> QED
    BY <1>4, <1>5, <1>7, <2>1, <2>2, <2>3, OwnKeptStep
<1>9. Ordering'
  BY <1>6, <1>7, <1>8, OwnKeptOrdering
<1> QED
  BY <1>8, <1>9

\* The invariant holds at the start.
LEMMA InitInv == Init => Inv
<1> SUFFICES ASSUME Init PROVE Inv
  OBVIOUS
<1>1. /\ DOMAIN node = Node /\ DOMAIN links = Node
      /\ \A n \in Node : node[n] = NewReplica(n) /\ DOMAIN links[n] = Node
      /\ \A a, b \in Node : links[a][b] = <<>>
  BY DEF Init
<1>2. \A a, b \in Node : InFlight(a, b) = {} /\ links[a][b] \in Seq(InFlight(a, b))
  <2>1. Range(<<>>) = {} /\ <<>> \in Seq({})
    BY DEF Range
  <2> QED
    BY <1>1, <2>1 DEF InFlight
<1>3. ASSUME NEW n \in Node
      PROVE  /\ DOMAIN node[n] = Fields /\ node[n].id = n
             /\ node[n].log = [q \in Node |-> [s \in Slot |-> NoInstance]]
             /\ node[n].slot = [q \in Node |-> -1]
             /\ node[n].conflicts = [q \in Node |-> [k \in Key |-> -1]]
             /\ node[n].out = [q \in Node |-> <<>>]
  BY <1>1 DEF NewReplica, Fields
<1>4. /\ DOMAIN NoInstance = InstanceFields /\ NoInstance.status = "none"
      /\ NoInstance.dep \in [Node -> Nat] /\ NoInstance.quorum = {}
  BY DEF NoInstance, NoDep, InstanceFields
<1>5. ASSUME NEW n \in Node
      PROVE  IsReplica(node[n], n) /\ OwnOK(node[n], n)
  <2>1. \A q \in Node, s \in Slot : node[n].log[q][s] = NoInstance
    BY <1>3
  <2>2. IsReplica(node[n], n)
    <3>1. node[n].conflicts \in [Node -> [Key -> Int]]
      BY <1>3
    <3>2. DOMAIN node[n].log = Node /\ DOMAIN node[n].slot = Node
          /\ \A q \in Node : DOMAIN node[n].log[q] = Slot
      BY <1>3
    <3> QED
      BY <1>3, <1>4, <2>1, <3>1, <3>2 DEF IsReplica
  <2>3. OwnOK(node[n], n)
    <3>1. node[n].slot[n] = -1
      BY <1>3
    <3> QED
      BY <1>4, <2>1, <3>1 DEF OwnOK, Status
  <2> QED
    BY <2>2, <2>3
<1>6. \A n, q \in Node, s \in Slot : node[n].log[q][s].status = "none"
  BY <1>3, <1>4
<1>7. Base
  BY <1>1, <1>2, <1>3, <1>5 DEF Base
<1>8. Copies
  BY <1>6 DEF Copies
<1>9. \A p \in Node, s \in Slot : Own(p, s).status = "none"
  BY <1>6 DEF Own
<1>10. Ordering
  <2>1. \A r, p \in Node, s \in Slot : Tellings(r, p, s) = {} /\ ~Settled(p, s)
    BY <1>9 DEF Tellings, Settled
  <2> QED
    BY <2>1 DEF Ordering, Recorded, TellingsOrdered, SettledWitnessed, SettledOrdered
<1> QED
  BY <1>7, <1>8, <1>10 DEF Inv

\* Where nothing changes the invariant stays.
LEMMA StutterKeeps ==
  ASSUME Inv, UNCHANGED vars
  PROVE  Inv'
<1>1. node' = node /\ links' = links
  BY DEF vars
<1>2. /\ \A p \in Node, s \in Slot : Own(p, s)' = Own(p, s)
      /\ \A a, b \in Node : InFlight(a, b)' = InFlight(a, b)
  BY <1>1 DEF Own, InFlight
<1>3. Kept
  BY <1>2 DEF Kept
<1>4. Base'
  <2>1. \A a, b \in Node : \A m \in InFlight(a, b)' : MsgOK(a, b, m)'
    BY <1>2, <1>3, MessageKept DEF Inv, Base
  <2>2. \A a, b \in Node : links'[a][b] \in Seq(InFlight(a, b)')
    BY <1>1, <1>2 DEF Inv, Base
  <2> QED
    BY <1>1, <2>1, <2>2 DEF Inv, Base
<1>5. Copies'
  BY <1>1 DEF Inv, Copies, Own
<1>6. Forward
  <2>1. ASSUME NEW r \in Node
        PROVE  Grown(node[r], node'[r])
    <3>1. IsReplica(node[r], r) /\ node'[r] = node[r]
      BY <1>1 DEF Inv, Base
    <3> QED
      BY <3>1 DEF IsReplica, Grown
  <2> QED
    BY <1>2, <2>1 DEF Forward, Settled
<1>7. \A r, p \in Node, s \in Slot : Tellings(r, p, s)' = Tellings(r, p, s)
  BY <1>2 DEF Tellings
<1>8. Covered
  BY <1>7, TellingFacts DEF Covered, Smaller, Inv
<1>9. \A p \in Node, s \in Slot : Settled(p, s)' => Settled(p, s)
  BY <1>2 DEF Settled
<1>10. Ordering'
  BY <1>4, <1>6, <1>8, <1>9, Quiet DEF Inv
<1> QED
  BY <1>4, <1>5, <1>10 DEF Inv

\* The invariant of EPaxosInv holds in every reachable state: each handler of
\* replica.go keeps it, and so does the loss of a proposal.
THEOREM InvHolds == Spec => []Inv
<1>1. Inv /\ [Next]_vars => Inv'
  <2> SUFFICES ASSUME Inv, [Next]_vars PROVE Inv'
    OBVIOUS
  <2>1. CASE \E n \in Node, c \in Cmd : Submit(n, c)
    BY <2>1, SubmitKeeps
  <2>2. CASE \E n, q \in Node : Deliver(n, q)
    <3>1. PICK n \in Node, q \in Node : Deliver(n, q)
      BY <2>2
    <3> QED
      BY <3>1, PreAcceptKeeps, PreAcceptReplyKeeps, AcceptKeeps, AcceptReplyKeeps, CommitKeeps
         DEF Deliver
  <2>3. CASE Lose
    BY <2>3, LoseKeeps
  <2>4. CASE UNCHANGED vars
    BY <2>4, StutterKeeps
  <2> QED
    BY <2>1, <2>2, <2>3, <2>4 DEF Next
<1> QED
  BY <1>1, InitInv, PTL DEF Spec

\* Two replicas that have an instance committed hold the same command with the
\* same attributes: only the owner commits, its Commit carries what it holds
\* for good, and late proposals and answers change nothing (handlePreAccept,
\* handlePreAcceptReply, handleAccept, handleCommit).
THEOREM CommittedInstancesAgree == Spec => []CommittedAgree
<1>1. Inv => CommittedAgree
  <2> SUFFICES ASSUME Copies, NEW n \in Node, NEW q \in Node, NEW x \in Node \X Slot,
                      Committed(n, x), Committed(q, x)
               PROVE  Attributes(n, x) = Attributes(q, x)
    BY DEF Inv, CommittedAgree
  <2>1. ASSUME NEW r \in Node, Committed(r, x)
        PROVE  /\ node[r].log[x[1]][x[2]].cmd = Own(x[1], x[2]).cmd
               /\ node[r].log[x[1]][x[2]].seq = Own(x[1], x[2]).seq
               /\ node[r].log[x[1]][x[2]].dep = Own(x[1], x[2]).dep
    <3>1. x[1] \in Node /\ x[2] \in Slot
      OBVIOUS
    <3>2. CASE r = x[1]
      BY <3>2 DEF Own
    <3>3. CASE r # x[1]
      BY <2>1, <3>1, <3>3 DEF Copies, Committed
    <3> QED
      BY <3>2, <3>3
  <2> QED
    BY <2>1 DEF Attributes
<1> QED
  BY <1>1, InvHolds, PTL

\* Of two committed commands on one key one depends on the other: two fast
\* quorums meet in a replica, which told the second of the first (attributes,
\* update, merge, FastQuorum).
THEOREM ConflictsAreOrdered == Spec => []ConflictsOrdered
<1>1. Inv => ConflictsOrdered
  <2> SUFFICES ASSUME Copies, Ordering, NEW n \in Node,
                      NEW x \in Node \X (Slot \ {0}), NEW y \in Node \X (Slot \ {0}),
                      x # y, Committed(n, x), Committed(n, y),
                      KeyOf[Attributes(n, x)[1]] = KeyOf[Attributes(n, y)[1]]
               PROVE  DependsOn(n, x, y) \/ DependsOn(n, y, x)
    BY DEF Inv, ConflictsOrdered
  <2>1. ASSUME NEW z \in Node \X (Slot \ {0}), Committed(n, z)
        PROVE  /\ z[1] \in Node /\ z[2] \in Slot /\ z[2] >= 1 /\ z = <<z[1], z[2]>>
               /\ Settled(z[1], z[2])
               /\ node[n].log[z[1]][z[2]].dep = Own(z[1], z[2]).dep
               /\ KeyOf[Attributes(n, z)[1]] = KeyOfOwn(z[1], z[2])
    <3>1. z[1] \in Node /\ z[2] \in Slot /\ z[2] >= 1 /\ z = <<z[1], z[2]>>
      BY DEF Slot
    <3>2. /\ Own(z[1], z[2]).status = "committed"
          /\ node[n].log[z[1]][z[2]].cmd = Own(z[1], z[2]).cmd
          /\ node[n].log[z[1]][z[2]].dep = Own(z[1], z[2]).dep
      <4>1. CASE n = z[1]
        BY <2>1, <4>1 DEF Own, Committed
      <4>2. CASE n # z[1]
        BY <2>1, <3>1, <4>2 DEF Copies, Committed
      <4> QED
        BY <4>1, <4>2
    <3> QED
      BY <3>1, <3>2 DEF Settled, Attributes, KeyOfOwn
  <2>2. Conflicting(x[1], x[2], y[1], y[2])
    BY <2>1 DEF Conflicting
  <2>3. Own(x[1], x[2]).dep[y[1]] >= y[2] \/ Own(y[1], y[2]).dep[x[1]] >= x[2]
    BY <2>1, <2>2 DEF Ordering, SettledOrdered
  <2> QED
    BY <2>1, <2>3 DEF DependsOn
<1> QED
  BY <1>1, InvHolds, PTL
=============================================================================
