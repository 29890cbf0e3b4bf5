-------------------------- MODULE PigRecordProofs --------------------------
(***************************************************************************)
(* What the replicas remember is true: promises are kept, and what was     *)
(* executed was proposed for its slot. RecordInv is inductive relative to  *)
(* Inv. B stands for the ballots the nodes have reached. Most of what the  *)
(* handlers do leaves promises and databases aside; the exceptions are the *)
(* handlers that send, collect and count P1b's, and exec.                  *)
(***************************************************************************)
EXTENDS PigPaxosProofs

RecordOK(B, P, r) == PromisesOK(B, r) /\ DatabaseOK(P, r)

\* A change from r to t that sends no P1b, executes nothing, and changes the
\* count of promises, if at all, together with a move to a ballot of another
\* node.
Aside(r, t) ==
  /\ t.id = r.id /\ t.p1bQueue = r.p1bQueue /\ t.p1bRelay = r.p1bRelay
  /\ t.db = r.db /\ t.execute = r.execute
  /\ \/ t.ballot = r.ballot /\ t.quorum = r.quorum
     \/ r.ballot <= t.ballot /\ ID(t.ballot) # t.id
  /\ \A m \in t.out : m \in r.out \/ m.type \notin {"P1b", "P1bs"}

\* The ballots reached, as t sees them, are no lower than r sees them.
NoLower(B, r, B2, t) ==
  \A q \in Node : /\ Reached(B, r, q) \in Nat /\ Reached(B2, t, q) \in Nat
                  /\ Reached(B, r, q) <= Reached(B2, t, q)

\* A node's own ballot never falls.
LEMMA ReachedGrows ==
  ASSUME NEW B \in [Node -> Nat], NEW r \in Replica, NEW t \in Replica, t.id = r.id,
         r.ballot <= t.ballot
  PROVE  NoLower(B, r, B, t)
<1>1. r.ballot \in Nat /\ t.ballot \in Nat
  BY DEF Replica, Ballot
<1> QED
  BY <1>1 DEF Reached, NoLower

\* So what a sequence of P1b's was vouched for before, it is after.
LEMMA SeqStaysVouched ==
  ASSUME NEW B, NEW r, NEW B2, NEW t, NoLower(B, r, B2, t),
         NEW ps \in Seq(P1bRecord), P1bSeqVouched(B, r, ps)
  PROVE  P1bSeqVouched(B2, t, ps)
<1> SUFFICES ASSUME NEW i \in DOMAIN ps
             PROVE  ps[i].ballot <= Reached(B2, t, ps[i].id)
  BY DEF P1bSeqVouched
<1> DEFINE p == ps[i]
<1>1. p.ballot \in Nat /\ p.id \in Node
  <2>1. p \in P1bRecord
    BY LenProperties, ElementOfSeq
  <2> HIDE DEF p
  <2> QED
    BY <2>1 DEF P1bRecord, Ballot
<1>2. p.ballot <= Reached(B, r, p.id)
  BY DEF P1bSeqVouched
<1> HIDE DEF p
<1>3. p.ballot <= Reached(B2, t, p.id)
  BY <1>1, <1>2 DEF NoLower
<1> QED
  BY <1>3 DEF p

\* The same for the P1b's of a message.
LEMMA MsgStaysVouched ==
  ASSUME NEW B, NEW r, NEW B2, NEW t, NoLower(B, r, B2, t),
         NEW m \in Message, MsgVouched(B, r, m)
  PROVE  MsgVouched(B2, t, m)
<1>1. CASE m.type = "P1b"
  <2>1. m.p1b.ballot \in Nat /\ m.p1b.id \in Node
    BY <1>1 DEF Message, P1bRecord, Ballot
  <2>2. m.p1b.ballot <= Reached(B, r, m.p1b.id)
    BY <1>1 DEF MsgVouched
  <2>3. m.p1b.ballot <= Reached(B2, t, m.p1b.id)
    BY <2>1, <2>2 DEF NoLower
  <2> QED
    BY <1>1, <2>3 DEF MsgVouched
<1>2. CASE m.type = "P1bs"
  <2>1. m.p1bs \in Seq(P1bRecord)
    BY <1>2 DEF Message
  <2>2. P1bSeqVouched(B2, t, m.p1bs)
    BY <1>2, <2>1, SeqStaysVouched DEF MsgVouched
  <2> QED
    BY <1>2, <2>2 DEF MsgVouched
<1> QED
  BY <1>1, <1>2 DEF MsgVouched

\* A change that leaves promises and database aside.
LEMMA AsideKeepsRecord ==
  ASSUME NEW B \in [Node -> Nat], NEW P, NEW r \in Replica, NEW t \in Replica,
         RecordOK(B, P, r), Aside(r, t)
  PROVE  RecordOK(B, P, t)
<1>1. t.id = r.id /\ r.ballot \in Nat /\ t.ballot \in Nat /\ r.ballot <= t.ballot
  BY DEF Aside, Replica, Ballot
<1>0. NoLower(B, r, B, t)
  BY <1>1, ReachedGrows
<1>2. P1bSeqVouched(B, t, t.p1bQueue) /\ P1bSeqVouched(B, t, t.p1bRelay.p1bs)
  <2>1. t.p1bQueue \in Seq(P1bRecord) /\ t.p1bRelay.p1bs \in Seq(P1bRecord)
    BY DEF Replica, P1bRelay
  <2>2. P1bSeqVouched(B, r, t.p1bQueue) /\ P1bSeqVouched(B, r, t.p1bRelay.p1bs)
    BY DEF RecordOK, PromisesOK, Aside
  <2> QED
    BY <1>0, <2>1, <2>2, SeqStaysVouched
<1>3. \A m \in t.out : MsgVouched(B, t, m)
  <2>1. \A m \in t.out : m \in Message
    BY DEF Replica
  <2>2. \A m \in t.out : MsgVouched(B, r, m)
    BY DEF RecordOK, PromisesOK, Aside, MsgVouched
  <2> QED
    BY <1>0, <2>1, <2>2, MsgStaysVouched
<1>4. ID(t.ballot) = t.id => \A q \in t.quorum : t.ballot <= Reached(B, t, q)
  BY <1>1 DEF RecordOK, PromisesOK, Aside, Reached
<1>5. DatabaseOK(P, t)
  BY DEF RecordOK, DatabaseOK, Aside
<1> QED
  BY <1>2, <1>3, <1>4, <1>5 DEF RecordOK, PromisesOK

\* Such changes compose.
LEMMA AsideTransitive ==
  ASSUME NEW r \in Replica, NEW s \in Replica, NEW t \in Replica, Aside(r, s), Aside(s, t)
  PROVE  Aside(r, t)
<1>1. r.ballot \in Nat /\ s.ballot \in Nat /\ t.ballot \in Nat
  BY DEF Replica, Ballot
<1> QED
  BY <1>1 DEF Aside

\* Sending anything but P1b's.
LEMMA EmitAside ==
  ASSUME NEW r \in Replica, NEW ms, \A m \in ms : m.type \notin {"P1b", "P1bs"}
  PROVE  Aside(r, Emit(r, ms))
BY DEF Aside, Emit, Replica

\* Sending changes out only.
LEMMA EmitFields ==
  ASSUME NEW r \in Replica, NEW ms \in SUBSET Message
  PROVE  Emit(r, ms) \in Replica /\ Emit(r, ms).log = r.log /\ Emit(r, ms).id = r.id
BY DEF Emit, Replica

\* Node.Forward.
LEMMA ForwardAside == \A r \in Replica : \A id, cs : Aside(r, Forward(r, id, cs))
<1> SUFFICES ASSUME NEW r \in Replica, NEW id, NEW cs PROVE Aside(r, Forward(r, id, cs))
  OBVIOUS
<1> DEFINE ms == {[type |-> "Request", command |-> c, dst |-> {id}] : c \in cs}
<1>1. \A m \in ms : m.type \notin {"P1b", "P1bs"}
  OBVIOUS
<1> HIDE DEF ms
<1>2. Aside(r, Emit(r, ms))
  BY <1>1, EmitAside
<1> QED
  BY <1>2 DEF Forward, ms

\* sendRecoverRequest.
LEMMA SendRecoverRequestAside ==
  ASSUME NEW r \in Replica, NEW b, NEW S
  PROVE  Aside(r, SendRecoverRequest(r, b, S))
<1> DEFINE ms == {[type |-> "RecoverRequest", slot |-> s, id |-> r.id, dst |-> {ID(b)}] : s \in S}
<1>1. \A m \in ms : m.type \notin {"P1b", "P1bs"}
  OBVIOUS
<1> HIDE DEF ms
<1>2. Aside(r, Emit(r, ms))
  BY <1>1, EmitAside
<1> QED
  BY <1>2 DEF SendRecoverRequest, ms

-----------------------------------------------------------------------------
\* Executing appends, slot by slot, the commands that were proposed there.
LEMMA ExecutedRecord ==
  ASSUME NEW B \in [Node -> Nat], NEW P, NEW r \in Replica, RecordOK(B, P, r),
         \A s \in Slot : Proposed(P, s, r.log[s]), NEW end \in r.execute..(MaxSlot + 1),
         \A s \in r.execute..(end - 1) :
           s \in Slot /\ r.log[s].status = "committed" /\ r.log[s].ballot # 0
  PROVE  RecordOK(B, P, Executed(r, end))
<1> DEFINE t == Executed(r, end)
           new == [i \in 1..(end - r.execute) |-> r.log[r.execute + i - 1].command]
<1>1. r \in Replica /\ r.execute \in Nat /\ end \in Nat /\ end - r.execute \in Nat
      /\ r.db \in Seq(MaybeCmd) /\ Len(r.db) = r.execute
  <2>1. r.execute \in 0..(MaxSlot + 1) /\ r.db \in Seq(MaybeCmd)
    BY DEF Replica
  <2>2. Len(r.db) = r.execute
    BY DEF RecordOK, DatabaseOK
  <2> HIDE DEF t, new
  <2> QED
    BY <2>1, <2>2, MaxSlotAssumption
<1>2. /\ t.id = r.id /\ t.ballot = r.ballot /\ t.quorum = r.quorum /\ t.execute = end
      /\ t.p1bQueue = r.p1bQueue /\ t.p1bRelay = r.p1bRelay /\ t.out = r.out
      /\ t.db = r.db \o new
  BY <1>1 DEF Executed, Replica
<1>3. \A i \in 1..(end - r.execute) : r.execute + i - 1 \in r.execute..(end - 1)
  BY <1>1
<1>4. new \in Seq(MaybeCmd) /\ Len(new) = end - r.execute
  <2>1. \A i \in 1..(end - r.execute) : r.log[r.execute + i - 1].command \in MaybeCmd
    BY <1>1, <1>3 DEF Replica, LogEntry
  <2> DEFINE k == end - r.execute
             f(i) == r.log[r.execute + i - 1].command
  <2>2. k \in Nat /\ new = [i \in 1..k |-> f(i)] /\ \A i \in 1..k : f(i) \in MaybeCmd
    BY <1>1, <2>1
  <2> HIDE DEF f, k, new
  <2>3. new \in Seq(MaybeCmd) /\ Len(new) = k
    BY <2>2
  <2> QED
    BY <2>3 DEF k
<1>5. /\ Len(t.db) = end
      /\ \A i \in 1..r.execute : t.db[i] = r.db[i]
      /\ \A i \in (r.execute + 1)..end : t.db[i] = new[i - r.execute]
  <2> HIDE DEF new, t
  <2>1. /\ Len(r.db \o new) = Len(r.db) + Len(new)
        /\ \A i \in 1..(Len(r.db) + Len(new)) :
             (r.db \o new)[i] = IF i <= Len(r.db) THEN r.db[i] ELSE new[i - Len(r.db)]
    BY <1>1, <1>4, ConcatProperties
  <2>2. Len(t.db) = end
    BY <1>1, <1>2, <1>4, <2>1
  <2>4. Len(r.db) + Len(new) = end
    BY <1>1, <1>4
  <2>3. \A i \in 1..end : t.db[i] = IF i <= r.execute THEN r.db[i] ELSE new[i - r.execute]
    BY <1>1, <1>2, <2>1, <2>4
  <2>5. ASSUME NEW i \in 1..r.execute PROVE i \in 1..end /\ i <= r.execute
    BY <1>1
  <2>6. ASSUME NEW i \in (r.execute + 1)..end PROVE i \in 1..end /\ ~(i <= r.execute)
    BY <1>1
  <2> QED
    BY <2>2, <2>3, <2>5, <2>6
<1>6. DatabaseOK(P, t)
  <2>1. ASSUME NEW i \in 1..end PROVE \E p \in P : p[2] = i - 1 /\ p[3] = t.db[i]
    <3>1. CASE i \in 1..r.execute
      BY <1>1, <1>5, <3>1 DEF RecordOK, DatabaseOK
    <3>2. CASE i \in (r.execute + 1)..end
      <4> DEFINE e == r.log[i - 1]
      <4>1. i - 1 \in r.execute..(end - 1) /\ i - r.execute \in 1..(end - r.execute)
        BY <1>1, <3>2
      <4>2. t.db[i] = e.command
        <5>1. r.execute + (i - r.execute) - 1 = i - 1
          BY <1>1, <4>1
        <5> QED
          BY <1>5, <3>2, <4>1, <5>1
      <4>3. i - 1 \in Slot /\ e.ballot # 0
        BY <4>1
      <4>4. <<e.ballot, i - 1, e.command>> \in P
        BY <4>3 DEF Proposed
      <4> QED
        BY <4>2, <4>4
    <3> QED
      BY <1>1, <3>1, <3>2
  <2> HIDE DEF t
  <2> QED
    BY <1>2, <1>5, <2>1 DEF DatabaseOK
<1> HIDE DEF t
<1>7. PromisesOK(B, t)
  BY <1>2 DEF RecordOK, PromisesOK, P1bSeqVouched, MsgVouched, Reached
<1> QED
  BY <1>6, <1>7 DEF RecordOK, t

\* exec executes only what was proposed for its slot.
LEMMA ExecRecord ==
  ASSUME NEW B \in [Node -> Nat], NEW P, NEW r \in Replica, RecordOK(B, P, r),
         \A s \in Slot : Proposed(P, s, r.log[s])
  PROVE  RecordOK(B, P, Exec(r))
<1> DEFINE end == ExecuteEnd(r)
           t == Executed(r, end)
           u == Exec(r)
<1>1. RecordOK(B, P, t)
  BY ExecuteEndFacts, ExecutedRecord
<1>2. \/ u = t
      \/ u = [t EXCEPT !.halted = TRUE]
      \/ u = SendRecoverRequest(t, r.ballot, {end})
  BY DEF Exec, Executed
<1>3. \A f \in DOMAIN r : f \in DOMAIN t
  BY DEF Executed
<1>0. /\ {"id", "ballot", "quorum", "execute", "p1bQueue", "p1bRelay", "db", "out", "halted"}
         \subseteq DOMAIN r
  BY DEF Replica
<1> HIDE DEF t, end, u
<1>4. /\ u.id = t.id /\ u.ballot = t.ballot /\ u.quorum = t.quorum /\ u.execute = t.execute
      /\ u.p1bQueue = t.p1bQueue /\ u.p1bRelay = t.p1bRelay /\ u.db = t.db
      /\ \A m \in u.out : m \in t.out \/ m.type = "RecoverRequest"
  <2>1. CASE u = t
    BY <2>1
  <2>2. CASE u = [t EXCEPT !.halted = TRUE]
    BY <2>2
  <2>3. CASE u = SendRecoverRequest(t, r.ballot, {end})
    BY <1>3, <1>0, <2>3 DEF SendRecoverRequest, Emit
  <2> QED
    BY <1>2, <2>1, <2>2, <2>3
<1>5. PromisesOK(B, u)
  BY <1>1, <1>4 DEF RecordOK, PromisesOK, P1bSeqVouched, MsgVouched, Reached
<1>6. DatabaseOK(P, u)
  BY <1>1, <1>4 DEF RecordOK, DatabaseOK
<1> QED
  BY <1>5, <1>6 DEF RecordOK, u

-----------------------------------------------------------------------------
\* forward.
LEMMA ForwardPendingAside == \A r \in Replica : Aside(r, ForwardPending(r))
<1> SUFFICES ASSUME NEW r \in Replica PROVE Aside(r, ForwardPending(r))
  OBVIOUS
<1> DEFINE s == Forward(r, ID(r.ballot), Range(r.requests))
<1>1. Aside(r, s) /\ DOMAIN s = DOMAIN r
  BY ForwardAside DEF Forward, Emit
<1>2. /\ s.id = r.id /\ s.ballot = r.ballot /\ s.quorum = r.quorum
      /\ s.p1bQueue = r.p1bQueue /\ s.p1bRelay = r.p1bRelay /\ s.db = r.db
      /\ s.execute = r.execute
  BY DEF Forward, Emit, Replica
<1>3. /\ ForwardPending(r).id = s.id /\ ForwardPending(r).ballot = s.ballot
      /\ ForwardPending(r).quorum = s.quorum
      /\ ForwardPending(r).p1bQueue = s.p1bQueue /\ ForwardPending(r).p1bRelay = s.p1bRelay
      /\ ForwardPending(r).db = s.db /\ ForwardPending(r).execute = s.execute
      /\ ForwardPending(r).out = s.out
  BY DEF ForwardPending, Forward, Emit, Replica
<1> HIDE DEF s
<1> QED
  BY <1>1, <1>2, <1>3 DEF Aside

\* HandleP1a: a higher ballot is another node's.
LEMMA HandleP1aAside ==
  ASSUME NEW I, NEW P, Context(I, P), NEW r, Good(I, P, r), NEW b \in I
  PROVE  Aside(r, HandleP1a(r, b))
<1>1. r \in Replica /\ r.ballot \in Nat /\ b \in Nat
  BY DEF Good, Replica, Ballot, Context
<1>2. CASE b > r.ballot
  <2> DEFINE s == [r EXCEPT !.ballot = b, !.active = FALSE]
  <2>1. ID(b) # r.id
    BY <1>2, HigherIsForeign DEF KnownBallot
  <2>2. s \in Replica
    BY <1>1 DEF Replica, Ballot
  <2>3. Aside(r, s)
    BY <1>1, <1>2, <2>1 DEF Aside, Replica
  <2> HIDE DEF s
  <2>4. Good(I, P, HandleP1a(r, b)) /\ HandleP1a(r, b) = ForwardPending(s)
    BY <1>2, HandleP1aGood DEF HandleP1a, s
  <2> QED
    BY <1>1, <2>2, <2>3, <2>4, ForwardPendingAside, AsideTransitive DEF Good
<1>3. CASE ~(b > r.ballot)
  BY <1>3 DEF HandleP1a, Aside
<1> QED
  BY <1>2, <1>3

\* update.
LEMMA UpdateAside == \A r \in Replica : \A l : Aside(r, Update(r, l))
BY DEF Update, Replica, Aside

\* P2a.
LEMMA P2aAside == \A r \in Replica : \A reqs : Aside(r, P2a(r, reqs))
<1> SUFFICES ASSUME NEW r \in Replica, NEW reqs PROVE Aside(r, P2a(r, reqs))
  OBVIOUS
<1>1. /\ P2a(r, reqs).id = r.id /\ P2a(r, reqs).ballot = r.ballot
      /\ P2a(r, reqs).quorum = r.quorum /\ P2a(r, reqs).p1bQueue = r.p1bQueue
      /\ P2a(r, reqs).p1bRelay = r.p1bRelay /\ P2a(r, reqs).db = r.db
      /\ P2a(r, reqs).execute = r.execute
  BY DEF P2a, Emit, Replica
<1>2. \A m \in P2a(r, reqs).out : m \in r.out \/ m.type = "P2a"
  BY DEF P2a, Emit, Replica, RoutedP2a
<1> QED
  BY <1>1, <1>2 DEF Aside

\* Winning phase 1 changes neither the ballot nor the count of promises.
LEMMA BecomeLeaderAside == \A r \in Replica : Aside(r, BecomeLeader(r))
<1> SUFFICES ASSUME NEW r \in Replica PROVE Aside(r, BecomeLeader(r))
  OBVIOUS
<1>1. /\ BecomeLeader(r).id = r.id /\ BecomeLeader(r).ballot = r.ballot
      /\ BecomeLeader(r).quorum = r.quorum /\ BecomeLeader(r).p1bQueue = r.p1bQueue
      /\ BecomeLeader(r).p1bRelay = r.p1bRelay /\ BecomeLeader(r).db = r.db
      /\ BecomeLeader(r).execute = r.execute
  BY ZenonT(30) DEF BecomeLeader, P2a, Emit, Replica
<1>2. \A m \in BecomeLeader(r).out : m \in r.out \/ m.type = "P2a"
  BY DEF BecomeLeader, P2a, Emit, Replica, RoutedP2a
<1> QED
  BY <1>1, <1>2 DEF Aside

\* P1a starts a ballot that only its owner has promised; RetryP1a starts the
\* count again.
LEMMA P1aRecord ==
  ASSUME NEW B \in [Node -> Nat], NEW P, NEW r \in Replica, RecordOK(B, P, r),
         NEW b \in Nat, r.ballot <= b
  PROVE  RecordOK(B, P, Emit([r EXCEPT !.ballot = b, !.quorum = {r.id}], RoutedP1a(r.id, b)))
<1> DEFINE t == Emit([r EXCEPT !.ballot = b, !.quorum = {r.id}], RoutedP1a(r.id, b))
           s == [r EXCEPT !.ballot = b]
<1>1. s \in Replica /\ r.ballot \in Nat
  BY DEF Replica, Ballot
<1>2. /\ s.id = r.id /\ s.ballot = b /\ s.p1bQueue = r.p1bQueue /\ s.p1bRelay = r.p1bRelay
      /\ s.out = r.out
  BY DEF Replica
<1>3. /\ t.id = r.id /\ t.ballot = b /\ t.quorum = {r.id} /\ t.p1bQueue = r.p1bQueue
      /\ t.p1bRelay = r.p1bRelay /\ t.db = r.db /\ t.execute = r.execute
      /\ t.out = r.out \cup RoutedP1a(r.id, b)
  BY DEF Replica, Emit
<1> HIDE DEF s, t
<1>0. NoLower(B, r, B, s)
  BY <1>1, <1>2, ReachedGrows
<1>4. /\ P1bSeqVouched(B, s, r.p1bQueue) /\ P1bSeqVouched(B, s, r.p1bRelay.p1bs)
  <2>1. r.p1bQueue \in Seq(P1bRecord) /\ r.p1bRelay.p1bs \in Seq(P1bRecord)
    BY DEF Replica, P1bRelay
  <2> QED
    BY <1>0, <2>1, SeqStaysVouched DEF RecordOK, PromisesOK
<1>5. \A m \in r.out : MsgVouched(B, s, m)
  <2>1. \A m \in r.out : m \in Message
    BY DEF Replica
  <2> QED
    BY <1>0, <2>1, MsgStaysVouched DEF RecordOK, PromisesOK
<1>6. \A q : Reached(B, t, q) = Reached(B, s, q)
  BY <1>2, <1>3 DEF Reached
<1>7. \A m \in RoutedP1a(r.id, b) : m.type = "P1a"
  BY DEF RoutedP1a
<1>8. PromisesOK(B, t)
  <2>1. P1bSeqVouched(B, t, t.p1bQueue) /\ P1bSeqVouched(B, t, t.p1bRelay.p1bs)
    BY <1>3, <1>4, <1>6 DEF P1bSeqVouched
  <2>2. \A m \in t.out : MsgVouched(B, t, m)
    BY <1>3, <1>5, <1>6, <1>7 DEF MsgVouched, P1bSeqVouched
  <2>3. \A q \in t.quorum : t.ballot <= Reached(B, t, q)
    BY <1>3 DEF Reached
  <2> QED
    BY <2>1, <2>2, <2>3 DEF PromisesOK
<1>9. DatabaseOK(P, t)
  BY <1>3 DEF RecordOK, DatabaseOK
<1> QED
  BY <1>8, <1>9 DEF RecordOK, t

\* HandleP1b counts a promise only for the ballot that its sender reached.
LEMMA HandleP1bRecord ==
  ASSUME NEW B \in [Node -> Nat], NEW I, NEW P, Context(I, P), NEW r, Good(I, P, r),
         RecordOK(B, P, r), NEW p \in P1bRecord, P1bOK(I, P, p),
         p.ballot <= Reached(B, r, p.id), HandleP1b(r, p) \in Replica
  PROVE  RecordOK(B, P, HandleP1b(r, p))
<1> DEFINE u == Update(r, p.log)
           d == [u EXCEPT !.ballot = p.ballot, !.active = FALSE]
           c == [u EXCEPT !.quorum = @ \cup {p.id}]
<1>1. CASE p.ballot < r.ballot \/ r.active
  BY <1>1 DEF HandleP1b
<1>2. CASE ~(p.ballot < r.ballot \/ r.active)
  <2>1. r \in Replica /\ p.ballot \in Nat /\ r.ballot \in Nat /\ p.id \in Node
    BY DEF Good, Replica, Ballot, P1bRecord
  <2>2. Good(I, P, u) /\ u.ballot = r.ballot /\ u.id = r.id
    <3>1. p.log \in [Slot -> CommandBallot] /\ ~r.active
      BY <1>2 DEF P1bRecord
    <3> QED
      BY <3>1, UpdateGood DEF P1bOK, Keeps
  <2>3. RecordOK(B, P, u)
    BY <2>1, <2>2, UpdateAside, AsideKeepsRecord DEF Good
  <2> HIDE DEF u
  <2>4. CASE p.ballot > u.ballot
    <3>1. ID(p.ballot) # u.id
      BY <2>2, <2>4, HigherIsForeign DEF P1bOK
    <3>2. d \in Replica
      BY ZenonT(30), <2>1, <2>2 DEF Good, Replica, Ballot
    <3>3. Aside(u, d)
      <4>1. /\ d.id = u.id /\ d.ballot = p.ballot /\ d.p1bQueue = u.p1bQueue
            /\ d.p1bRelay = u.p1bRelay /\ d.db = u.db /\ d.execute = u.execute /\ d.out = u.out
        BY <2>2 DEF Good, Replica
      <4> HIDE DEF d
      <4> QED
        BY <2>1, <2>2, <2>4, <3>1, <4>1 DEF Aside
    <3>4. HandleP1b(r, p) = ForwardPending(d)
      BY <1>2, <2>2, <2>4, <3>1 DEF HandleP1b, u
    <3> HIDE DEF d
    <3>5. RecordOK(B, P, d)
      BY <2>2, <2>3, <3>2, <3>3, AsideKeepsRecord DEF Good
    <3> QED
      BY <3>2, <3>4, <3>5, ForwardPendingAside, AsideKeepsRecord
  <2>5. CASE ~(p.ballot > u.ballot) /\ ID(p.ballot) # r.id
    BY <1>2, <2>3, <2>5 DEF HandleP1b, u
  <2>6. CASE ~(p.ballot > u.ballot) /\ ID(p.ballot) = r.id
    <3>1. p.ballot = u.ballot
      BY <1>2, <2>1, <2>2, <2>6
    <3>2. c \in Replica
      BY ZenonT(30), <2>1, <2>2 DEF Good, Replica
    <3>3. /\ c.id = u.id /\ c.ballot = u.ballot /\ c.quorum = u.quorum \cup {p.id}
          /\ c.p1bQueue = u.p1bQueue /\ c.p1bRelay = u.p1bRelay /\ c.db = u.db
          /\ c.execute = u.execute /\ c.out = u.out
      BY <2>2 DEF Good, Replica
    <3>4. HandleP1b(r, p) = IF Majority(c.quorum) THEN BecomeLeader(c) ELSE c
      BY <1>2, <2>6, <3>1 DEF HandleP1b, u
    <3> HIDE DEF c
    <3>5. PromisesOK(B, c)
      <4>1. \A q : Reached(B, c, q) = Reached(B, u, q) /\ Reached(B, r, q) = Reached(B, u, q)
        BY <2>2, <3>3 DEF Reached
      <4>2. P1bSeqVouched(B, c, c.p1bQueue) /\ P1bSeqVouched(B, c, c.p1bRelay.p1bs)
        BY <2>3, <3>3, <4>1 DEF RecordOK, PromisesOK, P1bSeqVouched
      <4>3. \A m \in c.out : MsgVouched(B, c, m)
        BY <2>3, <3>3, <4>1 DEF RecordOK, PromisesOK, MsgVouched, P1bSeqVouched
      <4>4. ID(c.ballot) = c.id => \A q \in c.quorum : c.ballot <= Reached(B, c, q)
        BY <2>3, <3>1, <3>3, <4>1 DEF RecordOK, PromisesOK
      <4> QED
        BY <4>2, <4>3, <4>4 DEF PromisesOK
    <3>6. RecordOK(B, P, c)
      BY <2>3, <3>3, <3>5 DEF RecordOK, DatabaseOK
    <3> QED
      BY <3>2, <3>4, <3>6, BecomeLeaderAside, AsideKeepsRecord
  <2> QED
    BY <2>4, <2>5, <2>6
<1> QED
  BY <1>1, <1>2

\* HandleRequest.
LEMMA HandleRequestRecord ==
  ASSUME NEW B \in [Node -> Nat], NEW I, NEW P, NEW r, Good(I, P, r), RecordOK(B, P, r),
         NEW c \in Cmd, HandleRequest(r, c) \in Replica
  PROVE  RecordOK(B, P, HandleRequest(r, c))
<1> DEFINE s == [r EXCEPT !.requests = Append(@, c)]
<1>1. r \in Replica /\ r.ballot \in Nat /\ r.id \in Node
  BY DEF Good, Replica, Ballot
<1>2. s \in Replica /\ Aside(r, s) /\ s.id = r.id /\ s.ballot = r.ballot
  <2>1. Append(r.requests, c) \in Seq(Cmd)
    BY <1>1, AppendProperties DEF Replica
  <2> QED
    BY <1>1, <2>1 DEF Replica, Aside
<1> HIDE DEF s
<1>3. RecordOK(B, P, s)
  BY <1>1, <1>2, AsideKeepsRecord
<1>4. CASE r.active
  BY <1>1, <1>4, P2aAside, AsideKeepsRecord DEF HandleRequest
<1>5. CASE ~r.active /\ ID(r.ballot) # r.id
  <2> DEFINE b == NextBallot(s.ballot, s.id)
  <2>1. b \in Nat /\ s.ballot <= b
    BY <1>1, <1>2, NextBallotFacts, NodeIsPositive DEF Ballot
  <2>2. HandleRequest(r, c)
          = Emit([s EXCEPT !.ballot = b, !.quorum = {s.id}], RoutedP1a(s.id, b))
    BY <1>5 DEF HandleRequest, P1a, s
  <2> HIDE DEF b
  <2> QED
    BY <1>2, <1>3, <2>1, <2>2, P1aRecord
<1>6. CASE ~r.active /\ ID(r.ballot) = r.id
  BY <1>3, <1>6 DEF HandleRequest, s
<1> QED
  BY <1>4, <1>5, <1>6

\* RetryP1a.
LEMMA RetryP1aRecord ==
  ASSUME NEW B \in [Node -> Nat], NEW P, NEW r \in Replica, RecordOK(B, P, r)
  PROVE  RecordOK(B, P, RetryP1a(r))
<1>1. r.ballot \in Nat
  BY DEF Replica, Ballot
<1>2. [r EXCEPT !.ballot = r.ballot, !.quorum = {r.id}] = [r EXCEPT !.quorum = {r.id}]
  BY DEF Replica
<1>3. RetryP1a(r)
        = Emit([r EXCEPT !.ballot = r.ballot, !.quorum = {r.id}], RoutedP1a(r.id, r.ballot))
  BY <1>2 DEF RetryP1a
<1> DEFINE b == r.ballot
<1>4. b \in Nat /\ r.ballot <= b
  BY <1>1
<1> HIDE DEF b
<1>5. RecordOK(B, P, Emit([r EXCEPT !.ballot = b, !.quorum = {r.id}], RoutedP1a(r.id, b)))
  BY <1>4, P1aRecord
<1> QED
  BY <1>3, <1>5 DEF b

-----------------------------------------------------------------------------
\* RetryP2a.
LEMMA RetryP2aAside == \A r \in Replica : Aside(r, RetryP2a(r))
<1> SUFFICES ASSUME NEW r \in Replica PROVE Aside(r, RetryP2a(r))
  OBVIOUS
<1> DEFINE ms == RoutedP2a(r.id, r.ballot, r.execute, r.log[r.execute].command, NoP3)
<1>1. \A m \in ms : m.type \notin {"P1b", "P1bs"}
  BY DEF RoutedP2a
<1> HIDE DEF ms
<1> QED
  BY <1>1, EmitAside DEF RetryP2a, ms

\* HandleP2a: the proposer is another node.
LEMMA HandleP2aAside ==
  ASSUME NEW I, NEW P, Context(I, P), NEW r, Good(I, P, r), NEW m \in Message, m.type = "P2a",
         MsgOK(I, P, m), ID(m.ballot) # r.id
  PROVE  Aside(r, HandleP2a(r, m))
<1> DEFINE s == [r EXCEPT !.ballot = m.ballot, !.active = FALSE,
                          !.slot = Max({@, m.slot}),
                          !.log[m.slot] = Accept(r.log[m.slot], m.ballot, m.command)]
           e == r.log[m.slot]
           displaced == {c \in {e.request} : c # NoCmd /\ e.status = "open" /\ m.ballot > e.ballot
                                             /\ e.command # m.command}
<1>1. r \in Replica /\ r.ballot \in Nat /\ m.ballot \in Nat
  BY P2aFields DEF Good, Replica, Ballot
<1>2. CASE m.ballot < r.ballot
  BY <1>2 DEF HandleP2a, Aside
<1>3. CASE ~(m.ballot < r.ballot)
  <2>1. HandleP2a(r, m) = Forward(s, ID(m.ballot), displaced)
    BY <1>3 DEF HandleP2a
  <2>2. /\ s.id = r.id /\ s.ballot = m.ballot /\ s.p1bQueue = r.p1bQueue
        /\ s.p1bRelay = r.p1bRelay /\ s.db = r.db /\ s.execute = r.execute /\ s.out = r.out
        /\ DOMAIN s = DOMAIN r
    BY <1>1 DEF Replica
  <2> DEFINE ms == {[type |-> "Request", command |-> c, dst |-> {ID(m.ballot)}] : c \in displaced}
             t == [s EXCEPT !.out = @ \cup ms]
  <2>3. HandleP2a(r, m) = t
    BY <2>1 DEF Forward, Emit
  <2>4. /\ t.id = r.id /\ t.ballot = m.ballot /\ t.p1bQueue = r.p1bQueue
        /\ t.p1bRelay = r.p1bRelay /\ t.db = r.db /\ t.execute = r.execute
        /\ t.out = r.out \cup ms
    BY <1>1 DEF Replica
  <2>5. \A x \in ms : x.type = "Request"
    OBVIOUS
  <2> HIDE DEF ms, t
  <2> QED
    BY <1>1, <1>3, <2>3, <2>4, <2>5 DEF Aside
<1> QED
  BY <1>2, <1>3

\* HandleP2b, whether it is deposed, counts votes, commits, or stops.
LEMMA HandleP2bRecord ==
  ASSUME NEW B \in [Node -> Nat], NEW I, NEW P, Context(I, P), NEW r, Good(I, P, r),
         RecordOK(B, P, r), NEW s \in Slot, NEW b, KnownBallot(I, b), NEW ids \in SUBSET Node
  PROVE  RecordOK(B, P, HandleP2b(r, s, b, ids))
<1> DEFINE e == r.log[s]
           q == e.quorum \cup ids
           ms == RoutedP3(r.id, [ballot |-> r.p3ballot, slots |-> r.p3slots])
           d == [r EXCEPT !.ballot = b, !.active = FALSE, !.p3ballot = 0, !.p3slots = {},
                          !.p3started = TRUE]
           r1 == IF b > r.ballot THEN Emit(d, ms) ELSE r
           r2 == [r1 EXCEPT !.log[s].quorum = q]
           r3 == [r2 EXCEPT !.log[s].status = "committed", !.p3slots = @ \cup {s}]
           h == HandleP2b(r, s, b, ids)
<1>1. r \in Replica /\ e \in LogEntry /\ r.ballot \in Nat /\ b \in Ballot /\ b \in Nat
  BY KnownIsBallot DEF Good, Replica, Ballot
<1>2. r1 \in Replica /\ Aside(r, r1) /\ r1.log = r.log
  <2>1. CASE b > r.ballot
    <3>1. ID(b) # r.id
      BY <2>1, HigherIsForeign
    <3>2. \A m \in ms : m.type = "P3" /\ m \in Message
      <4>1. [ballot |-> r.p3ballot, slots |-> r.p3slots] \in P3Info /\ r.id \in Node
        BY <1>1 DEF Replica, P3Info
      <4> QED
        BY <4>1, RoutedP3OK DEF RoutedP3
    <3> HIDE DEF ms
    <3>3. d \in Replica
      BY <1>1 DEF Replica, Ballot
    <3>4. /\ d.id = r.id /\ d.ballot = b /\ d.p1bQueue = r.p1bQueue /\ d.p1bRelay = r.p1bRelay
          /\ d.db = r.db /\ d.execute = r.execute /\ d.out = r.out /\ d.log = r.log
      BY <1>1 DEF Replica
    <3> HIDE DEF d
    <3>5. Aside(r, d)
      BY <1>1, <2>1, <3>1, <3>4 DEF Aside
    <3>6. r1 = Emit(d, ms)
      BY <2>1
    <3>7. Emit(d, ms) \in Replica /\ Emit(d, ms).log = d.log
      BY <3>2, <3>3 DEF Emit, Replica
    <3>8. Aside(d, Emit(d, ms))
      BY <3>2, <3>3, EmitAside
    <3> QED
      BY <1>1, <3>3, <3>4, <3>5, <3>6, <3>7, <3>8, AsideTransitive
  <2>2. CASE ~(b > r.ballot)
    BY <1>1, <2>2 DEF Aside
  <2> QED
    BY <2>1, <2>2
<1>3. \/ h = r \/ h = r1 \/ h = [r1 EXCEPT !.halted = TRUE] \/ h = r2 \/ h = Exec(r3)
  <2>1. CASE b > r.ballot
    <3>1. r1 = Emit(d, ms)
      BY <2>1
    <3> QED
      BY <2>1, <3>1 DEF HandleP2b
  <2>2. CASE ~(b > r.ballot)
    <3>1. r1 = r
      BY <2>2
    <3> QED
      BY <2>2, <3>1 DEF HandleP2b
  <2> QED
    BY <2>1, <2>2
<1> HIDE DEF r1, h
<1>4. RecordOK(B, P, r1)
  BY <1>1, <1>2, AsideKeepsRecord
<1>5. [r1 EXCEPT !.halted = TRUE] \in Replica /\ Aside(r1, [r1 EXCEPT !.halted = TRUE])
  BY <1>2 DEF Replica, Aside
<1>6. r2 \in Replica /\ Aside(r1, r2)
  <2>1. r1.log[s] = e /\ [e EXCEPT !.quorum = q] \in LogEntry
    BY <1>1, <1>2 DEF LogEntry
  <2>2. r2 = [r1 EXCEPT !.log[s] = [e EXCEPT !.quorum = q]]
    BY <1>2, <2>1 DEF Replica
  <2> HIDE DEF r2
  <2> QED
    BY <1>2, <2>1, <2>2 DEF Replica, Aside
<1>7. /\ r3 \in Replica /\ Aside(r1, r3)
      /\ \A x \in Slot : /\ r3.log[x].ballot = r.log[x].ballot
                         /\ r3.log[x].command = r.log[x].command
  <2> DEFINE f == [e EXCEPT !.quorum = q, !.status = "committed"]
  <2>1. r1.log[s] = e /\ f \in LogEntry /\ f.ballot = e.ballot /\ f.command = e.command
    BY <1>1, <1>2 DEF LogEntry
  <2>2. r3.log = [r1.log EXCEPT ![s] = f]
    BY <1>1, <1>2, <2>1 DEF Replica, LogEntry
  <2>3. r3 = [r1 EXCEPT !.log = [r1.log EXCEPT ![s] = f], !.p3slots = @ \cup {s}]
    BY <1>2, <2>2 DEF Replica
  <2> HIDE DEF r3, f
  <2> QED
    BY ZenonT(30), <1>2, <2>1, <2>3 DEF Replica, Aside
<1> HIDE DEF r2, r3
<1>8. \A x \in Slot : Proposed(P, x, r3.log[x])
  BY <1>7 DEF Good, ReplicaOK, LogOK, Proposed
<1>9. RecordOK(B, P, r3)
  BY <1>2, <1>4, <1>7, AsideKeepsRecord
<1>10. RecordOK(B, P, Exec(r3))
  BY <1>7, <1>8, <1>9, ExecRecord
<1> QED
  BY <1>2, <1>3, <1>4, <1>5, <1>6, <1>10, AsideKeepsRecord DEF h

\* A handler that sends and then executes.
LEMMA AsideThenExec ==
  ASSUME NEW B \in [Node -> Nat], NEW I, NEW P, NEW r \in Replica, RecordOK(B, P, r),
         NEW t, Good(I, P, t), Aside(r, t)
  PROVE  RecordOK(B, P, Exec(t))
<1>1. t \in Replica /\ \A s \in Slot : Proposed(P, s, t.log[s])
  BY DEF Good, ReplicaOK, LogOK
<1> QED
  BY <1>1, AsideKeepsRecord, ExecRecord

\* HandleP3: a commit whose proposal has not arrived leaves an entry that is
\* not executed, any other entry is what was proposed.
LEMMA HandleP3Record ==
  ASSUME NEW B \in [Node -> Nat], NEW I, NEW P, Context(I, P), NEW r, Good(I, P, r),
         RecordOK(B, P, r), NEW p3 \in P3Info
  PROVE  RecordOK(B, P, HandleP3(r, p3))
<1> DEFINE stale == {s \in p3.slots : /\ r.log[s].status # "none"
                                      /\ r.log[s].ballot # p3.ballot
                                      /\ r.log[s].request # NoCmd}
           l == [s \in Slot |-> IF s \in p3.slots THEN Commit(r.log[s], p3.ballot) ELSE r.log[s]]
           r1 == [r EXCEPT !.slot = Max({@} \cup p3.slots), !.log = l]
           cs == {r.log[s].request : s \in stale}
           r2 == Forward(r1, ID(p3.ballot), cs)
           r3 == SendRecoverRequest(r2, p3.ballot, stale)
<1>1. /\ r \in Replica /\ r.slot \in -1..MaxSlot /\ p3.slots \in SUBSET Slot
      /\ p3.ballot \in Ballot /\ \A s \in Slot : r.log[s] \in LogEntry
  BY DEF Good, Replica, P3Info
<1>2. Max({r.slot} \cup p3.slots) \in -1..MaxSlot
  BY <1>1, MaxSlotOf
<1>3. l \in [Slot -> LogEntry]
  BY <1>1, CommitFacts
<1>4. r1 \in Replica /\ Aside(r, r1) /\ r1.log = l
  BY <1>1, <1>2, <1>3 DEF Replica, Aside
<1>5. \A s \in Slot : Proposed(P, s, l[s])
  <2> SUFFICES ASSUME NEW s \in Slot PROVE Proposed(P, s, l[s])
    OBVIOUS
  <2>1. Proposed(P, s, r.log[s])
    BY DEF Good, ReplicaOK, LogOK
  <2>2. Placeholder.ballot = 0
    BY DEF Placeholder, NoEntry
  <2>3. Proposed(P, s, Commit(r.log[s], p3.ballot))
    BY <1>1, <2>1, <2>2, CommitFacts DEF Proposed
  <2> QED
    BY <2>1, <2>3
<1>6. stale \in SUBSET Slot /\ cs \in SUBSET Cmd /\ ID(p3.ballot) \in Int
  <2>1. \A e \in LogEntry : e.request # NoCmd => e.request \in Cmd
    BY DEF LogEntry, MaybeCmd
  <2> QED
    BY <1>1, <2>1, OwnerIsInt
<1>7. HandleP3(r, p3) = Exec(r3)
  BY DEF HandleP3
<1> HIDE DEF r1, stale, cs, l
<1>8. r2 \in Replica /\ Aside(r1, r2) /\ r2.log = l
  <2> DEFINE ms == {[type |-> "Request", command |-> c, dst |-> {ID(p3.ballot)}] : c \in cs}
  <2>1. ms \in SUBSET Message
    BY <1>6 DEF Message
  <2>2. r2 = Emit(r1, ms)
    BY DEF Forward
  <2> HIDE DEF ms
  <2> QED
    BY <1>4, <2>1, <2>2, ForwardAside, EmitFields
<1> HIDE DEF r2
<1>9. r3 \in Replica /\ Aside(r2, r3) /\ r3.log = l
  <2>1. r2.id \in Node
    BY <1>8 DEF Replica
  <2> DEFINE ms == {[type |-> "RecoverRequest", slot |-> s, id |-> r2.id,
                     dst |-> {ID(p3.ballot)}] : s \in stale}
  <2>2. ms \in SUBSET Message
    BY <1>6, <2>1 DEF Message
  <2>3. r3 = Emit(r2, ms)
    BY DEF SendRecoverRequest
  <2> HIDE DEF ms
  <2> QED
    BY <1>8, <2>2, <2>3, SendRecoverRequestAside, EmitFields
<1> HIDE DEF r3
<1>10. RecordOK(B, P, r3)
  BY <1>1, <1>4, <1>8, <1>9, AsideKeepsRecord
<1> QED
  BY <1>5, <1>7, <1>9, <1>10, ExecRecord

\* HandleP3RecoverRequest.
LEMMA HandleP3RecoverRequestRecord ==
  ASSUME NEW B \in [Node -> Nat], NEW I, NEW P, Context(I, P), NEW r, Good(I, P, r),
         RecordOK(B, P, r), NEW s \in Slot, NEW id \in Node
  PROVE  RecordOK(B, P, HandleP3RecoverRequest(r, s, id))
<1> DEFINE e == r.log[s]
           answer == [type |-> "RecoverReply", ballot |-> e.ballot, slot |-> s,
                      command |-> e.command, dst |-> {id}]
           r1 == Emit(r, {answer})
<1>1. r \in Replica /\ e \in LogEntry /\ Proposed(P, s, e)
  BY DEF Good, Replica, ReplicaOK, LogOK
<1>2. answer \in Message /\ MsgOK(I, P, answer) /\ answer.type \notin {"P1b", "P1bs"}
  BY <1>1 DEF Message, MsgOK, Proposed, LogEntry
<1> HIDE DEF answer
<1>3. Good(I, P, r1) /\ Aside(r, r1)
  BY <1>1, <1>2, EmitGood, EmitAside
<1>4. Aside(r, r)
  BY <1>1 DEF Aside
<1>5. HandleP3RecoverRequest(r, s, id) \in {Exec(r), Exec(r1)}
  BY DEF HandleP3RecoverRequest, answer
<1> HIDE DEF r1
<1> QED
  BY <1>1, <1>3, <1>4, <1>5, AsideThenExec

\* HandleP3RecoverReply: what is recovered was proposed.
LEMMA HandleP3RecoverReplyRecord ==
  ASSUME NEW B \in [Node -> Nat], NEW I, NEW P, Context(I, P), NEW r, Good(I, P, r),
         RecordOK(B, P, r), NEW m \in Message, m.type = "RecoverReply", MsgOK(I, P, m)
  PROVE  RecordOK(B, P, HandleP3RecoverReply(r, m))
<1> DEFINE e == r.log[m.slot]
           f == IF e.status = "none" THEN e
                ELSE [e EXCEPT !.status = "committed", !.ballot = m.ballot, !.command = m.command]
           r1 == [r EXCEPT !.slot = Max({@, m.slot}), !.log[m.slot] = f]
<1>1. m.slot \in Slot /\ m.ballot \in Ballot /\ m.command \in MaybeCmd /\ Proposed(P, m.slot, m)
  BY DEF Message, MsgOK
<1>2. r \in Replica /\ r.slot \in -1..MaxSlot /\ e \in LogEntry
  BY <1>1 DEF Good, Replica
<1>3. f \in LogEntry /\ (f = e \/ (f.ballot = m.ballot /\ f.command = m.command))
  BY <1>1, <1>2 DEF LogEntry
<1>4. Max({r.slot, m.slot}) \in -1..MaxSlot
  <2>1. {r.slot} \cup {m.slot} = {r.slot, m.slot}
    OBVIOUS
  <2> QED
    BY <1>1, <1>2, <2>1, MaxSlotOf
<1>5. HandleP3RecoverReply(r, m) = Exec(r1)
  BY DEF HandleP3RecoverReply
<1> HIDE DEF f
<1>6. r1 \in Replica /\ Aside(r, r1) /\ \A s \in Slot : r1.log[s] = IF s = m.slot THEN f ELSE r.log[s]
  BY <1>1, <1>2, <1>3, <1>4 DEF Replica, Aside
<1> HIDE DEF r1
<1>7. \A s \in Slot : Proposed(P, s, r1.log[s])
  BY <1>1, <1>3, <1>6 DEF Good, ReplicaOK, LogOK, Proposed
<1> QED
  BY <1>2, <1>5, <1>6, <1>7, AsideKeepsRecord, ExecRecord

\* CleanupLog touches neither promise nor database.
LEMMA CleanupLogAside == \A r \in Replica : Aside(r, CleanupLog(r))
BY DEF CleanupLog, Replica, Aside

\* UpdateLastExecuteByNode changes only what is known of the progress of the
\* others.
LEMMA UpdateLastExecuteAside ==
  \A r \in Replica : \A q, x : Aside(r, UpdateLastExecuteByNode(r, q, x))
BY DEF UpdateLastExecuteByNode, Replica, Aside

-----------------------------------------------------------------------------
\* A change that keeps the ballot, the database and the count of promises, and
\* that collects and sends only P1b's that are vouched for.
LEMMA VouchedRecord ==
  ASSUME NEW B \in [Node -> Nat], NEW P, NEW r, NEW t, RecordOK(B, P, r),
         t.id = r.id, t.ballot = r.ballot, t.quorum = r.quorum, t.db = r.db,
         t.execute = r.execute,
         P1bSeqVouched(B, r, t.p1bQueue), P1bSeqVouched(B, r, t.p1bRelay.p1bs),
         \A m \in t.out : m \in r.out \/ MsgVouched(B, r, m)
  PROVE  RecordOK(B, P, t)
<1>1. \A q : Reached(B, t, q) = Reached(B, r, q)
  BY DEF Reached
<1>2. P1bSeqVouched(B, t, t.p1bQueue) /\ P1bSeqVouched(B, t, t.p1bRelay.p1bs)
  BY <1>1 DEF P1bSeqVouched
<1>3. \A m \in t.out : MsgVouched(B, t, m)
  <2>1. \A m \in t.out : MsgVouched(B, r, m)
    BY DEF RecordOK, PromisesOK
  <2> QED
    BY <1>1, <2>1 DEF MsgVouched, P1bSeqVouched
<1>4. ID(t.ballot) = t.id => \A q \in t.quorum : t.ballot <= Reached(B, t, q)
  BY <1>1 DEF RecordOK, PromisesOK
<1> QED
  BY <1>2, <1>3, <1>4 DEF RecordOK, PromisesOK, DatabaseOK

\* BroadcastToPeerGroup sends no P1b's.
LEMMA PropagateAside ==
  ASSUME NEW r \in Replica, NEW m \in Message, m.type \in {"P1a", "P2a", "P3"}
  PROVE  Aside(r, Propagate(r, m))
<1> DEFINE ms == {[m EXCEPT !.via = r.id, !.dst = {q}] : q \in GroupOf(r.id) \ {r.id, m.src}}
<1>1. ASSUME NEW q PROVE [m EXCEPT !.via = r.id, !.dst = {q}].type = m.type
  <2>1. CASE m.type = "P1a"
    BY <2>1 DEF Message
  <2>2. CASE m.type = "P2a"
    BY <2>2 DEF Message
  <2>3. CASE m.type = "P3"
    BY <2>3 DEF Message
  <2> QED
    BY <2>1, <2>2, <2>3
<1>2. \A x \in ms : x.type \notin {"P1b", "P1bs"}
  BY <1>1
<1> HIDE DEF ms
<1> QED
  BY <1>2, EmitAside DEF Propagate, ms

\* Sending the collected P1b's to the candidate (handleP1bRelay, startTicker).
LEMMA FlushP1bRecord ==
  ASSUME NEW B \in [Node -> Nat], NEW P, NEW r \in Replica, RecordOK(B, P, r),
         NEW p1bs, P1bSeqVouched(B, r, p1bs)
  PROVE  RecordOK(B, P, FlushP1b(r, p1bs))
<1> DEFINE t == FlushP1b(r, p1bs)
           m == [type |-> "P1bs", p1bs |-> p1bs, dst |-> {r.p1bRelay.hop}]
<1>1. /\ t.id = r.id /\ t.ballot = r.ballot /\ t.quorum = r.quorum /\ t.db = r.db
      /\ t.execute = r.execute /\ t.p1bQueue = r.p1bQueue /\ t.p1bRelay = NoP1bRelay
      /\ t.out = r.out \cup {m}
  BY DEF FlushP1b, Emit, Replica
<1>2. MsgVouched(B, r, m)
  BY DEF MsgVouched
<1>3. P1bSeqVouched(B, r, NoP1bRelay.p1bs)
  BY NoP1bRelayOK DEF P1bSeqVouched
<1> HIDE DEF t, m
<1>4. P1bSeqVouched(B, r, t.p1bQueue)
  BY <1>1 DEF RecordOK, PromisesOK
<1>5. RecordOK(B, P, t)
  BY <1>1, <1>2, <1>3, <1>4, VouchedRecord
<1> QED
  BY <1>5 DEF t

\* handleP1bRelay.
LEMMA HandleP1bRelayRecord ==
  ASSUME NEW B \in [Node -> Nat], NEW P, NEW r \in Replica, RecordOK(B, P, r),
         NEW p \in P1bRecord, p.ballot <= Reached(B, r, p.id)
  PROVE  RecordOK(B, P, HandleP1bRelay(r, p))
<1> DEFINE p1bs == Append(r.p1bRelay.p1bs, p)
           t == [r EXCEPT !.p1bRelay.p1bs = p1bs]
<1>1. r.p1bRelay \in P1bRelay /\ r.p1bRelay.p1bs \in Seq(P1bRecord)
  BY DEF Replica, P1bRelay
<1>2. P1bSeqVouched(B, r, p1bs)
  <2>1. P1bSeqVouched(B, r, r.p1bRelay.p1bs)
    BY DEF RecordOK, PromisesOK
  <2>2. DOMAIN p1bs = 1..(Len(r.p1bRelay.p1bs) + 1)
    BY <1>1, AppendProperties, LenProperties
  <2>3. \A i \in 1..(Len(r.p1bRelay.p1bs) + 1) :
           p1bs[i] = IF i <= Len(r.p1bRelay.p1bs) THEN r.p1bRelay.p1bs[i] ELSE p
    BY <1>1
  <2>4. DOMAIN r.p1bRelay.p1bs = 1..Len(r.p1bRelay.p1bs) /\ Len(r.p1bRelay.p1bs) \in Nat
    BY <1>1, LenProperties
  <2> HIDE DEF p1bs
  <2> QED
    BY <2>1, <2>2, <2>3, <2>4 DEF P1bSeqVouched
<1> HIDE DEF p1bs
<1>3. RecordOK(B, P, FlushP1b(r, p1bs))
  BY <1>2, FlushP1bRecord
<1>4. /\ t.id = r.id /\ t.ballot = r.ballot /\ t.quorum = r.quorum /\ t.db = r.db
      /\ t.execute = r.execute /\ t.p1bQueue = r.p1bQueue /\ t.p1bRelay.p1bs = p1bs
      /\ t.out = r.out
  BY <1>1 DEF Replica, P1bRelay
<1>5. HandleP1bRelay(r, p) = FlushP1b(r, p1bs) \/ HandleP1bRelay(r, p) = t
  BY DEF HandleP1bRelay, p1bs
<1> HIDE DEF t
<1>6. P1bSeqVouched(B, r, t.p1bQueue)
  BY <1>4 DEF RecordOK, PromisesOK
<1>7. RecordOK(B, P, t)
  BY <1>2, <1>4, <1>6, VouchedRecord
<1> QED
  BY <1>3, <1>5, <1>7

\* handleP1b, as a relay and as a candidate.
LEMMA ReceiveP1bRecord ==
  ASSUME NEW B \in [Node -> Nat], NEW I, NEW P, Context(I, P), NEW r, Good(I, P, r),
         RecordOK(B, P, r), NEW p \in P1bRecord, P1bOK(I, P, p),
         p.ballot <= Reached(B, r, p.id), ReceiveP1b(r, p) \in Replica
  PROVE  RecordOK(B, P, ReceiveP1b(r, p))
<1>1. r \in Replica
  BY DEF Good
<1>2. CASE r.p1bRelay.pending
  BY <1>1, <1>2, HandleP1bRelayRecord DEF ReceiveP1b
<1>3. CASE ~r.p1bRelay.pending
  BY <1>3, HandleP1bRecord DEF ReceiveP1b
<1> QED
  BY <1>2, <1>3

\* A node's P1b names the ballot the node has reached.
LEMMA OwnP1bVouched ==
  ASSUME NEW B, NEW r \in Replica
  PROVE  P1bOf(r).id = r.id /\ P1bOf(r).ballot <= Reached(B, r, P1bOf(r).id)
<1>1. r.ballot \in Nat
  BY DEF Replica, Ballot
<1> QED
  BY <1>1 DEF P1bOf, Reached

\* A leaf answers a P1a with its own promise.
LEMMA HandleP1aLeafRecord ==
  ASSUME NEW B \in [Node -> Nat], NEW I, NEW P, Context(I, P), NEW r, Good(I, P, r),
         RecordOK(B, P, r), NEW m \in Message, m.type = "P1a", MsgOK(I, P, m)
  PROVE  RecordOK(B, P, HandleP1aLeaf(r, m))
<1> DEFINE r1 == HandleP1a(r, m.ballot)
           a == [type |-> "P1b", p1b |-> P1bOf(r1), dst |-> {m.via}]
           t == Emit(r1, {a})
<1>1. m.ballot \in I
  BY DEF MsgOK
<1>2. r \in Replica /\ r1 \in Replica /\ RecordOK(B, P, r1)
  BY <1>1, HandleP1aGood, HandleP1aAside, AsideKeepsRecord DEF Good
<1>3. HandleP1aLeaf(r, m) = t
  BY DEF HandleP1aLeaf
<1> HIDE DEF r1
<1>4. MsgVouched(B, r1, a)
  BY <1>2, OwnP1bVouched DEF MsgVouched
<1>5. /\ t.id = r1.id /\ t.ballot = r1.ballot /\ t.quorum = r1.quorum /\ t.db = r1.db
      /\ t.execute = r1.execute /\ t.p1bQueue = r1.p1bQueue /\ t.p1bRelay = r1.p1bRelay
      /\ t.out = r1.out \cup {a}
  BY <1>2 DEF Emit, Replica
<1> HIDE DEF t, a
<1>6. P1bSeqVouched(B, r1, t.p1bQueue) /\ P1bSeqVouched(B, r1, t.p1bRelay.p1bs)
  BY <1>2, <1>5 DEF RecordOK, PromisesOK
<1> QED
  BY <1>2, <1>3, <1>4, <1>5, <1>6, VouchedRecord

\* A relay starts an empty collection for a new ballot and adds its own
\* promise, and nothing it collected for an earlier one stays.
LEMMA HandleP1aRelayRecord ==
  ASSUME NEW B \in [Node -> Nat], NEW I, NEW P, Context(I, P), NEW r, Good(I, P, r),
         RecordOK(B, P, r), NEW m \in Message, m.type = "P1a", MsgOK(I, P, m),
         HandleP1aRelay(r, m) \in Replica
  PROVE  RecordOK(B, P, HandleP1aRelay(r, m))
<1> DEFINE new == r.ballot < m.ballot
           nack == new /\ r.p1bRelay.pending
           a == [type |-> "Prepare", ballot |-> m.ballot, dst |-> {ID(r.ballot)}]
           r1 == IF nack THEN Emit(r, {a}) ELSE r
           c == [pending |-> TRUE, hop |-> m.src, p1bs |-> <<>>]
           r2 == IF new THEN [r1 EXCEPT !.p1bRelay = c] ELSE r1
           r3 == HandleP1a(r2, m.ballot)
           r4 == ReceiveP1b(r3, P1bOf(r3))
           h == HandleP1aRelay(r, m)
<1>1. m.ballot \in I /\ m.ballot \in Ballot /\ m.src \in Node /\ r \in Replica
  BY P1aFields DEF MsgOK, Good
<1>2. h = IF nack /\ ID(r.ballot) = r.id THEN [r EXCEPT !.halted = TRUE]
          ELSE IF new THEN Propagate(r4, m) ELSE r4
  BY DEF HandleP1aRelay
<1>3. CASE nack /\ ID(r.ballot) = r.id
  <2>1. Aside(r, [r EXCEPT !.halted = TRUE])
    BY <1>1 DEF Aside, Replica
  <2> QED
    BY <1>1, <1>2, <1>3, <2>1, AsideKeepsRecord
<1>4. CASE ~(nack /\ ID(r.ballot) = r.id)
  <2>1. Good(I, P, r1) /\ RecordOK(B, P, r1)
    <3>1. r.ballot \in Ballot /\ ID(r.ballot) \in Int
      BY <1>1, OwnerIsInt DEF Replica
    <3>2. a \in Message /\ MsgOK(I, P, a) /\ a.type \notin {"P1b", "P1bs"}
      BY <1>1, <3>1 DEF Message, MsgOK
    <3> HIDE DEF a
    <3>3. Good(I, P, Emit(r, {a})) /\ Aside(r, Emit(r, {a}))
      BY <1>1, <3>2, EmitGood, EmitAside
    <3>4. RecordOK(B, P, Emit(r, {a}))
      BY <1>1, <3>3, AsideKeepsRecord DEF Good
    <3> QED
      BY <3>3, <3>4
  <2> HIDE DEF r1
  <2>2. Good(I, P, r2) /\ RecordOK(B, P, r2) /\ (new => r2.p1bRelay.pending)
    <3> DEFINE d == [r1 EXCEPT !.p1bRelay = c]
    <3>1. c \in P1bRelay /\ c.hop \in Node /\ P1bSeqOK(I, P, c.p1bs) /\ c.pending
      BY <1>1, EmptySeq DEF P1bRelay, P1bSeqOK
    <3>2. P1bSeqVouched(B, r1, c.p1bs)
      BY DEF P1bSeqVouched
    <3> HIDE DEF c
    <3>3. Good(I, P, d)
      BY <2>1, <3>1, P1bRelayChangeGood
    <3>4. /\ d.id = r1.id /\ d.ballot = r1.ballot /\ d.quorum = r1.quorum /\ d.db = r1.db
          /\ d.execute = r1.execute /\ d.p1bQueue = r1.p1bQueue /\ d.p1bRelay = c
          /\ d.out = r1.out
      BY <2>1 DEF Good, Replica
    <3> HIDE DEF d
    <3>5. P1bSeqVouched(B, r1, d.p1bQueue)
      BY <2>1, <3>4 DEF RecordOK, PromisesOK
    <3>6. RecordOK(B, P, d)
      BY <2>1, <3>2, <3>4, <3>5, VouchedRecord
    <3> QED
      BY <2>1, <3>1, <3>3, <3>4, <3>6 DEF d
  <2> HIDE DEF r2
  <2>3. Good(I, P, r3) /\ Aside(r2, r3)
    BY <1>1, <2>2, HandleP1aGood, HandleP1aAside
  <2> HIDE DEF r3
  <2>4. r3 \in Replica /\ RecordOK(B, P, r3) /\ r3.p1bRelay = r2.p1bRelay
    <3>1. RecordOK(B, P, r3)
      BY <2>2, <2>3, AsideKeepsRecord DEF Good
    <3> QED
      BY <2>3, <3>1 DEF Good, Aside
  <2>5. /\ P1bOf(r3) \in P1bRecord /\ P1bOK(I, P, P1bOf(r3))
        /\ P1bOf(r3).ballot <= Reached(B, r3, P1bOf(r3).id)
    BY <2>3, <2>4, P1bOfOK, OwnP1bVouched
  <2>6. CASE new
    <3>1. r4 = HandleP1bRelay(r3, P1bOf(r3)) /\ r3.p1bRelay.pending
      BY <2>2, <2>4, <2>6 DEF ReceiveP1b
    <3>2. RecordOK(B, P, r4)
      BY <2>4, <2>5, <3>1, HandleP1bRelayRecord
    <3>3. Good(I, P, r4)
      BY <2>3, <2>5, <3>1, HandleP1bRelayGood
    <3> HIDE DEF r4
    <3>4. h = Propagate(r4, m)
      BY <1>2, <1>4, <2>6
    <3>5. Aside(r4, h)
      BY <3>3, <3>4, PropagateAside DEF Good
    <3> QED
      BY <3>2, <3>3, <3>5, AsideKeepsRecord DEF Good
  <2>7. CASE ~new
    <3>1. h = r4
      BY <1>2, <1>4, <2>7
    <3> QED
      BY <2>3, <2>4, <2>5, <3>1, ReceiveP1bRecord
  <2> QED
    BY <2>6, <2>7
<1> QED
  BY <1>3, <1>4

-----------------------------------------------------------------------------
\* A nack carries no promise.
LEMMA SendNackAside ==
  ASSUME NEW r \in Replica, NEW b, NEW s, NEW id
  PROVE  Aside(r, SendNack(r, b, s, id))
<1> DEFINE a == [type |-> "P2b", ballot |-> b, slot |-> s, ids |-> <<>>, dst |-> {id}]
<1>1. a.type \notin {"P1b", "P1bs"}
  OBVIOUS
<1> HIDE DEF a
<1> QED
  BY <1>1, EmitAside DEF SendNack, a

\* Sending the collected votes to the leader.
LEMMA FlushP2bAside ==
  ASSUME NEW r \in Replica, NEW s \in Slot, NEW ids, NEW missing
  PROVE  Aside(r, FlushP2b(r, s, ids, missing))
<1> DEFINE t == FlushP2b(r, s, ids, missing)
<1>1. /\ t.id = r.id /\ t.ballot = r.ballot /\ t.quorum = r.quorum /\ t.db = r.db
      /\ t.execute = r.execute /\ t.p1bQueue = r.p1bQueue /\ t.p1bRelay = r.p1bRelay
  BY DEF FlushP2b, Emit, Replica
<1>2. \A m \in t.out : m \in r.out \/ m.type \in {"P2b", "P2bAggregated"}
  BY DEF FlushP2b, Emit, Replica
<1> HIDE DEF t
<1>3. Aside(r, t)
  BY <1>1, <1>2 DEF Aside
<1> QED
  BY <1>3 DEF t

\* handleP2bRelay.
LEMMA HandleP2bRelayAside ==
  ASSUME NEW r \in Replica, NEW b, NEW s \in Slot, NEW ids
  PROVE  Aside(r, HandleP2bRelay(r, b, s, ids))
<1> DEFINE c == r.p2bRelay[s]
           all == c.ids \o ids
           missing == IF RelaySlack > 0 THEN ComputeMissingIDsForP2b(r, all) ELSE {}
           d == [r EXCEPT !.p2bRelay[s].ids = all]
           h == HandleP2bRelay(r, b, s, ids)
<1>1. \/ h = r \/ h = SendNack(r, b, s, ID(c.ballot)) \/ h = FlushP2b(r, s, all, missing) \/ h = d
  BY DEF HandleP2bRelay
<1>2. Aside(r, r) /\ Aside(r, d)
  BY DEF Aside, Replica
<1> HIDE DEF h, d, all, missing
<1>3. Aside(r, h)
  BY <1>1, <1>2, SendNackAside, FlushP2bAside
<1> QED
  BY <1>3 DEF h

\* handleP2b, as a relay and as a leader.
LEMMA ReceiveP2bRecord ==
  ASSUME NEW B \in [Node -> Nat], NEW I, NEW P, Context(I, P), NEW r, Good(I, P, r),
         RecordOK(B, P, r), NEW s \in Slot, NEW b, KnownBallot(I, b), NEW ids \in Seq(Node)
  PROVE  RecordOK(B, P, ReceiveP2b(r, b, s, ids))
<1>1. Range(ids) \in SUBSET Node
  <2>1. DOMAIN ids = 1..Len(ids)
    BY LenProperties
  <2> QED
    BY <2>1, ElementOfSeq DEF Range
<1>2. CASE IsLeader(r)
  BY <1>1, <1>2, HandleP2bRecord DEF ReceiveP2b
<1>3. CASE ~IsLeader(r)
  <2>1. r \in Replica /\ HandleP2bRelay(r, b, s, ids) \in Replica
    BY HandleP2bRelayGood DEF Good
  <2>2. RecordOK(B, P, HandleP2bRelay(r, b, s, ids))
    BY <2>1, HandleP2bRelayAside, AsideKeepsRecord
  <2> QED
    BY <1>3, <2>2 DEF ReceiveP2b
<1> QED
  BY <1>2, <1>3

\* handleP2bAggregated.
LEMMA HandleP2bAggregatedRecord ==
  ASSUME NEW B \in [Node -> Nat], NEW I, NEW P, Context(I, P), NEW r, Good(I, P, r),
         RecordOK(B, P, r), NEW m \in Message, m.type = "P2bAggregated", MsgOK(I, P, m)
  PROVE  RecordOK(B, P, HandleP2bAggregated(r, m))
<1> DEFINE t == UpdateLastExecuteByNode(r, m.relay, m.lastExecute)
           ids == GroupOf(m.relay) \ m.missing
<1>1. /\ m.relay \in Node /\ m.lastExecute \in -1..MaxSlot /\ m.slot \in Slot
      /\ KnownBallot(I, m.ballot)
  BY DEF Message, MsgOK
<1>2. ids \in SUBSET Node
  BY <1>1, GroupOfFacts
<1>3. Good(I, P, t)
  BY <1>1, UpdateLastExecuteGood
<1>4. RecordOK(B, P, t)
  <2>1. r \in Replica /\ t \in Replica
    BY <1>3 DEF Good
  <2> QED
    BY <2>1, UpdateLastExecuteAside, AsideKeepsRecord
<1>5. HandleP2bAggregated(r, m) \in {r, HandleP2b(t, m.slot, m.ballot, ids)}
  BY DEF HandleP2bAggregated
<1> HIDE DEF t, ids
<1>6. RecordOK(B, P, HandleP2b(t, m.slot, m.ballot, ids))
  BY <1>1, <1>2, <1>3, <1>4, HandleP2bRecord
<1> QED
  BY <1>5, <1>6

\* Opening the collection of the votes of a slot.
LEMMA OpenP2bRelayAside ==
  ASSUME NEW r \in Replica, NEW m \in Message, m.type = "P2a", OpenP2bRelay(r, m) \in Replica
  PROVE  Aside(r, OpenP2bRelay(r, m))
<1> DEFINE c == r.p2bRelay[m.slot]
           fresh == [pending |-> TRUE, hop |-> m.src, ballot |-> m.ballot, ids |-> <<>>]
           opened == [r EXCEPT !.p2bRelay[m.slot] = fresh]
           h == OpenP2bRelay(r, m)
<1>1. \/ h = opened \/ h = SendNack(opened, m.ballot, m.slot, ID(c.ballot))
      \/ h = SendNack(r, c.ballot, m.slot, ID(c.ballot)) \/ h = r
  BY DEF OpenP2bRelay
<1>2. opened \in Replica
  <2>1. m.slot \in Slot /\ m.src \in Node /\ m.ballot \in Ballot
    BY P2aFields
  <2>2. fresh \in P2bRelay
    BY <2>1, EmptySeq DEF P2bRelay
  <2> HIDE DEF fresh
  <2> QED
    BY <2>1, <2>2 DEF Replica
<1>3. Aside(r, r) /\ Aside(r, opened)
  BY DEF Aside, Replica
<1> HIDE DEF h, opened
<1>4. CASE h = SendNack(opened, m.ballot, m.slot, ID(c.ballot))
  <2>1. Aside(opened, h)
    BY <1>2, <1>4, SendNackAside
  <2>2. h \in Replica
    BY DEF h
  <2>3. Aside(r, h)
    BY <1>2, <1>3, <2>1, <2>2, AsideTransitive
  <2> QED
    BY <2>3 DEF h
<1>5. CASE h # SendNack(opened, m.ballot, m.slot, ID(c.ballot))
  BY <1>1, <1>3, <1>5, SendNackAside DEF h
<1> QED
  BY <1>4, <1>5

\* The P3 that travels with a P2a.
LEMMA HandleP3msgRecord ==
  ASSUME NEW B \in [Node -> Nat], NEW I, NEW P, Context(I, P), NEW r, Good(I, P, r),
         RecordOK(B, P, r), NEW p3 \in P3Info
  PROVE  RecordOK(B, P, HandleP3msg(r, p3))
BY HandleP3Record DEF HandleP3msg

\* A relay passes a message of the leader on.
LEMMA PropagateRecord ==
  ASSUME NEW B \in [Node -> Nat], NEW I, NEW P, NEW r, Good(I, P, r), RecordOK(B, P, r),
         NEW m \in Message, MsgOK(I, P, m), m.type \in {"P1a", "P2a", "P3"}
  PROVE  RecordOK(B, P, Propagate(r, m))
<1>1. r \in Replica /\ Propagate(r, m) \in Replica
  BY PropagateGood DEF Good
<1> QED
  BY <1>1, PropagateAside, AsideKeepsRecord

\* handleP2aRelay.
LEMMA HandleP2aRelayRecord ==
  ASSUME NEW B \in [Node -> Nat], NEW I, NEW P, Context(I, P), NEW r, Good(I, P, r),
         RecordOK(B, P, r), NEW m \in Message, m.type = "P2a", MsgOK(I, P, m), r.id \in m.dst
  PROVE  RecordOK(B, P, HandleP2aRelay(r, m))
<1> DEFINE o == OpenP2bRelay(r, m)
           r1 == HandleP2a(o, m)
           r2 == ReceiveP2b(r1, r1.ballot, m.slot, <<r.id>>)
           r3 == HandleP3msg(r2, m.p3)
<1>1. /\ m.slot \in Slot /\ m.p3 \in P3Info /\ r.id \in Node /\ <<r.id>> \in Seq(Node)
      /\ r \in Replica
  BY P2aFields DEF Good, Replica
<1>2. Good(I, P, o) /\ RecordOK(B, P, o) /\ ID(m.ballot) # o.id
  <2>1. Good(I, P, o) /\ Keeps(r, o)
    BY OpenP2bRelayGood
  <2> QED
    BY <1>1, <2>1, OpenP2bRelayAside, AsideKeepsRecord DEF Good, MsgOK, Keeps
<1> HIDE DEF o
<1>3. Good(I, P, r1) /\ RecordOK(B, P, r1)
  BY <1>2, HandleP2aGood, HandleP2aAside, AsideKeepsRecord DEF Good
<1>4. KnownBallot(I, r1.ballot)
  BY <1>3 DEF Good, ReplicaOK, OwnerOK
<1> HIDE DEF r1
<1>5. Good(I, P, r2) /\ RecordOK(B, P, r2)
  BY <1>1, <1>3, <1>4, ReceiveP2bGood, ReceiveP2bRecord
<1> HIDE DEF r2
<1>6. Good(I, P, r3) /\ RecordOK(B, P, r3)
  BY <1>1, <1>5, HandleP3msgGood, HandleP3msgRecord
<1> HIDE DEF r3
<1>7. RecordOK(B, P, Propagate(r3, m))
  BY <1>6, PropagateRecord
<1> QED
  BY <1>7 DEF HandleP2aRelay, o, r1, r2, r3

\* A leaf that votes.
LEMMA HandleP2aLeafRecord ==
  ASSUME NEW B \in [Node -> Nat], NEW I, NEW P, Context(I, P), NEW r, Good(I, P, r),
         RecordOK(B, P, r), NEW m \in Message, m.type = "P2a", MsgOK(I, P, m), r.id \in m.dst,
         m.via # 0
  PROVE  RecordOK(B, P, HandleP2aLeaf(r, m))
<1> DEFINE r1 == HandleP2a(r, m)
           vote == [type |-> "P2b", ballot |-> r1.ballot, slot |-> m.slot,
                    ids |-> <<r.id>>, dst |-> {m.via}]
           r2 == Emit(r1, {vote})
<1>1. /\ m.slot \in Slot /\ m.p3 \in P3Info /\ m.via \in Node /\ m.via \in Int
      /\ r.id \in Node /\ <<r.id>> \in Seq(Node) /\ ID(m.ballot) # r.id
  BY SMTT(30), P2aFields, NodeIsPositive DEF Good, Replica, MsgOK
<1>2. Good(I, P, r1) /\ RecordOK(B, P, r1)
  BY <1>1, HandleP2aGood, HandleP2aAside, AsideKeepsRecord DEF Good
<1>3. KnownBallot(I, r1.ballot) /\ r1.ballot \in Ballot
  BY <1>2 DEF Good, ReplicaOK, OwnerOK, Replica
<1> HIDE DEF r1
<1>4. vote \in Message /\ MsgOK(I, P, vote) /\ vote.type \notin {"P1b", "P1bs"}
  BY <1>1, <1>3 DEF Message, MsgOK
<1> HIDE DEF vote
<1>5. Good(I, P, r2) /\ RecordOK(B, P, r2)
  BY <1>2, <1>4, EmitGood, EmitAside, AsideKeepsRecord DEF Good
<1> HIDE DEF r2
<1>6. RecordOK(B, P, HandleP3msg(r2, m.p3))
  BY <1>1, <1>5, HandleP3msgRecord
<1> QED
  BY <1>6 DEF HandleP2aLeaf, r1, vote, r2

\* A relay that handles a P3 and passes it on.
LEMMA HandleP3RelayRecord ==
  ASSUME NEW B \in [Node -> Nat], NEW I, NEW P, Context(I, P), NEW r, Good(I, P, r),
         RecordOK(B, P, r), NEW m \in Message, m.type = "P3", MsgOK(I, P, m)
  PROVE  RecordOK(B, P, HandleP3Relay(r, m))
<1> DEFINE t == HandleP3(r, m.p3)
<1>1. m.p3 \in P3Info
  BY DEF Message
<1>2. Good(I, P, t) /\ RecordOK(B, P, t)
  BY <1>1, HandleP3Good, HandleP3Record
<1> HIDE DEF t
<1> QED
  BY <1>2, PropagateRecord DEF HandleP3Relay, t

-----------------------------------------------------------------------------
\* RecordInv, in the terms of the lemmas about handlers.
LEMMA RecordContext ==
  ASSUME Inv, RecordInv
  PROVE  /\ BallotReached \in [Node -> Nat]
         /\ \A n \in Node : RecordOK(BallotReached, proposals, node[n])
BY InvContext DEF Good, Replica, Ballot, BallotReached, RecordInv, RecordOK

\* A step of node n that ends in a replica with a true record preserves
\* RecordInv: the other nodes have reached the ballots they had reached, and
\* no proposal is taken back.
LEMMA StepKeepsRecord ==
  ASSUME Inv, RecordInv, NEW n \in Node, NEW taken, NEW t \in Replica,
         Keeps(node[n], t), RecordOK(BallotReached, proposals, t), Step(n, taken, t)
  PROVE  RecordInv'
<1> DEFINE B == BallotReached
           B2 == [B EXCEPT ![n] = t.ballot]
           u == [t EXCEPT !.out = {}]
<1>1. /\ B \in [Node -> Nat] /\ t.ballot \in Nat /\ t.id = n /\ B[n] <= t.ballot
      /\ \A q \in Node : B[q] = node[q].ballot /\ node[q].id = q /\ node[q] \in Replica
                         /\ RecordOK(B, proposals, node[q])
  <2>1. \A q \in Node : B[q] = node[q].ballot
    BY DEF BallotReached
  <2> QED
    BY <2>1, RecordContext, InvContext DEF Keeps, Replica, Ballot, Good
<1>2. /\ u \in Replica /\ u.id = n /\ u.ballot = t.ballot /\ u.quorum = t.quorum /\ u.db = t.db
      /\ u.execute = t.execute /\ u.p1bQueue = t.p1bQueue /\ u.p1bRelay = t.p1bRelay /\ u.out = {}
  BY <1>1 DEF Replica
<1>3. node' = [node EXCEPT ![n] = u] /\ proposals \subseteq proposals'
  BY DEF Step
<1> HIDE DEF u
<1>4. \A q \in Node : node'[q] = IF q = n THEN u ELSE node[q]
  BY <1>3 DEF Inv, TypeOK
<1>5. BallotReached' = B2
  BY <1>1, <1>2, <1>4 DEF BallotReached
<1> HIDE DEF B
<1>6. B2 \in [Node -> Nat] /\ \A q \in Node : B2[q] = IF q = n THEN t.ballot ELSE B[q]
  BY <1>1
<1> HIDE DEF B2
<1>7. NoLower(B, t, B2, u)
  BY <1>1, <1>2, <1>6 DEF NoLower, Reached
<1>8. \A q \in Node \ {n} : NoLower(B, node[q], B2, node[q])
  BY <1>1, <1>6 DEF NoLower, Reached
<1>9. \A q \in Node : NoLower(B, t, B2, node'[q]) /\ NoLower(B, node[n], B2, node'[q])
  BY <1>1, <1>2, <1>4, <1>6 DEF NoLower, Reached
<1>10. ASSUME NEW x \in Replica, NEW y \in Replica, NoLower(B, x, B2, y), PromisesOK(B, x),
              y.id = x.id, y.ballot = x.ballot, y.quorum = x.quorum, y.p1bQueue = x.p1bQueue,
              y.p1bRelay = x.p1bRelay, y.out \subseteq x.out
       PROVE  PromisesOK(B2, y)
  <2>1. P1bSeqVouched(B2, y, y.p1bQueue) /\ P1bSeqVouched(B2, y, y.p1bRelay.p1bs)
    <3>1. x.p1bQueue \in Seq(P1bRecord) /\ x.p1bRelay.p1bs \in Seq(P1bRecord)
      BY DEF Replica, P1bRelay
    <3>2. P1bSeqVouched(B, x, x.p1bQueue) /\ P1bSeqVouched(B, x, x.p1bRelay.p1bs)
      BY <1>10 DEF PromisesOK
    <3> QED
      BY <1>10, <3>1, <3>2, SeqStaysVouched
  <2>2. \A m \in y.out : MsgVouched(B2, y, m)
    <3>1. \A m \in x.out : m \in Message
      BY DEF Replica
    <3> QED
      BY <1>10, <3>1, MsgStaysVouched DEF PromisesOK
  <2>3. ASSUME ID(y.ballot) = y.id, NEW q \in y.quorum
        PROVE  y.ballot <= Reached(B2, y, q)
    <3>1. q \in Node /\ x.ballot \in Nat
      BY DEF Replica, Ballot
    <3>2. x.ballot <= Reached(B, x, q)
      BY <1>10, <2>3 DEF PromisesOK
    <3> QED
      BY <1>10, <3>1, <3>2 DEF NoLower
  <2> QED
    BY <2>1, <2>2, <2>3 DEF PromisesOK
<1>11. \A q \in Node : PromisesOK(B2, node'[q])
  <2>1. PromisesOK(B2, u)
    BY <1>1, <1>2, <1>7, <1>10 DEF RecordOK, B
  <2>2. \A q \in Node \ {n} : PromisesOK(B2, node[q])
    BY <1>1, <1>8, <1>10 DEF RecordOK
  <2> QED
    BY <1>4, <2>1, <2>2
<1>12. \A q \in Node : DatabaseOK(proposals', node'[q])
  <2>1. DatabaseOK(proposals', u)
    BY <1>2, <1>3 DEF RecordOK, DatabaseOK
  <2>2. \A q \in Node : DatabaseOK(proposals', node[q])
    BY <1>1, <1>3 DEF RecordOK, DatabaseOK
  <2> QED
    BY <1>4, <2>1, <2>2
<1>13. \A m \in DOMAIN msgs', q \in Node : MsgVouched(B2, node'[q], m)
  <2> SUFFICES ASSUME NEW m \in DOMAIN msgs', NEW q \in Node
               PROVE  MsgVouched(B2, node'[q], m)
    OBVIOUS
  <2> DEFINE A == msgs (-) SetToBag(taken)
  <2>1. IsABag(A) /\ DOMAIN A \subseteq DOMAIN msgs
    BY BagWithout DEF Inv, TypeOK
  <2>2. msgs' = A (+) SetToBag(t.out)
    BY DEF Step
  <2> HIDE DEF A
  <2>3. m \in DOMAIN msgs \/ m \in t.out
    BY <2>1, <2>2, BagWith
  <2>4. CASE m \in DOMAIN msgs
    <3>1. m \in Message /\ MsgVouched(B, node[n], m)
      BY <2>4, InvContext DEF RecordInv, B
    <3> QED
      BY <1>9, <3>1, MsgStaysVouched
  <2>5. CASE m \in t.out
    <3>1. m \in Message /\ MsgVouched(B, t, m)
      BY <2>5 DEF Replica, RecordOK, PromisesOK, B
    <3> QED
      BY <1>9, <3>1, MsgStaysVouched
  <2> QED
    BY <2>3, <2>4, <2>5
<1> QED
  BY <1>5, <1>11, <1>12, <1>13 DEF RecordInv

\* The same for a quiet handler, and for a handler that may propose.
LEMMA QuietStepRecord ==
  ASSUME Inv, RecordInv, NEW n \in Node, NEW taken, NEW t, Good(issued, proposals, t),
         Keeps(node[n], t), RecordOK(BallotReached, proposals, t), Step(n, taken, t)
  PROVE  RecordInv'
BY StepKeepsRecord DEF Good

\* A handler that may propose keeps what a step must keep.
LEMMA OutcomeFacts ==
  ASSUME NEW I, NEW P, NEW r, NEW t, Outcome(I, P, r, t)
  PROVE  t \in Replica /\ Keeps(r, t)
BY DEF Outcome, Good

\* Taking P1b's into the queue of handleP1bLeader, or the first one out.
LEMMA QueueRecord ==
  ASSUME NEW B, NEW P, NEW r \in Replica, RecordOK(B, P, r), NEW q, P1bSeqVouched(B, r, q)
  PROVE  RecordOK(B, P, [r EXCEPT !.p1bQueue = q])
<1> DEFINE t == [r EXCEPT !.p1bQueue = q]
<1>1. /\ t.id = r.id /\ t.ballot = r.ballot /\ t.quorum = r.quorum /\ t.db = r.db
      /\ t.execute = r.execute /\ t.p1bQueue = q /\ t.p1bRelay = r.p1bRelay /\ t.out = r.out
  BY DEF Replica
<1> HIDE DEF t
<1>2. \A x : Reached(B, t, x) = Reached(B, r, x)
  BY <1>1 DEF Reached
<1>3. PromisesOK(B, t)
  BY <1>1, <1>2 DEF RecordOK, PromisesOK, P1bSeqVouched, MsgVouched
<1>4. RecordOK(B, P, t)
  BY <1>1, <1>3 DEF RecordOK, DatabaseOK
<1> QED
  BY <1>4 DEF t

\* Every handler of a message or request keeps the record true.
LEMMA ReceiveKeepsRecord ==
  ASSUME Inv, RecordInv, NEW n \in Node, Receive(n)
  PROVE  RecordInv'
<1> DEFINE r == node[n]
           B == BallotReached
<1>1. /\ Context(issued, proposals) /\ Good(issued, proposals, r) /\ r.id = n /\ r \in Replica
      /\ B \in [Node -> Nat] /\ RecordOK(B, proposals, r)
  BY InvContext, RecordContext DEF Good
<1>2. ASSUME NEW taken, NEW t, Step(n, taken, t)
      PROVE  t.slot <= MaxSlot
  BY <1>2 DEF Step, WithinBounds
<1>3. CASE ReceiveRequest(n)
  <2>1. PICK m \in Inbox(n, "Request") :
          Step(n, {m}, IF ~StableLeader \/ IsLeader(r) \/ r.ballot = 0
                       THEN HandleRequest(r, m.command) ELSE Forward(r, ID(r.ballot), {m.command}))
    BY <1>3 DEF ReceiveRequest
  <2>2. m.command \in Cmd
    BY InboxFacts DEF Message
  <2>3. CASE Step(n, {m}, HandleRequest(r, m.command))
    <3> DEFINE t == HandleRequest(r, m.command)
    <3>1. t \in Replica /\ Keeps(r, t)
      BY <1>1, <1>2, <2>2, <2>3, HandleRequestOutcome, OutcomeFacts
    <3>2. RecordOK(B, proposals, t)
      BY <1>1, <2>2, <3>1, HandleRequestRecord
    <3> QED
      BY <2>3, <3>1, <3>2, StepKeepsRecord
  <2>4. CASE Step(n, {m}, Forward(r, ID(r.ballot), {m.command}))
    <3> DEFINE t == Forward(r, ID(r.ballot), {m.command})
    <3>1. ID(r.ballot) \in Int
      BY <1>1, OwnerIsInt DEF Replica
    <3>2. Good(issued, proposals, t) /\ Keeps(r, t)
      BY <1>1, <2>2, <3>1, ForwardGood
    <3>3. RecordOK(B, proposals, t)
      BY <1>1, <3>2, ForwardAside, AsideKeepsRecord DEF Good
    <3> QED
      BY <2>4, <3>2, <3>3, QuietStepRecord
  <2> QED
    BY <2>1, <2>3, <2>4
<1>4. CASE ReceiveP1a(n)
  <2>1. PICK m \in Inbox(n, "P1a") :
          Step(n, {m}, IF m.via = 0 THEN HandleP1aRelay(r, m) ELSE HandleP1aLeaf(r, m))
    BY <1>4 DEF ReceiveP1a
  <2>2. m \in Message /\ m.type = "P1a" /\ MsgOK(issued, proposals, m)
    BY InboxFacts
  <2>3. CASE m.via = 0
    <3> DEFINE t == HandleP1aRelay(r, m)
    <3>1. Step(n, {m}, t)
      BY <2>1, <2>3
    <3>2. t \in Replica /\ Keeps(r, t)
      BY <1>1, <1>2, <2>2, <3>1, HandleP1aRelayOutcome, OutcomeFacts
    <3>3. RecordOK(B, proposals, t)
      BY <1>1, <2>2, <3>2, HandleP1aRelayRecord
    <3> QED
      BY <3>1, <3>2, <3>3, StepKeepsRecord
  <2>4. CASE m.via # 0
    BY <1>1, <2>1, <2>2, <2>4, HandleP1aLeafGood, HandleP1aLeafRecord, QuietStepRecord
  <2> QED
    BY <2>3, <2>4
<1>5. CASE ReceiveP2a(n)
  <2>1. PICK m \in Inbox(n, "P2a") :
          Step(n, {m}, IF m.via = 0 THEN HandleP2aRelay(r, m) ELSE HandleP2aLeaf(r, m))
    BY <1>5 DEF ReceiveP2a
  <2>2. m \in Message /\ m.type = "P2a" /\ MsgOK(issued, proposals, m) /\ r.id \in m.dst
    BY <1>1, InboxFacts
  <2>3. CASE m.via = 0
    BY <1>1, <2>1, <2>2, <2>3, HandleP2aRelayGood, HandleP2aRelayRecord, QuietStepRecord
  <2>4. CASE m.via # 0
    BY <1>1, <2>1, <2>2, <2>4, HandleP2aLeafGood, HandleP2aLeafRecord, QuietStepRecord
  <2> QED
    BY <2>3, <2>4
<1>6. CASE ReceiveP3(n)
  <2>1. PICK m \in Inbox(n, "P3") :
          Step(n, {m}, IF m.via = 0 THEN HandleP3Relay(r, m) ELSE HandleP3(r, m.p3))
    BY <1>6 DEF ReceiveP3
  <2>2. m \in Message /\ m.type = "P3" /\ MsgOK(issued, proposals, m)
    BY InboxFacts
  <2>3. m.p3 \in P3Info
    BY <2>2 DEF Message
  <2>4. CASE m.via = 0
    BY <1>1, <2>1, <2>2, <2>4, HandleP3RelayGood, HandleP3RelayRecord, QuietStepRecord
  <2>5. CASE m.via # 0
    BY <1>1, <2>1, <2>3, <2>5, HandleP3Good, HandleP3Record, QuietStepRecord
  <2> QED
    BY <2>4, <2>5
<1>7. CASE ReceivePrepare(n)
  <2> DEFINE t == [r EXCEPT !.halted = TRUE]
  <2>1. PICK m \in Inbox(n, "Prepare") : Step(n, {m}, t)
    BY <1>7 DEF ReceivePrepare
  <2>2. Good(issued, proposals, t) /\ Keeps(r, t)
    BY <1>1, HaltGood
  <2>3. Aside(r, t)
    BY <1>1 DEF Aside, Replica
  <2>4. RecordOK(B, proposals, t)
    BY <1>1, <2>2, <2>3, AsideKeepsRecord DEF Good
  <2> QED
    BY <2>1, <2>2, <2>4, QuietStepRecord
<1>8. CASE ReceiveLeafP1b(n)
  <2>1. PICK m \in Inbox(n, "P1b") : Step(n, {m}, ReceiveP1b(r, m.p1b))
    BY <1>8 DEF ReceiveLeafP1b
  <2> DEFINE p == m.p1b
             t == ReceiveP1b(r, p)
  <2>2. /\ m \in Message /\ m.type = "P1b" /\ MsgOK(issued, proposals, m)
        /\ MsgVouched(B, r, m)
    BY InboxFacts DEF Inbox, RecordInv
  <2>3. /\ p \in P1bRecord /\ P1bOK(issued, proposals, p) /\ p.ballot <= Reached(B, r, p.id)
    BY <2>2 DEF Message, MsgOK, MsgVouched
  <2>4. t \in Replica /\ Keeps(r, t)
    BY <1>1, <1>2, <2>1, <2>3, ReceiveP1bOutcome, OutcomeFacts
  <2>5. RecordOK(B, proposals, t)
    BY <1>1, <2>3, <2>4, ReceiveP1bRecord
  <2> QED
    BY <2>1, <2>4, <2>5, StepKeepsRecord
<1>9. CASE ReceiveP1bs(n)
  <2>1. PICK m \in Inbox(n, "P1bs") : Step(n, {m}, [r EXCEPT !.p1bQueue = m.p1bs])
    BY <1>9 DEF ReceiveP1bs
  <2>2. /\ m \in Message /\ m.type = "P1bs" /\ MsgOK(issued, proposals, m)
        /\ MsgVouched(B, r, m)
    BY InboxFacts DEF Inbox, RecordInv
  <2>3. /\ m.p1bs \in Seq(P1bRecord) /\ P1bSeqOK(issued, proposals, m.p1bs)
        /\ P1bSeqVouched(B, r, m.p1bs)
    BY <2>2 DEF Message, MsgOK, MsgVouched
  <2> QED
    BY <1>1, <2>1, <2>3, QueueGood, QueueRecord, QuietStepRecord
<1>10. CASE HandleP1bLeader(n)
  <2> DEFINE s == [r EXCEPT !.p1bQueue = Tail(r.p1bQueue)]
             p == Head(r.p1bQueue)
             t == HandleP1b(s, p)
  <2>1. r.p1bQueue # <<>> /\ Step(n, {}, t)
    BY <1>10 DEF HandleP1bLeader
  <2>2. /\ r.p1bQueue \in Seq(P1bRecord) /\ P1bSeqOK(issued, proposals, r.p1bQueue)
        /\ P1bSeqVouched(B, r, r.p1bQueue)
    BY <1>1 DEF Good, Replica, ReplicaOK, RelayOK, RecordOK, PromisesOK
  <2>3. p \in P1bRecord /\ P1bOK(issued, proposals, p) /\ p.ballot <= Reached(B, r, p.id)
    BY <2>1, <2>2 DEF P1bSeqOK, P1bSeqVouched
  <2>4. /\ Tail(r.p1bQueue) \in Seq(P1bRecord) /\ P1bSeqOK(issued, proposals, Tail(r.p1bQueue))
        /\ P1bSeqVouched(B, r, Tail(r.p1bQueue))
    BY <2>1, <2>2 DEF P1bSeqOK, P1bSeqVouched
  <2>5. Good(issued, proposals, s) /\ Keeps(r, s) /\ RecordOK(B, proposals, s)
    BY <1>1, <2>4, QueueGood, QueueRecord
  <2>6. Reached(B, s, p.id) = Reached(B, r, p.id)
    BY <1>1 DEF Replica, Reached
  <2> HIDE DEF r, s, p
  <2>7. Outcome(issued, proposals, s, t)
    BY <1>1, <1>2, <2>1, <2>3, <2>5, HandleP1bOutcome
  <2>8. t \in Replica /\ Keeps(r, t)
    BY <1>1, <2>5, <2>7, OutcomeAfter, OutcomeFacts
  <2>9. RecordOK(B, proposals, t)
    BY <1>1, <2>3, <2>5, <2>6, <2>8, HandleP1bRecord
  <2> QED
    BY <2>1, <2>8, <2>9, StepKeepsRecord DEF r
<1>11. CASE ReceiveVote(n)
  <2>1. PICK m \in Inbox(n, "P2b") : Step(n, {m}, ReceiveP2b(r, m.ballot, m.slot, m.ids))
    BY <1>11 DEF ReceiveVote
  <2>2. m \in Message /\ m.type = "P2b" /\ MsgOK(issued, proposals, m)
    BY InboxFacts
  <2>3. m.slot \in Slot /\ m.ids \in Seq(Node) /\ KnownBallot(issued, m.ballot)
    BY <2>2 DEF Message, MsgOK
  <2> QED
    BY <1>1, <2>1, <2>3, ReceiveP2bGood, ReceiveP2bRecord, QuietStepRecord
<1>12. CASE ReceiveP2bAggregated(n)
  <2>1. PICK m \in Inbox(n, "P2bAggregated") : Step(n, {m}, HandleP2bAggregated(r, m))
    BY <1>12 DEF ReceiveP2bAggregated
  <2>2. m \in Message /\ m.type = "P2bAggregated" /\ MsgOK(issued, proposals, m)
    BY InboxFacts
  <2> QED
    BY <1>1, <2>1, <2>2, HandleP2bAggregatedGood, HandleP2bAggregatedRecord, QuietStepRecord
<1>13. CASE ReceiveRecoverRequest(n)
  <2>1. PICK m \in Inbox(n, "RecoverRequest") :
          Step(n, {m}, HandleP3RecoverRequest(r, m.slot, m.id))
    BY <1>13 DEF ReceiveRecoverRequest
  <2>2. m.slot \in Slot /\ m.id \in Node
    BY InboxFacts DEF Message
  <2> QED
    BY <1>1, <2>1, <2>2, HandleP3RecoverRequestGood, HandleP3RecoverRequestRecord,
       QuietStepRecord
<1>14. CASE ReceiveRecoverReply(n)
  <2>1. PICK m \in Inbox(n, "RecoverReply") : Step(n, {m}, HandleP3RecoverReply(r, m))
    BY <1>14 DEF ReceiveRecoverReply
  <2>2. m \in Message /\ m.type = "RecoverReply" /\ MsgOK(issued, proposals, m)
    BY InboxFacts
  <2> QED
    BY <1>1, <2>1, <2>2, HandleP3RecoverReplyGood, HandleP3RecoverReplyRecord, QuietStepRecord
<1> QED
  BY <1>3, <1>4, <1>5, <1>6, <1>7, <1>8, <1>9, <1>10, <1>11, <1>12, <1>13, <1>14 DEF Receive

\* So does every timeout of the ticker.
LEMMA TickKeepsRecord ==
  ASSUME Inv, RecordInv, NEW n \in Node, Tick(n)
  PROVE  RecordInv'
<1> DEFINE r == node[n]
           B == BallotReached
<1>1. /\ Context(issued, proposals) /\ Good(issued, proposals, r) /\ r.id = n /\ r \in Replica
      /\ B \in [Node -> Nat] /\ RecordOK(B, proposals, r)
  BY InvContext, RecordContext DEF Good
<1>2. ASSUME NEW t, Good(issued, proposals, t), Aside(r, t)
      PROVE  RecordOK(B, proposals, t)
  BY <1>1, <1>2, AsideKeepsRecord DEF Good
<1>3. CASE TickRetryP2a(n)
  <2> DEFINE t == RetryP2a(r)
  <2>1. Good(issued, proposals, t) /\ Keeps(r, t) /\ Step(n, {}, t)
    BY <1>1, <1>3, RetryP2aGood DEF TickRetryP2a
  <2>2. RecordOK(B, proposals, t)
    BY <1>1, <1>2, <2>1, RetryP2aAside
  <2> QED
    BY <2>1, <2>2, QuietStepRecord
<1>4. CASE TickRetryP1a(n)
  <2> DEFINE t == RetryP1a(r)
  <2>1. Good(issued, proposals, t) /\ Keeps(r, t) /\ Step(n, {}, t)
    BY <1>1, <1>4, RetryP1aGood DEF TickRetryP1a, IsLeader
  <2>2. RecordOK(B, proposals, t)
    BY <1>1, RetryP1aRecord
  <2> QED
    BY <2>1, <2>2, QuietStepRecord
<1>5. CASE TickP3(n)
  <2> DEFINE p3 == [ballot |-> r.p3ballot, slots |-> r.p3slots]
             s == [r EXCEPT !.p3slots = {}]
             t == Emit(s, RoutedP3(n, p3))
  <2>1. Step(n, {}, t)
    BY <1>5 DEF TickP3
  <2>2. p3 \in P3Info /\ s \in Replica /\ SameCore(r, s) /\ Aside(r, s)
    BY <1>1 DEF Replica, P3Info, SameCore, Aside
  <2> HIDE DEF p3, s
  <2>3. Good(issued, proposals, s) /\ Keeps(r, s)
    BY <1>1, <2>2, SameCoreGood
  <2>4. Good(issued, proposals, t) /\ Keeps(s, t)
    BY <2>2, <2>3, RoutedP3OK, EmitGood
  <2>5. Keeps(r, t)
    BY <1>1, <2>3, <2>4, GoodKeeps
  <2>6. \A m \in RoutedP3(n, p3) : m.type \notin {"P1b", "P1bs"}
    BY DEF RoutedP3
  <2>7. Aside(s, t)
    BY <2>2, <2>6, EmitAside
  <2>8. RecordOK(B, proposals, s)
    BY <1>2, <2>2, <2>3
  <2>9. RecordOK(B, proposals, t)
    BY <1>1, <2>2, <2>4, <2>7, <2>8, AsideKeepsRecord DEF Good
  <2> QED
    BY <2>1, <2>4, <2>5, <2>9, QuietStepRecord
<1>6. CASE TickRelayP1b(n)
  <2> DEFINE t == FlushP1b(r, r.p1bRelay.p1bs)
  <2>1. r.p1bRelay.pending /\ Step(n, {}, t)
    BY <1>6 DEF TickRelayP1b
  <2>2. /\ r.p1bRelay.p1bs \in Seq(P1bRecord) /\ P1bSeqOK(issued, proposals, r.p1bRelay.p1bs)
        /\ P1bSeqVouched(B, r, r.p1bRelay.p1bs)
    BY <1>1 DEF Good, Replica, P1bRelay, ReplicaOK, RelayOK, RecordOK, PromisesOK
  <2>3. Good(issued, proposals, t) /\ Keeps(r, t)
    BY <1>1, <2>1, <2>2, FlushP1bGood
  <2>4. RecordOK(B, proposals, t)
    BY <1>1, <2>2, FlushP1bRecord
  <2> QED
    BY <2>1, <2>3, <2>4, QuietStepRecord
<1>7. ASSUME NEW s \in Slot, TickRelayP2b(n, s)
      PROVE  RecordInv'
  <2> DEFINE ids == r.p2bRelay[s].ids
             t == FlushP2b(r, s, ids, ComputeMissingIDsForP2b(r, ids))
  <2>1. r.p2bRelay[s].pending /\ Step(n, {}, t)
    BY <1>7 DEF TickRelayP2b
  <2>2. ids \in Seq(Node) /\ ComputeMissingIDsForP2b(r, ids) \in SUBSET Node
    BY <1>1, MissingAreNodes DEF Replica, P2bRelay
  <2>3. Good(issued, proposals, t) /\ Keeps(r, t)
    BY <1>1, <2>1, <2>2, FlushP2bGood
  <2>4. RecordOK(B, proposals, t)
    BY <1>1, <1>2, <2>3, FlushP2bAside
  <2> QED
    BY <2>1, <2>3, <2>4, QuietStepRecord
<1>8. CASE TickCleanup(n)
  <2> DEFINE t == CleanupLog(r)
  <2>1. Good(issued, proposals, t) /\ Keeps(r, t) /\ Step(n, {}, t)
    BY <1>1, <1>8, CleanupLogGood DEF TickCleanup
  <2>2. RecordOK(B, proposals, t)
    BY <1>1, <1>2, <2>1, CleanupLogAside
  <2> QED
    BY <2>1, <2>2, QuietStepRecord
<1> QED
  BY <1>3, <1>4, <1>5, <1>6, <1>7, <1>8 DEF Tick

\* Every step keeps the record true; a lost message takes its promises along.
LEMMA NextKeepsRecord ==
  ASSUME Inv, RecordInv, [Next]_vars
  PROVE  RecordInv'
<1>1. ASSUME NEW n \in Node, Receive(n) \/ Tick(n)
      PROVE  RecordInv'
  BY <1>1, ReceiveKeepsRecord, TickKeepsRecord
<1>2. ASSUME UNCHANGED <<node, proposals>>,
             \A m \in DOMAIN msgs' : m \in DOMAIN msgs \/ m.type = "Request"
      PROVE  RecordInv'
  <2>1. BallotReached' = BallotReached
    BY <1>2 DEF BallotReached
  <2>2. \A m \in DOMAIN msgs', n \in Node : MsgVouched(BallotReached, node[n], m)
    BY <1>2 DEF RecordInv, MsgVouched
  <2> QED
    BY <1>2, <2>1, <2>2 DEF RecordInv
<1>3. IsABag(msgs)
  BY DEF Inv, TypeOK
<1>4. ASSUME NEW c \in Cmd, NEW n \in Entry[c], Submit(n, c)
      PROVE  RecordInv'
  <2> DEFINE m == [type |-> "Request", command |-> c, dst |-> {n}]
  <2>1. msgs' = msgs (+) SetToBag({m}) /\ m.type = "Request"
    BY <1>4 DEF Submit
  <2> HIDE DEF m
  <2>2. DOMAIN msgs' = DOMAIN msgs \cup {m}
    BY <1>3, <2>1, BagWith
  <2> QED
    BY <1>2, <1>4, <2>1, <2>2 DEF Submit
<1>5. CASE Lose
  <2>1. PICK m \in DOMAIN msgs : /\ msgs' = msgs (-) SetToBag({m})
                                 /\ UNCHANGED <<node, proposals>>
    BY <1>5 DEF Lose
  <2>2. DOMAIN msgs' \subseteq DOMAIN msgs
    BY <1>3, <2>1, BagWithout
  <2> QED
    BY <1>2, <2>1, <2>2
<1>6. CASE UNCHANGED vars
  BY <1>2, <1>6 DEF vars
<1> QED
  BY <1>1, <1>4, <1>5, <1>6 DEF Next

\* RecordInv holds initially: nobody has promised or executed anything.
LEMMA InitRecord == Init => RecordInv
<1> SUFFICES ASSUME Init PROVE RecordInv
  OBVIOUS
<1>1. DOMAIN msgs = {}
  BY DEF Init, EmptyBag, SetToBag
<1>2. ASSUME NEW n \in Node
      PROVE  PromisesOK(BallotReached, node[n]) /\ DatabaseOK(proposals, node[n])
  <2>1. node[n] = NewReplica(n)
    BY DEF Init
  <2>2. ID(0) # n
    BY ZeroBallot, NodeIsPositive
  <2>3. NewReplica(n).db = <<>> /\ NewReplica(n).execute = 0 /\ Len(<<>>) = 0
    BY DEF NewReplica
  <2>4. DatabaseOK(proposals, node[n])
    BY <2>1, <2>3 DEF DatabaseOK
  <2>5. PromisesOK(BallotReached, node[n])
    BY <2>1, <2>2 DEF NewReplica, NoP1bRelay, PromisesOK, P1bSeqVouched
  <2> QED
    BY <2>4, <2>5
<1> QED
  BY <1>1, <1>2 DEF RecordInv

-----------------------------------------------------------------------------
\* Wherever a P1b is, in a message, in the collection of a relay or in the
\* queue of a candidate, its sender has reached the ballot it names; and every
\* executed command was proposed for its slot.
THEOREM RecordInvariant == Spec => []RecordInv
<1>1. Inv /\ RecordInv /\ [Next]_vars => RecordInv'
  BY NextKeepsRecord
<1> QED
  BY <1>1, InitRecord, InductiveInvariant, PTL DEF Spec

\* Whatever is delayed, reordered or lost, collected by relays that time out
\* or asked for again (RetryP1a), a leader leads with the promises of nodes
\* that are not below its ballot.
THEOREM PromisesAreKept == Spec => []PromiseKept
<1>1. Inv /\ RecordInv => PromiseKept
  <2> SUFFICES ASSUME Inv, RecordInv, NEW n \in Node, node[n].active, NEW q \in node[n].quorum
               PROVE  node[q].ballot >= node[n].ballot
    BY DEF PromiseKept
  <2>1. ID(node[n].ballot) = node[n].id /\ node[n].id = n /\ node[n] \in Replica
    BY InvContext DEF Good, ReplicaOK, OwnerOK
  <2>2. q \in Node
    BY <2>1 DEF Replica
  <2>3. node[n].ballot <= Reached(BallotReached, node[n], q)
    BY <2>1 DEF RecordInv, PromisesOK
  <2>4. Reached(BallotReached, node[n], q) = node[q].ballot
    BY <2>1, <2>2 DEF Reached, BallotReached
  <2>5. node[n].ballot \in Nat /\ node[q].ballot \in Nat
    BY <2>2, InvContext DEF Good, Replica, Ballot
  <2> QED
    BY <2>3, <2>4, <2>5
<1> QED
  BY <1>1, RecordInvariant, InductiveInvariant, PTL

\* The databases agree while no slot is proposed under two ballots: commits
\* that overtake their proposals, recoveries (HandleP3RecoverReply), cleanups,
\* lost messages and halted nodes make no difference.
THEOREM AgreementUncontested == Spec => []UncontestedAgreement
<1>1. Inv /\ RecordInv => UncontestedAgreement
  <2> SUFFICES ASSUME Inv, RecordInv PROVE UncontestedAgreement
    OBVIOUS
  <2>1. \A n \in Node : node[n].db \in Seq(MaybeCmd)
    BY InvContext DEF Good, Replica
  <2>2. ASSUME NEW n \in Node, NEW i \in 1..Len(node[n].db)
        PROVE  \E p \in proposals : p[2] = i - 1 /\ p[3] = node[n].db[i]
    BY DEF RecordInv, DatabaseOK
  <2>3. \A n \in Node : \A i \in DOMAIN node[n].db :
          \E p \in proposals : p[2] = i - 1 /\ p[3] = node[n].db[i]
    BY <2>1, <2>2, LenProperties
  <2>4. ASSUME Uncontested PROVE Agreement
    <3> SUFFICES ASSUME NEW n \in Node, NEW q \in Node,
                        NEW i \in 1..Min({Len(node[n].db), Len(node[q].db)})
                 PROVE  node[n].db[i] = node[q].db[i]
      BY DEF Agreement
    <3> DEFINE S == {Len(node[n].db), Len(node[q].db)}
    <3>1. Len(node[n].db) \in Nat /\ Len(node[q].db) \in Nat
      BY <2>1, LenProperties
    <3>2. S \in SUBSET Nat /\ S # {}
      BY <3>1
    <3>3. Min(S) \in S /\ \A y \in S : Min(S) <= y
      BY <3>2, LeastElement
    <3>4. i \in 1..Len(node[n].db) /\ i \in 1..Len(node[q].db)
      BY <3>1, <3>3
    <3>5. PICK x \in proposals : x[2] = i - 1 /\ x[3] = node[n].db[i]
      BY <2>2, <3>4
    <3>6. PICK y \in proposals : y[2] = i - 1 /\ y[3] = node[q].db[i]
      BY <2>2, <3>4
    <3>7. x[1] = y[1]
      BY <2>4, <3>5, <3>6 DEF Uncontested, UncontestedIn
    <3>8. x[3] = y[3]
      BY <3>5, <3>6, <3>7 DEF Inv, ProposalsOK
    <3> QED
      BY <3>5, <3>6, <3>8
  <2> QED
    BY <2>3, <2>4 DEF UncontestedAgreement
<1> QED
  BY <1>1, RecordInvariant, InductiveInvariant, PTL
=============================================================================
