-------------------------- MODULE PigHistoryProofs --------------------------
(***************************************************************************)
(* The promise to the clients: as long as no slot is contested, the        *)
(* replicas implement the replicated log.  HistoryInv is inductive         *)
(* relative to the other invariants; with it, every step of PigPaxos is a  *)
(* step of the replicated log, or changes nothing there.                   *)
(***************************************************************************)
EXTENDS PigRequestProofs, PigRecordProofs

\* What the message m of a commit or a recovery says while r is sending it.
SendingOK(P, A, r, m) ==
  /\ m.type \in {"P2a", "P3"} => \A s \in m.p3.slots : ProposedBy(P, m.src, s)
  /\ m.type = "P3" => m.src \notin m.dst
  /\ m.type = "RecoverRequest" => m.id = r.id /\ m.slot \in Asked(r)
  /\ m.type = "RecoverReply" => \A q \in m.dst : m.slot \in A[q]

\* A replica in the course of a step.
Sound(P, A, r) ==
  /\ HoldingOK(r)
  /\ HistoryOK(P, r)
  /\ \A m \in r.out : SendingOK(P, A, r, m)

\* What every handler does to the database, to the replies and to what may be
\* asked for: all of them grow, and a new reply carries a newly executed command.
Serves(r, t) ==
  /\ t.id = r.id
  /\ Asked(r) \subseteq Asked(t)
  /\ Len(r.db) <= Len(t.db)
  /\ \A i \in 1..Len(r.db) : t.db[i] = r.db[i]
  /\ r.replies \subseteq t.replies
  /\ \A x \in t.replies \ r.replies : \E i \in 1..Len(t.db) : i > Len(r.db) /\ t.db[i] = x[2]

\* A handler keeps the history.
Faithful(P, A, r, t) == Sound(P, A, t) /\ Serves(r, t)

\* A change that executes nothing and leaves the requests in the log with the
\* proposals they belong to.
Leaves(P, A, r, t) ==
  /\ t.id = r.id /\ t.execute = r.execute /\ t.db = r.db /\ t.replies = r.replies
  /\ r.slot <= t.slot
  /\ \A s \in Slot :
       /\ t.log[s].request = r.log[s].request
       /\ r.log[s].request # NoCmd => /\ t.log[s].ballot = r.log[s].ballot
                                      /\ t.log[s].command = r.log[s].command
  /\ \A s \in t.p3slots : s \in r.p3slots \/ ProposedBy(P, r.id, s)
  /\ \A m \in t.out : m \in r.out \/ SendingOK(P, A, t, m)

\* Where the handlers start from.
Setting(I, P, A, r) ==
  /\ Context(I, P)
  /\ UncontestedIn(P)
  /\ Good(I, P, r)
  /\ Sound(P, A, r)

\* The numbers of a replica.
LEMMA NumbersTyped ==
  ASSUME NEW r \in Replica
  PROVE  /\ r.slot \in -1..MaxSlot /\ r.slot \in Int
         /\ r.execute \in 0..(MaxSlot + 1) /\ r.execute \in Nat
         /\ r.ballot \in Ballot
<1>1. r.slot \in -1..MaxSlot /\ r.execute \in 0..(MaxSlot + 1) /\ r.ballot \in Ballot
  BY DEF Replica
<1> QED
  BY <1>1, MaxSlotAssumption

\* Messages that speak of no slot.
LEMMA PlainSending ==
  ASSUME NEW P, NEW A, NEW r, NEW m, m.type \notin {"P2a", "P3", "RecoverRequest", "RecoverReply"}
  PROVE  SendingOK(P, A, r, m)
BY DEF SendingOK

\* The length of a database.
LEMMA LengthIsNat == \A r \in Replica : Len(r.db) \in Nat
<1> SUFFICES ASSUME NEW r \in Replica PROVE Len(r.db) \in Nat
  OBVIOUS
<1>1. r.db \in Seq(MaybeCmd)
  BY DEF Replica
<1> QED
  BY <1>1, LenProperties

\* One handler after another.
LEMMA ServesTransitive ==
  ASSUME NEW r \in Replica, NEW s \in Replica, NEW t \in Replica, Serves(r, s), Serves(s, t)
  PROVE  Serves(r, t)
<1>1. Len(r.db) \in Nat /\ Len(s.db) \in Nat /\ Len(t.db) \in Nat
  BY LengthIsNat
<1>2. Len(r.db) <= Len(t.db) /\ \A i \in 1..Len(r.db) : t.db[i] = r.db[i]
  <2>1. Len(r.db) <= Len(s.db) /\ Len(s.db) <= Len(t.db)
    BY DEF Serves
  <2>2. \A i \in 1..Len(r.db) : i \in 1..Len(s.db)
    BY <1>1, <2>1
  <2>3. \A i \in 1..Len(r.db) : t.db[i] = s.db[i] /\ s.db[i] = r.db[i]
    BY <2>2 DEF Serves
  <2> QED
    BY <1>1, <2>1, <2>3
<1>3. ASSUME NEW x \in t.replies \ r.replies
      PROVE  \E i \in 1..Len(t.db) : i > Len(r.db) /\ t.db[i] = x[2]
  <2>1. CASE x \in s.replies
    <3>1. PICK i \in 1..Len(s.db) : i > Len(r.db) /\ s.db[i] = x[2]
      BY <1>3, <2>1 DEF Serves
    <3>2. i \in 1..Len(t.db) /\ t.db[i] = s.db[i]
      BY <1>1 DEF Serves
    <3> QED
      BY <3>1, <3>2
  <2>2. CASE x \notin s.replies
    <3>1. PICK i \in 1..Len(t.db) : i > Len(s.db) /\ t.db[i] = x[2]
      BY <1>3, <2>2 DEF Serves
    <3>2. i > Len(r.db)
      BY <1>1, <3>1 DEF Serves
    <3> QED
      BY <3>1, <3>2
  <2> QED
    BY <2>1, <2>2
<1> QED
  BY <1>2, <1>3 DEF Serves

LEMMA FaithfulTransitive ==
  ASSUME NEW P, NEW A, NEW r \in Replica, NEW s \in Replica, NEW t \in Replica,
         Faithful(P, A, r, s), Faithful(P, A, s, t)
  PROVE  Faithful(P, A, r, t)
BY ServesTransitive DEF Faithful

\* Doing nothing.
LEMMA SelfFaithful ==
  ASSUME NEW P, NEW A, NEW r \in Replica, Sound(P, A, r)
  PROVE  Faithful(P, A, r, r)
<1>1. Len(r.db) \in Nat
  BY LengthIsNat
<1> QED
  BY <1>1 DEF Faithful, Serves

\* A change that leaves the requests where they are keeps the history.
LEMMA LeavesFaithful ==
  ASSUME NEW P \in SUBSET (Ballot \X Slot \X Cmd), NEW A, NEW r \in Replica, NEW t \in Replica, Sound(P, A, r),
         Leaves(P, A, r, t), HoldingOK(t)
  PROVE  Faithful(P, A, r, t)
<1>2. r.slot \in Int /\ t.slot \in Int /\ Slot \subseteq Int /\ Len(r.db) \in Nat
  BY MaxSlotAssumption, LengthIsNat DEF Replica, Slot
<1>3. Asked(r) \subseteq Asked(t)
  <2> SUFFICES ASSUME NEW s \in Slot, s <= r.slot, r.log[s].request = NoCmd
               PROVE  s <= t.slot /\ t.log[s].request = NoCmd
    BY DEF Asked
  <2>1. r.slot <= t.slot /\ t.log[s].request = r.log[s].request
    BY DEF Leaves
  <2> QED
    BY <1>2, <2>1
<1>4. Serves(r, t)
  BY <1>2, <1>3 DEF Serves, Leaves
<1>5. EntriesOK(t)
  BY DEF Sound, HistoryOK, EntriesOK, Leaves
<1>6. PlacedOK(P, t)
  <2> SUFFICES ASSUME NEW p \in P, ID(p[1]) = t.id
               PROVE  \/ t.log[p[2]].request = p[3]
                      \/ p[2] < t.execute /\ <<p[3], p[3]>> \in t.replies
    BY DEF PlacedOK
  <2>1. p[2] \in Slot
    OBVIOUS
  <2> QED
    BY <2>1 DEF Sound, HistoryOK, PlacedOK, Leaves
<1>7. \A m \in t.out : SendingOK(P, A, t, m)
  <2> SUFFICES ASSUME NEW m \in r.out, SendingOK(P, A, r, m) PROVE SendingOK(P, A, t, m)
    BY DEF Sound, Leaves
  <2> QED
    BY <1>3 DEF SendingOK, Leaves
<1> QED
  BY <1>4, <1>5, <1>6, <1>7 DEF Faithful, Sound, HistoryOK, Leaves

\* An entry that holds a request is the one proposal made for its slot.
LEMMA OnlyProposal ==
  ASSUME NEW I, NEW P, NEW A, NEW r, Setting(I, P, A, r), NEW s \in Slot,
         r.log[s].request # NoCmd
  PROVE  /\ <<r.log[s].ballot, s, r.log[s].request>> \in P
         /\ r.log[s].ballot # 0 /\ ID(r.log[s].ballot) = r.id
         /\ r.log[s].command = r.log[s].request
         /\ \A p \in P : p[2] = s => p[1] = r.log[s].ballot /\ p[3] = r.log[s].request
<1> DEFINE e == r.log[s]
<1>1. e.ballot # 0 /\ ID(e.ballot) = r.id /\ e.command = e.request
  BY DEF Setting, Sound, HistoryOK, EntriesOK
<1>2. <<e.ballot, s, e.request>> \in P
  BY <1>1 DEF Setting, Good, ReplicaOK, LogOK, Proposed
<1>3. ASSUME NEW p \in P, p[2] = s
      PROVE  p[1] = e.ballot /\ p[3] = e.request
  <2> DEFINE q == <<e.ballot, s, e.request>>
  <2>1. q \in P /\ q[1] = e.ballot /\ q[2] = s /\ q[3] = e.request
    BY <1>2
  <2> HIDE DEF q
  <2>2. p[1] = q[1]
    BY <1>3, <2>1 DEF Setting, UncontestedIn
  <2>3. p[3] = q[3]
    BY <1>3, <2>1, <2>2 DEF Setting, Context, ProposalsOK
  <2> QED
    BY <2>1, <2>2, <2>3
<1> QED
  BY <1>1, <1>2, <1>3

\* Nothing that another node proposed is for a slot that holds a request.
LEMMA OthersElsewhere ==
  ASSUME NEW I, NEW P, NEW A, NEW r, Setting(I, P, A, r), NEW q, q # r.id,
         NEW s \in Slot, ProposedBy(P, q, s)
  PROVE  r.log[s].request = NoCmd
<1>1. PICK p \in P : p[2] = s /\ ID(p[1]) = q
  BY DEF ProposedBy
<1> SUFFICES ASSUME r.log[s].request # NoCmd PROVE FALSE
  OBVIOUS
<1>2. /\ <<r.log[s].ballot, s, r.log[s].request>> \in P
      /\ r.log[s].ballot # 0 /\ ID(r.log[s].ballot) = r.id
      /\ r.log[s].command = r.log[s].request
      /\ \A x \in P : x[2] = s => x[1] = r.log[s].ballot /\ x[3] = r.log[s].request
  BY ONLY OnlyProposal, Setting(I, P, A, r), s \in Slot, r.log[s].request # NoCmd
<1> QED
  BY <1>1, <1>2

\* The setting a handler leaves to the one it calls.
LEMMA SettingAfter ==
  ASSUME NEW I, NEW P, NEW A, NEW r, NEW t, Setting(I, P, A, r), Good(I, P, t), Faithful(P, A, r, t)
  PROVE  Setting(I, P, A, t)
BY DEF Setting, Faithful

\* LeavesFaithful in a setting.
LEMMA Unaffected ==
  ASSUME NEW I, NEW P, NEW A, NEW r, NEW t \in Replica, Setting(I, P, A, r),
         Leaves(P, A, r, t), HoldingOK(t)
  PROVE  Faithful(P, A, r, t)
<1>1. P \in SUBSET (Ballot \X Slot \X Cmd) /\ r \in Replica /\ Sound(P, A, r)
  BY DEF Setting, Context, Good
<1> QED
  BY <1>1, LeavesFaithful

LEMMA NothingDone ==
  ASSUME NEW I, NEW P, NEW A, NEW r, Setting(I, P, A, r)
  PROVE  Faithful(P, A, r, r)
BY SelfFaithful DEF Setting, Good

\* Two handlers in a setting.
LEMMA FaithfulChain ==
  ASSUME NEW I, NEW P, NEW A, NEW r, NEW s, NEW t, Good(I, P, r), Good(I, P, s), t \in Replica,
         Faithful(P, A, r, s), Faithful(P, A, s, t)
  PROVE  Faithful(P, A, r, t)
BY FaithfulTransitive DEF Good
-----------------------------------------------------------------------------
(* Sending.                                                                 *)

\* Sending.
LEMMA EmitFaithful ==
  ASSUME NEW I, NEW P, NEW A, NEW r, Setting(I, P, A, r), NEW ms \in SUBSET Message,
         \A m \in ms : SendingOK(P, A, r, m)
  PROVE  Faithful(P, A, r, Emit(r, ms))
<1> DEFINE t == Emit(r, ms)
<1>0. r \in Replica
  BY DEF Setting, Good
<1>1. t \in Replica
  BY <1>0, EmitFields
<1>2. /\ t.id = r.id /\ t.execute = r.execute /\ t.db = r.db /\ t.replies = r.replies
      /\ t.slot = r.slot /\ t.log = r.log /\ t.p3slots = r.p3slots /\ t.out = r.out \cup ms
  BY <1>0 DEF Emit, Replica
<1> HIDE DEF t
<1>3. \A m : SendingOK(P, A, r, m) => SendingOK(P, A, t, m)
  BY <1>2 DEF SendingOK, Asked
<1>4. r.slot <= t.slot
  BY <1>0, <1>2, MaxSlotAssumption DEF Replica
<1>5. Leaves(P, A, r, t) /\ HoldingOK(t)
  BY <1>2, <1>3, <1>4 DEF Leaves, Setting, Sound, HoldingOK
<1>6. Faithful(P, A, r, t)
  BY <1>1, <1>5, Unaffected
<1> QED
  BY <1>6 DEF t

\* A change of parts of the replica that the history does not mention.
LEMMA AsideFaithful ==
  ASSUME NEW I, NEW P, NEW A, NEW r, Setting(I, P, A, r), NEW t \in Replica,
         t.id = r.id, t.execute = r.execute, t.db = r.db, t.replies = r.replies,
         t.slot = r.slot, t.log = r.log, t.p3slots \subseteq r.p3slots,
         \A m \in t.out : m \in r.out \/ SendingOK(P, A, t, m)
  PROVE  Faithful(P, A, r, t)
<1>1. r.slot <= t.slot
  BY MaxSlotAssumption DEF Replica
<1>2. Leaves(P, A, r, t) /\ HoldingOK(t)
  BY <1>1 DEF Leaves, Setting, Sound, HoldingOK
<1> QED
  BY <1>2, Unaffected

\* forward.
LEMMA ForwardPendingFaithful ==
  ASSUME NEW I, NEW P, NEW A, NEW r, Setting(I, P, A, r)
  PROVE  Faithful(P, A, r, ForwardPending(r))
<1> DEFINE t == ForwardPending(r)
           ms == {[type |-> "Request", command |-> c, dst |-> {ID(r.ballot)}] : c \in Range(r.requests)}
<1>0. r \in Replica /\ Good(I, P, r)
  BY DEF Setting, Good
<1>1. t \in Replica
  BY <1>0, ForwardPendingGood DEF Good
<1>2. \A m \in ms : m.type = "Request"
  OBVIOUS
<1>3. /\ t.id = r.id /\ t.execute = r.execute /\ t.db = r.db /\ t.replies = r.replies
      /\ t.slot = r.slot /\ t.log = r.log /\ t.p3slots = r.p3slots /\ t.out = r.out \cup ms
  BY <1>0 DEF ForwardPending, Forward, Emit, Replica
<1> HIDE DEF t, ms
<1>4. \A m \in t.out : m \in r.out \/ SendingOK(P, A, t, m)
  BY <1>2, <1>3, PlainSending
<1>5. Faithful(P, A, r, t)
  BY <1>1, <1>3, <1>4, AsideFaithful
<1> QED
  BY <1>5 DEF t

\* sendRecoverRequest, for slots that hold no request.
LEMMA SendRecoverRequestFaithful ==
  ASSUME NEW I, NEW P, NEW A, NEW r, Setting(I, P, A, r), NEW b \in Ballot, NEW S, S \subseteq Asked(r)
  PROVE  Faithful(P, A, r, SendRecoverRequest(r, b, S))
<1> DEFINE ms == {[type |-> "RecoverRequest", slot |-> s, id |-> r.id, dst |-> {ID(b)}] : s \in S}
<1>1. S \subseteq Slot /\ r.id \in Node /\ ID(b) \in Int
  BY OwnerIsInt DEF Asked, Setting, Good, Replica
<1>2. ms \in SUBSET Message
  BY <1>1 DEF Message
<1>3. \A m \in ms : SendingOK(P, A, r, m)
  BY DEF SendingOK
<1> HIDE DEF ms
<1>4. Faithful(P, A, r, Emit(r, ms))
  BY <1>2, <1>3, EmitFaithful
<1> QED
  BY <1>4 DEF SendRecoverRequest, ms

\* A P3 with the slots collected for it, as the ticker or HandleP2b sends it.
LEMMA RoutedP3Sending ==
  ASSUME NEW P, NEW A, NEW r, Sound(P, A, r), NEW t, NEW p3, p3.slots \subseteq r.p3slots
  PROVE  \A m \in RoutedP3(r.id, p3) : SendingOK(P, A, t, m)
BY DEF RoutedP3, SendingOK, Relays, Sound, HistoryOK
-----------------------------------------------------------------------------
(* Executing.                                                               *)

\* Executing answers what the executed entries hold, with their commands.
LEMMA ExecutedFaithful ==
  ASSUME NEW I, NEW P, NEW A, NEW r, Setting(I, P, A, r), NEW end \in r.execute..(MaxSlot + 1),
         \A s \in r.execute..(end - 1) : s \in Slot, end <= r.slot + 1,
         Conserves(r, Executed(r, end))
  PROVE  Faithful(P, A, r, Executed(r, end))
<1> DEFINE t == Executed(r, end)
           done == r.execute..(end - 1)
           new == [i \in 1..(end - r.execute) |-> r.log[r.execute + i - 1].command]
<1>1. /\ r \in Replica /\ r.execute \in Nat /\ end \in Nat /\ end - r.execute \in Nat
      /\ r.db \in Seq(MaybeCmd) /\ Len(r.db) \in Nat
  <2>1. r \in Replica
    BY DEF Setting, Good
  <2>2. r.execute \in 0..(MaxSlot + 1) /\ r.db \in Seq(MaybeCmd) /\ Len(r.db) \in Nat
    BY <2>1, LengthIsNat DEF Replica
  <2> HIDE DEF t, new
  <2> QED
    BY <2>1, <2>2, MaxSlotAssumption
<1>2. /\ t.id = r.id /\ t.execute = end /\ t.slot = r.slot /\ t.p3slots = r.p3slots
      /\ t.out = r.out /\ t.db = r.db \o new
      /\ t.replies = r.replies \cup {<<r.log[s].request, r.log[s].command>> :
                                       s \in {x \in done : r.log[x].request # NoCmd}}
      /\ t.log = [s \in Slot |-> IF s \in done THEN [r.log[s] EXCEPT !.request = NoCmd]
                                               ELSE r.log[s]]
  BY <1>1 DEF Executed, Replica
<1>3. \A i \in 1..(end - r.execute) : r.execute + i - 1 \in done
  BY <1>1
<1>4. new \in Seq(MaybeCmd) /\ Len(new) = end - r.execute
  <2>1. \A i \in 1..(end - r.execute) : r.log[r.execute + i - 1].command \in MaybeCmd
    BY <1>1, <1>3 DEF Replica, LogEntry
  <2> DEFINE k == end - r.execute
             f(i) == r.log[r.execute + i - 1].command
  <2>2. k \in Nat /\ new = [i \in 1..k |-> f(i)] /\ \A i \in 1..k : f(i) \in MaybeCmd
    BY <1>1, <2>1
  <2> HIDE DEF f, k, new
  <2>3. new \in Seq(MaybeCmd) /\ Len(new) = k
    BY <2>2
  <2> QED
    BY <2>3 DEF k
<1>5. \A s \in Slot : /\ s \in done => t.log[s].request = NoCmd
                      /\ s \notin done => t.log[s] = r.log[s]
                      /\ t.log[s].ballot = r.log[s].ballot /\ t.log[s].command = r.log[s].command
  <2>1. \A e \in LogEntry : LET f == [e EXCEPT !.request = NoCmd]
                            IN  f.request = NoCmd /\ f.ballot = e.ballot /\ f.command = e.command
    BY DEF LogEntry
  <2>2. \A s \in Slot : r.log[s] \in LogEntry
    BY <1>1 DEF Replica
  <2>3. \A s \in Slot : t.log[s] = IF s \in done THEN [r.log[s] EXCEPT !.request = NoCmd]
                                                ELSE r.log[s]
    BY <1>2
  <2> HIDE DEF t, done, new
  <2> QED
    BY <2>1, <2>2, <2>3
<1>6. /\ Len(t.db) = Len(r.db) + (end - r.execute)
      /\ \A i \in 1..Len(r.db) : t.db[i] = r.db[i]
      /\ \A s \in done : t.db[Len(r.db) + (s - r.execute) + 1] = r.log[s].command
  <2>1. \A i \in 1..(end - r.execute) : new[i] = r.log[r.execute + i - 1].command
    OBVIOUS
  <2> DEFINE k == end - r.execute
  <2> HIDE DEF new, t
  <2>2. /\ Len(r.db \o new) = Len(r.db) + Len(new)
        /\ \A i \in 1..(Len(r.db) + Len(new)) :
             (r.db \o new)[i] = IF i <= Len(r.db) THEN r.db[i] ELSE new[i - Len(r.db)]
    BY <1>1, <1>4, ConcatProperties
  <2>3. /\ Len(t.db) = Len(r.db) + k /\ k \in Nat
        /\ \A i \in 1..(Len(r.db) + k) :
             t.db[i] = IF i <= Len(r.db) THEN r.db[i] ELSE new[i - Len(r.db)]
    BY <1>1, <1>2, <1>4, <2>2
  <2>4. \A i \in 1..Len(r.db) : i \in 1..(Len(r.db) + k) /\ i <= Len(r.db)
    BY <1>1, <2>3
  <2>5. ASSUME NEW s \in done
        PROVE  t.db[Len(r.db) + (s - r.execute) + 1] = r.log[s].command
    <3> DEFINE j == s - r.execute + 1
               i == Len(r.db) + (s - r.execute) + 1
    <3>1. j \in 1..k /\ r.execute + j - 1 = s /\ i \in 1..(Len(r.db) + k) /\ ~(i <= Len(r.db))
          /\ i - Len(r.db) = j
      <4>1. s \in Int /\ r.execute <= s /\ s <= end - 1
        BY <1>1
      <4>2. r.execute \in Int /\ end \in Int /\ Len(r.db) \in Int /\ 0 <= Len(r.db)
        BY <1>1
      <4>3. j \in 1..k
        BY <4>1, <4>2
      <4>4. r.execute + j - 1 = s
        BY <4>1, <4>2
      <4>6. i - Len(r.db) = j
        BY <4>1, <4>2
      <4>7. i \in 1..(Len(r.db) + k)
        BY <4>1, <4>2
      <4>8. ~(i <= Len(r.db))
        BY <4>1, <4>2
      <4> QED
        BY <4>3, <4>4, <4>6, <4>7, <4>8
    <3>2. t.db[i] = new[j]
      BY <2>3, <3>1
    <3>3. new[j] = r.log[r.execute + j - 1].command
      BY <2>1, <3>1
    <3> QED
      BY <3>1, <3>2, <3>3
  <2> QED
    BY <2>3, <2>4, <2>5
<1> HIDE DEF t, new
<1>7. HoldingOK(t)
  BY DEF Setting, Sound, Conserves, t
<1>8. Asked(r) \subseteq Asked(t)
  BY <1>2, <1>5 DEF Asked
<1>9. Serves(r, t)
  <2>1. ASSUME NEW x \in t.replies \ r.replies
        PROVE  \E i \in 1..Len(t.db) : i > Len(r.db) /\ t.db[i] = x[2]
    <3>1. PICK s \in done : x = <<r.log[s].request, r.log[s].command>>
      BY <1>2, <2>1
    <3> DEFINE i == Len(r.db) + (s - r.execute) + 1
    <3>2. i \in 1..Len(t.db) /\ i > Len(r.db)
      <4>1. s \in Int /\ r.execute <= s /\ s <= end - 1
        BY <1>1
      <4>2. /\ r.execute \in Int /\ end \in Int /\ Len(r.db) \in Nat
            /\ Len(t.db) = Len(r.db) + (end - r.execute)
        BY <1>1, <1>6
      <4> HIDE DEF done, t
      <4> QED
        BY <4>1, <4>2
    <3>3. t.db[i] = r.log[s].command /\ x[2] = r.log[s].command
      BY <1>6, <3>1
    <3> QED
      BY <3>2, <3>3
  <2>2. Len(r.db) <= Len(t.db)
    BY <1>1, <1>6
  <2> QED
    BY <1>2, <1>6, <1>8, <2>1, <2>2 DEF Serves
<1>10. EntriesOK(r) /\ PlacedOK(P, r)
  BY DEF Setting, Sound, HistoryOK
<1>11. EntriesOK(t)
  <2> SUFFICES ASSUME NEW s \in Slot, t.log[s].request # NoCmd
               PROVE  /\ t.log[s].ballot # 0 /\ ID(t.log[s].ballot) = t.id
                      /\ t.log[s].command = t.log[s].request
    BY DEF EntriesOK
  <2>1. t.log[s] = r.log[s]
    BY <1>5
  <2> QED
    BY <1>2, <1>10, <2>1 DEF EntriesOK
<1>12. PlacedOK(P, t)
  <2> SUFFICES ASSUME NEW p \in P, ID(p[1]) = t.id
               PROVE  \/ t.log[p[2]].request = p[3]
                      \/ p[2] < t.execute /\ <<p[3], p[3]>> \in t.replies
    BY DEF PlacedOK
  <2>1. p[2] \in Slot /\ p[2] \in Nat /\ p[3] # NoCmd
    BY CmdAssumption DEF Setting, Context, Slot
  <2>2. \/ r.log[p[2]].request = p[3]
        \/ p[2] < r.execute /\ <<p[3], p[3]>> \in r.replies
    BY <1>2, <1>10 DEF PlacedOK
  <2>3. CASE p[2] < r.execute /\ <<p[3], p[3]>> \in r.replies
    BY <1>1, <1>2, <2>1, <2>3
  <2>4. CASE r.log[p[2]].request = p[3] /\ p[2] \notin done
    BY <1>5, <2>1, <2>4
  <2>5. CASE r.log[p[2]].request = p[3] /\ p[2] \in done
    <3>1. r.log[p[2]].command = p[3]
      BY <1>10, <2>1, <2>5 DEF EntriesOK
    <3>2. <<p[3], p[3]>> \in t.replies
      BY <1>2, <2>1, <2>5, <3>1
    <3>3. p[2] < end
      BY <1>1, <2>5
    <3> QED
      BY <1>2, <3>2, <3>3
  <2> QED
    BY <2>2, <2>3, <2>4, <2>5
<1>13. \A x \in t.replies : x[1] = x[2]
  <2> SUFFICES ASSUME NEW x \in t.replies, x \notin r.replies PROVE x[1] = x[2]
    BY DEF Setting, Sound, HistoryOK
  <2>1. PICK s \in done : x = <<r.log[s].request, r.log[s].command>> /\ r.log[s].request # NoCmd
    BY <1>2
  <2>2. r.log[s].command = r.log[s].request
    BY <1>10, <2>1 DEF EntriesOK
  <2> QED
    BY <2>1, <2>2
<1>14. \A m \in t.out : SendingOK(P, A, t, m)
  <2> SUFFICES ASSUME NEW m \in r.out, SendingOK(P, A, r, m) PROVE SendingOK(P, A, t, m)
    BY <1>2 DEF Setting, Sound
  <2> QED
    BY <1>2, <1>8 DEF SendingOK
<1>15. \A s \in t.p3slots : ProposedBy(P, t.id, s)
  BY <1>2 DEF Setting, Sound, HistoryOK
<1> QED
  BY <1>7, <1>9, <1>11, <1>12, <1>13, <1>14, <1>15 DEF Faithful, Sound, HistoryOK, t

\* Blocking.
LEMMA HaltFaithful ==
  ASSUME NEW I, NEW P, NEW A, NEW r, Setting(I, P, A, r)
  PROVE  Faithful(P, A, r, [r EXCEPT !.halted = TRUE])
<1> DEFINE t == [r EXCEPT !.halted = TRUE]
<1>0. r \in Replica /\ Good(I, P, r)
  BY DEF Setting, Good
<1>1. t \in Replica
  BY <1>0, HaltGood DEF Good
<1>2. /\ t.id = r.id /\ t.execute = r.execute /\ t.db = r.db /\ t.replies = r.replies
      /\ t.slot = r.slot /\ t.log = r.log /\ t.p3slots = r.p3slots /\ t.out = r.out
  BY <1>0 DEF Replica
<1> HIDE DEF t
<1>3. Faithful(P, A, r, t)
  BY <1>1, <1>2, AsideFaithful
<1> QED
  BY <1>3 DEF t

\* Where exec stops, there is nothing to execute.
LEMMA NotExecutable ==
  ASSUME NEW r \in Replica, ExecuteEnd(r) \in Slot
  PROVE  ~Executable(r.log[ExecuteEnd(r)])
<1> DEFINE S == {s \in r.execute..(MaxSlot + 1) : s = MaxSlot + 1 \/ ~Executable(r.log[s])}
<1>1. r.execute \in 0..(MaxSlot + 1)
  BY DEF Replica
<1>2. S \in SUBSET Nat /\ MaxSlot + 1 \in S
  BY <1>1, MaxSlotAssumption
<1>3. Min(S) \in S
  BY <1>2, LeastElement
<1>4. Min(S) \in Slot => Min(S) # MaxSlot + 1
  BY MaxSlotAssumption DEF Slot
<1> QED
  BY <1>3, <1>4 DEF ExecuteEnd

\* exec answers what it executes, and asks only for a slot that holds no
\* request.
LEMMA ExecFaithful ==
  ASSUME NEW I, NEW P, NEW A, NEW r, Setting(I, P, A, r)
  PROVE  Faithful(P, A, r, Exec(r))
<1> DEFINE end == ExecuteEnd(r)
           t == Executed(r, end)
           u == Exec(r)
<1>1. /\ r \in Replica /\ Good(I, P, r) /\ HoldingOK(r) /\ r.ballot \in Ballot
      /\ r.slot \in Int /\ r.execute \in Nat
      /\ \A s \in Slot : s > r.slot => r.log[s].status = "none"
  <2>1. r \in Replica /\ Good(I, P, r) /\ HoldingOK(r)
    BY DEF Setting, Good, Sound
  <2>2. \A s \in Slot : s > r.slot => r.log[s].status = "none"
    BY <2>1 DEF Good, ReplicaOK, LogOK
  <2> QED
    BY <2>1, <2>2, NumbersTyped
<1>2. /\ end \in r.execute..(MaxSlot + 1)
      /\ \A s \in r.execute..(end - 1) : s \in Slot /\ r.log[s].status = "committed"
  BY <1>1, ExecuteEndFacts
<1>3. end <= r.slot + 1
  <2>1. r.execute \in Nat /\ end \in Nat /\ r.slot \in Int /\ r.execute <= r.slot + 1
    BY <1>1, <1>2 DEF HoldingOK
  <2>2. CASE end = r.execute
    BY <2>1, <2>2
  <2>3. CASE end # r.execute
    <3>1. end - 1 \in r.execute..(end - 1)
      BY <1>2, <2>1, <2>3
    <3>2. end - 1 \in Slot /\ r.log[end - 1].status # "none"
      BY <1>2, <3>1
    <3>3. ~(end - 1 > r.slot)
      BY <1>1, <3>2
    <3> QED
      BY <2>1, <3>3
  <2> QED
    BY <2>2, <2>3
<1>4. Good(I, P, t)
  BY <1>1, <1>2, ExecuteEndFacts, ExecutedGood
<1>5. Conserves(r, t)
  <2> HIDE DEF end
  <2> QED
    BY <1>1, <1>2, <1>3, ExecutedConserves
<1>6. Faithful(P, A, r, t)
  <2> HIDE DEF end
  <2> QED
    BY <1>2, <1>3, <1>5, ExecutedFaithful
<1>7. \/ u = t
      \/ u = [t EXCEPT !.halted = TRUE]
      \/ /\ u = SendRecoverRequest(t, r.ballot, {end})
         /\ end \in Slot /\ end + RecoverGap < r.slot /\ r.log[end].status = "committed"
  BY DEF Exec, Executed
<1>8. ASSUME end \in Slot, end + RecoverGap < r.slot, r.log[end].status = "committed"
      PROVE  {end} \subseteq Asked(t)
  <2>1. r.log[end].ballot = 0
    BY <1>1, <1>8, NotExecutable DEF Executable
  <2>2. r.log[end].request = NoCmd
    BY <1>8, <2>1 DEF Setting, Sound, HistoryOK, EntriesOK
  <2>3. end <= r.slot
    BY <1>1, <1>2, <1>8, RecoverGapAssumption
  <2>4. end \in Asked(r)
    BY <1>8, <2>2, <2>3 DEF Asked
  <2> HIDE DEF t, end
  <2> QED
    BY <1>6, <2>4 DEF Faithful, Serves
<1>9. t \in Replica
  BY <1>4 DEF Good
<1> HIDE DEF t, end, u
<1>10. Setting(I, P, A, t)
  BY <1>4, <1>6, SettingAfter
<1>11. u \in Replica
  BY <1>1, ExecGood DEF Good, u
<1>12. Faithful(P, A, t, u)
  BY <1>1, <1>7, <1>8, <1>10, NothingDone, HaltFaithful, SendRecoverRequestFaithful
<1>13. Faithful(P, A, r, u)
  BY <1>1, <1>4, <1>6, <1>11, <1>12, FaithfulChain
<1> QED
  BY <1>13 DEF u
-----------------------------------------------------------------------------
(* The handlers that propose nothing.                                       *)

Advances(I, P, A, r, t) == Good(I, P, t) /\ Faithful(P, A, r, t)

\* One handler after another.
LEMMA AdvancesOn ==
  ASSUME NEW I, NEW P, NEW A, NEW r, Setting(I, P, A, r), NEW s, Advances(I, P, A, r, s)
  PROVE  /\ Setting(I, P, A, s)
         /\ \A t : Advances(I, P, A, s, t) => Advances(I, P, A, r, t)
<1>1. Good(I, P, r) /\ Good(I, P, s) /\ Faithful(P, A, r, s)
  BY DEF Setting, Advances
<1>2. Setting(I, P, A, s)
  BY <1>1, SettingAfter
<1>3. ASSUME NEW t, Advances(I, P, A, s, t) PROVE Advances(I, P, A, r, t)
  BY <1>1, <1>3, FaithfulChain DEF Advances, Good
<1> QED
  BY <1>2, <1>3

\* On the way from r: t has been reached, and what it advances to r advances to.
Toward(I, P, A, r, t) ==
  /\ Setting(I, P, A, t) /\ t.id = r.id
  /\ \A u : Advances(I, P, A, t, u) => Advances(I, P, A, r, u)

LEMMA TowardNext ==
  ASSUME NEW I, NEW P, NEW A, NEW r, NEW s, Toward(I, P, A, r, s), NEW t, Advances(I, P, A, s, t)
  PROVE  Toward(I, P, A, r, t)
<1>1. Setting(I, P, A, s) /\ s.id = r.id
  BY DEF Toward
<1>2. Setting(I, P, A, t) /\ \A u : Advances(I, P, A, t, u) => Advances(I, P, A, s, u)
  BY <1>1, AdvancesOn
<1>3. t.id = s.id
  BY DEF Advances, Faithful, Serves
<1> QED
  BY <1>1, <1>2, <1>3 DEF Toward

\* A change of parts that the history does not mention, and messages.
LEMMA AsideAdvances ==
  ASSUME NEW I, NEW P, NEW A, NEW r, Setting(I, P, A, r), NEW t, Good(I, P, t),
         t.id = r.id, t.execute = r.execute, t.db = r.db, t.replies = r.replies,
         t.slot = r.slot, t.log = r.log, t.p3slots \subseteq r.p3slots,
         \A m \in t.out : m \in r.out \/ SendingOK(P, A, t, m)
  PROVE  Advances(I, P, A, r, t)
BY AsideFaithful DEF Advances, Good

LEMMA EmitAdvances ==
  ASSUME NEW I, NEW P, NEW A, NEW r, Setting(I, P, A, r), NEW ms, Good(I, P, Emit(r, ms)),
         \A m \in ms : SendingOK(P, A, r, m)
  PROVE  Advances(I, P, A, r, Emit(r, ms))
<1>1. ms \in SUBSET Message
  <2>1. r \in Replica /\ Emit(r, ms) \in Replica
    BY DEF Setting, Good
  <2>2. Emit(r, ms).out = r.out \cup ms
    BY <2>1 DEF Emit, Replica
  <2> QED
    BY <2>1, <2>2 DEF Replica
<1> QED
  BY <1>1, EmitFaithful DEF Advances

LEMMA StayAdvances ==
  ASSUME NEW I, NEW P, NEW A, NEW r, Setting(I, P, A, r)
  PROVE  Advances(I, P, A, r, r)
BY NothingDone DEF Advances, Setting

LEMMA ExecAdvances ==
  ASSUME NEW I, NEW P, NEW A, NEW r, Setting(I, P, A, r)
  PROVE  Advances(I, P, A, r, Exec(r))
BY ExecFaithful, ExecGood DEF Advances, Setting

LEMMA HaltAdvances ==
  ASSUME NEW I, NEW P, NEW A, NEW r, Setting(I, P, A, r)
  PROVE  Advances(I, P, A, r, [r EXCEPT !.halted = TRUE])
BY HaltFaithful, HaltGood DEF Advances, Setting

\* A higher ballot deposes the node.
LEMMA DeposedAdvances ==
  ASSUME NEW I, NEW P, NEW A, NEW r, Setting(I, P, A, r), NEW b, KnownBallot(I, b), b > r.ballot
  PROVE  Advances(I, P, A, r, ForwardPending([r EXCEPT !.ballot = b, !.active = FALSE]))
<1> DEFINE t == [r EXCEPT !.ballot = b, !.active = FALSE]
<1>1. Context(I, P) /\ Good(I, P, r) /\ r \in Replica
  BY DEF Setting, Good
<1>2. b \in I /\ ID(b) # r.id
  BY <1>1, HigherIsForeign
<1>3. Good(I, P, t)
  BY <1>1, <1>2, DeposedGood
<1>4. /\ t.id = r.id /\ t.execute = r.execute /\ t.db = r.db /\ t.replies = r.replies
      /\ t.slot = r.slot /\ t.log = r.log /\ t.p3slots = r.p3slots /\ t.out = r.out
  BY <1>1 DEF Replica
<1> HIDE DEF t
<1>5. Advances(I, P, A, r, t)
  BY <1>3, <1>4, AsideAdvances
<1>6. Advances(I, P, A, t, ForwardPending(t))
  BY <1>5, AdvancesOn, <1>3, ForwardPendingGood, ForwardPendingFaithful DEF Advances
<1>7. Advances(I, P, A, r, ForwardPending(t))
  BY <1>5, <1>6, AdvancesOn
<1> QED
  BY <1>7 DEF t

LEMMA HandleP1aAdvances ==
  ASSUME NEW I, NEW P, NEW A, NEW r, Setting(I, P, A, r), NEW b \in I
  PROVE  Advances(I, P, A, r, HandleP1a(r, b))
<1>1. KnownBallot(I, b)
  BY DEF KnownBallot
<1> QED
  BY <1>1, DeposedAdvances, StayAdvances DEF HandleP1a

\* P1a once more.
LEMMA RetryP1aAdvances ==
  ASSUME NEW I, NEW P, NEW A, NEW r, Setting(I, P, A, r), ID(r.ballot) = r.id
  PROVE  Advances(I, P, A, r, RetryP1a(r))
<1> DEFINE t == RetryP1a(r)
<1>1. r \in Replica /\ Good(I, P, r) /\ Context(I, P)
  BY DEF Setting, Good
<1>2. Good(I, P, t)
  BY <1>1, RetryP1aGood
<1>3. /\ t.id = r.id /\ t.execute = r.execute /\ t.db = r.db /\ t.replies = r.replies
      /\ t.slot = r.slot /\ t.log = r.log /\ t.p3slots = r.p3slots
      /\ t.out = r.out \cup RoutedP1a(r.id, r.ballot)
  BY <1>1 DEF RetryP1a, Emit, Replica
<1>4. \A m \in RoutedP1a(r.id, r.ballot) : SendingOK(P, A, t, m)
  BY PlainSending DEF RoutedP1a
<1> HIDE DEF t
<1>5. Advances(I, P, A, r, t)
  BY <1>2, <1>3, <1>4, AsideAdvances
<1> QED
  BY <1>5 DEF t

\* A P2a that carries no commits.
LEMMA EmptyP2aSending ==
  ASSUME NEW P, NEW A, NEW t, NEW n, NEW b, NEW s, NEW c
  PROVE  \A m \in RoutedP2a(n, b, s, c, NoP3) : SendingOK(P, A, t, m)
BY DEF RoutedP2a, SendingOK, NoP3

LEMMA RetryP2aAdvances ==
  ASSUME NEW I, NEW P, NEW A, NEW r, Setting(I, P, A, r), r.active, r.execute <= r.slot,
         r.log[r.execute].status = "open"
  PROVE  Advances(I, P, A, r, RetryP2a(r))
<1>1. Good(I, P, r) /\ Context(I, P)
  BY DEF Setting
<1>2. Good(I, P, RetryP2a(r))
  BY <1>1, RetryP2aGood
<1> QED
  BY <1>2, EmptyP2aSending, EmitAdvances DEF RetryP2a

\* update keeps the entries that hold a request: a P1b cannot tell of another
\* proposal for their slots.
LEMMA UpdateAdvances ==
  ASSUME NEW I, NEW P, NEW A, NEW r, Setting(I, P, A, r), ~r.active,
         NEW l \in [Slot -> CommandBallot], \A s \in Slot : Proposed(P, s, l[s])
  PROVE  Advances(I, P, A, r, Update(r, l))
<1> DEFINE t == Update(r, l)
           S == {s \in Slot : l[s].ballot # 0}
<1>1. r \in Replica /\ Good(I, P, r) /\ HoldingOK(r)
  BY DEF Setting, Good, Sound
<1>2. Good(I, P, t) /\ t \in Replica
  BY <1>1, UpdateGood DEF Good
<1>3. HoldingOK(t)
  BY <1>1, <1>2, UpdateConserves DEF Conserves
<1>4. /\ t.id = r.id /\ t.execute = r.execute /\ t.db = r.db /\ t.replies = r.replies
      /\ t.slot = Max({r.slot} \cup S) /\ t.p3slots = r.p3slots /\ t.out = r.out
      /\ \A s \in Slot : t.log[s] = Merge(r.log[s], l[s])
  BY <1>1 DEF Update, Replica
<1>5. r.slot <= t.slot
  <2>1. r.slot \in -1..MaxSlot /\ S \in SUBSET Slot
    BY <1>1 DEF Replica
  <2> HIDE DEF S, t
  <2> QED
    BY <1>4, <2>1, MaxSlotOf
<1>6. ASSUME NEW s \in Slot, r.log[s].request # NoCmd
      PROVE  t.log[s] = r.log[s]
  <2>1. /\ <<r.log[s].ballot, s, r.log[s].request>> \in P
        /\ r.log[s].ballot # 0 /\ ID(r.log[s].ballot) = r.id
        /\ r.log[s].command = r.log[s].request
        /\ \A p \in P : p[2] = s => p[1] = r.log[s].ballot /\ p[3] = r.log[s].request
    BY ONLY OnlyProposal, Setting(I, P, A, r), s \in Slot, r.log[s].request # NoCmd
  <2>2. l[s].ballot # 0 => l[s].ballot = r.log[s].ballot
    BY <2>1 DEF Proposed
  <2>3. r.log[s].status # "none"
    BY <1>1, <1>6 DEF HoldingOK
  <2>4. r.log[s].ballot \in Nat
    BY <1>1 DEF Replica, LogEntry, Ballot
  <2>5. Merge(r.log[s], l[s]) = r.log[s]
    BY <2>2, <2>3, <2>4 DEF Merge
  <2> QED
    BY <1>4, <2>5
<1>7. ASSUME NEW s \in Slot, r.log[s].request = NoCmd
      PROVE  t.log[s].request = NoCmd
  <2>1. r.log[s] \in LogEntry
    BY <1>1 DEF Replica
  <2>2. Merge(r.log[s], l[s]).request = NoCmd
    BY <1>7, <2>1 DEF Merge, Learned, NoEntry, LogEntry
  <2> QED
    BY <1>4, <2>2
<1> HIDE DEF t
<1>8. Leaves(P, A, r, t)
  BY <1>4, <1>5, <1>6, <1>7 DEF Leaves
<1>9. Faithful(P, A, r, t)
  BY <1>2, <1>3, <1>8, Unaffected
<1> QED
  BY <1>2, <1>9 DEF Advances, t

LEMMA UpdateLastExecuteAdvances ==
  ASSUME NEW I, NEW P, NEW A, NEW r, Setting(I, P, A, r), NEW q \in Node, NEW x \in -1..MaxSlot
  PROVE  Advances(I, P, A, r, UpdateLastExecuteByNode(r, q, x))
<1> DEFINE t == UpdateLastExecuteByNode(r, q, x)
<1>1. r \in Replica /\ Good(I, P, r)
  BY DEF Setting, Good
<1>2. Good(I, P, t)
  BY <1>1, UpdateLastExecuteGood
<1>3. /\ t.id = r.id /\ t.execute = r.execute /\ t.db = r.db /\ t.replies = r.replies
      /\ t.slot = r.slot /\ t.log = r.log /\ t.p3slots = r.p3slots /\ t.out = r.out
  BY <1>1 DEF UpdateLastExecuteByNode, Replica
<1> HIDE DEF t
<1>4. Advances(I, P, A, r, t)
  BY <1>2, <1>3, AsideAdvances
<1> QED
  BY <1>4 DEF t

\* CleanupLog removes executed entries only, and they hold no request.
LEMMA CleanupLogAdvances ==
  ASSUME NEW I, NEW P, NEW A, NEW r, Setting(I, P, A, r)
  PROVE  Advances(I, P, A, r, CleanupLog(r))
<1> DEFINE t == CleanupLog(r)
           marker == GetSafeLogCleanupMarker(r)
<1>1. r \in Replica /\ Good(I, P, r) /\ HoldingOK(r) /\ Context(I, P) /\ r.slot \in Int
  <2>1. r \in Replica /\ Good(I, P, r) /\ HoldingOK(r) /\ Context(I, P)
    BY DEF Setting, Good, Sound
  <2> QED
    BY <2>1, NumbersTyped
<1>2. Good(I, P, t) /\ t \in Replica
  BY <1>1, CleanupLogGood DEF Good
<1>3. HoldingOK(t)
  BY <1>1, CleanupLogConserves DEF Conserves
<1>4. marker \in Int /\ marker <= r.execute /\ r.execute \in Int
  <2>1. \A q \in Node : r.executeBy[q] # NotReported => r.executeBy[q] >= -1
    BY <1>1, MaxSlotAssumption DEF Replica, NotReported
  <2>2. r.execute \in Int
    BY <1>1, MaxSlotAssumption DEF Replica
  <2> QED
    BY <1>1, <2>1, <2>2, CleanupMarker, MaxSlotAssumption
<1>5. /\ t.id = r.id /\ t.execute = r.execute /\ t.db = r.db /\ t.replies = r.replies
      /\ t.slot = r.slot /\ t.p3slots = r.p3slots /\ t.out = r.out
      /\ \A s \in Slot : t.log[s] = IF s >= r.cleaned /\ s < marker THEN NoEntry ELSE r.log[s]
  BY <1>1 DEF CleanupLog, Replica
<1>6. ASSUME NEW s \in Slot
      PROVE  t.log[s] = r.log[s] \/ (t.log[s].request = NoCmd /\ r.log[s].request = NoCmd)
  <2>1. CASE s < marker
    <3>1. s < r.execute
      BY <1>4, <2>1, MaxSlotAssumption DEF Slot
    <3>2. r.log[s].request = NoCmd
      BY <1>1, <3>1 DEF HoldingOK
    <3>3. NoEntry.request = NoCmd
      BY DEF NoEntry
    <3> QED
      BY <1>5, <3>2, <3>3
  <2>2. CASE ~(s < marker)
    <3> HIDE DEF t, marker
    <3> QED
      BY <1>5, <2>2
  <2> QED
    BY <2>1, <2>2
<1> HIDE DEF t
<1>7. r.slot <= t.slot
  BY <1>1, <1>5
<1>8. Leaves(P, A, r, t)
  BY <1>5, <1>6, <1>7 DEF Leaves
<1>9. Faithful(P, A, r, t)
  BY <1>2, <1>3, <1>8, Unaffected
<1> QED
  BY <1>2, <1>9 DEF Advances, t

\* Entries that change with their proposals, and keep their requests.
LEMMA SlotsAdvance ==
  ASSUME NEW I, NEW P, NEW A, NEW r, Setting(I, P, A, r), NEW t \in Replica,
         t.id = r.id, t.ballot = r.ballot, t.active = r.active, t.execute = r.execute,
         t.db = r.db, t.replies = r.replies, t.out = r.out,
         t.p1bQueue = r.p1bQueue, t.p1bRelay = r.p1bRelay, t.p2bRelay = r.p2bRelay,
         r.slot <= t.slot,
         \A s \in t.p3slots : s \in r.p3slots \/ ProposedBy(P, r.id, s),
         \A s \in Slot :
           /\ \/ t.log[s].status = "none" /\ t.log[s].ballot = 0
              \/ /\ t.log[s].status = "committed" /\ s <= t.slot /\ Proposed(P, s, t.log[s])
              \/ /\ r.log[s].status = "open" /\ t.log[s].status = "open"
                 /\ t.log[s].ballot = r.log[s].ballot /\ t.log[s].command = r.log[s].command
              \/ t.log[s] = r.log[s]
           /\ t.log[s].request = r.log[s].request
           /\ t.log[s].status = "none" => r.log[s].status = "none"
           /\ r.log[s].request # NoCmd => /\ t.log[s].ballot = r.log[s].ballot
                                          /\ t.log[s].command = r.log[s].command
  PROVE  Advances(I, P, A, r, t)
<1>1. Context(I, P) /\ Good(I, P, r) /\ HoldingOK(r) /\ r \in Replica
  BY DEF Setting, Sound, Good
<1>2. Good(I, P, t)
  BY <1>1, LogChangeGood
<1>3. HoldingOK(t)
  <2>1. r.execute <= r.slot + 1 /\ r.execute \in Int /\ r.slot \in Int /\ t.slot \in Int
    BY <1>1, MaxSlotAssumption DEF HoldingOK, Replica
  <2>2. t.execute <= t.slot + 1
    BY <2>1
  <2> QED
    BY <1>1, <2>2 DEF HoldingOK
<1>4. Leaves(P, A, r, t)
  BY DEF Leaves
<1>5. Faithful(P, A, r, t)
  BY <1>3, <1>4, Unaffected
<1> QED
  BY <1>2, <1>5 DEF Advances

\* A proposal of another node is for a slot whose entry holds no request here.
LEMMA ForeignProposal ==
  ASSUME NEW I, NEW P, NEW A, NEW r, Setting(I, P, A, r), NEW s \in Slot, NEW b, NEW c,
         <<b, s, c>> \in P, ID(b) # r.id
  PROVE  r.log[s].request = NoCmd
<1> DEFINE p == <<b, s, c>>
<1>1. p \in P /\ p[2] = s /\ ID(p[1]) = ID(b)
  OBVIOUS
<1> HIDE DEF p
<1>2. ProposedBy(P, ID(b), s)
  BY <1>1 DEF ProposedBy
<1> QED
  BY <1>2, OthersElsewhere

\* HandleP2a displaces no request.
LEMMA HandleP2aAdvances ==
  ASSUME NEW I, NEW P, NEW A, NEW r, Setting(I, P, A, r), NEW m \in Message, m.type = "P2a",
         MsgOK(I, P, m), ID(m.ballot) # r.id
  PROVE  Advances(I, P, A, r, HandleP2a(r, m))
<1> DEFINE e == r.log[m.slot]
           f == Accept(e, m.ballot, m.command)
           t == HandleP2a(r, m)
<1>1. /\ r \in Replica /\ Good(I, P, r) /\ HoldingOK(r) /\ Context(I, P)
      /\ m.slot \in Slot /\ m.command \in Cmd /\ m.ballot \in Ballot
      /\ <<m.ballot, m.slot, m.command>> \in P
  BY P2aFields DEF Setting, Good, Sound, MsgOK
<1>2. e \in LogEntry /\ r.slot \in -1..MaxSlot
  BY <1>1 DEF Replica
<1>3. Good(I, P, t) /\ t \in Replica
  BY <1>1, HandleP2aGood DEF Good
<1>4. HoldingOK(t)
  BY <1>1, HandleP2aConserves DEF Conserves
<1>5. e.request = NoCmd
  BY <1>1, ForeignProposal
<1>6. f.request = NoCmd
  BY <1>2, <1>5 DEF Accept, Learned, NoEntry, LogEntry
<1>7. CASE m.ballot < r.ballot
  <2>1. t = r
    BY <1>7 DEF HandleP2a
  <2> QED
    BY <2>1, StayAdvances
<1>8. CASE ~(m.ballot < r.ballot)
  <2> DEFINE t1 == [r EXCEPT !.ballot = m.ballot, !.active = FALSE,
                             !.slot = Max({@, m.slot}), !.log[m.slot] = f]
  <2>1. t = Forward(t1, ID(m.ballot), {})
    BY <1>5, <1>8 DEF HandleP2a
  <2>2. {[type |-> "Request", command |-> c, dst |-> {ID(m.ballot)}] : c \in {}} = {}
    OBVIOUS
  <2>3. t = [t1 EXCEPT !.out = @ \cup {}]
    BY <2>1, <2>2 DEF Forward, Emit
  <2>4. /\ t.id = r.id /\ t.execute = r.execute /\ t.db = r.db /\ t.replies = r.replies
        /\ t.p3slots = r.p3slots /\ t.out = r.out /\ t.slot = Max({r.slot, m.slot})
        /\ \A s \in Slot : t.log[s] = IF s = m.slot THEN f ELSE r.log[s]
    BY <1>1, <2>3 DEF Replica
  <2> HIDE DEF t, f, t1
  <2>5. r.slot <= t.slot
    <3>1. {r.slot} \cup {m.slot} = {r.slot, m.slot}
      OBVIOUS
    <3>2. {m.slot} \in SUBSET Slot
      BY <1>1
    <3>3. r.slot <= Max({r.slot} \cup {m.slot})
      BY <1>2, <3>2, MaxSlotOf
    <3> QED
      BY <2>4, <3>1, <3>3
  <2>6. Leaves(P, A, r, t)
    BY <1>5, <1>6, <2>4, <2>5 DEF Leaves
  <2>7. Faithful(P, A, r, t)
    BY <1>3, <1>4, <2>6, Unaffected
  <2> QED
    BY <1>3, <2>7 DEF Advances, t
<1> QED
  BY <1>7, <1>8

\* HandleP2b broadcasts what the node proposed, and counts and commits what it
\* proposed.
LEMMA HandleP2bAdvances ==
  ASSUME NEW I, NEW P, NEW A, NEW r, Setting(I, P, A, r), NEW s \in Slot, NEW b,
         KnownBallot(I, b), NEW ids \in SUBSET Node
  PROVE  Advances(I, P, A, r, HandleP2b(r, s, b, ids))
<1> DEFINE e == r.log[s]
           p3 == [ballot |-> r.p3ballot, slots |-> r.p3slots]
           ms == RoutedP3(r.id, p3)
           d == [r EXCEPT !.ballot = b, !.active = FALSE]
           d1 == [d EXCEPT !.p3ballot = 0, !.p3slots = {}, !.p3started = TRUE]
           r1 == IF b > r.ballot THEN Emit(d1, ms) ELSE r
           q == e.quorum \cup ids
           r2 == [r1 EXCEPT !.log[s].quorum = q]
           r3 == [r2 EXCEPT !.log[s].status = "committed", !.p3slots = @ \cup {s}]
           h == HandleP2b(r, s, b, ids)
<1>1. /\ r \in Replica /\ e \in LogEntry /\ r.ballot \in Nat /\ Good(I, P, r) /\ Context(I, P)
      /\ r.slot \in Int /\ e.quorum \in SUBSET Node
  <2>1. r \in Replica /\ Good(I, P, r) /\ Context(I, P)
    BY DEF Setting, Good
  <2>2. e \in LogEntry /\ r.ballot \in Nat /\ r.slot \in Int
    BY <2>1, MaxSlotAssumption DEF Replica, Ballot
  <2> QED
    BY <2>1, <2>2 DEF LogEntry
<1>2. Advances(I, P, A, r, r1) /\ r1.log = r.log /\ r1.slot = r.slot /\ r1.id = r.id
  <2>1. CASE b > r.ballot
    <3>1. b \in I /\ ID(b) # r.id
      BY <1>1, <2>1, HigherIsForeign
    <3>2. Good(I, P, d)
      BY <1>1, <2>1, <3>1, DeposedGood
    <3>3. /\ d.id = r.id /\ d.execute = r.execute /\ d.db = r.db /\ d.replies = r.replies
          /\ d.slot = r.slot /\ d.log = r.log /\ d.p3slots = r.p3slots /\ d.out = r.out
      BY <1>1 DEF Replica
    <3> HIDE DEF d
    <3>4. d1 \in Replica /\ SameCore(d, d1)
      BY <3>2 DEF Good, Replica, SameCore, Ballot
    <3>5. Good(I, P, d1)
      BY <3>2, <3>4, SameCoreGood
    <3>6. /\ d1.id = r.id /\ d1.execute = r.execute /\ d1.db = r.db /\ d1.replies = r.replies
          /\ d1.slot = r.slot /\ d1.log = r.log /\ d1.p3slots = {} /\ d1.out = r.out
      BY <3>2, <3>3 DEF Good, Replica
    <3>7. p3 \in P3Info /\ r.id \in Node /\ p3.slots \subseteq r.p3slots
      BY <1>1 DEF Replica, P3Info
    <3> HIDE DEF d1, p3
    <3>8. \A m \in ms : m \in Message /\ MsgOK(I, P, m)
      BY <3>7, RoutedP3OK
    <3>9. Sound(P, A, r)
      BY DEF Setting
    <3>10. Good(I, P, Emit(d1, ms))
      BY <3>5, <3>8, EmitGood
    <3>11. /\ Emit(d1, ms).id = r.id /\ Emit(d1, ms).execute = r.execute /\ Emit(d1, ms).db = r.db
           /\ Emit(d1, ms).replies = r.replies /\ Emit(d1, ms).slot = r.slot
           /\ Emit(d1, ms).log = r.log /\ Emit(d1, ms).p3slots = {}
           /\ Emit(d1, ms).out = r.out \cup ms
      BY <3>4, <3>6 DEF Emit, Replica
    <3> DEFINE t == Emit(d1, ms)
    <3>12. \A m \in ms : SendingOK(P, A, t, m)
      BY <3>7, <3>9, RoutedP3Sending
    <3> HIDE DEF ms, t
    <3>13. Advances(I, P, A, r, t)
      BY <3>10, <3>11, <3>12, AsideAdvances DEF t
    <3> QED
      BY <2>1, <3>11, <3>13 DEF t
  <2>2. CASE ~(b > r.ballot)
    BY <2>2, StayAdvances
  <2> QED
    BY <2>1, <2>2
<1>3. \/ h = r \/ h = r1 \/ h = [r1 EXCEPT !.halted = TRUE]
      \/ e.status = "open" /\ h = r2
      \/ e.status = "open" /\ ID(b) = r.id /\ b = e.ballot /\ h = Exec(r3)
  <2>1. b > r.ballot => r1 = Emit([r EXCEPT !.ballot = b, !.active = FALSE, !.p3ballot = 0,
                                            !.p3slots = {}, !.p3started = TRUE], ms)
    BY <1>1 DEF Replica
  <2>2. ~(b > r.ballot) => r1 = r
    OBVIOUS
  <2> HIDE DEF r1
  <2>3. CASE b > r.ballot
    BY <2>1, <2>3 DEF HandleP2b
  <2>4. CASE ~(b > r.ballot)
    BY <2>2, <2>4 DEF HandleP2b
  <2> QED
    BY <2>3, <2>4
<1> HIDE DEF r1, h
<1>4. /\ Setting(I, P, A, r1) /\ r1 \in Replica /\ r1.log[s] = e
      /\ \A t : Advances(I, P, A, r1, t) => Advances(I, P, A, r, t)
  BY <1>2, AdvancesOn DEF Advances, Good
<1>5. ASSUME e.status = "open" PROVE Advances(I, P, A, r1, r2)
  <2> DEFINE f == [e EXCEPT !.quorum = q]
  <2>1. /\ f \in LogEntry /\ f.status = "open" /\ f.ballot = e.ballot /\ f.command = e.command
        /\ f.request = e.request
    BY <1>1, <1>5 DEF LogEntry
  <2>2. r2 = [r1 EXCEPT !.log = [r1.log EXCEPT ![s] = f]]
    BY <1>4 DEF Replica
  <2> HIDE DEF f, r2
  <2>3. r2 \in Replica
    BY <1>4, <2>1, <2>2 DEF Replica
  <2>4. /\ r2.id = r1.id /\ r2.ballot = r1.ballot /\ r2.active = r1.active
        /\ r2.execute = r1.execute /\ r2.p1bQueue = r1.p1bQueue /\ r2.p1bRelay = r1.p1bRelay
        /\ r2.p2bRelay = r1.p2bRelay /\ r2.out = r1.out /\ r2.slot = r1.slot
        /\ r2.db = r1.db /\ r2.replies = r1.replies /\ r2.p3slots = r1.p3slots
        /\ \A x \in Slot : r2.log[x] = IF x = s THEN f ELSE r1.log[x]
    BY <1>4, <2>2 DEF Replica
  <2>5. r1.slot <= r2.slot
    BY <1>1, <1>2, <2>4
  <2>6. \A x \in Slot :
          /\ \/ /\ r1.log[x].status = "open" /\ r2.log[x].status = "open"
                /\ r2.log[x].ballot = r1.log[x].ballot /\ r2.log[x].command = r1.log[x].command
             \/ r2.log[x] = r1.log[x]
          /\ r2.log[x].request = r1.log[x].request
          /\ r2.log[x].status = "none" => r1.log[x].status = "none"
          /\ r1.log[x].request # NoCmd => /\ r2.log[x].ballot = r1.log[x].ballot
                                          /\ r2.log[x].command = r1.log[x].command
    BY <1>4, <1>5, <2>1, <2>4
  <2> QED
    BY <1>4, <2>3, <2>4, <2>5, <2>6, SlotsAdvance
<1>6. ASSUME e.status = "open", ID(b) = r.id, b = e.ballot PROVE Advances(I, P, A, r1, r3)
  <2> DEFINE f == [e EXCEPT !.quorum = q, !.status = "committed"]
             ps == r1.p3slots \cup {s}
  <2>1. /\ f \in LogEntry /\ f.status = "committed" /\ f.ballot = e.ballot /\ f.command = e.command
        /\ f.request = e.request
    BY <1>1 DEF LogEntry
  <2>2. r3.log = [r1.log EXCEPT ![s] = f]
    BY <1>1, <1>4 DEF Replica, LogEntry
  <2>3. r3 = [r1 EXCEPT !.log = [r1.log EXCEPT ![s] = f], !.p3slots = ps]
    BY <1>4, <2>2 DEF Replica
  <2>4. ps \in SUBSET Slot
    BY <1>4 DEF Replica
  <2>5. Proposed(P, s, e) /\ s <= r1.slot /\ e.ballot # 0
    <3>1. Proposed(P, s, e) /\ ~(s > r.slot) /\ e.ballot # 0
      BY <1>1, <1>6 DEF Good, ReplicaOK, LogOK
    <3> QED
      BY <1>1, <1>2, <3>1, MaxSlotAssumption DEF Slot
  <2>6. ProposedBy(P, r1.id, s)
    <3> DEFINE p == <<e.ballot, s, e.command>>
    <3>1. p \in P /\ p[2] = s /\ ID(p[1]) = r1.id
      BY <1>2, <1>6, <2>5 DEF Proposed
    <3> HIDE DEF p
    <3> QED
      BY <3>1 DEF ProposedBy
  <2> HIDE DEF r3, f, ps
  <2>7. r3 \in Replica
    BY <1>4, <2>1, <2>3, <2>4 DEF Replica
  <2>8. /\ r3.id = r1.id /\ r3.ballot = r1.ballot /\ r3.active = r1.active
        /\ r3.execute = r1.execute /\ r3.p1bQueue = r1.p1bQueue /\ r3.p1bRelay = r1.p1bRelay
        /\ r3.p2bRelay = r1.p2bRelay /\ r3.out = r1.out /\ r3.slot = r1.slot
        /\ r3.db = r1.db /\ r3.replies = r1.replies /\ r3.p3slots = ps
        /\ \A x \in Slot : r3.log[x] = IF x = s THEN f ELSE r1.log[x]
    BY <1>4, <2>3 DEF Replica
  <2>9. r1.slot <= r3.slot
    BY <1>1, <1>2, <2>8
  <2>10. \A x \in ps : x \in r1.p3slots \/ ProposedBy(P, r1.id, x)
    BY <2>6 DEF ps
  <2>11. \A x \in Slot :
          /\ \/ r3.log[x].status = "committed" /\ x <= r3.slot /\ Proposed(P, x, r3.log[x])
             \/ r3.log[x] = r1.log[x]
          /\ r3.log[x].request = r1.log[x].request
          /\ r3.log[x].status = "none" => r1.log[x].status = "none"
          /\ r1.log[x].request # NoCmd => /\ r3.log[x].ballot = r1.log[x].ballot
                                          /\ r3.log[x].command = r1.log[x].command
    BY <1>4, <2>1, <2>5, <2>8 DEF Proposed
  <2> QED
    BY <1>4, <2>7, <2>8, <2>9, <2>10, <2>11, SlotsAdvance
<1> HIDE DEF r2, r3
<1>7. Advances(I, P, A, r1, [r1 EXCEPT !.halted = TRUE])
  BY <1>4, HaltAdvances
<1>8. ASSUME e.status = "open", ID(b) = r.id, b = e.ballot PROVE Advances(I, P, A, r1, Exec(r3))
  <2>1. Setting(I, P, A, r3) /\ \A t : Advances(I, P, A, r3, t) => Advances(I, P, A, r1, t)
    BY <1>4, <1>6, <1>8, AdvancesOn
  <2> QED
    BY <2>1, ExecAdvances
<1>9. Advances(I, P, A, r, r)
  BY StayAdvances
<1>10. Advances(I, P, A, r, h)
  BY <1>2, <1>3, <1>4, <1>5, <1>7, <1>8, <1>9
<1> QED
  BY <1>10 DEF h

LEMMA EmitNothing ==
  ASSUME NEW r \in Replica
  PROVE  Emit(r, {}) = r
BY DEF Emit, Replica

\* HandleP3 commits what another node proposed: nothing is stale.
LEMMA HandleP3Advances ==
  ASSUME NEW I, NEW P, NEW A, NEW r, Setting(I, P, A, r), NEW p3 \in P3Info, NEW q, q # r.id,
         \A s \in p3.slots : ProposedBy(P, q, s)
  PROVE  Advances(I, P, A, r, HandleP3(r, p3))
<1> DEFINE stale == {s \in p3.slots : /\ r.log[s].status # "none"
                                      /\ r.log[s].ballot # p3.ballot
                                      /\ r.log[s].request # NoCmd}
           l == [s \in Slot |-> IF s \in p3.slots THEN Commit(r.log[s], p3.ballot) ELSE r.log[s]]
           r1 == [r EXCEPT !.slot = Max({@} \cup p3.slots), !.log = l]
<1>1. /\ r \in Replica /\ r.slot \in -1..MaxSlot /\ p3.slots \in SUBSET Slot
      /\ p3.ballot \in Ballot /\ \A s \in Slot : r.log[s] \in LogEntry
      /\ Good(I, P, r) /\ HoldingOK(r)
  BY DEF Setting, Good, Sound, Replica, P3Info
<1>2. /\ Max({r.slot} \cup p3.slots) \in -1..MaxSlot /\ r.slot <= Max({r.slot} \cup p3.slots)
      /\ \A s \in p3.slots : s <= Max({r.slot} \cup p3.slots)
  BY <1>1, MaxSlotOf
<1>3. l \in [Slot -> LogEntry]
  BY <1>1, CommitFacts
<1>4. \A s \in p3.slots : r.log[s].request = NoCmd
  BY <1>1, OthersElsewhere
<1>5. stale = {}
  BY <1>4
<1>6. HandleP3(r, p3) = Exec(r1)
  <2>1. HandleP3(r, p3) = Exec(SendRecoverRequest(Forward(r1, ID(p3.ballot), {r.log[s].request : s \in stale}),
                                                  p3.ballot, stale))
    BY DEF HandleP3
  <2>2. r1 \in Replica
    BY <1>1, <1>2, <1>3 DEF Replica
  <2> HIDE DEF stale, r1
  <2>3. Forward(r1, ID(p3.ballot), {r.log[s].request : s \in stale}) = Emit(r1, {})
    BY <1>5 DEF Forward
  <2>4. SendRecoverRequest(r1, p3.ballot, stale) = Emit(r1, {})
    BY <1>5 DEF SendRecoverRequest
  <2> QED
    BY <2>1, <2>2, <2>3, <2>4, EmitNothing
<1>7. r1 \in Replica
  BY <1>1, <1>2, <1>3 DEF Replica
<1>8. /\ r1.id = r.id /\ r1.ballot = r.ballot /\ r1.active = r.active /\ r1.execute = r.execute
      /\ r1.p1bQueue = r.p1bQueue /\ r1.p1bRelay = r.p1bRelay /\ r1.p2bRelay = r.p2bRelay
      /\ r1.out = r.out /\ r1.slot = Max({r.slot} \cup p3.slots) /\ r1.log = l
      /\ r1.db = r.db /\ r1.replies = r.replies /\ r1.p3slots = r.p3slots
  BY <1>1 DEF Replica
<1>9. ASSUME NEW s \in Slot
      PROVE  /\ \/ /\ r1.log[s].status = "committed" /\ s <= r1.slot /\ Proposed(P, s, r1.log[s])
                \/ /\ r.log[s].status = "open" /\ r1.log[s].status = "open"
                   /\ r1.log[s].ballot = r.log[s].ballot /\ r1.log[s].command = r.log[s].command
                \/ r1.log[s].status = "none" /\ r1.log[s].ballot = 0
                \/ r1.log[s] = r.log[s]
             /\ r1.log[s].request = r.log[s].request
             /\ r1.log[s].status = "none" => r.log[s].status = "none"
             /\ r.log[s].request # NoCmd => /\ r1.log[s].ballot = r.log[s].ballot
                                            /\ r1.log[s].command = r.log[s].command
  <2>1. CASE s \notin p3.slots
    BY <1>8, <2>1
  <2>2. CASE s \in p3.slots
    <3> DEFINE e == r.log[s]
               f == Commit(e, p3.ballot)
    <3>1. r1.log[s] = f /\ s <= r1.slot /\ e.request = NoCmd
      BY <1>2, <1>4, <1>8, <2>2
    <3>2. /\ \/ e.status = "none" /\ f = Placeholder
             \/ /\ f.ballot = e.ballot /\ f.command = e.command /\ e.status # "none"
                /\ f.status = "committed" \/ f.status = e.status
      BY <1>1, CommitFacts
    <3>3. Placeholder.status = "committed" /\ Placeholder.ballot = 0
      BY DEF Placeholder, NoEntry
    <3>4. Proposed(P, s, e) /\ e.status \in {"none", "open", "committed"}
      BY <1>1 DEF Good, ReplicaOK, LogOK, LogEntry
    <3>5. Proposed(P, s, f)
      BY <3>2, <3>3, <3>4 DEF Proposed
    <3>6. f.request = NoCmd
      <4>1. e \in LogEntry /\ (e.status = "none" => e.request = NoCmd)
        BY <1>1, <3>1
      <4> HIDE DEF e
      <4> QED
        BY <3>1, <4>1, CommitRequest
    <3> HIDE DEF f
    <3> QED
      BY <3>1, <3>2, <3>3, <3>4, <3>5, <3>6
  <2> QED
    BY <2>1, <2>2
<1> HIDE DEF r1
<1>10. r.slot <= r1.slot
  BY <1>2, <1>8
<1>11. Advances(I, P, A, r, r1)
  BY <1>7, <1>8, <1>9, <1>10, SlotsAdvance
<1>12. Advances(I, P, A, r, Exec(r1))
  <2>1. Setting(I, P, A, r1) /\ \A t : Advances(I, P, A, r1, t) => Advances(I, P, A, r, t)
    BY <1>11, AdvancesOn
  <2> QED
    BY <2>1, ExecAdvances
<1> QED
  BY <1>6, <1>12

\* HandleP3RecoverRequest answers a node that asked.
LEMMA HandleP3RecoverRequestAdvances ==
  ASSUME NEW I, NEW P, NEW A, NEW r, Setting(I, P, A, r), NEW s \in Slot, NEW id \in Node,
         s \in A[id]
  PROVE  Advances(I, P, A, r, HandleP3RecoverRequest(r, s, id))
<1> DEFINE e == r.log[s]
           answer == [type |-> "RecoverReply", ballot |-> e.ballot, slot |-> s,
                      command |-> e.command, dst |-> {id}]
           r1 == Emit(r, {answer})
<1>1. r \in Replica /\ e \in LogEntry /\ Proposed(P, s, e) /\ Good(I, P, r)
  BY DEF Setting, Good, Replica, ReplicaOK, LogOK
<1>2. answer \in Message /\ MsgOK(I, P, answer) /\ SendingOK(P, A, r, answer)
  BY <1>1 DEF Message, MsgOK, Proposed, LogEntry, SendingOK
<1>3. HandleP3RecoverRequest(r, s, id) \in {Exec(r), Exec(r1)}
  BY DEF HandleP3RecoverRequest
<1> HIDE DEF answer
<1>4. Good(I, P, r1)
  BY <1>1, <1>2, EmitGood
<1>5. Advances(I, P, A, r, r1)
  BY <1>2, <1>4, EmitAdvances
<1> HIDE DEF r1
<1>6. Advances(I, P, A, r, Exec(r1))
  <2>1. Setting(I, P, A, r1) /\ \A t : Advances(I, P, A, r1, t) => Advances(I, P, A, r, t)
    BY <1>5, AdvancesOn
  <2> QED
    BY <2>1, ExecAdvances
<1> QED
  BY <1>3, <1>6, ExecAdvances

\* HandleP3RecoverReply fills a slot that holds no request.
LEMMA HandleP3RecoverReplyAdvances ==
  ASSUME NEW I, NEW P, NEW A, NEW r, Setting(I, P, A, r), NEW m \in Message,
         m.type = "RecoverReply", MsgOK(I, P, m), m.slot \in Asked(r)
  PROVE  Advances(I, P, A, r, HandleP3RecoverReply(r, m))
<1> DEFINE e == r.log[m.slot]
           f == IF e.status = "none" THEN e
                ELSE [e EXCEPT !.status = "committed", !.ballot = m.ballot, !.command = m.command]
           r1 == [r EXCEPT !.slot = Max({@, m.slot}), !.log[m.slot] = f]
<1>1. /\ m.slot \in Slot /\ m.ballot \in Ballot /\ m.command \in MaybeCmd
      /\ Proposed(P, m.slot, m) /\ e.request = NoCmd
  BY DEF Message, MsgOK, Asked
<1>2. r \in Replica /\ r.slot \in -1..MaxSlot /\ e \in LogEntry
  BY <1>1 DEF Setting, Good, Replica
<1>3. /\ f \in LogEntry /\ f.request = NoCmd /\ (f.status = "none" => e.status = "none")
      /\ (f = e \/ (f.status = "committed" /\ f.ballot = m.ballot /\ f.command = m.command))
  BY <1>1, <1>2 DEF LogEntry
<1>4. /\ Max({r.slot, m.slot}) \in -1..MaxSlot /\ r.slot <= Max({r.slot, m.slot})
      /\ m.slot <= Max({r.slot, m.slot})
  <2>1. {r.slot} \cup {m.slot} = {r.slot, m.slot}
    OBVIOUS
  <2> QED
    BY <1>1, <1>2, <2>1, MaxSlotOf
<1>5. HandleP3RecoverReply(r, m) = Exec(r1)
  BY DEF HandleP3RecoverReply
<1> HIDE DEF f
<1>6. r1 \in Replica
  BY <1>1, <1>2, <1>3, <1>4 DEF Replica
<1>7. /\ r1.id = r.id /\ r1.ballot = r.ballot /\ r1.active = r.active /\ r1.execute = r.execute
      /\ r1.p1bQueue = r.p1bQueue /\ r1.p1bRelay = r.p1bRelay /\ r1.p2bRelay = r.p2bRelay
      /\ r1.out = r.out /\ r1.slot = Max({r.slot, m.slot})
      /\ r1.db = r.db /\ r1.replies = r.replies /\ r1.p3slots = r.p3slots
      /\ \A s \in Slot : r1.log[s] = IF s = m.slot THEN f ELSE r.log[s]
  BY <1>2 DEF Replica
<1> HIDE DEF r1
<1>8. r.slot <= r1.slot
  BY <1>4, <1>7
<1>9. \A s \in Slot :
        /\ \/ r1.log[s].status = "committed" /\ s <= r1.slot /\ Proposed(P, s, r1.log[s])
           \/ r1.log[s] = r.log[s]
        /\ r1.log[s].request = r.log[s].request
        /\ r1.log[s].status = "none" => r.log[s].status = "none"
        /\ r.log[s].request # NoCmd => /\ r1.log[s].ballot = r.log[s].ballot
                                       /\ r1.log[s].command = r.log[s].command
  BY <1>1, <1>3, <1>4, <1>7 DEF Proposed
<1>10. Advances(I, P, A, r, r1)
  BY <1>6, <1>7, <1>8, <1>9, SlotsAdvance
<1>11. Advances(I, P, A, r, Exec(r1))
  <2>1. Setting(I, P, A, r1) /\ \A t : Advances(I, P, A, r1, t) => Advances(I, P, A, r, t)
    BY <1>10, AdvancesOn
  <2> QED
    BY <2>1, ExecAdvances
<1> QED
  BY <1>5, <1>11
-----------------------------------------------------------------------------
(* The relays.                                                              *)

\* BroadcastToPeerGroup passes on what the sender says of its own proposals.
LEMMA PropagateAdvances ==
  ASSUME NEW I, NEW P, NEW A, NEW r, Setting(I, P, A, r), NEW m \in Message, MsgOK(I, P, m),
         MsgPlaced(P, A, m), m.type \in {"P1a", "P2a", "P3"}
  PROVE  Advances(I, P, A, r, Propagate(r, m))
<1> DEFINE x(q) == [m EXCEPT !.via = r.id, !.dst = {q}]
           ms == {x(q) : q \in GroupOf(r.id) \ {r.id, m.src}}
<1>1. Good(I, P, r) /\ Good(I, P, Propagate(r, m))
  BY PropagateGood DEF Setting
<1>2. ASSUME NEW q, q # m.src PROVE SendingOK(P, A, r, x(q))
  <2>1. CASE m.type = "P1a"
    <3>1. x(q).type = "P1a"
      BY <2>1 DEF Message
    <3> QED
      BY <3>1, PlainSending
  <2>2. CASE m.type = "P2a"
    <3>1. x(q).type = "P2a" /\ x(q).p3 = m.p3 /\ x(q).src = m.src
      BY <2>2 DEF Message
    <3> HIDE DEF x
    <3> QED
      BY <2>2, <3>1 DEF SendingOK, MsgPlaced
  <2>3. CASE m.type = "P3"
    <3>1. x(q).type = "P3" /\ x(q).p3 = m.p3 /\ x(q).src = m.src /\ x(q).dst = {q}
      BY <2>3 DEF Message
    <3> HIDE DEF x
    <3> QED
      BY <1>2, <2>3, <3>1 DEF SendingOK, MsgPlaced
  <2> QED
    BY <2>1, <2>2, <2>3
<1>3. \A y \in ms : SendingOK(P, A, r, y)
  BY <1>2
<1>4. Propagate(r, m) = Emit(r, ms)
  BY DEF Propagate
<1> HIDE DEF ms
<1> QED
  BY <1>1, <1>3, <1>4, EmitAdvances

\* Sending the collected P1b's to the candidate.
LEMMA FlushP1bAdvances ==
  ASSUME NEW I, NEW P, NEW A, NEW r, Setting(I, P, A, r), r.p1bRelay.pending,
         NEW p1bs \in Seq(P1bRecord), P1bSeqOK(I, P, p1bs)
  PROVE  Advances(I, P, A, r, FlushP1b(r, p1bs))
<1> DEFINE t == FlushP1b(r, p1bs)
           a == [type |-> "P1bs", p1bs |-> p1bs, dst |-> {r.p1bRelay.hop}]
<1>1. r \in Replica /\ Good(I, P, r)
  BY DEF Setting, Good
<1>2. Good(I, P, t)
  BY <1>1, FlushP1bGood
<1>3. /\ t.id = r.id /\ t.execute = r.execute /\ t.db = r.db /\ t.replies = r.replies
      /\ t.slot = r.slot /\ t.log = r.log /\ t.p3slots = r.p3slots /\ t.out = r.out \cup {a}
  BY <1>1 DEF FlushP1b, Emit, Replica
<1>4. SendingOK(P, A, t, a)
  BY PlainSending
<1> HIDE DEF t, a
<1>5. Advances(I, P, A, r, t)
  BY <1>2, <1>3, <1>4, AsideAdvances
<1> QED
  BY <1>5 DEF t

\* handleP1bRelay.
LEMMA HandleP1bRelayAdvances ==
  ASSUME NEW I, NEW P, NEW A, NEW r, Setting(I, P, A, r), r.p1bRelay.pending,
         NEW p \in P1bRecord, P1bOK(I, P, p)
  PROVE  Advances(I, P, A, r, HandleP1bRelay(r, p))
<1> DEFINE p1bs == Append(r.p1bRelay.p1bs, p)
           a == [type |-> "P1bs", p1bs |-> p1bs, dst |-> {r.p1bRelay.hop}]
           t == HandleP1bRelay(r, p)
<1>1. r \in Replica /\ Good(I, P, r)
  BY DEF Setting, Good
<1>2. Good(I, P, t)
  BY <1>1, HandleP1bRelayGood
<1>3. t = FlushP1b(r, p1bs) \/ t = [r EXCEPT !.p1bRelay.p1bs = p1bs]
  BY DEF HandleP1bRelay
<1> HIDE DEF t
<1>4. /\ t.id = r.id /\ t.execute = r.execute /\ t.db = r.db /\ t.replies = r.replies
      /\ t.slot = r.slot /\ t.log = r.log /\ t.p3slots = r.p3slots
      /\ t.out = r.out \cup {a} \/ t.out = r.out
  BY <1>1, <1>3 DEF FlushP1b, Emit, Replica
<1>5. SendingOK(P, A, t, a)
  BY PlainSending
<1> HIDE DEF a
<1>6. Advances(I, P, A, r, t)
  BY <1>2, <1>4, <1>5, AsideAdvances
<1> QED
  BY <1>6 DEF t

\* A leaf answers a P1a.
LEMMA HandleP1aLeafAdvances ==
  ASSUME NEW I, NEW P, NEW A, NEW r, Setting(I, P, A, r), NEW m \in Message, m.type = "P1a",
         MsgOK(I, P, m), m.via # 0
  PROVE  Advances(I, P, A, r, HandleP1aLeaf(r, m))
<1> DEFINE r1 == HandleP1a(r, m.ballot)
           a == [type |-> "P1b", p1b |-> P1bOf(r1), dst |-> {m.via}]
           t == HandleP1aLeaf(r, m)
<1>1. m.ballot \in I /\ Good(I, P, r) /\ Context(I, P)
  BY DEF MsgOK, Setting
<1>2. Good(I, P, t)
  BY <1>1, HandleP1aLeafGood
<1>3. t = Emit(r1, {a})
  BY DEF HandleP1aLeaf
<1>4. Setting(I, P, A, r1) /\ \A u : Advances(I, P, A, r1, u) => Advances(I, P, A, r, u)
  BY <1>1, HandleP1aAdvances, AdvancesOn
<1>5. SendingOK(P, A, r1, a)
  BY PlainSending
<1> HIDE DEF r1, a, t
<1>6. Advances(I, P, A, r1, t)
  BY <1>2, <1>3, <1>4, <1>5, EmitAdvances
<1> QED
  BY <1>4, <1>6 DEF t

\* A nack, and the votes a relay sends.
LEMMA SendNackOut ==
  ASSUME NEW r \in Replica, NEW b, NEW s, NEW id
  PROVE  \A m \in SendNack(r, b, s, id).out : m \in r.out \/ m.type = "P2b"
BY DEF SendNack, Emit, Replica

LEMMA FlushP2bOut ==
  ASSUME NEW r \in Replica, NEW s, NEW ids, NEW missing
  PROVE  \A m \in FlushP2b(r, s, ids, missing).out :
           m \in r.out \/ m.type \in {"P2b", "P2bAggregated"}
BY DEF FlushP2b, Emit, Replica

\* Answers about votes speak of no commit.
LEMMA VoteSending ==
  ASSUME NEW P, NEW A, NEW t, NEW m, m.type \in {"P2b", "P2bAggregated"}
  PROVE  SendingOK(P, A, t, m)
BY DEF SendingOK

\* Sending the collected votes to the leader.
LEMMA FlushP2bAdvances ==
  ASSUME NEW I, NEW P, NEW A, NEW r, Setting(I, P, A, r), NEW s \in Slot, r.p2bRelay[s].pending,
         NEW ids \in Seq(Node), NEW missing \in SUBSET Node
  PROVE  Advances(I, P, A, r, FlushP2b(r, s, ids, missing))
<1> DEFINE t == FlushP2b(r, s, ids, missing)
<1>1. r \in Replica /\ Good(I, P, r) /\ Context(I, P)
  BY DEF Setting, Good
<1>2. Good(I, P, t)
  BY <1>1, FlushP2bGood
<1>3. /\ t.id = r.id /\ t.execute = r.execute /\ t.db = r.db /\ t.replies = r.replies
      /\ t.slot = r.slot /\ t.log = r.log /\ t.p3slots = r.p3slots
  BY <1>1 DEF FlushP2b, Emit, Replica
<1>4. \A m \in t.out : m \in r.out \/ m.type \in {"P2b", "P2bAggregated"}
  BY <1>1, FlushP2bOut
<1> HIDE DEF t
<1>5. Advances(I, P, A, r, t)
  BY <1>2, <1>3, <1>4, VoteSending, AsideAdvances
<1> QED
  BY <1>5 DEF t

\* handleP2bRelay.
LEMMA HandleP2bRelayAdvances ==
  ASSUME NEW I, NEW P, NEW A, NEW r, Setting(I, P, A, r), NEW b, KnownBallot(I, b),
         NEW s \in Slot, NEW ids \in Seq(Node)
  PROVE  Advances(I, P, A, r, HandleP2bRelay(r, b, s, ids))
<1> DEFINE c == r.p2bRelay[s]
           all == c.ids \o ids
           missing == IF RelaySlack > 0 THEN ComputeMissingIDsForP2b(r, all) ELSE {}
           t == HandleP2bRelay(r, b, s, ids)
<1>1. r \in Replica /\ Good(I, P, r) /\ Context(I, P)
  BY DEF Setting, Good
<1>2. Good(I, P, t)
  BY <1>1, HandleP2bRelayGood
<1>3. \/ t = r \/ t = SendNack(r, b, s, ID(c.ballot)) \/ t = FlushP2b(r, s, all, missing)
      \/ t = [r EXCEPT !.p2bRelay[s].ids = all]
  BY DEF HandleP2bRelay
<1> HIDE DEF t
<1>4. /\ t.id = r.id /\ t.execute = r.execute /\ t.db = r.db /\ t.replies = r.replies
      /\ t.slot = r.slot /\ t.log = r.log /\ t.p3slots = r.p3slots
  <2> HIDE DEF all, missing, c
  <2> QED
    BY <1>1, <1>3 DEF FlushP2b, SendNack, Emit, Replica
<1>5. \A m \in t.out : m \in r.out \/ m.type \in {"P2b", "P2bAggregated"}
  <2>1. [r EXCEPT !.p2bRelay[s].ids = all].out = r.out
    BY <1>1 DEF Replica
  <2> HIDE DEF all, missing, c
  <2>2. CASE t = SendNack(r, b, s, ID(c.ballot))
    BY <1>1, <2>2, SendNackOut
  <2>3. CASE t = FlushP2b(r, s, all, missing)
    BY <1>1, <2>3, FlushP2bOut
  <2> QED
    BY <1>3, <2>1, <2>2, <2>3
<1>6. Advances(I, P, A, r, t)
  BY <1>2, <1>4, <1>5, VoteSending, AsideAdvances
<1> QED
  BY <1>6 DEF t

\* handleP2b, as a relay and as a leader.
LEMMA ReceiveP2bAdvances ==
  ASSUME NEW I, NEW P, NEW A, NEW r, Setting(I, P, A, r), NEW b, KnownBallot(I, b),
         NEW s \in Slot, NEW ids \in Seq(Node)
  PROVE  Advances(I, P, A, r, ReceiveP2b(r, b, s, ids))
<1>1. Range(ids) \in SUBSET Node
  <2>1. DOMAIN ids = 1..Len(ids)
    BY LenProperties
  <2> QED
    BY <2>1, ElementOfSeq DEF Range
<1>2. CASE IsLeader(r)
  BY <1>1, <1>2, HandleP2bAdvances DEF ReceiveP2b
<1>3. CASE ~IsLeader(r)
  BY <1>3, HandleP2bRelayAdvances DEF ReceiveP2b
<1> QED
  BY <1>2, <1>3

\* handleP2bAggregated.
LEMMA HandleP2bAggregatedAdvances ==
  ASSUME NEW I, NEW P, NEW A, NEW r, Setting(I, P, A, r), NEW m \in Message,
         m.type = "P2bAggregated", MsgOK(I, P, m)
  PROVE  Advances(I, P, A, r, HandleP2bAggregated(r, m))
<1> DEFINE t == UpdateLastExecuteByNode(r, m.relay, m.lastExecute)
           ids == GroupOf(m.relay) \ m.missing
           h == HandleP2b(t, m.slot, m.ballot, ids)
<1>1. /\ m.relay \in Node /\ m.lastExecute \in -1..MaxSlot /\ m.slot \in Slot
      /\ KnownBallot(I, m.ballot)
  BY DEF Message, MsgOK
<1>2. ids \in SUBSET Node
  BY <1>1, GroupOfFacts
<1>3. Setting(I, P, A, t) /\ \A u : Advances(I, P, A, t, u) => Advances(I, P, A, r, u)
  BY <1>1, UpdateLastExecuteAdvances, AdvancesOn
<1>4. HandleP2bAggregated(r, m) \in {r, h}
  BY DEF HandleP2bAggregated
<1> HIDE DEF t, ids
<1>5. Advances(I, P, A, t, h)
  BY <1>1, <1>2, <1>3, HandleP2bAdvances
<1> HIDE DEF h
<1> QED
  BY <1>3, <1>4, <1>5, StayAdvances

\* Opening the collection of the votes of a slot.
LEMMA OpenP2bRelayAdvances ==
  ASSUME NEW I, NEW P, NEW A, NEW r, Setting(I, P, A, r), NEW m \in Message, m.type = "P2a",
         MsgOK(I, P, m)
  PROVE  Advances(I, P, A, r, OpenP2bRelay(r, m))
<1> DEFINE c == r.p2bRelay[m.slot]
           fresh == [pending |-> TRUE, hop |-> m.src, ballot |-> m.ballot, ids |-> <<>>]
           opened == [r EXCEPT !.p2bRelay[m.slot] = fresh]
           t == OpenP2bRelay(r, m)
<1>1. r \in Replica /\ Good(I, P, r) /\ Context(I, P)
  BY DEF Setting, Good
<1>2. Good(I, P, t)
  BY <1>1, OpenP2bRelayGood
<1>3. \/ t = opened \/ t = SendNack(opened, m.ballot, m.slot, ID(c.ballot))
      \/ t = SendNack(r, c.ballot, m.slot, ID(c.ballot)) \/ t = r
  BY DEF OpenP2bRelay
<1> HIDE DEF t, c
<1>4. /\ t.id = r.id /\ t.execute = r.execute /\ t.db = r.db /\ t.replies = r.replies
      /\ t.slot = r.slot /\ t.log = r.log /\ t.p3slots = r.p3slots
  <2>1. /\ opened.id = r.id /\ opened.execute = r.execute /\ opened.db = r.db
        /\ opened.replies = r.replies /\ opened.slot = r.slot /\ opened.log = r.log
        /\ opened.p3slots = r.p3slots
    BY <1>1 DEF Replica
  <2>2. opened \in [DOMAIN r -> UNION {{opened[f]} : f \in DOMAIN r}] /\ DOMAIN opened = DOMAIN r
    OBVIOUS
  <2> HIDE DEF opened
  <2>3. /\ "out" \in DOMAIN r /\ "id" \in DOMAIN r /\ "execute" \in DOMAIN r
        /\ "db" \in DOMAIN r /\ "replies" \in DOMAIN r /\ "slot" \in DOMAIN r
        /\ "log" \in DOMAIN r /\ "p3slots" \in DOMAIN r
    BY <1>1 DEF Replica
  <2> QED
    BY <1>3, <2>1, <2>2, <2>3 DEF SendNack, Emit
<1>5. \A x \in t.out : x \in r.out \/ x.type \in {"P2b", "P2bAggregated"}
  <2>1. opened.out = r.out
    BY <1>1 DEF Replica
  <2>2. opened \in Replica
    <3>1. m.slot \in Slot /\ m.src \in Node /\ m.ballot \in Ballot
      BY P2aFields
    <3>2. fresh \in P2bRelay
      BY <3>1, EmptySeq DEF P2bRelay
    <3> HIDE DEF fresh
    <3> QED
      BY <1>1, <3>1, <3>2 DEF Replica
  <2> HIDE DEF t, c, opened
  <2> QED
    BY <1>1, <1>3, <2>1, <2>2, SendNackOut
<1>6. Advances(I, P, A, r, t)
  BY <1>2, <1>4, <1>5, VoteSending, AsideAdvances
<1> QED
  BY <1>6 DEF t

\* The P3 that travels with a P2a.
LEMMA HandleP3msgAdvances ==
  ASSUME NEW I, NEW P, NEW A, NEW r, Setting(I, P, A, r), NEW p3 \in P3Info, NEW q, q # r.id,
         \A s \in p3.slots : ProposedBy(P, q, s)
  PROVE  Advances(I, P, A, r, HandleP3msg(r, p3))
BY HandleP3Advances, StayAdvances DEF HandleP3msg

\* handleP2aRelay.
LEMMA HandleP2aRelayAdvances ==
  ASSUME NEW I, NEW P, NEW A, NEW r, Setting(I, P, A, r), NEW m \in Message, m.type = "P2a",
         MsgOK(I, P, m), MsgPlaced(P, A, m), r.id \in m.dst
  PROVE  Advances(I, P, A, r, HandleP2aRelay(r, m))
<1> DEFINE o == OpenP2bRelay(r, m)
           r1 == HandleP2a(o, m)
           r2 == ReceiveP2b(r1, r1.ballot, m.slot, <<r.id>>)
           r3 == HandleP3msg(r2, m.p3)
           To(t) == Toward(I, P, A, r, t)
<1>1. /\ m.slot \in Slot /\ m.p3 \in P3Info /\ r.id \in Node /\ <<r.id>> \in Seq(Node)
      /\ ID(m.ballot) # r.id /\ m.src # r.id /\ \A s \in m.p3.slots : ProposedBy(P, m.src, s)
  BY P2aFields DEF Setting, Good, Replica, MsgOK, MsgPlaced
<1>2. To(r)
  BY DEF Toward
<1>3. To(o)
  BY TowardNext, <1>2, OpenP2bRelayAdvances
<1> HIDE DEF o
<1>4. To(r1)
  BY TowardNext, <1>1, <1>3, HandleP2aAdvances DEF Toward
<1>5. KnownBallot(I, r1.ballot)
  BY <1>4 DEF Toward, Setting, Good, ReplicaOK, OwnerOK
<1> HIDE DEF r1
<1>6. To(r2)
  <2>1. Setting(I, P, A, r1)
    BY <1>4 DEF Toward
  <2>2. Advances(I, P, A, r1, r2)
    BY <1>1, <1>5, <2>1, ReceiveP2bAdvances
  <2> QED
    BY TowardNext, <1>4, <2>2
<1> HIDE DEF r2
<1>7. To(r3)
  <2>1. Setting(I, P, A, r2) /\ r2.id = r.id
    BY <1>6 DEF Toward
  <2>2. Advances(I, P, A, r2, r3)
    BY <1>1, <2>1, HandleP3msgAdvances
  <2> QED
    BY TowardNext, <1>6, <2>2
<1> HIDE DEF r3
<1>8. Advances(I, P, A, r, Propagate(r3, m))
  BY <1>7, PropagateAdvances DEF Toward
<1> QED
  BY <1>8 DEF HandleP2aRelay, o, r1, r2, r3

\* A leaf that votes.
LEMMA HandleP2aLeafAdvances ==
  ASSUME NEW I, NEW P, NEW A, NEW r, Setting(I, P, A, r), NEW m \in Message, m.type = "P2a",
         MsgOK(I, P, m), MsgPlaced(P, A, m), r.id \in m.dst, m.via # 0
  PROVE  Advances(I, P, A, r, HandleP2aLeaf(r, m))
<1> DEFINE r1 == HandleP2a(r, m)
           vote == [type |-> "P2b", ballot |-> r1.ballot, slot |-> m.slot,
                    ids |-> <<r.id>>, dst |-> {m.via}]
           r2 == Emit(r1, {vote})
           To(t) == Toward(I, P, A, r, t)
<1>1. /\ m.slot \in Slot /\ m.p3 \in P3Info /\ m.via \in Node /\ m.via \in Int
      /\ r.id \in Node /\ <<r.id>> \in Seq(Node)
      /\ ID(m.ballot) # r.id /\ m.src # r.id /\ \A s \in m.p3.slots : ProposedBy(P, m.src, s)
  BY SMTT(30), P2aFields, NodeIsPositive DEF Setting, Good, Replica, MsgOK, MsgPlaced
<1>2. To(r)
  BY DEF Toward
<1>3. To(r1)
  BY TowardNext, <1>1, <1>2, HandleP2aAdvances
<1>4. KnownBallot(I, r1.ballot) /\ r1.ballot \in Ballot /\ Good(I, P, r1) /\ Setting(I, P, A, r1)
  BY <1>3 DEF Toward, Setting, Good, ReplicaOK, OwnerOK, Replica
<1> HIDE DEF r1
<1>5. vote \in Message /\ MsgOK(I, P, vote) /\ SendingOK(P, A, r1, vote)
  BY <1>1, <1>4, VoteSending DEF Message, MsgOK
<1> HIDE DEF vote
<1>6. Advances(I, P, A, r1, r2)
  BY <1>4, <1>5, EmitGood, EmitAdvances
<1> HIDE DEF r2
<1>7. To(r2)
  BY TowardNext, <1>3, <1>6
<1>8. Advances(I, P, A, r2, HandleP3msg(r2, m.p3))
  <2>1. Setting(I, P, A, r2) /\ r2.id = r.id
    BY <1>7 DEF Toward
  <2> QED
    BY <1>1, <2>1, HandleP3msgAdvances
<1>9. Advances(I, P, A, r, HandleP3msg(r2, m.p3))
  BY <1>7, <1>8 DEF Toward
<1> QED
  BY <1>9 DEF HandleP2aLeaf, r1, vote, r2

\* A relay that handles a P3 and passes it on.
LEMMA HandleP3RelayAdvances ==
  ASSUME NEW I, NEW P, NEW A, NEW r, Setting(I, P, A, r), NEW m \in Message, m.type = "P3",
         MsgOK(I, P, m), MsgPlaced(P, A, m), r.id \in m.dst
  PROVE  Advances(I, P, A, r, HandleP3Relay(r, m))
<1> DEFINE t == HandleP3(r, m.p3)
<1>1. m.p3 \in P3Info /\ m.src # r.id /\ \A s \in m.p3.slots : ProposedBy(P, m.src, s)
  BY DEF Message, MsgPlaced
<1>2. Advances(I, P, A, r, t)
  BY <1>1, HandleP3Advances
<1> HIDE DEF t
<1>3. Setting(I, P, A, t) /\ \A u : Advances(I, P, A, t, u) => Advances(I, P, A, r, u)
  BY <1>2, AdvancesOn
<1>4. Advances(I, P, A, t, Propagate(t, m))
  BY <1>3, PropagateAdvances
<1> QED
  BY <1>3, <1>4 DEF HandleP3Relay, t
-----------------------------------------------------------------------------
(* The handlers that propose.                                               *)

\* A handler that proposes: as long as its proposals contest no slot, it keeps
\* the history, and what it has proposed waits in its log.
Proposes(P, A, r, t) ==
  UncontestedIn(P \cup PropsOf(t)) =>
    /\ Faithful(P \cup PropsOf(t), A, r, t)
    /\ \A p \in PropsOf(t) : p \in P \/ t.log[p[2]].request = p[3]

\* The proposals of a well-formed replica have been counted.
LEMMA PropsCounted ==
  ASSUME NEW I, NEW P, NEW t, Good(I, P, t)
  PROVE  PropsOf(t) \subseteq P
BY DEF Good, ReplicaOK, MsgOK, PropsOf, Sent

LEMMA QuietProposes ==
  ASSUME NEW I, NEW P, NEW A, NEW r, NEW t, Advances(I, P, A, r, t)
  PROVE  Proposes(P, A, r, t)
<1>1. Good(I, P, t)
  BY DEF Advances
<1>2. PropsOf(t) \subseteq P
  BY <1>1, PropsCounted
<1>3. P \cup PropsOf(t) = P
  BY <1>2
<1> QED
  BY <1>2, <1>3 DEF Proposes, Advances

\* A handler that proposes after one that does not.
LEMMA ProposesAfter ==
  ASSUME NEW I, NEW P, NEW A, NEW r, NEW s, NEW t, Good(I, P, r), Advances(I, P, A, r, s),
         t \in Replica, Proposes(P, A, s, t)
  PROVE  Proposes(P, A, r, t)
<1>1. r \in Replica /\ s \in Replica /\ Serves(r, s)
  BY DEF Advances, Good, Faithful
<1> SUFFICES ASSUME UncontestedIn(P \cup PropsOf(t))
             PROVE  Faithful(P \cup PropsOf(t), A, r, t)
  BY DEF Proposes
<1>2. Faithful(P \cup PropsOf(t), A, s, t)
  BY DEF Proposes
<1> QED
  BY <1>1, <1>2, ServesTransitive DEF Faithful

\* P1a makes no proposal.
LEMMA P1aProposes ==
  ASSUME NEW I, NEW P, NEW A, NEW r, Setting(I, P, A, r), ~r.active
  PROVE  Proposes(P, A, r, P1a(r))
<1> DEFINE t == P1a(r)
           b == NextBallot(r.ballot, r.id)
<1>1. r \in Replica /\ Good(I, P, r) /\ Context(I, P)
  BY DEF Setting, Good
<1>2. t \in Replica
  BY <1>1, P1aOutcome DEF Outcome, Good
<1>3. /\ t.id = r.id /\ t.execute = r.execute /\ t.db = r.db /\ t.replies = r.replies
      /\ t.slot = r.slot /\ t.log = r.log /\ t.p3slots = r.p3slots
      /\ t.out = r.out \cup RoutedP1a(r.id, b)
  BY <1>1 DEF P1a, Emit, Replica
<1>4. \A m \in RoutedP1a(r.id, b) : m.type = "P1a" /\ SendingOK(P, A, t, m)
  BY PlainSending DEF RoutedP1a
<1> HIDE DEF t, b
<1>5. Faithful(P, A, r, t)
  BY <1>2, <1>3, <1>4, AsideFaithful
<1>6. PropsOf(t) = PropsOf(r)
  BY <1>3, <1>4 DEF PropsOf, Sent
<1>7. PropsOf(t) \subseteq P
  BY <1>1, <1>6, PropsCounted
<1>8. P \cup PropsOf(t) = P
  BY <1>7
<1>9. Proposes(P, A, r, t)
  BY <1>5, <1>7, <1>8 DEF Proposes
<1> QED
  BY <1>9 DEF t

\* What a P2a says.
LEMMA RoutedP2aSays ==
  \A n, b, s, c, p : \A m \in RoutedP2a(n, b, s, c, p) : m.type = "P2a" /\ m.src = n /\ m.p3 = p
BY DEF RoutedP2a

\* P2a puts each request in the slot it proposes it for; it finds no earlier
\* proposal of its own there, and no other is uncontested.
LEMMA P2aProposes ==
  ASSUME NEW I, NEW P, NEW A, NEW r, Setting(I, P, A, r), r.active,
         NEW reqs \in Seq(Cmd), r.slot + Len(reqs) <= MaxSlot
  PROVE  Proposes(P, A, r, P2a(r, reqs))
<1> DEFINE n == Len(reqs)
           P2 == P \cup NewProposals(r, reqs)
           new == (r.slot + 1)..(r.slot + n)
           piggyback == reqs # <<>> /\ r.p3ballot > 0
           p3(i) == IF piggyback
                    THEN [ballot |-> r.p3ballot, slots |-> IF i = 1 THEN r.p3slots ELSE {}]
                    ELSE NoP3
           t == P2a(r, reqs)
           ms == UNION {RoutedP2a(r.id, r.ballot, r.slot + i, reqs[i], p3(i)) : i \in DOMAIN reqs}
<1>0. r \in Replica /\ Good(I, P, r) /\ Context(I, P) /\ Sound(P, A, r)
  BY DEF Setting, Good
<1>1. /\ r \in Replica /\ Good(I, P, r) /\ Context(I, P) /\ Sound(P, A, r)
      /\ r.slot \in -1..MaxSlot /\ r.slot \in Int /\ r.id \in Node /\ r.ballot \in Nat
  <2>1. r.slot \in -1..MaxSlot /\ r.id \in Node /\ r.ballot \in Nat
    BY <1>0 DEF Replica, Ballot
  <2> QED
    BY <1>0, <2>1, MaxSlotAssumption
<1>2. n \in Nat /\ DOMAIN reqs = 1..n /\ \A i \in 1..n : reqs[i] \in Cmd
  BY LenProperties, ElementOfSeq
<1>3. r.ballot # 0 /\ ID(r.ballot) = r.id
  BY <1>1, OwnedBallot DEF Good, ReplicaOK, OwnerOK
<1>4. /\ Good(I, P2, t) /\ t \in Replica
      /\ NewProposals(r, reqs) \cup PropsOf(r) \subseteq PropsOf(t)
  BY <1>1, P2aGood DEF Good
<1>5. P \cup PropsOf(t) = P2
  <2>1. PropsOf(t) \subseteq P2
    BY <1>4, PropsCounted
  <2> QED
    BY <1>4, <2>1
<1>6. /\ t.id = r.id /\ t.execute = r.execute /\ t.db = r.db /\ t.replies = r.replies
      /\ t.slot = r.slot + n /\ t.p3slots \subseteq r.p3slots /\ t.out = r.out \cup ms
      /\ \A s \in Slot : /\ s \in new => /\ t.log[s].request = reqs[s - r.slot]
                                         /\ t.log[s].command = reqs[s - r.slot]
                                         /\ t.log[s].ballot = r.ballot
                         /\ s \notin new => t.log[s] = r.log[s]
  BY <1>1 DEF P2a, Emit, Replica
<1>7. HoldingOK(t)
  <2> DEFINE ns == {}
  <2>1. r = Emit(r, ns)
    BY <1>1 DEF Emit, Replica
  <2> HIDE DEF t, ns
  <2>2. HoldingOK(r) /\ \A s \in Slot : s > r.slot => r.log[s].status = "none"
    BY <1>1, BeyondSlot DEF Sound
  <2> QED
    BY <1>1, <2>1, <2>2, P2aHolds DEF t
<1>8. \A i \in 1..n : p3(i).slots \subseteq r.p3slots
  BY DEF NoP3
<1> HIDE DEF p3
<1>9. \A m \in ms : m.type = "P2a" /\ m.src = r.id /\ m.p3.slots \subseteq r.p3slots
  <2> SUFFICES ASSUME NEW i \in 1..n,
                      NEW m \in RoutedP2a(r.id, r.ballot, r.slot + i, reqs[i], p3(i))
               PROVE  m.type = "P2a" /\ m.src = r.id /\ m.p3.slots \subseteq r.p3slots
    BY <1>2
  <2>1. m.type = "P2a" /\ m.src = r.id /\ m.p3 = p3(i)
    BY RoutedP2aSays
  <2> QED
    BY <1>8, <2>1
<1> HIDE DEF t, ms
<1>10. new \subseteq Slot /\ \A s \in new : s > r.slot /\ s - r.slot \in 1..n
  BY <1>1, <1>2, MaxSlotAssumption DEF Slot
<1>11. \A p \in NewProposals(r, reqs) :
         p[1] = r.ballot /\ p[2] \in new /\ p[3] = reqs[p[2] - r.slot]
  <2> SUFFICES ASSUME NEW p \in NewProposals(r, reqs)
               PROVE  p[1] = r.ballot /\ p[2] \in new /\ p[3] = reqs[p[2] - r.slot]
    OBVIOUS
  <2>1. PICK i \in 1..n : p = <<r.ballot, r.slot + i, reqs[i]>>
    BY <1>2 DEF NewProposals
  <2>2. r.slot + i \in new /\ (r.slot + i) - r.slot = i
    <3>1. r.slot \in Int /\ n \in Int /\ i \in Int /\ 1 <= i /\ i <= n
      BY <1>1, <1>2
    <3> HIDE DEF n
    <3> QED
      BY <3>1
  <2> HIDE DEF new, n
  <2> QED
    BY <2>1, <2>2
<1> SUFFICES ASSUME UncontestedIn(P2)
             PROVE  /\ Faithful(P2, A, r, t)
                    /\ \A p \in PropsOf(t) : p \in P \/ t.log[p[2]].request = p[3]
  BY <1>5 DEF Proposes, t
<1>12. \A p \in NewProposals(r, reqs) : t.log[p[2]].request = p[3]
  BY <1>6, <1>10, <1>11
<1>13. EntriesOK(t)
  <2> SUFFICES ASSUME NEW s \in Slot, t.log[s].request # NoCmd
               PROVE  /\ t.log[s].ballot # 0 /\ ID(t.log[s].ballot) = t.id
                      /\ t.log[s].command = t.log[s].request
    BY DEF EntriesOK
  <2>1. CASE s \in new
    BY <1>3, <1>6, <2>1
  <2>2. CASE s \notin new
    BY <1>1, <1>6, <2>2 DEF Sound, HistoryOK, EntriesOK
  <2> QED
    BY <2>1, <2>2
<1>14. PlacedOK(P2, t)
  <2> SUFFICES ASSUME NEW p \in P, ID(p[1]) = r.id
               PROVE  \/ t.log[p[2]].request = p[3]
                      \/ p[2] < t.execute /\ <<p[3], p[3]>> \in t.replies
    BY <1>6, <1>12 DEF PlacedOK
  <2>1. p[2] \in Slot /\ p[2] \in Int
    BY <1>1 DEF Context, Slot
  <2>2. \/ r.log[p[2]].request = p[3]
        \/ p[2] < r.execute /\ <<p[3], p[3]>> \in r.replies
    BY <1>1 DEF Sound, HistoryOK, PlacedOK
  <2>3. p[2] \notin new
    <3> SUFFICES ASSUME p[2] \in new PROVE FALSE
      OBVIOUS
    <3> DEFINE q == <<r.ballot, r.slot + (p[2] - r.slot), reqs[p[2] - r.slot]>>
    <3>1. q \in NewProposals(r, reqs)
      BY <1>10 DEF NewProposals
    <3>2. q[1] = r.ballot /\ q[2] = p[2]
      BY <1>1, <2>1
    <3> HIDE DEF q
    <3>3. p[1] = r.ballot
      BY <3>1, <3>2 DEF UncontestedIn
    <3>4. p[2] <= r.slot
      BY <1>1, <3>3 DEF Good, ReplicaOK, OwnerOK
    <3>5. p[2] > r.slot
      BY <1>10
    <3> QED
      BY <1>1, <2>1, <3>4, <3>5
  <2> QED
    BY <1>6, <2>1, <2>2, <2>3
<1>15. Serves(r, t)
  <2>1. Asked(r) \subseteq Asked(t)
    <3> SUFFICES ASSUME NEW s \in Slot, s <= r.slot, r.log[s].request = NoCmd
                 PROVE  s <= t.slot /\ t.log[s].request = NoCmd
      BY DEF Asked
    <3>1. s \in Int /\ s \notin new
      BY <1>1, <1>2 DEF Slot
    <3>2. s <= r.slot + n
      BY <1>1, <1>2, <3>1
    <3> QED
      BY <1>6, <3>1, <3>2
  <2>2. Len(r.db) \in Nat
    BY <1>1, LengthIsNat
  <2> QED
    BY <1>6, <2>1, <2>2 DEF Serves
<1>16. \A s \in r.p3slots : ProposedBy(P2, r.id, s)
  BY <1>1 DEF Sound, HistoryOK, ProposedBy
<1>17. \A m \in t.out : SendingOK(P2, A, t, m)
  <2>1. ASSUME NEW m \in ms PROVE SendingOK(P2, A, t, m)
    BY <1>9, <1>16 DEF SendingOK
  <2>2. ASSUME NEW m \in r.out PROVE SendingOK(P2, A, t, m)
    <3>1. SendingOK(P, A, r, m)
      BY <1>1 DEF Sound
    <3>2. Asked(r) \subseteq Asked(t) /\ t.id = r.id
      BY <1>15 DEF Serves
    <3>3. \A q, s : ProposedBy(P, q, s) => ProposedBy(P2, q, s)
      BY DEF ProposedBy
    <3> HIDE DEF P2
    <3> QED
      BY <3>1, <3>2, <3>3 DEF SendingOK
  <2> QED
    BY <1>6, <2>1, <2>2
<1>18. \A x \in t.replies : x[1] = x[2]
  BY <1>1, <1>6 DEF Sound, HistoryOK
<1>19. \A s \in t.p3slots : ProposedBy(P2, t.id, s)
  BY <1>6, <1>16
<1>20. Faithful(P2, A, r, t)
  BY <1>7, <1>13, <1>14, <1>15, <1>17, <1>18, <1>19 DEF Faithful, Sound, HistoryOK
<1>21. \A p \in PropsOf(t) : p \in P \/ p \in NewProposals(r, reqs)
  BY <1>5
<1> QED
  BY <1>12, <1>20, <1>21

\* A candidate that wins phase 1 and contests no slot finds nothing to propose
\* again: what it had open would be there under two ballots.
LEMMA NothingUnfinished ==
  ASSUME NEW I, NEW P, NEW r, Good(I, P, r), ~r.active, ID(r.ballot) = r.id,
         UncontestedIn(P \cup PropsOf(BecomeLeader(r)))
  PROVE  Unfinished(r) = {}
<1> DEFINE v == BecomeLeader(r)
           ms == UNION {RoutedP2a(r.id, r.ballot, s, r.log[s].command, NoP3) : s \in Unfinished(r)}
<1>1. r \in Replica /\ r.id \in Node
  BY DEF Good, Replica
<1>2. ms \subseteq v.out
  BY <1>1 DEF BecomeLeader, P2a, Emit, Replica
<1> SUFFICES ASSUME NEW s \in Unfinished(r) PROVE FALSE
  OBVIOUS
<1>3. s \in Slot /\ r.log[s].status = "open"
  BY DEF Unfinished
<1>4. r.log[s].ballot # 0 /\ <<r.log[s].ballot, s, r.log[s].command>> \in P
  BY <1>3 DEF Good, ReplicaOK, LogOK, Proposed
<1>5. r.log[s].ballot # r.ballot
  BY <1>4 DEF Good, ReplicaOK, OwnerOK
<1>6. <<r.ballot, s, r.log[s].command>> \in PropsOf(v)
  <2>1. PICK d : d \in Relays(r.id)
    BY <1>1, RelaysNonEmpty
  <2> DEFINE m == [type |-> "P2a", ballot |-> r.ballot, slot |-> s, command |-> r.log[s].command,
                   p3 |-> NoP3, src |-> r.id, via |-> 0, dst |-> d]
  <2>2. m \in RoutedP2a(r.id, r.ballot, s, r.log[s].command, NoP3)
    BY <2>1 DEF RoutedP2a
  <2>3. m \in v.out
    BY <1>2, <2>2
  <2> HIDE DEF v, ms
  <2> QED
    BY <2>3 DEF PropsOf, Sent
<1> DEFINE p == <<r.log[s].ballot, s, r.log[s].command>>
           q == <<r.ballot, s, r.log[s].command>>
           P2 == P \cup PropsOf(v)
<1>7. p \in P2 /\ q \in P2 /\ p[2] = q[2] /\ p[1] # q[1]
  BY <1>4, <1>5, <1>6
<1>8. UncontestedIn(P2)
  OBVIOUS
<1> HIDE DEF p, q, P2
<1> QED
  BY <1>7, <1>8 DEF UncontestedIn

\* What the winner then proposes are its pending requests.
LEMMA BecomeLeaderProposes ==
  ASSUME NEW I, NEW P, NEW A, NEW r, Setting(I, P, A, r), ~r.active, ID(r.ballot) = r.id,
         BecomeLeader(r).slot <= MaxSlot
  PROVE  Proposes(P, A, r, BecomeLeader(r))
<1> DEFINE v == BecomeLeader(r)
           l == [s \in Slot |-> IF s \in Unfinished(r)
                                THEN [r.log[s] EXCEPT !.ballot = r.ballot, !.quorum = {r.id}]
                                ELSE r.log[s]]
           ms == UNION {RoutedP2a(r.id, r.ballot, s, r.log[s].command, NoP3) : s \in Unfinished(r)}
           t == [r EXCEPT !.active = TRUE, !.p3ballot = r.ballot, !.requests = <<>>, !.log = l]
           r1 == Emit(t, ms)
<1> SUFFICES ASSUME UncontestedIn(P \cup PropsOf(v)) PROVE Proposes(P, A, r, v)
  BY DEF Proposes
<1>1. /\ r \in Replica /\ Good(I, P, r) /\ Context(I, P) /\ r.requests \in Seq(Cmd)
      /\ r.ballot \in Ballot
  BY DEF Setting, Good, Replica
<1>2. Unfinished(r) = {}
  BY <1>1, NothingUnfinished
<1>3. l = r.log
  BY <1>1, <1>2 DEF Replica
<1>4. ms = {}
  BY <1>2
<1>5. v = P2a(r1, r.requests)
  BY DEF BecomeLeader
<1> HIDE DEF l, ms
<1>6. r1 \in Replica
  BY <1>1, <1>3, <1>4, EmptySeq DEF Emit, Replica
<1>7. /\ r1.id = r.id /\ r1.ballot = r.ballot /\ r1.active = TRUE /\ r1.execute = r.execute
      /\ r1.p1bQueue = r.p1bQueue /\ r1.p1bRelay = r.p1bRelay /\ r1.p2bRelay = r.p2bRelay
      /\ r1.out = r.out /\ r1.slot = r.slot /\ r1.log = r.log /\ r1.p3slots = r.p3slots
      /\ r1.db = r.db /\ r1.replies = r.replies
  BY <1>1, <1>3, <1>4 DEF Emit, Replica
<1> HIDE DEF r1
<1>8. Good(I, P, r1)
  <2>1. LogOK(P, r1)
    BY <1>1, <1>7 DEF Good, ReplicaOK, LogOK
  <2>2. OwnerOK(I, P, r1)
    <3>1. \A p \in P : p[1] # r.ballot
      BY <1>1 DEF Good, ReplicaOK, OwnerOK
    <3>2. \A s \in Slot : s >= r.execute => r.log[s].status # "open"
      <4> SUFFICES ASSUME NEW s \in Slot, s >= r.execute, r.log[s].status = "open" PROVE FALSE
        OBVIOUS
      <4>1. ~(s <= r.slot)
        BY <1>2 DEF Unfinished
      <4>2. s > r.slot
        BY <1>1, <4>1, MaxSlotAssumption DEF Slot, Replica
      <4> QED
        BY <1>1, <4>2 DEF Good, ReplicaOK, LogOK
    <3> QED
      BY <1>1, <1>7, <3>1, <3>2 DEF Good, ReplicaOK, OwnerOK
  <2>3. RelayOK(I, P, r1) /\ \A m \in r1.out : MsgOK(I, P, m)
    BY <1>1, <1>7 DEF Good, ReplicaOK, RelayOK
  <2> QED
    BY <1>6, <2>1, <2>2, <2>3 DEF Good, ReplicaOK
<1>9. Advances(I, P, A, r, r1)
  BY <1>7, <1>8, AsideAdvances
<1>10. Setting(I, P, A, r1)
  BY <1>9, AdvancesOn
<1>11. r1.slot + Len(r.requests) <= MaxSlot
  <2>1. v.slot = r1.slot + Len(r.requests)
    BY <1>5, <1>6 DEF P2a, Emit, Replica
  <2> QED
    BY <2>1
<1>12. Proposes(P, A, r1, v)
  BY <1>1, <1>5, <1>7, <1>10, <1>11, P2aProposes
<1>13. v \in Replica
  BY <1>1, BecomeLeaderOutcome DEF Outcome, Good
<1> HIDE DEF v
<1> QED
  BY <1>1, <1>9, <1>12, <1>13, ProposesAfter

\* HandleP1b.
LEMMA HandleP1bProposes ==
  ASSUME NEW I, NEW P, NEW A, NEW r, Setting(I, P, A, r), NEW p \in P1bRecord, P1bOK(I, P, p),
         HandleP1b(r, p).slot <= MaxSlot
  PROVE  Proposes(P, A, r, HandleP1b(r, p))
<1> DEFINE r1 == Update(r, p.log)
           d == ForwardPending([r1 EXCEPT !.ballot = p.ballot, !.active = FALSE])
           h == HandleP1b(r, p)
<1>1. Good(I, P, r) /\ Context(I, P) /\ KnownBallot(I, p.ballot)
  BY DEF Setting, P1bOK
<1>2. CASE p.ballot < r.ballot \/ r.active
  <2>1. h = r
    BY <1>2 DEF HandleP1b
  <2> QED
    BY <2>1, StayAdvances, QuietProposes
<1>3. CASE ~(p.ballot < r.ballot \/ r.active)
  <2>1. Advances(I, P, A, r, r1)
    <3>1. p.log \in [Slot -> CommandBallot]
      BY DEF P1bRecord
    <3> QED
      BY <1>3, <3>1, UpdateAdvances DEF P1bOK
  <2>2. Setting(I, P, A, r1) /\ \A u : Advances(I, P, A, r1, u) => Advances(I, P, A, r, u)
    BY <2>1, AdvancesOn
  <2>3. r1.active = r.active /\ r1.ballot = r.ballot /\ r1.id = r.id
    BY <1>1 DEF Good, Replica, Update
  <2> HIDE DEF r1
  <2>4. CASE p.ballot > r1.ballot
    <3>1. Advances(I, P, A, r, d)
      BY <1>1, <2>2, <2>4, DeposedAdvances
    <3>2. ID(p.ballot) # r.id
      <4>1. Good(I, P, r1)
        BY <2>2 DEF Setting
      <4> QED
        BY <1>1, <2>3, <2>4, <4>1, HigherIsForeign
    <3>3. h = d
      BY <1>3, <2>4, <3>2 DEF HandleP1b, r1
    <3> HIDE DEF d, h
    <3> QED
      BY <3>1, <3>3, QuietProposes DEF h
  <2>5. CASE ~(p.ballot > r1.ballot) /\ ~(ID(p.ballot) = r.id /\ p.ballot = r1.ballot)
    <3>1. h = r1
      BY <1>3, <2>5 DEF HandleP1b, r1
    <3> HIDE DEF h
    <3> QED
      BY <2>1, <3>1, QuietProposes DEF h
  <2>6. CASE ~(p.ballot > r1.ballot) /\ ID(p.ballot) = r.id /\ p.ballot = r1.ballot
    <3> DEFINE q == [r1 EXCEPT !.quorum = @ \cup {p.id}]
    <3>1. r1 \in Replica /\ Good(I, P, r1)
      BY <2>2 DEF Setting, Good
    <3>2. q \in Replica /\ SameCore(r1, q)
      BY ZenonT(30), <3>1 DEF Replica, SameCore, P1bRecord
    <3>3. Good(I, P, q)
      BY <3>1, <3>2, SameCoreGood
    <3>4. /\ q.id = r1.id /\ q.execute = r1.execute /\ q.db = r1.db /\ q.replies = r1.replies
          /\ q.slot = r1.slot /\ q.log = r1.log /\ q.p3slots = r1.p3slots /\ q.out = r1.out
          /\ q.active = r1.active /\ q.ballot = r1.ballot
      BY <3>1 DEF Replica
    <3>5. h = IF Majority(q.quorum) THEN BecomeLeader(q) ELSE q
      BY <1>3, <2>6 DEF HandleP1b, r1
    <3> HIDE DEF q
    <3>6. Advances(I, P, A, r1, q)
      BY <2>2, <3>3, <3>4, AsideAdvances
    <3>7. Advances(I, P, A, r, q)
      BY <2>2, <3>6
    <3>8. ~q.active /\ ID(q.ballot) = q.id
      BY <1>3, <2>3, <2>6, <3>4
    <3>9. CASE ~Majority(q.quorum)
      BY <3>5, <3>7, <3>9, QuietProposes
    <3>10. CASE Majority(q.quorum)
      <4>1. Setting(I, P, A, q)
        BY <3>7, AdvancesOn
      <4>2. h = BecomeLeader(q)
        BY <3>5, <3>10
      <4>3. Proposes(P, A, q, h)
        BY <3>8, <4>1, <4>2, BecomeLeaderProposes
      <4>4. h \in Replica
        BY <1>1, HandleP1bOutcome DEF Outcome, Good
      <4> HIDE DEF h
      <4>5. Proposes(P, A, r, h)
        BY <1>1, <3>7, <4>3, <4>4, ProposesAfter
      <4> QED
        BY <4>5 DEF h
    <3> QED
      BY <3>9, <3>10
  <2> QED
    BY <2>4, <2>5, <2>6
<1> QED
  BY <1>2, <1>3

\* The highest slot after P2a.
LEMMA P2aReaches ==
  ASSUME NEW r \in Replica, NEW reqs
  PROVE  P2a(r, reqs).slot = r.slot + Len(reqs)
BY DEF P2a, Emit, Replica

\* HandleRequest.
LEMMA HandleRequestProposes ==
  ASSUME NEW I, NEW P, NEW A, NEW r, Setting(I, P, A, r), NEW c \in Cmd,
         HandleRequest(r, c).slot <= MaxSlot
  PROVE  Proposes(P, A, r, HandleRequest(r, c))
<1> DEFINE t == [r EXCEPT !.requests = Append(@, c)]
           h == HandleRequest(r, c)
<1>1. r \in Replica /\ Good(I, P, r) /\ Context(I, P) /\ h \in Replica
  BY HandleRequestOutcome DEF Setting, Good, Outcome
<1>2. CASE r.active
  <2> DEFINE reqs == <<c>>
  <2>1. h = P2a(r, reqs) /\ reqs \in Seq(Cmd)
    BY <1>2 DEF HandleRequest
  <2> HIDE DEF reqs
  <2>2. h.slot = r.slot + Len(reqs)
    BY <1>1, <2>1, P2aReaches
  <2> QED
    BY <1>2, <2>1, <2>2, P2aProposes
<1>3. CASE ~r.active
  <2>1. t \in Replica /\ SameCore(r, t)
    <3>1. Append(r.requests, c) \in Seq(Cmd)
      BY <1>1, AppendProperties DEF Replica
    <3> QED
      BY <1>1, <3>1 DEF Replica, SameCore
  <2>2. Good(I, P, t)
    BY <1>1, <2>1, SameCoreGood
  <2>3. /\ t.id = r.id /\ t.execute = r.execute /\ t.db = r.db /\ t.replies = r.replies
        /\ t.slot = r.slot /\ t.log = r.log /\ t.p3slots = r.p3slots /\ t.out = r.out
        /\ t.active = r.active
    BY <1>1 DEF Replica
  <2>4. h = P1a(t) \/ h = t
    BY <1>3 DEF HandleRequest
  <2> HIDE DEF t, h
  <2>5. Advances(I, P, A, r, t)
    BY <2>2, <2>3, AsideAdvances
  <2>6. Setting(I, P, A, t)
    BY <2>5, AdvancesOn
  <2>7. CASE h = t
    BY <2>5, <2>7, QuietProposes DEF h
  <2>8. CASE h = P1a(t)
    <3>1. Proposes(P, A, t, h)
      BY <1>3, <2>3, <2>6, <2>8, P1aProposes
    <3>2. Proposes(P, A, r, h)
      BY <1>1, <2>5, <3>1, ProposesAfter
    <3> QED
      BY <3>2 DEF h
  <2> QED
    BY <2>4, <2>7, <2>8
<1> QED
  BY <1>2, <1>3

\* handleP1b.
LEMMA ReceiveP1bProposes ==
  ASSUME NEW I, NEW P, NEW A, NEW r, Setting(I, P, A, r), NEW p \in P1bRecord, P1bOK(I, P, p),
         ReceiveP1b(r, p).slot <= MaxSlot
  PROVE  Proposes(P, A, r, ReceiveP1b(r, p))
<1>1. CASE r.p1bRelay.pending
  <2>1. Advances(I, P, A, r, HandleP1bRelay(r, p))
    BY <1>1, HandleP1bRelayAdvances
  <2> QED
    BY <1>1, <2>1, QuietProposes DEF ReceiveP1b
<1>2. CASE ~r.p1bRelay.pending
  BY <1>2, HandleP1bProposes DEF ReceiveP1b
<1> QED
  BY <1>1, <1>2

\* A relay that handles a P1a.  Its own promise, when it does not collect, may
\* be the last one that it needs.
LEMMA HandleP1aRelayProposes ==
  ASSUME NEW I, NEW P, NEW A, NEW r, Setting(I, P, A, r), NEW m \in Message, m.type = "P1a",
         MsgOK(I, P, m), MsgPlaced(P, A, m), HandleP1aRelay(r, m).slot <= MaxSlot
  PROVE  Proposes(P, A, r, HandleP1aRelay(r, m))
<1> DEFINE new == r.ballot < m.ballot
           nack == new /\ r.p1bRelay.pending
           a == [type |-> "Prepare", ballot |-> m.ballot, dst |-> {ID(r.ballot)}]
           r1 == IF nack THEN Emit(r, {a}) ELSE r
           c == [pending |-> TRUE, hop |-> m.src, p1bs |-> <<>>]
           r2 == IF new THEN [r1 EXCEPT !.p1bRelay = c] ELSE r1
           r3 == HandleP1a(r2, m.ballot)
           p == P1bOf(r3)
           r4 == ReceiveP1b(r3, p)
           h == HandleP1aRelay(r, m)
           To(t) == Toward(I, P, A, r, t)
<1>1. /\ m.ballot \in I /\ m.ballot \in Ballot /\ m.src \in Node /\ r \in Replica
      /\ Good(I, P, r) /\ Context(I, P)
  BY P1aFields DEF MsgOK, Setting, Good
<1>2. h = IF nack /\ ID(r.ballot) = r.id THEN [r EXCEPT !.halted = TRUE]
          ELSE IF new THEN Propagate(r4, m) ELSE r4
  BY DEF HandleP1aRelay
<1>3. h \in Replica
  BY <1>1, HandleP1aRelayOutcome DEF Outcome, Good
<1> HIDE DEF h
<1>4. CASE nack /\ ID(r.ballot) = r.id
  <2>1. Advances(I, P, A, r, h)
    BY <1>2, <1>4, HaltAdvances
  <2> QED
    BY <2>1, QuietProposes DEF h
<1>5. CASE ~(nack /\ ID(r.ballot) = r.id)
  <2>1. To(r)
    BY DEF Toward
  <2>2. To(r1)
    <3>1. r.ballot \in Ballot /\ ID(r.ballot) \in Int
      BY <1>1, OwnerIsInt DEF Replica
    <3>2. a \in Message /\ MsgOK(I, P, a) /\ SendingOK(P, A, r, a)
      BY <1>1, <3>1, PlainSending DEF Message, MsgOK
    <3> HIDE DEF a
    <3>3. Good(I, P, Emit(r, {a}))
      BY <1>1, <3>2, EmitGood
    <3>4. Advances(I, P, A, r, Emit(r, {a}))
      BY <3>2, <3>3, EmitAdvances
    <3>5. To(Emit(r, {a}))
      BY <2>1, <3>4, TowardNext
    <3> QED
      BY <2>1, <3>5
  <2> HIDE DEF r1
  <2>3. To(r2) /\ (new => r2.p1bRelay.pending)
    <3> DEFINE d == [r1 EXCEPT !.p1bRelay = c]
    <3>1. c \in P1bRelay /\ c.hop \in Node /\ P1bSeqOK(I, P, c.p1bs) /\ c.pending
      BY <1>1, EmptySeq DEF P1bRelay, P1bSeqOK
    <3> HIDE DEF c
    <3>2. Setting(I, P, A, r1) /\ Good(I, P, r1) /\ r1 \in Replica
      BY <2>2 DEF Toward, Setting, Good
    <3>3. Good(I, P, d)
      BY <3>1, <3>2, P1bRelayChangeGood
    <3>4. /\ d.id = r1.id /\ d.execute = r1.execute /\ d.db = r1.db /\ d.replies = r1.replies
          /\ d.slot = r1.slot /\ d.log = r1.log /\ d.p3slots = r1.p3slots /\ d.out = r1.out
          /\ d.p1bRelay = c
      BY <3>2 DEF Replica
    <3> HIDE DEF d
    <3>5. Advances(I, P, A, r1, d)
      BY <3>2, <3>3, <3>4, AsideAdvances
    <3>6. To(d)
      BY <2>2, <3>5, TowardNext
    <3> QED
      BY <2>2, <3>1, <3>4, <3>6 DEF d
  <2> HIDE DEF r2
  <2>4. Setting(I, P, A, r2) /\ r2 \in Replica
    BY <2>3 DEF Toward, Setting, Good
  <2>5. To(r3)
    BY <1>1, <2>3, <2>4, HandleP1aAdvances, TowardNext
  <2>6. r3.p1bRelay = r2.p1bRelay
    BY <2>4 DEF HandleP1a, ForwardPending, Forward, Emit, Replica
  <2> HIDE DEF r3
  <2>7. Setting(I, P, A, r3) /\ Good(I, P, r3)
    BY <2>5 DEF Toward, Setting
  <2>8. p \in P1bRecord /\ P1bOK(I, P, p)
    BY <1>1, <2>7, P1bOfOK
  <2> HIDE DEF p
  <2>9. CASE new
    <3>1. r4 = HandleP1bRelay(r3, p) /\ r3.p1bRelay.pending
      BY <2>3, <2>6, <2>9 DEF ReceiveP1b
    <3>2. Advances(I, P, A, r3, r4)
      BY <2>7, <2>8, <3>1, HandleP1bRelayAdvances
    <3>3. h = Propagate(r4, m)
      BY <1>2, <1>5, <2>9
    <3> HIDE DEF r4
    <3>4. To(r4)
      BY <2>5, <3>2, TowardNext
    <3>5. Advances(I, P, A, r4, h)
      BY <3>3, <3>4, PropagateAdvances DEF Toward
    <3>6. Advances(I, P, A, r, h)
      BY <3>4, <3>5 DEF Toward
    <3> QED
      BY <3>6, QuietProposes DEF h
  <2>10. CASE ~new
    <3>1. h = r4 /\ r4.slot <= MaxSlot
      BY <1>2, <1>5, <2>10 DEF h
    <3>2. Proposes(P, A, r3, h)
      BY <2>7, <2>8, <3>1, ReceiveP1bProposes
    <3>3. Advances(I, P, A, r3, r3)
      BY <2>7, StayAdvances
    <3>4. Advances(I, P, A, r, r3)
      BY <2>5, <3>3 DEF Toward
    <3>5. Proposes(P, A, r, h)
      BY <1>1, <1>3, <3>2, <3>4, ProposesAfter
    <3> QED
      BY <3>5 DEF h
  <2> QED
    BY <2>9, <2>10
<1> QED
  BY <1>4, <1>5

\* Taking P1b's into the queue of handleP1bLeader, or the first one out.
LEMMA QueueAdvances ==
  ASSUME NEW I, NEW P, NEW A, NEW r, Setting(I, P, A, r), NEW q \in Seq(P1bRecord), P1bSeqOK(I, P, q)
  PROVE  Advances(I, P, A, r, [r EXCEPT !.p1bQueue = q])
<1> DEFINE t == [r EXCEPT !.p1bQueue = q]
<1>1. r \in Replica /\ Good(I, P, r)
  BY DEF Setting, Good
<1>2. Good(I, P, t)
  BY <1>1, QueueGood
<1>3. /\ t.id = r.id /\ t.execute = r.execute /\ t.db = r.db /\ t.replies = r.replies
      /\ t.slot = r.slot /\ t.log = r.log /\ t.p3slots = r.p3slots /\ t.out = r.out
  BY <1>1 DEF Replica
<1> HIDE DEF t
<1>4. Advances(I, P, A, r, t)
  BY <1>2, <1>3, AsideAdvances
<1> QED
  BY <1>4 DEF t
-----------------------------------------------------------------------------
(* Steps.                                                                   *)

\* What every node may ask for.
AskedBy == [n \in Node |-> Asked(node[n])]

\* Node n moves to t by a handler that keeps the history; what it proposes is
\* its own.
Moves(n, taken, t) ==
  /\ t \in Replica /\ Step(n, taken, t)
  /\ Proposes(proposals, AskedBy, node[n], t)
  /\ \A p \in PropsOf(t) : p \in proposals \/ ID(p[1]) = n

\* Where the handlers start, while nothing is contested.
LEMMA HistoryContext ==
  ASSUME Inv, RequestInv, HistoryInv, Uncontested
  PROVE  /\ \A n \in Node : /\ Setting(issued, proposals, AskedBy, node[n])
                            /\ node[n].id = n /\ node[n].out = {} /\ node[n] \in Replica
         /\ \A m \in DOMAIN msgs : MsgPlaced(proposals, AskedBy, m)
<1>1. ASSUME NEW n \in Node PROVE Setting(issued, proposals, AskedBy, node[n])
  <2>1. Context(issued, proposals) /\ Good(issued, proposals, node[n])
    BY InvContext
  <2>2. HoldingOK(node[n]) /\ HistoryOK(proposals, node[n]) /\ node[n].out = {}
    BY DEF RequestInv, HistoryInv, Inv, TypeOK
  <2> QED
    BY <2>1, <2>2 DEF Setting, Sound, Uncontested
<1> QED
  BY <1>1 DEF HistoryInv, AskedBy, Inv, TypeOK

LEMMA QuietMoves ==
  ASSUME NEW n, NEW taken, NEW t, Advances(issued, proposals, AskedBy, node[n], t),
         Step(n, taken, t)
  PROVE  \E x, u : Moves(n, x, u)
<1>1. Good(issued, proposals, t)
  BY DEF Advances
<1>2. PropsOf(t) \subseteq proposals
  BY <1>1, PropsCounted
<1>3. Proposes(proposals, AskedBy, node[n], t)
  BY QuietProposes
<1>4. Moves(n, taken, t)
  BY <1>1, <1>2, <1>3 DEF Moves, Good
<1> QED
  BY <1>4

LEMMA ProposingMoves ==
  ASSUME NEW n, node[n].id = n, NEW taken, NEW t, Outcome(issued, proposals, node[n], t),
         Proposes(proposals, AskedBy, node[n], t), Step(n, taken, t)
  PROVE  \E x, u : Moves(n, x, u)
<1>1. Moves(n, taken, t)
  BY DEF Moves, Outcome, Good
<1> QED
  BY <1>1

\* Every handler of a message or request keeps the history.
LEMMA ReceiveMoves ==
  ASSUME Inv, RequestInv, HistoryInv, Uncontested, NEW n \in Node, Receive(n)
  PROVE  \E x, u : Moves(n, x, u)
<1> DEFINE r == node[n]
           P == proposals
           A == AskedBy
<1>1. /\ Context(issued, P) /\ Good(issued, P, r) /\ r.id = n /\ r \in Replica
      /\ Setting(issued, P, A, r) /\ r.out = {}
  BY InvContext, HistoryContext
<1>2. ASSUME NEW taken, NEW t, Step(n, taken, t)
      PROVE  t.slot <= MaxSlot
  BY <1>2 DEF Step, WithinBounds
<1>3. CASE ReceiveRequest(n)
  <2>1. PICK m \in Inbox(n, "Request") :
          Step(n, {m}, IF ~StableLeader \/ IsLeader(r) \/ r.ballot = 0
                       THEN HandleRequest(r, m.command) ELSE Forward(r, ID(r.ballot), {m.command}))
    BY <1>3 DEF ReceiveRequest
  <2>2. m \in Message /\ m.type = "Request" /\ m.command \in Cmd
    BY InboxFacts DEF Message
  <2>3. CASE Step(n, {m}, HandleRequest(r, m.command))
    <3> DEFINE t == HandleRequest(r, m.command)
    <3>1. t.slot <= MaxSlot
      BY <1>2, <2>3
    <3>2. Outcome(issued, P, r, t) /\ Proposes(P, A, r, t)
      BY <1>1, <2>2, <3>1, HandleRequestOutcome, HandleRequestProposes
    <3> QED
      BY <1>1, <2>3, <3>2, ProposingMoves
  <2>4. CASE Step(n, {m}, Forward(r, ID(r.ballot), {m.command}))
    <3> DEFINE ms == {[type |-> "Request", command |-> c, dst |-> {ID(r.ballot)}] : c \in {m.command}}
               t == Forward(r, ID(r.ballot), {m.command})
    <3>1. ID(r.ballot) \in Int
      BY <1>1, OwnerIsInt DEF Replica
    <3>2. Good(issued, P, t)
      BY <1>1, <2>2, <3>1, ForwardGood
    <3>3. \A x \in ms : SendingOK(P, A, r, x)
      BY PlainSending
    <3>4. t = Emit(r, ms)
      BY DEF Forward
    <3> HIDE DEF t, ms
    <3>5. Advances(issued, P, A, r, t)
      BY <1>1, <3>2, <3>3, <3>4, EmitAdvances
    <3> QED
      BY <2>4, <3>5, QuietMoves DEF t
  <2> QED
    BY <2>1, <2>3, <2>4
<1>4. CASE ReceiveP1a(n)
  <2>1. PICK m \in Inbox(n, "P1a") :
          Step(n, {m}, IF m.via = 0 THEN HandleP1aRelay(r, m) ELSE HandleP1aLeaf(r, m))
    BY <1>4 DEF ReceiveP1a
  <2>2. m \in Message /\ m.type = "P1a" /\ MsgOK(issued, P, m) /\ MsgPlaced(P, A, m)
    BY InboxFacts, HistoryContext DEF Inbox
  <2>3. CASE m.via = 0
    <3> DEFINE t == HandleP1aRelay(r, m)
    <3>1. Step(n, {m}, t)
      BY <2>1, <2>3
    <3>2. t.slot <= MaxSlot
      BY <1>2, <3>1
    <3>3. Outcome(issued, P, r, t) /\ Proposes(P, A, r, t)
      BY <1>1, <2>2, <3>2, HandleP1aRelayOutcome, HandleP1aRelayProposes
    <3> QED
      BY <1>1, <3>1, <3>3, ProposingMoves
  <2>4. CASE m.via # 0
    BY <1>1, <2>1, <2>2, <2>4, HandleP1aLeafAdvances, QuietMoves
  <2> QED
    BY <2>3, <2>4
<1>5. CASE ReceiveP2a(n)
  <2>1. PICK m \in Inbox(n, "P2a") :
          Step(n, {m}, IF m.via = 0 THEN HandleP2aRelay(r, m) ELSE HandleP2aLeaf(r, m))
    BY <1>5 DEF ReceiveP2a
  <2>2. /\ m \in Message /\ m.type = "P2a" /\ MsgOK(issued, P, m) /\ MsgPlaced(P, A, m)
        /\ r.id \in m.dst
    BY <1>1, InboxFacts, HistoryContext DEF Inbox
  <2>3. CASE m.via = 0
    <3>1. Advances(issued, P, A, r, HandleP2aRelay(r, m))
      BY <1>1, <2>2, HandleP2aRelayAdvances
    <3> QED
      BY <2>1, <2>3, <3>1, QuietMoves
  <2>4. CASE m.via # 0
    <3>1. Advances(issued, P, A, r, HandleP2aLeaf(r, m))
      BY <1>1, <2>2, <2>4, HandleP2aLeafAdvances
    <3> QED
      BY <2>1, <2>4, <3>1, QuietMoves
  <2> QED
    BY <2>3, <2>4
<1>6. CASE ReceiveP3(n)
  <2>1. PICK m \in Inbox(n, "P3") :
          Step(n, {m}, IF m.via = 0 THEN HandleP3Relay(r, m) ELSE HandleP3(r, m.p3))
    BY <1>6 DEF ReceiveP3
  <2>2. /\ m \in Message /\ m.type = "P3" /\ MsgOK(issued, P, m) /\ MsgPlaced(P, A, m)
        /\ r.id \in m.dst
    BY <1>1, InboxFacts, HistoryContext DEF Inbox
  <2>3. m.p3 \in P3Info /\ m.src # r.id /\ \A s \in m.p3.slots : ProposedBy(P, m.src, s)
    BY <2>2 DEF Message, MsgPlaced
  <2>4. CASE m.via = 0
    <3>1. Advances(issued, P, A, r, HandleP3Relay(r, m))
      BY <1>1, <2>2, HandleP3RelayAdvances
    <3> QED
      BY <2>1, <2>4, <3>1, QuietMoves
  <2>5. CASE m.via # 0
    <3>1. Advances(issued, P, A, r, HandleP3(r, m.p3))
      BY <1>1, <2>3, HandleP3Advances
    <3> QED
      BY <2>1, <2>5, <3>1, QuietMoves
  <2> QED
    BY <2>4, <2>5
<1>7. CASE ReceivePrepare(n)
  <2>1. PICK m \in Inbox(n, "Prepare") : Step(n, {m}, [r EXCEPT !.halted = TRUE])
    BY <1>7 DEF ReceivePrepare
  <2> QED
    BY <1>1, <2>1, HaltAdvances, QuietMoves
<1>8. CASE ReceiveLeafP1b(n)
  <2>1. PICK m \in Inbox(n, "P1b") : Step(n, {m}, ReceiveP1b(r, m.p1b))
    BY <1>8 DEF ReceiveLeafP1b
  <2> DEFINE p == m.p1b
             t == ReceiveP1b(r, p)
  <2>2. m \in Message /\ m.type = "P1b" /\ MsgOK(issued, P, m)
    BY InboxFacts
  <2>3. p \in P1bRecord /\ P1bOK(issued, P, p) /\ t.slot <= MaxSlot
    BY <1>2, <2>1, <2>2 DEF Message, MsgOK
  <2>4. Outcome(issued, P, r, t) /\ Proposes(P, A, r, t)
    BY <1>1, <2>3, ReceiveP1bOutcome, ReceiveP1bProposes
  <2> QED
    BY <1>1, <2>1, <2>4, ProposingMoves
<1>9. CASE ReceiveP1bs(n)
  <2>1. PICK m \in Inbox(n, "P1bs") : Step(n, {m}, [r EXCEPT !.p1bQueue = m.p1bs])
    BY <1>9 DEF ReceiveP1bs
  <2> DEFINE t == [r EXCEPT !.p1bQueue = m.p1bs]
  <2>2. m \in Message /\ m.type = "P1bs" /\ MsgOK(issued, P, m)
    BY InboxFacts
  <2>3. m.p1bs \in Seq(P1bRecord) /\ P1bSeqOK(issued, P, m.p1bs)
    BY <2>2 DEF Message, MsgOK
  <2>4. Advances(issued, P, A, r, t)
    BY <1>1, <2>3, QueueAdvances
  <2> QED
    BY <2>1, <2>4, QuietMoves
<1>10. CASE HandleP1bLeader(n)
  <2> DEFINE s == [r EXCEPT !.p1bQueue = Tail(r.p1bQueue)]
             p == Head(r.p1bQueue)
             t == HandleP1b(s, p)
  <2>1. r.p1bQueue # <<>> /\ Step(n, {}, t)
    BY <1>10 DEF HandleP1bLeader
  <2>2. r.p1bQueue \in Seq(P1bRecord) /\ P1bSeqOK(issued, P, r.p1bQueue)
    BY <1>1 DEF Good, Replica, ReplicaOK, RelayOK
  <2>3. p \in P1bRecord /\ P1bOK(issued, P, p)
    BY <2>1, <2>2 DEF P1bSeqOK
  <2>4. Tail(r.p1bQueue) \in Seq(P1bRecord) /\ P1bSeqOK(issued, P, Tail(r.p1bQueue))
    BY <2>1, <2>2 DEF P1bSeqOK
  <2>5. Good(issued, P, s) /\ Keeps(r, s) /\ Advances(issued, P, A, r, s)
    BY <1>1, <2>4, QueueGood, QueueAdvances
  <2> HIDE DEF r, s, p
  <2>6. t.slot <= MaxSlot
    BY <1>2, <2>1
  <2>7. Outcome(issued, P, s, t) /\ t \in Replica
    BY <1>1, <2>3, <2>5, <2>6, HandleP1bOutcome, OutcomeIsReplica
  <2>8. Setting(issued, P, A, s)
    BY <1>1, <2>5, AdvancesOn
  <2>9. Proposes(P, A, s, t)
    BY <2>3, <2>6, <2>8, HandleP1bProposes
  <2>10. Outcome(issued, P, r, t)
    BY <1>1, <2>5, <2>7, OutcomeAfter
  <2>11. Proposes(P, A, r, t)
    BY <1>1, <2>5, <2>7, <2>9, ProposesAfter
  <2> QED
    BY <1>1, <2>1, <2>10, <2>11, ProposingMoves DEF r
<1>11. CASE ReceiveVote(n)
  <2>1. PICK m \in Inbox(n, "P2b") : Step(n, {m}, ReceiveP2b(r, m.ballot, m.slot, m.ids))
    BY <1>11 DEF ReceiveVote
  <2>2. m \in Message /\ m.type = "P2b" /\ MsgOK(issued, P, m)
    BY InboxFacts
  <2>3. m.slot \in Slot /\ m.ids \in Seq(Node) /\ KnownBallot(issued, m.ballot)
    BY <2>2 DEF Message, MsgOK
  <2>4. Advances(issued, P, A, r, ReceiveP2b(r, m.ballot, m.slot, m.ids))
    BY <1>1, <2>3, ReceiveP2bAdvances
  <2> QED
    BY <2>1, <2>4, QuietMoves
<1>12. CASE ReceiveP2bAggregated(n)
  <2>1. PICK m \in Inbox(n, "P2bAggregated") : Step(n, {m}, HandleP2bAggregated(r, m))
    BY <1>12 DEF ReceiveP2bAggregated
  <2>2. m \in Message /\ m.type = "P2bAggregated" /\ MsgOK(issued, P, m)
    BY InboxFacts
  <2> QED
    BY <1>1, <2>1, <2>2, HandleP2bAggregatedAdvances, QuietMoves
<1>13. CASE ReceiveRecoverRequest(n)
  <2>1. PICK m \in Inbox(n, "RecoverRequest") :
          Step(n, {m}, HandleP3RecoverRequest(r, m.slot, m.id))
    BY <1>13 DEF ReceiveRecoverRequest
  <2>2. m \in Message /\ m.type = "RecoverRequest" /\ MsgPlaced(P, A, m)
    BY InboxFacts, HistoryContext DEF Inbox
  <2>3. m.slot \in Slot /\ m.id \in Node /\ m.slot \in A[m.id]
    BY <2>2 DEF Message, MsgPlaced
  <2>4. Advances(issued, P, A, r, HandleP3RecoverRequest(r, m.slot, m.id))
    BY <1>1, <2>3, HandleP3RecoverRequestAdvances
  <2> QED
    BY <2>1, <2>4, QuietMoves
<1>14. CASE ReceiveRecoverReply(n)
  <2>1. PICK m \in Inbox(n, "RecoverReply") : Step(n, {m}, HandleP3RecoverReply(r, m))
    BY <1>14 DEF ReceiveRecoverReply
  <2>2. /\ m \in Message /\ m.type = "RecoverReply" /\ MsgOK(issued, P, m) /\ MsgPlaced(P, A, m)
        /\ n \in m.dst
    BY InboxFacts, HistoryContext DEF Inbox
  <2>3. m.slot \in Asked(r)
    BY <2>2 DEF MsgPlaced, AskedBy
  <2> QED
    BY <1>1, <2>1, <2>2, <2>3, HandleP3RecoverReplyAdvances, QuietMoves
<1> QED
  BY <1>3, <1>4, <1>5, <1>6, <1>7, <1>8, <1>9, <1>10, <1>11, <1>12, <1>13, <1>14 DEF Receive

\* So does every timeout of the ticker.
LEMMA TickMoves ==
  ASSUME Inv, RequestInv, HistoryInv, Uncontested, NEW n \in Node, Tick(n)
  PROVE  \E x, u : Moves(n, x, u)
<1> DEFINE r == node[n]
           P == proposals
           A == AskedBy
<1>1. /\ Context(issued, P) /\ Good(issued, P, r) /\ r.id = n /\ r \in Replica
      /\ Setting(issued, P, A, r) /\ Sound(P, A, r)
  BY InvContext, HistoryContext DEF Setting
<1>2. ASSUME NEW t, Advances(issued, P, A, r, t), Step(n, {}, t)
      PROVE  \E x, u : Moves(n, x, u)
  BY <1>2, QuietMoves
<1>3. CASE TickRetryP2a(n)
  BY <1>1, <1>2, <1>3, RetryP2aAdvances DEF TickRetryP2a
<1>4. CASE TickRetryP1a(n)
  BY <1>1, <1>2, <1>4, RetryP1aAdvances DEF TickRetryP1a, IsLeader
<1>5. CASE TickP3(n)
  <2> DEFINE p3 == [ballot |-> r.p3ballot, slots |-> r.p3slots]
             s == [r EXCEPT !.p3slots = {}]
             ms == RoutedP3(n, p3)
             t == Emit(s, ms)
  <2>1. Step(n, {}, t)
    BY <1>5 DEF TickP3
  <2>2. /\ p3 \in P3Info /\ p3.slots \subseteq r.p3slots /\ s \in Replica /\ SameCore(r, s)
        /\ s.id = r.id /\ s.execute = r.execute /\ s.db = r.db /\ s.replies = r.replies
        /\ s.slot = r.slot /\ s.log = r.log /\ s.p3slots \subseteq r.p3slots /\ s.out = r.out
    BY <1>1 DEF Replica, P3Info, SameCore
  <2> HIDE DEF p3, s
  <2>3. Good(issued, P, s)
    BY <1>1, <2>2, SameCoreGood
  <2>4. Good(issued, P, t)
    BY <2>2, <2>3, RoutedP3OK, EmitGood
  <2>5. Advances(issued, P, A, r, s)
    BY <1>1, <2>2, <2>3, AsideAdvances
  <2>6. \A m \in ms : SendingOK(P, A, s, m)
    BY <1>1, <2>2, RoutedP3Sending
  <2> HIDE DEF ms
  <2>7. Setting(issued, P, A, s)
    BY <1>1, <2>5, AdvancesOn
  <2>8. Advances(issued, P, A, s, t)
    BY <2>4, <2>6, <2>7, EmitAdvances
  <2>9. Advances(issued, P, A, r, t)
    BY <1>1, <2>5, <2>8, AdvancesOn
  <2> QED
    BY <1>2, <2>1, <2>9
<1>6. CASE TickRelayP1b(n)
  <2> DEFINE t == FlushP1b(r, r.p1bRelay.p1bs)
  <2>1. r.p1bRelay.pending /\ Step(n, {}, t)
    BY <1>6 DEF TickRelayP1b
  <2>2. r.p1bRelay.p1bs \in Seq(P1bRecord) /\ P1bSeqOK(issued, P, r.p1bRelay.p1bs)
    BY <1>1 DEF Good, Replica, P1bRelay, ReplicaOK, RelayOK
  <2> QED
    BY <1>1, <1>2, <2>1, <2>2, FlushP1bAdvances
<1>7. ASSUME NEW s \in Slot, TickRelayP2b(n, s)
      PROVE  \E x, u : Moves(n, x, u)
  <2> DEFINE ids == r.p2bRelay[s].ids
             t == FlushP2b(r, s, ids, ComputeMissingIDsForP2b(r, ids))
  <2>1. r.p2bRelay[s].pending /\ Step(n, {}, t)
    BY <1>7 DEF TickRelayP2b
  <2>2. ids \in Seq(Node) /\ ComputeMissingIDsForP2b(r, ids) \in SUBSET Node
    BY <1>1, MissingAreNodes DEF Replica, P2bRelay
  <2> QED
    BY <1>1, <1>2, <2>1, <2>2, FlushP2bAdvances
<1>8. CASE TickCleanup(n)
  BY <1>1, <1>2, <1>8, CleanupLogAdvances DEF TickCleanup
<1> QED
  BY <1>3, <1>4, <1>5, <1>6, <1>7, <1>8 DEF Tick

\* HistoryInv without its first conjunct, of the replicas nd, the messages B
\* and the proposals P.
HistoryIn(nd, B, P) ==
  /\ \A n \in Node : HistoryOK(P, nd[n])
  /\ \A m \in B : MsgPlaced(P, [n \in Node |-> Asked(nd[n])], m)
  /\ \A p, q \in P : p[3] = q[3] => p[2] = q[2]

LEMMA HistoryContents ==
  /\ HistoryInv <=> /\ IsFiniteSet(submitted)
                    /\ UncontestedIn(proposals) => HistoryIn(node, DOMAIN msgs, proposals)
  /\ HistoryInv' <=> /\ IsFiniteSet(submitted')
                     /\ UncontestedIn(proposals') => HistoryIn(node', DOMAIN msgs', proposals')
BY DEF HistoryInv, HistoryIn, Uncontested, UncontestedIn

\* A message goes on saying what holds, while there are more proposals and more
\* slots to ask for.
LEMMA MsgPlacedMore ==
  ASSUME NEW P, NEW P2, P \subseteq P2, NEW A, NEW B, \A q \in Node : A[q] \subseteq B[q],
         NEW m \in Message, MsgPlaced(P, A, m)
  PROVE  MsgPlaced(P2, B, m)
<1>1. m.type = "RecoverRequest" => m.id \in Node
  BY DEF Message
<1>2. m.type = "RecoverReply" => m.dst \subseteq Node
  BY DEF Message
<1>3. \A q, s : ProposedBy(P, q, s) => ProposedBy(P2, q, s)
  BY DEF ProposedBy
<1> QED
  BY <1>1, <1>2, <1>3 DEF MsgPlaced

\* The proposals of other nodes do not concern a replica.
LEMMA HistoryOfOthers ==
  ASSUME NEW P, NEW P2, NEW r, P \subseteq P2, \A p \in P2 : p \in P \/ ID(p[1]) # r.id,
         HistoryOK(P, r)
  PROVE  HistoryOK(P2, r)
BY DEF HistoryOK, PlacedOK, ProposedBy

\* A command that is in one place at most, and waits in the log of the node that
\* proposed it, was proposed for one slot.
LEMMA OneSlotEach ==
  ASSUME NEW nd, NEW b, NEW P \in SUBSET (Ballot \X Slot \X Cmd),
         \A c \in Cmd : \A g, h \in Places(nd, b, c) : g = h,
         \A p \in P : ID(p[1]) \in Node,
         \A n \in Node : nd[n].id = n /\ PlacedOK(P, nd[n]),
         NEW p \in P, nd[ID(p[1])].log[p[2]].request = p[3],
         NEW q \in P, q[3] = p[3]
  PROVE  q[2] = p[2]
<1> DEFINE n == ID(p[1])
           o == ID(q[1])
           c == p[3]
<1>1. n \in Node /\ o \in Node /\ c \in Cmd /\ p[2] \in Slot /\ q[2] \in Slot /\ nd[o].id = o
  OBVIOUS
<1>2. nd[n].log[p[2]].request = c /\ PlacedOK(P, nd[o])
  OBVIOUS
<1> HIDE DEF n, c
<1>3. <<n, <<"log", p[2]>>>> \in Places(nd, b, c)
  BY <1>1, <1>2 DEF Places, HeldBy, InLog
<1>4. \/ nd[o].log[q[2]].request = c
      \/ <<c, c>> \in nd[o].replies
  BY <1>1, <1>2 DEF PlacedOK, c
<1> HIDE DEF o
<1>5. CASE nd[o].log[q[2]].request = c
  <2>1. <<o, <<"log", q[2]>>>> \in Places(nd, b, c)
    BY <1>1, <1>5 DEF Places, HeldBy, InLog
  <2>2. <<o, <<"log", q[2]>>>> = <<n, <<"log", p[2]>>>>
    BY <1>1, <1>3, <2>1
  <2> QED
    BY <2>2
<1>6. CASE <<c, c>> \in nd[o].replies
  <2>1. <<o, <<"reply", c>>>> \in Places(nd, b, c)
    BY <1>1, <1>6 DEF Places, HeldBy, Replied, MaybeCmd
  <2>2. <<o, <<"reply", c>>>> = <<n, <<"log", p[2]>>>>
    BY <1>1, <1>3, <2>1
  <2> QED
    BY <2>2
<1> QED
  BY <1>4, <1>5, <1>6

\* No command is in two places.
LEMMA OnePlace ==
  /\ RequestInv => \A c \in Cmd : \A g, h \in Places(node, msgs, c) : g = h
  /\ RequestInv' => \A c \in Cmd : \A g, h \in Places(node', msgs', c) : g = h
<1>1. RequestInv => \A c \in Cmd : \A g, h \in Holders(c) : g = h
  BY DEF RequestInv
<1>2. RequestInv' => \A c \in Cmd : \A g, h \in Holders(c)' : g = h
  BY DEF RequestInv
<1> QED
  BY <1>1, <1>2, HoldersArePlaces

\* What a step of node n that keeps the history changes.
LEMMA MovesFacts ==
  ASSUME Inv, Inv', NEW n \in Node, NEW taken, NEW t, Moves(n, taken, t)
  PROVE  /\ node'[n] = [t EXCEPT !.out = {}] /\ \A q \in Node \ {n} : node'[q] = node[q]
         /\ node \in [Node -> Replica] /\ node' \in [Node -> Replica]
         /\ \A q \in Node : node[q].id = q /\ node'[q].id = q
         /\ proposals' = proposals \cup PropsOf(t) /\ submitted' = submitted
         /\ proposals' \in SUBSET (Ballot \X Slot \X Cmd)
         /\ \A p \in proposals' : ID(p[1]) \in Node
         /\ DOMAIN msgs' \subseteq DOMAIN msgs \cup t.out
         /\ DOMAIN msgs \subseteq Message
<1>1. /\ node' = [node EXCEPT ![n] = [t EXCEPT !.out = {}]]
      /\ msgs' = (msgs (-) SetToBag(taken)) (+) SetToBag(t.out)
      /\ proposals' = proposals \cup PropsOf(t) /\ submitted' = submitted
  BY DEF Moves, Step, PropsOf
<1>2. IsABag(msgs) /\ node \in [Node -> Replica] /\ DOMAIN msgs \subseteq Message
      /\ \A q \in Node : node[q].id = q
  BY DEF Inv, TypeOK
<1>3. IsABag(msgs (-) SetToBag(taken)) /\ DOMAIN (msgs (-) SetToBag(taken)) \subseteq DOMAIN msgs
  BY <1>2, BagWithout
<1>4. DOMAIN msgs' \subseteq DOMAIN msgs \cup t.out
  BY <1>1, <1>3, BagWith
<1>5. /\ node' \in [Node -> Replica] /\ \A q \in Node : node'[q].id = q
      /\ proposals' \subseteq Ballot \X Slot \X Cmd
  BY DEF Inv, TypeOK
<1>6. \A p \in proposals' : ID(p[1]) \in Node
  BY DEF Inv, ProposalsOK
<1> QED
  BY <1>1, <1>2, <1>4, <1>5, <1>6

\* A step that keeps the history preserves HistoryInv.
LEMMA MovesKeepHistory ==
  ASSUME Inv, RequestInv, HistoryInv, Inv', RequestInv', Uncontested, Uncontested',
         NEW n \in Node, NEW taken, NEW t, Moves(n, taken, t)
  PROVE  HistoryInv'
<1> DEFINE r == node[n]
           u == node'[n]
           P == proposals
           P2 == proposals'
           A == AskedBy
           B == [q \in Node |-> Asked(node'[q])]
<1>1. /\ u = [t EXCEPT !.out = {}] /\ \A q \in Node \ {n} : node'[q] = node[q]
      /\ \A q \in Node : node[q].id = q /\ node'[q].id = q
      /\ P2 = P \cup PropsOf(t) /\ submitted' = submitted
      /\ P2 \in SUBSET (Ballot \X Slot \X Cmd) /\ \A p \in P2 : ID(p[1]) \in Node
      /\ DOMAIN msgs' \subseteq DOMAIN msgs \cup t.out /\ DOMAIN msgs \subseteq Message
  BY MovesFacts
<1>2. t \in Replica /\ \A p \in PropsOf(t) : p \in P \/ ID(p[1]) = n
  BY DEF Moves
<1>3. /\ u.id = t.id /\ u.log = t.log /\ u.execute = t.execute /\ u.slot = t.slot
      /\ u.replies = t.replies /\ u.p3slots = t.p3slots
  BY <1>1, <1>2 DEF Replica
<1>4. /\ Sound(P2, A, t) /\ Serves(r, t)
      /\ \A p \in PropsOf(t) : p \in P \/ t.log[p[2]].request = p[3]
  <2>1. UncontestedIn(P \cup PropsOf(t))
    BY <1>1 DEF Uncontested, UncontestedIn
  <2> QED
    BY <1>1, <2>1 DEF Moves, Proposes, Faithful
<1>5. IsFiniteSet(submitted) /\ HistoryIn(node, DOMAIN msgs, P)
  BY HistoryContents DEF Uncontested
<1> HIDE DEF r, u
<1>6. \A q \in Node : HistoryOK(P2, node'[q])
  <2>1. HistoryOK(P2, u)
    BY <1>3, <1>4 DEF Sound, HistoryOK, EntriesOK, PlacedOK
  <2>2. ASSUME NEW q \in Node, q # n PROVE HistoryOK(P2, node'[q])
    <3>1. HistoryOK(P, node[q]) /\ node'[q] = node[q] /\ node[q].id = q
      BY <1>1, <1>5, <2>2 DEF HistoryIn
    <3>2. \A p \in P2 : p \in P \/ ID(p[1]) # q
      BY <1>1, <1>2, <2>2
    <3>3. P \subseteq P2
      BY <1>1
    <3> QED
      BY <3>1, <3>2, <3>3, HistoryOfOthers
  <2> QED
    BY <2>1, <2>2 DEF u
<1>7. \A q \in Node : A[q] \subseteq B[q]
  <2>1. Asked(r) \subseteq Asked(u)
    BY <1>3, <1>4 DEF Serves, Asked
  <2> QED
    BY <1>1, <2>1 DEF AskedBy, r, u
<1>8. \A m \in DOMAIN msgs' : MsgPlaced(P2, B, m)
  <2>1. ASSUME NEW m \in DOMAIN msgs PROVE MsgPlaced(P2, B, m)
    <3>1. m \in Message /\ MsgPlaced(P, A, m) /\ P \subseteq P2
      BY <1>1, <1>5 DEF HistoryIn, AskedBy
    <3> HIDE DEF A, B
    <3> QED
      BY <1>7, <3>1, MsgPlacedMore
  <2>2. ASSUME NEW m \in t.out PROVE MsgPlaced(P2, B, m)
    <3>1. SendingOK(P2, A, t, m)
      BY <1>4 DEF Sound
    <3>2. m \in Message
      BY <1>2 DEF Replica
    <3>3. m.type = "RecoverRequest" => m.slot \in B[m.id]
      <4>1. u.id = n /\ B[n] = Asked(u) /\ Asked(u) = Asked(t)
        BY <1>1, <1>3 DEF u, Asked
      <4> QED
        BY <1>3, <3>1, <4>1 DEF SendingOK
    <3>4. m.type = "RecoverReply" => m.dst \subseteq Node
      BY <3>2 DEF Message
    <3>5. m.type = "RecoverReply" => \A q \in m.dst : m.slot \in B[q]
      BY <1>7, <3>1, <3>4 DEF SendingOK
    <3> QED
      BY <3>1, <3>3, <3>5 DEF SendingOK, MsgPlaced
  <2> QED
    BY <1>1, <2>1, <2>2
<1>9. ASSUME NEW p \in PropsOf(t), p \notin P, NEW q \in P2, q[3] = p[3]
      PROVE  q[2] = p[2]
  <2>1. p \in P2 /\ ID(p[1]) = n
    BY <1>1, <1>2, <1>9
  <2>2. node'[ID(p[1])].log[p[2]].request = p[3]
    BY <1>3, <1>4, <1>9, <2>1 DEF u
  <2>3. \A c \in Cmd : \A g, h \in Places(node', msgs', c) : g = h
    BY OnePlace
  <2>4. \A o \in Node : node'[o].id = o /\ PlacedOK(P2, node'[o])
    BY <1>1, <1>6 DEF HistoryOK
  <2> QED
    BY <1>1, <1>9, <2>1, <2>2, <2>3, <2>4, OneSlotEach
<1>10. \A p, q \in P2 : p[3] = q[3] => p[2] = q[2]
  <2>1. \A p, q \in P : p[3] = q[3] => p[2] = q[2]
    BY <1>5 DEF HistoryIn
  <2> QED
    BY <1>1, <1>9, <2>1
<1>11. HistoryIn(node', DOMAIN msgs', P2)
  BY <1>6, <1>8, <1>10 DEF HistoryIn
<1> QED
  BY <1>1, <1>5, <1>11, HistoryContents

\* Initially nothing was proposed.
LEMMA InitHistory == Init => HistoryInv
<1> SUFFICES ASSUME Init PROVE HistoryInv
  OBVIOUS
<1>1. DOMAIN msgs = {} /\ proposals = {} /\ submitted = {}
  BY DEF Init, EmptyBag, SetToBag
<1>2. ASSUME NEW n \in Node PROVE HistoryOK({}, node[n])
  <2>1. node[n] = NewReplica(n)
    BY DEF Init
  <2>2. /\ NewReplica(n).replies = {} /\ NewReplica(n).p3slots = {}
        /\ NewReplica(n).log = [s \in Slot |-> NoEntry] /\ NoEntry.request = NoCmd
    BY DEF NewReplica, NoEntry
  <2> QED
    BY <2>1, <2>2 DEF HistoryOK, EntriesOK, PlacedOK
<1>3. HistoryIn(node, DOMAIN msgs, proposals)
  BY <1>1, <1>2 DEF HistoryIn
<1> QED
  BY <1>1, <1>3, FS_EmptySet, HistoryContents

\* A step of the network, or of a client, that proposes nothing.
LEMMA OutsideKeepsHistory ==
  ASSUME Inv, HistoryInv, node' = node, proposals' = proposals, IsFiniteSet(submitted'),
         \A m \in DOMAIN msgs' : m \in DOMAIN msgs \/ m.type = "Request"
  PROVE  HistoryInv'
<1> SUFFICES ASSUME UncontestedIn(proposals') PROVE HistoryIn(node', DOMAIN msgs', proposals')
  BY HistoryContents
<1>1. HistoryIn(node, DOMAIN msgs, proposals)
  BY HistoryContents
<1>2. \A P, A, m : m.type = "Request" => MsgPlaced(P, A, m)
  BY DEF MsgPlaced
<1> QED
  BY <1>1, <1>2 DEF HistoryIn

\* A step of a node adds proposals and submits nothing.
LEMMA StepOfNode ==
  ASSUME NEW n \in Node, Receive(n) \/ Tick(n)
  PROVE  proposals \subseteq proposals' /\ submitted' = submitted
<1>1. ASSUME NEW taken, NEW t, Step(n, taken, t)
      PROVE  proposals \subseteq proposals' /\ submitted' = submitted
  BY <1>1 DEF Step
<1>2. CASE Receive(n)
  BY <1>1, <1>2 DEF Receive, ReceiveRequest, ReceiveP1a, ReceiveP2a, ReceiveP3, ReceivePrepare,
     ReceiveLeafP1b, ReceiveP1bs, HandleP1bLeader, ReceiveVote, ReceiveP2bAggregated,
     ReceiveRecoverRequest, ReceiveRecoverReply
<1>3. CASE Tick(n)
  BY <1>1, <1>3 DEF Tick, TickRetryP2a, TickRetryP1a, TickP3, TickRelayP1b, TickRelayP2b, TickCleanup
<1> QED
  BY <1>2, <1>3

\* Every step keeps the history.
LEMMA NextKeepsHistory ==
  ASSUME Inv, RequestInv, HistoryInv, Inv', RequestInv', [Next]_vars
  PROVE  HistoryInv'
<1>1. IsABag(msgs) /\ IsFiniteSet(submitted)
  BY HistoryContents DEF Inv, TypeOK
<1>2. ASSUME NEW n \in Node, Receive(n) \/ Tick(n)
      PROVE  HistoryInv'
  <2>1. CASE Uncontested'
    <3>1. proposals \subseteq proposals'
      BY <1>2, StepOfNode
    <3>2. Uncontested
      BY <2>1, <3>1 DEF Uncontested, UncontestedIn
    <3>3. \E x, u : Moves(n, x, u)
      BY <1>2, <3>2, ReceiveMoves, TickMoves
    <3> QED
      BY <2>1, <3>2, <3>3, MovesKeepHistory
  <2>2. CASE ~Uncontested'
    <3>1. submitted' = submitted
      BY <1>2, StepOfNode
    <3> QED
      BY <1>1, <2>2, <3>1, HistoryContents DEF Uncontested
  <2> QED
    BY <2>1, <2>2
<1>3. ASSUME NEW c \in Cmd, NEW n \in Entry[c], Submit(n, c)
      PROVE  HistoryInv'
  <2> DEFINE m == [type |-> "Request", command |-> c, dst |-> {n}]
  <2>1. /\ msgs' = msgs (+) SetToBag({m}) /\ submitted' = submitted \cup {c}
        /\ node' = node /\ proposals' = proposals /\ m.type = "Request"
    BY <1>3 DEF Submit
  <2> HIDE DEF m
  <2>2. DOMAIN msgs' = DOMAIN msgs \cup {m}
    BY <1>1, <2>1, BagWith
  <2>3. IsFiniteSet(submitted')
    BY <1>1, <2>1, FS_AddElement
  <2> QED
    BY <2>1, <2>2, <2>3, OutsideKeepsHistory
<1>4. CASE Lose
  <2>1. PICK m \in DOMAIN msgs : /\ msgs' = msgs (-) SetToBag({m})
                                 /\ UNCHANGED <<node, submitted, proposals>>
    BY <1>4 DEF Lose
  <2>2. DOMAIN msgs' \subseteq DOMAIN msgs
    BY <1>1, <2>1, BagWithout
  <2> QED
    BY <1>1, <2>1, <2>2, OutsideKeepsHistory
<1>5. CASE UNCHANGED vars
  BY <1>1, <1>5, OutsideKeepsHistory DEF vars
<1> QED
  BY <1>2, <1>3, <1>4, <1>5 DEF Next
-----------------------------------------------------------------------------
(* The replicated log.                                                      *)

\* One command per slot, one slot per command.
OneToOne(P) == \A p, q \in P : p[2] = q[2] <=> p[3] = q[3]

\* The replicas nd have executed proposals P of their slots, made of the
\* commands C.
Recorded(P, C, nd) ==
  /\ \A p \in P : p[3] \in C
  /\ \A n \in Node : /\ nd[n].db \in Seq(MaybeCmd) /\ Len(nd[n].db) <= MaxSlot + 1
                     /\ \A i \in 1..Len(nd[n].db) : \E p \in P : p[2] = i - 1 /\ p[3] = nd[n].db[i]

\* The longest database of the replicas nd.
Longest(nd) ==
  LET n == CHOOSE q \in Node : \A p \in Node : Len(nd[p].db) <= Len(nd[q].db)
  IN  nd[n].db

LEMMA HistoryIsLongest == History = Longest(node) /\ History' = Longest(node')
BY DEF History, Longest

\* There is a longest database.
LEMMA LongestIsLongest ==
  ASSUME NEW P, NEW C, NEW nd, Recorded(P, C, nd)
  PROVE  \E q \in Node : /\ Longest(nd) = nd[q].db
                         /\ \A p \in Node : Len(nd[p].db) <= Len(nd[q].db)
<1> DEFINE left(n) == MaxSlot + 1 - Len(nd[n].db)
           S == {left(n) : n \in Node}
<1>1. \A n \in Node : Len(nd[n].db) \in Nat /\ left(n) \in Nat
  BY MaxSlotAssumption, LenProperties DEF Recorded
<1>2. S \in SUBSET Nat /\ S # {}
  BY <1>1, NodeAssumption
<1>3. Min(S) \in S /\ \A y \in S : Min(S) <= y
  BY <1>2, LeastElement
<1>4. PICK q \in Node : Min(S) = left(q)
  BY <1>3
<1>5. \A p \in Node : left(q) <= left(p)
  BY <1>3, <1>4
<1>6. \A p \in Node : Len(nd[p].db) <= Len(nd[q].db)
  BY <1>1, <1>5, MaxSlotAssumption
<1>7. \E x \in Node : \A p \in Node : Len(nd[p].db) <= Len(nd[x].db)
  BY <1>6
<1> DEFINE n == CHOOSE x \in Node : \A p \in Node : Len(nd[p].db) <= Len(nd[x].db)
<1>8. n \in Node /\ \A p \in Node : Len(nd[p].db) <= Len(nd[n].db)
  BY <1>7
<1>9. Longest(nd) = nd[n].db
  BY DEF Longest
<1> QED
  BY <1>8, <1>9

\* Every database is a part of it from the front; no command is there twice.
LEMMA LongestFacts ==
  ASSUME NEW P, NEW C, NEW nd, Recorded(P, C, nd), OneToOne(P)
  PROVE  /\ Longest(nd) \in Seq(C)
         /\ \A i, j \in 1..Len(Longest(nd)) : Longest(nd)[i] = Longest(nd)[j] => i = j
         /\ \A n \in Node : /\ Len(nd[n].db) <= Len(Longest(nd))
                            /\ \A i \in 1..Len(nd[n].db) : nd[n].db[i] = Longest(nd)[i]
<1>1. PICK q \in Node : /\ Longest(nd) = nd[q].db
                        /\ \A p \in Node : Len(nd[p].db) <= Len(nd[q].db)
  BY LongestIsLongest
<1> DEFINE h == nd[q].db
<1>2. h \in Seq(MaybeCmd) /\ Len(h) \in Nat
  BY LenProperties DEF Recorded
<1>3. \A i \in 1..Len(h) : \E p \in P : p[2] = i - 1 /\ p[3] = h[i]
  BY DEF Recorded
<1>4. \A i \in 1..Len(h) : h[i] \in C
  BY <1>3 DEF Recorded
<1>5. h \in Seq(C)
  <2>1. h \in [1..Len(h) -> C]
    BY <1>2, <1>4, LenProperties
  <2> QED
    BY <1>2, <2>1
<1>6. ASSUME NEW i \in 1..Len(h), NEW j \in 1..Len(h), h[i] = h[j]
      PROVE  i = j
  <2>1. PICK p \in P : p[2] = i - 1 /\ p[3] = h[i]
    BY <1>3
  <2>2. PICK x \in P : x[2] = j - 1 /\ x[3] = h[j]
    BY <1>3
  <2>3. i - 1 = j - 1
    BY <1>6, <2>1, <2>2 DEF OneToOne
  <2> QED
    BY <2>3
<1>7. ASSUME NEW n \in Node, NEW i \in 1..Len(nd[n].db)
      PROVE  nd[n].db[i] = h[i]
  <2>1. PICK p \in P : p[2] = i - 1 /\ p[3] = nd[n].db[i]
    BY DEF Recorded
  <2>2. i \in 1..Len(h)
    <3>1. Len(nd[n].db) \in Nat /\ Len(nd[n].db) <= Len(h)
      BY <1>1, LenProperties DEF Recorded
    <3> QED
      BY <1>2, <3>1
  <2>3. PICK x \in P : x[2] = i - 1 /\ x[3] = h[i]
    BY <1>3, <2>2
  <2> QED
    BY <2>1, <2>3 DEF OneToOne
<1> QED
  BY <1>1, <1>5, <1>6, <1>7

\* Sequences with the same elements are equal.
LEMMA SameElements ==
  ASSUME NEW C, NEW s \in Seq(C), NEW t \in Seq(C), Len(s) = Len(t),
         \A i \in 1..Len(s) : s[i] = t[i]
  PROVE  s = t
<1>1. s \in [1..Len(s) -> C] /\ t \in [1..Len(s) -> C]
  BY LenProperties
<1> QED
  BY <1>1

\* How the longest database grows when replica n gets further: if it has to,
\* and by commands that were not executed before.
Grown(C, nd, nd2, n) ==
  LET h == Longest(nd)
      k == Longest(nd2)
      t == Len(nd2[n].db)
  IN  /\ t <= Len(h) => k = h
      /\ t > Len(h) => k \in {h \o x : x \in {y \in [1..(t - Len(h)) -> C \ Range(h)] :
                                                 IsInjective(y)}}
      /\ nd2[n].db = SubSeq(k, 1, t)
      /\ t <= Cardinality(C) /\ t \in Nat

LEMMA LongestGrows ==
  ASSUME NEW P, NEW Q, NEW C, IsFiniteSet(C), NEW nd, NEW nd2, NEW n \in Node,
         Recorded(P, C, nd), OneToOne(P), Recorded(Q, C, nd2), OneToOne(Q),
         \A q \in Node \ {n} : nd2[q].db = nd[q].db,
         Len(nd[n].db) <= Len(nd2[n].db),
         \A i \in 1..Len(nd[n].db) : nd2[n].db[i] = nd[n].db[i]
  PROVE  Grown(C, nd, nd2, n)
<1> DEFINE h == Longest(nd)
           k == Longest(nd2)
           t == Len(nd2[n].db)
<1>1. /\ h \in Seq(C) /\ Len(h) \in Nat
      /\ \A q \in Node : /\ Len(nd[q].db) <= Len(h)
                         /\ \A i \in 1..Len(nd[q].db) : nd[q].db[i] = h[i]
  BY LongestFacts, LenProperties
<1>2. /\ k \in Seq(C) /\ Len(k) \in Nat
      /\ \A i, j \in 1..Len(k) : k[i] = k[j] => i = j
      /\ \A q \in Node : /\ Len(nd2[q].db) <= Len(k)
                         /\ \A i \in 1..Len(nd2[q].db) : nd2[q].db[i] = k[i]
  BY LongestFacts, LenProperties
<1>3. PICK a \in Node : h = nd[a].db
  BY LongestIsLongest
<1>4. PICK b \in Node : k = nd2[b].db
  BY LongestIsLongest
<1>5. \A q \in Node : Len(nd[q].db) \in Nat /\ Len(nd2[q].db) \in Nat /\ nd2[q].db \in Seq(MaybeCmd)
  BY LenProperties DEF Recorded
<1> HIDE DEF h, k
<1>6. Len(h) <= Len(k) /\ \A i \in 1..Len(h) : k[i] = h[i]
  <2>1. Len(h) <= Len(nd2[a].db) /\ \A i \in 1..Len(h) : nd2[a].db[i] = h[i]
    BY <1>3, <1>5
  <2>2. \A i \in 1..Len(h) : i \in 1..Len(nd2[a].db)
    BY <1>1, <1>5, <2>1
  <2>3. Len(nd2[a].db) <= Len(k)
    BY <1>2
  <2>4. Len(h) <= Len(k)
    BY <1>1, <1>2, <1>5, <2>1, <2>3
  <2> QED
    BY <1>2, <2>1, <2>2, <2>4
<1>7. Len(k) <= Len(h) \/ Len(k) = t
  BY <1>1, <1>4
<1>8. t \in Nat /\ t <= Len(k)
  BY <1>2, <1>5
<1>9. t <= Len(h) => k = h
  <2> SUFFICES ASSUME t <= Len(h) PROVE k = h
    OBVIOUS
  <2>1. Len(k) = Len(h)
    BY <1>1, <1>2, <1>6, <1>7, <1>8
  <2> QED
    BY <1>1, <1>2, <1>6, <2>1, SameElements
<1>10. ASSUME t > Len(h)
       PROVE  k \in {h \o x : x \in {y \in [1..(t - Len(h)) -> C \ Range(h)] : IsInjective(y)}}
  <2> DEFINE d == t - Len(h)
             x == [i \in 1..d |-> k[Len(h) + i]]
  <2>1. Len(k) = t /\ d \in Nat /\ Len(h) + d = t
    BY <1>1, <1>7, <1>8, <1>10
  <2>2. \A i \in 1..d : Len(h) + i \in 1..Len(k) /\ Len(h) + i > Len(h)
    BY <1>1, <2>1
  <2>3. \A i \in 1..d : k[Len(h) + i] \in C
    BY <1>2, <2>2
  <2>4. ASSUME NEW i \in 1..d PROVE k[Len(h) + i] \notin Range(h)
    <3> SUFFICES ASSUME NEW j \in 1..Len(h), k[Len(h) + i] = h[j] PROVE FALSE
      BY <1>1 DEF Range
    <3>1. j \in 1..Len(k) /\ k[j] = h[j]
      BY <1>1, <1>2, <1>6
    <3>2. Len(h) + i = j
      BY <1>2, <2>2, <3>1
    <3> QED
      BY <1>1, <3>2
  <2>5. x \in [1..d -> C \ Range(h)]
    BY <2>3, <2>4
  <2>6. IsInjective(x)
    <3> SUFFICES ASSUME NEW i \in 1..d, NEW j \in 1..d, k[Len(h) + i] = k[Len(h) + j]
                 PROVE  i = j
      BY DEF IsInjective
    <3>1. Len(h) + i = Len(h) + j
      BY <1>2, <2>2
    <3> QED
      BY <1>1, <3>1
  <2>7. k = h \o x
    <3>1. x \in Seq(C) /\ Len(x) = d
      BY <2>1, <2>3
    <3>4. \A i \in 1..d : x[i] = k[Len(h) + i]
      OBVIOUS
    <3> HIDE DEF x, d
    <3>2. h \o x \in Seq(C) /\ Len(h \o x) = Len(h) + d
      BY <1>1, <3>1, ConcatProperties
    <3>3. ASSUME NEW i \in 1..Len(k) PROVE k[i] = (h \o x)[i]
      <4>1. (h \o x)[i] = IF i <= Len(h) THEN h[i] ELSE x[i - Len(h)]
        BY <1>1, <2>1, <3>1, ConcatProperties
      <4>2. CASE i <= Len(h)
        BY <1>1, <1>6, <4>1, <4>2
      <4>3. CASE i > Len(h)
        <5>1. i - Len(h) \in 1..d /\ Len(h) + (i - Len(h)) = i /\ ~(i <= Len(h))
          BY <1>1, <2>1, <4>3
        <5> QED
          BY <3>4, <4>1, <5>1
      <4>4. i <= Len(h) \/ i > Len(h)
        BY <1>1, <1>2
      <4> QED
        BY <4>2, <4>3, <4>4
    <3>5. Len(k) = Len(h \o x)
      BY <2>1, <3>2
    <3> HIDE DEF x
    <3> QED
      BY <1>2, <3>2, <3>3, <3>5, SameElements
  <2> QED
    BY <2>5, <2>6, <2>7
<1>11. nd2[n].db = SubSeq(k, 1, t)
  <2>1. k \in Seq(C \cup MaybeCmd) /\ nd2[n].db \in Seq(C \cup MaybeCmd)
    BY <1>2, <1>5
  <2>2. SubSeq(k, 1, t) \in Seq(C \cup MaybeCmd) /\ Len(SubSeq(k, 1, t)) = t
    BY <1>2, <1>8, <2>1
  <2>3. \A i \in 1..t : SubSeq(k, 1, t)[i] = k[i]
    BY <1>2, <1>8
  <2>4. \A i \in 1..t : nd2[n].db[i] = SubSeq(k, 1, t)[i]
    BY <1>2, <2>3
  <2> QED
    BY <2>1, <2>2, <2>4, SameElements
<1>12. t <= Cardinality(C)
  <2>1. k \in Injection(1..Len(k), C)
    BY <1>2, LenProperties DEF Injection, IsInjective
  <2>2. Cardinality(1..Len(k)) <= Cardinality(C)
    BY <2>1, FS_Injection
  <2>3. Cardinality(1..Len(k)) = Len(k)
    <3>1. Cardinality(1..Len(k)) = IF 1 > Len(k) THEN 0 ELSE Len(k) - 1 + 1
      <4>1. 1 \in Int /\ Len(k) \in Int
        BY <1>2
      <4> QED
        BY <4>1, FS_Interval
    <3> QED
      BY <1>2, <3>1
  <2>4. Cardinality(C) \in Nat
    BY FS_CardinalityType
  <2> QED
    BY <1>2, <1>8, <2>2, <2>3, <2>4
<1> QED
  BY <1>8, <1>9, <1>10, <1>11, <1>12 DEF h, k, Grown

\* The invariants, in the terms of the lemmas about the replicated log.
LogShape ==
  /\ OneToOne(proposals) /\ Recorded(proposals, submitted, node)
  /\ \A n \in Node : \A x \in node[n].replies : x = <<x[1], x[1]>> /\ x[1] \in Cmd

LEMMA LogContext == Inv /\ RequestInv /\ RecordInv /\ HistoryInv /\ Uncontested => LogShape
<1> SUFFICES ASSUME Inv, RequestInv, RecordInv, HistoryInv, Uncontested PROVE LogShape
  OBVIOUS
<1>1. /\ \A n \in Node : HistoryOK(proposals, node[n])
      /\ \A p, q \in proposals : p[3] = q[3] => p[2] = q[2]
  BY HistoryContents DEF Uncontested, HistoryIn
<1>2. /\ \A n \in Node : node[n] \in Replica /\ node[n].id = n
      /\ proposals \in SUBSET (Ballot \X Slot \X Cmd)
      /\ \A p \in proposals : ID(p[1]) \in Node
  BY DEF Inv, TypeOK, ProposalsOK
<1>3. ASSUME NEW p \in proposals, NEW q \in proposals, p[2] = q[2]
      PROVE  p[3] = q[3]
  <2>1. p[1] = q[1]
    BY <1>3 DEF Uncontested, UncontestedIn
  <2> QED
    BY <1>3, <2>1 DEF Inv, ProposalsOK
<1>4. ASSUME NEW p \in proposals PROVE p[3] \in submitted
  <2> DEFINE o == ID(p[1])
             c == p[3]
  <2>1. o \in Node /\ c \in Cmd /\ p[2] \in Slot
    BY <1>2
  <2>2. node[o].log[p[2]].request = c \/ <<c, c>> \in node[o].replies
    BY <1>1, <1>2, <2>1 DEF HistoryOK, PlacedOK
  <2> HIDE DEF o, c
  <2>3. HeldBy(node[o], c) # {}
    BY <2>1, <2>2 DEF HeldBy, InLog, Replied, MaybeCmd
  <2>4. Holders(c) # {}
    <3>1. PICK x : x \in HeldBy(node[o], c)
      BY <2>3
    <3>2. <<o, x>> \in UNION {{n} \X HeldBy(node[n], c) : n \in Node}
      BY <2>1, <3>1
    <3> QED
      BY <3>2 DEF Holders
  <2>5. c \in submitted
    BY <2>1, <2>4 DEF RequestInv
  <2> QED
    BY <2>5 DEF c
<1>5. ASSUME NEW n \in Node
      PROVE  /\ node[n].db \in Seq(MaybeCmd) /\ Len(node[n].db) <= MaxSlot + 1
             /\ \A i \in 1..Len(node[n].db) :
                  \E p \in proposals : p[2] = i - 1 /\ p[3] = node[n].db[i]
  <2>1. node[n].db \in Seq(MaybeCmd) /\ node[n].execute \in 0..(MaxSlot + 1)
    BY <1>2 DEF Replica
  <2>2. DatabaseOK(proposals, node[n])
    BY DEF RecordInv
  <2> QED
    BY <2>1, <2>2, MaxSlotAssumption DEF DatabaseOK
<1>6. ASSUME NEW n \in Node, NEW x \in node[n].replies
      PROVE  x = <<x[1], x[1]>> /\ x[1] \in Cmd
  <2>1. x \in Cmd \X MaybeCmd
    BY <1>2 DEF Replica
  <2>2. x[1] = x[2]
    BY <1>1 DEF HistoryOK
  <2> QED
    BY <2>1, <2>2
<1> QED
  BY <1>1, <1>3, <1>4, <1>5, <1>6 DEF LogShape, OneToOne, Recorded

LEMMA LogContextNext ==
  Inv' /\ RequestInv' /\ RecordInv' /\ HistoryInv' /\ Uncontested'
    => /\ OneToOne(proposals') /\ Recorded(proposals', submitted', node')
       /\ \A n \in Node : \A x \in node'[n].replies : x = <<x[1], x[1]>> /\ x[1] \in Cmd
<1>1. Inv' /\ RequestInv' /\ RecordInv' /\ HistoryInv' /\ Uncontested' => LogShape'
  BY LogContext, PTL
<1> QED
  BY <1>1 DEF LogShape

\* The commands that the replicas nd have answered.
AnsweredIn(nd) == UNION {{x[1] : x \in nd[n].replies} : n \in Node}

\* A command is answered by one node.
LEMMA AnsweredOnce ==
  ASSUME NEW nd, NEW b, \A c \in Cmd : \A g, h \in Places(nd, b, c) : g = h,
         NEW m \in Node, NEW n \in Node, NEW c \in Cmd,
         <<c, c>> \in nd[m].replies, <<c, c>> \in nd[n].replies
  PROVE  m = n
<1>1. \A q \in Node : <<c, c>> \in nd[q].replies => <<q, <<"reply", c>>>> \in Places(nd, b, c)
  BY DEF Places, HeldBy, Replied, MaybeCmd
<1>2. <<m, <<"reply", c>>>> = <<n, <<"reply", c>>>>
  BY <1>1
<1> QED
  BY <1>2

\* The operators that the replicated log takes from the libraries.
LEMMA SameOperators ==
  /\ \A S : Promise!Cardinality(S) = Cardinality(S)
  /\ \A f : Promise!Range(f) = Range(f) /\ (Promise!IsInjective(f) <=> IsInjective(f))
<1>1. \A S : Promise!Cardinality(S) = Cardinality(S)
  BY DEF Promise!Cardinality, Cardinality
<1>2. \A f : Promise!Range(f) = Range(f) /\ (Promise!IsInjective(f) <=> IsInjective(f))
  BY DEF Promise!Range, Range, Promise!IsInjective, IsInjective
<1> QED
  BY <1>1, <1>2

\* A step of a node is a step of the replicated log, or changes nothing there.
LEMMA MovesRefine ==
  ASSUME Inv, RequestInv, RecordInv, HistoryInv, Uncontested,
         Inv', RequestInv', RecordInv', HistoryInv', Uncontested',
         NEW n \in Node, NEW taken, NEW u, Moves(n, taken, u)
  PROVE  Promise!Apply(n) \/ UNCHANGED Promise!logVars
<1> DEFINE r == node[n]
           new == {x[1] : x \in node'[n].replies \ r.replies}
           t == Len(node'[n].db)
           h == Longest(node)
           k == Longest(node')
<1>1. /\ node'[n] = [u EXCEPT !.out = {}] /\ \A q \in Node \ {n} : node'[q] = node[q]
      /\ proposals' = proposals \cup PropsOf(u) /\ submitted' = submitted
  BY MovesFacts
<1>2. Serves(r, u) /\ node'[n].db = u.db /\ node'[n].replies = u.replies
  <2>1. UncontestedIn(proposals \cup PropsOf(u))
    BY <1>1 DEF Uncontested, UncontestedIn
  <2>2. u \in Replica /\ Serves(r, u)
    BY <2>1 DEF Moves, Proposes, Faithful
  <2> QED
    BY <1>1, <2>2 DEF Replica
<1>3. /\ OneToOne(proposals) /\ Recorded(proposals, submitted, node) /\ IsFiniteSet(submitted)
      /\ OneToOne(proposals') /\ Recorded(proposals', submitted, node')
      /\ \A q \in Node : \A x \in node[q].replies : x = <<x[1], x[1]>> /\ x[1] \in Cmd
      /\ \A q \in Node : \A x \in node'[q].replies : x = <<x[1], x[1]>> /\ x[1] \in Cmd
  BY <1>1, LogContext, LogContextNext DEF HistoryInv, LogShape
<1>4. /\ Len(r.db) <= t
      /\ \A i \in 1..Len(r.db) : node'[n].db[i] = r.db[i]
      /\ r.replies \subseteq node'[n].replies
      /\ \A x \in node'[n].replies \ r.replies :
           \E i \in 1..t : i > Len(r.db) /\ node'[n].db[i] = x[1]
  <2>1. \A x \in node'[n].replies : x[2] = x[1]
    BY <1>3
  <2> QED
    BY <1>2, <2>1 DEF Serves
<1>5. /\ t <= Len(h) => k = h
      /\ t > Len(h) => k \in {h \o x : x \in {y \in [1..(t - Len(h)) -> submitted \ Range(h)] :
                                                 IsInjective(y)}}
      /\ node'[n].db = SubSeq(k, 1, t)
      /\ t <= Cardinality(submitted) /\ t \in Nat
  <2>1. \A q \in Node \ {n} : node'[q].db = node[q].db
    BY <1>1
  <2>2. /\ Len(node[n].db) <= Len(node'[n].db)
        /\ \A i \in 1..Len(node[n].db) : node'[n].db[i] = node[n].db[i]
    BY <1>4
  <2>3. Grown(submitted, node, node', n)
    <3>1. Recorded(proposals', submitted, node')
      BY <1>1, <1>3
    <3> QED
      BY <1>3, <2>1, <2>2, <3>1, LongestGrows
  <2> QED
    BY <2>3 DEF Grown
<1>6. /\ Len(r.db) \in Nat /\ Len(h) \in Nat /\ Len(r.db) <= Len(h) /\ k \in Seq(submitted)
      /\ \A i \in 1..t : node'[n].db[i] = k[i]
      /\ r.db \in Seq(MaybeCmd) /\ node'[n].db \in Seq(MaybeCmd)
  <2>1. Longest(node) \in Seq(submitted) /\ Len(r.db) <= Len(Longest(node))
    BY <1>3, LongestFacts
  <2>2. Longest(node') \in Seq(submitted) /\ \A i \in 1..t : node'[n].db[i] = Longest(node')[i]
    BY <1>3, LongestFacts
  <2>3. r.db \in Seq(MaybeCmd) /\ node'[n].db \in Seq(MaybeCmd)
    BY <1>3 DEF Recorded
  <2> QED
    BY <2>1, <2>2, <2>3, LenProperties
<1>7. AnsweredIn(node') = AnsweredIn(node) \cup new
  <2>1. ASSUME NEW q \in Node
        PROVE  {x[1] : x \in node'[q].replies}
                 = IF q = n THEN {x[1] : x \in node[q].replies} \cup new
                   ELSE {x[1] : x \in node[q].replies}
    <3>1. CASE q = n
      <4>1. \A X, Y : X \subseteq Y =>
              {x[1] : x \in Y} = {x[1] : x \in X} \cup {x[1] : x \in Y \ X}
        OBVIOUS
      <4> QED
        BY <1>4, <3>1, <4>1
    <3>2. CASE q # n
      BY <1>1, <3>2
    <3> QED
      BY <3>1, <3>2
  <2> QED
    BY <2>1 DEF AnsweredIn
<1>8. new \cap AnsweredIn(node) = {}
  <2> SUFFICES ASSUME NEW x \in node'[n].replies \ r.replies, NEW q \in Node,
                      NEW y \in node[q].replies, x[1] = y[1]
               PROVE  FALSE
    BY DEF AnsweredIn
  <2>1. x = <<x[1], x[1]>> /\ y = <<x[1], x[1]>> /\ x[1] \in Cmd
    BY <1>3
  <2>2. y \in node'[q].replies
    BY <1>1, <1>4
  <2>3. \A c \in Cmd : \A a, b \in Places(node', msgs', c) : a = b
    BY OnePlace
  <2>4. q = n
    BY <2>1, <2>2, <2>3, AnsweredOnce
  <2> QED
    BY <2>1, <2>4
<1>9. /\ History = h /\ History' = k
      /\ [q \in Node |-> node'[q].db] = [[q \in Node |-> node[q].db] EXCEPT ![n] = node'[n].db]
  BY <1>1, HistoryIsLongest
<1> HIDE DEF h, k, r, new
<1>10. CASE t > Len(r.db)
  <2>1. t \in (Len(r.db) + 1)..Cardinality(submitted)
    <3>1. Cardinality(submitted) \in Nat
      BY <1>3, FS_CardinalityType
    <3> QED
      BY <1>5, <1>6, <1>10, <3>1
  <2>2. new \in SUBSET {k[i] : i \in (Len(r.db) + 1)..t}
    <3> SUFFICES ASSUME NEW x \in node'[n].replies \ r.replies
                 PROVE  \E i \in (Len(r.db) + 1)..t : k[i] = x[1]
      BY DEF new
    <3>1. PICK i \in 1..t : i > Len(r.db) /\ node'[n].db[i] = x[1]
      BY <1>4
    <3>2. i \in (Len(r.db) + 1)..t /\ k[i] = x[1]
      BY <1>5, <1>6, <3>1
    <3> QED
      BY <3>2
  <2>3. History' \in Promise!Extensions(t)
    <3>1. Promise!Extensions(t)
            = IF t <= Len(h) THEN {h}
              ELSE {h \o x : x \in {y \in [1..(t - Len(h)) -> submitted \ Range(h)] : IsInjective(y)}}
      BY <1>9, SameOperators DEF Promise!Extensions
    <3> DEFINE X == {h \o x : x \in {y \in [1..(t - Len(h)) -> submitted \ Range(h)] : IsInjective(y)}}
    <3>2. (t <= Len(h) => k = h) /\ (t > Len(h) => k \in X)
      BY <1>5
    <3> HIDE DEF X
    <3>3. t <= Len(h) \/ t > Len(h)
      BY <1>5, <1>6
    <3>4. Promise!Extensions(t) = IF t <= Len(h) THEN {h} ELSE X
      BY <3>1 DEF X
    <3>5. CASE t <= Len(h)
      BY <1>9, <3>2, <3>4, <3>5
    <3>6. CASE t > Len(h)
      <4>1. ~(t <= Len(h))
        BY <1>5, <1>6, <3>6
      <4> QED
        BY <1>9, <3>2, <3>4, <3>6, <4>1
    <3> QED
      BY <3>3, <3>5, <3>6
  <2>4. /\ [q \in Node |-> node[q].db][n] = r.db
        /\ [q \in Node |-> node'[q].db]
             = [[q \in Node |-> node[q].db] EXCEPT ![n] = SubSeq(k, 1, t)]
    BY <1>5, <1>9 DEF r
  <2>5. Promise!Cardinality(submitted) = Cardinality(submitted)
    BY SameOperators
  <2> HIDE DEF t
  <2> DEFINE dbs == [q \in Node |-> node[q].db]
             dbs2 == [q \in Node |-> node'[q].db]
  <2>6. \E done \in SUBSET {History'[i] : i \in (Len(dbs[n]) + 1)..t} :
          /\ done \cap AnsweredIn(node) = {}
          /\ AnsweredIn(node') = AnsweredIn(node) \cup done
    <3>1. {History'[i] : i \in (Len(dbs[n]) + 1)..t} = {k[i] : i \in (Len(r.db) + 1)..t}
      BY <1>9, <2>4
    <3> HIDE DEF dbs
    <3>2. new \in SUBSET {History'[i] : i \in (Len(dbs[n]) + 1)..t}
      BY <2>2, <3>1
    <3> QED
      BY <1>7, <1>8, <3>2
  <2>7. t \in (Len(dbs[n]) + 1)..Promise!Cardinality(submitted)
    BY <2>1, <2>4, <2>5
  <2>8. dbs2 = [dbs EXCEPT ![n] = SubSeq(History', 1, t)]
    BY <1>9, <2>4
  <2> HIDE DEF dbs, dbs2
  <2>9. \E j \in (Len(dbs[n]) + 1)..Promise!Cardinality(submitted) :
           /\ History' \in Promise!Extensions(j)
           /\ dbs2 = [dbs EXCEPT ![n] = SubSeq(History', 1, j)]
           /\ \E done \in SUBSET {History'[i] : i \in (Len(dbs[n]) + 1)..j} :
                /\ done \cap AnsweredIn(node) = {}
                /\ AnsweredIn(node') = AnsweredIn(node) \cup done
    BY <2>3, <2>6, <2>7, <2>8
  <2>10. Promise!Apply(n)
    BY <1>1, <2>9 DEF Promise!Apply, AnsweredIn, dbs, dbs2
  <2> QED
    BY <2>10
<1>11. CASE t = Len(r.db)
  <2>1. new = {}
    BY <1>4, <1>5, <1>11 DEF new
  <2>2. node'[n].db = r.db
    BY <1>4, <1>6, <1>11, SameElements
  <2>3. k = h
    BY <1>5, <1>6, <1>11
  <2>4. UNCHANGED Promise!logVars
    BY <1>1, <1>7, <1>9, <2>1, <2>2, <2>3 DEF Promise!logVars, AnsweredIn, r
  <2> QED
    BY <2>4
<1> QED
  BY <1>4, <1>5, <1>6, <1>10, <1>11

\* What leaves the replicas alone leaves the replicated log alone.
LEMMA OutsideRefines ==
  ASSUME node' = node
  PROVE  /\ History' = History
         /\ [n \in Node |-> node[n].db]' = [n \in Node |-> node[n].db]
         /\ (UNION {{x[1] : x \in node[n].replies} : n \in Node})'
              = UNION {{x[1] : x \in node[n].replies} : n \in Node}
BY HistoryIsLongest

\* Every step is a step of the replicated log, or changes nothing there.
LEMMA NextRefines ==
  ASSUME Inv, RequestInv, RecordInv, HistoryInv, Uncontested,
         Inv', RequestInv', RecordInv', HistoryInv', Uncontested', [Next]_vars
  PROVE  [Promise!Next]_(Promise!logVars)
<1>1. ASSUME NEW n \in Node, Receive(n) \/ Tick(n)
      PROVE  Promise!Next \/ UNCHANGED Promise!logVars
  <2>1. PICK x, u : Moves(n, x, u)
    BY <1>1, ReceiveMoves, TickMoves
  <2>2. Promise!Apply(n) \/ UNCHANGED Promise!logVars
    BY <2>1, MovesRefine
  <2> QED
    BY <2>2 DEF Promise!Next
<1>2. ASSUME NEW c \in Cmd, NEW n \in Entry[c], Submit(n, c)
      PROVE  Promise!Next
  <2>1. c \in Cmd \ submitted /\ submitted' = submitted \cup {c} /\ node' = node
    BY <1>2 DEF Submit
  <2>2. Promise!Submit
    BY <2>1, OutsideRefines DEF Promise!Submit
  <2> QED
    BY <2>2 DEF Promise!Next
<1>3. CASE Lose
  BY <1>3, OutsideRefines DEF Lose, Promise!logVars
<1>4. CASE UNCHANGED vars
  BY <1>4, OutsideRefines DEF vars, Promise!logVars
<1> QED
  BY <1>1, <1>2, <1>3, <1>4 DEF Next

\* A slot that is contested stays so.
LEMMA NextKeepsContests ==
  ASSUME [Next]_vars, Uncontested'
  PROVE  Uncontested
<1>1. proposals \subseteq proposals'
  <2>1. ASSUME NEW n \in Node, Receive(n) \/ Tick(n)
        PROVE  proposals \subseteq proposals'
    BY <2>1, StepOfNode
  <2>2. ASSUME NEW c \in Cmd, NEW n \in Entry[c], Submit(n, c)
        PROVE  proposals \subseteq proposals'
    BY <2>2 DEF Submit
  <2> QED
    BY <2>1, <2>2 DEF Next, Lose, vars
<1> QED
  BY <1>1 DEF Uncontested, UncontestedIn

\* Initially nobody has executed or answered anything.
LEMMA InitRefines == Init => Promise!Init
<1> SUFFICES ASSUME Init PROVE Promise!Init
  OBVIOUS
<1>1. submitted = {} /\ \A n \in Node : node[n].db = <<>> /\ node[n].replies = {}
  <2>1. \A n \in Node : NewReplica(n).db = <<>> /\ NewReplica(n).replies = {}
    BY DEF NewReplica
  <2> QED
    BY <2>1 DEF Init
<1>2. History = <<>>
  <2>1. Recorded({}, {}, node)
    <3>1. <<>> \in Seq(MaybeCmd) /\ Len(<<>>) = 0
      OBVIOUS
    <3>2. 0 <= MaxSlot + 1 /\ 1..0 = {}
      BY MaxSlotAssumption
    <3> QED
      BY <1>1, <3>1, <3>2 DEF Recorded
  <2> QED
    BY <1>1, <2>1, LongestIsLongest, HistoryIsLongest
<1>3. [n \in Node |-> node[n].db] = [n \in Node |-> <<>>]
  BY <1>1
<1>4. UNION {{x[1] : x \in node[n].replies} : n \in Node} = {}
  BY <1>1
<1> QED
  BY <1>1, <1>2, <1>3, <1>4 DEF Promise!Init

-----------------------------------------------------------------------------
\* As long as no slot is contested, every proposer holds what it proposed until
\* it has answered it, with the outcome of that very command; no merge,
\* proposal, commit or recovered entry of another node touches such an entry,
\* and no command is proposed for two slots.
THEOREM HistoryKept == Spec => []HistoryInv
<1>1. Inv /\ RequestInv /\ HistoryInv /\ Inv' /\ RequestInv' /\ [Next]_vars => HistoryInv'
  BY NextKeepsHistory
<1> QED
  BY <1>1, InitHistory, RequestsConserved, InductiveInvariant, PTL DEF Spec

\* So exec answers a request with the outcome of that request's command.
THEOREM RepliesMatch == Spec => [](Uncontested => ReplyMatchesRequest)
<1>1. HistoryInv => (Uncontested => ReplyMatchesRequest)
  BY DEF HistoryInv, HistoryOK, ReplyMatchesRequest
<1> QED
  BY <1>1, HistoryKept, PTL

\* Until a slot is contested, every step is a step of the replicated log, or
\* changes nothing there.
THEOREM StepsOfTheLog == Spec => [][Uncontested' => Promise!Next]_(Promise!logVars)
<1>1. /\ Inv /\ RequestInv /\ RecordInv /\ HistoryInv
      /\ Inv' /\ RequestInv' /\ RecordInv' /\ HistoryInv' /\ [Next]_vars
      => [Uncontested' => Promise!Next]_(Promise!logVars)
  <2> SUFFICES ASSUME Inv, RequestInv, RecordInv, HistoryInv,
                      Inv', RequestInv', RecordInv', HistoryInv', [Next]_vars, Uncontested'
               PROVE  [Promise!Next]_(Promise!logVars)
    OBVIOUS
  <2>1. Uncontested
    BY NextKeepsContests
  <2> QED
    BY <2>1, NextRefines
<1> QED
  BY <1>1, InductiveInvariant, RequestsConserved, RecordInvariant, HistoryKept, PTL DEF Spec

\* As long as no slot is contested the replicas implement a replicated log: one
\* history, applied from the front by everyone, no command in it twice, each
\* client answered at most once and after its command was applied, whatever
\* relays, retries, lost or late messages, commits that overtake their
\* proposals, recoveries and cleanups do.
THEOREM LogImplemented == Spec /\ []Uncontested => ImplementsReplicatedLog
<1>1. Init => Promise!Init
  BY InitRefines
<1>2. /\ Inv /\ RequestInv /\ RecordInv /\ HistoryInv /\ Uncontested
      /\ Inv' /\ RequestInv' /\ RecordInv' /\ HistoryInv' /\ Uncontested'
      /\ [Next]_vars
      => [Promise!Next]_(Promise!logVars)
  BY NextRefines
<1> QED
  BY <1>1, <1>2, InductiveInvariant, RequestsConserved, RecordInvariant, HistoryKept, PTL
     DEF Spec, ImplementsReplicatedLog, Promise!Spec
=============================================================================
