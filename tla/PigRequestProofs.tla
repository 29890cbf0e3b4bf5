-------------------------- MODULE PigRequestProofs --------------------------
(***************************************************************************)
(* No replica loses a request or answers it twice: RequestInv is inductive *)
(* relative to Inv.  Handlers move requests between the queue of pending   *)
(* requests, the log, the replies and the messages that forward them;      *)
(* every move is one for one.                                              *)
(***************************************************************************)
EXTENDS PigPaxosProofs

\* The messages of ms that carry the request of c.
Carrying(ms, c) == {<<"message", m>> : m \in {x \in ms : x.type = "Request" /\ x.command = c}}

\* Where c is, seen from replica r in the course of a step.
Held(r, c) == HeldBy(r, c) \cup Carrying(r.out, c)

\* What is nowhere in S is nowhere in T, what is once in S is once in T.
OneForOne(S, T) ==
  /\ S = {} => T = {}
  /\ \A h : S = {h} => \E k : T = {k}

\* What a handler does to the requests.
Conserves(r, t) ==
  HoldingOK(r) => HoldingOK(t) /\ \A c \in Cmd : OneForOne(Held(r, c), Held(t, c))

\* A change that moves no request.
Unmoved(r, t) ==
  /\ t.requests = r.requests /\ t.replies = r.replies /\ t.execute = r.execute
  /\ r.slot <= t.slot
  /\ \A s \in Slot :
       /\ t.log[s].request = r.log[s].request
       /\ t.log[s].status = "none" => r.log[s].status = "none" \/ s < r.execute
  /\ \A m : m.type = "Request" => (m \in t.out <=> m \in r.out)

\* What two handlers in a row do to the requests.
LEMMA ConservesTransitive ==
  ASSUME NEW r, NEW s, NEW t, Conserves(r, s), Conserves(s, t)
  PROVE  Conserves(r, t)
BY DEF Conserves, OneForOne

\* What each place is called.
LEMMA Tags ==
  ASSUME NEW c
  PROVE  /\ \A q : \A h \in Pending(q, c) : h[1] = "pending"
         /\ \A l, S : \A h \in InLog(l, S, c) : h[1] = "log" /\ h[2] \in S
         /\ \A rs : \A h \in Replied(rs, c) : h[1] = "reply"
         /\ \A ms : \A h \in Carrying(ms, c) : h[1] = "message"
<1>1. \A q : \A h \in Pending(q, c) : h[1] = "pending"
  BY DEF Pending
<1>2. \A l, S : \A h \in InLog(l, S, c) : h[1] = "log" /\ h[2] \in S
  BY DEF InLog
<1>3. ASSUME NEW rs, NEW h \in Replied(rs, c) PROVE h[1] = "reply"
  <2>1. \E x : h = <<"reply", x>>
    BY DEF Replied
  <2> QED
    BY <2>1
<1>4. \A ms : \A h \in Carrying(ms, c) : h[1] = "message"
  BY DEF Carrying
<1> QED
  BY <1>1, <1>2, <1>3, <1>4

\* A log is looked through in two parts.
LEMMA InLogSplit ==
  ASSUME NEW l, NEW S, NEW T, NEW c
  PROVE  InLog(l, S \cup T, c) = InLog(l, S, c) \cup InLog(l, T, c)
BY DEF InLog

\* Only the requests of the entries matter.
LEMMA InLogSame ==
  ASSUME NEW l, NEW m, NEW S, NEW c, \A s \in S : m[s].request = l[s].request
  PROVE  InLog(m, S, c) = InLog(l, S, c)
BY DEF InLog

\* A log that does not hold the request.
LEMMA InLogNone ==
  ASSUME NEW l, NEW S, NEW c, \A s \in S : l[s].request # c
  PROVE  InLog(l, S, c) = {}
BY DEF InLog

\* A change that moves no request conserves them.
LEMMA UnmovedConserves ==
  ASSUME NEW r \in Replica, NEW t \in Replica, Unmoved(r, t)
  PROVE  Conserves(r, t)
<1> SUFFICES ASSUME HoldingOK(r)
             PROVE  HoldingOK(t) /\ \A c \in Cmd : OneForOne(Held(r, c), Held(t, c))
  BY DEF Conserves
<1>1. /\ r.execute \in Nat /\ t.execute \in Nat /\ r.slot \in Int /\ t.slot \in Int
  BY MaxSlotAssumption DEF Replica
<1>2. HoldingOK(t)
  BY <1>1 DEF HoldingOK, Unmoved
<1>3. ASSUME NEW c \in Cmd PROVE Held(t, c) = Held(r, c)
  <2>1. Carrying(t.out, c) = Carrying(r.out, c)
    BY DEF Carrying, Unmoved
  <2>2. InLog(t.log, Slot, c) = InLog(r.log, Slot, c)
    BY InLogSame DEF Unmoved
  <2> QED
    BY <2>1, <2>2 DEF Held, HeldBy, Unmoved
<1> QED
  BY <1>2, <1>3 DEF OneForOne

\* A move of one part of the places, one for one.
LEMMA MovePart ==
  ASSUME NEW K, NEW A, NEW B, K \cap A = {}, OneForOne(A, B)
  PROVE  OneForOne(K \cup A, K \cup B)
<1>1. ASSUME K \cup A = {} PROVE K \cup B = {}
  BY <1>1 DEF OneForOne
<1>2. ASSUME NEW h, K \cup A = {h} PROVE \E k : K \cup B = {k}
  <2>1. CASE A = {}
    <3>1. B = {} /\ K = {h}
      BY <1>2, <2>1 DEF OneForOne
    <3> QED
      BY <3>1
  <2>2. CASE A # {}
    <3>1. A = {h} /\ K = {}
      BY <1>2, <2>2
    <3>2. \E k : B = {k}
      BY <3>1 DEF OneForOne
    <3> QED
      BY <3>1, <3>2
  <2> QED
    BY <2>1, <2>2
<1> QED
  BY <1>1, <1>2 DEF OneForOne

\* The places that are named after the indices X, and what f makes of X.
Named(tag, X) == {<<tag, i>> : i \in X}

ImageOf(f, X) == {f[i] : i \in X}

\* Places that are named after the same indices.
LEMMA SameIndices ==
  ASSUME NEW X, NEW tag, NEW f
  PROVE  OneForOne(Named(tag, X), ImageOf(f, X))
<1> DEFINE S == Named(tag, X)
           T == ImageOf(f, X)
<1>0. /\ \A h : h \in S <=> \E i \in X : h = <<tag, i>>
      /\ \A k : k \in T <=> \E i \in X : k = f[i]
  BY DEF Named, ImageOf
<1> HIDE DEF S, T
<1>1. S = {} => T = {}
  BY <1>0
<1>2. ASSUME NEW h, S = {h} PROVE \E k : T = {k}
  <2>1. PICK i \in X : h = <<tag, i>>
    BY <1>0, <1>2
  <2>2. ASSUME NEW j \in X PROVE j = i
    <3>1. <<tag, j>> \in S
      BY <1>0
    <3>2. <<tag, j>> = <<tag, i>>
      BY <1>2, <2>1, <3>1
    <3> QED
      BY <3>2
  <2>3. X = {i}
    BY <2>2
  <2>4. T = {f[i]}
    BY <1>0, <2>3
  <2> QED
    BY <2>4
<1> QED
  BY <1>1, <1>2 DEF OneForOne, S, T

\* Sending anything but requests moves none.
LEMMA EmitUnmoved ==
  ASSUME NEW r \in Replica, NEW ms, \A m \in ms : m.type # "Request"
  PROVE  Unmoved(r, Emit(r, ms))
BY MaxSlotAssumption DEF Unmoved, Emit, Replica

\* Two changes in a row that move no request.
LEMMA UnmovedTransitive ==
  ASSUME NEW r \in Replica, NEW s \in Replica, NEW t \in Replica, Unmoved(r, s), Unmoved(s, t)
  PROVE  Unmoved(r, t)
<1>1. r.slot \in Int /\ s.slot \in Int /\ t.slot \in Int
  BY MaxSlotAssumption DEF Replica
<1> QED
  BY <1>1 DEF Unmoved

-----------------------------------------------------------------------------
\* The message that forwards c to id.
Forwarded(c, id) == [type |-> "Request", command |-> c, dst |-> {id}]

\* The messages of Forward, and what they carry.
ForwardedAll(cs, id) == {Forwarded(c, id) : c \in cs}

LEMMA CarryingForward ==
  ASSUME NEW cs, NEW id, NEW c
  PROVE  Carrying(ForwardedAll(cs, id), c) = IF c \in cs THEN {<<"message", Forwarded(c, id)>>} ELSE {}
<1>1. {x \in ForwardedAll(cs, id) : x.type = "Request" /\ x.command = c}
        = IF c \in cs THEN {Forwarded(c, id)} ELSE {}
  BY DEF Forwarded, ForwardedAll
<1> QED
  BY <1>1 DEF Carrying

\* Messages are looked through in two parts.
LEMMA CarryingSplit ==
  ASSUME NEW ms, NEW ns, NEW c
  PROVE  Carrying(ms \cup ns, c) = Carrying(ms, c) \cup Carrying(ns, c)
BY DEF Carrying

\* The queue of pending requests is empty.
LEMMA PendingNone ==
  ASSUME NEW q, NEW c
  PROVE  Pending(q, c) = {} <=> c \notin Range(q)
<1>1. c \in Range(q) <=> \E j \in DOMAIN q : q[j] = c
  BY DEF Range
<1> QED
  BY <1>1 DEF Pending

\* forward: every pending request goes into a message.
LEMMA ForwardPendingConserves ==
  ASSUME NEW r \in Replica
  PROVE  Conserves(r, ForwardPending(r))
<1> DEFINE t == ForwardPending(r)
           id == ID(r.ballot)
           ms == ForwardedAll(Range(r.requests), id)
<1>1. /\ t.requests = <<>> /\ t.replies = r.replies /\ t.execute = r.execute /\ t.slot = r.slot
      /\ t.log = r.log /\ t.out = r.out \cup ms
  BY DEF ForwardPending, Forward, Emit, Replica, Forwarded, ForwardedAll
<1> HIDE DEF t, ms
<1>2. HoldingOK(r) => HoldingOK(t)
  BY <1>1 DEF HoldingOK
<1>3. ASSUME NEW c \in Cmd PROVE OneForOne(Held(r, c), Held(t, c))
  <2> DEFINE A == Pending(r.requests, c)
             B == IF c \in Range(r.requests) THEN {<<"message", Forwarded(c, id)>>} ELSE {}
             K == (InLog(r.log, Slot, c) \cup Replied(r.replies, c)) \cup Carrying(r.out, c)
  <2>1. K \cap A = {}
    BY Tags
  <2>2. OneForOne(A, B)
    BY PendingNone DEF OneForOne
  <2>3. Carrying(t.out, c) = Carrying(r.out, c) \cup B
    <3>1. Carrying(ms, c) = B
      BY CarryingForward DEF ms
    <3>2. Carrying(r.out \cup ms, c) = Carrying(r.out, c) \cup Carrying(ms, c)
      BY CarryingSplit
    <3> HIDE DEF B
    <3> QED
      BY <1>1, <3>1, <3>2
  <2>4. Pending(t.requests, c) = {}
    BY <1>1 DEF Pending
  <2>5. Held(r, c) = K \cup A
    BY DEF Held, HeldBy
  <2> HIDE DEF B
  <2>6. Held(t, c) = K \cup B
    BY <1>1, <2>3, <2>4 DEF Held, HeldBy
  <2> HIDE DEF K, A
  <2> QED
    BY <2>1, <2>2, <2>5, <2>6, MovePart
<1> QED
  BY <1>2, <1>3 DEF Conserves, t

\* Executing turns the requests of the executed entries into replies.
LEMMA ExecutedConserves ==
  ASSUME NEW r \in Replica, NEW end \in r.execute..(MaxSlot + 1), end <= r.slot + 1,
         \A s \in r.execute..(end - 1) : s \in Slot /\ r.log[s].status = "committed"
  PROVE  Conserves(r, Executed(r, end))
<1> DEFINE t == Executed(r, end)
           done == r.execute..(end - 1)
<1>1. /\ t.requests = r.requests /\ t.execute = end /\ t.slot = r.slot /\ t.out = r.out
      /\ t.replies = r.replies \cup {<<r.log[s].request, r.log[s].command>> :
                                       s \in {x \in done : r.log[x].request # NoCmd}}
      /\ t.log = [s \in Slot |-> IF s \in done THEN [r.log[s] EXCEPT !.request = NoCmd]
                                                ELSE r.log[s]]
  BY DEF Executed, Replica
<1> HIDE DEF t
<1>2. \A s \in Slot : /\ t.log[s].status = r.log[s].status
                      /\ t.log[s].request = IF s \in done THEN NoCmd ELSE r.log[s].request
  <2>1. \A e \in LogEntry : /\ [e EXCEPT !.request = NoCmd].status = e.status
                            /\ [e EXCEPT !.request = NoCmd].request = NoCmd
    BY DEF LogEntry
  <2>2. \A s \in Slot : r.log[s] \in LogEntry
    BY DEF Replica
  <2> HIDE DEF done
  <2> QED
    BY <1>1, <2>1, <2>2
<1>3. r.execute \in Nat /\ end \in Nat /\ r.execute <= end
  BY MaxSlotAssumption DEF Replica
<1>4. done \subseteq Slot /\ \A s \in Slot : s < end => s < r.execute \/ s \in done
  BY <1>3 DEF Slot
<1> HIDE DEF done
<1>5. HoldingOK(r) => HoldingOK(t)
  BY <1>1, <1>2, <1>3, <1>4 DEF HoldingOK
<1>6. ASSUME NEW c \in Cmd PROVE OneForOne(Held(r, c), Held(t, c))
  <2> DEFINE X == {x \in done : r.log[x].request = c}
             f == [x \in X |-> <<"reply", r.log[x].command>>]
             A == InLog(r.log, done, c)
             B == ImageOf(f, X)
             L == InLog(r.log, Slot \ done, c)
             K == ((Pending(r.requests, c) \cup L) \cup Replied(r.replies, c)) \cup Carrying(r.out, c)
  <2>1. K \cap A = {}
    BY Tags
  <2>2. OneForOne(A, B)
    <3>1. A = Named("log", X)
      BY DEF InLog, Named
    <3> HIDE DEF A, f, X
    <3> QED
      BY <3>1, SameIndices
  <2>3. InLog(r.log, Slot, c) = L \cup A
    <3>1. Slot = (Slot \ done) \cup done
      BY <1>4
    <3> QED
      BY <3>1, InLogSplit
  <2>4. InLog(t.log, Slot, c) = L
    <3> DEFINE rest == Slot \ done
    <3>1. Slot = rest \cup done
      BY <1>4
    <3>2. InLog(t.log, rest, c) = InLog(r.log, rest, c)
      BY <1>2, InLogSame
    <3>3. InLog(t.log, done, c) = {}
      BY <1>2, <1>4, InLogNone, CmdAssumption
    <3>4. InLog(t.log, rest \cup done, c) = InLog(t.log, rest, c) \cup InLog(t.log, done, c)
      BY InLogSplit
    <3> HIDE DEF rest
    <3> QED
      BY <3>1, <3>2, <3>3, <3>4 DEF rest
  <2>5. Replied(t.replies, c) = Replied(r.replies, c) \cup B
    <3>1. \A x \in X : r.log[x].command \in MaybeCmd /\ r.log[x].request = c /\ x \in done /\ c # NoCmd
      BY <1>4, CmdAssumption DEF Replica, LogEntry
    <3>2. ASSUME NEW y
          PROVE  <<c, y>> \in t.replies
                   <=> <<c, y>> \in r.replies \/ \E x \in X : y = r.log[x].command
      BY <1>1, <3>1
    <3>3. \A x \in X : f[x] = <<"reply", r.log[x].command>>
      OBVIOUS
    <3>4. B = {<<"reply", y>> : y \in {z \in MaybeCmd : \E x \in X : z = r.log[x].command}}
      <4> HIDE DEF f, X
      <4> QED
        BY <3>1, <3>3 DEF ImageOf
    <3> HIDE DEF f, X, B
    <3> QED
      BY ZenonT(30), <3>2, <3>4 DEF Replied
  <2>6. Held(r, c) = K \cup A
    <3> HIDE DEF A, L
    <3> QED
      BY <2>3 DEF Held, HeldBy
  <2>7. Held(t, c) = K \cup B
    <3> HIDE DEF A, B, L
    <3> QED
      BY <1>1, <2>4, <2>5 DEF Held, HeldBy
  <2> HIDE DEF K, A, B, L, X, f
  <2>8. OneForOne(K \cup A, K \cup B)
    BY <2>1, <2>2, MovePart
  <2> QED
    BY <2>6, <2>7, <2>8
<1> QED
  BY <1>5, <1>6 DEF Conserves, t

\* A change of parts of the replica that hold no request.
LEMMA ElsewhereConserves ==
  ASSUME NEW r \in Replica, NEW t, t.requests = r.requests, t.replies = r.replies,
         t.execute = r.execute, t.slot = r.slot, t.log = r.log,
         \A m : m.type = "Request" => (m \in t.out <=> m \in r.out)
  PROVE  Conserves(r, t)
<1>1. r.slot \in Int
  BY MaxSlotAssumption DEF Replica
<1>2. ASSUME HoldingOK(r) PROVE HoldingOK(t)
  BY <1>2 DEF HoldingOK
<1>3. ASSUME NEW c \in Cmd PROVE Held(t, c) = Held(r, c)
  <2>1. Carrying(t.out, c) = Carrying(r.out, c)
    BY DEF Carrying
  <2> QED
    BY <2>1 DEF Held, HeldBy
<1> QED
  BY <1>2, <1>3 DEF Conserves, OneForOne

\* A handler that does nothing.
LEMMA SelfConserves == \A r : Conserves(r, r)
BY DEF Conserves, OneForOne

\* Sending anything but requests conserves them.
LEMMA EmitConserves ==
  ASSUME NEW r \in Replica, NEW ms, \A m \in ms : m.type # "Request"
  PROVE  Conserves(r, Emit(r, ms))
<1> DEFINE t == Emit(r, ms)
<1>1. /\ t.requests = r.requests /\ t.replies = r.replies /\ t.execute = r.execute
      /\ t.slot = r.slot /\ t.log = r.log /\ t.out = r.out \cup ms
  BY DEF Emit, Replica
<1> HIDE DEF t
<1>2. Conserves(r, t)
  BY <1>1, ElsewhereConserves
<1> QED
  BY <1>2 DEF t

\* The messages of the leader carry no client's request.
LEMMA RoutedCarryNone ==
  /\ \A n, b : \A m \in RoutedP1a(n, b) : m.type # "Request"
  /\ \A n, b, s, c, p3 : \A m \in RoutedP2a(n, b, s, c, p3) : m.type # "Request"
  /\ \A n, p3 : \A m \in RoutedP3(n, p3) : m.type # "Request"
BY DEF RoutedP1a, RoutedP2a, RoutedP3

\* Recovery requests carry no client's request.
LEMMA SendRecoverRequestConserves ==
  ASSUME NEW r \in Replica, NEW b, NEW S
  PROVE  Conserves(r, SendRecoverRequest(r, b, S))
<1> DEFINE ms == {[type |-> "RecoverRequest", slot |-> s, id |-> r.id, dst |-> {ID(b)}] : s \in S}
<1>1. \A m \in ms : m.type # "Request"
  OBVIOUS
<1> HIDE DEF ms
<1> QED
  BY <1>1, EmitConserves DEF SendRecoverRequest, ms

\* Stopping moves no request.
LEMMA HaltConserves ==
  ASSUME NEW r \in Replica
  PROVE  Conserves(r, [r EXCEPT !.halted = TRUE])
<1> DEFINE t == [r EXCEPT !.halted = TRUE]
<1>1. /\ t.requests = r.requests /\ t.replies = r.replies /\ t.execute = r.execute
      /\ t.slot = r.slot /\ t.log = r.log /\ t.out = r.out
  BY DEF Replica
<1> HIDE DEF t
<1>2. Conserves(r, t)
  BY <1>1, ElsewhereConserves
<1> QED
  BY <1>2 DEF t

\* exec, at a replica with nothing beyond its highest slot.
LEMMA ExecConserves ==
  ASSUME NEW r \in Replica, \A s \in Slot : s > r.slot => r.log[s].status = "none"
  PROVE  Conserves(r, Exec(r))
<1> SUFFICES ASSUME HoldingOK(r) PROVE Conserves(r, Exec(r))
  BY DEF Conserves
<1> DEFINE end == ExecuteEnd(r)
           t == Executed(r, end)
           u == Exec(r)
<1>1. /\ end \in r.execute..(MaxSlot + 1)
      /\ \A s \in r.execute..(end - 1) : s \in Slot /\ r.log[s].status = "committed"
  BY ExecuteEndFacts
<1>2. end <= r.slot + 1
  <2>1. r.execute \in Nat /\ end \in Nat /\ r.slot \in Int /\ r.execute <= r.slot + 1
    BY <1>1, MaxSlotAssumption DEF Replica, HoldingOK
  <2>2. CASE end = r.execute
    BY <2>1, <2>2
  <2>3. CASE end # r.execute
    <3>1. end - 1 \in r.execute..(end - 1)
      BY <1>1, <2>1, <2>3
    <3>2. end - 1 \in Slot /\ r.log[end - 1].status # "none"
      BY <1>1, <3>1
    <3>3. ~(end - 1 > r.slot)
      BY <3>2
    <3> QED
      BY <2>1, <3>3
  <2> QED
    BY <2>2, <2>3
<1>3. t \in Replica
  BY <1>1, ExecutedType
<1>4. Conserves(r, t)
  <2> HIDE DEF end
  <2> QED
    BY <1>1, <1>2, ExecutedConserves
<1>5. \/ u = t
      \/ u = [t EXCEPT !.halted = TRUE]
      \/ u = SendRecoverRequest(t, r.ballot, {end})
  BY DEF Exec, Executed
<1> HIDE DEF t, end, u
<1>6. Conserves(t, [t EXCEPT !.halted = TRUE])
  BY <1>3, HaltConserves
<1>7. Conserves(t, u)
  BY <1>3, <1>5, <1>6, SelfConserves, SendRecoverRequestConserves
<1> QED
  BY <1>4, <1>7, ConservesTransitive DEF u
-----------------------------------------------------------------------------
\* HandleP1a.
LEMMA HandleP1aConserves ==
  ASSUME NEW r \in Replica, NEW b \in Ballot
  PROVE  Conserves(r, HandleP1a(r, b))
<1> DEFINE t == [r EXCEPT !.ballot = b, !.active = FALSE]
<1>1. t \in Replica
  BY DEF Replica
<1>2. Conserves(r, t)
  <2>1. /\ t.requests = r.requests /\ t.replies = r.replies /\ t.execute = r.execute
        /\ t.slot = r.slot /\ t.log = r.log /\ t.out = r.out
    BY DEF Replica
  <2> HIDE DEF t
  <2> QED
    BY <2>1, ElsewhereConserves
<1>3. HandleP1a(r, b) = r \/ HandleP1a(r, b) = ForwardPending(t)
  BY DEF HandleP1a
<1> HIDE DEF t
<1>4. Conserves(r, ForwardPending(t))
  BY <1>1, <1>2, ForwardPendingConserves, ConservesTransitive
<1> QED
  BY <1>3, <1>4, SelfConserves

\* P1a, and P1a once more.
LEMMA P1aConserves ==
  ASSUME NEW r \in Replica
  PROVE  Conserves(r, P1a(r)) /\ Conserves(r, RetryP1a(r))
<1>1. ASSUME NEW b, NEW t, t = Emit([r EXCEPT !.ballot = b, !.quorum = {r.id}], RoutedP1a(r.id, b))
      PROVE  Conserves(r, t)
  <2>1. /\ t.requests = r.requests /\ t.replies = r.replies /\ t.execute = r.execute
        /\ t.slot = r.slot /\ t.log = r.log /\ t.out = r.out \cup RoutedP1a(r.id, b)
    BY <1>1 DEF Emit, Replica
  <2> QED
    BY <2>1, ElsewhereConserves, RoutedCarryNone
<1>2. ASSUME NEW t, t = Emit([r EXCEPT !.quorum = {r.id}], RoutedP1a(r.id, r.ballot))
      PROVE  Conserves(r, t)
  <2>1. /\ t.requests = r.requests /\ t.replies = r.replies /\ t.execute = r.execute
        /\ t.slot = r.slot /\ t.log = r.log /\ t.out = r.out \cup RoutedP1a(r.id, r.ballot)
    BY <1>2 DEF Emit, Replica
  <2> QED
    BY <2>1, ElsewhereConserves, RoutedCarryNone
<1> QED
  BY <1>1, <1>2 DEF P1a, RetryP1a

\* RetryP2a.
LEMMA RetryP2aConserves ==
  ASSUME NEW r \in Replica
  PROVE  Conserves(r, RetryP2a(r))
BY EmitConserves, RoutedCarryNone DEF RetryP2a

\* update takes over commands, not requests.
LEMMA UpdateConserves ==
  ASSUME NEW r \in Replica, NEW l \in [Slot -> CommandBallot], Update(r, l) \in Replica
  PROVE  Conserves(r, Update(r, l))
<1> SUFFICES ASSUME HoldingOK(r) PROVE Conserves(r, Update(r, l))
  BY DEF Conserves
<1> DEFINE t == Update(r, l)
           S == {s \in Slot : l[s].ballot # 0}
<1>1. /\ t.requests = r.requests /\ t.replies = r.replies /\ t.execute = r.execute
      /\ t.slot = Max({r.slot} \cup S) /\ t.out = r.out
      /\ \A s \in Slot : t.log[s] = Merge(r.log[s], l[s])
  BY DEF Update, Replica
<1>2. r.slot <= Max({r.slot} \cup S)
  BY MaxSlotOf DEF Replica
<1>3. ASSUME NEW s \in Slot
      PROVE  /\ Merge(r.log[s], l[s]).request = r.log[s].request
             /\ Merge(r.log[s], l[s]).status = "none" => r.log[s].status = "none"
  <2>1. r.log[s].status = "none" => r.log[s].request = NoCmd
    BY DEF HoldingOK
  <2>2. r.log[s] \in LogEntry
    BY DEF Replica
  <2> QED
    BY <2>1, <2>2 DEF Merge, Learned, NoEntry, LogEntry
<1> HIDE DEF t
<1>4. Unmoved(r, t)
  BY <1>1, <1>2, <1>3 DEF Unmoved
<1> QED
  BY <1>4, UnmovedConserves DEF t

-----------------------------------------------------------------------------
\* The log entries that P2a makes for the requests reqs, where they hold c.
Proposing(r, reqs, c) == {<<"log", r.slot + i>> : i \in {j \in DOMAIN reqs : reqs[j] = c}}

\* What P2a leaves alone, and where it puts the requests, after messages ns.
LEMMA P2aHolds ==
  ASSUME NEW u \in Replica, NEW ns, NEW r, r = Emit(u, ns), HoldingOK(r), \A s \in Slot : s > r.slot => r.log[s].status = "none",
         NEW reqs \in Seq(Cmd), r.slot + Len(reqs) <= MaxSlot
  PROVE  /\ HoldingOK(P2a(r, reqs))
         /\ \A c \in Cmd : Held(P2a(r, reqs), c) = Held(r, c) \cup Proposing(r, reqs, c)
<1> DEFINE n == Len(reqs)
           new == (r.slot + 1)..(r.slot + n)
           t == P2a(r, reqs)
           piggyback == reqs # <<>> /\ r.p3ballot > 0
           p3(i) == IF piggyback
                    THEN [ballot |-> r.p3ballot, slots |-> IF i = 1 THEN r.p3slots ELSE {}]
                    ELSE NoP3
           ms == UNION {RoutedP2a(r.id, r.ballot, r.slot + i, reqs[i], p3(i)) : i \in DOMAIN reqs}
<1>1. r.slot \in -1..MaxSlot /\ r.execute \in Nat /\ r.slot \in Int
  BY MaxSlotAssumption DEF Emit, Replica
<1>2. n \in Nat /\ DOMAIN reqs = 1..n /\ \A i \in 1..n : reqs[i] \in Cmd
  BY LenProperties, ElementOfSeq
<1>3. /\ t.requests = r.requests /\ t.replies = r.replies /\ t.execute = r.execute
      /\ t.slot = r.slot + n /\ t.out = r.out \cup ms
      /\ \A s \in Slot : /\ s \in new => t.log[s].status = "open"
                         /\ s \in new => t.log[s].request = reqs[s - r.slot]
                         /\ s \notin new => t.log[s] = r.log[s]
  BY DEF P2a, Emit, Replica
<1> HIDE DEF t, p3
<1>4. \A m \in ms : m.type # "Request"
  <2>1. ASSUME NEW m \in ms PROVE m.type # "Request"
    <3>1. PICK i \in DOMAIN reqs : m \in RoutedP2a(r.id, r.ballot, r.slot + i, reqs[i], p3(i))
      OBVIOUS
    <3> QED
      BY <3>1, RoutedCarryNone
  <2> QED
    BY <2>1
<1> HIDE DEF ms
<1>5. new \subseteq Slot
  BY <1>1, <1>2, MaxSlotAssumption DEF Slot
<1>6. \A s \in new : /\ s > r.slot /\ s - r.slot \in 1..n /\ r.slot + (s - r.slot) = s
                     /\ s <= r.slot + n
  BY <1>1, <1>2
<1>7. \A i \in 1..n : r.slot + i \in new /\ (r.slot + i) - r.slot = i
  BY <1>1, <1>2
<1> HIDE DEF new
<1>8. HoldingOK(t)
  <2>1. t.execute <= t.slot + 1
    BY <1>1, <1>2, <1>3 DEF HoldingOK
  <2>2. \A s \in new : ~(s < r.execute)
    <3>1. ASSUME NEW s \in new PROVE ~(s < r.execute)
      <4>1. s \in Int /\ s > r.slot /\ r.execute <= r.slot + 1
        BY <1>5, <1>6 DEF Slot, HoldingOK
      <4> QED
        BY <1>1, <4>1
    <3> QED
      BY <3>1
  <2> QED
    BY <1>3, <2>1, <2>2 DEF HoldingOK
<1>9. ASSUME NEW c \in Cmd PROVE Held(t, c) = Held(r, c) \cup Proposing(r, reqs, c)
  <2> DEFINE rest == Slot \ new
  <2>1. Slot = rest \cup new
    BY <1>5
  <2>2. InLog(t.log, rest, c) = InLog(r.log, rest, c)
    BY <1>3, InLogSame
  <2>3. InLog(r.log, new, c) = {}
    <3>1. \A s \in new : r.log[s].request # c
      BY <1>5, <1>6, CmdAssumption DEF HoldingOK
    <3> QED
      BY <3>1, InLogNone
  <2>4. InLog(t.log, new, c) = Proposing(r, reqs, c)
    <3>1. ASSUME NEW h \in InLog(t.log, new, c) PROVE h \in Proposing(r, reqs, c)
      <4>1. PICK s \in new : h = <<"log", s>> /\ t.log[s].request = c
        BY DEF InLog
      <4>2. s - r.slot \in DOMAIN reqs /\ reqs[s - r.slot] = c /\ r.slot + (s - r.slot) = s
        BY <1>2, <1>3, <1>5, <1>6, <4>1
      <4> QED
        BY <4>1, <4>2 DEF Proposing
    <3>2. ASSUME NEW h \in Proposing(r, reqs, c) PROVE h \in InLog(t.log, new, c)
      <4>1. PICK i \in 1..n : h = <<"log", r.slot + i>> /\ reqs[i] = c
        BY <1>2 DEF Proposing
      <4>2. r.slot + i \in new /\ t.log[r.slot + i].request = c
        BY <1>3, <1>5, <1>7, <4>1
      <4> QED
        BY <4>1, <4>2 DEF InLog
    <3> QED
      BY <3>1, <3>2
  <2>5. /\ InLog(t.log, rest \cup new, c) = InLog(t.log, rest, c) \cup InLog(t.log, new, c)
        /\ InLog(r.log, rest \cup new, c) = InLog(r.log, rest, c) \cup InLog(r.log, new, c)
    BY InLogSplit
  <2> HIDE DEF rest
  <2>6. InLog(t.log, Slot, c) = InLog(r.log, Slot, c) \cup Proposing(r, reqs, c)
    BY <2>1, <2>2, <2>3, <2>4, <2>5
  <2>7. Carrying(t.out, c) = Carrying(r.out, c)
    BY <1>3, <1>4 DEF Carrying
  <2> QED
    BY <1>3, <2>6, <2>7 DEF Held, HeldBy
<1> QED
  BY <1>8, <1>9 DEF t

\* Requests are proposed one for one.
LEMMA PendingProposed ==
  ASSUME NEW r, NEW reqs, NEW c
  PROVE  OneForOne(Pending(reqs, c), Proposing(r, reqs, c))
<1> DEFINE X == {j \in DOMAIN reqs : reqs[j] = c}
           f == [i \in X |-> <<"log", r.slot + i>>]
<1>1. Pending(reqs, c) = Named("pending", X)
  BY DEF Pending, Named
<1>2. Proposing(r, reqs, c) = ImageOf(f, X)
  BY DEF Proposing, ImageOf
<1> HIDE DEF f, X
<1> QED
  BY <1>1, <1>2, SameIndices

\* A new leader proposes its open entries again, whose requests stay, and then
\* all of its pending requests.
LEMMA BecomeLeaderConserves ==
  ASSUME NEW r \in Replica, \A s \in Slot : s > r.slot => r.log[s].status = "none",
         BecomeLeader(r).slot <= MaxSlot
  PROVE  Conserves(r, BecomeLeader(r))
<1> SUFFICES ASSUME HoldingOK(r) PROVE Conserves(r, BecomeLeader(r))
  BY DEF Conserves
<1> DEFINE l == [s \in Slot |-> IF s \in Unfinished(r)
                                THEN [r.log[s] EXCEPT !.ballot = r.ballot, !.quorum = {r.id}]
                                ELSE r.log[s]]
           u == [r EXCEPT !.active = TRUE, !.p3ballot = r.ballot, !.requests = <<>>, !.log = l]
           ms == UNION {RoutedP2a(r.id, r.ballot, s, r.log[s].command, NoP3) : s \in Unfinished(r)}
           v == Emit(u, ms)
           t == BecomeLeader(r)
<1>1. t = P2a(v, r.requests)
  BY DEF BecomeLeader
<1>2. \A s \in Slot : r.log[s] \in LogEntry
  BY DEF Replica
<1>3. l \in [Slot -> LogEntry]
  <2>1. \A e \in LogEntry : [e EXCEPT !.ballot = r.ballot, !.quorum = {r.id}] \in LogEntry
    BY DEF LogEntry, Replica
  <2> QED
    BY <1>2, <2>1
<1>4. u \in Replica
  BY <1>3, EmptySeq DEF Replica
<1>5. \A s \in Slot : l[s].request = r.log[s].request /\ l[s].status = r.log[s].status
  BY <1>2 DEF LogEntry
<1> HIDE DEF l
<1>6. /\ v.requests = <<>> /\ v.replies = r.replies /\ v.execute = r.execute
      /\ v.slot = r.slot /\ v.log = l /\ v.out = r.out \cup ms
  BY DEF Emit, Replica
<1>7. \A m \in ms : m.type # "Request"
  BY RoutedCarryNone
<1>8. t.slot = v.slot + Len(r.requests) /\ r.requests \in Seq(Cmd)
  BY <1>1 DEF P2a, Emit, Replica
<1>9. HoldingOK(v)
  BY ZenonT(30), <1>5, <1>6 DEF HoldingOK
<1> HIDE DEF u, ms
<1>10. /\ HoldingOK(t)
       /\ \A c \in Cmd : Held(t, c) = Held(v, c) \cup Proposing(v, r.requests, c)
  <2>1. \A s \in Slot : s > v.slot => v.log[s].status = "none"
    BY <1>5, <1>6
  <2>2. v.slot + Len(r.requests) <= MaxSlot
    BY <1>8
  <2> HIDE DEF v, t
  <2>3. v = Emit(u, ms)
    BY DEF v
  <2> QED
    BY <1>1, <1>4, <1>8, <1>9, <2>1, <2>2, <2>3, P2aHolds
<1> HIDE DEF v, t
<1>11. ASSUME NEW c \in Cmd PROVE OneForOne(Held(r, c), Held(t, c))
  <2> DEFINE A == Pending(r.requests, c)
             B == Proposing(v, r.requests, c)
             K == (InLog(r.log, Slot, c) \cup Replied(r.replies, c)) \cup Carrying(r.out, c)
  <2>1. K \cap A = {}
    BY Tags
  <2>2. OneForOne(A, B)
    BY PendingProposed
  <2>3. Held(r, c) = K \cup A
    BY DEF Held, HeldBy
  <2>4. Held(v, c) = K
    <3>1. Pending(v.requests, c) = {}
      BY <1>6 DEF Pending
    <3>2. InLog(v.log, Slot, c) = InLog(r.log, Slot, c)
      BY <1>5, <1>6, InLogSame
    <3>3. Carrying(v.out, c) = Carrying(r.out, c)
      BY <1>6, <1>7 DEF Carrying
    <3> QED
      BY <1>6, <3>1, <3>2, <3>3 DEF Held, HeldBy
  <2> HIDE DEF K, A, B
  <2>5. Held(t, c) = K \cup B
    BY <1>10, <2>4 DEF B
  <2>6. OneForOne(K \cup A, K \cup B)
    BY <2>1, <2>2, MovePart
  <2> QED
    BY <2>3, <2>5, <2>6
<1> QED
  BY <1>10, <1>11 DEF Conserves, t

\* Nothing lies beyond the highest slot.
LEMMA BeyondSlot ==
  ASSUME NEW I, NEW P, NEW r, Good(I, P, r)
  PROVE  \A s \in Slot : s > r.slot => r.log[s].status = "none"
BY DEF Good, ReplicaOK, LogOK

\* HandleP1b.
LEMMA HandleP1bConserves ==
  ASSUME NEW I, NEW P, Context(I, P), NEW r, Good(I, P, r), NEW p \in P1bRecord, P1bOK(I, P, p),
         HandleP1b(r, p).slot <= MaxSlot
  PROVE  Conserves(r, HandleP1b(r, p))
<1> DEFINE u == Update(r, p.log)
           d == [u EXCEPT !.ballot = p.ballot, !.active = FALSE]
<1>1. CASE p.ballot < r.ballot \/ r.active
  BY <1>1, SelfConserves DEF HandleP1b
<1>2. CASE ~(p.ballot < r.ballot \/ r.active)
  <2>1. r \in Replica /\ p.ballot \in Ballot /\ p.id \in Node /\ p.log \in [Slot -> CommandBallot]
    BY DEF Good, P1bRecord
  <2>2. Good(I, P, u) /\ u \in Replica /\ u.ballot = r.ballot /\ u.id = r.id
    BY <1>2, <2>1, UpdateGood DEF P1bOK, Keeps, Good
  <2>3. Conserves(r, u)
    BY <2>1, <2>2, UpdateConserves
  <2> HIDE DEF u
  <2>4. CASE p.ballot > u.ballot
    <3>1. ID(p.ballot) # u.id
      BY <2>2, <2>4, HigherIsForeign DEF P1bOK
    <3>2. HandleP1b(r, p) = ForwardPending(d)
      BY <1>2, <2>2, <2>4, <3>1 DEF HandleP1b, u
    <3>3. d \in Replica
      BY <2>1, <2>2 DEF Replica
    <3>4. Conserves(u, d)
      <4>1. /\ d.requests = u.requests /\ d.replies = u.replies /\ d.execute = u.execute
            /\ d.slot = u.slot /\ d.log = u.log /\ d.out = u.out
        BY <2>2 DEF Replica
      <4> HIDE DEF d
      <4> QED
        BY <2>2, <4>1, ElsewhereConserves
    <3> HIDE DEF d
    <3> QED
      BY <2>3, <3>2, <3>3, <3>4, ForwardPendingConserves, ConservesTransitive
  <2>5. CASE ~(p.ballot > u.ballot)
    <3> DEFINE v == [u EXCEPT !.quorum = @ \cup {p.id}]
    <3>1. \/ HandleP1b(r, p) = u
          \/ HandleP1b(r, p) = v
          \/ HandleP1b(r, p) = BecomeLeader(v)
      BY <1>2, <2>5 DEF HandleP1b, u
    <3>2. v \in Replica
      BY ZenonT(30), <2>1, <2>2 DEF Replica
    <3>3. /\ v.requests = u.requests /\ v.replies = u.replies /\ v.execute = u.execute
          /\ v.slot = u.slot /\ v.log = u.log /\ v.out = u.out
      BY <2>2 DEF Replica
    <3>4. \A s \in Slot : s > v.slot => v.log[s].status = "none"
      BY <2>2, <3>3, BeyondSlot
    <3> HIDE DEF v
    <3>5. Conserves(u, v)
      BY <2>2, <3>3, ElsewhereConserves
    <3>6. Conserves(r, v)
      BY <2>3, <3>5, ConservesTransitive
    <3>7. CASE HandleP1b(r, p) = BecomeLeader(v)
      <4>1. Conserves(v, BecomeLeader(v))
        BY <3>2, <3>4, <3>7, BecomeLeaderConserves
      <4> QED
        BY <3>6, <3>7, <4>1, ConservesTransitive
    <3> QED
      BY <2>3, <3>1, <3>6, <3>7
  <2> QED
    BY <2>4, <2>5
<1> QED
  BY <1>1, <1>2

\* The one request a message carries.
LEMMA CarryingOne ==
  ASSUME NEW m, m.type = "Request", NEW c
  PROVE  Carrying({m}, c) = IF c = m.command THEN {<<"message", m>>} ELSE {}
BY DEF Carrying

\* A queue that grows by a request.
LEMMA PendingAppend ==
  ASSUME NEW q \in Seq(Cmd), NEW d \in Cmd, NEW c
  PROVE  Pending(Append(q, d), c)
           = Pending(q, c) \cup (IF c = d THEN {<<"pending", Len(q) + 1>>} ELSE {})
<1> DEFINE p == Append(q, d)
           n == Len(q)
<1>1. n \in Nat /\ DOMAIN q = 1..n
  BY LenProperties
<1>2. p \in Seq(Cmd) /\ DOMAIN p = 1..(n + 1) /\ p[n + 1] = d /\ \A i \in 1..n : p[i] = q[i]
  <2>1. p \in Seq(Cmd) /\ Len(p) = n + 1 /\ p[n + 1] = d /\ \A i \in 1..n : p[i] = q[i]
    BY AppendProperties
  <2> QED
    BY <2>1, LenProperties
<1>3. 1..(n + 1) = (1..n) \cup {n + 1}
  BY <1>1
<1> HIDE DEF p, n
<1>4. {j \in DOMAIN p : p[j] = c} = {j \in DOMAIN q : q[j] = c} \cup (IF c = d THEN {n + 1} ELSE {})
  BY <1>1, <1>2, <1>3
<1> DEFINE X == {j \in DOMAIN p : p[j] = c}
           Y == {j \in DOMAIN q : q[j] = c}
           Z == IF c = d THEN {n + 1} ELSE {}
<1>5. Pending(p, c) = Named("pending", X) /\ Pending(q, c) = Named("pending", Y)
  BY DEF Pending, Named
<1> HIDE DEF X, Y
<1>6. X = Y \cup Z
  BY <1>4 DEF X, Y
<1>7. Named("pending", Z) = IF c = d THEN {<<"pending", n + 1>>} ELSE {}
  BY DEF Named
<1> HIDE DEF Z
<1>8. Named("pending", Y \cup Z) = Named("pending", Y) \cup Named("pending", Z)
  BY DEF Named
<1> QED
  BY <1>5, <1>6, <1>7, <1>8 DEF p, n

\* Replica r, now t, has put the request of d in place h.
Takes(r, t, d, h) ==
  HoldingOK(r) =>
    /\ HoldingOK(t)
    /\ \A c \in Cmd : Held(t, c) = Held(r, c) \cup (IF c = d THEN {h} ELSE {})

\* What is left of a request that was taken from the network: the replica has
\* it, as a proposal, as a pending request, or in a message of its own.
LEMMA TakenConserves ==
  ASSUME NEW r \in Replica, r.out = {}, NEW m \in Message, m.type = "Request",
         NEW t, NEW h, Takes(r, t, m.command, h)
  PROVE  Conserves([r EXCEPT !.out = {m}], t)
<1> DEFINE b == [r EXCEPT !.out = {m}]
<1>1. /\ b.requests = r.requests /\ b.replies = r.replies /\ b.execute = r.execute
      /\ b.slot = r.slot /\ b.log = r.log /\ b.out = {m}
  BY DEF Replica
<1> HIDE DEF b
<1>2. SUFFICES ASSUME HoldingOK(b)
               PROVE  HoldingOK(t) /\ \A c \in Cmd : OneForOne(Held(b, c), Held(t, c))
  BY DEF Conserves, b
<1>3. HoldingOK(r) /\ HoldingOK(t)
  BY <1>1, <1>2 DEF HoldingOK, Takes
<1>4. ASSUME NEW c \in Cmd PROVE OneForOne(Held(b, c), Held(t, c))
  <2> DEFINE A == IF c = m.command THEN {<<"message", m>>} ELSE {}
             B == IF c = m.command THEN {h} ELSE {}
             K == HeldBy(r, c)
  <2>1. K \cap A = {}
    BY Tags DEF HeldBy
  <2>2. OneForOne(A, B)
    BY DEF OneForOne
  <2>3. Held(b, c) = K \cup A
    <3>1. Carrying(b.out, c) = A
      BY <1>1, CarryingOne
    <3> HIDE DEF A
    <3> QED
      BY <1>1, <3>1 DEF Held, HeldBy
  <2>4. Held(r, c) = K
    BY DEF Held, Carrying
  <2>5. Held(t, c) = K \cup B
    BY <1>3, <2>4 DEF Takes
  <2> HIDE DEF K, A, B
  <2>6. OneForOne(K \cup A, K \cup B)
    BY <2>1, <2>2, MovePart
  <2> QED
    BY <2>3, <2>5, <2>6
<1> QED
  BY <1>3, <1>4

\* The node that takes a request proposes it, or keeps it and starts phase 1
\* unless it is under way.
LEMMA HandleRequestConserves ==
  ASSUME NEW I, NEW P, NEW r, Good(I, P, r), r.out = {}, NEW m \in Message, m.type = "Request",
         m.command \in Cmd, HandleRequest(r, m.command).slot <= MaxSlot
  PROVE  Conserves([r EXCEPT !.out = {m}], HandleRequest(r, m.command))
<1> DEFINE d == m.command
           b == [r EXCEPT !.out = {m}]
           h == HandleRequest(r, d)
<1>1. r \in Replica /\ r.requests \in Seq(Cmd)
  BY DEF Good, Replica
<1>2. CASE r.active
  <2> DEFINE reqs == <<d>>
             t == P2a(r, reqs)
  <2>1. h = t
    BY <1>2 DEF HandleRequest
  <2>2. reqs \in Seq(Cmd) /\ Len(reqs) = 1 /\ DOMAIN reqs = {1} /\ reqs[1] = d
    OBVIOUS
  <2>3. \A c : Proposing(r, reqs, c) = IF c = d THEN {<<"log", r.slot + 1>>} ELSE {}
    BY <2>2 DEF Proposing
  <2> HIDE DEF reqs
  <2>4. t.slot = r.slot + Len(reqs)
    BY <1>1 DEF P2a, Emit, Replica
  <2>5. r = Emit(r, {})
    BY <1>1 DEF Emit, Replica
  <2>6. r.slot + Len(reqs) <= MaxSlot
    BY <2>1, <2>4
  <2>7. ASSUME HoldingOK(r)
        PROVE  /\ HoldingOK(t)
               /\ \A c \in Cmd : Held(t, c) = Held(r, c) \cup Proposing(r, reqs, c)
    <3>1. \A s \in Slot : s > r.slot => r.log[s].status = "none"
      BY BeyondSlot
    <3>2. reqs \in Seq(Cmd)
      BY <2>2
    <3> DEFINE ns == {}
    <3>3. r = Emit(r, ns)
      BY <2>5
    <3> HIDE DEF ns
    <3> QED
      BY <1>1, <2>6, <2>7, <3>1, <3>2, <3>3, P2aHolds
  <2> HIDE DEF t
  <2>8. Takes(r, t, d, <<"log", r.slot + 1>>)
    BY <2>3, <2>7 DEF Takes
  <2>9. Conserves(b, t)
    BY <1>1, <2>8, TakenConserves
  <2> QED
    BY <2>1, <2>9
<1>3. CASE ~r.active
  <2> DEFINE t == [r EXCEPT !.requests = Append(@, d)]
  <2>1. t \in Replica
    <3>1. Append(r.requests, d) \in Seq(Cmd)
      BY <1>1, AppendProperties
    <3> QED
      BY <1>1, <3>1 DEF Replica
  <2>2. /\ t.requests = Append(r.requests, d) /\ t.replies = r.replies
        /\ t.execute = r.execute /\ t.slot = r.slot /\ t.log = r.log /\ t.out = r.out
    BY <1>1 DEF Replica
  <2>3. h = P1a(t) \/ h = t
    BY <1>3 DEF HandleRequest
  <2> HIDE DEF t
  <2>4. HoldingOK(r) => HoldingOK(t)
    BY <2>2 DEF HoldingOK
  <2>5. \A c \in Cmd :
          Held(t, c) = Held(r, c) \cup (IF c = d THEN {<<"pending", Len(r.requests) + 1>>} ELSE {})
    BY <1>1, <2>2, PendingAppend DEF Held, HeldBy
  <2>6. Takes(r, t, d, <<"pending", Len(r.requests) + 1>>)
    BY <2>4, <2>5 DEF Takes
  <2>7. Conserves(b, t)
    BY <1>1, <2>6, TakenConserves
  <2>8. Conserves(b, P1a(t))
    BY <2>1, <2>7, P1aConserves, ConservesTransitive
  <2> QED
    BY <2>3, <2>7, <2>8
<1> QED
  BY <1>2, <1>3

\* A node that is not the stable leader hands the request on.
LEMMA ForwardTakenConserves ==
  ASSUME NEW r \in Replica, r.out = {}, NEW m \in Message, m.type = "Request", NEW id
  PROVE  Conserves([r EXCEPT !.out = {m}], Forward(r, id, {m.command}))
<1> DEFINE t == Forward(r, id, {m.command})
           ms == ForwardedAll({m.command}, id)
<1>1. /\ t.requests = r.requests /\ t.replies = r.replies /\ t.execute = r.execute
      /\ t.slot = r.slot /\ t.log = r.log /\ t.out = ms
  BY DEF Forward, Emit, Replica, Forwarded, ForwardedAll
<1> HIDE DEF t, ms
<1>2. HoldingOK(r) => HoldingOK(t)
  BY <1>1 DEF HoldingOK
<1>3. ASSUME NEW c \in Cmd
      PROVE  Held(t, c) = Held(r, c) \cup
               (IF c = m.command THEN {<<"message", Forwarded(m.command, id)>>} ELSE {})
  <2>1. Carrying(t.out, c) = IF c = m.command THEN {<<"message", Forwarded(m.command, id)>>} ELSE {}
    <3> DEFINE cs == {m.command}
    <3>1. Carrying(ForwardedAll(cs, id), c)
            = IF c \in cs THEN {<<"message", Forwarded(c, id)>>} ELSE {}
      BY CarryingForward
    <3>2. c \in cs <=> c = m.command
      OBVIOUS
    <3>3. Carrying(t.out, c) = Carrying(ForwardedAll(cs, id), c)
      BY <1>1 DEF ms
    <3> HIDE DEF cs
    <3> QED
      BY <3>1, <3>2, <3>3
  <2>2. Carrying(r.out, c) = {}
    BY DEF Carrying
  <2> QED
    BY <1>1, <2>1, <2>2 DEF Held, HeldBy
<1>4. Takes(r, t, m.command, <<"message", Forwarded(m.command, id)>>)
  BY <1>2, <1>3 DEF Takes
<1>5. Conserves([r EXCEPT !.out = {m}], t)
  BY <1>4, TakenConserves
<1> QED
  BY <1>5 DEF t

-----------------------------------------------------------------------------
\* The requests held by the entries of the slots S.
RequestsIn(l, S) == {l[s].request : s \in S}

\* Replica r, now t, has taken the requests of the slots S out of the log, and
\* forwards all of them to id.
HandsOver(r, t, S, id) ==
  /\ S \subseteq Slot
  /\ t.requests = r.requests /\ t.replies = r.replies /\ t.execute = r.execute
  /\ t.slot \in Int /\ r.slot <= t.slot
  /\ \A s \in Slot : /\ t.log[s].request = IF s \in S THEN NoCmd ELSE r.log[s].request
                     /\ t.log[s].status = "none" => r.log[s].status = "none"
  /\ t.out = r.out \cup ForwardedAll(RequestsIn(r.log, S), id)

\* Handing over is one for one.
LEMMA HandOverConserves ==
  ASSUME NEW r \in Replica, NEW t, NEW S, NEW id, HandsOver(r, t, S, id)
  PROVE  Conserves(r, t)
<1> SUFFICES ASSUME HoldingOK(r)
             PROVE  HoldingOK(t) /\ \A c \in Cmd : OneForOne(Held(r, c), Held(t, c))
  BY DEF Conserves
<1> USE DEF HandsOver
<1>1. r.execute \in Nat /\ r.slot \in Int
  BY MaxSlotAssumption DEF Replica
<1>2. HoldingOK(t)
  BY <1>1 DEF HoldingOK
<1>3. ASSUME NEW c \in Cmd PROVE OneForOne(Held(r, c), Held(t, c))
  <2> DEFINE X == {x \in S : r.log[x].request = c}
             k == <<"message", Forwarded(c, id)>>
             f == [x \in X |-> k]
             cs == RequestsIn(r.log, S)
             rest == Slot \ S
             A == InLog(r.log, S, c)
             B == ImageOf(f, X)
             L == InLog(r.log, rest, c)
             K == ((Pending(r.requests, c) \cup L) \cup Replied(r.replies, c)) \cup Carrying(r.out, c)
  <2>1. K \cap A = {}
    BY Tags
  <2>2. OneForOne(A, B)
    <3>1. A = Named("log", X)
      BY DEF InLog, Named
    <3> HIDE DEF A, f, X
    <3> QED
      BY <3>1, SameIndices
  <2>3. InLog(r.log, Slot, c) = L \cup A
    <3>1. Slot = rest \cup S
      OBVIOUS
    <3> HIDE DEF rest
    <3> QED
      BY <3>1, InLogSplit
  <2>4. InLog(t.log, Slot, c) = L
    <3>1. Slot = rest \cup S
      OBVIOUS
    <3>2. InLog(t.log, rest, c) = InLog(r.log, rest, c)
      BY InLogSame
    <3>3. InLog(t.log, S, c) = {}
      BY InLogNone, CmdAssumption
    <3>4. InLog(t.log, rest \cup S, c) = InLog(t.log, rest, c) \cup InLog(t.log, S, c)
      BY InLogSplit
    <3> HIDE DEF rest
    <3> QED
      BY <3>1, <3>2, <3>3, <3>4
  <2>5. Carrying(t.out, c) = Carrying(r.out, c) \cup B
    <3>1. Carrying(ForwardedAll(cs, id), c) = IF c \in cs THEN {k} ELSE {}
      BY CarryingForward
    <3>2. c \in cs <=> X # {}
      BY DEF RequestsIn
    <3>3. B = IF X # {} THEN {k} ELSE {}
      <4>1. \A x \in X : f[x] = k
        OBVIOUS
      <4> HIDE DEF f, X, k
      <4> QED
        BY <4>1 DEF ImageOf
    <3>4. Carrying(t.out, c) = Carrying(r.out, c) \cup Carrying(ForwardedAll(cs, id), c)
      BY CarryingSplit
    <3> HIDE DEF B, X, cs, k
    <3> QED
      BY <3>1, <3>2, <3>3, <3>4
  <2>6. Held(r, c) = K \cup A
    <3> HIDE DEF A, L
    <3> QED
      BY <2>3 DEF Held, HeldBy
  <2>7. Held(t, c) = K \cup B
    <3> HIDE DEF A, B, L
    <3> QED
      BY <2>4, <2>5 DEF Held, HeldBy
  <2> HIDE DEF K, A, B, L, X, f, cs, rest, k
  <2>8. OneForOne(K \cup A, K \cup B)
    BY <2>1, <2>2, MovePart
  <2> QED
    BY <2>6, <2>7, <2>8
<1> QED
  BY <1>2, <1>3

\* A proposal displaces the request of the entry it overwrites, if it is
\* another command; every other request stays in its entry.
LEMMA AcceptRequest ==
  ASSUME NEW e \in LogEntry, e.status = "none" => e.request = NoCmd, NEW b \in Ballot, NEW d \in Cmd
  PROVE  LET displaced == {c \in {e.request} : c # NoCmd /\ e.status = "open" /\ b > e.ballot
                                               /\ e.command # d}
         IN  /\ Accept(e, b, d).status # "none"
             /\ \/ displaced = {} /\ Accept(e, b, d).request = e.request
                \/ displaced = {e.request} /\ Accept(e, b, d).request = NoCmd
<1> DEFINE x == [e EXCEPT !.ballot = b, !.command = d,
                          !.request = IF e.command # d THEN NoCmd ELSE @]
           y == [e EXCEPT !.ballot = b, !.command = d]
<1>1. Learned(b, d).status = "open" /\ Learned(b, d).request = NoCmd
  BY DEF Learned, NoEntry
<1>2. /\ x.status = e.status /\ x.request = IF e.command # d THEN NoCmd ELSE e.request
      /\ y.status = e.status /\ y.request = e.request
  BY DEF LogEntry
<1> HIDE DEF x, y
<1>3. Accept(e, b, d) = IF e.status = "none" THEN Learned(b, d)
                        ELSE IF e.status = "open" /\ b > e.ballot THEN x
                        ELSE IF e.status = "committed" /\ e.ballot = 0 THEN y ELSE e
  BY DEF Accept, x, y
<1> QED
  BY <1>1, <1>2, <1>3

\* HandleP2a.
LEMMA HandleP2aConserves ==
  ASSUME NEW r \in Replica, NEW m \in Message, m.type = "P2a"
  PROVE  Conserves(r, HandleP2a(r, m))
<1> SUFFICES ASSUME HoldingOK(r) PROVE Conserves(r, HandleP2a(r, m))
  BY DEF Conserves
<1> DEFINE e == r.log[m.slot]
           f == Accept(e, m.ballot, m.command)
           displaced == {c \in {e.request} : c # NoCmd /\ e.status = "open" /\ m.ballot > e.ballot
                                             /\ e.command # m.command}
           S == IF displaced = {} THEN {} ELSE {m.slot}
           id == ID(m.ballot)
           t == HandleP2a(r, m)
<1>1. m.slot \in Slot /\ m.ballot \in Ballot /\ m.command \in Cmd
  BY P2aFields
<1>2. e \in LogEntry /\ (e.status = "none" => e.request = NoCmd) /\ r.slot \in -1..MaxSlot
  BY <1>1 DEF Replica, HoldingOK
<1>3. /\ f.status # "none"
      /\ \/ displaced = {} /\ f.request = e.request
         \/ displaced = {e.request} /\ f.request = NoCmd
  BY <1>1, <1>2, AcceptRequest
<1>4. Max({r.slot, m.slot}) \in -1..MaxSlot /\ r.slot <= Max({r.slot, m.slot})
  <2>1. {r.slot} \cup {m.slot} = {r.slot, m.slot}
    OBVIOUS
  <2> QED
    BY <1>1, <1>2, <2>1, MaxSlotOf
<1>5. CASE m.ballot < r.ballot
  BY <1>5, SelfConserves DEF HandleP2a
<1>6. CASE ~(m.ballot < r.ballot)
  <2>1. /\ t.requests = r.requests /\ t.replies = r.replies /\ t.execute = r.execute
        /\ t.slot = Max({r.slot, m.slot}) /\ t.log = [r.log EXCEPT ![m.slot] = f]
        /\ t.out = r.out \cup ForwardedAll(displaced, id)
    BY <1>6 DEF HandleP2a, Forward, Emit, Replica, Forwarded, ForwardedAll
  <2> HIDE DEF t
  <2>2. displaced = RequestsIn(r.log, S)
    BY <1>3 DEF RequestsIn
  <2>3. S \in SUBSET Slot
    BY <1>1
  <2>4. \A s \in Slot : t.log[s] = IF s = m.slot THEN f ELSE r.log[s]
    BY <2>1 DEF Replica
  <2>5. \A s \in Slot : /\ t.log[s].request = IF s \in S THEN NoCmd ELSE r.log[s].request
                        /\ t.log[s].status = "none" => r.log[s].status = "none"
    BY <1>3, <2>4
  <2>6. t.slot \in Int /\ r.slot <= t.slot
    BY <1>4, <2>1
  <2>7. t.out = r.out \cup ForwardedAll(RequestsIn(r.log, S), id)
    BY <2>1, <2>2
  <2>8. t.requests = r.requests /\ t.replies = r.replies /\ t.execute = r.execute
    BY <2>1
  <2> HIDE DEF S, displaced, f, e, id
  <2>9. HandsOver(r, t, S, id)
    BY <2>3, <2>5, <2>6, <2>7, <2>8 DEF HandsOver
  <2>10. Conserves(r, t)
    BY <2>9, HandOverConserves
  <2> QED
    BY <2>10 DEF t
<1> QED
  BY <1>5, <1>6

\* HandleP2b, whether it is deposed, counts votes, commits, or stops.
LEMMA HandleP2bConserves ==
  ASSUME NEW I, NEW P, Context(I, P), NEW r, Good(I, P, r), NEW s \in Slot,
         NEW b, KnownBallot(I, b), NEW ids \in SUBSET Node
  PROVE  Conserves(r, HandleP2b(r, s, b, ids))
<1> DEFINE e == r.log[s]
           q == e.quorum \cup ids
           ms == RoutedP3(r.id, [ballot |-> r.p3ballot, slots |-> r.p3slots])
           d == [r EXCEPT !.ballot = b, !.active = FALSE, !.p3ballot = 0, !.p3slots = {},
                          !.p3started = TRUE]
           r1 == IF b > r.ballot THEN Emit(d, ms) ELSE r
           r2 == [r1 EXCEPT !.log[s].quorum = q]
           r3 == [r2 EXCEPT !.log[s].status = "committed", !.p3slots = @ \cup {s}]
           h == HandleP2b(r, s, b, ids)
<1>1. r \in Replica /\ e \in LogEntry /\ b \in Ballot /\ \A x \in Slot : r.log[x] \in LogEntry
  BY KnownIsBallot DEF Good, Replica
<1>2. r1 \in Replica /\ Conserves(r, r1) /\ r1.log = r.log /\ r1.slot = r.slot
  <2>1. CASE b > r.ballot
    <3>1. \A m \in ms : m \in Message /\ m.type # "Request"
      <4>1. [ballot |-> r.p3ballot, slots |-> r.p3slots] \in P3Info /\ r.id \in Node
        BY <1>1 DEF Replica, P3Info
      <4> QED
        BY <4>1, RoutedP3OK, RoutedCarryNone
    <3> HIDE DEF ms
    <3>2. d \in Replica
      BY <1>1 DEF Replica, Ballot
    <3>3. /\ d.requests = r.requests /\ d.replies = r.replies /\ d.execute = r.execute
          /\ d.slot = r.slot /\ d.log = r.log /\ d.out = r.out
      BY <1>1 DEF Replica
    <3> HIDE DEF d
    <3>4. Conserves(r, d)
      BY <1>1, <3>3, ElsewhereConserves
    <3>5. Conserves(d, Emit(d, ms))
      BY <3>1, <3>2, EmitConserves
    <3>6. Emit(d, ms) \in Replica /\ Emit(d, ms).log = d.log /\ Emit(d, ms).slot = d.slot
      BY <3>1, <3>2 DEF Emit, Replica
    <3>7. r1 = Emit(d, ms)
      BY <2>1
    <3> QED
      BY <3>3, <3>4, <3>5, <3>6, <3>7, ConservesTransitive
  <2>2. CASE ~(b > r.ballot)
    BY <1>1, <2>2, SelfConserves
  <2> QED
    BY <2>1, <2>2
<1>3. \/ h \in {r, r1, [r1 EXCEPT !.halted = TRUE], r2}
      \/ h = Exec(r3) /\ e.status = "open"
  <2>1. CASE b > r.ballot
    <3>1. r1 = Emit(d, ms)
      BY <2>1
    <3> QED
      BY <2>1, <3>1 DEF HandleP2b
  <2>2. CASE ~(b > r.ballot)
    <3>1. r1 = r
      BY <2>2
    <3> QED
      BY <2>2, <3>1 DEF HandleP2b
  <2> QED
    BY <2>1, <2>2
<1> HIDE DEF r1, h
<1>4. Conserves(r1, [r1 EXCEPT !.halted = TRUE])
  BY <1>2, HaltConserves
<1>5. Conserves(r1, r2)
  <2> DEFINE f == [e EXCEPT !.quorum = q]
  <2>1. r1.log[s] = e /\ f \in LogEntry /\ f.request = e.request /\ f.status = e.status
    BY <1>1, <1>2 DEF LogEntry
  <2>2. r2 = [r1 EXCEPT !.log[s] = f]
    BY <1>2, <2>1 DEF Replica
  <2> HIDE DEF r2, f
  <2>3. r2 \in Replica
    BY <1>2, <2>1, <2>2 DEF Replica
  <2>4. /\ r2.requests = r1.requests /\ r2.replies = r1.replies /\ r2.execute = r1.execute
        /\ r2.slot = r1.slot /\ r2.out = r1.out
        /\ \A x \in Slot : r2.log[x] = IF x = s THEN f ELSE r1.log[x]
    BY <1>2, <2>2 DEF Replica
  <2>5. r1.slot <= r2.slot
    BY <1>2, <2>4, MaxSlotAssumption DEF Replica
  <2>6. Unmoved(r1, r2)
    BY <2>1, <2>4, <2>5 DEF Unmoved
  <2> QED
    BY <1>2, <2>3, <2>6, UnmovedConserves
<1>6. /\ r3 \in Replica /\ Conserves(r1, r3) /\ r3.slot = r.slot
      /\ \A x \in Slot : r3.log[x].status = IF x = s THEN "committed" ELSE r.log[x].status
  <2> DEFINE f == [e EXCEPT !.quorum = q, !.status = "committed"]
             ps == r1.p3slots \cup {s}
  <2>1. r1.log[s] = e /\ f \in LogEntry /\ f.request = e.request /\ f.status = "committed"
    BY <1>1, <1>2 DEF LogEntry
  <2>2. r3.log = [r1.log EXCEPT ![s] = f]
    BY <1>1, <1>2, <2>1 DEF Replica, LogEntry
  <2>3. r3 = [r1 EXCEPT !.log = [r1.log EXCEPT ![s] = f], !.p3slots = ps]
    BY <1>2, <2>2 DEF Replica
  <2>4. ps \in SUBSET Slot
    BY <1>2 DEF Replica
  <2> HIDE DEF r3, f, ps
  <2>5. r3 \in Replica
    BY <1>2, <2>1, <2>3, <2>4 DEF Replica
  <2>6. /\ r3.requests = r1.requests /\ r3.replies = r1.replies /\ r3.execute = r1.execute
        /\ r3.slot = r1.slot /\ r3.out = r1.out
        /\ \A x \in Slot : r3.log[x] = IF x = s THEN f ELSE r1.log[x]
    BY <1>2, <2>3 DEF Replica
  <2>7. r1.slot <= r3.slot
    BY <1>2, <2>6, MaxSlotAssumption DEF Replica
  <2>8. Unmoved(r1, r3)
    BY <2>1, <2>6, <2>7 DEF Unmoved
  <2>9. Conserves(r1, r3)
    BY <1>2, <2>5, <2>8, UnmovedConserves
  <2> QED
    BY <1>2, <2>1, <2>5, <2>6, <2>9
<1> HIDE DEF r2, r3
<1>7. CASE h = Exec(r3) /\ e.status = "open"
  <2>1. \A x \in Slot : x > r.slot => r.log[x].status = "none"
    BY BeyondSlot
  <2>2. \A x \in Slot : x > r3.slot => r3.log[x].status = "none"
    BY <1>6, <1>7, <2>1
  <2>3. Conserves(r3, Exec(r3))
    BY <1>6, <2>2, ExecConserves
  <2> QED
    BY <1>2, <1>6, <1>7, <2>3, ConservesTransitive DEF h
<1>8. CASE h \in {r, r1, [r1 EXCEPT !.halted = TRUE], r2}
  <2>1. Conserves(r, r) /\ Conserves(r, r1) /\ Conserves(r, r2)
    BY <1>2, <1>5, SelfConserves, ConservesTransitive
  <2>2. Conserves(r, [r1 EXCEPT !.halted = TRUE])
    BY <1>2, <1>4, ConservesTransitive
  <2>3. Conserves(r, h)
    BY <1>8, <2>1, <2>2
  <2> QED
    BY <2>3 DEF h
<1> QED
  BY <1>3, <1>7, <1>8

\* What a commit does to the request of an entry.
LEMMA CommitRequest ==
  ASSUME NEW e \in LogEntry, e.status = "none" => e.request = NoCmd, NEW b
  PROVE  /\ Commit(e, b).status # "none"
         /\ Commit(e, b).request = IF e.status # "none" /\ e.ballot # b /\ e.request # NoCmd
                                   THEN NoCmd ELSE e.request
<1>1. Placeholder.status = "committed" /\ Placeholder.request = NoCmd
  BY DEF Placeholder, NoEntry
<1>2. /\ [e EXCEPT !.status = "committed"].status = "committed"
      /\ [e EXCEPT !.status = "committed"].request = e.request
      /\ [e EXCEPT !.request = NoCmd].status = e.status
      /\ [e EXCEPT !.request = NoCmd].request = NoCmd
  BY DEF LogEntry
<1> QED
  BY <1>1, <1>2 DEF Commit

\* HandleP3: the requests of entries of another ballot are forwarded to the
\* node that committed.
LEMMA HandleP3Conserves ==
  ASSUME NEW I, NEW P, Context(I, P), NEW r, Good(I, P, r), NEW p3 \in P3Info
  PROVE  Conserves(r, HandleP3(r, p3))
<1> SUFFICES ASSUME HoldingOK(r) PROVE Conserves(r, HandleP3(r, p3))
  BY DEF Conserves
<1> DEFINE stale == {s \in p3.slots : /\ r.log[s].status # "none"
                                      /\ r.log[s].ballot # p3.ballot
                                      /\ r.log[s].request # NoCmd}
           l == [s \in Slot |-> IF s \in p3.slots THEN Commit(r.log[s], p3.ballot) ELSE r.log[s]]
           r1 == [r EXCEPT !.slot = Max({@} \cup p3.slots), !.log = l]
           cs == RequestsIn(r.log, stale)
           id == ID(p3.ballot)
           r2 == Forward(r1, id, cs)
           ms == ForwardedAll(cs, id)
           r3 == SendRecoverRequest(r2, p3.ballot, stale)
           ns == {[type |-> "RecoverRequest", slot |-> s, id |-> r2.id, dst |-> {ID(p3.ballot)}] :
                    s \in stale}
<1>1. /\ r \in Replica /\ r.slot \in -1..MaxSlot /\ p3.slots \in SUBSET Slot
      /\ p3.ballot \in Ballot /\ \A s \in Slot : r.log[s] \in LogEntry
  BY DEF Good, Replica, P3Info
<1>2. /\ Max({r.slot} \cup p3.slots) \in -1..MaxSlot /\ r.slot <= Max({r.slot} \cup p3.slots)
      /\ \A s \in p3.slots : s <= Max({r.slot} \cup p3.slots)
  BY <1>1, MaxSlotOf
<1>3. l \in [Slot -> LogEntry]
  BY <1>1, CommitFacts
<1>4. \A s \in Slot : /\ l[s].request = IF s \in stale THEN NoCmd ELSE r.log[s].request
                      /\ s \in p3.slots => l[s].status # "none"
                      /\ s \notin p3.slots => l[s] = r.log[s]
  <2>1. \A s \in Slot : r.log[s].status = "none" => r.log[s].request = NoCmd
    BY DEF HoldingOK
  <2>2. \A s \in Slot :
          /\ Commit(r.log[s], p3.ballot).status # "none"
          /\ Commit(r.log[s], p3.ballot).request
               = IF r.log[s].status # "none" /\ r.log[s].ballot # p3.ballot /\ r.log[s].request # NoCmd
                 THEN NoCmd ELSE r.log[s].request
    BY <1>1, <2>1, CommitRequest
  <2> QED
    BY <1>1, <2>2
<1>5. stale \in SUBSET Slot /\ cs \subseteq MaybeCmd \ {NoCmd} /\ id \in Int
  BY <1>1, OwnerIsInt DEF RequestsIn, LogEntry
<1>6. HandleP3(r, p3) = Exec(r3)
  BY DEF HandleP3, RequestsIn
<1>7. r1 \in Replica
  BY <1>1, <1>2, <1>3 DEF Replica
<1>8. /\ r1.requests = r.requests /\ r1.replies = r.replies /\ r1.execute = r.execute
      /\ r1.slot = Max({r.slot} \cup p3.slots) /\ r1.log = l /\ r1.out = r.out
  BY <1>1 DEF Replica
<1>9. ms \in SUBSET Message
  <2>1. \A c \in cs : Forwarded(c, id) \in Message
    <3> HIDE DEF cs, id
    <3> QED
      BY <1>5 DEF Message, Forwarded, MaybeCmd
  <2> HIDE DEF cs, id
  <2> QED
    BY <2>1 DEF ForwardedAll
<1>10. r2 = Emit(r1, ms)
  BY DEF Forward, Forwarded, ForwardedAll
<1> HIDE DEF r1, stale, cs, l, id, ms
<1>11. r2 \in Replica
  BY ZenonT(30), <1>7, <1>9, <1>10 DEF Emit, Replica
<1>12. /\ r2.requests = r.requests /\ r2.replies = r.replies /\ r2.execute = r.execute
       /\ r2.slot = r1.slot /\ r2.log = l /\ r2.out = r.out \cup ms
  BY <1>7, <1>8, <1>10 DEF Emit, Replica
<1> HIDE DEF r2
<1>13. Conserves(r, r2)
  <2>1. HandsOver(r, r2, stale, id)
    <3>1. r2.slot \in Int /\ r.slot <= r2.slot
      BY <1>2, <1>8, <1>12
    <3>2. r2.out = r.out \cup ForwardedAll(RequestsIn(r.log, stale), id)
      BY <1>12 DEF ms, cs
    <3>3. \A s \in Slot : r2.log[s].status = "none" => r.log[s].status = "none"
      BY <1>4, <1>12
    <3> QED
      BY <1>4, <1>5, <1>12, <3>1, <3>2, <3>3 DEF HandsOver
  <2> QED
    BY <1>1, <2>1, HandOverConserves
<1>14. Conserves(r2, r3)
  BY <1>11, SendRecoverRequestConserves
<1>15. r3 \in Replica /\ r3.slot = r2.slot /\ r3.log = l
  <2>1. ns \in SUBSET Message
    <3>1. r2.id \in Node /\ ID(p3.ballot) \in Int
      BY <1>1, <1>11, OwnerIsInt DEF Replica
    <3> QED
      BY <1>5, <3>1 DEF Message
  <2>2. r3 = Emit(r2, ns)
    BY DEF SendRecoverRequest
  <2> HIDE DEF ns
  <2> QED
    BY ZenonT(30), <1>11, <1>12, <2>1, <2>2 DEF Emit, Replica
<1> HIDE DEF r3
<1>16. \A s \in Slot : s > r3.slot => r3.log[s].status = "none"
  <2> SUFFICES ASSUME NEW s \in Slot, s > r3.slot
               PROVE  r3.log[s].status = "none"
    OBVIOUS
  <2>1. r3.slot = Max({r.slot} \cup p3.slots) /\ s \in Int /\ r.slot \in Int
    BY <1>1, <1>8, <1>12, <1>15, MaxSlotAssumption DEF Slot
  <2>2. s > r.slot /\ s \notin p3.slots
    BY <1>2, <2>1
  <2>3. r.log[s].status = "none"
    BY <2>2, BeyondSlot
  <2> QED
    BY <1>4, <1>15, <2>2, <2>3
<1>17. Conserves(r3, Exec(r3))
  BY <1>15, <1>16, ExecConserves
<1> QED
  BY <1>6, <1>13, <1>14, <1>17, ConservesTransitive

\* HandleP3RecoverRequest.
LEMMA HandleP3RecoverRequestConserves ==
  ASSUME NEW I, NEW P, Context(I, P), NEW r, Good(I, P, r), NEW s \in Slot, NEW id \in Node
  PROVE  Conserves(r, HandleP3RecoverRequest(r, s, id))
<1> DEFINE e == r.log[s]
           answer == [type |-> "RecoverReply", ballot |-> e.ballot, slot |-> s,
                      command |-> e.command, dst |-> {id}]
           r1 == Emit(r, {answer})
<1>1. r \in Replica /\ e \in LogEntry /\ Proposed(P, s, e)
  BY DEF Good, Replica, ReplicaOK, LogOK
<1>2. answer \in Message /\ MsgOK(I, P, answer) /\ answer.type # "Request"
  BY <1>1 DEF Message, MsgOK, Proposed, LogEntry
<1> HIDE DEF answer
<1>3. Good(I, P, r1) /\ Conserves(r, r1)
  BY <1>1, <1>2, EmitGood, EmitConserves
<1>4. HandleP3RecoverRequest(r, s, id) \in {Exec(r), Exec(r1)}
  BY DEF HandleP3RecoverRequest, answer
<1> HIDE DEF r1
<1>5. ASSUME NEW x, Good(I, P, x) PROVE Conserves(x, Exec(x))
  <2>1. x \in Replica
    BY <1>5 DEF Good
  <2> QED
    BY <1>5, <2>1, BeyondSlot, ExecConserves
<1>6. Conserves(r, Exec(r)) /\ Conserves(r, Exec(r1))
  BY <1>3, <1>5, ConservesTransitive
<1> QED
  BY <1>4, <1>6

\* HandleP3RecoverReply: an entry that is recovered keeps its request.
LEMMA HandleP3RecoverReplyConserves ==
  ASSUME NEW I, NEW P, Context(I, P), NEW r, Good(I, P, r), NEW m \in Message,
         m.type = "RecoverReply"
  PROVE  Conserves(r, HandleP3RecoverReply(r, m))
<1> DEFINE e == r.log[m.slot]
           f == IF e.status = "none" THEN e
                ELSE [e EXCEPT !.status = "committed", !.ballot = m.ballot, !.command = m.command]
           r1 == [r EXCEPT !.slot = Max({@, m.slot}), !.log[m.slot] = f]
<1>1. m.slot \in Slot /\ m.ballot \in Ballot /\ m.command \in MaybeCmd
  BY DEF Message
<1>2. r \in Replica /\ r.slot \in -1..MaxSlot /\ e \in LogEntry
  BY <1>1 DEF Good, Replica
<1>3. f \in LogEntry /\ f.request = e.request /\ (f.status = "none" => e.status = "none")
  BY <1>1, <1>2 DEF LogEntry
<1>4. /\ Max({r.slot, m.slot}) \in -1..MaxSlot /\ r.slot <= Max({r.slot, m.slot})
      /\ m.slot <= Max({r.slot, m.slot})
  <2>1. {r.slot} \cup {m.slot} = {r.slot, m.slot}
    OBVIOUS
  <2> QED
    BY <1>1, <1>2, <2>1, MaxSlotOf
<1>5. HandleP3RecoverReply(r, m) = Exec(r1)
  BY DEF HandleP3RecoverReply
<1> HIDE DEF f
<1>6. r1 \in Replica
  BY <1>1, <1>2, <1>3, <1>4 DEF Replica
<1>7. /\ r1.requests = r.requests /\ r1.replies = r.replies /\ r1.execute = r.execute
      /\ r1.slot = Max({r.slot, m.slot}) /\ r1.out = r.out
      /\ \A s \in Slot : r1.log[s] = IF s = m.slot THEN f ELSE r.log[s]
  BY <1>1, <1>2 DEF Replica
<1> HIDE DEF r1
<1>8. Conserves(r, r1)
  <2>1. r.slot <= r1.slot
    BY <1>4, <1>7
  <2>2. Unmoved(r, r1)
    BY <1>3, <1>7, <2>1 DEF Unmoved
  <2> QED
    BY <1>2, <1>6, <2>2, UnmovedConserves
<1>9. ASSUME NEW s \in Slot, s > r1.slot PROVE r1.log[s].status = "none"
  <2>1. s \in Int /\ m.slot \in Int /\ r.slot \in Int /\ r1.slot \in Int
    BY <1>1, <1>2, <1>4, <1>7, MaxSlotAssumption DEF Slot
  <2>2. s > r.slot /\ s # m.slot
    BY <1>4, <1>7, <1>9, <2>1
  <2>3. r.log[s].status = "none"
    BY <2>2, BeyondSlot
  <2> QED
    BY <1>7, <2>2, <2>3
<1>10. Conserves(r1, Exec(r1))
  BY <1>6, <1>9, ExecConserves
<1> QED
  BY <1>5, <1>8, <1>10, ConservesTransitive

\* UpdateLastExecuteByNode.
LEMMA UpdateLastExecuteConserves ==
  ASSUME NEW r \in Replica, NEW q, NEW x
  PROVE  Conserves(r, UpdateLastExecuteByNode(r, q, x))
<1> DEFINE t == UpdateLastExecuteByNode(r, q, x)
<1>1. /\ t.requests = r.requests /\ t.replies = r.replies /\ t.execute = r.execute
      /\ t.slot = r.slot /\ t.log = r.log /\ t.out = r.out
  BY DEF UpdateLastExecuteByNode, Replica
<1> HIDE DEF t
<1>2. Conserves(r, t)
  BY <1>1, ElsewhereConserves
<1> QED
  BY <1>2 DEF t

\* CleanupLog drops only entries that were executed, and answered.
LEMMA CleanupLogConserves ==
  ASSUME NEW I, NEW P, Context(I, P), NEW r, Good(I, P, r)
  PROVE  Conserves(r, CleanupLog(r))
<1> SUFFICES ASSUME HoldingOK(r) PROVE Conserves(r, CleanupLog(r))
  BY DEF Conserves
<1> DEFINE marker == GetSafeLogCleanupMarker(r)
           t == CleanupLog(r)
<1>1. r \in Replica /\ t \in Replica
  BY CleanupLogGood DEF Good
<1>2. marker \in -1..(MaxSlot + 1) /\ marker <= r.execute /\ r.execute \in 0..(MaxSlot + 1)
  <2>1. r \in Replica
    BY <1>1
  <2>2. \A q \in Node : r.executeBy[q] # NotReported => r.executeBy[q] >= -1
    BY <2>1, MaxSlotAssumption DEF Replica, NotReported
  <2> QED
    BY <2>1, <2>2, CleanupMarker DEF Replica
<1>3. /\ t.requests = r.requests /\ t.replies = r.replies /\ t.execute = r.execute
      /\ t.slot = r.slot /\ t.out = r.out
      /\ \A s \in Slot : t.log[s] = IF s >= r.cleaned /\ s < marker THEN NoEntry ELSE r.log[s]
  BY <1>1 DEF CleanupLog, Replica
<1> HIDE DEF t, marker
<1>4. \A s \in Slot : s < marker => s < r.execute
  BY <1>2, MaxSlotAssumption DEF Slot
<1>5. NoEntry.request = NoCmd
  BY DEF NoEntry
<1>6. r.slot <= t.slot
  BY <1>1, <1>3, MaxSlotAssumption DEF Replica
<1>7. \A s \in Slot : s < r.execute => r.log[s].request = NoCmd
  BY DEF HoldingOK
<1>8. Unmoved(r, t)
  BY <1>3, <1>4, <1>5, <1>6, <1>7 DEF Unmoved
<1> QED
  BY <1>1, <1>8, UnmovedConserves DEF t

-----------------------------------------------------------------------------
\* BroadcastToPeerGroup carries no client's request.
LEMMA PropagateConserves ==
  ASSUME NEW r \in Replica, NEW m \in Message, m.type \in {"P1a", "P2a", "P3"}
  PROVE  Conserves(r, Propagate(r, m))
<1> DEFINE ms == {[m EXCEPT !.via = r.id, !.dst = {q}] : q \in GroupOf(r.id) \ {r.id, m.src}}
<1>1. ASSUME NEW q PROVE [m EXCEPT !.via = r.id, !.dst = {q}].type = m.type
  <2>1. CASE m.type = "P1a"
    BY <2>1 DEF Message
  <2>2. CASE m.type = "P2a"
    BY <2>2 DEF Message
  <2>3. CASE m.type = "P3"
    BY <2>3 DEF Message
  <2> QED
    BY <2>1, <2>2, <2>3
<1>2. \A x \in ms : x.type # "Request"
  BY <1>1
<1> HIDE DEF ms
<1> QED
  BY <1>2, EmitConserves DEF Propagate, ms

\* Sending the collected P1b's to the candidate (handleP1bRelay, startTicker).
LEMMA FlushP1bConserves ==
  ASSUME NEW r \in Replica, NEW p1bs
  PROVE  Conserves(r, FlushP1b(r, p1bs))
<1> DEFINE t == FlushP1b(r, p1bs)
           a == [type |-> "P1bs", p1bs |-> p1bs, dst |-> {r.p1bRelay.hop}]
<1>1. /\ t.requests = r.requests /\ t.replies = r.replies /\ t.execute = r.execute
      /\ t.slot = r.slot /\ t.log = r.log /\ t.out = r.out \cup {a}
  BY DEF FlushP1b, Emit, Replica
<1>2. a.type # "Request"
  OBVIOUS
<1> HIDE DEF t, a
<1>3. Conserves(r, t)
  BY <1>1, <1>2, ElsewhereConserves
<1> QED
  BY <1>3 DEF t

\* handleP1bRelay.
LEMMA HandleP1bRelayConserves ==
  ASSUME NEW r \in Replica, NEW p
  PROVE  Conserves(r, HandleP1bRelay(r, p))
<1> DEFINE p1bs == Append(r.p1bRelay.p1bs, p)
           t == [r EXCEPT !.p1bRelay.p1bs = p1bs]
<1>1. /\ t.requests = r.requests /\ t.replies = r.replies /\ t.execute = r.execute
      /\ t.slot = r.slot /\ t.log = r.log /\ t.out = r.out
  BY DEF Replica
<1>2. HandleP1bRelay(r, p) = FlushP1b(r, p1bs) \/ HandleP1bRelay(r, p) = t
  BY DEF HandleP1bRelay
<1> HIDE DEF t, p1bs
<1>3. Conserves(r, t)
  BY <1>1, ElsewhereConserves
<1> QED
  BY <1>2, <1>3, FlushP1bConserves

\* handleP1b, as a relay and as a candidate.
LEMMA ReceiveP1bConserves ==
  ASSUME NEW I, NEW P, Context(I, P), NEW r, Good(I, P, r), NEW p \in P1bRecord, P1bOK(I, P, p),
         ReceiveP1b(r, p).slot <= MaxSlot
  PROVE  Conserves(r, ReceiveP1b(r, p))
<1>1. r \in Replica
  BY DEF Good
<1>2. CASE r.p1bRelay.pending
  BY <1>1, <1>2, HandleP1bRelayConserves DEF ReceiveP1b
<1>3. CASE ~r.p1bRelay.pending
  BY <1>3, HandleP1bConserves DEF ReceiveP1b
<1> QED
  BY <1>2, <1>3

\* A leaf answers a P1a.
LEMMA HandleP1aLeafConserves ==
  ASSUME NEW I, NEW P, Context(I, P), NEW r, Good(I, P, r), NEW m \in Message, m.type = "P1a",
         MsgOK(I, P, m)
  PROVE  Conserves(r, HandleP1aLeaf(r, m))
<1> DEFINE r1 == HandleP1a(r, m.ballot)
           a == [type |-> "P1b", p1b |-> P1bOf(r1), dst |-> {m.via}]
<1>1. m.ballot \in I /\ m.ballot \in Ballot /\ r \in Replica
  BY P1aFields DEF MsgOK, Good
<1>2. r1 \in Replica
  BY <1>1, HandleP1aGood DEF Good
<1>3. Conserves(r, r1)
  BY <1>1, HandleP1aConserves
<1>4. HandleP1aLeaf(r, m) = Emit(r1, {a})
  BY DEF HandleP1aLeaf
<1>5. a.type # "Request"
  OBVIOUS
<1> HIDE DEF r1, a
<1>6. Conserves(r1, Emit(r1, {a}))
  BY <1>2, <1>5, EmitConserves
<1> QED
  BY <1>3, <1>4, <1>6, ConservesTransitive

\* A relay that handles a P1a: it is gone, or hands its pending requests to
\* the candidate, adds its own promise, and passes the P1a on.
LEMMA HandleP1aRelayConserves ==
  ASSUME NEW I, NEW P, Context(I, P), NEW r, Good(I, P, r), NEW m \in Message, m.type = "P1a",
         MsgOK(I, P, m), HandleP1aRelay(r, m).slot <= MaxSlot
  PROVE  Conserves(r, HandleP1aRelay(r, m))
<1> DEFINE new == r.ballot < m.ballot
           nack == new /\ r.p1bRelay.pending
           a == [type |-> "Prepare", ballot |-> m.ballot, dst |-> {ID(r.ballot)}]
           r1 == IF nack THEN Emit(r, {a}) ELSE r
           c == [pending |-> TRUE, hop |-> m.src, p1bs |-> <<>>]
           r2 == IF new THEN [r1 EXCEPT !.p1bRelay = c] ELSE r1
           r3 == HandleP1a(r2, m.ballot)
           r4 == ReceiveP1b(r3, P1bOf(r3))
           h == HandleP1aRelay(r, m)
<1>1. m.ballot \in I /\ m.ballot \in Ballot /\ m.src \in Node /\ r \in Replica
  BY P1aFields DEF MsgOK, Good
<1>2. h = IF nack /\ ID(r.ballot) = r.id THEN [r EXCEPT !.halted = TRUE]
          ELSE IF new THEN Propagate(r4, m) ELSE r4
  BY DEF HandleP1aRelay
<1>3. CASE nack /\ ID(r.ballot) = r.id
  BY <1>1, <1>2, <1>3, HaltConserves
<1>4. CASE ~(nack /\ ID(r.ballot) = r.id)
  <2>1. Good(I, P, r1) /\ Conserves(r, r1)
    <3>1. r.ballot \in Ballot /\ ID(r.ballot) \in Int
      BY <1>1, OwnerIsInt DEF Replica
    <3>2. a \in Message /\ MsgOK(I, P, a) /\ a.type # "Request"
      BY <1>1, <3>1 DEF Message, MsgOK
    <3> HIDE DEF a
    <3>3. Good(I, P, Emit(r, {a})) /\ Conserves(r, Emit(r, {a}))
      BY <1>1, <3>2, EmitGood, EmitConserves
    <3> QED
      BY <3>3, SelfConserves
  <2> HIDE DEF r1
  <2>2. Good(I, P, r2) /\ Conserves(r1, r2) /\ (new => r2.p1bRelay.pending)
    <3> DEFINE d == [r1 EXCEPT !.p1bRelay = c]
    <3>1. c \in P1bRelay /\ c.hop \in Node /\ P1bSeqOK(I, P, c.p1bs) /\ c.pending
      BY <1>1, EmptySeq DEF P1bRelay, P1bSeqOK
    <3> HIDE DEF c
    <3>2. Good(I, P, d) /\ r1 \in Replica
      BY <2>1, <3>1, P1bRelayChangeGood DEF Good
    <3>3. /\ d.requests = r1.requests /\ d.replies = r1.replies /\ d.execute = r1.execute
          /\ d.slot = r1.slot /\ d.log = r1.log /\ d.out = r1.out /\ d.p1bRelay = c
      BY <3>2 DEF Replica
    <3> HIDE DEF d
    <3>4. Conserves(r1, d)
      BY <3>2, <3>3, ElsewhereConserves
    <3> QED
      BY <2>1, <3>1, <3>2, <3>3, <3>4, SelfConserves DEF d
  <2> HIDE DEF r2
  <2>3. Good(I, P, r3) /\ Conserves(r2, r3)
    <3>1. r2 \in Replica
      BY <2>2 DEF Good
    <3> QED
      BY <1>1, <2>2, <3>1, HandleP1aGood, HandleP1aConserves
  <2>4. r3.p1bRelay = r2.p1bRelay
    BY <2>2 DEF HandleP1a, ForwardPending, Forward, Emit, Good, Replica
  <2> HIDE DEF r3
  <2>5. r3 \in Replica /\ P1bOf(r3) \in P1bRecord /\ P1bOK(I, P, P1bOf(r3))
    BY <2>3, P1bOfOK DEF Good
  <2>6. Conserves(r, r3)
    BY <2>1, <2>2, <2>3, ConservesTransitive
  <2>7. CASE new
    <3>1. r4 = HandleP1bRelay(r3, P1bOf(r3)) /\ r3.p1bRelay.pending
      BY <2>2, <2>4, <2>7 DEF ReceiveP1b
    <3>2. Conserves(r3, r4)
      BY <2>5, <3>1, HandleP1bRelayConserves
    <3>3. r4 \in Replica
      BY <2>3, <2>5, <3>1, HandleP1bRelayGood DEF Good
    <3> HIDE DEF r4
    <3>4. h = Propagate(r4, m)
      BY <1>2, <1>4, <2>7
    <3>5. Conserves(r4, h)
      BY <3>3, <3>4, PropagateConserves
    <3> HIDE DEF h
    <3>6. Conserves(r, h)
      BY <2>6, <3>2, <3>5, ConservesTransitive
    <3> QED
      BY <3>6 DEF h
  <2>8. CASE ~new
    <3>1. h = r4
      BY <1>2, <1>4, <2>8
    <3>2. Conserves(r3, r4)
      BY <2>3, <2>5, <3>1, ReceiveP1bConserves
    <3>3. Conserves(r, r4)
      BY <2>6, <3>2, ConservesTransitive
    <3> QED
      BY <3>1, <3>3
  <2> QED
    BY <2>7, <2>8
<1> QED
  BY <1>3, <1>4

-----------------------------------------------------------------------------
\* A nack carries no client's request.
LEMMA SendNackConserves ==
  ASSUME NEW r \in Replica, NEW b, NEW s, NEW id
  PROVE  Conserves(r, SendNack(r, b, s, id))
<1> DEFINE a == [type |-> "P2b", ballot |-> b, slot |-> s, ids |-> <<>>, dst |-> {id}]
<1>1. a.type # "Request"
  OBVIOUS
<1> HIDE DEF a
<1> QED
  BY <1>1, EmitConserves DEF SendNack, a

\* Sending the collected votes to the leader.
LEMMA FlushP2bConserves ==
  ASSUME NEW r \in Replica, NEW s, NEW ids, NEW missing
  PROVE  Conserves(r, FlushP2b(r, s, ids, missing))
<1> DEFINE t == FlushP2b(r, s, ids, missing)
<1>1. /\ t.requests = r.requests /\ t.replies = r.replies /\ t.execute = r.execute
      /\ t.slot = r.slot /\ t.log = r.log
  BY DEF FlushP2b, Emit, Replica
<1>2. \A m : m.type = "Request" => (m \in t.out <=> m \in r.out)
  BY DEF FlushP2b, Emit, Replica
<1> HIDE DEF t
<1>3. Conserves(r, t)
  BY <1>1, <1>2, ElsewhereConserves
<1> QED
  BY <1>3 DEF t

\* handleP2bRelay.
LEMMA HandleP2bRelayConserves ==
  ASSUME NEW r \in Replica, NEW b, NEW s, NEW ids
  PROVE  Conserves(r, HandleP2bRelay(r, b, s, ids))
<1> DEFINE c == r.p2bRelay[s]
           all == c.ids \o ids
           missing == IF RelaySlack > 0 THEN ComputeMissingIDsForP2b(r, all) ELSE {}
           d == [r EXCEPT !.p2bRelay[s].ids = all]
           h == HandleP2bRelay(r, b, s, ids)
<1>1. \/ h = r \/ h = SendNack(r, b, s, ID(c.ballot)) \/ h = FlushP2b(r, s, all, missing) \/ h = d
  BY DEF HandleP2bRelay
<1>2. /\ d.requests = r.requests /\ d.replies = r.replies /\ d.execute = r.execute
      /\ d.slot = r.slot /\ d.log = r.log /\ d.out = r.out
  BY DEF Replica
<1> HIDE DEF h, d, all, missing
<1>3. Conserves(r, d)
  BY <1>2, ElsewhereConserves
<1>4. Conserves(r, h)
  BY <1>1, <1>3, SelfConserves, SendNackConserves, FlushP2bConserves
<1> QED
  BY <1>4 DEF h

\* handleP2b, as a relay and as a leader.
LEMMA ReceiveP2bConserves ==
  ASSUME NEW I, NEW P, Context(I, P), NEW r, Good(I, P, r), NEW s \in Slot,
         NEW b, KnownBallot(I, b), NEW ids \in Seq(Node)
  PROVE  Conserves(r, ReceiveP2b(r, b, s, ids))
<1>1. Range(ids) \in SUBSET Node
  <2>1. DOMAIN ids = 1..Len(ids)
    BY LenProperties
  <2> QED
    BY <2>1, ElementOfSeq DEF Range
<1>2. CASE IsLeader(r)
  BY <1>1, <1>2, HandleP2bConserves DEF ReceiveP2b
<1>3. CASE ~IsLeader(r)
  <2>1. r \in Replica
    BY DEF Good
  <2> QED
    BY <1>3, <2>1, HandleP2bRelayConserves DEF ReceiveP2b
<1> QED
  BY <1>2, <1>3

\* handleP2bAggregated.
LEMMA HandleP2bAggregatedConserves ==
  ASSUME NEW I, NEW P, Context(I, P), NEW r, Good(I, P, r), NEW m \in Message,
         m.type = "P2bAggregated", MsgOK(I, P, m)
  PROVE  Conserves(r, HandleP2bAggregated(r, m))
<1> DEFINE t == UpdateLastExecuteByNode(r, m.relay, m.lastExecute)
           ids == GroupOf(m.relay) \ m.missing
<1>1. /\ m.relay \in Node /\ m.lastExecute \in -1..MaxSlot /\ m.slot \in Slot
      /\ KnownBallot(I, m.ballot)
  BY DEF Message, MsgOK
<1>2. ids \in SUBSET Node
  BY <1>1, GroupOfFacts
<1>3. Good(I, P, t)
  BY <1>1, UpdateLastExecuteGood
<1>4. Conserves(r, t)
  <2>1. r \in Replica
    BY DEF Good
  <2> QED
    BY <2>1, UpdateLastExecuteConserves
<1>5. HandleP2bAggregated(r, m) \in {r, HandleP2b(t, m.slot, m.ballot, ids)}
  BY DEF HandleP2bAggregated
<1> HIDE DEF t, ids
<1>6. Conserves(t, HandleP2b(t, m.slot, m.ballot, ids))
  BY <1>1, <1>2, <1>3, HandleP2bConserves
<1>7. Conserves(r, HandleP2b(t, m.slot, m.ballot, ids))
  BY <1>4, <1>6, ConservesTransitive
<1> QED
  BY <1>5, <1>7, SelfConserves

\* Opening the collection of the votes of a slot.
LEMMA OpenP2bRelayConserves ==
  ASSUME NEW r \in Replica, NEW m \in Message, m.type = "P2a"
  PROVE  Conserves(r, OpenP2bRelay(r, m))
<1> DEFINE c == r.p2bRelay[m.slot]
           fresh == [pending |-> TRUE, hop |-> m.src, ballot |-> m.ballot, ids |-> <<>>]
           opened == [r EXCEPT !.p2bRelay[m.slot] = fresh]
           h == OpenP2bRelay(r, m)
<1>1. \/ h = opened \/ h = SendNack(opened, m.ballot, m.slot, ID(c.ballot))
      \/ h = SendNack(r, c.ballot, m.slot, ID(c.ballot)) \/ h = r
  BY DEF OpenP2bRelay
<1>2. opened \in Replica
  <2>1. m.slot \in Slot /\ m.src \in Node /\ m.ballot \in Ballot
    BY P2aFields
  <2>2. fresh \in P2bRelay
    BY <2>1, EmptySeq DEF P2bRelay
  <2> HIDE DEF fresh
  <2> QED
    BY <2>1, <2>2 DEF Replica
<1>3. /\ opened.requests = r.requests /\ opened.replies = r.replies /\ opened.execute = r.execute
      /\ opened.slot = r.slot /\ opened.log = r.log /\ opened.out = r.out
  BY DEF Replica
<1> HIDE DEF h, opened, c
<1>4. Conserves(r, opened)
  BY <1>3, ElsewhereConserves
<1>5. Conserves(r, SendNack(opened, m.ballot, m.slot, ID(c.ballot)))
  BY <1>2, <1>4, SendNackConserves, ConservesTransitive
<1>6. Conserves(r, h)
  BY <1>1, <1>4, <1>5, SelfConserves, SendNackConserves
<1> QED
  BY <1>6 DEF h

\* The P3 that travels with a P2a.
LEMMA HandleP3msgConserves ==
  ASSUME NEW I, NEW P, Context(I, P), NEW r, Good(I, P, r), NEW p3 \in P3Info
  PROVE  Conserves(r, HandleP3msg(r, p3))
BY HandleP3Conserves, SelfConserves DEF HandleP3msg

\* handleP2aRelay.
LEMMA HandleP2aRelayConserves ==
  ASSUME NEW I, NEW P, Context(I, P), NEW r, Good(I, P, r), NEW m \in Message, m.type = "P2a",
         MsgOK(I, P, m), r.id \in m.dst
  PROVE  Conserves(r, HandleP2aRelay(r, m))
<1> DEFINE o == OpenP2bRelay(r, m)
           r1 == HandleP2a(o, m)
           r2 == ReceiveP2b(r1, r1.ballot, m.slot, <<r.id>>)
           r3 == HandleP3msg(r2, m.p3)
<1>1. /\ m.slot \in Slot /\ m.p3 \in P3Info /\ r.id \in Node /\ <<r.id>> \in Seq(Node)
      /\ r \in Replica
  BY P2aFields DEF Good, Replica
<1>2. Good(I, P, o) /\ Conserves(r, o) /\ ID(m.ballot) # o.id
  <2>1. Good(I, P, o) /\ Keeps(r, o)
    BY OpenP2bRelayGood
  <2> QED
    BY <1>1, <2>1, OpenP2bRelayConserves DEF MsgOK, Keeps
<1> HIDE DEF o
<1>3. Good(I, P, r1) /\ Conserves(o, r1)
  <2>1. o \in Replica
    BY <1>2 DEF Good
  <2> QED
    BY <1>2, <2>1, HandleP2aGood, HandleP2aConserves
<1>4. KnownBallot(I, r1.ballot)
  BY <1>3 DEF Good, ReplicaOK, OwnerOK
<1> HIDE DEF r1
<1>5. Good(I, P, r2) /\ Conserves(r1, r2)
  BY <1>1, <1>3, <1>4, ReceiveP2bGood, ReceiveP2bConserves
<1> HIDE DEF r2
<1>6. r3 \in Replica /\ Conserves(r2, r3)
  BY <1>1, <1>5, HandleP3msgGood, HandleP3msgConserves DEF Good
<1> HIDE DEF r3
<1>7. Conserves(r3, Propagate(r3, m))
  BY <1>6, PropagateConserves
<1>8. Conserves(r, Propagate(r3, m))
  BY <1>2, <1>3, <1>5, <1>6, <1>7, ConservesTransitive
<1> QED
  BY <1>8 DEF HandleP2aRelay, o, r1, r2, r3

\* A leaf that votes.
LEMMA HandleP2aLeafConserves ==
  ASSUME NEW I, NEW P, Context(I, P), NEW r, Good(I, P, r), NEW m \in Message, m.type = "P2a",
         MsgOK(I, P, m), r.id \in m.dst, m.via # 0
  PROVE  Conserves(r, HandleP2aLeaf(r, m))
<1> DEFINE r1 == HandleP2a(r, m)
           vote == [type |-> "P2b", ballot |-> r1.ballot, slot |-> m.slot,
                    ids |-> <<r.id>>, dst |-> {m.via}]
           r2 == Emit(r1, {vote})
<1>1. /\ m.slot \in Slot /\ m.p3 \in P3Info /\ m.via \in Node /\ m.via \in Int
      /\ r.id \in Node /\ <<r.id>> \in Seq(Node) /\ ID(m.ballot) # r.id /\ r \in Replica
  BY SMTT(30), P2aFields, NodeIsPositive DEF Good, Replica, MsgOK
<1>2. Good(I, P, r1) /\ Conserves(r, r1) /\ r1 \in Replica
  BY <1>1, HandleP2aGood, HandleP2aConserves DEF Good
<1>3. KnownBallot(I, r1.ballot) /\ r1.ballot \in Ballot
  BY <1>2 DEF Good, ReplicaOK, OwnerOK, Replica
<1> HIDE DEF r1
<1>4. vote \in Message /\ MsgOK(I, P, vote) /\ vote.type # "Request"
  BY <1>1, <1>3 DEF Message, MsgOK
<1> HIDE DEF vote
<1>5. Good(I, P, r2) /\ Conserves(r1, r2)
  BY <1>2, <1>4, EmitGood, EmitConserves
<1> HIDE DEF r2
<1>6. Conserves(r2, HandleP3msg(r2, m.p3))
  BY <1>1, <1>5, HandleP3msgConserves
<1>7. Conserves(r, HandleP3msg(r2, m.p3))
  BY <1>2, <1>5, <1>6, ConservesTransitive
<1> QED
  BY <1>7 DEF HandleP2aLeaf, r1, vote, r2

\* A relay that handles a P3 and passes it on.
LEMMA HandleP3RelayConserves ==
  ASSUME NEW I, NEW P, Context(I, P), NEW r, Good(I, P, r), NEW m \in Message, m.type = "P3",
         MsgOK(I, P, m)
  PROVE  Conserves(r, HandleP3Relay(r, m))
<1> DEFINE t == HandleP3(r, m.p3)
<1>1. m.p3 \in P3Info
  BY DEF Message
<1>2. t \in Replica /\ Conserves(r, t)
  BY <1>1, HandleP3Good, HandleP3Conserves DEF Good
<1> HIDE DEF t
<1>3. Conserves(t, Propagate(t, m))
  BY <1>2, PropagateConserves
<1> QED
  BY <1>2, <1>3, ConservesTransitive DEF HandleP3Relay, t

-----------------------------------------------------------------------------
(* The network.                                                            *)

\* How many copies of m are in a bag, and the copies that carry c.
Count(b, m) == IF m \in DOMAIN b THEN b[m] ELSE 0

Requesting(m, c) == m.type = "Request" /\ m.command = c

Copies(b, c) ==
  UNION {{<<m, i>> : i \in 1..b[m]} : m \in {x \in DOMAIN b : Requesting(x, c)}}

\* Which copies there are follows from how many there are.
LEMMA CopiesCounted ==
  ASSUME NEW b, IsABag(b), NEW c, NEW h
  PROVE  h \in Copies(b, c) <=>
           \E m : \E i \in Nat : /\ h = <<m, i>> /\ 1 <= i /\ i <= Count(b, m)
                                 /\ Requesting(m, c)
<1>1. \A m \in DOMAIN b : b[m] \in Nat
  BY DEF IsABag
<1>2. ASSUME h \in Copies(b, c)
      PROVE  \E m : \E i \in Nat : /\ h = <<m, i>> /\ 1 <= i /\ i <= Count(b, m)
                                   /\ Requesting(m, c)
  <2>1. PICK m \in DOMAIN b : Requesting(m, c) /\ h \in {<<m, i>> : i \in 1..b[m]}
    BY <1>2 DEF Copies
  <2>2. PICK i \in 1..b[m] : h = <<m, i>>
    BY <2>1
  <2>3. i \in Nat /\ 1 <= i /\ i <= Count(b, m)
    BY <1>1 DEF Count
  <2> QED
    BY <2>1, <2>2, <2>3
<1>3. ASSUME NEW m, NEW i \in Nat, h = <<m, i>>, 1 <= i, i <= Count(b, m), Requesting(m, c)
      PROVE  h \in Copies(b, c)
  <2>1. m \in DOMAIN b /\ i \in 1..b[m]
    BY <1>1, <1>3 DEF Count
  <2> QED
    BY <1>3, <2>1 DEF Copies
<1> QED
  BY <1>2, <1>3

\* Counts when a set of messages is added to a bag or taken from it.
LEMMA CountWith ==
  ASSUME NEW b, IsABag(b), NEW S, NEW m
  PROVE  Count(b (+) SetToBag(S), m) = Count(b, m) + (IF m \in S THEN 1 ELSE 0)
<1> DEFINE B == b (+) SetToBag(S)
<1>1. DOMAIN B = DOMAIN b \cup S
  BY BagWith
<1>2. \A e \in DOMAIN b \cup S :
        B[e] = (IF e \in DOMAIN b THEN b[e] ELSE 0) + (IF e \in S THEN 1 ELSE 0)
  BY DEF (+), SetToBag, BagToSet
<1> HIDE DEF B
<1> QED
  BY <1>1, <1>2 DEF Count, B

LEMMA CountWithout ==
  ASSUME NEW b, IsABag(b), NEW S, NEW m
  PROVE  Count(b (-) SetToBag(S), m) =
           IF m \in S /\ m \in DOMAIN b THEN Count(b, m) - 1 ELSE Count(b, m)
<1> DEFINE B == b (-) SetToBag(S)
           W(e) == IF e \in S THEN b[e] - 1 ELSE b[e]
<1>1. B = [e \in {d \in DOMAIN b : W(d) > 0} |-> W(e)]
  BY DEF (-), SetToBag
<1>2. b (-) SetToBag(S) = B
  OBVIOUS
<1> HIDE DEF B
<1>3. m \in DOMAIN b => b[m] \in Nat /\ b[m] > 0
  BY DEF IsABag
<1>4. CASE m \in DOMAIN B
  BY <1>1, <1>2, <1>3, <1>4 DEF Count
<1>5. CASE m \notin DOMAIN B
  BY <1>1, <1>3, <1>5, <1>2 DEF Count
<1> QED
  BY <1>4, <1>5

\* Places that are mapped onto others.
LEMMA MappedOnto ==
  ASSUME NEW X, NEW Y, NEW f \in [X -> Y], \A y \in Y : \E x \in X : f[x] = y
  PROVE  OneForOne(X, Y)
<1>1. ASSUME NEW h, X = {h} PROVE Y = {f[h]}
  BY <1>1
<1> QED
  BY <1>1 DEF OneForOne

\* The copies of c in a bag of the network, and in the hands of node n.
OnTheWay(b, c) == {0} \X Copies(b, c)

InHand(n, S, c) == {n} \X Carrying(S, c)

LEMMA OnTheWayFacts ==
  ASSUME NEW b, IsABag(b), NEW c, NEW h
  PROVE  h \in OnTheWay(b, c) <=>
           \E m : \E i \in Nat : /\ h = <<0, <<m, i>>>> /\ 1 <= i /\ i <= Count(b, m)
                                 /\ Requesting(m, c)
BY CopiesCounted DEF OnTheWay

LEMMA InHandFacts ==
  ASSUME NEW n, NEW S, NEW c, NEW h
  PROVE  h \in InHand(n, S, c) <=>
           \E m \in S : h = <<n, <<"message", m>>>> /\ Requesting(m, c)
BY DEF InHand, Carrying, Requesting

\* Messages that are handed to the network or taken from it: B is what is in
\* the network with the messages S, b what is in it without them.
LEMMA HandedOver ==
  ASSUME NEW b, NEW B, IsABag(b), IsABag(B), NEW S, NEW c, NEW n \in Node,
         \A m : Requesting(m, c) => Count(B, m) = Count(b, m) + (IF m \in S THEN 1 ELSE 0)
  PROVE  /\ OneForOne(OnTheWay(b, c) \cup InHand(n, S, c), OnTheWay(B, c))
         /\ OneForOne(OnTheWay(B, c), OnTheWay(b, c) \cup InHand(n, S, c))
<1> DEFINE X == OnTheWay(b, c) \cup InHand(n, S, c)
           Y == OnTheWay(B, c)
           f == [h \in X |-> IF h[1] = 0 THEN h ELSE <<0, <<h[2][2], Count(b, h[2][2]) + 1>>>>]
           g == [h \in Y |-> IF h[2][2] <= Count(b, h[2][1]) THEN h
                             ELSE <<n, <<"message", h[2][1]>>>>]
<1>1. n # 0 /\ \A m : Count(b, m) \in Nat
  BY NodeIsPositive DEF Count, IsABag
<1>2. \A h : h \in X <=>
        \/ \E m : \E i \in Nat : /\ h = <<0, <<m, i>>>> /\ 1 <= i /\ i <= Count(b, m)
                                 /\ Requesting(m, c)
        \/ \E m \in S : h = <<n, <<"message", m>>>> /\ Requesting(m, c)
  BY OnTheWayFacts, InHandFacts
<1>3. \A h : h \in Y <=>
        \E m : \E i \in Nat : /\ h = <<0, <<m, i>>>> /\ 1 <= i
                              /\ i <= Count(b, m) + (IF m \in S THEN 1 ELSE 0)
                              /\ Requesting(m, c)
  BY OnTheWayFacts
<1> HIDE DEF X, Y
<1>4. /\ \A h \in X : f[h] = IF h[1] = 0 THEN h ELSE <<0, <<h[2][2], Count(b, h[2][2]) + 1>>>>
      /\ \A h \in Y : g[h] = IF h[2][2] <= Count(b, h[2][1]) THEN h
                             ELSE <<n, <<"message", h[2][1]>>>>
      /\ DOMAIN f = X /\ DOMAIN g = Y
      /\ f = [h \in X |-> f[h]] /\ g = [h \in Y |-> g[h]]
  OBVIOUS
<1> HIDE DEF f, g
<1>5. \A m, i : <<0, <<m, i>>>> \in X => f[<<0, <<m, i>>>>] = <<0, <<m, i>>>>
  BY <1>4
<1>6. ASSUME NEW m, <<n, <<"message", m>>>> \in X
      PROVE  f[<<n, <<"message", m>>>>] = <<0, <<m, Count(b, m) + 1>>>>
  BY <1>1, <1>4, <1>6
<1>7. \A m, i : <<0, <<m, i>>>> \in Y =>
        g[<<0, <<m, i>>>>] = IF i <= Count(b, m) THEN <<0, <<m, i>>>> ELSE <<n, <<"message", m>>>>
  BY <1>4
<1>8. ASSUME NEW h \in X PROVE f[h] \in Y
  BY <1>1, <1>2, <1>3, <1>5, <1>6
<1>9. ASSUME NEW h \in Y PROVE g[h] \in X
  <2>1. PICK m : \E i \in Nat : /\ h = <<0, <<m, i>>>> /\ 1 <= i
                                /\ i <= Count(b, m) + (IF m \in S THEN 1 ELSE 0)
                                /\ Requesting(m, c)
    BY <1>3
  <2>2. PICK i \in Nat : /\ h = <<0, <<m, i>>>> /\ 1 <= i
                         /\ i <= Count(b, m) + (IF m \in S THEN 1 ELSE 0)
                         /\ Requesting(m, c)
    BY <2>1
  <2>3. CASE i <= Count(b, m)
    BY <1>2, <1>7, <2>2, <2>3
  <2>4. CASE ~(i <= Count(b, m))
    <3>1. m \in S
      BY <1>1, <2>2, <2>4
    <3> QED
      BY <1>2, <1>7, <2>2, <2>4, <3>1
  <2> QED
    BY <2>3, <2>4
<1>10. ASSUME NEW h \in Y PROVE \E x \in X : f[x] = h
  <2>0. PICK m : \E i \in Nat : /\ h = <<0, <<m, i>>>> /\ 1 <= i
                                /\ i <= Count(b, m) + (IF m \in S THEN 1 ELSE 0)
                                /\ Requesting(m, c)
    BY <1>3
  <2>1. PICK i \in Nat : /\ h = <<0, <<m, i>>>> /\ 1 <= i
                         /\ i <= Count(b, m) + (IF m \in S THEN 1 ELSE 0)
                         /\ Requesting(m, c)
    BY <2>0
  <2>2. CASE i <= Count(b, m)
    BY <1>2, <1>5, <2>1, <2>2
  <2>3. CASE ~(i <= Count(b, m))
    <3>1. m \in S /\ i = Count(b, m) + 1
      BY <1>1, <2>1, <2>3
    <3>2. <<n, <<"message", m>>>> \in X
      BY <1>2, <2>1, <3>1
    <3> QED
      BY <1>6, <2>1, <3>1, <3>2
  <2> QED
    BY <2>2, <2>3
<1>11. ASSUME NEW h \in X PROVE \E y \in Y : g[y] = h
  <2>1. CASE \E m : \E i \in Nat : /\ h = <<0, <<m, i>>>> /\ 1 <= i /\ i <= Count(b, m)
                                   /\ Requesting(m, c)
    <3>0. PICK m : \E i \in Nat : /\ h = <<0, <<m, i>>>> /\ 1 <= i /\ i <= Count(b, m)
                                  /\ Requesting(m, c)
      BY <2>1
    <3>1. PICK i \in Nat : /\ h = <<0, <<m, i>>>> /\ 1 <= i /\ i <= Count(b, m)
                           /\ Requesting(m, c)
      BY <3>0
    <3>2. h \in Y
      BY <1>1, <1>3, <3>1
    <3> QED
      BY <1>7, <3>1, <3>2
  <2>2. CASE \E m \in S : h = <<n, <<"message", m>>>> /\ Requesting(m, c)
    <3>1. PICK m \in S : h = <<n, <<"message", m>>>> /\ Requesting(m, c)
      BY <2>2
    <3> DEFINE i == Count(b, m) + 1
    <3>2. i \in Nat /\ 1 <= i /\ ~(i <= Count(b, m))
      BY <1>1
    <3>3. <<0, <<m, i>>>> \in Y
      BY <1>3, <3>1, <3>2
    <3> QED
      BY <1>7, <3>1, <3>2, <3>3
  <2> QED
    BY <1>2, <2>1, <2>2
<1>12. f \in [X -> Y] /\ g \in [Y -> X]
  BY <1>4, <1>8, <1>9
<1>13. OneForOne(X, Y) /\ OneForOne(Y, X)
  BY <1>10, <1>11, <1>12, MappedOnto
<1> QED
  BY <1>13 DEF X, Y

LEMMA OneForOneTransitive ==
  ASSUME NEW R, NEW S, NEW T, OneForOne(R, S), OneForOne(S, T)
  PROVE  OneForOne(R, T)
BY DEF OneForOne

\* The same places, seen from outside the node.
LEMMA PlacesOfNode ==
  ASSUME NEW n, NEW S, NEW T, OneForOne(S, T)
  PROVE  OneForOne({n} \X S, {n} \X T)
<1>1. (S = {} => T = {}) /\ \A h : S = {h} => \E k : T = {k}
  BY DEF OneForOne
<1>2. ASSUME {n} \X S = {} PROVE {n} \X T = {}
  <2>1. \A x \in S : <<n, x>> \in {n} \X S
    OBVIOUS
  <2>2. S = {}
    BY <1>2, <2>1
  <2> QED
    BY <1>1, <2>2
<1>3. ASSUME NEW h, {n} \X S = {h} PROVE \E k : {n} \X T = {k}
  <2>1. \A x \in S : <<n, x>> = h
    BY <1>3
  <2>2. S # {} /\ \A x, y \in S : x = y
    BY <1>3, <2>1
  <2>3. \E x : S = {x}
    BY <2>2
  <2>4. PICK k : T = {k}
    BY <1>1, <2>3
  <2>5. {n} \X T = {<<n, k>>}
    BY <2>4
  <2> QED
    BY <2>5
<1> QED
  BY <1>2, <1>3 DEF OneForOne

-----------------------------------------------------------------------------
(* The steps.                                                              *)

\* Holders, of the replicas nd and the bag b.
Places(nd, b, c) == OnTheWay(b, c) \cup UNION {{q} \X HeldBy(nd[q], c) : q \in Node}

\* Where c is held outside node n, and there.
AtOthers(nd, n, c) == UNION {{q} \X HeldBy(nd[q], c) : q \in Node \ {n}}

AtNode(n, r, c) == {n} \X HeldBy(r, c)

LEMMA PlacesSplit ==
  ASSUME NEW nd, NEW b, NEW n \in Node, NEW c
  PROVE  Places(nd, b, c) = (OnTheWay(b, c) \cup AtOthers(nd, n, c)) \cup AtNode(n, nd[n], c)
BY DEF Places, AtOthers, AtNode

LEMMA HoldersArePlaces ==
  /\ \A c : Holders(c) = Places(node, msgs, c)
  /\ \A c : Holders(c)' = Places(node', msgs', c)
<1>1. ASSUME NEW c PROVE InTransit(c) = Copies(msgs, c) /\ InTransit(c)' = Copies(msgs', c)
  BY DEF InTransit, Copies, Requesting
<1> QED
  BY <1>1 DEF Holders, Places, OnTheWay

\* The parts of the places have nothing in common.
LEMMA PartsApart ==
  ASSUME NEW n \in Node, NEW c
  PROVE  /\ \A b, h : h \in OnTheWay(b, c) => h[1] = 0
         /\ \A S, h : h \in InHand(n, S, c) => h[1] = n /\ h[2][1] = "message"
         /\ \A nd : \A h \in AtOthers(nd, n, c) : h[1] \in Node \ {n}
         /\ \A r : \A h \in AtNode(n, r, c) :
              h[1] = n /\ h[2][1] \in {"pending", "log", "reply"}
<1>1. \A b, h : h \in OnTheWay(b, c) => h[1] = 0
  BY DEF OnTheWay
<1>2. \A S, h : h \in InHand(n, S, c) => h[1] = n /\ h[2] \in Carrying(S, c)
  BY DEF InHand
<1>3. \A S, h : h \in InHand(n, S, c) => h[2][1] = "message"
  BY <1>2, Tags
<1>4. \A nd : \A h \in AtOthers(nd, n, c) : h[1] \in Node \ {n}
  BY DEF AtOthers
<1>5. ASSUME NEW r, NEW h \in AtNode(n, r, c)
      PROVE  h[1] = n /\ h[2][1] \in {"pending", "log", "reply"}
  <2>1. h[1] = n /\ h[2] \in HeldBy(r, c)
    BY DEF AtNode
  <2>2. \/ h[2] \in Pending(r.requests, c)
        \/ h[2] \in InLog(r.log, Slot, c)
        \/ h[2] \in Replied(r.replies, c)
    BY <2>1 DEF HeldBy
  <2> QED
    BY <2>1, <2>2, Tags
<1> QED
  BY <1>1, <1>2, <1>3, <1>4, <1>5

\* A step moves what is in the hands of node n: the requests among the
\* messages it took go to the places they have in t.
LEMMA PlacesMoved ==
  ASSUME NEW b, IsABag(b), NEW n \in Node, NEW nd, NEW t, NEW c \in Cmd,
         NEW taken, NEW hand, hand \subseteq taken, hand \subseteq DOMAIN b,
         \A m \in taken : m.type = "Request" => m \in hand,
         OneForOne(AtNode(n, nd[n], c) \cup InHand(n, hand, c),
                   AtNode(n, t, c) \cup InHand(n, t.out, c)),
         NEW nd2, \A q \in Node \ {n} : nd2[q] = nd[q], HeldBy(nd2[n], c) = HeldBy(t, c)
  PROVE  OneForOne(Places(nd, b, c),
                   Places(nd2, (b (-) SetToBag(taken)) (+) SetToBag(t.out), c))
<1> DEFINE b1 == b (-) SetToBag(taken)
           b2 == b1 (+) SetToBag(t.out)
           R == AtOthers(nd, n, c)
           P == AtNode(n, nd[n], c)
           Q == AtNode(n, t, c)
           H == InHand(n, hand, c)
           O == InHand(n, t.out, c)
           X0 == OnTheWay(b, c)
           X1 == OnTheWay(b1, c)
           X2 == OnTheWay(b2, c)
<1>1. IsABag(b1) /\ IsABag(b2)
  BY BagWith, BagWithout
<1>2. /\ \A m : Count(b1, m) = IF m \in taken /\ m \in DOMAIN b THEN Count(b, m) - 1 ELSE Count(b, m)
      /\ \A m : Count(b2, m) = Count(b1, m) + (IF m \in t.out THEN 1 ELSE 0)
  BY <1>1, CountWith, CountWithout
<1>3. Places(nd, b, c) = (X0 \cup R) \cup P
  BY PlacesSplit
<1>4. Places(nd2, b2, c) = (X2 \cup R) \cup Q
  <2>1. AtOthers(nd2, n, c) = R
    BY DEF AtOthers
  <2>2. AtNode(n, nd2[n], c) = Q
    BY DEF AtNode
  <2>3. Places(nd2, b2, c) = (X2 \cup AtOthers(nd2, n, c)) \cup AtNode(n, nd2[n], c)
    BY PlacesSplit
  <2> HIDE DEF b2
  <2> QED
    BY <2>1, <2>2, <2>3
<1>5. /\ \A h \in X0 \cup X1 : h[1] = 0
      /\ \A h \in H \cup O : h[1] = n /\ h[2][1] = "message"
      /\ \A h \in R : h[1] \in Node \ {n}
      /\ \A h \in P \cup Q : h[1] = n /\ h[2][1] \in {"pending", "log", "reply"}
      /\ \A q \in Node : q # 0
  BY PartsApart, NodeIsPositive
<1>6. OneForOne(X0, X1 \cup H)
  <2>1. ASSUME NEW m, Requesting(m, c)
        PROVE  Count(b, m) = Count(b1, m) + (IF m \in hand THEN 1 ELSE 0)
    <3>1. Count(b, m) \in Nat
      BY DEF Count, IsABag
    <3>2. m \in hand => m \in taken /\ m \in DOMAIN b
      OBVIOUS
    <3>3. m \in taken => m \in hand
      BY <2>1 DEF Requesting
    <3> QED
      BY <1>2, <3>1, <3>2, <3>3
  <2> QED
    BY <1>1, <2>1, HandedOver
<1>7. OneForOne(X1 \cup O, X2)
  BY <1>1, <1>2, HandedOver
<1>8. OneForOne(P \cup H, Q \cup O)
  OBVIOUS
<1> HIDE DEF R, P, Q, H, O, X0, X1, X2, b2
<1>9. OneForOne((R \cup P) \cup X0, (R \cup P) \cup (X1 \cup H))
  <2>1. (R \cup P) \cap X0 = {}
    BY <1>5
  <2> QED
    BY <1>6, <2>1, MovePart
<1>10. OneForOne((X1 \cup R) \cup (P \cup H), (X1 \cup R) \cup (Q \cup O))
  <2>1. (X1 \cup R) \cap (P \cup H) = {}
    BY <1>5
  <2> QED
    BY <1>8, <2>1, MovePart
<1>11. OneForOne((R \cup Q) \cup (X1 \cup O), (R \cup Q) \cup X2)
  <2>1. (R \cup Q) \cap (X1 \cup O) = {}
    BY <1>5
  <2> QED
    BY <1>7, <2>1, MovePart
<1>12. /\ (R \cup P) \cup X0 = (X0 \cup R) \cup P
       /\ (R \cup P) \cup (X1 \cup H) = (X1 \cup R) \cup (P \cup H)
       /\ (X1 \cup R) \cup (Q \cup O) = (R \cup Q) \cup (X1 \cup O)
       /\ (R \cup Q) \cup X2 = (X2 \cup R) \cup Q
  OBVIOUS
<1>13. OneForOne((X0 \cup R) \cup P, (X2 \cup R) \cup Q)
  BY <1>9, <1>10, <1>11, <1>12, OneForOneTransitive
<1> QED
  BY <1>3, <1>4, <1>13 DEF b2

\* What is held once stays held once, what nobody holds stays so.
HeldOnce(S, c, D) ==
  IF c \in D THEN (\E h : S = {h}) \/ ("Request" \in Lossy /\ S = {}) ELSE S = {}

LEMMA HeldOnceMoves ==
  ASSUME NEW S, NEW T, NEW c, NEW D, HeldOnce(S, c, D), OneForOne(S, T)
  PROVE  HeldOnce(T, c, D)
BY DEF HeldOnce, OneForOne

\* RequestInv, in the terms of the lemmas about places.
LEMMA RequestContext ==
  ASSUME RequestInv
  PROVE  /\ \A n \in Node : HoldingOK(node[n])
         /\ \A c \in Cmd : HeldOnce(Places(node, msgs, c), c, submitted)
<1>1. \A c : Holders(c) = Places(node, msgs, c)
  BY HoldersArePlaces
<1>2. ASSUME NEW c \in Cmd, c \in submitted
      PROVE  (\E h : Holders(c) = {h}) \/ ("Request" \in Lossy /\ Holders(c) = {})
  <2>1. \/ \E h \in Holders(c) : Holders(c) = {h}
        \/ "Request" \in Lossy /\ Holders(c) = {}
    BY <1>2 DEF RequestInv
  <2> QED
    BY <2>1
<1>3. \A c \in Cmd : c \notin submitted => Holders(c) = {}
  BY DEF RequestInv
<1>4. \A c \in Cmd : HeldOnce(Holders(c), c, submitted)
  BY <1>2, <1>3 DEF HeldOnce
<1> QED
  BY <1>1, <1>4 DEF RequestInv

LEMMA RequestInvNext ==
  ASSUME \A n \in Node : HoldingOK(node'[n]),
         \A c \in Cmd : HeldOnce(Places(node', msgs', c), c, submitted')
  PROVE  RequestInv'
<1>1. \A c : Holders(c)' = Places(node', msgs', c)
  BY HoldersArePlaces
<1>2. ASSUME NEW c \in Cmd
      PROVE  IF c \in submitted'
             THEN \/ \E h \in Holders(c)' : Holders(c)' = {h}
                  \/ "Request" \in Lossy /\ Holders(c)' = {}
             ELSE Holders(c)' = {}
  <2>1. HeldOnce(Holders(c)', c, submitted')
    BY <1>1
  <2> QED
    BY <2>1 DEF HeldOnce
<1> QED
  BY <1>2 DEF RequestInv

\* A step of node n whose handler conserves the requests preserves RequestInv.
LEMMA StepKeepsRequests ==
  ASSUME Inv, RequestInv, NEW n \in Node, NEW taken, NEW hand, hand \subseteq taken,
         hand \subseteq DOMAIN msgs, \A m \in taken : m.type = "Request" => m \in hand,
         NEW t \in Replica, Conserves([node[n] EXCEPT !.out = hand], t), Step(n, taken, t)
  PROVE  RequestInv'
<1> DEFINE r == node[n]
           r0 == [r EXCEPT !.out = hand]
           u == [t EXCEPT !.out = {}]
<1>1. IsABag(msgs) /\ node \in [Node -> Replica] /\ r \in Replica
  BY DEF Inv, TypeOK
<1>2. /\ r0.requests = r.requests /\ r0.log = r.log /\ r0.replies = r.replies /\ r0.out = hand
      /\ r0.execute = r.execute /\ r0.slot = r.slot
      /\ u.requests = t.requests /\ u.log = t.log /\ u.replies = t.replies
      /\ u.execute = t.execute /\ u.slot = t.slot
  BY <1>1 DEF Replica
<1>3. /\ node' = [node EXCEPT ![n] = u]
      /\ msgs' = (msgs (-) SetToBag(taken)) (+) SetToBag(t.out)
      /\ submitted' = submitted
  BY DEF Step
<1> HIDE DEF r0, u
<1>4. node'[n] = u /\ \A q \in Node \ {n} : node'[q] = node[q]
  BY <1>1, <1>3
<1>5. HoldingOK(r0)
  BY <1>2, RequestContext DEF HoldingOK
<1>6. HoldingOK(t) /\ \A c \in Cmd : OneForOne(Held(r0, c), Held(t, c))
  BY <1>5 DEF Conserves, r0
<1>7. \A q \in Node : HoldingOK(node'[q])
  <2>1. HoldingOK(u)
    BY <1>2, <1>6 DEF HoldingOK
  <2> QED
    BY <1>4, <2>1, RequestContext
<1>8. ASSUME NEW c \in Cmd
      PROVE  HeldOnce(Places(node', msgs', c), c, submitted')
  <2>1. HeldBy(r0, c) = HeldBy(r, c) /\ HeldBy(u, c) = HeldBy(t, c)
    BY <1>2 DEF HeldBy
  <2>2. OneForOne(HeldBy(r, c) \cup Carrying(hand, c), HeldBy(t, c) \cup Carrying(t.out, c))
    BY <1>2, <1>6, <2>1 DEF Held
  <2>3. OneForOne({n} \X (HeldBy(r, c) \cup Carrying(hand, c)),
                  {n} \X (HeldBy(t, c) \cup Carrying(t.out, c)))
    BY <2>2, PlacesOfNode
  <2>4. \A A, B : {n} \X (A \cup B) = ({n} \X A) \cup ({n} \X B)
    OBVIOUS
  <2>5. OneForOne(AtNode(n, r, c) \cup InHand(n, hand, c), AtNode(n, t, c) \cup InHand(n, t.out, c))
    BY <2>3, <2>4 DEF AtNode, InHand
  <2>6. HeldBy(node'[n], c) = HeldBy(t, c)
    BY <1>4, <2>1
  <2>7. OneForOne(Places(node, msgs, c),
                  Places(node', (msgs (-) SetToBag(taken)) (+) SetToBag(t.out), c))
    BY <1>1, <1>4, <2>5, <2>6, PlacesMoved
  <2>8. OneForOne(Places(node, msgs, c), Places(node', msgs', c))
    BY <1>3, <2>7
  <2>9. HeldOnce(Places(node, msgs, c), c, submitted)
    BY RequestContext
  <2> QED
    BY <1>3, <2>8, <2>9, HeldOnceMoves
<1> QED
  BY <1>7, <1>8, RequestInvNext

\* The same for a handler of another message, or of none.
LEMMA QuietStepRequests ==
  ASSUME Inv, RequestInv, NEW n \in Node, NEW taken, \A m \in taken : m.type # "Request",
         NEW t \in Replica, Conserves(node[n], t), Step(n, taken, t)
  PROVE  RequestInv'
<1>1. node[n] \in Replica /\ node[n].out = {}
  BY DEF Inv, TypeOK
<1>2. [node[n] EXCEPT !.out = {}] = node[n]
  BY <1>1 DEF Replica
<1>3. Conserves([node[n] EXCEPT !.out = {}], t)
  BY <1>2
<1> QED
  BY <1>3, StepKeepsRequests

\* A handler that may propose ends in a replica.
LEMMA OutcomeIsReplica ==
  ASSUME NEW I, NEW P, NEW r, NEW t, Outcome(I, P, r, t)
  PROVE  t \in Replica
BY DEF Outcome, Good

\* Taking P1b's into the queue of handleP1bLeader, or the first one out.
LEMMA QueueConserves ==
  ASSUME NEW r \in Replica, NEW q
  PROVE  Conserves(r, [r EXCEPT !.p1bQueue = q])
<1> DEFINE t == [r EXCEPT !.p1bQueue = q]
<1>1. /\ t.requests = r.requests /\ t.replies = r.replies /\ t.execute = r.execute
      /\ t.slot = r.slot /\ t.log = r.log /\ t.out = r.out
  BY DEF Replica
<1> HIDE DEF t
<1>2. Conserves(r, t)
  BY <1>1, ElsewhereConserves
<1> QED
  BY <1>2 DEF t

\* Every handler of a message or request conserves the requests.
LEMMA ReceiveKeepsRequests ==
  ASSUME Inv, RequestInv, NEW n \in Node, Receive(n)
  PROVE  RequestInv'
<1> DEFINE r == node[n]
<1>1. /\ Context(issued, proposals) /\ Good(issued, proposals, r) /\ r.id = n /\ r \in Replica
      /\ r.out = {}
  BY InvContext DEF Good, Inv, TypeOK
<1>2. ASSUME NEW taken, NEW t, Step(n, taken, t)
      PROVE  t.slot <= MaxSlot
  BY <1>2 DEF Step, WithinBounds
<1>3. CASE ReceiveRequest(n)
  <2>1. PICK m \in Inbox(n, "Request") :
          Step(n, {m}, IF ~StableLeader \/ IsLeader(r) \/ r.ballot = 0
                       THEN HandleRequest(r, m.command) ELSE Forward(r, ID(r.ballot), {m.command}))
    BY <1>3 DEF ReceiveRequest
  <2>2. /\ m \in DOMAIN msgs /\ m \in Message /\ m.type = "Request" /\ m.command \in Cmd
        /\ {m} \subseteq {m} /\ {m} \subseteq DOMAIN msgs
        /\ \A x \in {m} : x.type = "Request" => x \in {m}
    BY InboxFacts DEF Message, Inbox
  <2>3. CASE Step(n, {m}, HandleRequest(r, m.command))
    <3> DEFINE t == HandleRequest(r, m.command)
    <3>1. t.slot <= MaxSlot
      BY <1>2, <2>3
    <3>2. t \in Replica
      BY <1>1, <2>2, <3>1, HandleRequestOutcome, OutcomeIsReplica
    <3>3. Conserves([r EXCEPT !.out = {m}], t)
      BY <1>1, <2>2, <3>1, HandleRequestConserves
    <3> HIDE DEF t
    <3>4. Step(n, {m}, t)
      BY <2>3 DEF t
    <3> QED
      BY <2>2, <3>2, <3>3, <3>4, StepKeepsRequests
  <2>4. CASE Step(n, {m}, Forward(r, ID(r.ballot), {m.command}))
    <3> DEFINE t == Forward(r, ID(r.ballot), {m.command})
    <3>1. ID(r.ballot) \in Int
      BY <1>1, OwnerIsInt DEF Replica
    <3>2. t \in Replica
      BY <1>1, <2>2, <3>1, ForwardGood DEF Good
    <3>3. Conserves([r EXCEPT !.out = {m}], t)
      BY <1>1, <2>2, ForwardTakenConserves
    <3> HIDE DEF t
    <3>4. Step(n, {m}, t)
      BY <2>4 DEF t
    <3> QED
      BY <2>2, <3>2, <3>3, <3>4, StepKeepsRequests
  <2> QED
    BY <2>1, <2>3, <2>4
<1>4. CASE ReceiveP1a(n)
  <2>1. PICK m \in Inbox(n, "P1a") :
          Step(n, {m}, IF m.via = 0 THEN HandleP1aRelay(r, m) ELSE HandleP1aLeaf(r, m))
    BY <1>4 DEF ReceiveP1a
  <2>2. m \in Message /\ m.type = "P1a" /\ MsgOK(issued, proposals, m)
    BY InboxFacts
  <2>3. \A x \in {m} : x.type # "Request"
    BY <2>2
  <2>4. CASE m.via = 0
    <3> DEFINE t == HandleP1aRelay(r, m)
    <3>1. Step(n, {m}, t)
      BY <2>1, <2>4
    <3>2. t.slot <= MaxSlot
      BY <1>2, <3>1
    <3>3. t \in Replica
      BY <1>1, <2>2, <3>2, HandleP1aRelayOutcome, OutcomeIsReplica
    <3>4. Conserves(r, t)
      BY <1>1, <2>2, <3>2, HandleP1aRelayConserves
    <3> QED
      BY <2>3, <3>1, <3>3, <3>4, QuietStepRequests
  <2>5. CASE m.via # 0
    <3> DEFINE t == HandleP1aLeaf(r, m)
    <3>1. Step(n, {m}, t)
      BY <2>1, <2>5
    <3>2. t \in Replica /\ Conserves(r, t)
      BY <1>1, <2>2, <2>5, HandleP1aLeafGood, HandleP1aLeafConserves DEF Good
    <3> QED
      BY <2>3, <3>1, <3>2, QuietStepRequests
  <2> QED
    BY <2>4, <2>5
<1>5. CASE ReceiveP2a(n)
  <2>1. PICK m \in Inbox(n, "P2a") :
          Step(n, {m}, IF m.via = 0 THEN HandleP2aRelay(r, m) ELSE HandleP2aLeaf(r, m))
    BY <1>5 DEF ReceiveP2a
  <2>2. m \in Message /\ m.type = "P2a" /\ MsgOK(issued, proposals, m) /\ r.id \in m.dst
    BY <1>1, InboxFacts
  <2>3. \A x \in {m} : x.type # "Request"
    BY <2>2
  <2>4. CASE m.via = 0
    <3> DEFINE t == HandleP2aRelay(r, m)
    <3>1. Step(n, {m}, t)
      BY <2>1, <2>4
    <3>2. t \in Replica /\ Conserves(r, t)
      BY <1>1, <2>2, <2>4, HandleP2aRelayGood, HandleP2aRelayConserves DEF Good
    <3> QED
      BY <2>3, <3>1, <3>2, QuietStepRequests
  <2>5. CASE m.via # 0
    <3> DEFINE t == HandleP2aLeaf(r, m)
    <3>1. Step(n, {m}, t)
      BY <2>1, <2>5
    <3>2. t \in Replica /\ Conserves(r, t)
      BY <1>1, <2>2, <2>5, HandleP2aLeafGood, HandleP2aLeafConserves DEF Good
    <3> QED
      BY <2>3, <3>1, <3>2, QuietStepRequests
  <2> QED
    BY <2>4, <2>5
<1>6. CASE ReceiveP3(n)
  <2>1. PICK m \in Inbox(n, "P3") :
          Step(n, {m}, IF m.via = 0 THEN HandleP3Relay(r, m) ELSE HandleP3(r, m.p3))
    BY <1>6 DEF ReceiveP3
  <2>2. m \in Message /\ m.type = "P3" /\ MsgOK(issued, proposals, m)
    BY InboxFacts
  <2>3. m.p3 \in P3Info /\ \A x \in {m} : x.type # "Request"
    BY <2>2 DEF Message
  <2>4. CASE m.via = 0
    <3> DEFINE t == HandleP3Relay(r, m)
    <3>1. Step(n, {m}, t)
      BY <2>1, <2>4
    <3>2. t \in Replica /\ Conserves(r, t)
      BY <1>1, <2>2, <2>4, HandleP3RelayGood, HandleP3RelayConserves DEF Good
    <3> QED
      BY <2>3, <3>1, <3>2, QuietStepRequests
  <2>5. CASE m.via # 0
    <3> DEFINE t == HandleP3(r, m.p3)
    <3>1. Step(n, {m}, t)
      BY <2>1, <2>5
    <3>2. t \in Replica /\ Conserves(r, t)
      BY <1>1, <2>3, HandleP3Good, HandleP3Conserves DEF Good
    <3> QED
      BY <2>3, <3>1, <3>2, QuietStepRequests
  <2> QED
    BY <2>4, <2>5
<1>7. CASE ReceivePrepare(n)
  <2> DEFINE t == [r EXCEPT !.halted = TRUE]
  <2>1. PICK m \in Inbox(n, "Prepare") : Step(n, {m}, t)
    BY <1>7 DEF ReceivePrepare
  <2>2. \A x \in {m} : x.type # "Request"
    BY InboxFacts
  <2>3. t \in Replica /\ Conserves(r, t)
    BY <1>1, HaltGood, HaltConserves DEF Good
  <2> QED
    BY <2>1, <2>2, <2>3, QuietStepRequests
<1>8. CASE ReceiveLeafP1b(n)
  <2>1. PICK m \in Inbox(n, "P1b") : Step(n, {m}, ReceiveP1b(r, m.p1b))
    BY <1>8 DEF ReceiveLeafP1b
  <2> DEFINE p == m.p1b
             t == ReceiveP1b(r, p)
  <2>2. /\ m \in Message /\ m.type = "P1b" /\ MsgOK(issued, proposals, m)
        /\ \A x \in {m} : x.type # "Request"
    BY InboxFacts
  <2>3. p \in P1bRecord /\ P1bOK(issued, proposals, p) /\ t.slot <= MaxSlot
    BY <1>2, <2>1, <2>2 DEF Message, MsgOK
  <2>4. t \in Replica
    BY <1>1, <2>3, ReceiveP1bOutcome, OutcomeIsReplica
  <2>5. Conserves(r, t)
    BY <1>1, <2>3, ReceiveP1bConserves
  <2> QED
    BY <2>1, <2>2, <2>4, <2>5, QuietStepRequests
<1>9. CASE ReceiveP1bs(n)
  <2>1. PICK m \in Inbox(n, "P1bs") : Step(n, {m}, [r EXCEPT !.p1bQueue = m.p1bs])
    BY <1>9 DEF ReceiveP1bs
  <2>2. /\ m \in Message /\ m.type = "P1bs" /\ MsgOK(issued, proposals, m)
        /\ \A x \in {m} : x.type # "Request"
    BY InboxFacts
  <2>3. m.p1bs \in Seq(P1bRecord) /\ P1bSeqOK(issued, proposals, m.p1bs)
    BY <2>2 DEF Message, MsgOK
  <2>4. [r EXCEPT !.p1bQueue = m.p1bs] \in Replica
    BY <1>1, <2>3, QueueGood DEF Good
  <2> QED
    BY <1>1, <2>1, <2>2, <2>4, QueueConserves, QuietStepRequests
<1>10. CASE HandleP1bLeader(n)
  <2> DEFINE s == [r EXCEPT !.p1bQueue = Tail(r.p1bQueue)]
             p == Head(r.p1bQueue)
             t == HandleP1b(s, p)
  <2>1. r.p1bQueue # <<>> /\ Step(n, {}, t)
    BY <1>10 DEF HandleP1bLeader
  <2>2. r.p1bQueue \in Seq(P1bRecord) /\ P1bSeqOK(issued, proposals, r.p1bQueue)
    BY <1>1 DEF Good, Replica, ReplicaOK, RelayOK
  <2>3. p \in P1bRecord /\ P1bOK(issued, proposals, p)
    BY <2>1, <2>2 DEF P1bSeqOK
  <2>4. Tail(r.p1bQueue) \in Seq(P1bRecord) /\ P1bSeqOK(issued, proposals, Tail(r.p1bQueue))
    BY <2>1, <2>2 DEF P1bSeqOK
  <2>5. Good(issued, proposals, s) /\ Conserves(r, s)
    BY <1>1, <2>4, QueueGood, QueueConserves
  <2> HIDE DEF r, s, p
  <2>6. t.slot <= MaxSlot
    BY <1>2, <2>1
  <2>7. t \in Replica
    BY <1>1, <2>3, <2>5, <2>6, HandleP1bOutcome, OutcomeIsReplica
  <2>8. Conserves(s, t)
    BY <1>1, <2>3, <2>5, <2>6, HandleP1bConserves
  <2>9. Conserves(r, t)
    BY <2>5, <2>8, ConservesTransitive
  <2> QED
    BY <2>1, <2>7, <2>9, QuietStepRequests DEF r
<1>11. CASE ReceiveVote(n)
  <2>1. PICK m \in Inbox(n, "P2b") : Step(n, {m}, ReceiveP2b(r, m.ballot, m.slot, m.ids))
    BY <1>11 DEF ReceiveVote
  <2>2. /\ m \in Message /\ m.type = "P2b" /\ MsgOK(issued, proposals, m)
        /\ \A x \in {m} : x.type # "Request"
    BY InboxFacts
  <2>3. m.slot \in Slot /\ m.ids \in Seq(Node) /\ KnownBallot(issued, m.ballot)
    BY <2>2 DEF Message, MsgOK
  <2>4. ReceiveP2b(r, m.ballot, m.slot, m.ids) \in Replica
    BY <1>1, <2>3, ReceiveP2bGood DEF Good
  <2>5. Conserves(r, ReceiveP2b(r, m.ballot, m.slot, m.ids))
    BY <1>1, <2>3, ReceiveP2bConserves
  <2> QED
    BY <2>1, <2>2, <2>4, <2>5, QuietStepRequests
<1>12. CASE ReceiveP2bAggregated(n)
  <2>1. PICK m \in Inbox(n, "P2bAggregated") : Step(n, {m}, HandleP2bAggregated(r, m))
    BY <1>12 DEF ReceiveP2bAggregated
  <2>2. /\ m \in Message /\ m.type = "P2bAggregated" /\ MsgOK(issued, proposals, m)
        /\ \A x \in {m} : x.type # "Request"
    BY InboxFacts
  <2>3. HandleP2bAggregated(r, m) \in Replica /\ Conserves(r, HandleP2bAggregated(r, m))
    BY <1>1, <2>2, HandleP2bAggregatedGood, HandleP2bAggregatedConserves DEF Good
  <2> QED
    BY <2>1, <2>2, <2>3, QuietStepRequests
<1>13. CASE ReceiveRecoverRequest(n)
  <2>1. PICK m \in Inbox(n, "RecoverRequest") :
          Step(n, {m}, HandleP3RecoverRequest(r, m.slot, m.id))
    BY <1>13 DEF ReceiveRecoverRequest
  <2>2. m \in Message /\ m.type = "RecoverRequest" /\ \A x \in {m} : x.type # "Request"
    BY InboxFacts
  <2>3. m.slot \in Slot /\ m.id \in Node
    BY <2>2 DEF Message
  <2>4. /\ HandleP3RecoverRequest(r, m.slot, m.id) \in Replica
        /\ Conserves(r, HandleP3RecoverRequest(r, m.slot, m.id))
    BY <1>1, <2>3, HandleP3RecoverRequestGood, HandleP3RecoverRequestConserves DEF Good
  <2> QED
    BY <2>1, <2>2, <2>4, QuietStepRequests
<1>14. CASE ReceiveRecoverReply(n)
  <2>1. PICK m \in Inbox(n, "RecoverReply") : Step(n, {m}, HandleP3RecoverReply(r, m))
    BY <1>14 DEF ReceiveRecoverReply
  <2>2. /\ m \in Message /\ m.type = "RecoverReply" /\ MsgOK(issued, proposals, m)
        /\ \A x \in {m} : x.type # "Request"
    BY InboxFacts
  <2>3. HandleP3RecoverReply(r, m) \in Replica /\ Conserves(r, HandleP3RecoverReply(r, m))
    BY <1>1, <2>2, HandleP3RecoverReplyGood, HandleP3RecoverReplyConserves DEF Good
  <2> QED
    BY <2>1, <2>2, <2>3, QuietStepRequests
<1> QED
  BY <1>3, <1>4, <1>5, <1>6, <1>7, <1>8, <1>9, <1>10, <1>11, <1>12, <1>13, <1>14 DEF Receive

\* So does every timeout of the ticker.
LEMMA TickKeepsRequests ==
  ASSUME Inv, RequestInv, NEW n \in Node, Tick(n)
  PROVE  RequestInv'
<1> DEFINE r == node[n]
<1>1. /\ Context(issued, proposals) /\ Good(issued, proposals, r) /\ r.id = n /\ r \in Replica
  BY InvContext DEF Good
<1>2. ASSUME NEW t \in Replica, Conserves(r, t), Step(n, {}, t)
      PROVE  RequestInv'
  BY <1>2, QuietStepRequests
<1>3. CASE TickRetryP2a(n)
  BY <1>1, <1>2, <1>3, RetryP2aGood, RetryP2aConserves DEF TickRetryP2a, Good
<1>4. CASE TickRetryP1a(n)
  <2>1. RetryP1a(r) \in Replica /\ Step(n, {}, RetryP1a(r))
    BY <1>1, <1>4, RetryP1aGood DEF TickRetryP1a, IsLeader, Good
  <2> QED
    BY <1>1, <1>2, <2>1, P1aConserves
<1>5. CASE TickP3(n)
  <2> DEFINE p3 == [ballot |-> r.p3ballot, slots |-> r.p3slots]
             s == [r EXCEPT !.p3slots = {}]
             t == Emit(s, RoutedP3(n, p3))
  <2>1. Step(n, {}, t)
    BY <1>5 DEF TickP3
  <2>2. /\ p3 \in P3Info /\ s \in Replica /\ SameCore(r, s)
        /\ s.requests = r.requests /\ s.replies = r.replies /\ s.execute = r.execute
        /\ s.slot = r.slot /\ s.log = r.log /\ s.out = r.out
    BY <1>1 DEF Replica, P3Info, SameCore
  <2> HIDE DEF p3, s
  <2>3. Good(issued, proposals, s)
    BY <1>1, <2>2, SameCoreGood
  <2>4. t \in Replica
    BY <2>2, <2>3, RoutedP3OK, EmitGood DEF Good
  <2>5. Conserves(r, s)
    BY <1>1, <2>2, ElsewhereConserves
  <2>6. Conserves(s, t)
    BY <2>2, RoutedCarryNone, EmitConserves
  <2>7. Conserves(r, t)
    BY <2>5, <2>6, ConservesTransitive
  <2> QED
    BY <1>2, <2>1, <2>4, <2>7
<1>6. CASE TickRelayP1b(n)
  <2> DEFINE t == FlushP1b(r, r.p1bRelay.p1bs)
  <2>1. r.p1bRelay.pending /\ Step(n, {}, t)
    BY <1>6 DEF TickRelayP1b
  <2>2. r.p1bRelay.p1bs \in Seq(P1bRecord) /\ P1bSeqOK(issued, proposals, r.p1bRelay.p1bs)
    BY <1>1 DEF Good, Replica, P1bRelay, ReplicaOK, RelayOK
  <2>3. t \in Replica /\ Conserves(r, t)
    BY <1>1, <2>1, <2>2, FlushP1bGood, FlushP1bConserves DEF Good
  <2> QED
    BY <1>2, <2>1, <2>3
<1>7. ASSUME NEW s \in Slot, TickRelayP2b(n, s)
      PROVE  RequestInv'
  <2> DEFINE ids == r.p2bRelay[s].ids
             t == FlushP2b(r, s, ids, ComputeMissingIDsForP2b(r, ids))
  <2>1. r.p2bRelay[s].pending /\ Step(n, {}, t)
    BY <1>7 DEF TickRelayP2b
  <2>2. ids \in Seq(Node) /\ ComputeMissingIDsForP2b(r, ids) \in SUBSET Node
    BY <1>1, MissingAreNodes DEF Replica, P2bRelay
  <2>3. t \in Replica /\ Conserves(r, t)
    BY <1>1, <2>1, <2>2, FlushP2bGood, FlushP2bConserves DEF Good
  <2> QED
    BY <1>2, <2>1, <2>3
<1>8. CASE TickCleanup(n)
  <2>1. CleanupLog(r) \in Replica /\ Step(n, {}, CleanupLog(r))
    BY <1>1, <1>8, CleanupLogGood DEF TickCleanup, Good
  <2> QED
    BY <1>1, <1>2, <2>1, CleanupLogConserves
<1> QED
  BY <1>3, <1>4, <1>5, <1>6, <1>7, <1>8 DEF Tick

\* A client's request is new to the system: it is one message, once.
LEMMA SubmitKeepsRequests ==
  ASSUME Inv, RequestInv, NEW c \in Cmd, NEW n \in Entry[c], Submit(n, c)
  PROVE  RequestInv'
<1> DEFINE m == [type |-> "Request", command |-> c, dst |-> {n}]
<1>1. /\ IsABag(msgs) /\ node' = node /\ msgs' = msgs (+) SetToBag({m})
      /\ c \notin submitted /\ submitted' = submitted \cup {c}
  BY DEF Submit, Inv, TypeOK
<1>2. m.type = "Request" /\ m.command = c
  OBVIOUS
<1> HIDE DEF m
<1>3. IsABag(msgs')
  BY <1>1, BagWith
<1>4. \A x : Count(msgs', x) = Count(msgs, x) + (IF x \in {m} THEN 1 ELSE 0)
  BY <1>1, CountWith
<1>5. \A b, d : Places(node, b, d) =
                  OnTheWay(b, d) \cup UNION {{q} \X HeldBy(node[q], d) : q \in Node}
  BY DEF Places
<1>6. ASSUME NEW d \in Cmd, d # c
      PROVE  HeldOnce(Places(node', msgs', d), d, submitted')
  <2>1. \A x : Requesting(x, d) => x # m
    BY <1>2, <1>6 DEF Requesting
  <2>2. \A x : Requesting(x, d) => Count(msgs', x) = Count(msgs, x) + 0
    BY <1>4, <2>1
  <2>3. \A x : Count(msgs, x) \in Nat
    BY <1>1 DEF Count, IsABag
  <2>4. \A x : Requesting(x, d) => Count(msgs', x) = Count(msgs, x)
    BY <2>2, <2>3
  <2>5. \A h : h \in OnTheWay(msgs', d) <=> h \in OnTheWay(msgs, d)
    <3>1. \A h : h \in OnTheWay(msgs', d) <=>
            \E x : \E i \in Nat : /\ h = <<0, <<x, i>>>> /\ 1 <= i /\ i <= Count(msgs', x)
                                  /\ Requesting(x, d)
      BY <1>3, OnTheWayFacts
    <3>2. \A h : h \in OnTheWay(msgs, d) <=>
            \E x : \E i \in Nat : /\ h = <<0, <<x, i>>>> /\ 1 <= i /\ i <= Count(msgs, x)
                                  /\ Requesting(x, d)
      BY <1>1, OnTheWayFacts
    <3> QED
      BY <2>4, <3>1, <3>2
  <2>6. Places(node', msgs', d) = Places(node, msgs, d)
    BY <1>1, <1>5, <2>5
  <2>7. HeldOnce(Places(node, msgs, d), d, submitted)
    BY RequestContext
  <2> QED
    BY <1>1, <1>6, <2>6, <2>7 DEF HeldOnce
<1>7. HeldOnce(Places(node', msgs', c), c, submitted')
  <2>1. Places(node, msgs, c) = {}
    BY <1>1, RequestContext DEF HeldOnce
  <2>2. /\ \A h : h \notin OnTheWay(msgs, c)
        /\ UNION {{q} \X HeldBy(node[q], c) : q \in Node} = {}
    BY <1>5, <2>1
  <2>3. \A x : Requesting(x, c) => Count(msgs, x) = 0
    <3> SUFFICES ASSUME NEW x, Requesting(x, c) PROVE Count(msgs, x) = 0
      OBVIOUS
    <3>1. Count(msgs, x) \in Nat
      BY <1>1 DEF Count, IsABag
    <3>2. <<0, <<x, 1>>>> \notin OnTheWay(msgs, c)
      BY <2>2
    <3>3. ~(\E y : \E i \in Nat : /\ <<0, <<x, 1>>>> = <<0, <<y, i>>>> /\ 1 <= i
                                 /\ i <= Count(msgs, y) /\ Requesting(y, c))
      BY <1>1, <3>2, OnTheWayFacts
    <3>4. ~(1 <= Count(msgs, x))
      BY <3>3
    <3> QED
      BY <3>1, <3>4
  <2>4. OnTheWay(msgs', c) = {<<0, <<m, 1>>>>}
    <3>1. \A h : h \in OnTheWay(msgs', c) <=>
            \E x : \E i \in Nat : /\ h = <<0, <<x, i>>>> /\ 1 <= i /\ i <= Count(msgs', x)
                                  /\ Requesting(x, c)
      BY <1>3, OnTheWayFacts
    <3>2. Requesting(m, c) /\ Count(msgs', m) = 1
      BY <1>2, <1>4, <2>3 DEF Requesting
    <3>3. \A x : Requesting(x, c) /\ x # m => Count(msgs', x) = 0
      BY <1>4, <2>3
    <3>4. ASSUME NEW h \in OnTheWay(msgs', c) PROVE h = <<0, <<m, 1>>>>
      <4>1. PICK x : \E i \in Nat : /\ h = <<0, <<x, i>>>> /\ 1 <= i /\ i <= Count(msgs', x)
                                    /\ Requesting(x, c)
        BY <3>1
      <4>2. PICK i \in Nat : /\ h = <<0, <<x, i>>>> /\ 1 <= i /\ i <= Count(msgs', x)
                             /\ Requesting(x, c)
        BY <4>1
      <4>3. x = m
        BY <3>3, <4>2
      <4>4. i = 1
        BY <3>2, <4>2, <4>3
      <4> QED
        BY <4>2, <4>3, <4>4
    <3>5. <<0, <<m, 1>>>> \in OnTheWay(msgs', c)
      BY <3>1, <3>2
    <3> QED
      BY <3>4, <3>5
  <2>5. Places(node', msgs', c) = {<<0, <<m, 1>>>>}
    BY <1>1, <1>5, <2>2, <2>4
  <2> QED
    BY <1>1, <2>5 DEF HeldOnce
<1>8. \A q \in Node : HoldingOK(node'[q])
  BY <1>1, RequestContext
<1> QED
  BY <1>6, <1>7, <1>8, RequestInvNext

\* Losing a message leaves the requests where they are, or loses a request.
LEMMA LoseKeepsRequests ==
  ASSUME Inv, RequestInv, Lose
  PROVE  RequestInv'
<1>1. PICK m \in DOMAIN msgs : /\ m.type \in Lossy /\ msgs' = msgs (-) SetToBag({m})
                               /\ node' = node /\ submitted' = submitted
  BY DEF Lose
<1>2. IsABag(msgs) /\ IsABag(msgs')
  BY <1>1, BagWithout DEF Inv, TypeOK
<1>3. \A x : Count(msgs', x) = IF x \in {m} /\ x \in DOMAIN msgs THEN Count(msgs, x) - 1
                                                               ELSE Count(msgs, x)
  BY <1>1, <1>2, CountWithout
<1>4. \A x : Count(msgs, x) \in Nat
  BY <1>2 DEF Count, IsABag
<1>5. ASSUME NEW d \in Cmd
      PROVE  HeldOnce(Places(node', msgs', d), d, submitted')
  <2>1. \A h : h \in OnTheWay(msgs', d) <=>
          \E x : \E i \in Nat : /\ h = <<0, <<x, i>>>> /\ 1 <= i /\ i <= Count(msgs', x)
                                /\ Requesting(x, d)
    BY <1>2, OnTheWayFacts
  <2>2. \A h : h \in OnTheWay(msgs, d) <=>
          \E x : \E i \in Nat : /\ h = <<0, <<x, i>>>> /\ 1 <= i /\ i <= Count(msgs, x)
                                /\ Requesting(x, d)
    BY <1>2, OnTheWayFacts
  <2>3. HeldOnce(Places(node, msgs, d), d, submitted)
    BY RequestContext
  <2>4. CASE ~Requesting(m, d)
    <3>1. \A x : Requesting(x, d) => Count(msgs', x) = Count(msgs, x)
      BY <1>3, <2>4
    <3>2. \A h : h \in OnTheWay(msgs', d) <=> h \in OnTheWay(msgs, d)
      BY <2>1, <2>2, <3>1
    <3>3. OnTheWay(msgs', d) = OnTheWay(msgs, d)
      BY <3>2
    <3> QED
      BY <1>1, <2>3, <3>3 DEF Places
  <2>5. CASE Requesting(m, d)
    <3>1. "Request" \in Lossy
      BY <1>1, <2>5 DEF Requesting
    <3>2. \A x : Count(msgs', x) <= Count(msgs, x) /\ Count(msgs', x) \in Int
      BY <1>3, <1>4
    <3>3. OnTheWay(msgs', d) \subseteq OnTheWay(msgs, d)
      <4> SUFFICES ASSUME NEW h \in OnTheWay(msgs', d) PROVE h \in OnTheWay(msgs, d)
        OBVIOUS
      <4>1. PICK x : \E i \in Nat : /\ h = <<0, <<x, i>>>> /\ 1 <= i /\ i <= Count(msgs', x)
                                    /\ Requesting(x, d)
        BY <2>1
      <4>2. PICK i \in Nat : /\ h = <<0, <<x, i>>>> /\ 1 <= i /\ i <= Count(msgs', x)
                             /\ Requesting(x, d)
        BY <4>1
      <4>3. i <= Count(msgs, x)
        BY <1>4, <3>2, <4>2
      <4> QED
        BY <2>2, <4>2, <4>3
    <3>4. Places(node', msgs', d) \subseteq Places(node, msgs, d)
      BY <1>1, <3>3 DEF Places
    <3> QED
      BY <1>1, <2>3, <3>1, <3>4 DEF HeldOnce
  <2> QED
    BY <2>4, <2>5
<1>6. \A q \in Node : HoldingOK(node'[q])
  BY <1>1, RequestContext
<1> QED
  BY <1>5, <1>6, RequestInvNext

\* Every step keeps the requests.
LEMMA NextKeepsRequests ==
  ASSUME Inv, RequestInv, [Next]_vars
  PROVE  RequestInv'
<1>1. ASSUME NEW n \in Node, Receive(n) \/ Tick(n)
      PROVE  RequestInv'
  BY <1>1, ReceiveKeepsRequests, TickKeepsRequests
<1>2. ASSUME NEW c \in Cmd, NEW n \in Entry[c], Submit(n, c)
      PROVE  RequestInv'
  BY <1>2, SubmitKeepsRequests
<1>3. CASE Lose
  BY <1>3, LoseKeepsRequests
<1>4. CASE UNCHANGED vars
  <2>1. node' = node /\ msgs' = msgs /\ submitted' = submitted
    BY <1>4 DEF vars
  <2> QED
    BY <2>1, RequestContext, RequestInvNext
<1> QED
  BY <1>1, <1>2, <1>3, <1>4 DEF Next

\* Initially nobody has asked for anything.
LEMMA InitRequests == Init => RequestInv
<1> SUFFICES ASSUME Init PROVE RequestInv
  OBVIOUS
<1>1. /\ DOMAIN msgs = {} /\ submitted = {}
      /\ \A n \in Node : node[n] = NewReplica(n)
  BY DEF Init, EmptyBag, SetToBag
<1>2. ASSUME NEW n \in Node
      PROVE  /\ node[n].requests = <<>> /\ node[n].replies = {} /\ node[n].execute = 0
             /\ node[n].slot = -1 /\ \A s \in Slot : node[n].log[s].request = NoCmd
  <2>1. node[n] = NewReplica(n)
    BY <1>1
  <2>2. /\ NewReplica(n).requests = <<>> /\ NewReplica(n).replies = {}
        /\ NewReplica(n).execute = 0 /\ NewReplica(n).slot = -1
        /\ NewReplica(n).log = [s \in Slot |-> NoEntry]
    BY DEF NewReplica
  <2>3. NoEntry.request = NoCmd
    BY DEF NoEntry
  <2> QED
    BY <2>1, <2>2, <2>3
<1>3. ASSUME NEW n \in Node
      PROVE  HoldingOK(node[n])
  BY <1>2 DEF HoldingOK
<1>4. ASSUME NEW n \in Node, NEW c \in Cmd
      PROVE  HeldBy(node[n], c) = {}
  <2>1. Pending(<<>>, c) = {} /\ Replied({}, c) = {}
    BY DEF Pending, Replied
  <2>2. InLog(node[n].log, Slot, c) = {}
    BY <1>2, CmdAssumption, InLogNone
  <2> QED
    BY <1>2, <2>1, <2>2 DEF HeldBy
<1>5. ASSUME NEW c \in Cmd
      PROVE  Holders(c) = {}
  <2>1. InTransit(c) = {}
    BY <1>1 DEF InTransit
  <2> QED
    BY <1>4, <2>1 DEF Holders
<1> QED
  BY <1>1, <1>3, <1>5 DEF RequestInv

-----------------------------------------------------------------------------
\* Whatever forwarding, change of leader, displacement from a log (HandleP2a,
\* HandleP3), recovery and cleanup do: every submitted request is in one place,
\* or was lost by the network; entries that are empty or executed hold none,
\* and what was not submitted is nowhere.
THEOREM RequestsConserved == Spec => []RequestInv
<1>1. Inv /\ RequestInv /\ [Next]_vars => RequestInv'
  BY NextKeepsRequests
<1> QED
  BY <1>1, InitRequests, InductiveInvariant, PTL DEF Spec

\* So in a network that loses no client request, no submitted request is lost
\* or answered twice.
THEOREM NoRequestIsLost ==
  ASSUME "Request" \notin Lossy
  PROVE  Spec => []RequestConserved
<1>1. Inv /\ RequestInv => RequestConserved
  <2> SUFFICES ASSUME Inv, RequestInv, NEW c \in submitted
               PROVE  Cardinality(Holders(c)) = 1
    BY DEF RequestConserved
  <2>1. c \in Cmd
    BY DEF Inv, TypeOK
  <2>2. \E h \in Holders(c) : Holders(c) = {h}
    BY <2>1 DEF RequestInv
  <2> QED
    BY <2>2, FS_Singleton
<1> QED
  BY <1>1, RequestsConserved, InductiveInvariant, PTL
=============================================================================
