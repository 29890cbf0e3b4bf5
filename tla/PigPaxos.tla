------------------------------ MODULE PigPaxos ------------------------------
(***************************************************************************)
(* PigPaxos: the replicas, their relays, and the network between them.     *)
(*                                                                         *)
(* A replica handles one message at a time (Node.handle); its ticker runs  *)
(* beside it and is modelled by one action per timeout, each of which is   *)
(* enabled whenever the timeout may have passed.  The network keeps a bag  *)
(* of messages and delivers them in any order.  A message that is never    *)
(* delivered is lost; Lose drops one for good, for the properties that     *)
(* assume that everything else is delivered in the end.                    *)
(***************************************************************************)
EXTENDS PigRelay, Bags

CONSTANTS
  StableLeader,   \* flag ephemeral: forward requests to the known leader
  Entry,          \* Entry[c]: the nodes the client of command c may talk to
  Timers,         \* which of the ticker's timeouts may fire
  MaxBallotN,     \* bound: the last ballot counter
  MaxInFlight,    \* bound: a ticker sends only below this many messages in flight
  Lossy,          \* the types of messages Lose may drop
  MaxLost         \* bound: how many it may drop

TimerName == {"P1a", "P2a", "P3", "relayP1b", "relayP2b", "cleanup"}

ASSUME PigPaxosAssumption ==
  /\ StableLeader \in BOOLEAN
  /\ Entry \in [Cmd -> SUBSET Node]
  /\ Timers \subseteq TimerName
  /\ MaxBallotN \in Nat
  /\ MaxInFlight \in Nat
  /\ MaxLost \in Nat

VARIABLES
  node,       \* node[n]: the state of replica n
  msgs,       \* the bag of messages in the network
  lost,       \* how many messages the network has dropped
  submitted,  \* the commands clients have sent
  issued,     \* history: the ballots phase 1 was started with
  proposals   \* history: the <<ballot, slot, command>> put in a P2a

vars == <<node, msgs, lost, submitted, issued, proposals>>

Init ==
  /\ node = [n \in Node |-> NewReplica(n)]
  /\ msgs = EmptyBag
  /\ lost = 0
  /\ submitted = {}
  /\ issued = {}
  /\ proposals = {}

-----------------------------------------------------------------------------
WithinBounds(r) == r.slot <= MaxSlot /\ N(r.ballot) <= MaxBallotN

Sent(r, type) == {m \in r.out : m.type = type}

(***************************************************************************)
(* Node n ends a step in state r, having consumed the messages in taken:   *)
(* the step takes effect and the messages it sent enter the network.       *)
(***************************************************************************)
Step(n, taken, r) ==
  \E t \in {r} :   \* r as a value: TLC then runs the handler once
    /\ WithinBounds(t)
    /\ node' = [node EXCEPT ![n] = [t EXCEPT !.out = {}]]
    /\ msgs' = (msgs (-) SetToBag(taken)) (+) SetToBag(t.out)
    /\ issued' = issued \cup {m.ballot : m \in Sent(t, "P1a")}
    /\ proposals' = proposals \cup {<<m.ballot, m.slot, m.command>> : m \in Sent(t, "P2a")}
    /\ UNCHANGED <<lost, submitted>>

\* The message loop of n is free to take a message.
Ready(n) == ~node[n].halted /\ node[n].p1bQueue = <<>>

\* The messages of a type that the network may hand to n.
Inbox(n, type) == {m \in DOMAIN msgs : m.type = type /\ n \in m.dst}

-----------------------------------------------------------------------------
(* Requests.                                                               *)

\* External: a client sends its command to a replica.
Submit(n, c) ==
  /\ c \notin submitted
  /\ submitted' = submitted \cup {c}
  /\ msgs' = msgs (+) SetToBag({[type |-> "Request", command |-> c, dst |-> {n}]})
  /\ UNCHANGED <<node, lost, issued, proposals>>

\* handleRequest: with a stable leader only the leader, or a node that knows
\* of no leader, keeps the request.
ReceiveRequest(n) ==
  LET r == node[n]
      mine == ~StableLeader \/ IsLeader(r) \/ r.ballot = 0
  IN  /\ Ready(n)
      /\ \E m \in Inbox(n, "Request") :
           Step(n, {m}, IF mine THEN HandleRequest(r, m.command)
                                ELSE Forward(r, ID(r.ballot), {m.command}))

-----------------------------------------------------------------------------
(* Messages of the leader, at a relay and at a leaf.                       *)

ReceiveP1a(n) ==
  /\ Ready(n)
  /\ \E m \in Inbox(n, "P1a") :
       Step(n, {m}, IF m.via = 0 THEN HandleP1aRelay(node[n], m)
                                 ELSE HandleP1aLeaf(node[n], m))

ReceiveP2a(n) ==
  /\ Ready(n)
  /\ \E m \in Inbox(n, "P2a") :
       Step(n, {m}, IF m.via = 0 THEN HandleP2aRelay(node[n], m)
                                 ELSE HandleP2aLeaf(node[n], m))

ReceiveP3(n) ==
  /\ Ready(n)
  /\ \E m \in Inbox(n, "P3") :
       Step(n, {m}, IF m.via = 0 THEN HandleP3Relay(node[n], m)
                                 ELSE HandleP3(node[n], m.p3))

\* No handler is registered for a bare P1a: HandleMsg ends the process.
ReceivePrepare(n) ==
  /\ Ready(n)
  /\ \E m \in Inbox(n, "Prepare") :
       Step(n, {m}, [node[n] EXCEPT !.halted = TRUE])

-----------------------------------------------------------------------------
(* Answers.                                                                *)

ReceiveLeafP1b(n) ==
  /\ Ready(n)
  /\ \E m \in Inbox(n, "P1b") :
       Step(n, {m}, ReceiveP1b(node[n], m.p1b))

\* handleP1bLeader handles the P1bs of the list in turn, before the message
\* loop takes another message.
ReceiveP1bs(n) ==
  /\ Ready(n)
  /\ \E m \in Inbox(n, "P1bs") :
       Step(n, {m}, [node[n] EXCEPT !.p1bQueue = m.p1bs])

HandleP1bLeader(n) ==
  LET r == node[n]
  IN  /\ ~r.halted
      /\ r.p1bQueue # <<>>
      /\ Step(n, {}, HandleP1b([r EXCEPT !.p1bQueue = Tail(@)], Head(r.p1bQueue)))

ReceiveVote(n) ==
  /\ Ready(n)
  /\ \E m \in Inbox(n, "P2b") :
       Step(n, {m}, ReceiveP2b(node[n], m.ballot, m.slot, m.ids))

ReceiveP2bAggregated(n) ==
  /\ Ready(n)
  /\ \E m \in Inbox(n, "P2bAggregated") :
       Step(n, {m}, HandleP2bAggregated(node[n], m))

ReceiveRecoverRequest(n) ==
  /\ Ready(n)
  /\ \E m \in Inbox(n, "RecoverRequest") :
       Step(n, {m}, HandleP3RecoverRequest(node[n], m.slot, m.id))

ReceiveRecoverReply(n) ==
  /\ Ready(n)
  /\ \E m \in Inbox(n, "RecoverReply") :
       Step(n, {m}, HandleP3RecoverReply(node[n], m))

-----------------------------------------------------------------------------
(* The ticker (startTicker, CheckTimeout).                                 *)

Fires(n, timer) == timer \in Timers /\ ~node[n].halted

\* Bounds on what the ticker may add to the network: to the P3's in flight
\* and the recoveries they set off, and to all the other messages.
P3Traffic == {"P3", "RecoverRequest", "RecoverReply"}

InFlight(ms) == SumFunction([m \in ms |-> msgs[m]])

RoomForP3 == InFlight({m \in DOMAIN msgs : m.type \in P3Traffic}) < MaxInFlight

RoomForRetry == InFlight({m \in DOMAIN msgs : m.type \notin P3Traffic}) < MaxInFlight

\* Mutant: the last slot is never sent again.
TickRetryBeforeLast(n) ==
  LET r == node[n]
  IN  /\ Fires(n, "P2a") /\ RoomForRetry
      /\ r.active
      /\ r.execute < r.slot
      /\ r.log[r.execute].status = "open"
      /\ Step(n, {}, RetryP2a(r))

TickRetryP2a(n) ==
  LET r == node[n]
  IN  /\ Fires(n, "P2a") /\ RoomForRetry
      /\ r.active
      /\ r.execute <= r.slot
      /\ r.log[r.execute].status = "open"
      /\ Step(n, {}, RetryP2a(r))

TickRetryP1a(n) ==
  LET r == node[n]
  IN  /\ Fires(n, "P1a") /\ RoomForRetry
      /\ IsLeader(r) /\ ~r.active
      /\ Step(n, {}, RetryP1a(r))

\* The pending P3 goes out 10 ms after the last one, even if it is empty.
TickP3(n) ==
  LET r == node[n]
      p3 == [ballot |-> r.p3ballot, slots |-> r.p3slots]
  IN  /\ Fires(n, "P3") /\ RoomForP3
      /\ IsLeader(r) /\ r.p3started /\ r.p3ballot > 0
      /\ Step(n, {}, Emit([r EXCEPT !.p3slots = {}], RoutedP3(n, p3)))

TickRelayP1b(n) ==
  LET r == node[n]
  IN  /\ Fires(n, "relayP1b")
      /\ ~IsLeader(r)
      /\ r.p1bRelay.pending /\ r.p1bRelay.p1bs # <<>>
      /\ Step(n, {}, FlushP1b(r, r.p1bRelay.p1bs))

TickRelayP2b(n, s) ==
  LET r == node[n]
      ids == r.p2bRelay[s].ids
  IN  /\ Fires(n, "relayP2b")
      /\ ~IsLeader(r)
      /\ r.p2bRelay[s].pending
      /\ Step(n, {}, FlushP2b(r, s, ids, ComputeMissingIDsForP2b(r, ids)))

TickCleanup(n) ==
  LET r == CleanupLog(node[n])
  IN  /\ Fires(n, "cleanup")
      /\ r # node[n]
      /\ Step(n, {}, r)

-----------------------------------------------------------------------------
\* The network drops a message (Socket.Drop, a broken connection).
Lose ==
  \E m \in DOMAIN msgs :
    /\ lost < MaxLost
    /\ m.type \in Lossy
    /\ msgs' = msgs (-) SetToBag({m})
    /\ lost' = lost + 1
    /\ UNCHANGED <<node, submitted, issued, proposals>>

-----------------------------------------------------------------------------
Receive(n) ==
  \/ ReceiveRequest(n)
  \/ ReceiveP1a(n)
  \/ ReceiveP2a(n)
  \/ ReceiveP3(n)
  \/ ReceivePrepare(n)
  \/ ReceiveLeafP1b(n)
  \/ ReceiveP1bs(n)
  \/ ReceiveVote(n)
  \/ ReceiveP2bAggregated(n)
  \/ ReceiveRecoverRequest(n)
  \/ ReceiveRecoverReply(n)
  \/ HandleP1bLeader(n)

Tick(n) ==
  \/ TickRetryP2a(n)
  \/ TickRetryP1a(n)
  \/ TickP3(n)
  \/ TickRelayP1b(n)
  \/ \E s \in Slot : TickRelayP2b(n, s)
  \/ TickCleanup(n)

Next ==
  \/ \E c \in Cmd : \E n \in Entry[c] : Submit(n, c)
  \/ \E n \in Node : Receive(n) \/ Tick(n)
  \/ Lose

Spec == Init /\ [][Next]_vars
-----------------------------------------------------------------------------
(* Properties.                                                             *)

\* Every replica, message and history variable has its type, and a replica
\* has sent everything it had to send when its step ends.
TypeOK ==
  /\ node \in [Node -> Replica]
  /\ \A n \in Node : node[n].id = n /\ node[n].out = {}
  /\ IsABag(msgs) /\ DOMAIN msgs \subseteq Message
  /\ lost \in 0..MaxLost
  /\ submitted \subseteq Cmd
  /\ issued \subseteq Ballot
  /\ proposals \subseteq Ballot \X Slot \X Cmd

(***************************************************************************)
(* A ballot stands for at most one command in a slot: no two P2a's of one  *)
(* ballot and slot carry different commands, however they were produced    *)
(* (P2a, RetryP2a, or the proposals of a new leader), and every entry that *)
(* HandleP2a, update or a recovery put in a log is the proposal of its     *)
(* ballot.  HandleP2b and HandleP3 rely on it: they match a vote or a      *)
(* commit with an entry by its ballot alone.                               *)
(***************************************************************************)
OneCommandPerBallot ==
  /\ \A p, q \in proposals : p[1] = q[1] /\ p[2] = q[2] => p[3] = q[3]
  /\ \A n \in Node, s \in Slot :
       LET e == node[n].log[s]
       IN  e.ballot # 0 => <<e.ballot, s, e.command>> \in proposals

\* A leader has been promised by every node it counted in phase 1: none of
\* them is still below its ballot (HandleP1a, HandleP1b and the P1b relay).
PromiseKept ==
  \A n \in Node : node[n].active =>
    \A q \in node[n].quorum : node[q].ballot >= node[n].ballot

\* A ballot is led by its owner only, and a node that stops leading has
\* moved on to a higher ballot: it never leads the same ballot twice, so the
\* slots it handed out under that ballot are not handed out again.
LeadsOnce ==
  [][\A n \in Node :
       /\ node[n].ballot <= node'[n].ballot
       /\ node'[n].active => ID(node'[n].ballot) = n
       /\ node[n].active /\ ~node'[n].active => node[n].ballot < node'[n].ballot]_vars

\* State machine safety: the sequences of commands two replicas have handed
\* to their databases (exec) never differ, one is a prefix of the other.
Agreement ==
  \A n, q \in Node :
    LET a == node[n].db
        b == node[q].db
    IN  \A i \in 1..Min({Len(a), Len(b)}) : a[i] = b[i]

\* Every slot was proposed under one ballot only.
UncontestedIn(P) == \A p, q \in P : p[2] = q[2] => p[1] = q[1]

Uncontested == UncontestedIn(proposals)

\* Commands are executed only in the slot they were proposed for, and the
\* databases agree as long as no slot was proposed under two ballots, through
\* whatever commits that overtake their proposal (the placeholder of
\* HandleP3), recoveries and cleanups.  With two ballots they may not: see
\* Agreement.
UncontestedAgreement ==
  /\ \A n \in Node : \A i \in DOMAIN node[n].db :
       \E p \in proposals : p[2] = i - 1 /\ p[3] = node[n].db[i]
  /\ Uncontested => Agreement

\* A node in the quorum of an entry has accepted the entry: votes that reach
\* the leader through a relay stand for nodes that voted (handleP2bRelay,
\* handleP2bAggregated).  A node that has executed the slot may have cleaned
\* it up.
NoPhantomVotes ==
  \A n \in Node, s \in Slot :
    \A q \in node[n].log[s].quorum :
      \/ node[q].log[s].ballot = node[n].log[s].ballot
      \/ s < node[q].execute

(***************************************************************************)
(* Where the request of command c is: in a queue q of pending requests, in *)
(* an entry of log l, or in the replies rs that were given; or in a        *)
(* message, once for every copy of it.                                     *)
(***************************************************************************)
Pending(q, c) == {<<"pending", i>> : i \in {j \in DOMAIN q : q[j] = c}}

InLog(l, S, c) == {<<"log", s>> : s \in {t \in S : l[t].request = c}}

Replied(rs, c) == {<<"reply", x>> : x \in {y \in MaybeCmd : <<c, y>> \in rs}}

HeldBy(r, c) == (Pending(r.requests, c) \cup InLog(r.log, Slot, c)) \cup Replied(r.replies, c)

InTransit(c) ==
  UNION {{<<m, i>> : i \in 1..msgs[m]} :
           m \in {x \in DOMAIN msgs : x.type = "Request" /\ x.command = c}}

Holders(c) == ({0} \X InTransit(c)) \cup UNION {{n} \X HeldBy(node[n], c) : n \in Node}

\* No request is lost or answered twice: whatever forwarding, displacement
\* (HandleP2a, HandleP3) and change of leader do, a submitted request is held
\* in exactly one place until exec answers it, once.
RequestConserved == \A c \in submitted : Cardinality(Holders(c)) = 1

\* exec answers a request with the outcome of that request's command.
ReplyMatchesRequest ==
  \A n \in Node : \A x \in node[n].replies : x[1] = x[2]

\* No handler ends the process or blocks the message loop: no message without
\* a handler arrives (HandleMsg), no vote meets an entry without a quorum
\* (HandleP2b), exec never asks its own node for a slot.
NobodyHalts == \A n \in Node : ~node[n].halted
-----------------------------------------------------------------------------
(* The promise to the clients.                                             *)

\* The longest of the databases.
History ==
  LET n == CHOOSE q \in Node : \A p \in Node : Len(node[p].db) <= Len(node[q].db)
  IN  node[n].db

Promise == INSTANCE ReplicatedLog WITH
  history  <- History,
  applied  <- [n \in Node |-> node[n].db],
  answered <- UNION {{x[1] : x \in node[n].replies} : n \in Node}

\* The replicas implement a replicated log: what they execute and answer is
\* what replicas that apply one common history could execute and answer.
ImplementsReplicatedLog == Promise!Spec

(***************************************************************************)
(* Liveness.  The network delivers what it does not lose and the message   *)
(* loop keeps taking messages, so no type of message waits for ever.  One  *)
(* pass of the ticker checks every timeout, so none of them is put off for *)
(* ever by another.  For TLC, the weak fairness of an action that receives *)
(* a message is written with the guard of the action in place of ENABLED;  *)
(* the instances that use it have slots and ballots for everything that    *)
(* can happen in them, so that WithinBounds adds nothing to the guard.     *)
(***************************************************************************)
Waiting(n, type) == Ready(n) /\ Inbox(n, type) # {}

Fairness ==
  \A n \in Node :
    /\ []<>(~Waiting(n, "Request")) \/ []<><<ReceiveRequest(n)>>_vars
    /\ []<>(~Waiting(n, "P1a")) \/ []<><<ReceiveP1a(n)>>_vars
    /\ []<>(~Waiting(n, "P2a")) \/ []<><<ReceiveP2a(n)>>_vars
    /\ []<>(~Waiting(n, "P3")) \/ []<><<ReceiveP3(n)>>_vars
    /\ []<>(~Waiting(n, "Prepare")) \/ []<><<ReceivePrepare(n)>>_vars
    /\ []<>(~Waiting(n, "P1b")) \/ []<><<ReceiveLeafP1b(n)>>_vars
    /\ []<>(~Waiting(n, "P1bs")) \/ []<><<ReceiveP1bs(n)>>_vars
    /\ []<>(~Waiting(n, "P2b")) \/ []<><<ReceiveVote(n)>>_vars
    /\ []<>(~Waiting(n, "P2bAggregated")) \/ []<><<ReceiveP2bAggregated(n)>>_vars
    /\ []<>(~Waiting(n, "RecoverRequest")) \/ []<><<ReceiveRecoverRequest(n)>>_vars
    /\ []<>(~Waiting(n, "RecoverReply")) \/ []<><<ReceiveRecoverReply(n)>>_vars
    /\ WF_vars(HandleP1bLeader(n))
    /\ WF_vars(TickRetryP2a(n))
    /\ WF_vars(TickRetryP1a(n))
    /\ WF_vars(TickP3(n))
    /\ WF_vars(TickRelayP1b(n))
    /\ \A s \in Slot : WF_vars(TickRelayP2b(n, s))

FairSpec == Spec /\ Fairness

Answered(c) == \E n \in Node : <<c, c>> \in node[n].replies

\* The leader serves its clients: again and again every submitted command is
\* answered.  Retries, relay timeouts and the change from phase 1 to phase 2
\* leave no request behind, nor does the loss of one P1a, P1b, P2a or P2b.
\* Not so with a relay's list of promises (P1bs): a relay does not pass on a
\* P1a again whose ballot it knows (handleP1aRelay).
EventuallyAnswered == []<>(\A c \in submitted : Answered(c))

\* Every replica catches up: unless a message is lost, again and again every
\* submitted command is answered and executed everywhere, by those replicas
\* too that hear of the commit before the proposal (the placeholder of
\* HandleP3).
EventuallyExecuted ==
  []<>(\/ lost > 0
       \/ \A c \in submitted : Answered(c) /\ \A n \in Node : c \in Range(node[n].db))

\* Recovery works: a replica that knows its next slot is committed, and has
\* more than RecoverGap slots behind it, does not stay stuck on it, although
\* it missed the proposal (exec, HandleP3 and the recovery messages).
NoStraggler ==
  []<>(\A n \in Node : LET s == node[n].execute
                       IN  s + RecoverGap < node[n].slot => node[n].log[s].status # "committed")
=============================================================================
