----------------------------- MODULE MultiPaxos -----------------------------
(***************************************************************************)
(* The baseline protocol (paxos/paxos.go, paxos/replica.go): the leader    *)
(* talks to every replica itself.  Socket.Send hands a message to the      *)
(* connection before it returns and every connection is FIFO, so a pair of *)
(* replicas is joined by two queues.  Node.Forward runs on a goroutine of  *)
(* its own: forwarded requests overtake each other and everything else.    *)
(*                                                                         *)
(* As in PigNode, a handler takes the state r of a replica to the state    *)
(* after the handler; r.out[q] are the messages it sent to q, in order,    *)
(* and r.fwd the requests it forwarded.                                    *)
(***************************************************************************)
EXTENDS Ballots, SequencesExt

CONSTANTS
  Node,           \* the replicas, named by their IDs
  Cmd,            \* client commands; a command also names the request that carries it
  NoCmd,          \* the zero Command, and the nil *Request
  ExecuteSlack,   \* how far a log runs ahead before a follower recovers (10 in the code)
  EphemeralLeader,\* flag ephemeral_leader: propose instead of forwarding to the leader
  Entry,          \* Entry[c]: the nodes the client of command c may talk to
  MaxSlot,        \* bound: the last slot of the log
  MaxBallotN,     \* bound: the last ballot counter
  MaxInFlight,    \* bound: the ticker sends only below this many of its messages in flight
  MaxTickBallots, \* bound: ... and only while at most this many ballots were issued
  Lossy,          \* the types of messages Lose may drop
  MaxFaults       \* bound: ballots issued and messages dropped, together

ASSUME MultiPaxosAssumption ==
  /\ Node \subseteq 1..(IdSpace - 1) /\ IsFiniteSet(Node)
  /\ NoCmd \notin Cmd
  /\ Entry \in [Cmd -> SUBSET Node]
  /\ EphemeralLeader \in BOOLEAN
  /\ {ExecuteSlack, MaxSlot, MaxBallotN, MaxInFlight, MaxTickBallots, MaxFaults} \subseteq Nat

Slot == 0..MaxSlot

MaybeCmd == Cmd \cup {NoCmd}

(***************************************************************************)
(* The struct entry.  "none": the slot is not in the map; quorum = {} is   *)
(* the nil quorum of an entry this node did not propose.                   *)
(***************************************************************************)
LogEntry == [status : {"none", "open", "committed"}, ballot : Ballot,
             command : MaybeCmd, request : MaybeCmd, quorum : SUBSET Node]

NoEntry == [status |-> "none", ballot |-> 0, command |-> NoCmd,
            request |-> NoCmd, quorum |-> {}]

Learned(b, c) == [NoEntry EXCEPT !.status = "open", !.ballot = b, !.command = c]

(***************************************************************************)
(* Messages (paxos/msg.go).  The log of a P1b maps the slots it speaks of  *)
(* to a ballot and a command.                                              *)
(***************************************************************************)
P3Info == [ballot : Ballot, slots : Seq(Slot)]

IsMessage(m) ==
  \/ m \in [type : {"P1a"}, ballot : Ballot]
  \/ /\ m.type = "P1b" /\ m.ballot \in Ballot /\ m.id \in Node
     /\ DOMAIN m.log \subseteq Slot
     /\ \A s \in DOMAIN m.log : m.log[s].ballot \in Ballot /\ m.log[s].command \in MaybeCmd
  \/ m \in [type : {"P2a"}, ballot : Ballot, slot : Slot, command : MaybeCmd,
            executed : Slot, p3 : P3Info]
  \/ m \in [type : {"P2b"}, ballot : Ballot, id : Node, slot : Slot, last : 0..(MaxSlot + 1)]
  \/ m \in [type : {"P3"}, p3 : P3Info]
  \/ m \in [type : {"RecoverRequest"}, ballot : Ballot, slots : SUBSET Slot, id : Node]
  \/ m.type = "RecoverReply" /\ m.ballot \in Ballot /\ DOMAIN m.commands \subseteq Slot

NoP3 == [ballot |-> 0, slots |-> <<>>]

\* The structs Paxos and Replica; db and replies as in PigNode.
NewPaxos(n) ==
  [id |-> n, ballot |-> 0, active |-> FALSE, slot |-> -1, execute |-> 0,
   log |-> [s \in Slot |-> NoEntry], quorum |-> {}, requests |-> <<>>,
   p3 |-> NoP3, p3started |-> FALSE,
   executeBy |-> [q \in Node |-> 0], globalExecuted |-> 0, cleaned |-> 0,
   db |-> <<>>, replies |-> {}, halted |-> FALSE,
   out |-> [q \in Node |-> <<>>], fwd |-> {}]

-----------------------------------------------------------------------------
(* Sending.  A message to an ID that is not in the configuration is        *)
(* dropped by Socket.send.                                                 *)

SendTo(r, id, m) ==
  [r EXCEPT !.out = [q \in Node |-> IF q = id THEN Append(@[q], m) ELSE @[q]]]

Broadcast(r, m) ==
  [r EXCEPT !.out = [q \in Node |-> IF q # r.id THEN Append(@[q], m) ELSE @[q]]]

ForwardTo(r, id, cs) == [r EXCEPT !.fwd = @ \cup ({id} \X cs)]

IsLeader(r) == r.active \/ ID(r.ballot) = r.id

BroadcastP3(r, p3) == Broadcast([r EXCEPT !.p3started = TRUE], [type |-> "P3", p3 |-> p3])

SendRecoverRequest(r, b, S) ==
  SendTo(r, ID(b), [type |-> "RecoverRequest", ballot |-> b, slots |-> S, id |-> r.id])

-----------------------------------------------------------------------------
(* Executing.                                                              *)

ExecuteEnd(r) ==
  Min({s \in r.execute..(MaxSlot + 1) : s = MaxSlot + 1 \/ r.log[s].status # "committed"})

\* exec: execute up to the first slot that is not committed, and reply.
Exec(r) ==
  LET end  == ExecuteEnd(r)
      done == r.execute..(end - 1)
  IN  [r EXCEPT
        !.execute = end,
        !.db = @ \o [i \in 1..(end - r.execute) |-> r.log[r.execute + i - 1].command],
        !.replies = @ \cup {<<r.log[s].request, r.log[s].command>> :
                              s \in {t \in done : r.log[t].request # NoCmd}},
        !.log = [s \in Slot |-> IF s \in done THEN [@[s] EXCEPT !.request = NoCmd] ELSE @[s]]]

-----------------------------------------------------------------------------
(* Phase 1.                                                                *)

Majority(Q) == Cardinality(Q) > Cardinality(Node) \div 2

\* Mutant: the forwarded requests are kept as well.
ForwardAndKeep(r) == ForwardTo(r, ID(r.ballot), Range(r.requests))

\* forward: hand the pending requests to the leader of the current ballot.
ForwardPending(r) ==
  [ForwardTo(r, ID(r.ballot), Range(r.requests)) EXCEPT !.requests = <<>>]

\* Follow the higher ballot b.
Follow(r, b) == ForwardPending([r EXCEPT !.ballot = b, !.active = FALSE])

\* P1a (not called while active).
P1a(r) ==
  LET b == NextBallot(r.ballot, r.id)
  IN  Broadcast([r EXCEPT !.ballot = b, !.quorum = {r.id}], [type |-> "P1a", ballot |-> b])

\* The slots from execute on that hold an entry which is not committed.
OpenSlots(r) == {s \in Slot : r.execute <= s /\ s <= r.slot /\ r.log[s].status = "open"}

HandleP1a(r, b) ==
  LET r1 == IF b > r.ballot THEN Follow(r, b) ELSE r
  IN  SendTo(r1, ID(b),
             [type |-> "P1b", ballot |-> r1.ballot, id |-> r.id,
              log |-> [s \in OpenSlots(r1) |-> [ballot |-> r1.log[s].ballot,
                                                command |-> r1.log[s].command]]])

\* One slot of update.
Merge(e, cb) ==
  IF e.status = "none" THEN Learned(cb.ballot, cb.command)
  ELSE IF e.status = "open" /\ cb.ballot > e.ballot
       THEN [e EXCEPT !.ballot = cb.ballot, !.command = cb.command]
  ELSE e

Update(r, l) ==
  [r EXCEPT !.slot = Max({@} \cup DOMAIN l),
            !.log = [s \in Slot |-> IF s \in DOMAIN l THEN Merge(@[s], l[s]) ELSE @[s]]]

-----------------------------------------------------------------------------
(* Phase 2.                                                                *)

P2aMessage(r, s, c, p3) ==
  [type |-> "P2a", ballot |-> r.ballot, slot |-> s, command |-> c,
   executed |-> r.globalExecuted, p3 |-> p3]

\* Mutant: the slot proposed is the next one to execute.
P2aAtExecute(r, c) ==
  Broadcast([r EXCEPT !.slot = Max({@, r.execute}), !.p3started = TRUE,
                      !.log = [s \in Slot |-> IF s = r.execute
                                 THEN [status |-> "open", ballot |-> r.ballot, command |-> c,
                                       request |-> c, quorum |-> {r.id}]
                                 ELSE @[s]]],
            P2aMessage(r, r.execute, c, NoP3))

\* P2a: propose c in the next slot; the pending P3 travels with it.
P2a(r, c) ==
  LET piggyback == r.p3.ballot > 0
      Proposed == [status |-> "open", ballot |-> r.ballot, command |-> c,
                   request |-> c, quorum |-> {r.id}]
  IN  Broadcast([r EXCEPT !.slot = @ + 1,
                          !.log = [s \in Slot |-> IF s = r.slot + 1 THEN Proposed ELSE @[s]],
                          !.p3.slots = IF piggyback THEN <<>> ELSE @,
                          !.p3started = @ \/ piggyback],
                P2aMessage(r, r.slot + 1, c, IF piggyback THEN r.p3 ELSE NoP3))

\* The part of HandleP1b that runs when phase 1 is won: propose the open
\* entries again, then the pending requests.
BecomeLeader(r) ==
  LET open == OpenSlots(r)
      r1 == [r EXCEPT !.active = TRUE, !.p3.ballot = r.ballot, !.requests = <<>>,
                      !.log = [s \in Slot |-> IF s \in open
                                 THEN [@[s] EXCEPT !.ballot = r.ballot, !.quorum = {r.id}]
                                 ELSE @[s]]]
      Again(x, s) == Broadcast(x, P2aMessage(r, s, r.log[s].command, NoP3))
  IN  FoldLeft(P2a, FoldLeft(Again, r1, SetToSortSeq(open, <)), r.requests)

HandleP1b(r, m) ==
  LET r1 == Update(r, m.log)
      r2 == IF m.ballot > r.ballot THEN Follow(r1, m.ballot) ELSE r1
      r3 == [r2 EXCEPT !.quorum = @ \cup {m.id}]
  IN  IF m.ballot < r.ballot \/ r.active THEN r
      ELSE IF ID(m.ballot) # r.id THEN r2
      ELSE IF Majority(r3.quorum) THEN BecomeLeader(r3)
      ELSE r3

\* HandleRequest: propose if active, start phase 1 unless it is under way.
HandleRequest(r, c) ==
  LET r1 == [r EXCEPT !.requests = Append(@, c)]
  IN  IF r.active THEN P2a(r, c)
      ELSE IF ID(r.ballot) # r.id THEN P1a(r1)
      ELSE r1

\* What HandleP2a does with the entry of the slot.
Accept(e, b, c) ==
  IF e.status = "none" THEN Learned(b, c)
  ELSE IF e.status = "open" /\ b > e.ballot
       THEN [e EXCEPT !.ballot = b, !.command = c,
                      !.request = IF e.command # c THEN NoCmd ELSE @]
  ELSE IF e.status = "committed" /\ e.ballot = 0
       THEN [e EXCEPT !.ballot = b, !.command = c]
  ELSE e

\* What HandleP3 does with the entry of a slot committed at ballot b.  The
\* placeholder of a slot whose P2a has not arrived has ballot 0.
Commit(e, b) ==
  IF e.status = "none" THEN [e EXCEPT !.status = "committed"]
  ELSE IF e.ballot = b THEN [e EXCEPT !.status = "committed"]
  ELSE [e EXCEPT !.request = NoCmd]

\* One slot of HandleP3: a request whose slot another proposal has won is
\* forwarded, and the slot recovered.
CommitSlot(r, b, s) ==
  LET e == r.log[s]
      r1 == [r EXCEPT !.slot = Max({@, s}), !.log[s] = Commit(e, b)]
  IN  IF e.status # "none" /\ e.ballot # b /\ e.request # NoCmd
      THEN SendRecoverRequest(ForwardTo(r1, ID(b), {e.request}), b, {s})
      ELSE r1

HandleP3(r, p3) == Exec(FoldLeft(LAMBDA x, s : CommitSlot(x, p3.ballot, s), r, p3.slots))

\* Mutant: the last slot executed instead of the next one to execute.
LastExecutedBefore(r) == r.execute - 1

\* LastExecutedSlot of a P2b: how far the node has executed.
LastExecutedSlot(r) == r.execute

\* HandleP2a: accept and vote; the P3 that travels with it comes last.
HandleP2a(r, m) ==
  LET e == r.log[m.slot]
      displaced == {c \in {e.request} : c # NoCmd /\ e.status = "open" /\ m.ballot > e.ballot
                                        /\ e.command # m.command}
      r1 == IF m.ballot < r.ballot THEN r
            ELSE ForwardTo([r EXCEPT !.ballot = m.ballot, !.active = FALSE,
                              !.globalExecuted = m.executed, !.slot = Max({@, m.slot}),
                              !.log[m.slot] = Accept(e, m.ballot, m.command)],
                           ID(m.ballot), displaced)
      r2 == SendTo(r1, ID(m.ballot), [type |-> "P2b", ballot |-> r1.ballot, id |-> r.id,
                                      slot |-> m.slot, last |-> LastExecutedSlot(r1)])
  IN  IF m.p3.slots = <<>> THEN r2 ELSE HandleP3(r2, m.p3)

(***************************************************************************)
(* HandleP2b.  A higher ballot deposes the node, which first broadcasts    *)
(* its pending P3; votes for the ballot of its own entry count even then.  *)
(* An entry learned from others has no quorum to count in: nil is          *)
(* dereferenced and the process ends.                                      *)
(***************************************************************************)
HandleP2b(r, m) ==
  LET e == r.log[m.slot]
      r1 == [r EXCEPT !.executeBy[m.id] = m.last]
      r2 == IF m.ballot > r.ballot
            THEN BroadcastP3([r1 EXCEPT !.ballot = m.ballot, !.active = FALSE, !.p3 = NoP3], r.p3)
            ELSE r1
      q == e.quorum \cup {m.id}
      r3 == [r2 EXCEPT !.log[m.slot].quorum = q]
  IN  IF e.status # "open" \/ m.ballot < e.ballot THEN r
      ELSE IF ~(ID(m.ballot) = r.id /\ m.ballot = e.ballot) THEN r2
      ELSE IF e.quorum = {} THEN [r2 EXCEPT !.halted = TRUE]
      ELSE IF Majority(q)
           THEN Exec([r3 EXCEPT !.log[m.slot].status = "committed",
                                !.p3.slots = Append(@, m.slot)])
      ELSE r3

-----------------------------------------------------------------------------
(* Recovery and cleanup.                                                   *)

\* The answer carries the responder's ballot, not that of the entries.
HandleP3RecoverRequest(r, m) ==
  LET known == {s \in m.slots : r.log[s].status = "committed"}
  IN  SendTo(r, m.id, [type |-> "RecoverReply", ballot |-> r.ballot,
                       commands |-> [s \in known |-> r.log[s].command]])

\* HandleP3RecoverReply puts a new entry in the place of the old one.
HandleP3RecoverReply(r, m) ==
  LET S == DOMAIN m.commands
      Recovered(s) == [Learned(m.ballot, m.commands[s]) EXCEPT !.status = "committed"]
  IN  Exec([r EXCEPT !.slot = Max({@} \cup S),
                     !.log = [s \in Slot |-> IF s \in S THEN Recovered(s) ELSE @[s]]])

\* CheckNeedForRecovery: the slots that hold up a log which has run ahead.
NeedRecovery(r) ==
  {s \in r.execute..(r.slot - ExecuteSlack - 1) : r.log[s].status # "committed"}

GetGlobalExecuteMarker(r) ==
  IF IsLeader(r) THEN Min({r.execute} \cup Range(r.executeBy)) ELSE r.globalExecuted

CleanupLog(r) ==
  LET marker == GetGlobalExecuteMarker(r)
  IN  [r EXCEPT !.globalExecuted = marker, !.cleaned = marker,
                !.log = [s \in Slot |-> IF r.cleaned <= s /\ s < marker THEN NoEntry ELSE @[s]]]

-----------------------------------------------------------------------------
VARIABLES
  node,       \* node[n]: the state of replica n
  link,       \* link[p][q]: the messages on the connection from p to q
  requests,   \* <<n, c>>: the request of command c is on its way to n
  lost,       \* how many messages the network has dropped
  submitted,  \* the commands clients have sent
  issued,     \* history: the ballots phase 1 was started with
  proposals   \* history: the <<ballot, slot, command>> put in a P2a

vars == <<node, link, requests, lost, submitted, issued, proposals>>

Init ==
  /\ node = [n \in Node |-> NewPaxos(n)]
  /\ link = [p \in Node |-> [q \in Node |-> <<>>]]
  /\ requests = {}
  /\ lost = 0
  /\ submitted = {}
  /\ issued = {}
  /\ proposals = {}

WithinBounds(r) == r.slot <= MaxSlot /\ N(r.ballot) <= MaxBallotN

Sent(r, type) == {m \in UNION {Range(r.out[q]) : q \in Node} : m.type = type}

\* Node n ends a step in state r; ls are the connections it took its message
\* from, and rs the requests that are left.
Step(n, ls, rs, r) ==
  \E t \in {r} :   \* r as a value: TLC then runs the handler once
    /\ WithinBounds(t)
    /\ node' = [node EXCEPT ![n] = [t EXCEPT !.out = NewPaxos(n).out, !.fwd = {}]]
    /\ link' = [ls EXCEPT ![n] = [q \in Node |-> @[q] \o t.out[q]]]
    /\ requests' = rs \cup t.fwd
    /\ issued' = issued \cup {m.ballot : m \in Sent(t, "P1a")}
    /\ Cardinality(issued') + lost <= MaxFaults
    /\ proposals' = proposals \cup {<<m.ballot, m.slot, m.command>> : m \in Sent(t, "P2a")}
    /\ UNCHANGED <<lost, submitted>>

\* External: a client sends its command to a replica.
Submit(n, c) ==
  /\ c \notin submitted
  /\ submitted' = submitted \cup {c}
  /\ requests' = requests \cup {<<n, c>>}
  /\ UNCHANGED <<node, link, lost, issued, proposals>>

\* handleRequest.
ReceiveRequest(n) ==
  LET r == node[n]
      mine == EphemeralLeader \/ IsLeader(r) \/ r.ballot = 0
  IN  /\ ~r.halted
      /\ \E x \in {y \in requests : y[1] = n} :
           Step(n, link, requests \ {x}, IF mine THEN HandleRequest(r, x[2])
                                         ELSE ForwardTo(r, ID(r.ballot), {x[2]}))

\* The message loop of n takes m, the next message of the connection from p,
\* and is in state r after it.
NextFrom(n, p) == Head(link[p][n])

Arrived(n, p, type) == ~node[n].halted /\ link[p][n] # <<>> /\ NextFrom(n, p).type = type

Took(n, p, r) == Step(n, [link EXCEPT ![p][n] = Tail(@)], requests, r)

ReceiveP1a(n, p) ==
  Arrived(n, p, "P1a") /\ Took(n, p, HandleP1a(node[n], NextFrom(n, p).ballot))

ReceiveP1b(n, p) ==
  Arrived(n, p, "P1b") /\ Took(n, p, HandleP1b(node[n], NextFrom(n, p)))

ReceiveP2a(n, p) ==
  Arrived(n, p, "P2a") /\ Took(n, p, HandleP2a(node[n], NextFrom(n, p)))

ReceiveP2b(n, p) ==
  Arrived(n, p, "P2b") /\ Took(n, p, HandleP2b(node[n], NextFrom(n, p)))

ReceiveP3(n, p) ==
  Arrived(n, p, "P3") /\ Took(n, p, HandleP3(node[n], NextFrom(n, p).p3))

ReceiveRecoverRequest(n, p) ==
  Arrived(n, p, "RecoverRequest") /\ Took(n, p, HandleP3RecoverRequest(node[n], NextFrom(n, p)))

ReceiveRecoverReply(n, p) ==
  Arrived(n, p, "RecoverReply") /\ Took(n, p, HandleP3RecoverReply(node[n], NextFrom(n, p)))

Receive(n, p) ==
  \/ ReceiveP1a(n, p)
  \/ ReceiveP1b(n, p)
  \/ ReceiveP2a(n, p)
  \/ ReceiveP2b(n, p)
  \/ ReceiveP3(n, p)
  \/ ReceiveRecoverRequest(n, p)
  \/ ReceiveRecoverReply(n, p)

-----------------------------------------------------------------------------
(* The ticker (startTicker).                                               *)

\* Bound on what the ticker may add to the network.
Room ==
  /\ Cardinality(issued) <= MaxTickBallots
  /\ Cardinality({x \in Node \X Node \X (1..(MaxInFlight + 4)) :
                    /\ x[3] \in DOMAIN link[x[1]][x[2]]
                    /\ link[x[1]][x[2]][x[3]].type \in {"P3", "RecoverRequest", "RecoverReply"}})
       < MaxInFlight

\* P3Sync.
TickP3(n) ==
  LET r == node[n]
  IN  /\ ~r.halted /\ Room
      /\ IsLeader(r) /\ r.p3started /\ r.p3.ballot > 0
      /\ Step(n, link, requests, BroadcastP3([r EXCEPT !.p3.slots = <<>>], r.p3))

TickRecovery(n) ==
  LET r == node[n]
  IN  /\ ~r.halted /\ Room
      /\ ~IsLeader(r) /\ r.execute + ExecuteSlack < r.slot
      /\ Step(n, link, requests, SendRecoverRequest(r, r.ballot, NeedRecovery(r)))

TickCleanup(n) ==
  /\ ~node[n].halted
  /\ Step(n, link, requests, CleanupLog(node[n]))

\* The network drops the next message of a connection (a connection that
\* breaks, Socket.Drop).
Lose(p, q) ==
  /\ Cardinality(issued) + lost < MaxFaults
  /\ link[p][q] # <<>> /\ Head(link[p][q]).type \in Lossy
  /\ link' = [link EXCEPT ![p][q] = Tail(@)]
  /\ lost' = lost + 1
  /\ UNCHANGED <<node, requests, submitted, issued, proposals>>

Next ==
  \/ \E c \in Cmd : \E n \in Entry[c] : Submit(n, c)
  \/ \E n \in Node : ReceiveRequest(n) \/ TickP3(n) \/ TickRecovery(n) \/ TickCleanup(n)
  \/ \E n, p \in Node : Receive(n, p) \/ Lose(p, n)

Spec == Init /\ [][Next]_vars
-----------------------------------------------------------------------------
(* Properties.                                                             *)

\* Every replica, connection and history variable has its type.
TypeOK ==
  /\ \A n \in Node :
       /\ node[n].ballot \in Ballot /\ node[n].slot \in -1..MaxSlot
       /\ node[n].execute \in 0..(MaxSlot + 1)
       /\ node[n].log \in [Slot -> LogEntry]
       /\ node[n].executeBy \in [Node -> 0..(MaxSlot + 1)]
       /\ node[n].fwd = {} /\ \A q \in Node : node[n].out[q] = <<>>
  /\ \A p, q \in Node : \A i \in DOMAIN link[p][q] : IsMessage(link[p][q][i])
  /\ requests \subseteq Int \X Cmd

(***************************************************************************)
(* State machine safety of the baseline while a single ballot has been     *)
(* issued and no P2a is lost: whatever becomes of P1b's, P2b's and P3's,   *)
(* two replicas never hand different commands to their databases.  exec    *)
(* runs a placeholder like any other entry, so it all rests on the FIFO    *)
(* connections: the P3 of a slot arrives after its P2a.                    *)
(***************************************************************************)
Agreement ==
  \A n, q \in Node :
    LET a == node[n].db
        b == node[q].db
    IN  \A i \in 1..Min({Len(a), Len(b)}) : a[i] = b[i]

OneLeaderAgreement == Cardinality(issued) <= 1 => Agreement

\* How often the request of command c is held, as in PigPaxos.
Held(c) ==
  LET net     == {x \in requests : x[2] = c}
      pending == UNION {{<<n, i>> : i \in {j \in DOMAIN node[n].requests :
                                            node[n].requests[j] = c}} : n \in Node}
      inLog   == {x \in Node \X Slot : node[x[1]].log[x[2]].request = c}
      replied == {x \in Node \X MaybeCmd : <<c, x[2]>> \in node[x[1]].replies}
  IN  Cardinality(net) + Cardinality(pending) + Cardinality(inLog) + Cardinality(replied)

\* No request is lost or answered twice when leaders change (forward, and the
\* displacement of entries in HandleP2a and HandleP3).
RequestConserved == \A c \in submitted : Held(c) = 1
=============================================================================
