------------------------------- MODULE PigNode -------------------------------
(***************************************************************************)
(* The Paxos instance of one replica (pigpaxos/pigpaxos.go): its state and *)
(* what every handler does to it.                                          *)
(*                                                                         *)
(* A handler is an operator that takes the state r of the replica and      *)
(* returns the state after the handler; the messages it sends are added to *)
(* r.out, which the step that runs the handler empties into the network.   *)
(* A handler that calls another one is the composition of the operators,   *)
(* so a whole handler, with all the calls it makes, is one step.           *)
(***************************************************************************)
EXTENDS Ballots, Sequences, FiniteSets, FiniteSetsExt, Functions

CONSTANTS
  Node,        \* the replicas, named by their IDs
  Groups,      \* the relay groups (peersToGroups): a partition of Node
  RelayChoice, \* RelayChoice[n]: the nodes n may draw as relays (flag fr, gray list)
  Cmd,         \* client commands; a command also names the request that carries it
  NoCmd,       \* the zero Command, and the nil *Request
  MaxSlot,     \* bound: the last slot of the log
  RecoverGap   \* how far the log runs ahead before exec recovers a slot (10 in the code)

ASSUME NodeAssumption ==
  /\ Node \subseteq 1..(IdSpace - 1)
  /\ IsFiniteSet(Node) /\ Node # {}

\* Whoever sends, every relay group must hold another node that it may draw:
\* GetRandomNodeId never returns otherwise.
ASSUME GroupsAssumption ==
  /\ UNION Groups = Node
  /\ \A g, h \in Groups : g # h => g \cap h = {}
  /\ \A g \in Groups, n \in Node : \E q \in g : q # n /\ q \in RelayChoice[n]

ASSUME CmdAssumption == NoCmd \notin Cmd

ASSUME MaxSlotAssumption == MaxSlot \in Nat

ASSUME RecoverGapAssumption == RecoverGap \in Nat

Slot == 0..MaxSlot

MaybeCmd == Cmd \cup {NoCmd}

\* The relay group of a node: relayGroups[NodeIdsToGroup[n]].
GroupOf(n) == CHOOSE g \in Groups : n \in g

(***************************************************************************)
(* An entry of the log.  "none": the slot is not in the map; "open": an    *)
(* entry with commit = false; "committed": commit = true.  A committed     *)
(* entry with ballot 0 is the placeholder HandleP3 leaves for a slot whose *)
(* P2a it has not seen.  quorum = {} is the nil quorum of an entry this    *)
(* node did not propose: a proposer's quorum always holds the proposer.    *)
(***************************************************************************)
LogEntry == [status : {"none", "open", "committed"}, ballot : Ballot,
             command : MaybeCmd, request : MaybeCmd, quorum : SUBSET Node]

NoEntry == [status |-> "none", ballot |-> 0, command |-> NoCmd,
            request |-> NoCmd, quorum |-> {}]

Placeholder == [NoEntry EXCEPT !.status = "committed"]

\* Mutant: the request is kept with the proposal of another node.
LearnedWithRequest(b, c) ==
  [NoEntry EXCEPT !.status = "open", !.ballot = b, !.command = c, !.request = c]

\* The entry of a node that learns a proposal it did not make.
Learned(b, c) ==
  [NoEntry EXCEPT !.status = "open", !.ballot = b, !.command = c]

\* CommandBallot: what a P1b says of a slot; ballot 0 if it says nothing.
CommandBallot == [ballot : Ballot, command : MaybeCmd]

P1bRecord == [ballot : Ballot, id : Node, log : [Slot -> CommandBallot]]

(***************************************************************************)
(* Messages (msg.go).  A message waits for any node of dst.  P1a, P2a and  *)
(* P3 travel in a RoutedMsg: the sender src (Hops[0]) addresses one member *)
(* of every relay group (via = 0, Progress 0), chosen at random, so dst is *)
(* what it may choose from; the relay that takes it sends it on to the     *)
(* leaves with its own name in via (Hops[1], Progress 1).  "Prepare" is    *)
(* the bare P1a a relay sends to the owner of a superseded ballot.         *)
(***************************************************************************)
P3Info == [ballot : Ballot, slots : SUBSET Slot]

Message ==
       [type : {"P1a"}, ballot : Ballot, src : Node, via : Node \cup {0},
        dst : SUBSET Node]
  \cup [type : {"P2a"}, ballot : Ballot, slot : Slot, command : Cmd,
        p3 : P3Info, src : Node, via : Node \cup {0}, dst : SUBSET Node]
  \cup [type : {"P3"}, p3 : P3Info, src : Node, via : Node \cup {0},
        dst : SUBSET Node]
  \cup [type : {"Prepare"}, ballot : Ballot, dst : SUBSET Int]
  \cup [type : {"P1b"}, p1b : P1bRecord, dst : SUBSET Node]
  \cup [type : {"P1bs"}, p1bs : Seq(P1bRecord), dst : SUBSET Node]
  \cup [type : {"P2b"}, ballot : Ballot, slot : Slot, ids : Seq(Node),
        dst : SUBSET Int]
  \cup [type : {"P2bAggregated"}, ballot : Ballot, slot : Slot,
        lastExecute : -1..MaxSlot, relay : Node, missing : SUBSET Node,
        dst : SUBSET Node]
  \cup [type : {"RecoverRequest"}, slot : Slot, id : Node, dst : SUBSET Int]
  \cup [type : {"RecoverReply"}, ballot : Ballot, slot : Slot,
        command : MaybeCmd, dst : SUBSET Node]
  \cup [type : {"Request"}, command : Cmd, dst : SUBSET Int]

(***************************************************************************)
(* The state of a replica.  The first part is the struct PigPaxos, the     *)
(* second the relay state of the struct Replica.  db is the sequence of    *)
(* commands handed to the database, replies the replies handed to clients  *)
(* (the request and the command the reply carries).  halted: the process   *)
(* is gone or its message loop is blocked for good.                        *)
(***************************************************************************)
P1bRelay == [pending : BOOLEAN, hop : Node \cup {0}, p1bs : Seq(P1bRecord)]

P2bRelay == [pending : BOOLEAN, hop : Node \cup {0}, ballot : Ballot,
             ids : Seq(Node)]

\* executeBy[q] of a node q that never reported.
NotReported == -2

Replica ==
  [id : Node, ballot : Ballot, active : BOOLEAN, slot : -1..MaxSlot,
   execute : 0..(MaxSlot + 1), log : [Slot -> LogEntry],
   quorum : SUBSET Node, requests : Seq(Cmd),
   p3ballot : Ballot, p3slots : SUBSET Slot, p3started : BOOLEAN,
   executeBy : [Node -> -2..MaxSlot], cleaned : -1..(MaxSlot + 1),
   db : Seq(MaybeCmd), replies : SUBSET (Cmd \X MaybeCmd),
   p1bQueue : Seq(P1bRecord), p1bRelay : P1bRelay,
   p2bRelay : [Slot -> P2bRelay], halted : BOOLEAN, out : SUBSET Message]

NoP1bRelay == [pending |-> FALSE, hop |-> 0, p1bs |-> <<>>]

NoP2bRelay == [pending |-> FALSE, hop |-> 0, ballot |-> 0, ids |-> <<>>]

NewReplica(n) ==
  [id |-> n, ballot |-> 0, active |-> FALSE, slot |-> -1, execute |-> 0,
   log |-> [s \in Slot |-> NoEntry], quorum |-> {}, requests |-> <<>>,
   p3ballot |-> 0, p3slots |-> {}, p3started |-> FALSE,
   executeBy |-> [q \in Node |-> NotReported], cleaned |-> 0,
   db |-> <<>>, replies |-> {}, p1bQueue |-> <<>>, p1bRelay |-> NoP1bRelay,
   p2bRelay |-> [s \in Slot |-> NoP2bRelay], halted |-> FALSE, out |-> {}]
-----------------------------------------------------------------------------
(* Sending.                                                                *)

Emit(r, ms) == [r EXCEPT !.out = @ \cup ms]

\* Replica.Broadcast: the possible relays of every group, without the sender.
Relays(n) == {{q \in g : q # n /\ q \in RelayChoice[n]} : g \in Groups}

RoutedP1a(n, b) ==
  {[type |-> "P1a", ballot |-> b, src |-> n, via |-> 0, dst |-> d] : d \in Relays(n)}

RoutedP2a(n, b, s, c, p3) ==
  {[type |-> "P2a", ballot |-> b, slot |-> s, command |-> c, p3 |-> p3,
    src |-> n, via |-> 0, dst |-> d] : d \in Relays(n)}

RoutedP3(n, p3) ==
  {[type |-> "P3", p3 |-> p3, src |-> n, via |-> 0, dst |-> d] : d \in Relays(n)}

NoP3 == [ballot |-> 0, slots |-> {}]

\* Node.Forward of a set of requests.
Forward(r, id, cs) ==
  Emit(r, {[type |-> "Request", command |-> c, dst |-> {id}] : c \in cs})

\* sendRecoverRequest for a set of slots.
SendRecoverRequest(r, b, S) ==
  Emit(r, {[type |-> "RecoverRequest", slot |-> s, id |-> r.id, dst |-> {ID(b)}] : s \in S})

IsLeader(r) == r.active \/ ID(r.ballot) = r.id

-----------------------------------------------------------------------------
(* Executing.                                                              *)

\* Mutant: a placeholder is executed like any other entry.
ExecutablePlaceholder(e) == e.status = "committed"

Executable(e) == e.status = "committed" /\ e.ballot # 0

\* Where the loop of exec stops: the first slot that it cannot execute.
ExecuteEnd(r) ==
  Min({s \in r.execute..(MaxSlot + 1) : s = MaxSlot + 1 \/ ~Executable(r.log[s])})

(***************************************************************************)
(* exec: execute every slot up to the first gap, reply to the requests     *)
(* held by the executed entries.  At a placeholder that the log has left   *)
(* RecoverGap slots behind, ask the leader of the current ballot for the   *)
(* command.  exec holds logLck: a node that is itself that leader handles  *)
(* its own request at once, which locks logLck again, and never returns.   *)
(***************************************************************************)
Exec(r) ==
  LET end  == ExecuteEnd(r)
      done == r.execute..(end - 1)
      lost == /\ end + RecoverGap < r.slot
              /\ end \in Slot
              /\ r.log[end].status = "committed"
      r1 == [r EXCEPT
              !.execute = end,
              !.db = @ \o [i \in 1..(end - r.execute) |-> r.log[r.execute + i - 1].command],
              !.replies = @ \cup {<<r.log[s].request, r.log[s].command>> :
                                    s \in {t \in done : r.log[t].request # NoCmd}},
              !.log = [s \in Slot |-> IF s \in done THEN [r.log[s] EXCEPT !.request = NoCmd]
                                                    ELSE r.log[s]]]
  IN  IF ~lost THEN r1
      ELSE IF ID(r.ballot) = r.id THEN [r1 EXCEPT !.halted = TRUE]
      ELSE SendRecoverRequest(r1, r.ballot, {end})

-----------------------------------------------------------------------------
(* Phase 1.                                                                *)

\* Mutant: the forwarded requests are kept as well.
ForwardAndKeep(r) == Forward(r, ID(r.ballot), Range(r.requests))

\* forward: hand the pending requests to the leader of the current ballot.
ForwardPending(r) ==
  [Forward(r, ID(r.ballot), Range(r.requests)) EXCEPT !.requests = <<>>]

\* P1a (not called while active).
P1a(r) ==
  LET b == NextBallot(r.ballot, r.id)
  IN  Emit([r EXCEPT !.ballot = b, !.quorum = {r.id}], RoutedP1a(r.id, b))

\* RetryP1a: the same ballot again, with an empty count of promises.
RetryP1a(r) ==
  Emit([r EXCEPT !.quorum = {r.id}], RoutedP1a(r.id, r.ballot))

\* HandleP1a, up to the reply.
HandleP1a(r, b) ==
  IF b > r.ballot
  THEN ForwardPending([r EXCEPT !.ballot = b, !.active = FALSE])
  ELSE r

\* The P1b a node answers with: its open entries from execute on.
P1bOf(r) ==
  [ballot |-> r.ballot, id |-> r.id,
   log |-> [s \in Slot |->
              IF s >= r.execute /\ s <= r.slot /\ r.log[s].status = "open"
              THEN [ballot |-> r.log[s].ballot, command |-> r.log[s].command]
              ELSE [ballot |-> 0, command |-> NoCmd]]]

\* One slot of update: cb is adopted where nothing is known or it is newer.
Merge(e, cb) ==
  IF cb.ballot = 0 THEN e
  ELSE IF e.status = "none" THEN Learned(cb.ballot, cb.command)
  ELSE IF e.status = "open" /\ cb.ballot > e.ballot
       THEN [e EXCEPT !.ballot = cb.ballot, !.command = cb.command]
  ELSE e

Update(r, l) ==
  [r EXCEPT !.slot = Max({@} \cup {s \in Slot : l[s].ballot # 0}),
            !.log = [s \in Slot |-> Merge(r.log[s], l[s])]]

-----------------------------------------------------------------------------
(* Phase 2.                                                                *)

\* quorum.Majority.
Majority(q) == Cardinality(q) > Cardinality(Node) \div 2

(***************************************************************************)
(* P2a for each of the requests reqs in turn: the next slots, an entry for *)
(* each, and a P2a for each, the first of which carries the pending P3.    *)
(***************************************************************************)
P2a(r, reqs) ==
  LET piggyback == reqs # <<>> /\ r.p3ballot > 0
      p3(i) == IF piggyback
               THEN [ballot |-> r.p3ballot, slots |-> IF i = 1 THEN r.p3slots ELSE {}]
               ELSE NoP3
      Proposed(c) == [status |-> "open", ballot |-> r.ballot, command |-> c,
                      request |-> c, quorum |-> {r.id}]
      new == (r.slot + 1)..(r.slot + Len(reqs))
  IN  Emit([r EXCEPT !.slot = @ + Len(reqs),
                     !.log = [s \in Slot |-> IF s \in new THEN Proposed(reqs[s - r.slot])
                                                          ELSE r.log[s]],
                     !.p3slots = IF piggyback THEN {} ELSE @,
                     !.p3started = @ \/ piggyback],
           UNION {RoutedP2a(r.id, r.ballot, r.slot + i, reqs[i], p3(i)) : i \in DOMAIN reqs})

\* RetryP2a of the slot that blocks execution.
RetryP2a(r) ==
  Emit(r, RoutedP2a(r.id, r.ballot, r.execute, r.log[r.execute].command, NoP3))

\* Mutant: the slot that blocks execution is left out.
UnfinishedAfterExecute(r) ==
  {s \in Slot : s > r.execute /\ s <= r.slot /\ r.log[s].status = "open"}

\* The slots a new leader proposes again.
Unfinished(r) ==
  {s \in Slot : s >= r.execute /\ s <= r.slot /\ r.log[s].status = "open"}

\* The part of HandleP1b that runs when phase 1 is won.
BecomeLeader(r) ==
  LET r1 == Emit([r EXCEPT
              !.active = TRUE, !.p3ballot = r.ballot, !.requests = <<>>,
              !.log = [s \in Slot |->
                         IF s \in Unfinished(r)
                         THEN [r.log[s] EXCEPT !.ballot = r.ballot, !.quorum = {r.id}]
                         ELSE r.log[s]]],
              UNION {RoutedP2a(r.id, r.ballot, s, r.log[s].command, NoP3) : s \in Unfinished(r)})
  IN  P2a(r1, r.requests)

\* Mutant: promises for an earlier ballot of the node are counted as well.
HandleP1bAnyBallot(r, p) ==
  LET r1 == [Update(r, p.log) EXCEPT !.quorum = @ \cup {p.id}]
  IN  IF r.active \/ ID(p.ballot) # r.id THEN r
      ELSE IF Majority(r1.quorum) THEN BecomeLeader(r1)
      ELSE r1

HandleP1b(r, p) ==
  LET r1 == Update(r, p.log)
      r2 == IF p.ballot > r1.ballot
            THEN ForwardPending([r1 EXCEPT !.ballot = p.ballot, !.active = FALSE])
            ELSE r1
      r3 == [r2 EXCEPT !.quorum = @ \cup {p.id}]
  IN  IF p.ballot < r.ballot \/ r.active THEN r
      ELSE IF ~(ID(p.ballot) = r.id /\ p.ballot = r2.ballot) THEN r2
      ELSE IF Majority(r3.quorum) THEN BecomeLeader(r3)
      ELSE r3

\* HandleRequest: propose if active, start phase 1 unless it is under way.
HandleRequest(r, c) ==
  LET r1 == [r EXCEPT !.requests = Append(@, c)]
  IN  IF r.active THEN P2a(r, <<c>>)
      ELSE IF ID(r.ballot) # r.id THEN P1a(r1)
      ELSE r1

\* Mutant: a vote for a proposal that was not stored.
AcceptKnownSlot(e, b, c) ==
  IF e.status # "committed" /\ b > e.ballot /\ e.ballot > 0
  THEN [e EXCEPT !.ballot = b, !.command = c] ELSE e

\* Mutant: the ballot is taken over and the command is not.
AcceptBallotOnly(e, b, c) ==
  IF e.status = "none" THEN Learned(b, c)
  ELSE IF e.status = "open" /\ b > e.ballot THEN [e EXCEPT !.ballot = b] ELSE e

\* What HandleP2a does with the entry of the slot.
Accept(e, b, c) ==
  IF e.status = "none" THEN Learned(b, c)
  ELSE IF e.status = "open" /\ b > e.ballot
       THEN [e EXCEPT !.ballot = b, !.command = c,
                      !.request = IF e.command # c THEN NoCmd ELSE @]
  ELSE IF e.status = "committed" /\ e.ballot = 0
       THEN [e EXCEPT !.ballot = b, !.command = c]
  ELSE e

\* Mutant: the proposals of superseded ballots are accepted.
HandleP2aAnyBallot(r, m) ==
  [r EXCEPT !.ballot = m.ballot, !.active = FALSE, !.slot = Max({@, m.slot}),
            !.log[m.slot] = Accept(r.log[m.slot], m.ballot, m.command)]

\* HandleP2a, up to the reply: accept, and forward the request that the
\* proposal displaces from its slot.
HandleP2a(r, m) ==
  LET e == r.log[m.slot]
      displaced == {c \in {e.request} : c # NoCmd /\ e.status = "open" /\ m.ballot > e.ballot
                                        /\ e.command # m.command}
  IN  IF m.ballot < r.ballot THEN r
      ELSE Forward([r EXCEPT !.ballot = m.ballot, !.active = FALSE,
                             !.slot = Max({@, m.slot}),
                             !.log[m.slot] = Accept(e, m.ballot, m.command)],
                   ID(m.ballot), displaced)

(***************************************************************************)
(* HandleP2b.  A higher ballot deposes the node, which first broadcasts    *)
(* its pending P3.  Votes for the ballot of its own entry are counted even *)
(* so; an entry that this node learned from others has no quorum to count  *)
(* in, and the nil dereference ends the process.                           *)
(***************************************************************************)
HandleP2b(r, s, b, ids) ==
  LET e == r.log[s]
      p3 == [ballot |-> r.p3ballot, slots |-> r.p3slots]
      r1 == IF b > r.ballot
            THEN Emit([r EXCEPT !.ballot = b, !.active = FALSE, !.p3ballot = 0,
                                !.p3slots = {}, !.p3started = TRUE],
                      RoutedP3(r.id, p3))
            ELSE r
      q == e.quorum \cup ids
      r2 == [r1 EXCEPT !.log[s].quorum = q]
  IN  IF e.status # "open" \/ b < e.ballot THEN r
      ELSE IF ~(ID(b) = r.id /\ b = e.ballot) THEN r1
      ELSE IF e.quorum = {} THEN [r1 EXCEPT !.halted = TRUE]
      ELSE IF Majority(q)
           THEN Exec([r2 EXCEPT !.log[s].status = "committed", !.p3slots = @ \cup {s}])
      ELSE r2

-----------------------------------------------------------------------------
(* Phase 3 and recovery.                                                   *)

\* Mutant: the commit of a slot whose P2a has not arrived is ignored.
CommitKnownOnly(e, b) ==
  IF e.status = "none" THEN e
  ELSE IF e.ballot = b THEN [e EXCEPT !.status = "committed"]
  ELSE [e EXCEPT !.request = NoCmd]

\* What HandleP3 does with the entry of a slot committed at ballot b.
Commit(e, b) ==
  IF e.status = "none" THEN Placeholder
  ELSE IF e.ballot = b THEN [e EXCEPT !.status = "committed"]
  ELSE [e EXCEPT !.request = NoCmd]

\* HandleP3: commit, leave placeholders, and give up the requests of entries
\* that hold another ballot's proposal; those slots are to be recovered.
HandleP3(r, p3) ==
  LET stale == {s \in p3.slots : /\ r.log[s].status # "none"
                                 /\ r.log[s].ballot # p3.ballot
                                 /\ r.log[s].request # NoCmd}
      r1 == [r EXCEPT !.slot = Max({@} \cup p3.slots),
                      !.log = [s \in Slot |-> IF s \in p3.slots THEN Commit(r.log[s], p3.ballot)
                                                                ELSE r.log[s]]]
      r2 == Forward(r1, ID(p3.ballot), {r.log[s].request : s \in stale})
  IN  Exec(SendRecoverRequest(r2, p3.ballot, stale))

HandleP3RecoverRequest(r, s, id) ==
  LET e == r.log[s]
      answer == [type |-> "RecoverReply", ballot |-> e.ballot, slot |-> s,
                 command |-> e.command, dst |-> {id}]
  IN  Exec(IF e.status = "committed" THEN Emit(r, {answer}) ELSE r)

\* Mutant: the ballot of the recovered entry is not set.
RecoverCommandOnly(r, m) ==
  LET e == r.log[m.slot]
  IN  Exec([r EXCEPT !.slot = Max({@, m.slot}),
                     !.log[m.slot] = IF e.status = "none" THEN e
                                     ELSE [e EXCEPT !.status = "committed", !.command = m.command]])

HandleP3RecoverReply(r, m) ==
  LET e == r.log[m.slot]
  IN  Exec([r EXCEPT !.slot = Max({@, m.slot}),
                     !.log[m.slot] = IF e.status = "none" THEN e
                                     ELSE [e EXCEPT !.status = "committed", !.ballot = m.ballot,
                                                    !.command = m.command]])

-----------------------------------------------------------------------------
(* Log cleanup.                                                            *)

UpdateLastExecuteByNode(r, q, x) == [r EXCEPT !.executeBy[q] = x]

\* Mutant: nodes that never reported are taken into account.
MarkerOfAllNodes(r) == Min({r.execute} \cup Range(r.executeBy))

GetSafeLogCleanupMarker(r) ==
  Min({r.execute} \cup {r.executeBy[q] : q \in {p \in Node : r.executeBy[p] # NotReported}})

CleanupLog(r) ==
  LET marker == GetSafeLogCleanupMarker(r)
  IN  [r EXCEPT !.cleaned = marker,
                !.log = [s \in Slot |-> IF s >= r.cleaned /\ s < marker THEN NoEntry
                                                                        ELSE r.log[s]]]
=============================================================================
