------------------------------- MODULE EPaxos -------------------------------
(***************************************************************************)
(* Egalitarian Paxos as it stands in epaxos/replica.go: every replica      *)
(* orders its own commands in instances of its own, and records for each   *)
(* instance which instances of the others it conflicts with (dep) and a    *)
(* number above all of theirs (seq).                                       *)
(*                                                                         *)
(* The ballot of an instance is NewBallot(0, owner) from its first message *)
(* to its last and nothing raises it, so every comparison of ballots in    *)
(* the handlers goes one way and ballots are left out.  For the same       *)
(* reason only its owner ever finishes an instance.                        *)
(***************************************************************************)
EXTENDS SequencesExt

CONSTANTS
  Node,            \* the replicas
  Cmd,             \* client commands; a command also names the request that carries it
  NoCmd,           \* the zero Command
  Key,             \* keys of the database
  KeyOf,           \* KeyOf[c]: the key of command c
  Entry,           \* Entry[c]: the nodes the client of command c may talk to
  ReplyWhenCommit, \* flag ReplyWhenCommit: reply at commit as well
  Ordered,         \* connections are FIFO; FALSE with udp or Socket.Slow
  Faulty,          \* bound: the connections <<from, to>> that may drop a PreAccept
  MaxLost,         \* bound: how many it may drop
  MaxSlot,         \* bound: the last slot of an owner
  First            \* bound: clients send these first, each when all before are settled

ASSUME EPaxosAssumption ==
  /\ IsFiniteSet(Node) /\ NoCmd \notin Cmd
  /\ KeyOf \in [Cmd -> Key] /\ Faulty \subseteq Node \X Node
  /\ Entry \in [Cmd -> SUBSET Node]
  /\ ReplyWhenCommit \in BOOLEAN /\ Ordered \in BOOLEAN
  /\ {MaxLost, MaxSlot} \subseteq Nat /\ First \subseteq Cmd

Slot == 0..MaxSlot

MaybeSlot == -1..MaxSlot

(***************************************************************************)
(* An instance.  "none": nil in the log.  dep[q] is the last instance of q *)
(* this one depends on.  A missing key of the map reads as 0, so that the  *)
(* value 0 says that there is none.  Only the owner's quorum and changed   *)
(* are used; the owner is also the node that holds the client's request.   *)
(***************************************************************************)
Status == {"none", "preaccepted", "accepted", "committed"}

NoDep == [q \in Node |-> 0]

NoInstance == [status |-> "none", cmd |-> NoCmd, seq |-> 0, dep |-> NoDep,
               quorum |-> {}, changed |-> FALSE]

Instance(status, c, seq, dep) ==
  [NoInstance EXCEPT !.status = status, !.cmd = c, !.seq = seq, !.dep = dep]

\* A replica that gives an instance a seq goes one above the largest it knows,
\* and every replica does so at most once for every command.
Seqs == 0..(Cardinality(Cmd) * Cardinality(Node))

Dep == [Node -> Slot]

InstanceType == [status : Status, cmd : Cmd \cup {NoCmd}, seq : Seqs, dep : Dep,
                 quorum : SUBSET Node, changed : BOOLEAN]

(***************************************************************************)
(* The messages of msg.go.  PreAccept, Accept and Commit come from the     *)
(* owner of the instance, the replies go to it.                            *)
(***************************************************************************)
Message ==
       [type : {"PreAccept", "Commit"}, slot : Slot, cmd : Cmd, seq : Seqs, dep : Dep]
  \cup [type : {"PreAcceptReply"}, slot : Slot, seq : Seqs, dep : Dep,
        committed : [Node -> MaybeSlot]]
  \cup [type : {"Accept"}, slot : Slot, seq : Seqs, dep : Dep]
  \cup [type : {"AcceptReply"}, slot : Slot]

(***************************************************************************)
(* A replica: the struct Replica; db, the sequence of instances handed to  *)
(* the database, and replies, the commands answered to clients; out[q],    *)
(* what the running handler has sent to q.  conflicts[q][k] is -1 and      *)
(* maxSeqPerKey[k] is -1 where the map has no entry.                       *)
(***************************************************************************)
Replica ==
  [id : Node, log : [Node -> [Slot -> InstanceType]], slot : [Node -> MaybeSlot],
   committed : [Node -> MaybeSlot], executed : [Node -> MaybeSlot],
   conflicts : [Node -> [Key -> MaybeSlot]], maxSeqPerKey : [Key -> Seqs \cup {-1}],
   db : Seq(Node \X Slot), replies : Seq(Cmd), out : [Node -> Seq(Message)]]

NewReplica(n) ==
  [id |-> n, log |-> [q \in Node |-> [s \in Slot |-> NoInstance]],
   slot |-> [q \in Node |-> -1], committed |-> [q \in Node |-> -1],
   executed |-> [q \in Node |-> -1],
   conflicts |-> [q \in Node |-> [k \in Key |-> -1]],
   maxSeqPerKey |-> [k \in Key |-> -1],
   db |-> <<>>, replies |-> <<>>, out |-> [q \in Node |-> <<>>]]

Send(r, q, m) == [r EXCEPT !.out[q] = Append(@, m)]

Broadcast(r, m) ==
  [r EXCEPT !.out = [q \in Node |-> IF q = r.id THEN @[q] ELSE Append(@[q], m)]]

Announce(r, s, type) ==
  LET i == r.log[r.id][s]
  IN  Broadcast(r, [type |-> type, slot |-> s, cmd |-> i.cmd, seq |-> i.seq, dep |-> i.dep])

-----------------------------------------------------------------------------
(* Attributes.                                                             *)

\* Mutant: no conflict is told from a conflict with slot 0.
ConflictsOrAbsent(r, c) == [q \in Node |-> r.conflicts[q][KeyOf[c]]]

\* attributes: what command c conflicts with, as far as r knows.
Conflicts(r, c) == [q \in Node |-> Max({0, r.conflicts[q][KeyOf[c]]})]

SeqAbove(r, c) ==
  LET dep == Conflicts(r, c)
  IN  Max({0, r.maxSeqPerKey[KeyOf[c]] + 1}
            \cup {r.log[q][dep[q]].seq + 1 : q \in {p \in Node : dep[p] > 0}})

\* Mutant: the sequence number is recorded and the conflict is not.
UpdateSeqOnly(r, c, q, s, seq) == [r EXCEPT !.maxSeqPerKey[KeyOf[c]] = Max({@, seq})]

\* update: record instance s of q as the last one on its key.
Update(r, c, q, s, seq) ==
  [r EXCEPT !.conflicts[q][KeyOf[c]] = Max({@, s}),
            !.maxSeqPerKey[KeyOf[c]] = Max({@, seq})]

-----------------------------------------------------------------------------
(* Executing.                                                              *)

\* The instances of q that one call of execute hands to the database: it
\* passes over unknown instances and stops at one that is not committed.
Executable(r, q) ==
  LET ahead == (r.executed[q] + 1)..r.slot[q]
      known == {s \in ahead : r.log[q][s].status # "none"}
  IN  {s \in known : \A t \in known : t <= s => r.log[q][t].status = "committed"}

\* Mutant: an instance counts as executed once its status says so.
ExecutedByStatus(r, q) == r.executed[q]

\* executed[q] afterwards: the end of the committed instances without a gap.
ExecutedUpTo(r, q) ==
  Max({s \in r.executed[q]..r.slot[q] : ((r.executed[q] + 1)..s) \subseteq Executable(r, q)})

(***************************************************************************)
(* execute: the possible outcomes, one for every order in which the loop   *)
(* over the map of logs may meet the owners.  Dependencies are not looked  *)
(* at, and no instance is ever marked EXECUTED.  The owner of an instance  *)
(* answers its client.                                                     *)
(***************************************************************************)
Execute(r) ==
  LET owners == {q \in Node : Executable(r, q) # {}}
      Run(q) == LET slots == SetToSortSeq(Executable(r, q), <)
                IN  [i \in DOMAIN slots |-> <<q, slots[i]>>]
      After(order) ==
        [r EXCEPT !.executed = [q \in Node |-> ExecutedUpTo(r, q)],
                  !.db = @ \o FlattenSeq([i \in DOMAIN order |-> Run(order[i])]),
                  !.replies = @ \o IF r.id \in owners
                                   THEN [i \in DOMAIN Run(r.id) |->
                                           r.log[r.id][Run(r.id)[i][2]].cmd]
                                   ELSE <<>>]
  IN  {After(order) : order \in SetToSeqs(owners)}

\* The last instance up to which q's log is committed, from committed[q] on.
CommittedUpTo(r, q) ==
  Max({s \in r.committed[q]..MaxSlot :
         \A t \in (r.committed[q] + 1)..s : r.log[q][t].status = "committed"})

\* Mutant: execute only when the marker moves.
UpdateCommitIfMoved(r, q) ==
  IF CommittedUpTo(r, q) = r.committed[q] THEN {r}
  ELSE Execute([r EXCEPT !.committed[q] = CommittedUpTo(r, q)])

UpdateCommit(r, q) == Execute([r EXCEPT !.committed[q] = CommittedUpTo(r, q)])

\* The reply at commit comes on top of the one of execute.
ReplyAtCommit(r, s) ==
  IF ReplyWhenCommit THEN [r EXCEPT !.replies = Append(@, r.log[r.id][s].cmd)] ELSE r

-----------------------------------------------------------------------------
(* Handlers.  Those that may execute give the set of their outcomes.       *)

HandleRequest(r, c) ==
  LET s   == r.slot[r.id] + 1
      seq == SeqAbove(r, c)
      i   == [Instance("preaccepted", c, seq, Conflicts(r, c)) EXCEPT !.quorum = {r.id}]
      r1  == Update([r EXCEPT !.slot[r.id] = s, !.log[r.id][s] = i], c, r.id, s, seq)
  IN  Announce(r1, s, "PreAccept")

\* An instance that was accepted or committed before its PreAccept came only
\* gets its command from it.
HandlePreAccept(r, q, m) ==
  LET old == r.log[q][m.slot]
      late == old.status \in {"accepted", "committed"}
      seq == SeqAbove(r, m.cmd)
      dep == Conflicts(r, m.cmd)
      r1 == Update([r EXCEPT !.slot[q] = Max({@, m.slot}),
                             !.log[q][m.slot] = Instance("preaccepted", m.cmd, seq, dep)],
                   m.cmd, q, m.slot, seq)
      answer == [type |-> "PreAcceptReply", slot |-> m.slot, seq |-> seq, dep |-> dep,
                 committed |-> r.committed]
  IN  IF ~late THEN Send(r1, q, answer)
      ELSE IF old.cmd = NoCmd
           THEN Update([r EXCEPT !.log[q][m.slot].cmd = m.cmd], m.cmd, q, m.slot, m.seq)
      ELSE r

\* Mutant: the dependencies of the last answer replace those merged before.
MergeLatest(i, seq, dep) ==
  [i EXCEPT !.seq = Max({@, seq}), !.dep = dep, !.changed = @ \/ seq > i.seq \/ dep # i.dep]

\* instance.merge
MergeAttributes(i, seq, dep) ==
  LET all == [q \in Node |-> Max({i.dep[q], dep[q]})]
  IN  [i EXCEPT !.seq = Max({@, seq}), !.dep = all,
                !.changed = @ \/ seq > i.seq \/ all # i.dep]

\* quorum.FastQuorum and quorum.Majority
FastQuorum(acks) == Cardinality(acks) >= (Cardinality(Node) * 3) \div 4

Majority(acks) == Cardinality(acks) > Cardinality(Node) \div 2

\* Commit instance s and tell the others.
CommitOwn(r, s) ==
  {ReplyAtCommit(Announce(t, s, "Commit"), s) :
     t \in UpdateCommit([r EXCEPT !.log[r.id][s].status = "committed"], r.id)}

\* The slow path starts another count.
StartAccept(r, s) ==
  LET i == r.log[r.id][s]
  IN  Broadcast([r EXCEPT !.log[r.id][s].status = "accepted", !.log[r.id][s].quorum = {r.id}],
                [type |-> "Accept", slot |-> s, seq |-> i.seq, dep |-> i.dep])

\* The count of pre-accept answers, once the answer is known to be wanted.
CountPreAccept(r, q, m) ==
  LET s  == m.slot
      i  == MergeAttributes([r.log[r.id][s] EXCEPT !.quorum = @ \cup {q}], m.seq, m.dep)
      r1 == [r EXCEPT !.log[r.id][s] = i,
                      !.committed = [p \in Node |-> Max({@[p], m.committed[p]})]]
      settled == \A p \in Node : r1.committed[p] >= 0 => r1.committed[p] >= i.dep[p]
  IN  IF ~FastQuorum(i.quorum) THEN {r1}
      ELSE IF ~i.changed /\ settled THEN CommitOwn(r1, s)
      ELSE {StartAccept(r1, s)}

\* Mutant: answers that come too late still change the attributes.
HandleLatePreAcceptReply(r, q, m) ==
  LET i == r.log[r.id][m.slot]
  IN  IF i.status = "preaccepted" THEN CountPreAccept(r, q, m)
      ELSE {[r EXCEPT !.log[r.id][m.slot] = MergeAttributes(i, m.seq, m.dep)]}

HandlePreAcceptReply(r, q, m) ==
  IF r.log[r.id][m.slot].status = "preaccepted" THEN CountPreAccept(r, q, m) ELSE {r}

\* An Accept does not carry the command.
HandleAccept(r, q, m) ==
  LET i == r.log[q][m.slot]
  IN  IF i.status = "committed" THEN r
      ELSE Send([r EXCEPT !.slot[q] = Max({@, m.slot}),
                          !.log[q][m.slot] = Instance("accepted", i.cmd, m.seq, m.dep)],
                q, [type |-> "AcceptReply", slot |-> m.slot])

HandleAcceptReply(r, q, m) ==
  LET r1 == [r EXCEPT !.log[r.id][m.slot].quorum = @ \cup {q}]
  IN  IF r.log[r.id][m.slot].status # "accepted" THEN {r}
      ELSE IF Majority(r1.log[r.id][m.slot].quorum) THEN CommitOwn(r1, m.slot)
      ELSE {r1}

\* Only owners send a Commit and none to themselves, so that the instance
\* holds no request that would be retried.
HandleCommit(r, q, m) ==
  UpdateCommit(Update([r EXCEPT !.slot[q] = Max({@, m.slot}),
                                !.log[q][m.slot] = Instance("committed", m.cmd, m.seq, m.dep)],
                      m.cmd, q, m.slot, m.seq), q)

-----------------------------------------------------------------------------
(* The replicas and their connections.                                     *)

VARIABLES
  node,      \* node[n]: the state of replica n
  links,     \* links[n][q]: the messages on their way from n to q
  lost,      \* how many messages were lost
  submitted  \* the commands clients have sent

vars == <<node, links, lost, submitted>>

Init ==
  /\ node = [n \in Node |-> NewReplica(n)]
  /\ links = [n \in Node |-> [q \in Node |-> <<>>]]
  /\ lost = 0
  /\ submitted = {}

\* The links after n has sent what it had to send.
Flush(l, n, r) == [l EXCEPT ![n] = [q \in Node |-> @[q] \o r.out[q]]]

Put(n, r) == node' = [node EXCEPT ![n] = [r EXCEPT !.out = [q \in Node |-> <<>>]]]

\* Which of the messages from q to n may arrive next.
Arriving(q, n) == IF Ordered THEN {1} \cap DOMAIN links[q][n] ELSE DOMAIN links[q][n]

\* Replica n handles the i-th message from q; Outcomes are the states in which
\* the handler may leave it.
Receive(n, q, i, Outcomes) ==
  \E t \in Outcomes :
    /\ Put(n, t)
    /\ links' = Flush([links EXCEPT ![q][n] = RemoveAt(@, i)], n, t)
    /\ UNCHANGED <<lost, submitted>>

\* The commands that n has handed to its database.
ExecutedAt(n) == {node[n].log[x[1]][x[2]].cmd : x \in Range(node[n].db)}

\* A bound on the clients: the commands of First come one by one.
MaySend(c) ==
  IF c \in First THEN \A n \in Node : ExecutedAt(n) = submitted
  ELSE \A n \in Node : First \subseteq ExecutedAt(n)

\* External: a client sends its command to replica n, which handles it.
Submit(n, c) ==
  /\ c \notin submitted
  /\ n \in Entry[c]
  /\ MaySend(c)
  /\ node[n].slot[n] < MaxSlot
  /\ LET r == HandleRequest(node[n], c)
     IN  Put(n, r) /\ links' = Flush(links, n, r)
  /\ submitted' = submitted \cup {c}
  /\ UNCHANGED lost

Arrives(n, q, type, i) == i \in Arriving(q, n) /\ links[q][n][i].type = type

ReceivePreAccept(n, q) == \E i \in DOMAIN links[q][n] :
  /\ Arrives(n, q, "PreAccept", i)
  /\ Receive(n, q, i, {HandlePreAccept(node[n], q, links[q][n][i])})

ReceivePreAcceptReply(n, q) == \E i \in DOMAIN links[q][n] :
  /\ Arrives(n, q, "PreAcceptReply", i)
  /\ Receive(n, q, i, HandlePreAcceptReply(node[n], q, links[q][n][i]))

ReceiveAccept(n, q) == \E i \in DOMAIN links[q][n] :
  /\ Arrives(n, q, "Accept", i)
  /\ Receive(n, q, i, {HandleAccept(node[n], q, links[q][n][i])})

ReceiveAcceptReply(n, q) == \E i \in DOMAIN links[q][n] :
  /\ Arrives(n, q, "AcceptReply", i)
  /\ Receive(n, q, i, HandleAcceptReply(node[n], q, links[q][n][i]))

ReceiveCommit(n, q) == \E i \in DOMAIN links[q][n] :
  /\ Arrives(n, q, "Commit", i)
  /\ Receive(n, q, i, HandleCommit(node[n], q, links[q][n][i]))

\* The network drops a proposal (Socket.Drop, Socket.Flaky); without any other
\* message an instance comes to a halt as well, or a replica does not commit.
Lose ==
  \E n, q \in Node : \E i \in DOMAIN links[n][q] :
    /\ lost < MaxLost
    /\ <<n, q>> \in Faulty /\ links[n][q][i].type = "PreAccept"
    /\ links' = [links EXCEPT ![n][q] = RemoveAt(@, i)]
    /\ lost' = lost + 1
    /\ UNCHANGED <<node, submitted>>

Deliver(n, q) ==
  \/ ReceivePreAccept(n, q)
  \/ ReceivePreAcceptReply(n, q)
  \/ ReceiveAccept(n, q)
  \/ ReceiveAcceptReply(n, q)
  \/ ReceiveCommit(n, q)

Next ==
  \/ \E n \in Node, c \in Cmd : Submit(n, c)
  \/ \E n, q \in Node : Deliver(n, q)
  \/ Lose

Spec == Init /\ [][Next]_vars

(***************************************************************************)
(* A connection delivers what it does not lose, and the one message loop   *)
(* of a replica takes the messages of all connections in turn.  This is    *)
(* weak fairness of Deliver(n, q) on FIFO connections, with "a message is  *)
(* waiting" in place of ENABLED: a handler always ends.                    *)
(***************************************************************************)
FairSpec ==
  /\ Spec
  /\ \A n, q \in Node : []<>(links[q][n] = <<>>) \/ []<><<Deliver(n, q)>>_vars
-----------------------------------------------------------------------------
(* Properties.                                                             *)

TypeOK ==
  /\ node \in [Node -> Replica]
  /\ \A n, q \in Node : Range(links[n][q]) \subseteq Message
  /\ lost \in 0..MaxLost
  /\ submitted \subseteq Cmd

Committed(n, x) == node[n].log[x[1]][x[2]].status = "committed"

Attributes(n, x) ==
  LET i == node[n].log[x[1]][x[2]] IN <<i.cmd, i.seq, i.dep>>

\* Two replicas that have an instance committed hold the same command with
\* the same attributes, however late the answers and proposals of the
\* instance come (handlePreAcceptReply, handleAccept, handleCommit).
CommittedAgree ==
  \A n, q \in Node, x \in Node \X Slot :
    Committed(n, x) /\ Committed(q, x) => Attributes(n, x) = Attributes(q, x)

DependsOn(n, x, y) == node[n].log[x[1]][x[2]].dep[y[1]] >= y[2]

(***************************************************************************)
(* Of two committed commands on one key, one depends on the other: their   *)
(* fast quorums meet in a replica, which told the second of the first      *)
(* (attributes, update, merge).  Slot 0 is left out, because dep cannot    *)
(* name it: "current instance number, start with 1" (replica.go:15), but   *)
(* NewReplica starts at -1.                                                *)
(***************************************************************************)
ConflictsOrdered ==
  \A n \in Node, x, y \in Node \X (Slot \ {0}) :
    /\ x # y /\ Committed(n, x) /\ Committed(n, y)
    /\ KeyOf[Attributes(n, x)[1]] = KeyOf[Attributes(n, y)[1]]
    => DependsOn(n, x, y) \/ DependsOn(n, y, x)

\* A replica hands each instance to its database once, unless a lost
\* PreAccept has left it a gap (execute), and an owner answers once.
ExecutedOnce ==
  \A n \in Node : /\ lost = 0 => IsInjective(node[n].db)
                  /\ IsInjective(node[n].replies)

\* If nothing is lost, every command is executed everywhere, also by replicas
\* that heard of its commit from a third one (Committed of a PreAcceptReply).
EventuallyExecuted ==
  []<>(lost > 0 \/ \A c \in submitted, n \in Node : c \in ExecutedAt(n))
=============================================================================
