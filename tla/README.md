# A verification project for PigPaxos

PigPaxos (`src/`) is a Go implementation of Multi-Paxos in which the leader does
not talk to its followers directly: it sends every message to one *relay* in each
relay group, the relay hands it to the rest of its group, collects the answers
and sends them back as one message.  The repository also holds two variants of
it (Layer Paxos, Chain Paxos), the protocols it is compared with (Multi-Paxos with
direct messages, EPaxos), and the package they all stand on.  This directory holds
TLA+ models of that code, TLC configurations that check them on small instances,
and theorems about PigPaxos, EPaxos and the shared parts that TLAPS checks for every
value of the constants.

## 1. Inventory

### Components

| component | state | operations | interacts with |
|---|---|---|---|
| ballots (`ballot.go`) | a 64-bit word: counter, owner | `Next`, `N`, `ID`, comparison | every protocol |
| quorums (`quorum.go`) | set of acknowledgements | `ACK`, `Reset`, `Majority`, `LayerMajority`, zone, grid and fast quorums | every protocol |
| pigpaxos consensus (`pigpaxos/pigpaxos.go`, `msg.go`) | log, slot, execute, ballot, active, phase-1 quorum, pending requests, pending P3 | `HandleRequest`, `P1a`, `HandleP1a/P1b/P2a/P2b/P3`, recovery, `exec`, retries, `CleanupLog` | relay layer (Broadcast, Send), database, clients |
| pigpaxos relays (`pigpaxos/replica.go`) | groups, one P1b collection, one P2b collection per slot, gray list | `handleRoutedMsg`, collection and forwarding of P1bs and P2bs, nacks, ticker | consensus, node |
| node and message loop (`node.go`, `message.go`) | message channel, handlers, forwards | `recv`, `handle`, `HandleMsg`, `Forward` | socket, protocols |
| socket, transport, codec | connections, fault injection | `Send`, `Recv`, `Drop`, `Slow`, `Flaky`, `Crash` | node |
| database (`db.go`) | key-value map, versions | `Execute` | `exec` |
| clients, HTTP (`client.go`, `http.go`) | command ids | requests, `Consensus` check | node |
| layerpaxos, chainpaxos | as pigpaxos | relays that wait for half of their group; phase 2 along a chain | as pigpaxos |
| paxos | log, ballot, quorums | Multi-Paxos with direct messages, quorum reads (`paxos/client.go`) | node, clients |
| epaxos | instances, dependencies | pre-accept, accept, commit, execute | node |
| hybrid logical clock (`hlc/`) | physical and logical time | `Now`, `Update` | node, socket |
| linearizability checker, history | operations, graph | anomaly detection | benchmark |
| placement policy, retro log, master, server, tools | - | start-up, tracing, load generation | - |

### What is hard in this code

* **Two goroutines per replica.** The message loop handles one message at a time;
  the ticker fires every 10 ms beside it and resends, flushes relay collections
  and deletes log entries.
* **The fan-in hides who voted.** By default a relay reports only who is *missing*;
  it counts the votes it collected, not the voters.
* **Messages overtake each other.** `go r.Send` and `go p.Broadcast` reorder what one
  node sends, relays are chosen at random, so a P3 may arrive before its P2a, a P2a
  of an old ballot after one of a new ballot, a P1b after its collection was sent.
* **Loopback.** A node that sends a message to itself handles it at once, inside
  the handler that sends it and with the locks that handler holds.
* **A request moves.** It is in the network, in a pending list, or attached to a log
  entry; every change of leader moves it.
* **What a P1b leaves out**, what log cleanup deletes, and what recovery can
  still find.
* **Votes on behalf of others.**  A relay of Layer Paxos reports before everybody has
  voted, a tail of Chain Paxos votes for the nodes before it.
* **Committed before known.**  EPaxos learns of commits from third replicas; the
  baseline makes placeholders for commits whose proposal has not arrived.
* **Small shared parts with sharp edges**: a checker that rewrites the graph it
  searches, an int16 in a clock, integer division in quorums and groups, a loop that
  waits for a node that is not gray while it holds the lock of the gray list, a map of
  forwarded requests keyed by their text.

The properties that make each part correct are listed below with the runs; every
hazard, with its line and the property that would catch it, is in `PROJECT.json`
under `hazards`.

## 2. The modules

| module | what it is |
|---|---|
| `Ballots` | `ballot.go`: counter and owner in one number, `IdSpace` owners |
| `PigNode` | `pigpaxos.go`: the state of one replica as a record, and an operator for each handler |
| `PigRelay` | `replica.go`: the relay handlers, composed with those of `PigNode` |
| `PigPaxos` | all replicas, the network, the ticker, clients; actions, fairness, properties |
| `ReplicatedLog` | the abstract specification: one history, applied from the front, answers at most once |
| `PigPaxosInv` | the inductive invariants of PigPaxos: `Inv`, `RecordInv`, `RequestInv`, `HistoryInv` |
| `MultiPaxos`, `QuorumRead` | the baseline (`paxos/paxos.go`, `paxos/replica.go`) on FIFO connections; the quorum read of its client (`paxos/client.go`) beside it |
| `EPaxos` | `epaxos/`: instances, attributes, fast and slow path, execution |
| `EPaxosInv` | the inductive invariant of EPaxos |
| `LayerPaxos`, `ChainPaxos` | the two variants: what differs from `PigPaxos`, and the names of what does not |
| `Forks` | both variants, chosen by `algorithm` as `server.go` does |
| `Checker` | `checker.go`, `operation.go`, `lib/graph.go`: the linearizability checker |
| `HybridClock` | `hlc/` and the messages that carry a timestamp |
| `PeerGroups` | relay groups at start-up, the draw of a relay, the gray list |
| `Quorums` | `quorum.go`: counting, and the quorum systems |
| `Database` | `db.go`: versions and conflicts |
| `Forwarding` | `node.go`, `http.go`: the way of a request between nodes and of its reply back |
| `Support` | the last six, one of them (`subject`) per behaviour |
| `MCPigPaxos`, `MCQuorumRead`, `MCMultiPaxos`, `MCEPaxos`, `MCForks`, `MCSupport` | the modules TLC runs |
| `PigNodeProofs`, `PigPaxosProofs` | proofs about PigPaxos: arithmetic and the Paxos handlers, then relays and steps; ballots and leaders |
| `PigRecordProofs`, `PigRequestProofs` | proofs about what replicas remember of each other, and about requests |
| `PigHistoryProofs` | proofs about the history: that PigPaxos implements `ReplicatedLog` |
| `EPaxosProofs` | proofs about EPaxos |
| `SupportProofs` | proofs about the clock, the quorums, the relay groups and forwarding |

### PigPaxos: state and code

A replica is the record `node[n]`.  Its fields keep the names of the two structs
where that is possible: `slot`, `execute`, `ballot`, `active`, `quorum`,
`requests`; `p3ballot`, `p3slots` and `p3started` stand for `p3PendingBallot`,
`p3pendingSlots` and `lastP3Time > 0`; `executeBy` and `cleaned` for
`executeByNode` and `lastCleanupMarker`; `p1bRelay` and `p2bRelay` for
`p1bRelayRoutedMsg` and `p2bRelaysMapByBalSlot`.  A slot that is not in the log
map has status `"none"`.  `p1bQueue` holds the rest of the list `handleP1bLeader`
is working on.  `db` is the sequence of commands handed to `Execute` and `replies`
the replies handed to clients; both are the outputs the properties look at.
`halted` is set where the code ends the process or blocks the message loop for
good: a message without a handler, a nil quorum, a lock taken twice.

A handler is an operator from a replica's state to its next state; messages go to
the field `out`, which the step empties into the network.  Handlers call each
other by composition (`HandleP2aRelay` = open the collection, `HandleP2a`, own vote
through `ReceiveP2b`, piggybacked `HandleP3`, propagation), so an action of
`PigPaxos` is the whole run of a handler with everything it calls.  The one
exception is `handleP1bLeader`: its loop over the P1bs is one step per P1b, with no
other message in between (`Ready`) but with the ticker in between, as in the code.

The **network** is a bag of messages, delivered in any order.  The choice of a
relay is made at delivery: a routed message waits for any member of the group that
the sender may draw (`RelayChoice`: all of them, or the ones drawn at start-up with
flag `fr`).  A message that is never delivered is a lost one, so every safety property
holds (or fails) with arbitrary loss; the action `Lose` exists for the liveness
properties, which otherwise assume delivery.

The **ticker** is one action per timeout, enabled whenever its time may have come.
Time itself is not modelled.

Two auxiliary variables record history: `issued` (ballots of P1as) and `proposals`
(ballot, slot and command of P2as).  No action reads them.

### Left out of the modelled parts

`ReplyWhenCommit` (no caller sets it), `Thrifty` (both branches do the same), the
retro log, `globalExecute` (never assigned a value other than its initial 0),
`p1bRelayDepth` (read for a log line only), P2b collections below the root
(`maxDepth` is 2).  The reply to a forwarded request counts as given when the
executing node gives it; its way back through the first node is `Forwarding`.
Crashes with loss of state do not occur in this code base: nothing is persisted
and a restarted process is a new, empty replica; the fault injection `Crash` only
drops messages.

### The other protocols

`MultiPaxos` keeps the layout of `PigNode`: a replica is a record, a handler an operator
on it, `out[q]` what it sent to q, `fwd` what it forwarded.  A connection is a queue
(`link[p][q]`): `Socket.Send` puts the message on the connection before it returns, so
what one replica sends another arrives in order; `Forward` runs on a goroutine of its
own and is a set.  A nil quorum that is dereferenced sets `halted`.  `Thrifty`, which
sends to a part of the nodes, is left out.  `QuorumRead` adds one reading client;
a read asks a majority, remembers the highest slot, and polls one replica at a time.

`EPaxos` has no ballots: an instance keeps `NewBallot(0, owner)` from the first to the
last message and no handler raises it, so every comparison goes one way.  A handler
that may execute returns the set of its outcomes, one for each order in which a Go
map may be walked.  `dep[q] = 0` is also what a missing key reads as; this is the code.
Left out: `execute2` (never called), the counters and the `graph` field (never used).

`LayerPaxos` and `ChainPaxos`: `layerpaxos.go` repeats `pigpaxos.go` statement by statement
and `chainpaxos.go` does so for everything but phase 2, so those handlers are
defined by the ones of `PigNode`, each under a name of its own; a difference
introduced in one of the copies has a definition to go to.  What differs is spelled out:
`LayerReadyToRelayP1b`/`P2b` and the list of missing nodes a relay of Layer Paxos always sends;
`SendToChainHead`, `HandleP2aChain`, `HandleP2aChainTail` and `ChainReadyToRelayP2b`.
The nodes a chain message has behind it are the set `hops`.

### The shared parts

`Checker` takes the operations of one key in the order of their invocation, one step per
operation.  What the order of a Go map decides (which matching write, which cycle)
is chosen freely.  `Cycle` returns the nodes that are gray when the search meets a gray one,
as the code does: the path from the root of the search, not only the cycle.
`HybridClock` lets an operator set physical clocks forward and back; `WrapAt` stands for
2^15, and `ToInt64` extends the sign of a wrapped logical part over the physical part.
`PeerGroups` numbers the nodes by zone, then by ID; a node is placed per step.  A replica whose
flags do not fit the nodes goes down (a zone that is no index, a division by no groups, a
group that is nil), any number of nodes may be on the gray list, and a draw holds the lock of
that list until it has hit a node it may use.  If there is none, in a group whose other
members are all gray, `GetRandomNodeId` draws for ever, and the ticker, which needs the lock, takes
nobody off the list again: in such a state the module has no step (`replica.go:42`).  Left
out: the draw at start-up with flag `fr`, when the gray list is empty, and the time a node has
been on the list.
`Quorums` fills two quorums side by side.  `Forwarding` names the channel that request r was
given at the k-th node it came to `<<r, k>>`; channels hold one reply, as `make(chan Reply, 1)`
does.  It is the node without the retro log: with it, requests and replies between
nodes travel inside a `ProtocolMsg`, and `recv` hands them on without looking into them.

## 3. The runs

A cfg gives values to the constants only.

| run | instance | checks | result |
|---|---|---|---|
| `duel` | PigPaxos, 3 nodes, entry at nodes 1 and 2, leaders deposed on every request, ballot counters up to 2; no timeouts | `Inv`, `OneCommandPerBallot`, `RecordInv`, `PromiseKept`, `UncontestedAgreement`, `RequestInv`, `RequestConserved`, `LeadsOnce` | pass, 80,220 states |
| `lossy` | PigPaxos, one command, one P1a, P1b, P2a or P2b lost (a relay's full list of votes is a P2b, its list of promises is not lost); relay slack 1, all timers with cleanup; fairness | `TypeOK`, `EventuallyAnswered` | pass, 34,948 states |
| `recover` | PigPaxos, two commands, one leader, relay timeouts, one P2a may be lost, recovery after a gap of 1; fairness | `NoPhantomVotes`, `HistoryInv`, `ImplementsReplicatedLog`, `NoStraggler`, `EventuallyExecuted` | pass, 76,174 states |
| `multi` | the baseline, 3 nodes, 2 commands; two candidates, or one leader and a lost P1b, P2b or P3, or one leader and a quorum read | `TypeOK`, `OneLeaderAgreement`, `RequestConserved`, `ReadIsFresh` | pass, 212,928 states |
| `epaxos` | 3 replicas, two of them with two commands each, all on one key; one PreAccept on one connection may be lost; fairness | `TypeOK`, `Inv`, `CommittedAgree`, `ConflictsOrdered`, `ExecutedOnce`, `EventuallyExecuted` | pass, 263,873 states |
| `forks` | Layer Paxos and Chain Paxos, one group of four, fixed relay, one leader, relay timeouts, recovery | `Agreement`, `NoPhantomVotes`, `CommittedByMajority` | pass, 199,500 states |
| `support` | the shared parts, instances below | `NoFalseAlarm`, `AnomaliesFound`, `HappensBefore`, `NotAhead`, `GroupsPartition`, `StartsIfFlagsFit`, `QuorumsMeet`, `BatchesCommute`, `AnswersComeHome` | pass, 119,923 states |
| `mixup` | as `duel`, 3 commands, fixed relays | `ReplyMatchesRequest` | **violated** |
| `split` | two leaders one after the other, relay timeouts | `Agreement` | **violated** |
| `halt` | two candidates, no timeouts | `NobodyHalts` | **violated** |
| `skipped` | the baseline, one leader, one P2a lost | `Agreement` | **violated** |
| `chain` | Chain Paxos, groups of two and of four, a second candidate | `CommittedByMajority` | **violated** |

### What the properties say

* `ImplementsReplicatedLog`: with the longest database as the history, every step of
  the replicas is a step or a stutter of `ReplicatedLog`: databases are prefixes of
  one history, no command is executed twice, none is answered before it is executed
  or answered twice.  It is checked with one leader, and proved for all behaviours in
  which no slot is proposed under two ballots; without that it fails, as `split` shows.
  The abstract replicas hold their commands, so a replica that executes something
  else in the middle of its log is caught as well.
* `Agreement` is its core, state machine safety, for the instances where the other
  parts are not at stake.
* `NoPhantomVotes`: whoever is in the quorum of an entry has accepted it.  This is the
  contract of the relay layer: aggregation loses the names of the voters and
  must not invent votes.  It holds through relay timeouts (`recover`) and early reports (`forks`),
  and fails when a proposal is sent again (see below).
* `OneCommandPerBallot`: the entry of a slot is determined by its ballot.
  `HandleP2b` and `HandleP3` compare ballots only and rely on it.
* `PromiseKept`: all nodes counted in phase 1 have really moved to the ballot, however
  their P1b reached the candidate.
* `UncontestedAgreement`: whatever is executed in a slot was proposed for that slot, and
  databases agree as long as no slot was proposed under two ballots.  This is what is
  left of `Agreement` with any number of leaders, and it is about everything but the
  contest of two ballots: placeholders of commits that overtake their proposal,
  piggybacked P3s, recoveries, cleanups.
* `Inv`, `RecordInv`, `RequestInv`, `HistoryInv` (PigPaxos) and `Inv` (EPaxos): the inductive invariants
  of section 4, checked before they were proved.
* `LeadsOnce`: a deposed leader has moved to a higher ballot, so no ballot is led twice.
* `RequestConserved`, `ReplyMatchesRequest`: a submitted request is in exactly one place
  (network, pending list, log entry, given reply), and is answered with the outcome
  of its own command (the second fails, see `mixup`).
* `EventuallyAnswered`: a P1a, P1b, P2a or P2b is lost, and retries and relay timeouts get the
  request answered.  The one message of the two phases whose loss is not made up for is a
  relay's list of promises (see below).  `EventuallyExecuted`: without a loss every
  replica executes everything, whichever of P2a and P3 comes first.  `NoStraggler`: a
  replica that missed a proposal gets past the slot by recovery, as long as the leader keeps the
  slot (see below).
* `NobodyHalts`: no handler ends the process or blocks the loop.
* `OneLeaderAgreement`: agreement of the baseline with one ballot and no lost proposal;
  it rests on the order of the connections (`skipped` is the rest of the story).
* `ReadIsFresh`: while there is one leader, a quorum read is no older than a write that
  was answered before the read began.
* `CommittedAgree`: an instance of EPaxos has one command and one set of attributes
  wherever it is committed, whatever answers come late.  `ConflictsOrdered`: of two
  committed commands on one key one depends on the other; slot 0 is exempt because
  `dep` cannot name it.  `ExecutedOnce`: exempt after a loss, because `execute` never
  marks an instance and executes those behind a gap again at every call.
* `CommittedByMajority`: what a leader of Layer or Chain Paxos commits is stored by a
  majority, however few nodes have spoken for the others.
* `NoFalseAlarm`, `AnomaliesFound`: the checker against the definition of linearizability
  (some order of the operations respects real time and reads see the last write).
  No anomaly is reported in a linearizable history.  An anomaly is found in every
  other history in scope; out of scope are a read of nothing or of a write invoked
  after it, and a history in which a read between a read and a write the checker
  looks ahead for would give that write an edge it no longer gets (`InScope`).
* `HappensBefore`, `NotAhead`: a clock moves forward with every message and a receipt is
  later than its sending, even with physical clocks set back; only the step on which a
  logical part wraps is exempt, and there the property is false.  No clock shows a
  time that no physical clock has shown.
* `GroupsPartition`: with a replica that has started, every node is in exactly one group, the
  replica in the one it takes for its own, and the groups have equal shares, but for the last,
  which takes the rest.  `StartsIfFlagsFit`: a replica starts exactly if there are groups, no more
  than nodes, or zones numbered from 1 without a gap; nothing in the code says so.
* `QuorumsMeet`: two quorums of one system share a node, whatever is counted twice or
  reset, also where the divisions leave a rest (zones of one to three nodes).
  With two nodes in all it would fail: three quarters of two is one.
* `BatchesCommute`: batches without a conflict give the same database and the same
  answers in either order, which is what `ConflictBatch` promises EPaxos.
* `AnswersComeHome`: a reply reaches the client whose request it answers, over however
  many nodes the request was forwarded, unless some node had to remember two requests
  under one text (`Overwritten`): then a reply goes to the wrong channel, and a second
  one for a full channel stops `recv`.

### The five violations

* `mixup` (`pigpaxos.go:291`).  `update` replaces the command of an entry and keeps the
  client's request with it.  Leader 1 has c1 and its request in slot 0 when it is
  deposed; leader 2 gets node 3 to accept c2 there; node 1 leads again (flag
  `ephemeral` = false), learns c2 from node 3's P1b, commits it, and `exec` answers c1's
  client with the outcome of c2.  The baseline's `update` is the same.
* `split` (`pigpaxos.go:269`).  A P1b lists the *uncommitted* entries of its sender.
  Leader 1 commits and executes c1 in slot 0 with node 3's vote.  Node 2, which saw
  neither P2a nor P3, starts phase 1; node 1 promises, and its P1b does not mention
  slot 0.  Node 2 leads, proposes c2 in slot 0, and node 1 votes for it, because
  `HandleP2a` answers with its ballot although it leaves the committed entry alone.
  Node 2 executes c2 where node 1 executed c1.  Layer and Chain Paxos, which repeat
  this code, behave alike with two leaders.
* `halt` (`replica.go:382`).  A relay answers a superseded candidate with a bare P1a, whose
  handler is commented out: `HandleMsg` calls `log.Fatalf`.
* `skipped` (`paxos.go:589`).  A P3 that comes without its P2a leaves a placeholder; the
  baseline's `exec` asks whether the entry is committed, not whether it has a command,
  and executes the zero command in its place, for good.
* `chain` (`chainpaxos.go:413`).  An inner node of a chain that has promised a higher
  ballot answers nothing and passes the proposal on; the tail and the relay vote,
  and the leader counts the group: three nodes of six have stored what it commits.

### What a change of the constants shows

These were seen with the same modules and are not runs of their own:

* `recover` with the timer `"P2a"`: `NoPhantomVotes` is violated (`replica.go:575`).  The P2a to a leaf
  is lost, the leader sends the proposal again, and the relay votes a second time.  Two votes
  are a full collection for a group of three: no ID is reported missing, and the leader counts
  the leaf, which never saw the proposal.  The same in `forks`, where the relay of Chain Paxos
  counts to two.
* `lossy` with `Lossy = {"P1bs"}`: `EventuallyAnswered` is violated (`replica.go:391`).  The candidate sends
  its P1a again, under the same ballot and with an empty quorum; a relay that knows the ballot
  does not pass it on, and its own P1b goes to its own `HandleP1b`, since its collection is
  closed.  Nobody answers the candidate any more, whatever arrives.  With two groups of two
  nodes other losses do the same: the group that has answered does not do so again.
* `lossy` with small P2bs, of which one may be lost: `EventuallyAnswered` holds (37,492 states).
* `recover` with full lists of votes, a fixed relay and the timer `"cleanup"`: `NoStraggler` is violated
  (`pigpaxos.go:143`).  The cleanup marker waits for the nodes in `executeByNode`, and only a small
  P2b puts one there.  The leader deletes what it has executed itself; the leaf that missed
  the P2a asks for the slot, and is never answered.
* `multi` with `MaxTickBallots` = 2: `RequestConserved` is violated.  `HandleP3RecoverReply` of the
  baseline puts a new entry in the place of one that holds a pending request.
* `multi` with `"P2a"` among `Lossy` and `MaxFaults` = 3: a quorum read may be stale, since the slot of a lost
  proposal looks settled.

### Bounds, and why they are enough

Three nodes are the smallest system in which a majority leaves somebody out and a
group has a relay, a leaf and a leader; two groups, whose relays answer independently,
occur in `chain`.  Two commands and two slots give displacement (two commands in one slot),
gaps (slot 1 before slot 0) and piggybacked P3s.  Ballot counters up to 2 let one
candidate depose the other; a deposed leader comes back only with a third command
(`mixup`).  `MaxInFlight` = 1 keeps a ticker from
sending again while messages of the same traffic (P3s with the recoveries they set off, or
everything else) are in flight; it bounds repetitions, not interleavings: what the
handlers send is not bounded.  `RecoverGap` is 10 in the code; 0 in `recover` and `forks` brings
recovery within two slots, and 10 in the others keeps it out.  `MaxSlot` and
`MaxBallotN` cut behaviours off where a run would need more slots or ballots;
in the runs with one leader nothing is ever cut off, since every command is
proposed once.  `duel` needs at most two slots for its two commands and is cut off only at the
third round of ballots.  The proofs need none of these bounds.

`multi` and `skipped` bound ballots issued, messages dropped and reads started by one
budget (`MaxFaults` = 2), so that one run holds three small experiments: two candidates,
one candidate and a loss, one candidate and a read.  `ExecuteSlack` is 10 in the code, 0
in `multi`.  In `epaxos` the last two commands (not in `First`) are sent at once, when the
first two are settled everywhere: a key has then a history, and `dep` and `seq` something to
be compared with; each owner has the slots 0 and 1.  Only a PreAccept is lost, since
EPaxos sends nothing twice and no replica finishes the instance of another.

`forks` has one group of four: the smallest in which half of a group (Layer Paxos) leaves
somebody out, and in which a chain has a relay, an inner node and a tail beside the
leader.  The relay is fixed and is not the tail; if it were, the chain would end
without a vote and only the timeout would answer.  `chain` adds a group of two, where
the second candidate lives.

`support`: all histories of four operations, and those of five with two writes that end
with a read, with every overlap; two clocks, milliseconds 0 to 2, logical parts -2 to 1,
one message in flight; five nodes in no group, one, two, five and six groups, seven in three, and
three clusters grouped by zone, two of them with zones that do not fit, with every gray list;
layouts of three to five nodes in one to three zones; up to four commands on two keys with two
values; two requests with one text, three nodes, paths of up to four nodes.  Longer
histories and larger clusters are not covered.

`CHECK_DEADLOCK FALSE` in every cfg: when all commands are answered and no timer is
enabled the system rests.

### Fairness

`Fairness` says that (a) no type of message waits for ever at a node that takes
messages: the network delivers what it does not lose, and the message loop is a
loop over a channel; and (b) every timeout that stays due is acted upon: the
ticker is a loop that checks all of them every 10 ms.  Fairness is per message
type and node, not per message.  (a) is written with the guard of the action
instead of `ENABLED` to keep TLC's tableau small; the two are the same as long as
`WithinBounds` does not forbid the step, which it never does in the runs that use
it.  No fairness is assumed of clients, of `Lose`, or of cleanup.

In `EPaxos` a connection delivers what it does not lose, and the message loop takes the
messages of all connections in turn: weak fairness of `Deliver(n, q)`, written with "a
message is waiting" in place of `ENABLED`; the protocol has no timers.

## 4. The proofs

For all values of the constants that satisfy the named assumptions:

| module | theorem | statement |
|---|---|---|
| `PigPaxosProofs` | `InductiveInvariant` | `Spec => []Inv` |
| | `TypeCorrect` | `Spec => []TypeOK` |
| | `BallotsAreUnambiguous` | `Spec => []OneCommandPerBallot` |
| | `LeadershipIsFinal` | `Spec => LeadsOnce` |
| `PigRecordProofs` | `RecordInvariant` | `Spec => []RecordInv` |
| | `PromisesAreKept` | `Spec => []PromiseKept` |
| | `AgreementUncontested` | `Spec => []UncontestedAgreement` |
| `PigRequestProofs` | `RequestsConserved` | `Spec => []RequestInv` |
| | `NoRequestIsLost` | `Spec => []RequestConserved`, if `"Request" \notin Lossy` |
| `PigHistoryProofs` | `HistoryKept` | `Spec => []HistoryInv` |
| | `RepliesMatch` | `Spec => [](Uncontested => ReplyMatchesRequest)` |
| | `StepsOfTheLog` | `Spec => [][Uncontested' => Promise!Next]_(Promise!logVars)` |
| | `LogImplemented` | `Spec /\ []Uncontested => ImplementsReplicatedLog` |
| `EPaxosProofs` | `InvHolds` | `Spec => []Inv` |
| | `CommittedInstancesAgree` | `Spec => []CommittedAgree` |
| | `ConflictsAreOrdered` | `Spec => []ConflictsOrdered` |
| `SupportProofs` | `SupportInvariant` | `SupportSpec => []SupportInv` |
| | `ClocksNotAhead` | `SupportSpec => []NotAhead` |
| | `ReceiptsAfterSendings` | `SupportSpec => HappensBefore` |
| | `QuorumsIntersect` | `SupportSpec => []QuorumsMeet` |
| | `RelayGroupsPartition` | `SupportSpec => []GroupsPartition` |
| | `ReplicaStarts` | `SupportSpec => []StartsIfFlagsFit` |
| | `RepliesComeHome` | `SupportSpec => []AnswersComeHome` |

### Assumptions

* PigPaxos: node IDs are positive and below `IdSpace` (an ID fits in its half of
  the ballot word); relay groups partition the nodes, and every sender has somebody to
  draw in each of them (`GetRandomNodeId` never returns otherwise); there is a node, and
  there are finitely many; the zero command is not a command; bounds are natural
  numbers.  `NoRequestIsLost` assumes that the network loses no request: nothing in the
  code sends one a second time.  The other theorems let any message be lost.
* EPaxos (`EPaxosAssumption`): finitely many replicas, the zero command is not a
  command, bounds are natural numbers.
* Clock (`HybridClockAssumption`): bounds are natural numbers, the logical part has at least
  the values -1 and 0.
* Quorums (`LayoutsAssumption`): a cluster has three nodes or more.  With two, a fast
  quorum is one node and two of them need not meet.
* Relay groups (`ClustersAssumption`): a cluster has a node; zones and the number of groups
  are natural numbers.
* Forwarding (`ForwardingAssumption`): finitely many requests, a path has a first node.

### PigPaxos: ballots and leaders

`OneCommandPerBallot` is not inductive.  That a leader never
proposes two commands for a slot under one ballot depends on

* who owns ballots: every issued ballot belongs to a node, which has seen it (its own
  ballot is at least as high), so `P1a` always makes a fresh ballot;
* where messages can be: P1as and P2as come from the owner of their ballot and are
  never addressed to it, so nobody is deposed by its own proposals;
* what a candidate has done: nothing proposed under its ballot yet;
* what a leader has done: nothing proposed beyond `slot`, and every open entry from
  `execute` on carries its ballot, so `RetryP2a`, which sends the entry's command with
  the node's *current* ballot, repeats a proposal and does not make one;
* what logs, P1bs, relay collections and recovery replies say: proposals only.

`Inv` is the conjunction of these parts.  All of them are predicates on one replica or
one message relative to the sets `issued` and `proposals`, so the proof goes handler
by handler (`PigNodeProofs`: sending, executing, phases 1 to 3, cleanup; `PigPaxosProofs`:
relays), each with a lemma "from a good replica to a good
replica", and the rest of `PigPaxosProofs` lifts them to steps: a step of one replica adds
messages that are good and extends `issued` and `proposals` with ballots of its own,
which leaves the other replicas good.

### PigPaxos: what replicas remember of each other

`PromiseKept` needs to know where a promise has been.  `RecordInv` says that wherever a P1b
is, in a message, alone or in the aggregate of a relay, in the collection of a relay, in the
queue of `handleP1bLeader` or counted in a quorum, its sender has reached the ballot it
names.  Ballots never fall (`LeadershipIsFinal`), so a P1b stays true however late it
comes, and a quorum that `RetryP1a` or a new candidacy resets starts from nothing.
The second half of `RecordInv` is about what is executed: the command in
position i of a database was proposed for slot i - 1.  An entry that `exec` reaches is
committed and, by the guard of `exec`, not a placeholder; by `Inv` its command was
proposed for its slot.  With one ballot per slot `OneCommandPerBallot` then leaves one
command for the slot, which is `UncontestedAgreement`.  With two ballots nothing better
is true: see `split`.

### PigPaxos: requests

`RequestInv` says that a submitted command has exactly one holder (a message in the
network, a place in a pending list, an entry, a reply), that one not submitted has
none, and that entries that are absent or executed hold no request, so that cleanup
and recovery throw nothing away.  Where the network drops requests, a submitted command
has at most one holder.  Each handler is shown to move requests one for one
(`Conserves`: what the replica and its output hold afterwards is what the replica and
the message held before).  A step of the network then takes one copy of a message out
of the bag and puts the output in; copies in the bag are counted, since a bag may hold
the same message twice and a request must not be in it twice.

### PigPaxos: the replicated log

`ImplementsReplicatedLog` maps the longest database to the history, and asks three things of a
step: what a replica executes continues that history, a command it appends is not in
it yet, and an answer is to a command that has been applied and not answered.  The first
is `UncontestedAgreement` before and after the step.  For the other two, `RequestInv`
is too weak: it counts requests, but an answered command could still be
proposed for a second slot, or be held by the entry of another command (which is what
happens in `mixup`, where a slot is contested).  `HistoryInv` says, while no slot is contested:

* an entry that holds a request is the replica's own proposal, with that request's command;
* what a replica proposed is still held by its entry, or was executed and answered;
* no command was proposed for two slots;
* a commit speaks of slots its sender proposed for, and recovery (request or answer) of
  slots whose entry at the replica that asked holds no request.  So `HandleP3`, the
  P3 in a P2a and `HandleP3RecoverReply`, which overwrite entries, and the merge of a P1b in
  `update` never touch an entry that holds one.

The last part relates a message to the replica that will read it, so it is kept by
steps of that replica too: a slot that may be asked for (`Asked`: not beyond `slot`, no
request) stays so, because new requests go to new slots.  As before there is a lemma per
handler (`Faithful`: a replica sound before is sound after, databases and replies only
grow, a new reply carries a newly executed command); `NextRefines` puts them together with
`RecordInv`, which says what was proposed where, and `RequestInv`, by which
a command that waits has not been answered.

The hypothesis is on the behaviour, not on the constants: `StepsOfTheLog` says the
same step by step, up to the moment at which a slot is contested, and `Uncontested` holds
for ever with one leader whatever is lost, retried, recovered or cleaned up, and with several
leaders as long as a later one has committed what was proposed before it.

### EPaxos

Nobody but its owner finishes an instance, so `Inv` compares everything with the instance
at its owner, in three parts:

* `Base`: every message on its way agrees with the owner's instance (the command of a
  PreAccept; everything in a Commit).
* `Copies`: what another replica holds as committed its owner has committed, with the
  same command, sequence number and dependencies.  This gives `CommittedAgree`.
* `Ordering`: a replica that has *told* an owner the dependencies of an instance (they are
  under way or merged) has recorded it in `conflicts`; of two conflicting instances it
  told the second of the first; every instance that is settled (accepted or committed)
  leaves a fast quorum of witnesses, replicas that have recorded it and order with it
  whatever they tell later; and two settled instances that conflict are ordered.

When an instance settles, its quorum and that of any settled one share a
replica, which saw one of the two first; `FastQuorum` alone does not say so, because with two
nodes it is one, but the owner counts only when an answer comes and then has two.  A
step is *quiet* (nothing new is told), *tells* one thing (a PreAccept handled, a command
proposed), or *settles* one instance; there is one lemma for each kind.

### The shared parts

`SupportInv` is the conjunction of an invariant for each part; a step of one leaves the
variables of the others alone.

* Clock: clocks and timestamps under way show physical parts between 0 and the latest time
  any physical clock has shown.  Packing (`ToInt64`) keeps the logical part; one that has
  wrapped is negative, wipes out the physical part, and is unpacked as a time before the
  first millisecond: too early, never too late.
* Quorums: `size` and the counts of the zones are cardinalities of the set of votes,
  so a vote that comes twice counts once.  That two quorums meet is then counting:
  two sets with more elements together than there are nodes share one; a row meets a
  column in the zone that the column fills, and two flexible quorums have a majority of
  some zone in common.
* Relay groups: while nodes are placed there are full groups, at most one being filled,
  and empty ones; the shares add up to no more than the nodes, and the last group takes
  the rest.  Grouped by zone, a group holds the nodes placed so far that have its number.
  If the flags do not fit, a node cannot be placed or some group is still empty
  in the end, and the replica goes down before it has started.
* Forwarding: a node's table holds some request it forwarded under that text.  If it
  never had to hold two (`~Overwritten`), the entry is the request's own channel, and the
  reply goes back step by step along the channels of its path.

### Only model-checked

* `NoPhantomVotes`: it holds as long as no P2a is repeated, and needs an invariant about what a
  relay's list of votes stands for.
* `TypeOK` and `ExecutedOnce` of EPaxos, everything about the baseline (`MultiPaxos`,
  `QuorumRead`) and about the variants (`Forks`).
* `NoFalseAlarm`, `AnomaliesFound`, `BatchesCommute`: the first two compare a search in a
  graph with the orders of a history, the last folds over sequences of commands; all
  three are inductions over data, which the prover cannot do.
* The liveness properties `EventuallyAnswered`, `EventuallyExecuted` and `NoStraggler`:
  fairness and `ENABLED` are beyond the prover.

## 5. Not modelled, and the plan

Not modelled:

* Placement policy (`policy.go`): no protocol of this repository calls it.
* Retro log: tracing for an external monitor, off by default.
* Codecs, transports, HTTP parsing, configuration, logging, master, server, command
  line tools, load generation: input and output.  The timers of `Drop`, `Slow`, `Flaky` and
  `Crash` are left out too: what they do to messages is loss and delay, which the
  networks of the modules do at any time.
* `lib/`: the queue, stack, concurrent maps and the hash ring, which no protocol uses.
* `Quorum.ADD`, `NACK`, `All`, `ZoneMajority`, `LayerMajority`: not called, or not meant to
  intersect with anything.
* `MultiGet` and `LocalQuorumGet` of the client: the first waits for as many answers as it
  sent requests and blocks when a node is silent.
* An empty value: gob turns it into nil, so the node that proposes it sees a write and the
  others a read.  The modules keep commands, not their encoding.
* The interleaving of the ticker *inside* a handler (its unprotected reads of `ballot`,
  `active` and the P1b collection): handlers and ticker are atomic steps.

Plan:

1. PigPaxos: `NoPhantomVotes` without timeouts of relays (what a collection counts has
   accepted), and with it the refinement of `ReplicatedLog` while one ballot is issued.
2. The other protocols: `TypeOK` and `ExecutedOnce` of EPaxos; `TypeOK`, `OneLeaderAgreement`
   and `RequestConserved` of the baseline, along the lines of PigPaxos;
   `CommittedByMajority` of Layer Paxos.  The proof modules of PigPaxos are then
   put together by subject.
3. `PigRace`: the steps of the ticker between those of a handler.
