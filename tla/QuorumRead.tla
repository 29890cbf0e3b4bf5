----------------------------- MODULE QuorumRead -----------------------------
(***************************************************************************)
(* Quorum reads (paxos/client.go): a client reads a key without the        *)
(* leader.  It asks a majority of the replicas, which answer from their    *)
(* logs and databases (readInProgress in paxos/replica.go), keeps the      *)
(* value of the highest slot, and, if some replica had the key in          *)
(* progress, polls replicas until that slot is settled.                    *)
(*                                                                         *)
(* All commands of the instance write the key that is read.  The key is    *)
(* not 0, the key of the zero command a placeholder holds.                 *)
(***************************************************************************)
EXTENDS MultiPaxos

CONSTANT MaxReads   \* bound: how many reads the client makes, one after the other

VARIABLES
  read,    \* the read under way
  reads    \* how many reads have been started

readVars == <<vars, read, reads>>

(***************************************************************************)
(* The variables of readQuorum.  todo: the replicas that have not answered *)
(* yet; known: the commands whose clients had their answer when the read   *)
(* began (history).                                                        *)
(***************************************************************************)
NoRead == [active |-> FALSE, todo |-> {}, barrier |-> -1, numReachedBarrier |-> 0,
           numInProgress |-> 0, value |-> NoCmd, known |-> {}]

\* Mutant: half of the replicas are asked.
half == Cardinality(Node) \div 2

\* The local variable majority of readQuorum, and the n of QuorumGet.
majority == Cardinality(Node) \div 2 + 1

\* The slots of a replica where a command on the key is in progress.
InProgressSlots(r) ==
  {s \in Slot : r.execute <= s /\ s <= r.slot /\ r.log[s].command # NoCmd}

\* readInProgress: the newest command in progress, else the database.
ReadInProgress(r) ==
  LET S == InProgressSlots(r)
  IN  IF S # {} THEN r.log[Max(S)].command
      ELSE IF \E i \in DOMAIN r.db : r.db[i] # NoCmd
           THEN r.db[Max({i \in DOMAIN r.db : r.db[i] # NoCmd})]
      ELSE NoCmd

Answered == UNION {{x[1] : x \in node[n].replies} : n \in Node}

\* QuorumGet: send the read to a majority.
StartRead(Q) ==
  /\ ~read.active /\ reads < MaxReads /\ Answered # {}
  /\ reads' = reads + 1
  /\ read' = [NoRead EXCEPT !.active = TRUE, !.todo = Q, !.known = Answered]
  /\ UNCHANGED vars

\* One answer in the loop over the answers of the quorum.
TakeAnswer(r) ==
  LET seen == [read EXCEPT
        !.todo = @ \ {r.id},
        !.numInProgress = @ + (IF InProgressSlots(r) # {} THEN 1 ELSE 0)]
  IN  IF r.slot > read.barrier
      THEN [seen EXCEPT !.barrier = r.slot, !.numReachedBarrier = 1,
                        !.value = ReadInProgress(r)]
      ELSE IF r.slot = read.barrier
           THEN [seen EXCEPT !.numReachedBarrier = @ + 1]
      ELSE seen

\* Replica n answers the read of the quorum.
AnswerRead(n) ==
  /\ n \in read.todo /\ ~node[n].halted
  /\ read' = TakeAnswer(node[n])
  /\ UNCHANGED <<vars, reads>>

\* The condition of the loop that waits for the barrier.
MustWait == read.numInProgress > 0 /\ read.numReachedBarrier < majority

\* One turn of the loop: ask any replica how far it is.
Poll(n) ==
  LET r == node[n]
  IN  /\ read.active /\ read.todo = {} /\ MustWait /\ ~r.halted
      /\ r.slot >= read.barrier
      /\ read' = IF r.execute - 1 >= read.barrier THEN NoRead
                 ELSE [read EXCEPT !.numReachedBarrier = @ + 1]
      /\ UNCHANGED <<vars, reads>>

Return ==
  /\ read.active /\ read.todo = {} /\ ~MustWait
  /\ read' = NoRead
  /\ UNCHANGED <<vars, reads>>

ReadInit == Init /\ read = NoRead /\ reads = 0

ReadNext ==
  /\ \/ Next /\ UNCHANGED <<read, reads>>
     \/ \E Q \in SUBSET Node : Cardinality(Q) = majority /\ StartRead(Q)
     \/ \E n \in Node : AnswerRead(n) \/ Poll(n)
     \/ Return
  /\ Cardinality(issued') + lost' + reads' <= MaxFaults   \* reads use up faults as well

ReadSpec == ReadInit /\ [][ReadNext]_readVars
-----------------------------------------------------------------------------
\* The slots command c was proposed in; -1 stands for no command.
SlotsOf(c) == IF c = NoCmd THEN {-1} ELSE {p[2] : p \in {q \in proposals : q[3] = c}}

Returns == read.active /\ ~read'.active

\* While one ballot has been issued, a quorum read is no older than any write
\* that was answered before the read began.
ReadIsFresh ==
  [][Returns /\ Cardinality(issued) <= 1 =>
       \A c \in read.known : Max(SlotsOf(read.value)) >= Max(SlotsOf(c))]_readVars
=============================================================================
