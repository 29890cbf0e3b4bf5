---------------------------- MODULE ReplicatedLog ----------------------------
(***************************************************************************)
(* What the replicas promise their clients: one history of commands, which *)
(* every replica applies from the front.  A command enters the history     *)
(* once, after a client submitted it; a client gets its answer, once,      *)
(* after its command was applied.                                          *)
(***************************************************************************)
EXTENDS Naturals, Sequences, FiniteSets, Functions

CONSTANTS Node, Cmd

VARIABLES
  submitted,  \* the commands clients have sent
  history,    \* the commands in the order of their execution
  applied,    \* applied[n]: the commands replica n has executed, in order
  answered    \* the commands whose clients have been answered

logVars == <<submitted, history, applied, answered>>

Init ==
  /\ submitted = {}
  /\ history = <<>>
  /\ applied = [n \in Node |-> <<>>]
  /\ answered = {}

Submit ==
  /\ \E c \in Cmd \ submitted : submitted' = submitted \cup {c}
  /\ UNCHANGED <<history, applied, answered>>

\* The history after a replica has applied t commands: the first to get that
\* far decides what comes next.
Extensions(t) ==
  IF t <= Len(history) THEN {history}
  ELSE {history \o x : x \in {y \in [1..(t - Len(history)) -> submitted \ Range(history)] :
                                IsInjective(y)}}

\* Replica n applies the next one or more commands of the history and answers
\* the clients of some of them.
Apply(n) ==
  /\ \E t \in (Len(applied[n]) + 1)..Cardinality(submitted) :
       /\ history' \in Extensions(t)
       /\ applied' = [applied EXCEPT ![n] = SubSeq(history', 1, t)]
       /\ \E done \in SUBSET {history'[i] : i \in (Len(applied[n]) + 1)..t} :
            /\ done \cap answered = {}
            /\ answered' = answered \cup done
  /\ UNCHANGED submitted

Next == Submit \/ \E n \in Node : Apply(n)

Spec == Init /\ [][Next]_logVars
=============================================================================
