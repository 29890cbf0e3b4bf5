------------------------------- MODULE Database -------------------------------
(***************************************************************************)
(* The key-value database under every replica, with all versions kept, and *)
(* the test that tells which commands may change places.                   *)
(***************************************************************************)
EXTENDS Naturals, Sequences, SequencesExt

CONSTANTS
  DataKey,    \* keys
  DataValue,  \* values
  NilValue,   \* nil: the value of a command that reads
  MaxLog      \* bound: how many commands are executed

VARIABLES
  executed,   \* the commands executed so far
  db          \* [data, version, history]

databaseVars == <<executed, db>>

Command == [key : DataKey, value : DataValue \cup {NilValue}]

IsDataRead(c) == c.value = NilValue

NewDatabase == [data |-> [k \in DataKey |-> NilValue], version |-> 0,
                history |-> [k \in DataKey |-> <<>>]]

\* The answer of Execute is the value before.
ValueBefore(d, c) == d.data[c.key]

Execution(d, c) ==
  IF IsDataRead(c) THEN d
  ELSE [data |-> [d.data EXCEPT ![c.key] = c.value],
        version |-> d.version + 1,
        history |-> [d.history EXCEPT ![c.key] = Append(@, c.value)]]

\* Mutant: only two writes conflict.
BothWrite(c, d) == c.key = d.key /\ ~IsDataRead(c) /\ ~IsDataRead(d)

Conflict(c, d) == c.key = d.key /\ (~IsDataRead(c) \/ ~IsDataRead(d))

ConflictBatch(b1, b2) == \E i \in DOMAIN b1, j \in DOMAIN b2 : Conflict(b1[i], b2[j])

ExecuteCommand ==
  \E c \in Command :
    /\ Len(executed) < MaxLog
    /\ executed' = Append(executed, c)
    /\ db' = Execution(db, c)

DatabaseInit == executed = <<>> /\ db = NewDatabase

DatabaseNext == ExecuteCommand
-----------------------------------------------------------------------------
RunBatch(d, b) == FoldLeft(Execution, d, b)

Answers(d, b) == [i \in DOMAIN b |-> ValueBefore(RunBatch(d, SubSeq(b, 1, i - 1)), b[i])]

\* Of two batches that do not conflict the second might have been executed
\* first: the database would be the same and every command would have got the
\* same answer (ConflictBatch: "as reorder them will end in different states").
BatchesCommute ==
  \A i, k \in 0 .. Len(executed) :
    LET d == RunBatch(NewDatabase, SubSeq(executed, 1, i))
        a == SubSeq(executed, i + 1, k)
        b == SubSeq(executed, k + 1, Len(executed))
    IN  (i <= k /\ ~ConflictBatch(a, b)) =>
          /\ RunBatch(RunBatch(d, b), a) = db
          /\ Answers(RunBatch(d, b), a) = Answers(d, a)
          /\ Answers(d, b) = Answers(RunBatch(d, a), b)
=============================================================================
