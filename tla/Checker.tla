------------------------------- MODULE Checker -------------------------------
(***************************************************************************)
(* The linearizability checker of the benchmark, for the operations on one *)
(* key.  It takes them in the order of their invocation, which is the      *)
(* number of an operation here, and keeps a graph of what must come before *)
(* what: a read is merged into the write it returns, and a cycle makes the *)
(* read an anomaly.  Written values differ.  Go maps have no order: what   *)
(* depends on it is chosen freely.                                         *)
(***************************************************************************)
EXTENDS Integers, Sequences, SequencesExt, Graphs

CONSTANTS
  Histories,  \* the histories to check, sequences of operations
  Nothing     \* nil: the input of a read, the output of a write

VARIABLES
  history,    \* the operations: [input, output, start, end]
  taken,      \* how many of them the checker has taken
  graph,      \* [node, edge, end], end as the merges have shortened it
  anomaly     \* the reads reported

checkerVars == <<history, taken, graph, anomaly>>

Op == DOMAIN history
IsRead(o) == history[o].input = Nothing

happenBefore(g, a, b) == g.end[a] < history[b].start
concurrent(g, a, b) == ~happenBefore(g, a, b) /\ ~happenBefore(g, b, a)

newChecker(h) == [node |-> {}, edge |-> {}, end |-> [o \in DOMAIN h |-> h[o].end]]

\* Mutant: an edge from every operation that is in the graph.
addOpInOrder(g, o) ==
  IF o \in g.node THEN g
  ELSE [g EXCEPT !.node = @ \cup {o}, !.edge = @ \cup {<<v, o>> : v \in g.node}]

\* An operation that is in the graph from looking ahead gets no more edges.
addOp(g, o) ==
  IF o \in g.node THEN g
  ELSE [g EXCEPT !.node = @ \cup {o},
                 !.edge = @ \cup {<<v, o>> : v \in {w \in g.node : happenBefore(g, w, o)}}]

\* The writes invoked during read o, and the reads that returned nothing: the
\* code asks for a nil output.
lookAhead(g, o) ==
  LET seen(j) == /\ j > o
                 /\ history[j].output = Nothing
                 /\ \A k \in o + 1 .. j : concurrent(g, o, k)
  IN  FoldLeft(addOp, g, SelectSeq([j \in Op |-> j], seen))

match(g, read) == {v \in g.node : history[v].input = history[read].output}

inherited(g, read, write) == {<<s, write>> : s \in {v \in g.node \ {write} : <<v, read>> \in g.edge}}

\* Mutant: the write keeps its end when a read that returned it ended earlier.
mergeKeepingEnd(g, read, write) ==
  [g EXCEPT !.node = @ \ {read},
            !.edge = {e \in @ \cup inherited(g, read, write) : read \notin {e[1], e[2]}}]

\* A read of nothing matches a read, itself perhaps.
merge(g, read, write) ==
  [node |-> g.node \ {read},
   edge |-> {e \in g.edge \cup inherited(g, read, write) : read \notin {e[1], e[2]}},
   end |-> IF g.end[read] < g.end[write] THEN [g.end EXCEPT ![write] = g.end[read]] ELSE g.end]

merged(g, read) ==
  IF match(g, read) = {} THEN {g} ELSE {merge(g, read, w) : w \in match(g, read)}

\* The nodes that are gray when the search meets a gray one: those on the
\* path from where it began, not only those of the cycle.
Cycle(g) ==
  IF IsDag([node |-> g.node, edge |-> g.edge]) THEN {}
  ELSE {ToSet(p) : p \in {q \in SeqOf(g.node, Cardinality(g.node)) :
                            /\ q # <<>> /\ IsInjective(q)
                            /\ \A k \in 1 .. Len(q) - 1 : <<q[k], q[k + 1]>> \in g.edge
                            /\ \E k \in DOMAIN q : <<Last(q), q[k]>> \in g.edge}}

breakCycle(g, cycle) ==
  [g EXCEPT !.edge = {e \in @ : ~ /\ {e[1], e[2]} \subseteq cycle
                                  /\ history[e[1]].start > g.end[e[2]]}]

TakeWrite ==
  LET o == taken + 1
  IN  /\ o \in Op /\ ~IsRead(o)
      /\ graph' = addOp(graph, o)
      /\ taken' = o
      /\ UNCHANGED <<history, anomaly>>

TakeRead ==
  LET o == taken + 1
  IN  /\ o \in Op /\ IsRead(o)
      /\ \E g \in merged(lookAhead(addOp(graph, o), o), o) :
           \/ /\ Cycle(g) = {}
              /\ graph' = g
              /\ UNCHANGED anomaly
           \/ \E cycle \in Cycle(g) :
                /\ graph' = breakCycle(g, cycle)
                /\ anomaly' = anomaly \cup {o}
      /\ taken' = o
      /\ UNCHANGED history

CheckerInit(histories) ==
  /\ history \in histories
  /\ taken = 0
  /\ graph = newChecker(history)
  /\ anomaly = {}

CheckerNext == TakeWrite \/ TakeRead
-----------------------------------------------------------------------------
\* What is checked: some order of all operations respects those that did not
\* overlap, and every read in it returns the write before it.
Linearizable(h) ==
  \E order \in Permutations(DOMAIN h) :
    /\ \A j, k \in DOMAIN h : j < k => h[order[k]].end >= h[order[j]].start
    /\ \A k \in DOMAIN h :
         h[order[k]].input = Nothing =>
           LET writes == {j \in 1 .. k - 1 : h[order[j]].input # Nothing}
           IN  h[order[k]].output =
                 IF writes = {} THEN Nothing ELSE h[order[Max(writes)]].input

\* The checker reports nothing in a linearizable history, although it goes on
\* with a graph that merges have rewritten (linearizable, merge).
NoFalseAlarm == anomaly # {} => ~Linearizable(history)

\* The histories the checker is complete for.  A read of nothing, or of a
\* write invoked later, finds no write to be merged into; and a write that is
\* looked ahead for misses the edges of what a read in between shortens.
InScope(h) ==
  \A r \in DOMAIN h : h[r].input = Nothing =>
    /\ \E w \in DOMAIN h : h[w].input = h[r].output /\ h[w].input # Nothing /\ h[w].start < h[r].end
    /\ ~ \E k, w \in DOMAIN h : /\ r < k /\ k < w
                                /\ h[k].input = Nothing /\ h[w].input # Nothing
                                /\ h[k].end < h[w].start /\ h[w].start < h[r].end

\* Apart from those, a history that is not linearizable is reported, in
\* whatever order the maps are read (linearizable, match).
AnomaliesFound ==
  (taken = Len(history) /\ InScope(history) /\ ~Linearizable(history)) => anomaly # {}
=============================================================================
