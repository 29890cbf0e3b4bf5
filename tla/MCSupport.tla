------------------------------ MODULE MCSupport ------------------------------
(* Support for TLC.                                                        *)
EXTENDS Support

\* Histories of n operations that write in W and read a value of W or of Other.
\* An operation is over before the next one starts, or some operations later.
HistoriesOf(n, W, Other) ==
  {[o \in 1 .. n |-> [start |-> 2 * o, end |-> 2 * over[o] + 1,
                      input |-> IF o \in W THEN o ELSE Nothing,
                      output |-> IF o \in W THEN Nothing ELSE value[o]]] :
     over \in {f \in [1 .. n -> 1 .. n] : \A o \in 1 .. n : f[o] >= o},
     value \in [1 .. n \ W -> W \cup Other]}

\* All histories of four operations, and those of five with two writes that
\* end with a read and read nothing but those two.
ShortHistories ==
  UNION {HistoriesOf(4, W, {Nothing}) : W \in SUBSET (1 .. 4)}
    \cup UNION {HistoriesOf(5, W, {}) : W \in kSubset(2, 1 .. 4)}

\* One group, groups of equal size, groups with a rest, a group to a node, and
\* zones of different sizes; then flags that do not fit the nodes.
SomeClusters ==
  {[zone |-> <<1, 1, 1, 2, 2>>, rpg |-> FALSE, pg |-> n] : n \in {0, 1, 2, 5, 6}}
    \cup {[zone |-> <<1, 1, 1, 2, 2, 2, 2>>, rpg |-> FALSE, pg |-> 3]}
    \cup {[zone |-> z, rpg |-> TRUE, pg |-> 1] : z \in {<<1, 1, 1, 2, 2>>, <<1, 3, 3>>, <<0, 1>>}}

\* Three, four and five nodes in one zone or in several that differ in size.
SomeLayouts == {<<1, 1, 1>>, <<1, 2, 2, 3>>, <<1, 1, 1, 2, 2>>}

\* Two clients of one ID read one key with one command ID.
OneText == [r \in Req |-> "get"]

SupportSymmetry == Permutations(Server) \cup Permutations(Req)
=============================================================================
