------------------------------- MODULE Ballots -------------------------------
(***************************************************************************)
(* Ballot numbers (ballot.go).  The code packs a counter in the upper half *)
(* of a 64-bit word and the ID of the owner in the lower half and compares *)
(* ballots as integers; here the lower half has IdSpace values (2^32 in    *)
(* the code, a small number in a TLC instance).  Ballot 0 is the zero      *)
(* value of the type and belongs to nobody.                                *)
(***************************************************************************)
EXTENDS Integers

CONSTANT IdSpace    \* number of values of the half word that holds the owner

ASSUME IdSpaceAssumption == IdSpace \in Nat \ {0}

Ballot == Nat

NewBallot(n, id) == n * IdSpace + id

N(b) == b \div IdSpace

ID(b) == b % IdSpace

\* Mutant: the counter is not advanced.
SameCounter(b, id) == NewBallot(N(b), id)

\* Ballot.Next: the next ballot of node id that is above b.
NextBallot(b, id) == NewBallot(N(b) + 1, id)
=============================================================================
