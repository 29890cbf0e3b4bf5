----------------------------- MODULE HybridClock -----------------------------
(***************************************************************************)
(* The hybrid logical clock of a process.  With the retro log on, a        *)
(* message carries the time of the clock of its sender packed into one     *)
(* integer, and the receiver moves its own clock past it.                  *)
(*                                                                         *)
(* The logical part is an int16 and wraps; WrapAt stands for 2^15.         *)
(***************************************************************************)
EXTENDS Integers, FiniteSets

CONSTANTS
  Process,   \* the processes, each with one clock
  MaxTime,   \* bound: the last millisecond of the physical clocks
  WrapAt,    \* logical parts are in -WrapAt .. WrapAt - 1
  MaxSent    \* bound: messages in flight

ASSUME HybridClockAssumption == MaxTime \in Nat /\ MaxSent \in Nat /\ WrapAt \in Nat \ {0}

VARIABLES
  wall,      \* wall[p]: time.Now at p, which an operator may set back
  clock,     \* clock[p]: the hybrid time of p
  flying,    \* messages: [packed, sent], sent the time that packed stands for
  latest     \* history: the latest that any physical clock has shown

clockVars == <<wall, clock, flying, latest>>

Before(s, t) ==
  \/ s.physical < t.physical
  \/ s.physical = t.physical /\ s.logical < t.logical

ToInt16(i) == ((i + WrapAt) % (2 * WrapAt)) - WrapAt

\* A negative logical part extends its sign over the physical part.
ToInt64(t) == IF t.logical < 0 THEN t.logical ELSE t.physical * 2 * WrapAt + t.logical

NewTimestampI64(i) == [physical |-> i \div (2 * WrapAt), logical |-> ToInt16(i % (2 * WrapAt))]

Reset(pt) == [physical |-> pt, logical |-> 0]

\* Mutant: a full logical part carries into the physical part.
IncrementWithCarry(t) ==
  IF t.logical = WrapAt - 1 THEN Reset(t.physical + 1) ELSE [t EXCEPT !.logical = @ + 1]

IncrementLogical(t) == [t EXCEPT !.logical = ToInt16(@ + 1)]

\* Mutant: the logical part starts anew in the same millisecond.
NowStrict(t, pt) == IF t.physical > pt THEN IncrementLogical(t) ELSE Reset(pt)

Now(t, pt) == IF t.physical >= pt THEN IncrementLogical(t) ELSE Reset(pt)

\* Update(c, pt, t): clock c with physical time pt meets timestamp t.
Update(c, pt, t) ==
  IF pt > c.physical /\ pt > t.physical THEN Reset(pt)
  ELSE IF t.physical > c.physical THEN IncrementLogical(t)
  ELSE IF c.physical > t.physical THEN IncrementLogical(c)
  ELSE IncrementLogical(IF t.logical > c.logical THEN t ELSE c)

\* socket.Send with the retro log: the clock ticks, the message carries it.
SendStamped(p) ==
  LET t == Now(clock[p], wall[p])
  IN  /\ Cardinality(flying) < MaxSent
      /\ flying' = flying \cup {[packed |-> ToInt64(t), sent |-> t]}
      /\ clock' = [clock EXCEPT ![p] = t]
      /\ UNCHANGED <<wall, latest>>

\* node.recv.
ReceiveStamped(p, m) ==
  /\ m \in flying
  /\ clock' = [clock EXCEPT ![p] = Update(@, wall[p], NewTimestampI64(m.packed))]
  /\ flying' = flying \ {m}
  /\ UNCHANGED <<wall, latest>>

\* External: the physical clock of p goes on, or is set.
SetWall(p, t) ==
  /\ t # wall[p]
  /\ wall' = [wall EXCEPT ![p] = t]
  /\ latest' = IF t > latest THEN t ELSE latest
  /\ UNCHANGED <<clock, flying>>

ClockInit ==
  /\ wall = [p \in Process |-> 0]
  /\ clock = [p \in Process |-> Reset(0)]
  /\ flying = {}
  /\ latest = 0

ClockNext ==
  \E p \in Process :
    \/ SendStamped(p)
    \/ \E m \in flying : ReceiveStamped(p, m)
    \/ \E t \in 0 .. MaxTime : SetWall(p, t)
-----------------------------------------------------------------------------
\* The clock of p has run through all logical parts of one millisecond.
Wrapped(p) == clock'[p].logical = -WrapAt

\* Sending and receiving move a clock forward, and a receipt comes after its
\* sending on it, whatever the physical clocks show: unless a logical part has
\* wrapped, which IncrementLogical does not see (HLC.Now, HLC.Update, ToInt64).
HappensBefore ==
  [][\A p \in Process :
       /\ SendStamped(p) => Before(clock[p], clock'[p]) \/ Wrapped(p)
       /\ \A m \in flying : ReceiveStamped(p, m) =>
            /\ Before(clock[p], clock'[p]) \/ Wrapped(p)
            /\ Before(m.sent, clock'[p]) \/ Wrapped(p) \/ m.sent.logical < 0]_clockVars

\* No clock shows a time that no physical clock has shown, also when a
\* timestamp was packed after its logical part had wrapped (HLC.Update).
NotAhead == \A p \in Process : clock[p].physical \in 0 .. latest
=============================================================================
