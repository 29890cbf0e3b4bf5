\* Chain Paxos: a candidate is promised by the inner nodes of a chain while a
\* proposal passes through it.
SPECIFICATION ForkSpec
CONSTANTS
  Algorithms = {"chainpaxos"}
  IdSpace = 8
  Node = {1, 2, 3, 4, 5, 6}
  Groups = {{1, 2}, {3, 4, 5, 6}}
  RelayChoice <- RelaysOf14
  Cmd = {c1, c2}
  NoCmd = NoCmd
  MaxSlot = 0
  RecoverGap = 10
  UseSmallP2b = TRUE
  RelaySlack = 0
  StableLeader = FALSE
  Entry <- AtNodes14
  Timers = {}
  MaxBallotN = 2
  MaxInFlight = 20
  Lossy = {}
  MaxLost = 0
CHECK_DEADLOCK FALSE
INVARIANT CommittedByMajority
