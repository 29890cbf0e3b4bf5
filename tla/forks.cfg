\* One leader, one group of four with a fixed relay; relays time out, a slot
\* is recovered as soon as another one follows it.
SPECIFICATION ForkSpec
CONSTANTS
  Algorithms = {"layerpaxos", "chainpaxos"}
  IdSpace = 8
  Node = {1, 2, 3, 4}
  Groups = {{1, 2, 3, 4}}
  RelayChoice <- Relay2
  Cmd = {c1, c2}
  NoCmd = NoCmd
  MaxSlot = 1
  RecoverGap = 0
  UseSmallP2b = TRUE
  RelaySlack = 0
  StableLeader = TRUE
  Entry <- AtNode1
  Timers = {"P3", "relayP2b"}
  MaxBallotN = 1
  MaxInFlight = 1
  Lossy = {}
  MaxLost = 0
SYMMETRY CmdSymmetry
CHECK_DEADLOCK FALSE
INVARIANTS Agreement NoPhantomVotes CommittedByMajority
