\* One leader, relays time out, a proposal may be lost.
SPECIFICATION FairSpec
CONSTANTS
  IdSpace = 8
  Node = {1, 2, 3}
  Groups = {{1, 2, 3}}
  RelayChoice <- AnyRelay
  Cmd = {c1, c2}
  NoCmd = NoCmd
  MaxSlot = 1
  RecoverGap = 0
  UseSmallP2b = TRUE
  RelaySlack = 0
  StableLeader = TRUE
  Entry <- AtNode1
  Timers = {"P3", "relayP2b"}
  MaxBallotN = 1
  MaxInFlight = 1
  Lossy = {"P2a"}
  MaxLost = 1
CHECK_DEADLOCK FALSE
INVARIANTS NoPhantomVotes HistoryInv
PROPERTIES ImplementsReplicatedLog NoStraggler EventuallyExecuted
