\* One leader, a relay passes on all votes but the slowest; one message of
\* phase 1 or phase 2 is lost, a relay's list of promises (P1bs) excepted; logs
\* are cleaned.
SPECIFICATION FairSpec
CONSTANTS
  IdSpace = 8
  Node = {1, 2, 3}
  Groups = {{1, 2, 3}}
  RelayChoice <- AnyRelay
  Cmd = {c1}
  NoCmd = NoCmd
  MaxSlot = 0
  RecoverGap = 10
  UseSmallP2b = FALSE
  RelaySlack = 1
  StableLeader = TRUE
  Entry <- AtNode1
  Timers = {"P1a", "P2a", "P3", "relayP1b", "relayP2b", "cleanup"}
  MaxBallotN = 1
  MaxInFlight = 1
  Lossy = {"P1a", "P1b", "P2a", "P2b"}
  MaxLost = 1
CHECK_DEADLOCK FALSE
INVARIANTS TypeOK
PROPERTY EventuallyAnswered
