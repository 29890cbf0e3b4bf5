\* Two candidates one after the other; relays time out.
SPECIFICATION Spec
CONSTANTS
  IdSpace = 8
  Node = {1, 2, 3}
  Groups = {{1, 2, 3}}
  RelayChoice <- AnyRelay
  Cmd = {c1, c2}
  NoCmd = NoCmd
  MaxSlot = 1
  RecoverGap = 10
  UseSmallP2b = TRUE
  RelaySlack = 0
  StableLeader = TRUE
  Entry <- AtNodes12
  Timers = {"relayP1b", "relayP2b"}
  MaxBallotN = 1
  MaxInFlight = 1
  Lossy = {}
  MaxLost = 0
SYMMETRY CmdSymmetry
CHECK_DEADLOCK FALSE
INVARIANTS Agreement
