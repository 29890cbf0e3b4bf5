\* As duel, with a third command, so that a leader that was deposed comes back;
\* fixed relays.
SPECIFICATION Spec
CONSTANTS
  IdSpace = 8
  Node = {1, 2, 3}
  Groups = {{1, 2, 3}}
  RelayChoice <- FixedRelay
  Cmd = {c1, c2, c3}
  NoCmd = NoCmd
  MaxSlot = 1
  RecoverGap = 10
  UseSmallP2b = TRUE
  RelaySlack = 0
  StableLeader = FALSE
  Entry <- AtNodes12
  Timers = {}
  MaxBallotN = 2
  MaxInFlight = 1
  Lossy = {}
  MaxLost = 0
SYMMETRY CmdSymmetry
CHECK_DEADLOCK FALSE
INVARIANT ReplyMatchesRequest
