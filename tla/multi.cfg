\* Two candidates, or one leader and the loss of a message that is not a
\* proposal, or one leader and a quorum read.
SPECIFICATION ReadSpec
CONSTANTS
  IdSpace = 8
  Node = {1, 2, 3}
  Cmd = {c1, c2}
  NoCmd = NoCmd
  ExecuteSlack = 0
  EphemeralLeader = FALSE
  Entry <- AtNodes12
  MaxSlot = 1
  MaxBallotN = 1
  MaxInFlight = 1
  MaxTickBallots = 1
  Lossy = {"P1b", "P2b", "P3"}
  MaxFaults = 2
  MaxReads = 1
SYMMETRY CmdSymmetry
CHECK_DEADLOCK FALSE
INVARIANTS TypeOK OneLeaderAgreement RequestConserved
PROPERTY ReadIsFresh
