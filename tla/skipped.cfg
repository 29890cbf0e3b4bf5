\* One leader, one proposal to one follower is lost.
SPECIFICATION Spec
CONSTANTS
  IdSpace = 8
  Node = {1, 2, 3}
  Cmd = {c1, c2}
  NoCmd = NoCmd
  ExecuteSlack = 10
  EphemeralLeader = FALSE
  Entry <- AtNode1
  MaxSlot = 1
  MaxBallotN = 1
  MaxInFlight = 1
  Lossy = {"P2a"}
  MaxFaults = 2
  MaxTickBallots = 1
SYMMETRY CmdSymmetry
CHECK_DEADLOCK FALSE
INVARIANT Agreement
