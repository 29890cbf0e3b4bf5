\* Two nodes compete: every request to a node that does not lead starts a new
\* ballot.
SPECIFICATION Spec
CONSTANTS
  IdSpace = 8
  Node = {1, 2, 3}
  Groups = {{1, 2, 3}}
  RelayChoice <- AnyRelay
  Cmd = {c1, c2}
  NoCmd = NoCmd
  MaxSlot = 1
  RecoverGap = 10
  UseSmallP2b = TRUE
  RelaySlack = 0
  StableLeader = FALSE
  Entry <- AtNodes12
  Timers = {}
  MaxBallotN = 2
  MaxInFlight = 1
  Lossy = {}
  MaxLost = 0
SYMMETRY CmdSymmetry
CHECK_DEADLOCK FALSE
INVARIANTS Inv OneCommandPerBallot RecordInv PromiseKept UncontestedAgreement RequestInv RequestConserved
PROPERTY LeadsOnce
