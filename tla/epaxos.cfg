\* Two replicas with two commands each, all on one key.
SPECIFICATION FairSpec
CONSTANTS
  Node = {1, 2, 3}
  a1 = a1
  a2 = a2
  b1 = b1
  b2 = b2
  k = k
  Cmd = {a1, a2, b1, b2}
  NoCmd = NoCmd
  Key = {k}
  KeyOf <- OneKey
  Entry <- TwoOwners
  ReplyWhenCommit = FALSE
  Ordered = TRUE
  Faulty <- OneConnection
  MaxLost = 1
  MaxSlot = 1
  First = {a1, b1}
CHECK_DEADLOCK FALSE
INVARIANTS TypeOK Inv CommittedAgree ConflictsOrdered ExecutedOnce
PROPERTY EventuallyExecuted
