\* One part of package paxi at a time.
SPECIFICATION SupportSpec
CONSTANTS
  Histories <- ShortHistories
  Nothing = Nothing
  Process = {1, 2}
  MaxTime = 2
  WrapAt = 2
  MaxSent = 1
  Clusters <- SomeClusters
  Layouts <- SomeLayouts
  DataKey = {k1, k2}
  DataValue = {x, y}
  NilValue = NilValue
  MaxLog = 4
  Server = {s1, s2, s3}
  Req = {r1, r2}
  Text <- OneText
  MaxPath = 4
SYMMETRY SupportSymmetry
CHECK_DEADLOCK FALSE
INVARIANTS NoFalseAlarm AnomaliesFound NotAhead GroupsPartition StartsIfFlagsFit QuorumsMeet BatchesCommute AnswersComeHome
PROPERTY HappensBefore
