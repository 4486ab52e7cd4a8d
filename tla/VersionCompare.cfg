SPECIFICATION CompareSpec
CONSTANTS
  Ids <- FourIds
  Snapshots = {s1, s2}
  Absent = Absent
  DetailLimit = 2
INVARIANTS
  CompareTypeOK
  AnswerIsRight
CHECK_DEADLOCK FALSE
