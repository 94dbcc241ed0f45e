CONSTANTS
  good = good
  bad = bad
  worse = worse
  worst = worst
  look = look
  forgive = forgive
  Ops = {bad, worse, look, forgive}
  KindOf <- MCKindOf
  EventOf <- MCEventOf
  DeltaOf <- MCDeltaOf
  InitialScore = 2
  MinScore = 0
  MaxScore = 3
  MaxHistory = 2
  Absent = Absent
  Faults = {"overlap", "read", "write", "crash", "decay"}
SPECIFICATION ReputationSpec
CHECK_DEADLOCK FALSE
INVARIANTS
  SerialExact
  LossBounded
