CONSTANTS
  Configured = Configured
  Nothing = Nothing
  RotationInterval = 1
  Rotators = {r1, r2, r3}
  Validators = {v}
  TokenTTL = 3
  GracePeriod = 1
  MaxTokensKept = 1
  Faults = {"read", "write", "crash"}
  MaxTime = 4
SPECIFICATION Spec
SYMMETRY Symmetry
CHECK_DEADLOCK FALSE
INVARIANTS
  GraceKept
  ReturnedAccepted
  GraceEnds
