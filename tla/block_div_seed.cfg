CONSTANTS
  Beta = 128
  DC_THRESHOLD = 4
  Guard = 128
  Ulps <- SeedUlps
  Problems <- SeedProblems
  DigitBits = 8
  WordDigits = 2
  Lanes = 8
  Divisors = {}
SPECIFICATION MCSpec
INVARIANT Divides
CHECK_DEADLOCK FALSE
