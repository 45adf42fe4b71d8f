CONSTANTS
  Beta = 4
  DC_THRESHOLD = 4
  Guard = 4
  Ulps = {0}
  Problems <- MCProblems
  DigitBits = 8
  WordDigits = 2
  Lanes = 8
  Divisors <- MCDivisors
SPECIFICATION MCSpec
INVARIANTS Divides EstimateExact SeedAndReciprocal
PROPERTY Terminates
CHECK_DEADLOCK FALSE
