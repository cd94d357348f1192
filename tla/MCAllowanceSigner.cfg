SPECIFICATION Spec
CONSTANTS
  process1 = process1
  process2 = process2
  Invocations = {process1, process2}
  MaxBalance = 5
  MaxAmount = 2
  Inputs <- MCInputs
INVARIANT RepayVerifiesTheSigner
CHECK_DEADLOCK FALSE
