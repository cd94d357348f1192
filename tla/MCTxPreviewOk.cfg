SPECIFICATION Spec
CONSTANTS
  terminal1 = terminal1
  terminal2 = terminal2
  Invocations = {terminal1, terminal2}
  MaxRetries = 3
  MaxRetracts = 1
INVARIANT PreviewOkMeansCallSucceeds
CHECK_DEADLOCK FALSE
