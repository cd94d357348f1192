\* Every property of the pipeline, with the fairness the liveness needs.
\* The account's processes really stop, so a state without successor is legal.
SPECIFICATION FairSpec
CONSTANTS
  terminal1 = terminal1
  terminal2 = terminal2
  Invocations = {terminal1, terminal2}
  MaxRetries = 3
  MaxRetracts = 1
INVARIANTS
  TypeOK
  PassiveLeavesNoTrace
  SuccessHoldsWithoutForks
  RefusedOnlyByARival
  TracebackMeansNothingDone
  NobodyWaitsInVain
PROPERTIES
  KeepsPromise
  EveryStepCounts
  EveryInvocationExits
CHECK_DEADLOCK FALSE
