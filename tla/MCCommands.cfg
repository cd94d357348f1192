CONSTANTS
  Catalogue <- AllCommands
  Bodies <- AllBodies
  Wrapper <- TUSDTClient
  Interface <- Packaged
  MaxQuantity = 2
SPECIFICATION Spec
INVARIANT TypeOK
INVARIANT ContractErrorIsReported
INVARIANT ChargedAsAnnounced
INVARIANT EndsBeforeSending
INVARIANT ExitCodeTellsTheTruth
