SPECIFICATION FairSpec
CONSTANTS
  Cases <- MCCases
  Quarter = 64
INVARIANTS
  OpenAsAsked
  StoreRespected
  SizeIsWhatItSays
  ExitTellsOutput
  FirstSignalIsGraceful
PROPERTY SignalsEndIt
