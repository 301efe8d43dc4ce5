SPECIFICATION FairSpec
CONSTANTS
  Values <- MCValues
  Unknown <- MCUnknown
  MaxVersion = 1
  Builds <- MCBuilds
INVARIANTS ConnectedMeansAccepted InfoTruthful CorruptNeverAccepted
PROPERTIES ConnectEnds
