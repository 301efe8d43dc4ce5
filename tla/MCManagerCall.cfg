SPECIFICATION FairSpec
CONSTANTS
  Requests <- MCRequests
  MaxRequests = 1
  RequestLen = 2
  Window = 2
  NodeOnly = FALSE
  ChunkLen = 2
  SourceLens <- MCSourceLens
INVARIANTS TypeOK Aligned BytesOnlyAfterProceed AppliedMeansWhole OkMeansDone
PROPERTIES CallEnds RemoteCallSpec
