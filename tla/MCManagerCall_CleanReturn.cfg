SPECIFICATION Spec
CONSTANTS
  Requests <- MCRequests
  MaxRequests = 1
  RequestLen = 2
  Window = 2
  NodeOnly = FALSE
  ChunkLen = 2
  SourceLens <- MCSourceLens
INVARIANT CleanReturnMeansNoRequestCut
