SPECIFICATION FairSpec
CONSTANTS
  Requests <- MCRequests
  MaxRequests = 3
  Window = 1
  Pipelined = TRUE
INVARIANTS DeniedNeverServed AnswersMatch OkMeansServed
PROPERTIES CallsEnd RemoteCalls
