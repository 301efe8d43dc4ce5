SPECIFICATION FairSpec
CONSTANTS
  Requests <- MCRequests
  MaxRequests = 3
  RequestLen = 2
  Window = 2
  NodeOnly = TRUE
  MaxEmpty = 1
INVARIANTS LoopAligned OkAnswersInOrder AnsweredOnce
PROPERTIES AnswersCome AgentLeaves
