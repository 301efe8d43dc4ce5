SPECIFICATION Spec
CONSTANTS
    Agents <- MCAgents
    Peers <- MCPeers
INVARIANTS
    DeniesExactly
    EitherOverrideServes
    AnswerFits
    CodeNamesService
