CONSTANTS
    StmtTypes <- MCStmtTypes
    TimeoutLimit <- MCTimeoutLimit
    MaxElapsed <- MCMaxElapsed

SPECIFICATION Spec

INVARIANT TypeOK
INVARIANT PollBounded
INVARIANT OutcomeMatchesExecution

PROPERTY QueryContextReturns
PROPERTY CancelInWaitStops
