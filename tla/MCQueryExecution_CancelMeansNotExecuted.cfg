CONSTANTS
    StmtTypes <- MCStmtTypes
    TimeoutLimit <- MCTimeoutLimit
    MaxElapsed <- MCMaxElapsed

SPECIFICATION Spec

INVARIANT CancelMeansNotExecuted
