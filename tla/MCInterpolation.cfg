CONSTANTS
    MaxQueryStringLength = 4
    Queries <- MCQueries
    ArgLists <- MCArgLists

SPECIFICATION Spec

INVARIANT TypeOK
INVARIANT StatementAsSpecified
