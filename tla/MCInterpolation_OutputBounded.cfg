CONSTANTS
    MaxQueryStringLength = 1
    Queries <- MCQueries
    ArgLists <- MCArgLists3

SPECIFICATION Spec

INVARIANT OutputBounded
