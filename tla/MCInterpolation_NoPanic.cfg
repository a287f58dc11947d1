CONSTANTS
    MaxQueryStringLength = 4
    Queries <- MCQueries
    ArgLists <- MCArgLists

SPECIFICATION Spec

INVARIANT NoPanic
