CONSTANTS
    s1 = s1
    s2 = s2
    s3 = s3
    Sessions <- MCSessions3
    TTL = 2
    MaxTime = 4
    MaxQueries = 1
    TransientErrors = TRUE

SPECIFICATION Spec

INVARIANT TypeOK

PROPERTY ImplementsLookup
