CONSTANTS
    Endpoints = 3
    Chunks = 3

SPECIFICATION FairSpec

INVARIANT OnlyFirstEndpointIsServed
INVARIANT WholeIfFirstAccepts
INVARIANT ShutdownOnce
PROPERTY UploadReturns

\* An upload ends.
CHECK_DEADLOCK FALSE
