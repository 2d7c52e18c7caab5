CONSTANTS
    CharsPerLine = 8
    Files <- MCFiles
    Buffersizes = {4, 5}
    Capacities = {1, 4, 40}

SPECIFICATION Spec

INVARIANT FileArrives
INVARIANT WithinBuffers

\* A file has been stored in the end.
CHECK_DEADLOCK FALSE
