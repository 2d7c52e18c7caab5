CONSTANTS
    c1 = c1
    c2 = c2
    f1 = f1
    f2 = f2
    f3 = f3
    f4 = f4
    Conn = {c1, c2}
    NoConn = NoConn
    Chunks = 4
    Isolated = FALSE
    File = {f1, f2, f3, f4}
    Unwritable = {}
    Messages = {}
    OpenStates = {"Opening"}
    MaxEntries = 0
    Payload <- MCPairs
    Special = {}

SPECIFICATION DisplayFairSpec

INVARIANT InOrderAtMostOnce
INVARIANT LossMeansSuperseded
INVARIANT NoItemTwice
PROPERTY ClosedIsAnnounced

\* Nothing may ever be uploaded.
CHECK_DEADLOCK FALSE
