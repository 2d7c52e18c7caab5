CONSTANTS
    c1 = c1
    c2 = c2
    d1 = d1
    d2 = d2
    d3 = d3
    Thread = {t1, t2}
    Conn = {c1, c2}
    NoConn = NoConn
    Computer = {d1, d2, d3}
    Computers <- MCComputers
    Unresolvable = {d3}
    Hung = {d2}
    MaxErrors = 1

SPECIFICATION FairSpec

INVARIANT AcceptChain
INVARIANT OneHandlerPerConnection
INVARIANT StopCutsNoRequestShort
PROPERTY EveryRequestServed
PROPERTY StopEndsServer
PROPERTY HungDisplaysTakeThePool
PROPERTY OneBadNameEndsServer

\* A server that was stopped, or has ended, does nothing more.
CHECK_DEADLOCK FALSE
