CONSTANTS
    Group = {1, 2}
    Computer = {a, b}
    NoComputer = NoComputer
    MaxEntries = 2

SPECIFICATION Spec

PROPERTY GroupsReachMain

\* A process that has ended does nothing more.
CHECK_DEADLOCK FALSE
