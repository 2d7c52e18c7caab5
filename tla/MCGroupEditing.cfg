CONSTANTS
    Group = {1, 2}
    Computer = {a, b}
    NoComputer = NoComputer
    MaxEntries = 3

SPECIFICATION Spec

INVARIANT TypeOK
INVARIANT TreeShowsEdited
INVARIANT NothingIsListed

\* A process that has ended does nothing more.
CHECK_DEADLOCK FALSE
