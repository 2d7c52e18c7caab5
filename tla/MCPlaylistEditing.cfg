CONSTANTS
    Text = {0, 1, 2, 3}
    TypedNames = {0, 1}
    BrowsedFiles = {2, 3}
    MaxEntries = 2

SPECIFICATION Spec

INVARIANT TypeOK
INVARIANT DialogsEditMain
INVARIANT OriginalIsOwned
INVARIANT RowsExist
INVARIANT PauseHasItem
PROPERTY FilesVanishOnlyByRemoval

\* A process that has ended does nothing more.
CHECK_DEADLOCK FALSE
