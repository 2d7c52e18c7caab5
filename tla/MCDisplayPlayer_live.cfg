CONSTANTS
    f1 = f1
    f2 = f2
    f3 = f3
    File = {f1, f2, f3}
    Unwritable = {f3}
    Messages <- MCMessagesBad
    OpenStates = {"Idle", "Opening"}
    MaxEntries = 5

SPECIFICATION PlayerFairSpec

PROPERTY EveryEntryIsOpened
PROPERTY OneBadFileStopsDisplay

\* A malformed pause or a missing file stops playback for good.
CHECK_DEADLOCK FALSE
