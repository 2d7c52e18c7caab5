CONSTANTS
    f1 = f1
    f2 = f2
    f3 = f3
    File = {f1, f2, f3}
    Unwritable = {f3}
    Messages <- MCMessagesBad
    OpenStates = {"Opening"}
    MaxEntries = 4
    MaxLaps = 3

SPECIFICATION LapsSpec

INVARIANT OncePerLap
INVARIANT NothingCutShort

\* The bound on laps, a malformed pause or a missing file ends the run.
CHECK_DEADLOCK FALSE
