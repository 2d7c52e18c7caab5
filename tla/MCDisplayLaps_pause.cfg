CONSTANTS
    f1 = f1
    f2 = f2
    f3 = f3
    File = {f1, f2, f3}
    Unwritable = {}
    Messages <- MCMessages
    OpenStates = {"Opening"}
    MaxEntries = 3
    MaxLaps = 2

SPECIFICATION LapsSpec

PROPERTY PauseHonoured

\* The bound on laps ends the run.
CHECK_DEADLOCK FALSE
