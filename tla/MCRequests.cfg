CONSTANTS
    Atom <- MCAtom
    Requests <- MCRequestTexts
    Semicolons <- MCSemicolons
    Delimiter <- MCDelimiter
    Overreads <- MCOverreads
    Space = 26
    Special <- MCSpecial
    Value <- MCValue
    Uploads <- MCUploads

SPECIFICATION FairSpec

INVARIANT PlainRequestsAreWhole
INVARIANT PlainRequestsAreCarriedOut
INVARIANT OnlyTheLastIsDamaged
PROPERTY RequestEnds

\* The connection is over in the end.
CHECK_DEADLOCK FALSE
