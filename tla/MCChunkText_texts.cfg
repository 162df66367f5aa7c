\* Every text of up to six characters, cut into chunks of two sizes, with
\* overlaps from none to more than a chunk.
CONSTANTS
    RawTexts <- Texts
    MaxLen = 6
    Sizes = {2, 4}
    Overlaps = {0, 1, 2, 4, 5}
    Seps <- Separators
SPECIFICATION FairSpec
INVARIANTS
    AllCovered
    Sized
    OnlyTheTailRepeats
PROPERTIES
    Terminates
CHECK_DEADLOCK FALSE
