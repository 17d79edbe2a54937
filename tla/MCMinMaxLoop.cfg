CONSTANTS
    Devices = {d1, d2}
    Keys = {1, 2}
SPECIFICATION FairSpec
INVARIANTS EventAvailable NothingLeft
PROPERTY Terminates
