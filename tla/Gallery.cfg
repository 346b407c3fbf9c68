SPECIFICATION FairSpec
CONSTANTS
    Uploads <- MCUploads
    Pieces = 2
    AtOnce = 1
    MaxPresses = 1
    MaxCycles = 1
    MaxFailed = 1
    None = None
INVARIANTS
    WholePictures
    CountedExist
    UndisturbedKept
PROPERTIES
    PicturesKept
    FiledIsDrawn
CHECK_DEADLOCK FALSE
