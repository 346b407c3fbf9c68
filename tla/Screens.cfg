SPECIFICATION ScreensSpec
CONSTANTS
    Commands = 2
    Rows = 2
    Cols = 2
    Tab = 2
    LabelMax = 4
    RingSize = 2
    Chars <- MCChars
    Test <- MCTest
    MaxPuts = 4
    MaxPictures = 1
    DisplayWidth = 800
    DisplayHeight = 480
    Width <- MCWidth
    Height <- MCHeight
    TaskIds = {0, 1, 2}
    ButtonId = 4
    MaxPresses = 8
    Columns = 3
    Lines = 2
    Colors <- MCColors
    Regions <- MCRegions
    Stripes <- MCStripes
    Bands <- MCBands
    Bars <- MCBars
INVARIANTS
    ScreenRight
PROPERTIES
    LitWhenWhole
    ScreenCatchesUp
CHECK_DEADLOCK FALSE
