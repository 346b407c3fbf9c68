SPECIFICATION Spec
CONSTANTS
    NoFile = NoFile
    LineSize = 5
    MaxLines = 3
    TacBytes = 5
    OdRow = 4
    PasteMax = 3
    XargsMax = 4
    EditSize = 5
    Vars <- MCVars
    Alphabet <- MCAlphabet
    MaxLen <- MCMaxLen
INVARIANTS
    ToolsRight
    ShellLineRight
    GameRight
CHECK_DEADLOCK FALSE
