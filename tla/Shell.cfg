SPECIFICATION Spec
CONSTANTS
    Names <- MCNames
    Space = 10
    MaxLines = 2
    MaxFds = 1
    Variables <- MCVariables
    MaxEnv = 4
    EnvSize = 9
    MaxTokens = 12
    ReadOnly <- MCReadOnly
    Lines <- MCLines
    Typed <- MCTyped
    Keys <- MCKeys
    Edited <- MCEdited
    Budgets <- MCBudgets
PROPERTIES FilesRight LoopsRight EnvRight EditorRight
CHECK_DEADLOCK FALSE
