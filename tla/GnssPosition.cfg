SPECIFICATION Spec
CONSTANTS
    FixValues <- MC_Values
    MaxFixes = 3
    MaxRefusals = 2
    MaxPending = 1
    PositionSettings <- MC_Settings
    MaxEdits = 1
INVARIANTS
    TypeOK
    LteOffOnlyForFix
    RecordIsItsWindow
CHECK_DEADLOCK FALSE
