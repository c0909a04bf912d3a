SPECIFICATION FormSpec
CONSTANTS
    Discovered <- MCDiscovered
    Files = {"tach.xml"}
    Typed <- MCTyped
    EditedFields <- MCEditedFields
    MaxEdits = 4
    HandWritten <- MCHandWritten
INVARIANTS
    OpenedAsShown
    OutputsAsShown
    NothingFallsBack
CHECK_DEADLOCK FALSE
