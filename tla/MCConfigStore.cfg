CONSTANTS
    Infinite = 1000
    MaxDepth = 6
    Documents <- MCDocuments
    Names = {"", "GT3"}
    GivenValues <- MCGivenValues
    EditedKey = "frequency"
    MaxDevices = 1
    MaxEdits = 1
SPECIFICATION StoreSpec
INVARIANTS FileIsWhole SettingsKept
CHECK_DEADLOCK FALSE
