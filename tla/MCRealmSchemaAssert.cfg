SPECIFICATION Spec
CONSTANTS
    First = First
    Second = Second
    Extension = Extension
    Accessors = {First, Second, Extension}
    NoOne = NoOne
    MaxVersion = 3
    Process <- MCProcess
    Fields <- MCFields
    Targets <- MCTargets
    Contents <- MCContents
INVARIANTS
    ReportsKnown
CHECK_DEADLOCK FALSE
