SPECIFICATION Spec
CONSTANTS
    First = First
    Second = Second
    Extension = Extension
    Accessors = {First, Second, Extension}
    NoOne = NoOne
    MaxVersion = 4
    Process <- MCProcess
    Fields <- MCFields
    Targets <- MCTargets
    Contents <- MCContents
INVARIANTS
    TypeOK
    OneWriter
    CacheRight
    ColumnsCurrent
    HasItsFields
PROPERTIES
    VersionNeverFalls
    MigratedOnce
SYMMETRY MCSymmetry
CHECK_DEADLOCK FALSE
