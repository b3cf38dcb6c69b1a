SPECIFICATION Spec
CONSTANTS
    Kinds = {"list", "query", "sorted", "linked"}
    MaxStart = 3
    MaxRows = 4
    MaxOps <- MCMaxOps
    Huge = 12
INVARIANTS
    TypeOK
    LogChangesRight
    MergedChangesRight
    IndexSetsRight
    DiffRight
CHECK_DEADLOCK FALSE
