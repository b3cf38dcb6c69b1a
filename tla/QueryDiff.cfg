SPECIFICATION Spec
CONSTANTS
    Kinds = {"query"}
    MaxStart = 3
    MaxRows = 5
    MaxOps <- MCMaxOpsQuery
    Huge = 12
INVARIANTS
    QueryDiffRight
CHECK_DEADLOCK FALSE
