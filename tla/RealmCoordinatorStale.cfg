\* Commits that change the table, and callbacks added and removed meanwhile.
SPECIFICATION Spec
CONSTANTS
    Main = Main
    Other = Other
    Worker = Worker
    Accessors = {Main, Other, Worker}
    NoOne = NoOne
    MaxVersion = 3
    Contents = {TRUE, FALSE}
    MaxTokens = 1
    Calls = {}
INVARIANT
    StaleFlagOnlyCostsWork
CHECK_DEADLOCK FALSE
