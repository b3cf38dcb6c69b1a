\* Three callbacks: two to be called, and one that comes and goes meanwhile.
SPECIFICATION Spec
CONSTANTS
    Main = Main
    Other = Other
    Worker = Worker
    Accessors = {Main, Other, Worker}
    NoOne = NoOne
    MaxVersion = 2
    Contents = {TRUE, FALSE}
    MaxTokens = 3
    Calls = {}
PROPERTY
    PackagedAreCalled
CHECK_DEADLOCK FALSE
