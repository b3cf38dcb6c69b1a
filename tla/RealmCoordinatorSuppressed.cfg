\* One callback, and commits it is not to be told of.
SPECIFICATION Spec
CONSTANTS
    Main = Main
    Other = Other
    Worker = Worker
    Accessors = {Main, Other, Worker}
    NoOne = NoOne
    MaxVersion = 2
    Contents = {TRUE, FALSE}
    MaxTokens = 1
    Calls = {"suppress"}
INVARIANT
    SuppressedNotTold
CHECK_DEADLOCK FALSE
