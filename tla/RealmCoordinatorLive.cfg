\* Two callbacks and the calls every program makes, under fairness.
SPECIFICATION FairSpec
CONSTANTS
    Main = Main
    Other = Other
    Worker = Worker
    Accessors = {Main, Other, Worker}
    NoOne = NoOne
    MaxVersion = 2
    Contents = {TRUE, FALSE}
    MaxTokens = 2
    Calls = {"die"}
INVARIANTS
    EveryChangeOnce
    AssertionsHold
PROPERTIES
    WaitEnds
    CallbacksCatchUp
CHECK_DEADLOCK FALSE
