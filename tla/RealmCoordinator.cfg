SPECIFICATION Spec
CONSTANTS
    Main = Main
    Other = Other
    Worker = Worker
    Accessors = {Main, Other, Worker}
    NoOne = NoOne
    MaxVersion = 3
    Contents = {TRUE, FALSE}
    MaxTokens = 1
    Calls = {"use", "destroy", "refresh", "invalidate", "suppress"}
INVARIANTS
    TypeOK
    EveryChangeOnce
    CallbackSeesItsVersion
    AssertionsHold
PROPERTIES
    NoReaderGoesBack
    OthersNeverSkipped
CHECK_DEADLOCK FALSE
