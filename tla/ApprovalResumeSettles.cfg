SPECIFICATION FairSpec
CONSTANTS
    j1 = j1
    j2 = j2
    h1 = h1
    h2 = h2
    NoCaller = NoCaller
    NoHandler = NoHandler
    JavaCallers = {j1}
    Handlers = {h1, h2}
    MaxAttempts = 2
    Scenarios <- MCScenarios
PROPERTIES
    DecisionIsSettled
CHECK_DEADLOCK FALSE
