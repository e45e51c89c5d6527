SPECIFICATION Spec
CONSTANTS
    j1 = j1
    j2 = j2
    h1 = h1
    h2 = h2
    NoCaller = NoCaller
    NoHandler = NoHandler
    JavaCallers = {j1, j2}
    Handlers = {h1, h2}
    MaxAttempts = 2
    Scenarios <- MCScenarios
SYMMETRY MCSymmetry
INVARIANTS
    TypeOK
    RunFollowsDecision
    SuccessIsApplied
    ClaimExclusive
PROPERTIES
    DecisionStands
CHECK_DEADLOCK FALSE
