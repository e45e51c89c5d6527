SPECIFICATION Spec
CONSTANTS
    c1 = c1
    c2 = c2
    r1 = r1
    NoCaller = NoCaller
    NoRequest = NoRequest
    Callers = {c1, c2}
    Replicas = {r1}
    Home <- MCHome
    Skew <- MCSkew
    Capped = {c1, c2}
    Lease = 2
    Deadline = 1
    q1 = q1
    q2 = q2
    Requests = {q1, q2}
    Retention = 1
    ServerMax = 1
    Scenarios <- MCLostReplies
SYMMETRY MCSymmetry
INVARIANTS
    FailureIsKnown
