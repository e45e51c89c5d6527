SPECIFICATION FairSpec
CONSTANTS
    c1 = c1
    c2 = c2
    c3 = c3
    r1 = r1
    r2 = r2
    NoCaller = NoCaller
    Callers = {c1, c2}
    Replicas = {r1}
    Home <- OneReplicaHome
    Skew <- OneSkew
    Capped = {c1}
    Lease = 2
    Deadline = 1
PROPERTIES
    BeliefIsRevised
