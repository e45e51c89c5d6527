SPECIFICATION Spec
CONSTANTS
    c1 = c1
    c2 = c2
    c3 = c3
    r1 = r1
    r2 = r2
    NoCaller = NoCaller
    Callers = {c1, c2, c3}
    Replicas = {r1, r2}
    Home <- TwoReplicaHome
    Skew <- TwoSkew
    Capped = {c1, c2, c3}
    Lease = 2
    Deadline = 1
INVARIANTS
    TypeOK
    OneRunPerReplica
    LeaseCoversRun
PROPERTIES
    TakeoverExcludesLive
