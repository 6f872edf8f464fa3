SPECIFICATION Spec
CONSTANTS
    c1 = c1
    c2 = c2
    e1 = e1
    e2 = e2
    e3 = e3
    Cases = {c1, c2}
    Edges = {e1, e2, e3}
    Tags = {"NONE", "SMURFING"}
    Sources = {"s1"}
    TraceEdges <- MCTraceEdges
    StoredEdges = {e1, e2}
    MaxActions = 3
    NoCase = NoCase
    NoPin = NoPin
INVARIANTS
    PinnedIsEvidence
    SnapshotsResolve
    AuditChain
    PinsMatchAudit
    SnapshotsNeverRecur
PROPERTIES
    ImplementsPinChain
