SPECIFICATION FairApiSpec
CONSTANTS
    c1 = c1
    e1 = e1
    Cases = {c1}
    Edges = {e1}
    Tags = {"NONE"}
    Sources = {"s1"}
    TraceEdges <- MCTraceEdges
    StoredEdges = {e1}
    MaxActions = 2
    NoCase = NoCase
    NoPin = NoPin
    Threads = {t1, t2}
    NoThread = NoThread
    NoReply = NoReply
    NoDraft = NoDraft
INVARIANTS
    ApiTypeOK
    HypothesisOfSnapshot
    SingleFlight
PROPERTIES
    RequestsEnd
