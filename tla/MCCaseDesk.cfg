SPECIFICATION DeskSpec
CONSTANTS
    c1 = c1
    e1 = e1
    Cases = {c1}
    Edges = {e1}
    Tags = {tag}
    Sources = {s1}
    TraceEdges <- MCTraceEdges
    StoredEdges = {e1}
    MaxActions = 1
    NoCase = NoCase
    NoPin = NoPin
    Clients = {t1, t2}
    Analysts = {a1}
    Dispositions = {confirm, dismiss}
    EventIds = {}
    Fixtures <- MCFixtures
    Omitted = Omitted
    MaxTime = 1
    MaxAnswers = 2
    NoEvent = NoEvent
    NoCall = NoCall
SYMMETRY Symmetry
CHECK_DEADLOCK FALSE
INVARIANTS
    DeskTypeOK
    AcceptedIsStored
    CompleteRetry
PROPERTIES
    OnlyPinsMove
