SPECIFICATION Spec
CONSTANTS
    a = a
    b = b
    c = c
    d = d
    Nodes = {a, b, c, d}
    Seed = a
    Edges = {1, 2, 3, 4, 5}
    Trace = {1, 2, 3, 4}
    Time <- MCTime
    NoTime = NoTime
    Graphs <- MCGraphs
    MaxHops = 2
    Cap = 3
    MaxPins = 1
    NoView = NoView
    NoRequest = NoRequest
SYMMETRY Symmetry
INVARIANTS
    HonestAnswers
    Discoverable
    TraceFollowsHops
