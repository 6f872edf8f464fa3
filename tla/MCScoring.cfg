SPECIFICATION Spec
CONSTANTS
    Accounts = {a, b, c}
    Events = {1, 2, 3}
    Streams <- MCStreams
    MaxTime = 2
SYMMETRY Symmetry
INVARIANTS
    ExactParity
