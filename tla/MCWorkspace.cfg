SPECIFICATION Spec
CONSTANTS
    Edges = {e1}
    MaxRevision = 4
    MaxRefreshes = 2
    None = None
CHECK_DEADLOCK FALSE
INVARIANTS
    PinsOfCaseShown
PROPERTIES
    OnlyOverlapGoesBack
    ConflictMovesOn
    ControlsComeBack
