SPECIFICATION Spec
CONSTANTS
    Threads = {t1, t2}
    Cases = {c1, c2}
    PromptSizes = {300}
    UsageCounts = {1}
    LastMonth = 1
    MaxCalls = 2
    MaxInput = 400
    MaxOutput = 100
    MonthlyCap = 5
    MaxAttempts = 2
    MaxRestarts = 0
    NoRequest = NoRequest
CHECK_DEADLOCK FALSE
INVARIANTS
    DispatchedHasOwner
