SPECIFICATION Spec
CONSTANTS
    Threads = {t1, t2}
    Cases = {c1, c2}
    PromptSizes = {150}
    UsageCounts = {1, 400}
    LastMonth = 2
    MaxCalls = 2
    MaxInput = 350
    MaxOutput = 40
    MonthlyCap = 3
    MaxAttempts = 3
    MaxRestarts = 1
    NoRequest = NoRequest
SYMMETRY Symmetry
CHECK_DEADLOCK FALSE
INVARIANTS
    TypeOK
    CapsHold
    OneCallPerCase
    NextCallNeedsReport
    LedgerCoversBills
    ChargesBounded
    TokensValid
PROPERTIES
    SettledIsFinal
