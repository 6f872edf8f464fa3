SPECIFICATION EvalSpec
CONSTANTS
    Items = {1, 2, 3, 4}
    Limit = 2
    Citations = {{1}, {2, 3}, {4}, {5}}
    MaxClaims = 2
    Cases <- MCCases
    Corpora <- MCCorpora
    Stores <- MCStores
    NoCase = NoCase
    NoItem = NoItem
CHECK_DEADLOCK FALSE
INVARIANTS
    ClaimsAreGrounded
    AttentionOnlyAdds
    MetricsAreClean
