SPECIFICATION MCSpec
CONSTANTS
    \* sync
    Interval = 3
    RetryBase = 1
    RetryMax = 4
    MaxStreak = 4
    \* tokens
    Tokens = {t1}
    Admins = {a1, a2}
    Ticker = ticker
    MaxTokenFaults = 2
    \* hooks and rules
    Hooks = {k1, k2}
    Capacity = 1
    MaxAttempts = 2
    RuleIds = {1, 2}
    Offers <- MCOffers
    Jobs = {j1}
    MaxEdits = 1
    \* agent
    MaxScans = 3
    NSections = 2
    SpoolMax = 2
    Outages = 3
    \* analyses
    Findings = {f1}
    Worker = w1
    Clients = {c1}
INVARIANT SentMeansReceived
PROPERTIES  TokensConverge RevokedStaysOut NotifyingEnds SpoolEmpties AnalysesCatchUp
CHECK_DEADLOCK FALSE
