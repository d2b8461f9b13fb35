\* Two sessions, no recovery by hand; fair network callbacks.
CONSTANTS
    s1 = s1
    s2 = s2
    Session = {s1, s2}
    MaxLoggers = 2
    MaxRuns = 2
    MaxTokens = 2
    MaxEvents = 2
    MaxTools = 0
    MaxClock = 0
    Lookback = 2
    Slack = 0
    MaxCrashes = 1
    MaxRetries = 0
    Quirks <- Faulty
SPECIFICATION FairSpec
INVARIANT OneReceiptPerLog
PROPERTIES
    ImplementsReceipts
    WaitsOnlyForChain
CHECK_DEADLOCK FALSE
