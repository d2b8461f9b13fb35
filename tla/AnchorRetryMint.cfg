CONSTANTS
    s1 = s1
    Session = {s1}
    MaxLoggers = 1
    MaxRuns = 1
    MaxTokens = 2
    MaxEvents = 2
    MaxTools = 0
    MaxClock = 0
    Lookback = 2
    Slack = 0
    MaxCrashes = 0
    MaxRetries = 1
    Quirks <- Patient
SPECIFICATION Spec
INVARIANT RetryMintsSameToken
CHECK_DEADLOCK FALSE
