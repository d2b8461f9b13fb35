\* A second message arrives while the run of the first is under way.
CONSTANTS
    s1 = s1
    Session = {s1}
    MaxLoggers = 2
    MaxRuns = 2
    MaxTokens = 2
    MaxEvents = 6
    MaxTools = 2
    MaxClock = 2
    Lookback = 2
    Slack = 0
    MaxCrashes = 0
    MaxRetries = 0
    Quirks <- Impatient
SPECIFICATION Spec
PROPERTY TranscriptComplete
CHECK_DEADLOCK FALSE
