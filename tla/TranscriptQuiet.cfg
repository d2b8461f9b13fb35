\* One session whose user waits for each receipt before the next message, with
\* hooks that come late and one crash.
CONSTANTS
    s1 = s1
    Session = {s1}
    MaxLoggers = 2
    MaxRuns = 2
    MaxTokens = 2
    MaxEvents = 6
    MaxTools = 2
    MaxClock = 2
    Lookback = 1
    Slack = 0
    MaxCrashes = 1
    MaxRetries = 0
    Quirks <- Untidy
SPECIFICATION Spec
INVARIANT TranscriptOnce
PROPERTY TranscriptComplete
CHECK_DEADLOCK FALSE
