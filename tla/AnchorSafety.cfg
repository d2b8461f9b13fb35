\* Consecutive runs of one session, crashes, failing disks and a recovering operator.
CONSTANTS
    s1 = s1
    Session = {s1}
    MaxLoggers = 2
    MaxRuns = 2
    MaxTokens = 3
    MaxEvents = 2
    MaxTools = 1
    MaxClock = 0
    Lookback = 2
    Slack = 0
    MaxCrashes = 1
    MaxRetries = 1
    Quirks <- Anything
SPECIFICATION Spec
INVARIANTS
    TypeOK
    KeyOpensReceipt
    KeyOutlivesCiphertext
    NothingDropped
    CapturedOnce
PROPERTY StoredLogFrozen
CHECK_DEADLOCK FALSE
