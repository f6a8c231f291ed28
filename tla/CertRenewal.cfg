SPECIFICATION RenewalFairSpec
CONSTANTS
    Life = 3
    PollInterval = 1
    Attempt = 1
    MaxRetries = 2
    Backoff <- MCBackoff
    BackoffCap = 2
    Tolerance = 8
    MaxFails = 2
    Due <- MCDue
    Silence = 4
    Cooldown = 2
    MaxDisturbances = 2
INVARIANT PeersAccept
PROPERTY ExpiredRenewed
