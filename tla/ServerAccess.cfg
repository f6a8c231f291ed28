SPECIFICATION Spec
CHECK_DEADLOCK FALSE
CONSTANTS
    \* One node, two requests and the sweeper; one heartbeat in a row may be missed.
    Nodes = {"n"}
    Handlers = {1, 2}
    Sweeper = 0
    Beat = 2
    Flush = 1
    MaxLost = 1
    StatusStale = 6
    PruneAge = 7
    \* One user, two proxied requests, three changes by administrators.
    ProxyUsers = {"u1"}
    ProxyReqs = {1, 2}
    ProxyTTL = 2
    MaxChanges = 3
    \* One address (buckets are independent) for twenty ticks, long enough to be forgotten.
    Visitors = {1}
    Rate = 1
    Burst = 3
    Interval = 2
    RateStale = 7
    RateMaxTime = 20
    \* One address and two GitHub accounts, which report it at some logins and not at others, and one login name, which both have had.
    Emails = {1}
    GitHub = {1, 2}
    Logins = {1}
    AccountReqs = {1, 2, 3}
INVARIANTS
    LiveNotStale
    RevokedWithinTTL
    RateKept
    SameAccount
PROPERTIES
    LiveComesOnline
    SilentGoesOffline
