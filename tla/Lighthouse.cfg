SPECIFICATION FairSpec
CONSTANTS
    Networks = {n1, n2}
    Handlers = {h1, h2}
    Reaper = reaper
    BasePort = 1
    MaxPort = 1
INVARIANT NoLeakedLighthouse
PROPERTIES SentinelResolved DeletedEventuallyStopped
