SPECIFICATION Spec
CHECK_DEADLOCK FALSE
CONSTANTS
    \* Two forwards in two networks, one client.
    Networks = {1, 2}
    Fwds = {1, 2}
    Clients = {1}
    \* Two dashboards, two events, channels for one event.
    Conns = {1, 2}
    Publishers = {1, 2}
    ChanCap = 1
    \* Four entries, a channel for three, batches of two, one failing transaction.
    Entries = {1, 2, 3, 4}
    BufCap = 3
    FlushSize = 2
    MaxFails = 1
    \* Two users, two invitations, two requests to accept one of them.
    MemberUsers = {"u1", "u2"}
    Invites = {1, 2}
    Tabs = {1, 2}
    MaxUses = 1
INVARIANTS
    ListenerOwned
    Accounted
    LimitKept
PROPERTIES
    StopsReturn
    Delivered
    EventuallyWritten
