SPECIFICATION Spec
CHECK_DEADLOCK FALSE
CONSTANTS
    \* The loop and a forced renewal, two disturbances.
    Loop = "loop"
    Forced = {"f1"}
    MaxSerial = 6
    FilesMaxReloads = 1
    FilesMaxFaults = 2
    \* Three interruptions of the move of an old layout or of a bundle.
    LegacyMaxFaults = 3
    \* Two enrollments, two failures or kills.
    Enrollments = {1, 2}
    MoveMaxFaults = 2
    \* Two releases, two failures or kills.
    Systems = {"linux", "darwin", "windows"}
    MaxVersion = 2
    InstallMaxFaults = 2
    \* Six probes: four round-trip times around the thresholds, and timeouts.
    Rtts = {0, 8, 15, 40}
    MaxProbes = 6
    \* One peer that moves twice, two starts of the agent, three hours.
    Peers = {"p"}
    Self = "self"
    TTL = 1
    PeersMaxMoves = 2
    MaxTime = 3
    MaxStarts = 2
    \* Two machines of one network, two copies, three announcements.
    Machines = {1, 2}
    NetsOf <- MCNetsOf
    ClipTTL = 1
    MaxCopies = 2
    MaxClips = 3
    ClipMaxTime = 3
INVARIANTS
    AloneWritesPair
    RegisteredIsComplete
    RegistryFindsDirs
    ABinaryRemains
    AlarmIsReal
    OnlySameSecondMissed
PROPERTIES
    MeshRecovers
    InjectedIsRecent
