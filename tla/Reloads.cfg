SPECIFICATION FairSpec
CONSTANTS
    p1 = p1
    p2 = p2
    l1 = l1
    Nothing = Nothing
    Process <- MCProcesses
    Table <- MCTables
    Lock <- MCLocks
    Dialplan = "dialplan"
    Change <- MCChanges
    Sent <- MCSent
    Holders <- MCHolders
    Channel <- MCChannels
    ChannelOf <- MCChannelOf
    Retried = "RpcCallRetryOnError"
    Swallowing <- MCSwallowing
    MaxChanges = 2
    MaxFaults = 2
INVARIANTS
    TypeOK
    StaleIsOwed
    HintFollowsLock
PROPERTIES
    ServersCatchUp
CHECK_DEADLOCK FALSE
