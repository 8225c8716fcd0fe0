SPECIFICATION LiveSpec
CONSTANTS
    Locks = {l1, l2, l3}
    Tasks = {t1, t2}
    NoTask = NoTask
INVARIANTS
    MutualExclusion
    GrantAccounted
    GrantAnnounced
PROPERTIES
    FifoByFirstPoll
    PendingEnds
