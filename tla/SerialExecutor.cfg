CONSTANTS
    Clients = {c1, c2}
    Worker = worker
    Tasks = {t1, t2, t3}
    None = None
SPECIFICATION FairSpec
INVARIANTS
    Accounting
    NoLostWakeup
    QueueOrder
PROPERTIES
    ImplementsQueue
    ServesQueue
    EveryCallCompletes
