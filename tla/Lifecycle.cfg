CONSTANTS
    NumButtons = 1
    Unary = {u}
    Events = {e}
    Nothing = Nothing
    MaxQueue = 0
SPECIFICATION FairSpec
INVARIANTS
    EndsAllOff
    NothingDangles
PROPERTIES
    KeepsExecutorContract
    SignalEndsDaemon
