CONSTANTS
    Word = 8
    Initial = 2
    MaxEmit = 2
SPECIFICATION FairSpec
INVARIANTS
    Accounting
    DeliveredInOrder
    OneWriteAtATime
    QuietWhenDeleted
PROPERTIES
    PassesWaitForCause
    EndedStreamIsDeleted
    EventsAreWritten
