SPECIFICATION FairSpec
CONSTANTS
    Slots <- MCSlots
    Requests <- MCRequests
    Phones <- MCPhones
    MaxWaiting = 1
    MaxRequests = 2
    MaxDrops = 1
INVARIANTS
    TypeOK
    OneStream
PROPERTIES
    LiveStreamKept
    CodeComesBack
CHECK_DEADLOCK FALSE
