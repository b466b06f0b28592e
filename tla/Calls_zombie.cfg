SPECIFICATION FairSpec
CONSTANTS
    Outgoing <- MCOutgoing
    Incoming <- MCIncoming
    MaxCalls = 2
PROPERTY
    EndedCallsLeave
CHECK_DEADLOCK FALSE
