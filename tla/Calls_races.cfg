SPECIFICATION FairSpec
CONSTANTS
    Outgoing <- MCOutgoing
    Incoming <- MCIncoming
    MaxCalls = 1
INVARIANTS
    TypeOK
    OneVerdict
    MissedMeansUnanswered
PROPERTIES
    NoticedEndsLeave
    KeepsBook
CHECK_DEADLOCK FALSE
