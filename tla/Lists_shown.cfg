SPECIFICATION FairSpec
CONSTANTS
    Contacts <- MCContacts
    Requests <- MCRequests
    Emojis <- MCEmojis
    ReadSize = 1
    ListLoads <- MCListLoads
    Newsletters <- MCNewsletters
    Polls <- MCPolls
    Changes <- MCChanges
    Starts <- MCStarts
    MaxChanges = 2
    Incoming <- MCIncoming
    Payloads <- MCPayloads
    Portraits <- MCPortraits
    Askers <- MCAskers
    MaxCuts = 2
INVARIANTS
    TypeOK
    
    ReactionAgrees
    StatusNewest
    CacheHonest
    MediaWhole
PROPERTIES
    ListSettles
    
CHECK_DEADLOCK FALSE
