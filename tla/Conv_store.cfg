SPECIFICATION Spec
CONSTANTS
    Ids <- MCTied
    Own <- MCM3AndS
    Sent <- MCJustS
    SentAt <- MCTiedAt
    Skews <- MCEarly
    ReceiptTypes <- MCReceipts
    MaxMessages = 2
    PageSize = 1
INVARIANTS
    TypeOK
    Chronological
    ReadMeansRead
PROPERTY
    KeepsThread
