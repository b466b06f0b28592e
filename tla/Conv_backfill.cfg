SPECIFICATION FairSpec
CONSTANTS
    Ids <- MCThread
    Own <- MCJustM4
    Sent <- MCNone
    SentAt <- MCThreadAt
    Skews <- MCExact
    ReceiptTypes <- MCNone
    MaxMessages = 4
    PageSize = 1
PROPERTY
    WalkedBack
