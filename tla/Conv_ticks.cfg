SPECIFICATION Spec
CONSTANTS
    Ids <- MCTwo
    Own <- MCJustS
    Sent <- MCJustS
    SentAt <- MCTwoAt
    Skews <- MCExact
    ReceiptTypes <- MCAllReceipts
    MaxMessages = 2
    PageSize = 1
INVARIANTS
    TicksShown
