SPECIFICATION FairSpec
CONSTANTS
    Copied <- MCCopied
    Shared <- MCShared
    Flushers <- Callers
    WriteFaults = TRUE
    MaxVersion = 1
INVARIANTS
    TypeOK
    
    CleanMeansCaptured
    QuietMeansDurable

    
