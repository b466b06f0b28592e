SPECIFICATION Spec
CONSTANTS
    Copied <- MCCopied
    Shared <- MCShared
    Flushers <- MCTickerOnly
    WriteFaults = FALSE
    MaxVersion = 2
INVARIANT FlushedSurvives
