SPECIFICATION Spec
CONSTANTS
    Channels = {a}
    Publishers <- MCPublishers
    Capacity = 3
    Logouts = FALSE
INVARIANT
    InTouch
