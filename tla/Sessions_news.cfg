SPECIFICATION Spec
CONSTANTS
    Channels = {a, b}
    Publishers <- MCPublishers
    Capacity = 1
    Logouts = TRUE
SYMMETRY Connections
INVARIANTS
    TypeOK
    LastWord
    StatusHonest
    NeverBlocked
