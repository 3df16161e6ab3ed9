\* Three parcels, one per request; no orders and no status jobs.
CONSTANTS
    NoExt = NoExt
    Manager = Manager
    o1 = o1
    o2 = o2
    ExternalIds = {}
    Chats = {}
    Numbers = {1, 2, 3}
    Codes = {9}
    Mapped = {}
    ByHand = {NoExt}
    TrackLimit = 1
    MaxAttempts = 1
    BatchLimit = 1
    MaxAborts = 0
    MaxRequeues = 0
    MaxLate = 0
SPECIFICATION TurnSpec
PROPERTY EveryParcelHasItsTurn
