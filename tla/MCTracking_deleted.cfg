\* A parcel whose document was deleted.
CONSTANTS
    NoExt = NoExt
    Manager = Manager
    o1 = o1
    o2 = o2
    ExternalIds = {o1}
    Chats = {}
    Numbers = {1}
    Codes = {2}
    Mapped = {2}
    ByHand = {NoExt}
    TrackLimit = 1
    MaxAttempts = 1
    BatchLimit = 2
    MaxAborts = 0
    MaxRequeues = 0
    MaxLate = 0
SPECIFICATION Spec
PROPERTY FinalEndsPolling
