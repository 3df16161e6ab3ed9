\* Two stages of one parcel, a retry between them.
CONSTANTS
    NoExt = NoExt
    Manager = Manager
    o1 = o1
    o2 = o2
    ExternalIds = {o1}
    Chats = {}
    Numbers = {1}
    Codes = {7, 9}
    Mapped = {7, 9}
    ByHand = {NoExt}
    TrackLimit = 1
    MaxAttempts = 2
    BatchLimit = 2
    MaxAborts = 0
    MaxRequeues = 0
    MaxLate = 0
SPECIFICATION Spec
PROPERTY DealNeverGoesBack
