\* A parcel added by hand for an order the bridge does not have.
CONSTANTS
    NoExt = NoExt
    Manager = Manager
    o1 = o1
    o2 = o2
    ExternalIds = {o1, o2}
    Chats = {}
    Numbers = {1}
    Codes = {7}
    Mapped = {7}
    ByHand = {o1}
    TrackLimit = 1
    MaxAttempts = 1
    BatchLimit = 2
    MaxAborts = 0
    MaxRequeues = 0
    MaxLate = 0
SPECIFICATION FairSpec
PROPERTY OrderSettles
