\* Two calls of one caller and a parcel, one job per round.
CONSTANTS
    NoExt = NoExt
    Manager = Manager
    c1 = c1
    c2 = c2
    ShopIds = {}
    Chats = {}
    CallIds = {c1, c2}
    ExternalIds <- LeadIds
    Caller <- OneCaller
    Window = 0
    MaxTime = 0
    Numbers = {1}
    Codes = {7}
    Mapped = {7}
    ByHand = {NoExt}
    TrackLimit = 1
    MaxAttempts = 2
    BatchLimit = 1
    MaxAborts = 0
    MaxRequeues = 0
    MaxLate = 0
SPECIFICATION FairSpec
PROPERTIES
    LedgerSpec
    EverythingSettles
