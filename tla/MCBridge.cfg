\* An order of the shop with the id of a lead, two calls of one caller, a parcel.
CONSTANTS
    NoExt = NoExt
    Manager = Manager
    c1 = c1
    c2 = c2
    ShopIds <- LeadIdOfC1
    Chats <- LeadIdOfC1
    CallIds = {c1, c2}
    ExternalIds <- LeadIds
    Caller <- OneCaller
    Window = 0
    MaxTime = 0
    Numbers = {1}
    Codes = {7}
    Mapped = {7}
    ByHand <- LeadIdOfC1
    TrackLimit = 1
    MaxAttempts = 1
    BatchLimit = 3
    MaxAborts = 0
    MaxRequeues = 0
    MaxLate = 0
SPECIFICATION Spec
INVARIANTS
    EachHasItsOwnJob
    EachAtItsOwnDeal
    MessagesArrive
