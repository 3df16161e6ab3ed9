\* Two calls of one caller and a parcel, one fault of each kind.
CONSTANTS
    NoExt = NoExt
    Manager = Manager
    c1 = c1
    c2 = c2
    ShopIds = {}
    Chats = {}
    CallIds = {c1, c2}
    ExternalIds <- LeadIds
    Caller <- OneCaller
    Window = 0
    MaxTime = 0
    Numbers = {1}
    Codes = {7}
    Mapped = {7}
    ByHand = {NoExt}
    TrackLimit = 1
    MaxAttempts = 1
    BatchLimit = 3
    MaxAborts = 1
    MaxRequeues = 1
    MaxLate = 1
SPECIFICATION Spec
INVARIANT
    NotesArrive
