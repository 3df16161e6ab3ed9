\* Two orders with a chat each, one parcel, one attempt per job, an abort.
CONSTANTS
    NoExt = NoExt
    Manager = Manager
    o1 = o1
    o2 = o2
    ExternalIds = {o1, o2}
    Chats = {o1, o2}
    Numbers = {1}
    Codes = {4, 101, 9, 102}
    Mapped = {101, 9}
    ByHand = {NoExt}
    TrackLimit = 1
    MaxAttempts = 1
    BatchLimit = 2
    MaxAborts = 1
    MaxRequeues = 0
    MaxLate = 0
SPECIFICATION Spec
SYMMETRY Symmetry
INVARIANTS
    TypeOK
    StagesHaveJobs
    MessagesInOrder
    StageIsTold
    MessagesToOwner
    FunnelFromOwnParcel
    PolledFresh
    FinishedNotPolled
PROPERTIES
    ForwardOnly
    LinksAreKept
    DoneMeansMoved
