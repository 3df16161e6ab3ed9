\* Two orders, every kind of lapse once.
CONSTANTS
    o1 = o1
    o2 = o2
    ExternalIds = {o1, o2}
    MaxAttempts = 2
    BatchLimit = 2
    MaxAborts = 1
    MaxRequeues = 1
    MaxLate = 1
SPECIFICATION Spec
SYMMETRY Symmetry
INVARIANTS
    TypeOK
    DealsAccounted
    KnownIdIsItsDeal
    DoneMeansLinked
    BatchFresh
    IInv
PROPERTIES
    SettledIsFinal
    LedgerSpec
