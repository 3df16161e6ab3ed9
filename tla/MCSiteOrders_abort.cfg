\* One order whose worker is cut short.
CONSTANTS
    o1 = o1
    o2 = o2
    ExternalIds = {o1}
    MaxAttempts = 2
    BatchLimit = 1
    MaxAborts = 1
    MaxRequeues = 0
    MaxLate = 0
SPECIFICATION Spec
INVARIANT OneDealPerOrder
