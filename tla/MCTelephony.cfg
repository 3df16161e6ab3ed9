\* Three calls of two numbers, one attempt per job, an abort and a requeue.
CONSTANTS
    c1 = c1
    c2 = c2
    c3 = c3
    CallIds = {c1, c2, c3}
    ExternalIds <- LeadIds
    Caller <- TwoCallers
    Window = 0
    MaxTime = 1
    MaxAttempts = 1
    BatchLimit = 2
    MaxAborts = 1
    MaxRequeues = 1
    MaxLate = 0
SPECIFICATION Spec
SYMMETRY Symmetry
INVARIANTS
    TypeOK
    CallCountsOnce
    OneLeadPerWindow
    NoteNamesRecentLead
    NotesAtTheirLead
    DoneNoteIsThere
    NoteCopiesAccounted
