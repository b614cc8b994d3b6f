SPECIFICATION Spec
CONSTANTS
    p1 = p1
    p2 = p2
    r1 = r1
    r2 = r2
    Products = {p1, p2}
    PhotoCap = 1
    MaxProducts = 1
    Requests = {r1, r2}
    MaxForms = 2
    MaxAdmin = 2
    MaxUploads = 1
    MaxRare = 1
SYMMETRY Interchangeable
INVARIANTS
    VerifiedIsReleased
    RowsWrittenOnce
    FinishedJobTellsWhatLanded
PROPERTIES
    RejectionStands
CHECK_DEADLOCK FALSE
