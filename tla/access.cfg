SPECIFICATION Spec
CONSTANTS
    Calls = {c1, c2, c3}
    Emails = {a, b}
    a = a
    b = b
    ArchiveOwner = a
    TokenRequired = TRUE
    MaxCodes = 2
    Starts <- MCStarts
SYMMETRY MCSymmetry
PROPERTIES
    FirstAdminIsAlone
    LastAdminKept
    AccountsComeFromStandingRequests
    RestoredIsNotDiscarded
CHECK_DEADLOCK FALSE
