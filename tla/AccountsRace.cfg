SPECIFICATION Spec
CONSTANTS
    AccountIds = {u1, u2}
    RequestIds = {r1}
    Emails = {e1, e2}
    Phones = {p1, p2}
    Erased = Erased
    NoCode = NoCode
    NoId = NoId
    Absent = Absent
    Handlers = {h1, h2}
    StartLevels = {0, 2, 3}
    StartDocuments = {{}, {"idDocumentFront", "idDocumentBack", "selfieImage"}}
    MaxRequests = 4
    MaxFailures = 1
SYMMETRY Symmetry
INVARIANTS AccTypeOK LevelsAreEarned ErasedWasApproved FlagsMatchLevel CompletedMeansErased
PROPERTIES LevelNeverFalls LoggedOutStaysOut
CHECK_DEADLOCK FALSE
