SPECIFICATION PaySpec
CONSTANTS
    BookingIds = {b1}
    Users = {boss}
    Admins = {boss}
    ParkingOwner = boss
    Handlers = {h1, h2}
    IntentIds = {i1}
    NoId = NoId
    NoEvent = NoEvent
    Absent = Absent
    ClientOps = {"create", "remove", "update", "pay", "refund"}
    Amounts = {40}
    RefundAmounts = {0, 20, 60}
    Level <- MCLevel
    Linked = {boss}
    RawBody = TRUE
    MaxDuplicates = 1
    MaxTime = 1
    MaxRequests = 4
    MaxFailures = 0
SYMMETRY Symmetry
INVARIANTS PayTypeOK MoneyBacksStatus RefundsAreAsTold
PROPERTY ImplementsLedger
CHECK_DEADLOCK FALSE
