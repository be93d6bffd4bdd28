SPECIFICATION FairPaySpec
CONSTANTS
    BookingIds = {b1}
    Users = {boss}
    Admins = {boss}
    ParkingOwner = boss
    Handlers = {h1}
    IntentIds = {i1}
    NoId = NoId
    NoEvent = NoEvent
    Absent = Absent
    ClientOps = {"create", "pay"}
    Amounts = {40}
    RefundAmounts = {0, 20}
    Level <- MCLevel
    Linked = {boss}
    RawBody = FALSE
    MaxDuplicates = 0
    MaxTime = 1
    MaxRequests = 2
    MaxFailures = 0
PROPERTY PaidGetsConfirmed
CHECK_DEADLOCK FALSE
