SPECIFICATION FairPaySpec
CONSTANTS
    BookingIds = {b1}
    Users = {boss}
    Admins = {boss}
    ParkingOwner = boss
    Handlers = {h1, h2}
    IntentIds = {i1}
    NoId = NoId
    NoEvent = NoEvent
    Absent = Absent
    ClientOps = {"create", "remove", "pay", "refund"}
    Amounts = {40}
    RefundAmounts = {0, 20}
    Level <- MCLevel
    Linked = {}
    RawBody = TRUE
    MaxDuplicates = 0
    MaxTime = 1
    MaxRequests = 3
    MaxFailures = 1
INVARIANT PaidIsRemembered
PROPERTIES PaidGetsConfirmed OwnerHearsOfBooking
CHECK_DEADLOCK FALSE
