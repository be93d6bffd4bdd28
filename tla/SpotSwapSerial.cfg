SPECIFICATION Spec
CONSTANTS
    ListingIds = {l1, l2}
    OfferIds = {o1, o2}
    Users = {host, u1, u2}
    host = host
    p1 = p1
    Spots = {p1, p2}
    Hosts <- MCHosts
    Handlers = {h1}
    NoId = NoId
    Absent = Absent
    SwapOps = {"list", "relist", "unlist", "offer", "reoffer", "withdraw", "respond", "complete"}
    MaxTime = 2
    MaxRequests = 5
    MaxFailures = 0
SYMMETRY Symmetry
INVARIANTS SwapTypeOK ActiveListingsApart CompletedAfterEnd OneWinner
PROPERTY ImplementsMarket
CHECK_DEADLOCK FALSE
