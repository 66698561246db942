SPECIFICATION ConsoleSpec
CONSTANTS
    r1 = r1
    r2 = r2
    r3 = r3
    ip1 = ip1
    ip2 = ip2
    e1 = e1
    p1 = p1
    p2 = p2
    None = None
    Requests = {r1, r2, r3}
    Clients = {ip1, ip2}
    Emails = {e1}
    Passwords = {p1, p2}
    Plans <- MixedPlans
    Limit = 1
    WindowLength = 2
    MaxKeys = 1
    Ttl = 2
    MaxTime = 2
    MaxSalt = 3
    w1 = w1
    w2 = w2
    w3 = w3
    c1 = c1
    c2 = c2
    c3 = c3
    c4 = c4
    c5 = c5
    d1 = d1
    n1 = n1
    n2 = n2
    h1 = h1
    h2 = h2
    x = x
    y = y
    shared = shared
    private = private
    Listed = Listed
    Nobody = Nobody
    Free = Free
    Writers = {w1, w2, w3}
    CreativeIds = {c1, c2, c3, c4, c5}
    Domains = {d1}
    Names = {n1, n2}
    Headlines = {h1, h2}
    Copies = {x, y}
    Catalogs = {shared, private}
    Jobs <- MixedJobs
    Processes = {g1, g2}
    Apps = 2
    MaxTicks = 2
    MaxStarts = 2
    o1 = o1
    o2 = o2
    o3 = o3
    o4 = o4
    ann = ann
    ben = ben
    b1 = b1
    Default = Default
    Blank = Blank
    Unreadable = Unreadable
    Elsewhere = Elsewhere
    Errands = {o1, o2, o3, o4}
    People = {ann, ben}
    Bodies = {b1, Default}
    Orders <- MixedOrders
    Turns = {t1}
    MaxInterventions = 1
INVARIANTS SessionsEndWithPassword AttemptsLimited
    CatalogueConsistent OneRunnerPerLock
PROPERTIES LockIsReturned EditsHold
CHECK_DEADLOCK FALSE
