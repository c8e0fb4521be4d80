SPECIFICATION Spec
CONSTANTS
    Files = {"f"}
    Bindable <- MCBindable
    MaxMTime = 2
    MaxScheds = 4
    MaxChanges = 2
    MaxBack = 1
    Targets = {"port", "url"}
    Nil = Nil
    OfflineBaseTimeout = 2
    OfflineRebootInterval = 1
    Times = {1, 2}
    MaxOffline = 5
    MaxEvents = 4
    MaxPuts = 3
    Pushers = {p1, p2}
    Addrs = {a1, a2}
    NoClient = NoClient
    Hosts = {h1, h2}
    MaxConns = 1
    Retries = 2
    QueueMax = 1
    MaxArrivals = 2
INVARIANTS TablesMatch ArmingKept 
PROPERTIES AgentFollows ForwardIsChannel ForwardSettles
CHECK_DEADLOCK FALSE
