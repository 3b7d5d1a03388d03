CONSTANTS
    Clients = {c1, c2}
    NoClient = NoClient
    Listener = Listener
    Versions = {"select", "poll", "fe"}
    Kinds = {"ok", "absent", "edge", "brim", "words", "long"}
    QLen = 2
    NAlloc = 1
    BufLen = 3
    MaxRequests = 2
    FreshRevents <- AllRevents
    OpenFaults = {"leave", "stale"}
SPECIFICATION OpenFairSpec
INVARIANTS AnswersMatch TableAgrees DiesOfClients
PROPERTIES DropsNewcomersOnly Served
CHECK_DEADLOCK FALSE
