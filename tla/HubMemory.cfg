SPECIFICATION Spec
CONSTANTS
    c1 = c1  c2 = c2  c3 = c3  v1 = v1  v2 = v2
    Clients = {c1, c2}
    Voters = {v1}
    SendCap = 1
    QueueCap = 1
    ChannelCap = 1
    Realtime = "memory"
SYMMETRY Symmetry
INVARIANTS TypeOK NeverPanics UpMeansServed OneSubscription
CHECK_DEADLOCK FALSE
