SPECIFICATION Spec
CONSTANTS
    c1 = c1  c2 = c2  c3 = c3  v1 = v1  v2 = v2
    Clients = {c1}
    Voters = {v1, v2}
    SendCap = 3
    QueueCap = 3
    ChannelCap = 2
    Realtime = "memory"
SYMMETRY Symmetry
INVARIANT SettledTallyIsCurrent
CHECK_DEADLOCK FALSE
