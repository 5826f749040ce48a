SPECIFICATION FairSpec
CONSTANTS
    c1 = c1  c2 = c2  c3 = c3  v1 = v1  v2 = v2
    Clients = {c1}
    Voters = {v1, v2}
    SendCap = 1
    QueueCap = 1
    ChannelCap = 2
    Realtime = "redis"
PROPERTIES EveryVoteIsShown EveryoneIsReleased
CHECK_DEADLOCK FALSE
