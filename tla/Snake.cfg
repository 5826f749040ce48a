SPECIFICATION Spec
CONSTANTS
    Games = {"modal", "lounge"}
    Side = 3
    Start <- MCStart  Idle <- MCIdle  IdleFood <- MCIdleFood
    Gain = 2
    FirstRecord = 5
    MaxRecord = 6
INVARIANTS
    TypeOK SnakeIsWhole NeckIsSafe BestIsKept
