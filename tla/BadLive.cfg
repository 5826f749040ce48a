SPECIFICATION Spec
CONSTANTS
    yes = yes  Yes = Yes  no = no  Empty = Empty  Blank = Blank
    Texts = {yes, Yes, no}
    Lower <- MCLower
    Durations = {1}
    Standard = 1
    Room <- MCRoom
    Skews = {0, 1}
    Day = 2
    MaxTime = 2
    MaxPolls = 2
    MaxEdits <- MCEdits
PROPERTY LaunchedIsLive
CHECK_DEADLOCK FALSE
