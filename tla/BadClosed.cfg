SPECIFICATION Spec
CONSTANTS
    r1 = r1  r2 = r2  r3 = r3  r4 = r4
    alice = alice  bob = bob  carol = carol
    yes = yes  no = no  nonsense = nonsense
    Requests = {r1, r2}
    VoterOf <- MCVoterOf
    ChoiceOf <- MCChoiceOf
    Options = {yes, no}
    Realtime = "memory"
    Store = "memory"
    Events = {"toggle"}
PROPERTY ClosedPollCountsNothing
CHECK_DEADLOCK FALSE
