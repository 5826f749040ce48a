SPECIFICATION Spec
CONSTANTS
    r1 = r1  r2 = r2  r3 = r3  r4 = r4
    alice = alice  bob = bob  carol = carol
    yes = yes  no = no  nonsense = nonsense
    Requests = {r1, r2, r3, r4}
    VoterOf <- MCVoterOf
    ChoiceOf <- MCChoiceOf
    Options = {yes, no}
    Realtime = "redis"
    Store = "mongo"
    Events = {"toggle", "report", "redis_fault", "crash"}
INVARIANTS
    OneBallotPerVoter LedgerIsCounted ReportsShowTheTally
    AcknowledgedBallotsAreKept
