SPECIFICATION FairSpec
CONSTANTS
    Polls = {p, q}
    Options = {o}
    None = None
    Existing = {p}
    MaxVotes = 1
    MaxInbox = 1
    Kinds = {"desktop", "mobile", "dashboard"}
    Addresses = {None, p}
    MaxCalls = 1
    MaxSteps <- TwoOnVoters
INVARIANTS TypeOK OneSocket SettledIsAsTold ShowsOnePoll
PROPERTY ComesBack
