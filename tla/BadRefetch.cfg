SPECIFICATION Spec
CONSTANTS
    Polls = {p, q}
    Options = {o}
    None = None
    Existing = {p}
    MaxVotes = 1
    MaxInbox = 1
    Kinds = {"desktop"}
    Addresses = {None}
    MaxCalls = 1
    MaxSteps <- TwoSteps
INVARIANT TotalIsAsTold
