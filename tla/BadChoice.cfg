SPECIFICATION Spec
CONSTANTS
    Polls = {p, q}
    Options = {o}
    None = None
    Existing = {p}
    MaxVotes = 1
    MaxInbox = 1
    Kinds = {"mobile"}
    Addresses = {None, p}
    MaxCalls = 1
    MaxSteps <- TwoSteps
INVARIANT ChoiceIsShown
