SPECIFICATION Spec
CONSTANTS
    Pages = {g}
    Polls = {p, q}
    None = None
    MaxTexts = 2
    MaxCalls = 2
INVARIANT ShownIsStored
