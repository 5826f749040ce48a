SPECIFICATION FairSpec
CONSTANTS
    Browsers = {ann}
    Emails = {e}
    MixedCase = FALSE
    StoreFails = FALSE
    UniqueEmails = TRUE
    Slots = 2
    MaxHaste = 1
    MaxCodes = 2
    MaxRestarts = 1
INVARIANTS
    TypeOK ShownIsSignedIn PromptedCodeWorks OneAccount
PROPERTIES
    WaitingEnds
