SPECIFICATION FairSpec
CONSTANTS
    anthropic = anthropic
    openai = openai
    Tasks <- MCTasks
    Total = 3
    Providers <- MCProviders
    ProviderOf <- MCProviderOf
    Malformed = {3}
    MaxConcurrency = 1
INVARIANTS
    CleanMeansQuiet
    NothingLeftBehind
    LoadBounded
    WorkConserving
PROPERTIES
    ImplementsService
    RunOutcomeKept
    CallReturns
CHECK_DEADLOCK FALSE
