\* Regenerating test configurations, with interruptions.
CONSTANTS
    Hal = {nfc}
    Timeouts = {"1m", "5m", "15m"}
    DefaultTimeout = "1m"
    NoOption = NoOption
    Configures <- SomeConfigures
    MaxRuns = 3
SPECIFICATION Spec
CHECK_DEADLOCK FALSE
INVARIANTS
    TypeOK
    CompleteRunHeals
    TimeoutsTraceable
    OutcomeFixed
