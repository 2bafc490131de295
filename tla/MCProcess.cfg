CONSTANTS
    DrainDelay = 3
    ShutdownPeriod = 4
    HardPeriod = 2
    PollEvery = 2
    DeleteTime = 1
    Requests = {q1, q2}
    Durations = {3, 10}
    Jobs = {j1}
    MetricsOn = TRUE
    MetricsPath <- MCMetricsPath
    MaxFaults = 2

SPECIFICATION FairProcessSpec

INVARIANT TypeOK
INVARIANT NoRequestRefused
INVARIANT ShortRequestsAnswered
INVARIANT NoJobCutOff
INVARIANT ExitInTime
INVARIANT ProcessTypeOK
PROPERTY MigrationOutlivesSignals
PROPERTY SignalStops
PROPERTY BecomesReady
