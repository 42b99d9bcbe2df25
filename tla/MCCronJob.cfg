CONSTANTS
    MaxJobs = 2
    Targets = {t1}
    Messages = {m1}
    Crons <- MCCrons
    ValidCrons <- MCValidCrons
    Triggers <- MCTriggers
    NULL = NULL
    UpdateColumns = {"status", "deleted"}
    HealthTries = 5
    MaxFires = 0
    MaxRestarts = 1

SPECIFICATION FairSpec

INVARIANT TypeOK
INVARIANT OneTaskPerJob
INVARIANT TimerBelongsToRow
INVARIANT NoTaskWithoutHealthCheck
