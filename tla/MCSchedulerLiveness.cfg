CONSTANTS
    MaxJobs = 1
    Targets = {t1}
    Messages = {m1}
    Crons <- MCCrons
    ValidCrons <- MCValidCrons
    Triggers <- MCTriggers
    NULL = NULL
    UpdateColumns = {"status", "deleted"}
    HealthTries = 5
    MaxFires = 2
    MaxRestarts = 1

SPECIFICATION FairSpec

PROPERTY EligibleEventuallyScheduled
PROPERTY StartupTerminates
