CONSTANTS
    MaxJobs = 1
    Targets = {t1}
    Messages = {m1}
    Crons <- MCCrons
    ValidCrons <- MCValidCrons
    Triggers <- MCTriggers
    NULL = NULL
    UpdateColumns = {"status", "target", "message", "deleted"}
    HealthTries = 5
    MaxFires = 1
    MaxRestarts = 1

SPECIFICATION Spec

PROPERTY FireOnlyWhileLoadable
