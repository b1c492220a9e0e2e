SPECIFICATION Spec
CONSTANTS
    m1 = m1
    m2 = m2
    scheduler = scheduler
    command = command
    Mail <- MCMail
    NoMail = NoMail
    Workers <- MCBoth
    Scheduler = scheduler
    MaxAttempts = 3
    BatchLimit = 1
    Faults = {"ingest"}
    MaxJobs = 3
    MaxFailures = 0
PROPERTIES
    RequeueOnlyFailed

