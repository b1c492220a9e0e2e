SPECIFICATION FairSpec
CONSTANTS
    m1 = m1
    m2 = m2
    scheduler = scheduler
    command = command
    Mail <- MCMail
    NoMail = NoMail
    Workers <- MCBoth
    Scheduler = scheduler
    MaxAttempts = 2
    BatchLimit = 1
    Faults = {"persist", "ingest", "db", "crash"}
    MaxJobs = 2
    MaxFailures = 1
INVARIANTS
    AttemptsBounded
    RacedRunsBounded
PROPERTIES
    OpenJobIsHeld
    SettledOrDropped
