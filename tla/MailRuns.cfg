SPECIFICATION MailsSpec
CONSTANTS
    m1 = m1
    m2 = m2
    scheduler = scheduler
    command = command
    workspace = workspace
    Mail <- MCMail
    NoMail = NoMail
    Workers <- MCCommand
    Scheduler = scheduler
    MaxAttempts = 2
    BatchLimit = 1
    Faults = {"persist", "ingest", "db", "crash"}
    MaxJobs = 2
    MaxFailures = 2
    Workspaces = {workspace}
    WorkspaceOf <- MCWorkspaceOf
    Parts <- MCParts
    PipeFaults = {"embed", "upsert", "crash"}
    MaxTasks = 4
INVARIANTS
    OneJobPerReceipt
    ExclusiveRun
    RunsWithinBudget
    SucceededIsFindable
    ThreadsAreKept
PROPERTIES
    ImplementsLedger
