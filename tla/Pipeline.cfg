SPECIFICATION FairSpec
CONSTANTS
    c1 = c1
    c2 = c2
    c3 = c3
    e1 = e1
    m1 = m1
    m2 = m2
    default = default
    number1 = number1
    number2 = number2
    workspace = workspace
    q1 = q1
    q2 = q2
    Chats = {c1, c2, c3}
    Events = {e1}
    Mails = {m1, m2}
    Users = {default, number1, number2, workspace}
    DefaultUser = default
    MailUser <- MCMailUser
    Payloads <- OneNumber
    Malformed = {c3}
    Parts <- MCParts
    Subscribers = {q1, q2}
    UserOf <- MCUserOf
    Capacity = 1
    Faults = {"embed", "upsert", "crash"}
    MaxTasks = 2
INVARIANTS
    TypeOK
    EventsAreFindable
    NoGapsInBatches
    MailsHaveOneDocument
PROPERTIES
    AcknowledgedIsFindable
