SPECIFICATION Spec
CONSTANTS
    c1 = c1
    c2 = c2
    c3 = c3
    e1 = e1
    m1 = m1
    m2 = m2
    default = default
    number1 = number1
    number2 = number2
    workspace = workspace
    q1 = q1
    q2 = q2
    Chats = {c1, c2, c3}
    Events = {}
    Mails = {}
    Users = {default, number1, number2, workspace}
    DefaultUser = default
    MailUser <- MCMailUser
    Payloads <- TwoNumbers
    Malformed = {}
    Parts <- MCParts
    Subscribers = {q1, q2}
    UserOf <- MCUserOf
    Capacity = 1
    Faults = {}
    MaxTasks = 1
INVARIANTS
    MessagesStayWithTheirNumber
