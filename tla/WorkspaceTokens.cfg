SPECIFICATION Spec
CONSTANTS
    Nothing = Nothing
    Processes = {p1}
    Workspaces = {w1, w2}
    Users = {u1, u2}
    Tokens = {t1, t2, t3}
    MayFail = TRUE
INVARIANTS
    OnlyFounderOwns
    AdministratorsRotate
    TokensAreAdministered
    ChecksAgree
PROPERTIES
    ImplementsRegister
