SPECIFICATION Spec
CONSTANTS
    Nothing = Nothing
    Users = {u1, u2}
    Threads = {t1, t2}
    Tokens = {g1, g2}
    Keys = {k1, k2}
    Faults = {"db", "restart"}
    MaxCopies = 2
SYMMETRY Symmetry
INVARIANTS
    OwnCredentials
    ConnectionHolds
    AnswersAreHonest
