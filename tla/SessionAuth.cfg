SPECIFICATION Spec
CONSTANTS
    t1 = t1
    t2 = t2
    s1 = s1
    s2 = s2
    a1 = a1
    a2 = a2
    n1 = n1
    n2 = n2
    k1 = k1
    k2 = k2
    None = None
    Threads <- MCThreads
    Subjects <- MCSubjects
    Accounts <- MCAccounts
    Nonces <- MCNonces
    Tokens <- MCTokens
    ChallengeLife = 1
    SessionLife = 2
    MaxTime = 2
SYMMETRY MCSymmetry
INVARIANTS
    OneSessionPerChallenge
    WithdrawnIsUseless
    OneAccountPerSubject
    SignsInItsSubject
    AccountsAreWhole
    RevokedIsNotServed
PROPERTIES
    ImplementsSignIns
