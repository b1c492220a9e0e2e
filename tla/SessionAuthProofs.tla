------------------------- MODULE SessionAuthProofs -------------------------
(***************************************************************************)
(* Proofs about SessionAuth, for any number of threads, Google accounts,   *)
(* challenges and session tokens and any lifetimes.                        *)
(***************************************************************************)
EXTENDS SessionAuth, TLAPS

LEMMA InitType == Init => TypeOK
BY NoneAssumption, TimesAssumption DEF Init, TypeOK, Pcs, Locals, NoLocals

LEMMA LeavesType ==
    ASSUME TypeOK, NEW t \in Threads, NEW from, Leaves(t, from)
    PROVE  local' \in [Threads -> Locals] /\ pc' \in [Threads -> Pcs]
<1>1. NoLocals \in Locals
  BY DEF NoLocals, Locals
<1> QED
  BY <1>1 DEF TypeOK, Leaves, Goes, Pcs

LEMMA TypeStep == TypeOK /\ [Next]_vars => TypeOK'
<1> SUFFICES ASSUME TypeOK, [Next]_vars PROVE TypeOK'
  OBVIOUS
<1> USE TimesAssumption DEF TypeOK, Pcs, rows, thread, history
<1>1. ASSUME NEW p \in issued \cup {None}, NEW n \in Nonces, Challenge(p, n)
      PROVE  TypeOK'
  BY <1>1 DEF Challenge, DropSessions, Expired
<1>2. ASSUME NEW k \in GivenTokens \cup {None}, NEW n \in issued \cup {None}, Logout(k, n)
      PROVE  TypeOK'
  BY <1>2 DEF Logout, DropSessions, DropChallenges
<1>3. ASSUME NEW t \in Threads, ThreadStep(t) PROVE TypeOK'
  <2> USE DEF Goes, Continues, Leaves, Takes, Locals, NoLocals
  <2>1. ASSUME NEW n \in Nonces, NEW p \in GivenTokens \cup {None}, NEW s \in Subjects,
               SignIn(t, n, p, s)
        PROVE  TypeOK'
    <3>1. [NoLocals EXCEPT !.nonce = n, !.prev = p, !.sub = s] \in Locals
      BY DEF GivenTokens
    <3> QED
      BY <2>1, <3>1 DEF SignIn
  <2>2. CASE Consume(t) \/ ConsumeFails(t)
    <3>1. CASE Consume(t)
      BY <3>1 DEF Consume, DeleteChallenge
    <3>2. CASE ConsumeFails(t)
      BY <3>2, LeavesType DEF ConsumeFails
    <3> QED
      BY <2>2, <3>1, <3>2
  <2>3. CASE Lookup(t) \/ LookupNothing(t)
    BY <2>3 DEF Lookup, LookupNothing
  <2>4. ASSUME NEW a \in Accounts, Create(t, a) PROVE TypeOK'
    BY <2>4 DEF Create, NewAccount
  <2>5. CASE CreateLoses(t) \/ Authorize(t)
    BY <2>5 DEF CreateLoses, Authorize
  <2>6. ASSUME NEW k \in Tokens, Rotate(t, k) PROVE TypeOK'
    BY <2>6 DEF Rotate
  <2>7. ASSUME NEW k \in Tokens, RequestBegins(t, k) PROVE TypeOK'
    <3>1. InOrder(user[k]) \in BOOLEAN /\ user[k] \in Accounts \cup {None}
      BY DEF InOrder
    <3>2. [NoLocals EXCEPT !.acct = user[k], !.began = InOrder(user[k])] \in Locals
      BY <3>1
    <3> QED
      BY <2>7, <3>2 DEF RequestBegins
  <2>8. CASE RequestReadsKey(t) \/ RequestReadsMember(t) \/ Ends(t)
    <3>1. CASE RequestReadsKey(t) \/ RequestReadsMember(t)
      BY <3>1 DEF RequestReadsKey, RequestReadsMember
    <3>2. CASE Ends(t)
      BY <3>2, LeavesType DEF Ends
    <3> QED
      BY <2>8, <3>1, <3>2
  <2> QED
    BY <1>3, <2>1, <2>2, <2>3, <2>4, <2>5, <2>6, <2>7, <2>8 DEF ThreadStep
<1>4. ASSUME NEW a \in Accounts, Disable(a) PROVE TypeOK'
  BY <1>4 DEF Disable
<1>5. CASE Tick
  BY <1>5 DEF Tick
<1>6. CASE UNCHANGED vars
  BY <1>6 DEF vars
<1> QED
  BY <1>1, <1>2, <1>3, <1>4, <1>5, <1>6 DEF Next

\* Every variable keeps its type, whatever threads, browsers and operators do.
THEOREM TypeCorrect == Spec => []TypeOK
BY InitType, TypeStep, PTL DEF Spec

-----------------------------------------------------------------------------
(***************************************************************************)
(* Accounts.  Rows of an account are made by one commit and never deleted; *)
(* a thread that goes on past the lookup carries its subject's account.    *)
(***************************************************************************)
AccountInv == /\ TypeOK
              /\ OneAccountPerSubject
              /\ SignsInItsSubject
              /\ AccountsAreWhole
              /\ \A t \in Threads : pc[t] \in {"lookup", "create", "consume"} =>
                                        local[t].sub \in Subjects
              /\ \A t \in Threads : pc[t] \in {"authorize", "rotate"} =>
                                        local[t].sub \in Subjects /\ local[t].acct \in Accounts

LEMMA AccountStep == AccountInv /\ [Next]_vars => AccountInv'
<1> SUFFICES ASSUME AccountInv, [Next]_vars PROVE AccountInv'
  OBVIOUS
<1>1. TypeOK /\ TypeOK'
  BY TypeStep DEF AccountInv
<1> USE <1>1, NoneAssumption
    DEF AccountInv, OneAccountPerSubject, SignsInItsSubject, AccountsAreWhole,
        rows, thread, history
<1>2. ASSUME NEW p \in issued \cup {None}, NEW n \in Nonces, Challenge(p, n)
      PROVE  AccountInv'
  BY <1>2 DEF Challenge, DropSessions
<1>3. ASSUME NEW k \in GivenTokens \cup {None}, NEW n \in issued \cup {None}, Logout(k, n)
      PROVE  AccountInv'
  BY <1>3 DEF Logout, DropSessions
<1>4. ASSUME NEW t \in Threads, ThreadStep(t) PROVE AccountInv'
  <2> USE DEF Goes, Continues, Leaves, Takes, TypeOK, Locals, NoLocals
  <2>1. ASSUME NEW n \in Nonces, NEW p \in GivenTokens \cup {None}, NEW s \in Subjects,
               SignIn(t, n, p, s)
        PROVE  AccountInv'
    BY <2>1 DEF SignIn
  <2>2. CASE Consume(t) \/ ConsumeFails(t)
    BY <2>2 DEF Consume, ConsumeFails, DeleteChallenge
  <2>3. CASE Lookup(t) \/ LookupNothing(t) \/ CreateLoses(t) \/ Authorize(t)
    <3>1. CASE Lookup(t) \/ CreateLoses(t)
      <4>1. PICK a \in Accounts :
                /\ holder[a] = local[t].sub
                /\ pc[t] \in {"lookup", "create"}
                /\ pc' = [pc EXCEPT ![t] = "authorize"]
                /\ local' = [local EXCEPT ![t].acct = a]
        BY <3>1 DEF Lookup, CreateLoses
      <4>2. UNCHANGED <<now, rows, history>>
        BY <3>1 DEF Lookup, CreateLoses
      <4>3. /\ local'[t].sub = local[t].sub /\ local'[t].acct = a /\ local[t].sub \in Subjects
            /\ \A v \in Threads : v # t => local'[v] = local[v] /\ pc'[v] = pc[v]
        BY <4>1
      <4>4. OneAccountPerSubject' /\ AccountsAreWhole'
        BY <4>2
      <4>5. SignsInItsSubject'
        BY <4>1, <4>2, <4>3
      <4> QED
        BY <4>1, <4>2, <4>3, <4>4, <4>5
    <3>2. CASE LookupNothing(t)
      BY <3>2 DEF LookupNothing
    <3>3. CASE Authorize(t)
      BY <3>3 DEF Authorize
    <3> QED
      BY <2>3, <3>1, <3>2, <3>3
  <2>4. ASSUME NEW a \in Accounts, Create(t, a) PROVE AccountInv'
    BY <2>4 DEF Create, NewAccount, HasAccount
  <2>5. ASSUME NEW k \in Tokens, Rotate(t, k) PROVE AccountInv'
    BY <2>5 DEF Rotate
  <2>6. ASSUME NEW k \in Tokens, RequestBegins(t, k) PROVE AccountInv'
    BY <2>6 DEF RequestBegins
  <2>7. CASE RequestReadsKey(t) \/ RequestReadsMember(t) \/ Ends(t)
    BY <2>7 DEF RequestReadsKey, RequestReadsMember, Ends
  <2> QED
    BY <1>4, <2>1, <2>2, <2>3, <2>4, <2>5, <2>6, <2>7 DEF ThreadStep
<1>5. ASSUME NEW a \in Accounts, Disable(a) PROVE AccountInv'
  BY <1>5 DEF Disable
<1>6. CASE Tick
  BY <1>6 DEF Tick
<1>7. CASE UNCHANGED vars
  BY <1>7 DEF vars
<1> QED
  BY <1>2, <1>3, <1>4, <1>5, <1>6, <1>7 DEF Next

LEMMA AccountInvariant == Spec => []AccountInv
<1>1. Init => AccountInv
  BY InitType DEF Init, AccountInv, OneAccountPerSubject, SignsInItsSubject,
     AccountsAreWhole
<1> QED
  BY <1>1, AccountStep, PTL DEF Spec

\* First sign-ins of one Google account that race, in any number of threads,
\* create one account (the unique google_sub and the IntegrityError branch).
THEOREM OneAccount == Spec => []OneAccountPerSubject
BY AccountInvariant, PTL DEF AccountInv

\* A sign-in continues with the account of the subject Google has verified.
THEOREM OwnAccount == Spec => []SignsInItsSubject
BY AccountInvariant, PTL DEF AccountInv

\* Workspace, key, membership and user of an account appear together, and a
\* session belongs to an account that exists.
THEOREM WholeAccounts == Spec => []AccountsAreWhole
BY AccountInvariant, PTL DEF AccountInv

-----------------------------------------------------------------------------
(***************************************************************************)
(* Challenges.  A nonce is in one place at most: its row, a thread that    *)
(* has deleted the row and goes on, or the session issued for it.          *)
(***************************************************************************)
RowsUnused == \A n \in Nonces : challenge[n] # 0 => n \in issued \ withdrawn

NoncesHeld ==
    \A t \in Threads :
        /\ pc[t] = "consume" => local[t].nonce \in Nonces
        /\ Holds(t) =>
            /\ local[t].nonce \in issued \ withdrawn
            /\ challenge[local[t].nonce] = 0
            /\ \A k \in Tokens : origin[k] # local[t].nonce

HeldOnce == \A t, v \in Threads :
                Holds(t) /\ Holds(v) /\ local[t].nonce = local[v].nonce => t = v

SessionsSpent ==
    \A k \in GivenTokens : /\ origin[k] \in issued \ withdrawn
                           /\ challenge[origin[k]] = 0

WithdrawnIssued == withdrawn \subseteq issued

ChallengeInv == /\ TypeOK
                /\ WithdrawnIssued
                /\ RowsUnused
                /\ NoncesHeld
                /\ HeldOnce
                /\ SessionsSpent
                /\ OneSessionPerChallenge

\* A step that takes rows away unused, and adds rows of new nonces at most.
LEMMA RowsChange ==
    ASSUME ChallengeInv, TypeOK', UNCHANGED <<origin, pc, local>>,
           issued \subseteq issued',
           \A m \in issued : challenge'[m] \in {0, challenge[m]},
           \A m \in Nonces : challenge'[m] # 0 => m \in issued' \ withdrawn',
           \A m \in withdrawn' : m \in withdrawn \/ challenge[m] # 0
    PROVE  ChallengeInv'
BY NoneAssumption DEF ChallengeInv, WithdrawnIssued, TypeOK, RowsUnused, NoncesHeld, HeldOnce,
   SessionsSpent, OneSessionPerChallenge, GivenTokens, Holds

\* A step of one thread that leaves rows, tokens and its hold on a nonce alone,
\* or gives up its hold.
LEMMA ThreadChange ==
    ASSUME ChallengeInv, TypeOK', NEW t \in Threads,
           UNCHANGED <<challenge, origin, issued, withdrawn>>,
           \A v \in Threads : v # t => pc'[v] = pc[v] /\ local'[v] = local[v],
           pc'[t] = "consume" => local'[t].nonce \in Nonces,
           pc'[t] \in Past => pc[t] \in Past /\ local'[t].nonce = local[t].nonce
    PROVE  ChallengeInv'
BY NoneAssumption DEF ChallengeInv, WithdrawnIssued, TypeOK, RowsUnused, NoncesHeld,
   HeldOnce, SessionsSpent, OneSessionPerChallenge, GivenTokens, Holds

LEMMA ConsumeChange ==
    ASSUME ChallengeInv, TypeOK', NEW t \in Threads, Consume(t)
    PROVE  ChallengeInv'
<1> DEFINE n == local[t].nonce
<1> USE DEF ChallengeInv, GivenTokens
<1>1. /\ n \in Nonces /\ challenge[n] # 0
      /\ challenge' = [challenge EXCEPT ![n] = 0]
      /\ pc' = [pc EXCEPT ![t] = "lookup"]
      /\ UNCHANGED <<local, issued, withdrawn, origin>>
  BY TimesAssumption DEF Consume, DeleteChallenge, Continues, Goes, Live, history,
     NoncesHeld, TypeOK
<1>2. \A v \in Threads : Holds(v) => local[v].nonce # n
  BY <1>1 DEF NoncesHeld
<1>3. \A k \in GivenTokens : origin[k] # n
  BY <1>1 DEF SessionsSpent
<1>4. \A v \in Threads : Holds(v)' <=> Holds(v) \/ v = t
  BY <1>1 DEF Holds, Past, TypeOK
<1>5. n \in issued \ withdrawn /\ n # None
  BY <1>1, NoneAssumption DEF RowsUnused
<1>6. RowsUnused' /\ SessionsSpent' /\ OneSessionPerChallenge' /\ WithdrawnIssued'
  BY <1>1 DEF RowsUnused, WithdrawnIssued, SessionsSpent, OneSessionPerChallenge, TypeOK
<1>7. NoncesHeld'
  BY <1>1, <1>2, <1>3, <1>4, <1>5 DEF NoncesHeld, TypeOK
<1>8. HeldOnce'
  BY <1>1, <1>2, <1>4 DEF HeldOnce
<1> QED
  BY <1>6, <1>7, <1>8

LEMMA RotateChange ==
    ASSUME ChallengeInv, TypeOK', NEW t \in Threads, NEW k \in Tokens, Rotate(t, k)
    PROVE  ChallengeInv'
<1> DEFINE n == local[t].nonce
<1> USE DEF ChallengeInv, GivenTokens
<1>1. /\ pc[t] = "rotate" /\ origin[k] = None
      /\ origin' = [origin EXCEPT ![k] = n]
      /\ pc' = [pc EXCEPT ![t] = "idle"]
      /\ \A v \in Threads : v # t => local'[v] = local[v]
      /\ UNCHANGED <<challenge, issued, withdrawn>>
  BY DEF Rotate, Leaves, Goes, TypeOK
<1>2. Holds(t) /\ \A v \in Threads : Holds(v)' <=> Holds(v) /\ v # t
  BY <1>1 DEF Holds, Past, TypeOK
<1>3. /\ n \in issued \ withdrawn /\ challenge[n] = 0
      /\ \A j \in Tokens : origin[j] # n
      /\ \A v \in Threads : Holds(v) /\ v # t => local[v].nonce # n
  BY <1>2 DEF NoncesHeld, HeldOnce
<1>4. RowsUnused' /\ HeldOnce' /\ WithdrawnIssued'
  BY <1>1, <1>2 DEF RowsUnused, WithdrawnIssued, HeldOnce
<1>5. SessionsSpent' /\ OneSessionPerChallenge'
  BY <1>1, <1>3 DEF SessionsSpent, OneSessionPerChallenge, TypeOK
<1>6. NoncesHeld'
  <2>1. ASSUME NEW v \in Threads, pc'[v] = "consume" PROVE local'[v].nonce \in Nonces
    BY <1>1, <2>1 DEF NoncesHeld, TypeOK
  <2>2. ASSUME NEW v \in Threads, Holds(v)'
        PROVE  /\ local'[v].nonce \in issued' \ withdrawn'
               /\ challenge'[local'[v].nonce] = 0
               /\ \A j \in Tokens : origin'[j] # local'[v].nonce
    BY <1>1, <1>2, <1>3, <2>2 DEF NoncesHeld, TypeOK
  <2> QED
    BY <2>1, <2>2 DEF NoncesHeld
<1> QED
  BY <1>4, <1>5, <1>6

LEMMA ChallengeStep == ChallengeInv /\ [Next]_vars => ChallengeInv'
<1> SUFFICES ASSUME ChallengeInv, [Next]_vars PROVE ChallengeInv'
  OBVIOUS
<1>1. TypeOK /\ TypeOK'
  BY TypeStep DEF ChallengeInv
<1> USE <1>1 DEF rows, thread, history
<1>2. ASSUME NEW p \in issued \cup {None}, NEW n \in Nonces, Challenge(p, n)
      PROVE  ChallengeInv'
  <2>1. /\ UNCHANGED <<origin, pc, local>>
        /\ n \notin issued /\ issued' = issued \cup {n}
    BY <1>2 DEF Challenge
  <2>2. /\ \A m \in issued : challenge'[m] \in {0, challenge[m]}
        /\ \A m \in withdrawn' : m \in withdrawn \/ (m \in issued /\ challenge[m] # 0)
        /\ \A m \in Nonces : m # n /\ challenge'[m] # 0 =>
                challenge[m] # 0 /\ (m \in withdrawn' => m \in withdrawn)
    <3> DEFINE gone == ({p} \cup Expired(challenge)) \ {n}
    <3>1. /\ \A m \in Nonces : m # n => challenge'[m] = IF m \in gone THEN 0 ELSE challenge[m]
          /\ withdrawn' = withdrawn \cup {m \in gone \cap issued : challenge[m] # 0}
      BY <1>2 DEF Challenge
    <3>2. issued \subseteq Nonces \ {n}
      BY <2>1 DEF TypeOK
    <3> HIDE DEF gone
    <3>3. \A m \in issued : challenge'[m] \in {0, challenge[m]}
      BY <3>1, <3>2
    <3>4. \A m \in withdrawn' : m \in withdrawn \/ (m \in issued /\ challenge[m] # 0)
      BY <3>1
    <3>5. ASSUME NEW m \in Nonces, m # n, challenge'[m] # 0
          PROVE  challenge[m] # 0 /\ (m \in withdrawn' => m \in withdrawn)
      BY <3>1, <3>5
    <3> QED
      BY <3>3, <3>4, <3>5
  <2>3. challenge[n] = 0 /\ (n \in withdrawn' => n \in withdrawn)
    BY <2>1, <2>2 DEF ChallengeInv, RowsUnused
  <2>4. n \notin withdrawn
    BY <1>2, <2>1 DEF ChallengeInv, WithdrawnIssued
  <2> QED
    BY <2>1, <2>2, <2>3, <2>4, RowsChange DEF ChallengeInv, RowsUnused
<1>3. ASSUME NEW k \in GivenTokens \cup {None}, NEW n \in issued \cup {None}, Logout(k, n)
      PROVE  ChallengeInv'
  <2>1. /\ UNCHANGED <<origin, pc, local, issued>>
        /\ \A m \in Nonces : challenge'[m] \in {0, challenge[m]}
        /\ \A m \in withdrawn' : m \in withdrawn \/ challenge[m] # 0
        /\ \A m \in Nonces : challenge'[m] # 0 => (m \in withdrawn' => m \in withdrawn)
    BY <1>3 DEF Logout, DropChallenges, TypeOK
  <2> QED
    BY <2>1, RowsChange DEF ChallengeInv, RowsUnused, TypeOK
<1>4. ASSUME NEW t \in Threads, ThreadStep(t) PROVE ChallengeInv'
  <2> USE DEF Goes, Continues, Leaves, Takes, TypeOK, Locals, NoLocals, Past
  <2>1. ASSUME NEW n \in Nonces, NEW p \in GivenTokens \cup {None}, NEW s \in Subjects,
               SignIn(t, n, p, s)
        PROVE  ChallengeInv'
    BY <2>1, ThreadChange DEF SignIn
  <2>2. CASE Consume(t)
    BY <2>2, ConsumeChange
  <2>3. CASE ConsumeFails(t) \/ Ends(t)
    BY <2>3, ThreadChange DEF ConsumeFails, Ends
  <2>4. CASE Lookup(t) \/ LookupNothing(t) \/ CreateLoses(t) \/ Authorize(t)
    BY <2>4, ThreadChange DEF Lookup, LookupNothing, CreateLoses, Authorize
  <2>5. ASSUME NEW a \in Accounts, Create(t, a) PROVE ChallengeInv'
    BY <2>5, ThreadChange DEF Create, NewAccount
  <2>6. ASSUME NEW k \in Tokens, Rotate(t, k) PROVE ChallengeInv'
    BY <2>6, RotateChange
  <2>7. ASSUME NEW k \in Tokens, RequestBegins(t, k) PROVE ChallengeInv'
    BY <2>7, ThreadChange DEF RequestBegins
  <2>8. CASE RequestReadsKey(t) \/ RequestReadsMember(t)
    BY <2>8, ThreadChange DEF RequestReadsKey, RequestReadsMember
  <2> QED
    BY <1>4, <2>1, <2>2, <2>3, <2>4, <2>5, <2>6, <2>7, <2>8 DEF ThreadStep
<1>5. ASSUME (\E a \in Accounts : Disable(a)) \/ Tick \/ UNCHANGED vars
      PROVE  ChallengeInv'
  BY <1>5, RowsChange DEF Disable, Tick, vars, ChallengeInv, RowsUnused, TypeOK
<1> QED
  BY <1>2, <1>3, <1>4, <1>5 DEF Next

LEMMA ChallengeInvariant == Spec => []ChallengeInv
<1>1. Init => ChallengeInv
  BY InitType DEF Init, ChallengeInv, RowsUnused, NoncesHeld, HeldOnce,
     SessionsSpent, WithdrawnIssued, OneSessionPerChallenge, GivenTokens, Holds, Past
<1> QED
  BY <1>1, ChallengeStep, PTL DEF Spec

\* However often and in how many threads a credential is submitted, its
\* challenge yields one session at most (the DELETE whose rows are counted).
THEOREM OneSession == Spec => []OneSessionPerChallenge
BY ChallengeInvariant, PTL DEF ChallengeInv

\* A challenge withdrawn before it was used never yields a session, also when a
\* sign-in had read it before.
THEOREM Withdrawn == Spec => []WithdrawnIsUseless
<1>1. ChallengeInv => WithdrawnIsUseless
  BY DEF ChallengeInv, SessionsSpent, WithdrawnIsUseless
<1> QED
  BY <1>1, ChallengeInvariant, PTL
-----------------------------------------------------------------------------
(***************************************************************************)
(* Revocation.  An account that exists never gets a key or a membership    *)
(* again, so what a request finds wanting at its beginning it still finds  *)
(* wanting at the read that looks at it, whatever happens in between.      *)
(***************************************************************************)
Reads == {"key", "member", "serve"}

Barred(t) ==
    /\ pc[t] \in Reads => local[t].acct \in workspaces
    /\ pc[t] = "key" => local[t].began \/ ~InOrder(local[t].acct)
    /\ pc[t] = "member" => local[t].began \/ local[t].acct \notin members
    /\ pc[t] = "serve" => local[t].began

RevokeInv == AccountInv /\ \A t \in Threads : Barred(t)

\* A step in which no key or membership comes back to an account that exists
\* leaves the threads it does not move as they were.
LEMMA OthersBarred ==
    ASSUME RevokeInv, NEW t \in Threads, UNCHANGED <<pc[t], local[t]>>,
           workspaces \subseteq workspaces',
           keys' \cap workspaces \subseteq keys,
           members' \cap workspaces \subseteq members
    PROVE  Barred(t)'
BY DEF RevokeInv, Barred, Reads, InOrder

LEMMA RevokeStep == RevokeInv /\ [Next]_vars => RevokeInv'
<1> SUFFICES ASSUME RevokeInv, [Next]_vars PROVE RevokeInv'
  OBVIOUS
<1>1. AccountInv /\ AccountInv' /\ TypeOK
  BY AccountStep DEF RevokeInv, AccountInv
<1> SUFFICES ASSUME NEW v \in Threads PROVE Barred(v)'
  BY <1>1 DEF RevokeInv
<1>2. ASSUME NEW p \in issued \cup {None}, NEW n \in Nonces, Challenge(p, n)
      PROVE  Barred(v)'
  BY <1>2, OthersBarred DEF Challenge, thread
<1>3. ASSUME NEW k \in GivenTokens \cup {None}, NEW n \in issued \cup {None}, Logout(k, n)
      PROVE  Barred(v)'
  BY <1>3, OthersBarred DEF Logout, thread
<1>4. ASSUME NEW t \in Threads, ThreadStep(t) PROVE Barred(v)'
  <2>1. CASE v # t
    <3>1. UNCHANGED <<pc[v], local[v]>>
      <4> USE <1>1, <2>1 DEF TypeOK, Goes, Continues, Leaves, Takes
      <4>1. ASSUME NEW n \in Nonces, NEW p \in GivenTokens \cup {None},
                   NEW s \in Subjects, SignIn(t, n, p, s)
            PROVE  UNCHANGED <<pc[v], local[v]>>
        BY <4>1 DEF SignIn
      <4>2. CASE Consume(t) \/ ConsumeFails(t) \/ Ends(t)
        BY <4>2 DEF Consume, ConsumeFails, Ends
      <4>3. CASE Lookup(t) \/ LookupNothing(t) \/ CreateLoses(t) \/ Authorize(t)
        BY <4>3 DEF Lookup, LookupNothing, CreateLoses, Authorize
      <4>4. ASSUME NEW a \in Accounts, Create(t, a)
            PROVE  UNCHANGED <<pc[v], local[v]>>
        BY <4>4 DEF Create, NewAccount
      <4>5. ASSUME NEW k \in Tokens, Rotate(t, k) \/ RequestBegins(t, k)
            PROVE  UNCHANGED <<pc[v], local[v]>>
        BY <4>5 DEF Rotate, RequestBegins
      <4>6. CASE RequestReadsKey(t) \/ RequestReadsMember(t)
        BY <4>6 DEF RequestReadsKey, RequestReadsMember
      <4> QED
        BY <1>4, <4>1, <4>2, <4>3, <4>4, <4>5, <4>6 DEF ThreadStep
    <3>2. /\ workspaces \subseteq workspaces'
          /\ keys' \cap workspaces \subseteq keys
          /\ members' \cap workspaces \subseteq members
      BY <1>4 DEF ThreadStep, SignIn, Consume, ConsumeFails, DeleteChallenge, Lookup,
         LookupNothing, Create, NewAccount, CreateLoses, Authorize, Rotate,
         RequestBegins, RequestReadsKey, RequestReadsMember, Ends, rows
    <3> QED
      BY <3>1, <3>2, OthersBarred
  <2>2. CASE v = t
    <3> USE <1>1, <2>2 DEF TypeOK, Goes, Continues, Leaves, Takes, Barred, Reads
    <3>1. ASSUME NEW k \in Tokens, RequestBegins(t, k) PROVE Barred(v)'
      <4>1. user[k] \in workspaces
        BY <3>1 DEF RequestBegins, AccountInv, AccountsAreWhole
      <4> QED
        BY <3>1, <4>1 DEF RequestBegins, InOrder, rows, NoLocals
    <3>2. CASE RequestReadsKey(t)
      BY <3>2 DEF RequestReadsKey, RevokeInv, InOrder, rows
    <3>3. CASE RequestReadsMember(t)
      BY <3>3 DEF RequestReadsMember, RevokeInv, rows
    <3>4. ASSUME ~(\E k \in Tokens : RequestBegins(t, k)),
                 ~RequestReadsKey(t), ~RequestReadsMember(t)
          PROVE  pc'[t] \notin Reads
      BY <1>4, <3>4 DEF ThreadStep, SignIn, Consume, ConsumeFails, Lookup,
         LookupNothing, Create, NewAccount, CreateLoses, Authorize, Rotate, Ends
    <3> QED
      BY <3>1, <3>2, <3>3, <3>4
  <2> QED
    BY <2>1, <2>2
<1>5. ASSUME NEW a \in Accounts, Disable(a) PROVE Barred(v)'
  BY <1>5, OthersBarred DEF Disable, thread
<1>6. CASE Tick \/ UNCHANGED vars
  BY <1>6, OthersBarred DEF Tick, vars, rows, thread
<1> QED
  BY <1>2, <1>3, <1>4, <1>5, <1>6 DEF Next

\* A request that began when the account was no longer in order is not served,
\* in whatever order session, key and membership are read and revoked.
THEOREM RevokedNotServed == Spec => []RevokedIsNotServed
<1>1. Init => RevokeInv
  <2>1. Init => AccountInv
    BY InitType DEF Init, AccountInv, OneAccountPerSubject, SignsInItsSubject,
       AccountsAreWhole
  <2> QED
    BY <2>1 DEF Init, RevokeInv, Barred, Reads
<1>2. RevokeInv => RevokedIsNotServed
  BY DEF RevokeInv, Barred, RevokedIsNotServed
<1> QED
  BY <1>1, <1>2, RevokeStep, PTL DEF Spec
-----------------------------------------------------------------------------
(***************************************************************************)
(* The contract.  A nonce is offered while its row is there, spent while a *)
(* thread holds it, and used when a token has it as origin: ChallengeInv   *)
(* says that these exclude each other, and AccountInv whose account the    *)
(* thread goes on with.                                                    *)
(***************************************************************************)
ContractInv == ChallengeInv /\ AccountInv

\* The mapped variables are functions of nonces and of subjects.
LEMMA MappedFunctions ==
    /\ statusOf = [n \in Nonces |-> statusOf[n]]
    /\ statusOf' = [n \in Nonces |-> statusOf'[n]]
    /\ signerOf = [n \in Nonces |-> signerOf[n]]
    /\ signerOf' = [n \in Nonces |-> signerOf'[n]]
    /\ accountOf = [s \in Subjects |-> accountOf[s]]
    /\ accountOf' = [s \in Subjects |-> accountOf'[s]]
BY DEF statusOf, signerOf, accountOf

\* The threads a nonce is held by determine its signer.
LEMMA SignerStays ==
    ASSUME NEW n \in Nonces, Holding(n)' = Holding(n),
           \A t \in Holding(n) : local'[t].sub = local[t].sub
    PROVE  signerOf'[n] = signerOf[n]
<1> DEFINE H == Holding(n)
           c == CHOOSE t \in H : TRUE
<1>1. signerOf[n] = IF H # {} THEN local[c].sub ELSE None
  BY DEF signerOf
<1>2. signerOf'[n] = IF H # {} THEN local'[c].sub ELSE None
  BY DEF signerOf
<1>3. H # {} => c \in H
  OBVIOUS
<1> HIDE DEF c, H
<1>4. \A t \in H : local'[t].sub = local[t].sub
  BY DEF H
<1> QED
  BY <1>1, <1>2, <1>3, <1>4

\* The holders' rows, the tokens and the accounts stay, and so does what they stand for.
LEMMA HoldersStay ==
    ASSUME UNCHANGED <<challenge, issued, withdrawn, origin, holder, user>>,
           \A n \in Nonces : Holding(n)' = Holding(n),
           \A t \in Threads : Holds(t) => local'[t].sub = local[t].sub
    PROVE  UNCHANGED Contract!vars
<1>1. \A n \in Nonces : statusOf'[n] = statusOf[n]
  BY DEF statusOf
<1>2. \A n \in Nonces : signerOf'[n] = signerOf[n]
  BY SignerStays DEF Holding
<1>3. accountOf' = accountOf
  BY DEF accountOf, HasAccount
<1>4. GivenTokens' = GivenTokens
  BY DEF GivenTokens
<1> QED
  BY <1>1, <1>2, <1>3, <1>4, MappedFunctions DEF Contract!vars

\* A step of a thread that neither takes nor gives up a nonce, or has none.
LEMMA ThreadOnly ==
    ASSUME NEW t \in Threads, TypeOK,
           UNCHANGED <<challenge, issued, withdrawn, origin, holder, user>>,
           \A v \in Threads : v # t => pc'[v] = pc[v] /\ local'[v] = local[v],
           Holds(t)' <=> Holds(t),
           Holds(t) => local'[t].nonce = local[t].nonce /\ local'[t].sub = local[t].sub
    PROVE  UNCHANGED Contract!vars
<1>1. \A n \in Nonces : Holding(n)' = Holding(n)
  BY DEF Holding, Holds
<1> QED
  BY <1>1, HoldersStay

\* The account of a subject is the one it holds.
LEMMA AccountAt ==
    ASSUME AccountInv, NEW s \in Subjects
    PROVE  /\ \A a \in Accounts : holder[a] = s => accountOf[s] = a
           /\ ~HasAccount(s) => accountOf[s] = None
           /\ HasAccount(s) => accountOf[s] \in Accounts /\ holder[accountOf[s]] = s
<1>1. accountOf[s] = IF HasAccount(s) THEN CHOOSE a \in Accounts : holder[a] = s ELSE None
  BY DEF accountOf
<1>2. HasAccount(s) => \E a \in Accounts : holder[a] = s
  BY DEF HasAccount
<1>3. HasAccount(s) => accountOf[s] \in Accounts /\ holder[accountOf[s]] = s
  BY <1>1, <1>2
<1>4. \A a \in Accounts : holder[a] = s => accountOf[s] = a
  BY <1>3, NoneAssumption DEF AccountInv, OneAccountPerSubject, HasAccount
<1> QED
  BY <1>1, <1>3, <1>4

\* The one thread that holds a nonce is its signer's.
LEMMA SignerAt ==
    ASSUME ChallengeInv, NEW t \in Threads, Holds(t)
    PROVE  /\ local[t].nonce \in Nonces
           /\ Holding(local[t].nonce) = {t}
           /\ signerOf[local[t].nonce] = local[t].sub
           /\ statusOf[local[t].nonce] = "spent"
<1> DEFINE n == local[t].nonce
<1>1. n \in issued \ withdrawn /\ challenge[n] = 0 /\ \A k \in Tokens : origin[k] # n
  BY DEF ChallengeInv, NoncesHeld
<1>2. n \in Nonces
  BY <1>1 DEF ChallengeInv, TypeOK
<1>3. Holding(n) = {t}
  BY DEF Holding, ChallengeInv, HeldOnce
<1> HIDE DEF n
<1>4. signerOf[n] = local[t].sub
  <2>1. (CHOOSE v \in {t} : TRUE) = t
    OBVIOUS
  <2> QED
    BY <1>2, <1>3, <2>1 DEF signerOf
<1>5. statusOf[n] = "spent"
  BY <1>1, <1>2, <1>3 DEF statusOf
<1> QED
  BY <1>2, <1>3, <1>4, <1>5 DEF n

\* A row that is there is of a challenge that is offered.
LEMMA OfferedAt ==
    ASSUME ChallengeInv, NEW n \in Nonces
    PROVE  statusOf[n] = "offered" <=> challenge[n] # 0
BY DEF ChallengeInv, RowsUnused, statusOf

\* POST /challenge offers a new challenge, and withdraws old ones.
LEMMA ChallengeOffers ==
    ASSUME ContractInv, ContractInv', NEW p \in issued \cup {None}, NEW n \in Nonces,
           Challenge(p, n)
    PROVE  Contract!Offer(n)
<1> DEFINE gone == ({p} \cup Expired(challenge)) \ {n}
           N == {m \in gone \cap Nonces : challenge[m] # 0}
           K == Expired(expires) \cap Tokens
<1>a. TypeOK /\ ChallengeInv /\ ChallengeInv'
  BY DEF ContractInv, ChallengeInv
<1>1. /\ n \notin issued /\ issued' = issued \cup {n}
      /\ challenge' = [m \in Nonces |-> IF m = n THEN now + ChallengeLife
                                        ELSE IF m \in gone THEN 0 ELSE challenge[m]]
      /\ withdrawn' = withdrawn \cup {m \in gone \cap issued : challenge[m] # 0}
      /\ UNCHANGED <<pc, local, origin, holder>>
  BY DEF Challenge, thread
<1>2. now + ChallengeLife # 0 /\ challenge[n] = 0 /\ statusOf[n] = "none"
  BY <1>a, <1>1, TimesAssumption DEF TypeOK, ChallengeInv, RowsUnused, statusOf
<1>3. user' = Contract!Ended(K)
  BY <1>a DEF Challenge, DropSessions, Contract!Ended, TypeOK
<1>4. withdrawn' = withdrawn \cup N /\ n \notin N
  BY <1>a, <1>1 DEF ChallengeInv, RowsUnused, TypeOK
<1> HIDE DEF K
<1>5. \A m \in Nonces : Holding(m)' = Holding(m)
  BY <1>1 DEF Holding, Holds
<1>6. \A m \in Nonces : signerOf'[m] = signerOf[m]
  BY <1>1, <1>5, SignerStays
<1>7. accountOf' = accountOf /\ GivenTokens' = GivenTokens
  BY <1>1 DEF accountOf, HasAccount, GivenTokens
<1>8. N \subseteq Contract!Offered
  BY <1>a, OfferedAt DEF Contract!Offered
<1>9. \A m \in Nonces : m \notin N => challenge'[m] = IF m = n THEN now + ChallengeLife ELSE challenge[m]
  BY <1>1
<1>10. \A m \in N : challenge'[m] = 0 /\ m \in issued' /\ m \in withdrawn' /\ m # n
  BY <1>1, <1>a, <1>4 DEF ChallengeInv, RowsUnused
<1> HIDE DEF N, gone
<1>11. ASSUME NEW m \in Nonces
       PROVE  statusOf'[m] = IF m = n THEN "offered" ELSE IF m \in N THEN "withdrawn"
                             ELSE statusOf[m]
  <2>1. CASE m = n
    BY <2>1, <1>1, <1>2, <1>4, <1>9 DEF statusOf
  <2>2. CASE m \in N
    BY <2>2, <1>10 DEF statusOf
  <2>3. CASE m # n /\ m \notin N
    BY <2>3, <1>1, <1>4, <1>5, <1>9 DEF statusOf
  <2> QED
    BY <2>1, <2>2, <2>3
<1>12. statusOf' = [Contract!Without(N) EXCEPT ![n] = "offered"]
  BY <1>11, MappedFunctions DEF Contract!Without
<1> QED
  BY <1>2, <1>3, <1>6, <1>7, <1>8, <1>12, MappedFunctions DEF Contract!Offer, K

\* POST /logout withdraws a challenge and ends a session.
LEMMA LogoutWithdraws ==
    ASSUME ContractInv, NEW k \in GivenTokens \cup {None}, NEW n \in issued \cup {None},
           Logout(k, n)
    PROVE  Contract!Withdraw
<1> DEFINE N == {m \in {n} \cap issued : challenge[m] # 0}
           K == {k} \cap Tokens
<1>a. TypeOK /\ ChallengeInv
  BY DEF ContractInv, ChallengeInv
<1>1. /\ challenge' = [m \in Nonces |-> IF m \in {n} \cap issued THEN 0 ELSE challenge[m]]
      /\ withdrawn' = withdrawn \cup N
      /\ UNCHANGED <<pc, local, origin, holder, issued>>
  BY DEF Logout, DropChallenges, thread
<1>2. user' = Contract!Ended(K)
  BY <1>a DEF Logout, DropSessions, Contract!Ended, TypeOK
<1>3. \A m \in Nonces : Holding(m)' = Holding(m)
  BY <1>1 DEF Holding, Holds
<1>4. \A m \in Nonces : signerOf'[m] = signerOf[m]
  BY <1>1, <1>3, SignerStays
<1>5. accountOf' = accountOf /\ GivenTokens' = GivenTokens
  BY <1>1 DEF accountOf, HasAccount, GivenTokens
<1>6. N \subseteq Contract!Offered
  BY <1>a, OfferedAt DEF Contract!Offered, TypeOK
<1>7. \A m \in Nonces : m \notin N => challenge'[m] = challenge[m]
  BY <1>1
<1>8. \A m \in N : challenge'[m] = 0 /\ m \in issued' /\ m \in withdrawn'
  BY <1>1, <1>a DEF TypeOK
<1> HIDE DEF N, K
<1>9. ASSUME NEW m \in Nonces
      PROVE  statusOf'[m] = IF m \in N THEN "withdrawn" ELSE statusOf[m]
  <2>1. CASE m \in N
    BY <2>1, <1>8 DEF statusOf
  <2>2. CASE m \notin N
    BY <2>2, <1>1, <1>3, <1>7 DEF statusOf
  <2> QED
    BY <2>1, <2>2
<1>10. statusOf' = Contract!Without(N)
  BY <1>9, MappedFunctions DEF Contract!Without
<1> QED
  BY <1>2, <1>4, <1>5, <1>6, <1>10, MappedFunctions DEF Contract!Withdraw, K

\* The counted DELETE spends the challenge for the subject of the credential.
LEMMA ConsumeSpends ==
    ASSUME ContractInv, ContractInv', NEW t \in Threads, Consume(t)
    PROVE  \E n \in Nonces, s \in Subjects : Contract!Spend(n, s)
<1>n. PICK n : n = local[t].nonce
  OBVIOUS
<1>a. TypeOK /\ ChallengeInv /\ ChallengeInv'
  BY DEF ContractInv, ChallengeInv
<1>1. /\ pc[t] = "consume" /\ pc' = [pc EXCEPT ![t] = "lookup"] /\ n \in Nonces
      /\ challenge[n] # 0 /\ challenge' = [challenge EXCEPT ![n] = 0]
      /\ UNCHANGED <<local, issued, withdrawn, origin, holder, user>>
  BY <1>a, <1>n DEF Consume, DeleteChallenge, Continues, Goes, Live, history, ChallengeInv,
     NoncesHeld, TypeOK
<1>2. local[t].sub \in Subjects
  BY <1>1 DEF ContractInv, AccountInv
<1>3. Holds(t)' /\ \A v \in Threads : v # t => (Holds(v)' <=> Holds(v))
  BY <1>1, <1>a DEF Holds, Past, TypeOK
<1>b. ~Holds(t)
  BY <1>1 DEF Holds, Past
<1>4. statusOf'[n] = "spent" /\ signerOf'[n] = local[t].sub
  <2>1. /\ n \in issued' \ withdrawn' /\ challenge'[n] = 0
        /\ \A k \in Tokens : origin'[k] # n
    BY <1>a, <1>n, <1>1, <1>3 DEF ChallengeInv, NoncesHeld
  <2>2. Holding(n)' = {t}
    BY <1>a, <1>n, <1>1, <1>3 DEF Holding, ChallengeInv, HeldOnce
  <2>3. (CHOOSE v \in {t} : TRUE) = t
    OBVIOUS
  <2>4. signerOf'[n] = local'[t].sub
    BY <1>1, <2>2, <2>3 DEF signerOf
  <2> QED
    BY <1>1, <2>1, <2>2, <2>4 DEF statusOf
<1>5. ASSUME NEW m \in Nonces, m # n
      PROVE  statusOf'[m] = statusOf[m] /\ signerOf'[m] = signerOf[m]
  <2>1. Holding(m)' = Holding(m)
    BY <1>n, <1>1, <1>3, <1>b, <1>5 DEF Holding
  <2>2. signerOf'[m] = signerOf[m]
    BY <1>1, <2>1, SignerStays
  <2>3. challenge'[m] = challenge[m]
    BY <1>1, <1>5, <1>a DEF TypeOK
  <2> QED
    BY <1>1, <2>1, <2>2, <2>3 DEF statusOf
<1>6. statusOf[n] = "offered"
  BY <1>1, <1>a, OfferedAt
<1>7. accountOf' = accountOf /\ GivenTokens' = GivenTokens
  BY <1>1 DEF accountOf, HasAccount, GivenTokens
<1>8. /\ statusOf' = [statusOf EXCEPT ![n] = "spent"]
      /\ signerOf' = [signerOf EXCEPT ![n] = local[t].sub]
  BY <1>1, <1>4, <1>5, MappedFunctions
<1>9. Contract!Spend(n, local[t].sub)
  BY <1>1, <1>6, <1>7, <1>8 DEF Contract!Spend
<1> QED
  BY <1>1, <1>2, <1>9

\* The commit of a first sign-in enrolls the subject that has spent the challenge.
LEMMA CreateEnrolls ==
    ASSUME ContractInv, NEW t \in Threads, NEW a \in Accounts, Create(t, a)
    PROVE  \E n \in Nonces : Contract!Enroll(n, a)
<1>n. PICK n, s : n = local[t].nonce /\ s = local[t].sub
  OBVIOUS
<1>a. TypeOK /\ ChallengeInv /\ AccountInv
  BY DEF ContractInv, ChallengeInv
<1>1. /\ pc[t] = "create" /\ pc' = [pc EXCEPT ![t] = "rotate"]
      /\ local' = [local EXCEPT ![t].acct = a]
      /\ ~HasAccount(s) /\ a \notin workspaces
      /\ holder' = [holder EXCEPT ![a] = s]
      /\ UNCHANGED <<challenge, issued, withdrawn, origin, user>>
  BY <1>n DEF Create, NewAccount, Takes, Goes, history
<1>2. s \in Subjects /\ Holds(t)
  BY <1>n, <1>1, <1>a DEF AccountInv, Holds, Past
<1>3. /\ n \in Nonces /\ signerOf[n] = s /\ statusOf[n] = "spent"
  BY <1>n, <1>2, <1>a, SignerAt
<1>4. /\ \A v \in Threads : Holds(v)' <=> Holds(v)
      /\ \A v \in Threads : local'[v].nonce = local[v].nonce /\ local'[v].sub = local[v].sub
  <2>1. local[t] \in Locals
    BY <1>a DEF TypeOK
  <2> QED
    BY <1>1, <1>a, <2>1 DEF Holds, Past, TypeOK, Locals
<1>5. \A m \in Nonces : Holding(m)' = Holding(m)
  BY <1>4 DEF Holding
<1>6. statusOf' = statusOf
  BY <1>1, <1>5 DEF statusOf
<1>7. \A m \in Nonces : signerOf'[m] = signerOf[m]
  BY <1>4, <1>5, SignerStays DEF Holding
<1>8. holder[a] = None /\ \A r \in Subjects : r # None
  BY <1>1, <1>a, NoneAssumption DEF AccountInv, AccountsAreWhole
<1>9. \A r \in Subjects : r # s => accountOf'[r] = accountOf[r]
  <2> SUFFICES ASSUME NEW r \in Subjects, r # s PROVE accountOf'[r] = accountOf[r]
    OBVIOUS
  <2>1. \A x \in Accounts : holder'[x] = r <=> holder[x] = r
    BY <1>1, <1>8, <1>a DEF TypeOK
  <2>2. HasAccount(r)' <=> HasAccount(r)
    BY <2>1 DEF HasAccount
  <2>3. (CHOOSE x \in Accounts : holder'[x] = r) = (CHOOSE x \in Accounts : holder[x] = r)
    BY <2>1
  <2>4. accountOf[r] = IF HasAccount(r) THEN CHOOSE x \in Accounts : holder[x] = r ELSE None
    BY DEF accountOf
  <2>5. accountOf'[r] = IF HasAccount(r)' THEN CHOOSE x \in Accounts : holder'[x] = r ELSE None
    BY DEF accountOf
  <2> QED
    BY <2>2, <2>3, <2>4, <2>5
<1>10. accountOf'[s] = a
  <2>1. \A x \in Accounts : holder'[x] = s <=> x = a
    BY <1>1, <1>a DEF TypeOK, HasAccount
  <2>2. HasAccount(s)' /\ (CHOOSE x \in Accounts : holder'[x] = s) = a
    BY <2>1 DEF HasAccount
  <2> QED
    BY <1>2, <2>2 DEF accountOf
<1>11. accountOf[s] = None /\ \A r \in Subjects : accountOf[r] # a
  BY <1>1, <1>2, <1>8, <1>a, AccountAt, NoneAssumption
<1>12. accountOf' = [accountOf EXCEPT ![s] = a]
  BY <1>2, <1>9, <1>10, MappedFunctions
<1>13. GivenTokens' = GivenTokens
  BY <1>1 DEF GivenTokens
<1>14. Contract!Enroll(n, a)
  BY <1>1, <1>3, <1>6, <1>7, <1>11, <1>12, <1>13, MappedFunctions DEF Contract!Enroll
<1> QED
  BY <1>3, <1>14

\* A nonce that only thread t held and that it gives up has no signer any more.
LEMMA GivenUp ==
    ASSUME ChallengeInv, NEW t \in Threads, Holds(t), ~Holds(t)', NEW n, n = local[t].nonce,
           \A v \in Threads : v # t => pc'[v] = pc[v] /\ local'[v] = local[v]
    PROVE  /\ Holding(n)' = {}
           /\ signerOf' = [signerOf EXCEPT ![n] = None]
           /\ \A m \in Nonces : m # n => Holding(m)' = Holding(m)
<1>1. \A v \in Threads : v # t => (Holds(v)' <=> Holds(v))
  BY DEF Holds
<1>2. n \in Nonces /\ Holding(n) = {t}
  BY SignerAt
<1>3. ASSUME NEW v \in Threads, Holds(v)', local'[v].nonce = n PROVE FALSE
  <2>1. v # t
    BY <1>3
  <2>2. v \in Holding(n)
    BY <1>1, <1>3, <2>1 DEF Holding
  <2> QED
    BY <1>2, <2>1, <2>2
<1>4. Holding(n)' = {}
  BY <1>3 DEF Holding
<1>5. \A m \in Nonces : m # n => Holding(m)' = Holding(m)
  BY <1>1 DEF Holding
<1>6. signerOf'[n] = None
  BY <1>2, <1>4 DEF signerOf
<1>7. ASSUME NEW m \in Nonces, m # n PROVE signerOf'[m] = signerOf[m]
  <2>1. t \notin Holding(m)
    BY <1>7 DEF Holding
  <2> QED
    BY <1>5, <1>7, <2>1, SignerStays DEF Holding
<1>8. signerOf' = [signerOf EXCEPT ![n] = None]
  BY <1>6, <1>7, MappedFunctions
<1> QED
  BY <1>4, <1>5, <1>8

\* The commit of the session issues it for the account of the challenge's signer.
LEMMA RotateIssues ==
    ASSUME ContractInv, NEW t \in Threads, NEW k \in Tokens, Rotate(t, k)
    PROVE  \E n \in Nonces : Contract!Issue(n, k)
<1>n. PICK n, a, K : /\ n = local[t].nonce /\ a = local[t].acct
                     /\ K = {local[t].prev} \cap Tokens
  OBVIOUS
<1>a. TypeOK /\ ChallengeInv /\ AccountInv
  BY DEF ContractInv, ChallengeInv
<1>1. /\ pc[t] = "rotate" /\ pc' = [pc EXCEPT ![t] = "idle"] /\ origin[k] = None
      /\ \A v \in Threads : v # t => local'[v] = local[v]
      /\ origin' = [origin EXCEPT ![k] = n]
      /\ user' = [x \in Tokens |-> IF x = k THEN a
                                   ELSE IF x = local[t].prev THEN None ELSE user[x]]
      /\ UNCHANGED <<challenge, issued, withdrawn, holder>>
  BY <1>a, <1>n DEF Rotate, Leaves, Goes, TypeOK
<1>2. Holds(t) /\ ~Holds(t)' /\ \A v \in Threads : v # t => pc'[v] = pc[v]
  BY <1>1, <1>a DEF Holds, Past, TypeOK
<1>3. /\ n \in Nonces /\ n \in issued \ withdrawn /\ challenge[n] = 0
      /\ statusOf[n] = "spent" /\ signerOf[n] = local[t].sub
  BY <1>n, <1>2, <1>a, SignerAt DEF ChallengeInv, NoncesHeld
<1>4. /\ signerOf' = [signerOf EXCEPT ![n] = None]
      /\ \A m \in Nonces : m # n => Holding(m)' = Holding(m)
  BY <1>n, <1>1, <1>2, <1>a, GivenUp
<1>5. accountOf[local[t].sub] = a /\ a # None
  <2>1. /\ local[t].sub \in Subjects /\ a \in Accounts /\ holder[a] = local[t].sub
    BY <1>n, <1>1, <1>a DEF AccountInv, SignsInItsSubject
  <2> QED
    BY <2>1, <1>a, AccountAt, NoneAssumption
<1>6. user' = [Contract!Ended(K) EXCEPT ![k] = a]
  BY <1>n, <1>1 DEF Contract!Ended
<1>7. GivenTokens' = GivenTokens \cup {k} /\ k \notin GivenTokens
  BY <1>1, <1>3, <1>a, NoneAssumption DEF GivenTokens, TypeOK
<1>8. statusOf'[n] = "used"
  <2>1. origin'[k] = n
    BY <1>1, <1>a DEF TypeOK
  <2> QED
    BY <1>1, <1>3, <2>1 DEF statusOf
<1>9. ASSUME NEW m \in Nonces, m # n PROVE statusOf'[m] = statusOf[m]
  <2>1. (\E j \in Tokens : origin'[j] = m) <=> \E j \in Tokens : origin[j] = m
    BY <1>1, <1>9, <1>a, NoneAssumption DEF TypeOK
  <2> QED
    BY <1>1, <1>4, <1>9, <2>1 DEF statusOf
<1>10. statusOf' = [statusOf EXCEPT ![n] = "used"]
  BY <1>3, <1>8, <1>9, MappedFunctions
<1>11. accountOf' = accountOf
  BY <1>1 DEF accountOf, HasAccount
<1>12. K \in SUBSET Tokens
  BY <1>n
<1>13. Contract!Issue(n, k)
  BY <1>3, <1>4, <1>5, <1>6, <1>7, <1>10, <1>11, <1>12 DEF Contract!Issue
<1> QED
  BY <1>3, <1>13

\* A request that ends takes the challenge with it that it has spent.
LEMMA EndsLoses ==
    ASSUME ContractInv, NEW t \in Threads, Ends(t)
    PROVE  UNCHANGED Contract!vars \/ \E n \in Nonces : Contract!Lose(n)
<1>n. PICK n : n = local[t].nonce
  OBVIOUS
<1>a. TypeOK /\ ChallengeInv
  BY DEF ContractInv, ChallengeInv
<1>1. /\ pc' = [pc EXCEPT ![t] = "idle"]
      /\ \A v \in Threads : v # t => pc'[v] = pc[v] /\ local'[v] = local[v]
      /\ UNCHANGED <<challenge, issued, withdrawn, origin, holder, user>>
  BY <1>a DEF Ends, Leaves, Goes, rows, history, TypeOK
<1>2. ~Holds(t)'
  BY <1>1, <1>a DEF Holds, Past, TypeOK
<1>3. CASE ~Holds(t)
  BY <1>1, <1>2, <1>3, <1>a, ThreadOnly
<1>4. CASE Holds(t)
  <2>1. /\ n \in Nonces /\ n \in issued \ withdrawn /\ challenge[n] = 0
        /\ statusOf[n] = "spent" /\ \A k \in Tokens : origin[k] # n
    BY <1>n, <1>4, <1>a, SignerAt DEF ChallengeInv, NoncesHeld
  <2>2. /\ signerOf' = [signerOf EXCEPT ![n] = None]
        /\ Holding(n)' = {}
        /\ \A m \in Nonces : m # n => Holding(m)' = Holding(m)
    BY <1>n, <1>1, <1>2, <1>4, <1>a, GivenUp
  <2>3. statusOf'[n] = "lost"
    BY <1>1, <2>1, <2>2 DEF statusOf
  <2>4. \A m \in Nonces : m # n => statusOf'[m] = statusOf[m]
    BY <1>1, <2>2 DEF statusOf
  <2>5. statusOf' = [statusOf EXCEPT ![n] = "lost"]
    BY <2>1, <2>3, <2>4, MappedFunctions
  <2>6. accountOf' = accountOf /\ GivenTokens' = GivenTokens
    BY <1>1 DEF accountOf, HasAccount, GivenTokens
  <2>7. Contract!Lose(n)
    BY <1>1, <2>1, <2>2, <2>5, <2>6 DEF Contract!Lose
  <2> QED
    BY <2>1, <2>7
<1> QED
  BY <1>3, <1>4

\* What is left of a thread's steps is hidden by the contract.
LEMMA QuietSteps ==
    ASSUME ContractInv, NEW t \in Threads,
           \/ \E n \in Nonces, p \in GivenTokens \cup {None}, s \in Subjects : SignIn(t, n, p, s)
           \/ ConsumeFails(t) \/ Lookup(t) \/ LookupNothing(t) \/ CreateLoses(t)
           \/ Authorize(t) \/ (\E k \in Tokens : RequestBegins(t, k))
           \/ RequestReadsKey(t) \/ RequestReadsMember(t)
    PROVE  UNCHANGED Contract!vars
<1>a. TypeOK
  BY DEF ContractInv, ChallengeInv
<1> USE DEF TypeOK, rows, history, Goes
<1>1. UNCHANGED <<challenge, issued, withdrawn, origin, holder, user>>
  BY DEF SignIn, ConsumeFails, Lookup, LookupNothing, CreateLoses, Authorize, RequestBegins,
     RequestReadsKey, RequestReadsMember
<1>2. CASE \/ \E n \in Nonces, p \in GivenTokens \cup {None}, s \in Subjects : SignIn(t, n, p, s)
           \/ ConsumeFails(t) \/ \E k \in Tokens : RequestBegins(t, k)
  <2>1. /\ ~Holds(t) /\ ~Holds(t)'
        /\ \A v \in Threads : v # t => pc'[v] = pc[v] /\ local'[v] = local[v]
    BY <1>2, <1>a DEF SignIn, ConsumeFails, RequestBegins, Leaves, Holds, Past
  <2> QED
    BY <1>1, <1>a, <2>1, ThreadOnly
<1>3. CASE LookupNothing(t) \/ Authorize(t) \/ RequestReadsKey(t) \/ RequestReadsMember(t)
  <2>1. /\ Holds(t)' <=> Holds(t)
        /\ local' = local /\ \A v \in Threads : v # t => pc'[v] = pc[v]
    BY <1>3, <1>a DEF LookupNothing, Authorize, RequestReadsKey, RequestReadsMember, Continues,
       Holds, Past
  <2> QED
    BY <1>1, <1>a, <2>1, ThreadOnly
<1>4. CASE Lookup(t) \/ CreateLoses(t)
  <2>1. PICK from \in {"lookup", "create"}, a \in Accounts : Takes(t, from, a, "authorize")
    BY <1>4 DEF Lookup, CreateLoses
  <2>2. local[t] \in Locals
    BY <1>a
  <2>3. /\ Holds(t)' <=> Holds(t)
        /\ \A v \in Threads : v # t => pc'[v] = pc[v] /\ local'[v] = local[v]
        /\ local'[t].nonce = local[t].nonce /\ local'[t].sub = local[t].sub
    BY <1>a, <2>1, <2>2 DEF Takes, Holds, Past, Locals
  <2> QED
    BY <1>1, <1>a, <2>3, ThreadOnly
<1> QED
  BY <1>2, <1>3, <1>4

\* Each step is one of the contract's, or hidden by it.
LEMMA ContractStep ==
    ASSUME ContractInv, ContractInv', [Next]_vars
    PROVE  [Contract!Next]_(Contract!vars)
<1>1. CASE \E p \in issued \cup {None}, n \in Nonces : Challenge(p, n)
  BY <1>1, ChallengeOffers DEF Contract!Next
<1>2. CASE \E k \in GivenTokens \cup {None}, n \in issued \cup {None} : Logout(k, n)
  BY <1>2, LogoutWithdraws DEF Contract!Next
<1>3. CASE \E t \in Threads : ThreadStep(t)
  <2>1. PICK t \in Threads : ThreadStep(t)
    BY <1>3
  <2>2. CASE Consume(t)
    BY <2>2, ConsumeSpends DEF Contract!Next
  <2>3. CASE \E a \in Accounts : Create(t, a)
    BY <2>3, CreateEnrolls DEF Contract!Next
  <2>4. CASE \E k \in Tokens : Rotate(t, k)
    BY <2>4, RotateIssues DEF Contract!Next
  <2>5. CASE Ends(t)
    BY <2>5, EndsLoses DEF Contract!Next
  <2> QED
    BY <2>1, <2>2, <2>3, <2>4, <2>5, QuietSteps DEF ThreadStep
<1>4. CASE (\E a \in Accounts : Disable(a)) \/ Tick \/ UNCHANGED vars
  <2>1. UNCHANGED <<pc, local, challenge, issued, withdrawn, origin, holder, user>>
    BY <1>4 DEF Disable, Tick, vars, rows, thread, history
  <2>2. \A n \in Nonces : Holding(n)' = Holding(n)
    BY <2>1 DEF Holding, Holds
  <2> QED
    BY <2>1, <2>2, HoldersStay
<1> QED
  BY <1>1, <1>2, <1>3, <1>4 DEF Next

\* For any number of threads, browsers and subjects, the statements of the sign-in,
\* however they interleave and wherever they fail, do what the contract promises.
THEOREM SignInsArePromised == Spec => ImplementsSignIns
<1>1. Init => Contract!Init
  <2> SUFFICES ASSUME Init PROVE Contract!Init
    OBVIOUS
  <2>1. \A n \in Nonces : Holding(n) = {}
    BY DEF Init, Holding, Holds, Past
  <2>2. statusOf = [n \in Nonces |-> "none"]
    BY DEF Init, statusOf
  <2>3. signerOf = [n \in Nonces |-> None]
    BY <2>1 DEF signerOf
  <2>4. \A s \in Subjects : ~HasAccount(s)
    BY NoneAssumption DEF Init, HasAccount
  <2>5. accountOf = [s \in Subjects |-> None]
    BY <2>4 DEF accountOf
  <2> QED
    BY <2>2, <2>3, <2>5 DEF Init, GivenTokens, Contract!Init
<1>2. ContractInv /\ ContractInv' /\ [Next]_vars => [Contract!Next]_(Contract!vars)
  BY ContractStep
<1>3. Spec => []ContractInv
  BY ChallengeInvariant, AccountInvariant, PTL DEF ContractInv
<1> QED
  BY <1>1, <1>2, <1>3, PTL DEF Spec, ImplementsSignIns, Contract!Spec
=============================================================================
