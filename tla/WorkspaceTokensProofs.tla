----------------------- MODULE WorkspaceTokensProofs -----------------------
(***************************************************************************)
(* What WorkspaceTokens keeps for any number of processes, and what it     *)
(* keeps with one: that it implements TokenRegister.                       *)
(***************************************************************************)
EXTENDS WorkspaceTokens, TLAPS

\* A request past its look-up is about a workspace that exists; one between its
\* first two commits is its founder's.
RequestsOK ==
    \A p \in Processes :
        /\ pc[p] \in {"check", "own", "find", "write"} => Exists(Workspace(p))
        /\ pc[p] = "own" => founder[Workspace(p)] = User(p)

Inv ==
    TypeOK /\ RequestsOK /\ OnlyFounderOwns /\ AdministratorsRotate /\ TokensAreAdministered

LEMMA InvInit == Init => Inv
BY DEF Init, Inv, TypeOK, RequestsOK, OnlyFounderOwns, AdministratorsRotate,
       TokensAreAdministered, Pcs, Roles

\* A request at hand has a user and a workspace.
LEMMA RequestType ==
    ASSUME TypeOK, NEW p \in Processes, pc[p] # "idle"
    PROVE  User(p) \in Users /\ Workspace(p) \in Workspaces
BY DEF TypeOK, Requests, User, Workspace

\* The end of a request, for whatever reason, disturbs no other.
LEMMA EndsKeeps ==
    ASSUME Inv, NEW p \in Processes, Ends(p),
           UNCHANGED <<founder, role>>,
           digest' \in [Workspaces -> Tokens \cup {Nothing}],
           given' \subseteq Tokens, rows' \subseteq Integration, TokensAreAdministered'
    PROVE  Inv'
<1>1. \A q \in Processes :
          \/ pc'[q] = "idle"
          \/ /\ pc'[q] = pc[q] /\ request'[q] = request[q]
             /\ token'[q] = token[q] /\ found'[q] = found[q]
    BY DEF Ends, Inv, TypeOK
<1>2. /\ pc' \in [Processes -> Pcs] /\ request' \in [Processes -> Requests \cup {Nothing}]
      /\ token' \in [Processes -> Tokens \cup {Nothing}]
      /\ found' \in [Processes -> Tokens \cup {Nothing}]
    BY DEF Ends, Inv, TypeOK, Pcs
<1>3. TypeOK'
    BY <1>1, <1>2 DEF Inv, TypeOK
<1>4. RequestsOK' /\ OnlyFounderOwns' /\ AdministratorsRotate'
    BY <1>1 DEF Inv, RequestsOK, OnlyFounderOwns, AdministratorsRotate, Exists, User, Workspace
<1> QED BY <1>3, <1>4 DEF Inv

\* A step inside a request that leaves the tables of tokens alone.
LEMMA GoesKeeps ==
    ASSUME Inv, NEW p \in Processes, NEW from \in Pcs, NEW to \in Pcs,
           Goes(p, from, to),
           UNCHANGED <<digest, rows, given>>,
           founder' \in [Workspaces -> Users \cup {Nothing}],
           role' \in [Workspaces -> [Users -> Roles]],
           request' \in [Processes -> Requests \cup {Nothing}],
           token' \in [Processes -> Tokens \cup {Nothing}],
           found' \in [Processes -> Tokens \cup {Nothing}],
           \A q \in Processes : q # p => request'[q] = request[q] /\ token'[q] = token[q],
           request'[p] \in Requests, to = "write" => token'[p] \in Tokens,
           \A w \in Workspaces : Exists(w) => founder'[w] = founder[w],
           \A w \in Workspaces, u \in Users :
               role[w][u] \in Administrators => role'[w][u] \in Administrators,
           OnlyFounderOwns',
           to \in {"check", "own", "find", "write"} => Exists(Workspace(p))',
           to = "own" => (founder[Workspace(p)] = User(p))',
           to \in {"find", "write"} => (role[Workspace(p)][User(p)] \in Administrators)'
    PROVE  Inv'
<1>1. pc' \in [Processes -> Pcs] /\ pc'[p] = to
      /\ \A q \in Processes : q # p => pc'[q] = pc[q]
    BY DEF Goes, Inv, TypeOK
<1>2. ASSUME NEW q \in Processes, q # p, pc[q] # "idle"
      PROVE  User(q) \in Users /\ Workspace(q) \in Workspaces
             /\ User(q)' = User(q) /\ Workspace(q)' = Workspace(q)
    BY <1>2, RequestType DEF Inv, User, Workspace
<1>3. TypeOK'
    BY <1>1 DEF Inv, TypeOK
<1>4. RequestsOK'
  <2> SUFFICES ASSUME NEW q \in Processes
               PROVE  /\ pc'[q] \in {"check", "own", "find", "write"} => Exists(Workspace(q))'
                      /\ pc'[q] = "own" => (founder[Workspace(q)] = User(q))'
      BY DEF RequestsOK
  <2>1. CASE q = p
      BY <2>1, <1>1
  <2>2. CASE q # p
      BY <2>2, <1>1, <1>2 DEF Inv, RequestsOK, Exists
  <2> QED BY <2>1, <2>2
<1>5. AdministratorsRotate'
  <2> SUFFICES ASSUME NEW q \in Processes, pc'[q] \in {"find", "write"}
               PROVE  (role[Workspace(q)][User(q)] \in Administrators)'
      BY DEF AdministratorsRotate
  <2>1. CASE q = p
      BY <2>1, <1>1
  <2>2. CASE q # p
      BY <2>2, <1>1, <1>2 DEF Inv, AdministratorsRotate
  <2> QED BY <2>1, <2>2
<1>6. TokensAreAdministered'
    BY DEF Inv, TokensAreAdministered, TypeOK, Integration
<1> QED BY <1>3, <1>4, <1>5, <1>6 DEF Inv

LEMMA StepKeeps ==
    ASSUME Inv, NEW p \in Processes, Step(p)
    PROVE  Inv'
<1> USE DEF database
<1>t. /\ founder \in [Workspaces -> Users \cup {Nothing}]
      /\ role \in [Workspaces -> [Users -> Roles]]
      /\ request \in [Processes -> Requests \cup {Nothing}]
      /\ token \in [Processes -> Tokens \cup {Nothing}]
      /\ found \in [Processes -> Tokens \cup {Nothing}]
      /\ rows \subseteq Integration /\ given \subseteq Tokens
      /\ digest \in [Workspaces -> Tokens \cup {Nothing}]
      /\ OnlyFounderOwns /\ TokensAreAdministered
      /\ pc[p] # "idle" => request[p] \in Requests
    BY DEF Inv, TypeOK
<1>k. {"check", "create", "own", "find", "write", "idle"} \subseteq Pcs
    BY DEF Pcs
<1>1. ASSUME NEW u \in Users, NEW w \in Workspaces, Begin(p, u, w) PROVE Inv'
  <2> DEFINE to == IF Exists(w) THEN "check" ELSE "create"
  <2>1. request' = [request EXCEPT ![p] = [user |-> u, workspace |-> w]]
        /\ [user |-> u, workspace |-> w] \in Requests
        /\ Goes(p, "idle", to) /\ UNCHANGED <<founder, role, digest, rows, given, token, found>>
      BY <1>1 DEF Begin, Requests
  <2>2. request'[p] = [user |-> u, workspace |-> w] /\ Workspace(p)' = w
      BY <2>1, <1>t DEF Workspace
  <2>3. to = "check" => Exists(Workspace(p))'
      BY <2>1, <2>2 DEF Exists
  <2>4. OnlyFounderOwns'
      BY <1>t, <2>1 DEF OnlyFounderOwns
  <2>5. to \in {"check", "create"} /\ to \in Pcs
      BY <1>k
  <2>6. /\ \A q \in Processes : q # p => request'[q] = request[q] /\ token'[q] = token[q]
        /\ request' \in [Processes -> Requests \cup {Nothing}]
      BY <2>1, <1>t
  <2> HIDE DEF to
  <2> QED BY <2>1, <2>2, <2>3, <2>4, <2>5, <2>6, <1>t, <1>k, GoesKeeps
<1>2. CASE Check(p)
  <2>1. /\ Goes(p, "check", "find") /\ UNCHANGED <<founder, role, digest, rows, given, request, token, found>>
        /\ role[Workspace(p)][User(p)] \in Administrators /\ pc[p] = "check"
      BY <1>2 DEF Check, Goes
  <2>2. /\ Exists(Workspace(p))' /\ (role[Workspace(p)][User(p)] \in Administrators)'
      BY <2>1 DEF Inv, RequestsOK, Exists, Workspace, User
  <2>3. OnlyFounderOwns'
      BY <1>t, <2>1 DEF OnlyFounderOwns
  <2> QED BY <2>1, <2>2, <2>3, <1>t, <1>k, GoesKeeps
<1>3. CASE Refuse(p) \/ CreateLoses(p) \/ Fails(p)
  <2>1. Ends(p) /\ UNCHANGED <<founder, role, digest, rows, given>>
      BY <1>3 DEF Refuse, CreateLoses, Fails
  <2>2. TokensAreAdministered'
      BY <2>1, <1>t DEF TokensAreAdministered
  <2> QED BY <2>1, <2>2, <1>t, EndsKeeps
<1>4. CASE Create(p)
  <2>1. /\ Goes(p, "create", "own") /\ UNCHANGED <<role, digest, rows, given, request, token, found>>
        /\ ~Exists(Workspace(p)) /\ pc[p] = "create"
        /\ founder' = [founder EXCEPT ![Workspace(p)] = User(p)]
      BY <1>4 DEF Create, Goes
  <2>2. User(p) \in Users /\ Workspace(p) \in Workspaces
      BY <2>1, RequestType DEF Inv
  <2>3. /\ founder' \in [Workspaces -> Users \cup {Nothing}]
        /\ founder'[Workspace(p)] = User(p)
        /\ \A w \in Workspaces : Exists(w) => founder'[w] = founder[w]
      BY <2>1, <2>2, <1>t
  <2>4. /\ Exists(Workspace(p))' /\ (founder[Workspace(p)] = User(p))'
      BY <2>1, <2>2, <2>3, NothingAssumption DEF Exists, Workspace, User
  <2>5. OnlyFounderOwns'
      BY <1>t, <2>1, <2>3, NothingAssumption DEF OnlyFounderOwns, Exists
  <2> QED BY <2>1, <2>3, <2>4, <2>5, <1>t, <1>k, GoesKeeps
<1>5. CASE Own(p)
  <2>1. /\ Goes(p, "own", "find") /\ UNCHANGED <<founder, digest, rows, given, request, token, found>>
        /\ pc[p] = "own"
        /\ role' = [role EXCEPT ![Workspace(p)][User(p)] = "owner"]
      BY <1>5 DEF Own, Goes
  <2>2. User(p) \in Users /\ Workspace(p) \in Workspaces
      BY <2>1, RequestType DEF Inv
  <2>3. /\ role' \in [Workspaces -> [Users -> Roles]]
        /\ role'[Workspace(p)][User(p)] = "owner"
        /\ \A w \in Workspaces, u \in Users :
               role'[w][u] = role[w][u] \/ (w = Workspace(p) /\ u = User(p))
      BY <2>1, <2>2, <1>t DEF Roles
  <2>4. founder[Workspace(p)] = User(p) /\ Exists(Workspace(p))
      BY <2>1 DEF Inv, RequestsOK
  <2>5. /\ Exists(Workspace(p))' /\ (role[Workspace(p)][User(p)] \in Administrators)'
      BY <2>1, <2>3, <2>4 DEF Exists, Workspace, User, Administrators
  <2>6. OnlyFounderOwns'
      BY <1>t, <2>1, <2>3, <2>4 DEF OnlyFounderOwns
  <2>7. \A w \in Workspaces, u \in Users :
            role[w][u] \in Administrators => role'[w][u] \in Administrators
      BY <2>3 DEF Administrators
  <2> QED BY <2>1, <2>3, <2>5, <2>6, <2>7, <1>t, <1>k, GoesKeeps
<1>6. CASE Find(p)
  <2>1. /\ Goes(p, "find", "write") /\ UNCHANGED <<founder, role, digest, rows, given, request>>
        /\ pc[p] = "find"
      BY <1>6 DEF Find, Goes
  <2>2. PICK t \in Tokens : token' = [token EXCEPT ![p] = t]
      BY <1>6 DEF Find
  <2>3. found' = found \/ \E r \in rows : found' = [found EXCEPT ![p] = r.id]
      BY <1>6 DEF Find
  <2>4. /\ found' \in [Processes -> Tokens \cup {Nothing}]
        /\ token' \in [Processes -> Tokens \cup {Nothing}] /\ token'[p] \in Tokens
        /\ \A q \in Processes : q # p => token'[q] = token[q]
      BY <2>2, <2>3, <1>t DEF Integration
  <2>5. /\ Exists(Workspace(p))' /\ (role[Workspace(p)][User(p)] \in Administrators)'
      BY <2>1 DEF Inv, RequestsOK, AdministratorsRotate, Exists, Workspace, User
  <2>6. OnlyFounderOwns'
      BY <1>t, <2>1 DEF OnlyFounderOwns
  <2> QED BY <2>1, <2>4, <2>5, <2>6, <1>t, <1>k, GoesKeeps
<1>7. CASE Write(p)
  <2>1. /\ pc[p] = "write" /\ Ends(p) /\ UNCHANGED <<founder, role>>
        /\ digest' = [digest EXCEPT ![Workspace(p)] = token[p]]
        /\ rows' = RowsWritten(p) /\ given' = given \cup {token[p]}
      BY <1>7 DEF Write
  <2>2. User(p) \in Users /\ Workspace(p) \in Workspaces /\ token[p] \in Tokens
        /\ role[Workspace(p)][User(p)] \in Administrators
      BY <2>1, RequestType DEF Inv, TypeOK, AdministratorsRotate
  <2>3. \A r \in rows' : r \in Integration
            /\ (r.workspace = Workspace(p) \/ \E s \in rows : s.workspace = r.workspace)
    <3>1. CASE found[p] = Nothing
        BY <3>1, <2>1, <2>2, <1>t DEF RowsWritten, Integration
    <3>2. CASE found[p] # Nothing
      <4>1. \A s \in rows : /\ s \in Integration
                            /\ [s EXCEPT !.token = token[p]] \in Integration
                            /\ [s EXCEPT !.token = token[p]].workspace = s.workspace
          BY <2>2, <1>t DEF Integration
      <4> QED BY <3>2, <4>1, <2>1 DEF RowsWritten
    <3> QED BY <3>1, <3>2
  <2>4. TokensAreAdministered'
      BY <2>1, <2>2, <2>3, <1>t DEF TokensAreAdministered
  <2> QED BY <2>1, <2>2, <2>3, <2>4, <1>t, EndsKeeps
<1> QED BY <1>1, <1>2, <1>3, <1>4, <1>5, <1>6, <1>7 DEF Step

\* What others do to members and workspaces.
LEMMA OthersKeep ==
    ASSUME Inv, NEW u \in Users, NEW w \in Workspaces, SignUp(u, w) \/ AddMember(w, u)
    PROVE  Inv'
<1>1. UNCHANGED <<digest, rows, given, pc, request, token, found>>
    BY DEF SignUp, AddMember, handler
<1>2. \E r \in Roles : role' = [role EXCEPT ![w][u] = r]
      /\ (r = "owner" => ~Exists(w) /\ founder' = [founder EXCEPT ![w] = u])
      /\ (r # "owner" => founder' = founder /\ role[w][u] = "none")
      /\ r \in {"member", "admin", "owner"}
    BY DEF SignUp, AddMember, Roles
<1>3. PICK r \in Roles :
          /\ role' = [role EXCEPT ![w][u] = r]
          /\ r = "owner" => ~Exists(w) /\ founder' = [founder EXCEPT ![w] = u]
          /\ r # "owner" => founder' = founder /\ role[w][u] = "none"
    BY <1>2
<1>4. TypeOK'
    BY <1>1, <1>3 DEF Inv, TypeOK
<1>5. /\ \A x \in Workspaces : Exists(x) => founder'[x] = founder[x]
      /\ \A x \in Workspaces, v \in Users :
             role'[x][v] = role[x][v] \/ (x = w /\ v = u /\ role'[x][v] = r)
    BY <1>3 DEF Inv, TypeOK
<1>6. OnlyFounderOwns'
  <2> SUFFICES ASSUME NEW x \in Workspaces, NEW v \in Users, role'[x][v] = "owner"
               PROVE  founder'[x] = v
      BY DEF OnlyFounderOwns
  <2>1. CASE role[x][v] = "owner"
      BY <2>1, <1>5, NothingAssumption DEF Inv, OnlyFounderOwns, Exists
  <2>2. CASE role[x][v] # "owner"
      BY <2>2, <1>3, <1>5 DEF Inv, TypeOK
  <2> QED BY <2>1, <2>2
<1>7. \A x \in Workspaces, v \in Users :
          role[x][v] \in Administrators => role'[x][v] \in Administrators
  <2>1. r = "owner" => role'[w][u] \in Administrators
      BY <1>3 DEF Inv, TypeOK, Administrators
  <2> QED BY <2>1, <1>3, <1>5 DEF Administrators
<1>8. RequestsOK' /\ AdministratorsRotate'
  <2> SUFFICES ASSUME NEW p \in Processes
               PROVE  /\ pc[p] \in {"check", "own", "find", "write"} => Exists(Workspace(p))'
                      /\ pc[p] = "own" => (founder[Workspace(p)] = User(p))'
                      /\ pc[p] \in {"find", "write"} =>
                             (role[Workspace(p)][User(p)] \in Administrators)'
      BY <1>1 DEF RequestsOK, AdministratorsRotate
  <2>1. User(p)' = User(p) /\ Workspace(p)' = Workspace(p)
      BY <1>1 DEF User, Workspace
  <2> QED BY <2>1, <1>5, <1>7, RequestType DEF Inv, RequestsOK, AdministratorsRotate, Exists
<1>9. TokensAreAdministered'
    BY <1>1, <1>7 DEF Inv, TokensAreAdministered, TypeOK, Integration
<1> QED BY <1>4, <1>6, <1>8, <1>9 DEF Inv

LEMMA InvNext == Inv /\ [Next]_vars => Inv'
<1> SUFFICES ASSUME Inv, [Next]_vars PROVE Inv'
    OBVIOUS
<1>1. CASE UNCHANGED vars
    BY <1>1 DEF vars, Inv, TypeOK, RequestsOK, OnlyFounderOwns, AdministratorsRotate,
                TokensAreAdministered, Exists, User, Workspace
<1> QED BY <1>1, StepKeeps, OthersKeep DEF Next

LEMMA InvAlways == Spec => []Inv
BY InvInit, InvNext, PTL DEF Spec

-----------------------------------------------------------------------------
\* Types are kept.
THEOREM TypeCorrect == Spec => []TypeOK
<1>1. Inv => TypeOK
    BY DEF Inv
<1> QED BY <1>1, InvAlways, PTL

\* However many processes provision one workspace at once, only the user who made
\* it owns it.
THEOREM OneOwner == Spec => []OnlyFounderOwns
<1>1. Inv => OnlyFounderOwns
    BY DEF Inv
<1> QED BY <1>1, InvAlways, PTL

\* A token is rotated for administrators only.
THEOREM RotatedByAdministrators == Spec => []AdministratorsRotate
<1>1. Inv => AdministratorsRotate
    BY DEF Inv
<1> QED BY <1>1, InvAlways, PTL

\* A token that is accepted is of a workspace that somebody can administrate.
THEOREM TokensAdministered == Spec => []TokensAreAdministered
<1>1. Inv => TokensAreAdministered
    BY DEF Inv
<1> QED BY <1>1, InvAlways, PTL

-----------------------------------------------------------------------------
\* Of the tables of tokens, for any number of processes: tokens on their way are new
\* and apart, what a request has found is an integration of its workspace, and
\* integrations share neither ids nor tokens.
TokensOnTheirWay ==
    /\ \A p \in Processes : token[p] # Nothing => token[p] \notin given
    /\ \A p, q \in Processes : token[p] = token[q] /\ token[p] # Nothing => p = q

FoundIsThere ==
    \A p \in Processes :
        /\ found[p] # Nothing => \E r \in rows : r.id = found[p] /\ r.workspace = Workspace(p)
        /\ pc[p] # "write" => found[p] = Nothing

RowsApart ==
    /\ \A r \in rows : r.id \in given /\ r.token \in given
    /\ \A r, s \in rows : r.id = s.id \/ r.token = s.token => r = s

PoolInv == Inv /\ TokensOnTheirWay /\ FoundIsThere /\ RowsApart

\* The integrations after the third commit: each has the id and the workspace of an
\* earlier one and its token too, unless it is the one the request has found or made,
\* which has the new token.
LEMMA RowsAfter ==
    ASSUME PoolInv, NEW p \in Processes, pc[p] = "write"
    PROVE  /\ \A s \in RowsWritten(p) :
                  \/ s \in rows /\ s.id # found[p]
                  \/ /\ s.token = token[p] /\ s.workspace = Workspace(p)
                     /\ s.id = IF found[p] = Nothing THEN token[p] ELSE found[p]
           /\ \A r \in rows : \E s \in RowsWritten(p) : s.id = r.id /\ s.workspace = r.workspace
           /\ RowsWritten(p) \subseteq Integration
<1>1. /\ Workspace(p) \in Workspaces /\ token[p] \in Tokens /\ rows \subseteq Integration
    BY RequestType DEF PoolInv, Inv, TypeOK
<1>2. CASE found[p] = Nothing
  <2>1. RowsWritten(p) =
            rows \cup {[id |-> token[p], workspace |-> Workspace(p), token |-> token[p]]}
      BY <1>2 DEF RowsWritten
  <2>2. \A r \in rows : r.id # found[p]
      BY <1>1, <1>2, NothingAssumption DEF Integration
  <2> QED BY <1>1, <1>2, <2>1, <2>2 DEF Integration
<1>3. CASE found[p] # Nothing
  <2>1. RowsWritten(p) =
            {IF r.id = found[p] THEN [r EXCEPT !.token = token[p]] ELSE r : r \in rows}
      BY <1>3 DEF RowsWritten
  <2>2. \A r \in rows : r.id = found[p] => r.workspace = Workspace(p)
      BY <1>3 DEF PoolInv, FoundIsThere, RowsApart
  <2>3. \A r \in rows : LET n == [r EXCEPT !.token = token[p]]
                        IN  /\ n \in Integration /\ n.id = r.id
                            /\ n.workspace = r.workspace /\ n.token = token[p]
      BY <1>1 DEF Integration
  <2>4. ASSUME NEW s \in RowsWritten(p)
        PROVE  /\ s \in Integration
               /\ \/ s \in rows /\ s.id # found[p]
                  \/ s.token = token[p] /\ s.workspace = Workspace(p) /\ s.id = found[p]
    <3>1. PICK r \in rows : s = IF r.id = found[p] THEN [r EXCEPT !.token = token[p]] ELSE r
        BY <2>1, <2>4
    <3>2. CASE r.id = found[p]
        BY <3>1, <3>2, <2>2, <2>3
    <3>3. CASE r.id # found[p]
        BY <3>1, <3>3, <1>1
    <3> QED BY <3>2, <3>3
  <2>5. ASSUME NEW r \in rows
        PROVE  \E s \in RowsWritten(p) : s.id = r.id /\ s.workspace = r.workspace
    <3>1. (IF r.id = found[p] THEN [r EXCEPT !.token = token[p]] ELSE r) \in RowsWritten(p)
        BY <2>1
    <3> QED BY <3>1, <2>3
  <2> QED BY <1>3, <2>4, <2>5
<1> QED BY <1>2, <1>3

LEMMA PoolNext == PoolInv /\ [Next]_vars => PoolInv'
<1> SUFFICES ASSUME PoolInv, [Next]_vars
             PROVE  TokensOnTheirWay' /\ FoundIsThere' /\ RowsApart'
    BY InvNext DEF PoolInv
<1>t. /\ pc \in [Processes -> Pcs] /\ found \in [Processes -> Tokens \cup {Nothing}]
      /\ token \in [Processes -> Tokens \cup {Nothing}]
      /\ request \in [Processes -> Requests \cup {Nothing}]
      /\ rows \subseteq Integration /\ given \subseteq Tokens
    BY DEF PoolInv, Inv, TypeOK
\* The end of a request forgets its token and what it has found.
<1>1. ASSUME NEW p \in Processes, Ends(p)
      PROVE  /\ pc'[p] = "idle" /\ found'[p] = Nothing /\ token'[p] = Nothing
             /\ \A q \in Processes : q # p =>
                    /\ pc'[q] = pc[q] /\ found'[q] = found[q] /\ token'[q] = token[q]
                    /\ Workspace(q)' = Workspace(q)
    BY <1>1, <1>t DEF Ends, Workspace
<1>2. ASSUME NEW p \in Processes, Ends(p), UNCHANGED <<rows, given>>
      PROVE  TokensOnTheirWay' /\ FoundIsThere' /\ RowsApart'
  <2>1. TokensOnTheirWay'
      BY <1>1, <1>2 DEF PoolInv, TokensOnTheirWay
  <2>2. FoundIsThere'
      BY <1>1, <1>2 DEF PoolInv, FoundIsThere
  <2> QED BY <1>2, <2>1, <2>2 DEF PoolInv, RowsApart
\* Steps before the third commit draws near.
<1>3. ASSUME NEW p \in Processes, NEW from \in Pcs \ {"write"}, NEW to \in Pcs,
             Goes(p, from, to), UNCHANGED <<rows, given, found, token>>,
             \A q \in Processes : q # p => request'[q] = request[q]
      PROVE  TokensOnTheirWay' /\ FoundIsThere' /\ RowsApart'
  <2>1. found[p] = Nothing /\ \A q \in Processes : q # p => pc'[q] = pc[q]
      BY <1>3, <1>t DEF Goes, PoolInv, FoundIsThere
  <2>2. FoundIsThere'
      BY <1>3, <2>1 DEF PoolInv, FoundIsThere, Workspace
  <2> QED BY <1>3, <2>2 DEF PoolInv, TokensOnTheirWay, RowsApart
<1>4. ASSUME NEW p \in Processes, Step(p)
      PROVE  TokensOnTheirWay' /\ FoundIsThere' /\ RowsApart'
  <2> USE DEF database
  <2>k. {"idle", "check", "create", "own", "find"} \subseteq Pcs \ {"write"}
      BY DEF Pcs
  <2>1. ASSUME NEW u \in Users, NEW w \in Workspaces, Begin(p, u, w)
        PROVE  TokensOnTheirWay' /\ FoundIsThere' /\ RowsApart'
    <3>1. PICK to \in {"check", "create"} : Goes(p, "idle", to)
        BY <2>1 DEF Begin
    <3>2. /\ UNCHANGED <<rows, given, found, token>>
          /\ \A q \in Processes : q # p => request'[q] = request[q]
        BY <2>1, <1>t DEF Begin
    <3> QED BY <3>1, <3>2, <2>k, <1>3
  <2>2. CASE Check(p) \/ Create(p) \/ Own(p)
    <3>1. PICK from \in {"check", "create", "own"}, to \in {"own", "find"} : Goes(p, from, to)
        BY <2>2 DEF Check, Create, Own
    <3>2. UNCHANGED <<rows, given, found, token, request>>
        BY <2>2 DEF Check, Create, Own
    <3> QED BY <3>1, <3>2, <2>k, <1>3
  <2>3. CASE Refuse(p) \/ CreateLoses(p) \/ Fails(p)
      BY <2>3, <1>2 DEF Refuse, CreateLoses, Fails
  <2>4. CASE Find(p)
    <3>1. /\ pc'[p] = "write" /\ UNCHANGED <<rows, given, request>>
          /\ \A q \in Processes : q # p => pc'[q] = pc[q]
          /\ found[p] = Nothing
        BY <2>4, <1>t DEF Find, Goes, PoolInv, FoundIsThere
    <3>2. PICK t \in Tokens \ given : /\ \A q \in Processes : token[q] # t
                                      /\ token' = [token EXCEPT ![p] = t]
        BY <2>4 DEF Find
    <3>3. TokensOnTheirWay'
        BY <3>1, <3>2, <1>t DEF PoolInv, TokensOnTheirWay
    <3>4. \/ found' = found
          \/ \E r \in rows : r.workspace = Workspace(p) /\ found' = [found EXCEPT ![p] = r.id]
        BY <2>4 DEF Find
    <3>5. FoundIsThere'
        BY <3>1, <3>4, <1>t DEF PoolInv, FoundIsThere, Workspace
    <3> QED BY <3>1, <3>3, <3>5 DEF PoolInv, RowsApart
  <2>5. CASE Write(p)
    <3>1. /\ pc[p] = "write" /\ Ends(p) /\ rows' = RowsWritten(p)
          /\ given' = given \cup {token[p]}
        BY <2>5 DEF Write
    <3>2. token[p] \in Tokens /\ token[p] # Nothing /\ token[p] \notin given
        BY <3>1, NothingAssumption DEF PoolInv, Inv, TypeOK, TokensOnTheirWay
    <3>3. TokensOnTheirWay'
        BY <3>1, <3>2, <1>1 DEF PoolInv, TokensOnTheirWay
    <3>4. \A r \in rows : \E s \in rows' : s.id = r.id /\ s.workspace = r.workspace
        BY <3>1, RowsAfter
    <3>5. FoundIsThere'
        BY <3>1, <3>4, <1>1 DEF PoolInv, FoundIsThere
    <3>6. /\ rows' \subseteq Integration
          /\ \A s \in rows' :
                 \/ s \in rows /\ s.id # found[p]
                 \/ /\ s.token = token[p] /\ s.workspace = Workspace(p)
                    /\ s.id = IF found[p] = Nothing THEN token[p] ELSE found[p]
        BY <3>1, RowsAfter
    <3>7. found[p] # Nothing => found[p] \in given
        BY DEF PoolInv, FoundIsThere, RowsApart
    <3>8. \A s \in rows' : s.id \in given' /\ s.token \in given'
        BY <3>1, <3>6, <3>7 DEF PoolInv, RowsApart
    <3>9. \A r, s \in rows' : r.id = s.id \/ r.token = s.token => r = s
      <4> SUFFICES ASSUME NEW r \in rows', NEW s \in rows', r.id = s.id \/ r.token = s.token
                   PROVE  r = s
          OBVIOUS
      <4>1. CASE r \in rows /\ s \in rows
          BY <4>1 DEF PoolInv, RowsApart
      <4>2. CASE r.token = token[p] /\ s.token = token[p]
          BY <4>2, <3>2, <3>6 DEF PoolInv, RowsApart, Integration
      <4>3. \A x, y \in rows' :
                x \in rows /\ x.id # found[p] /\ y.token = token[p]
                    => \/ y \in rows
                       \/ x.id # y.id /\ x.token # y.token
          BY <3>2, <3>6 DEF PoolInv, RowsApart
      <4> QED BY <3>6, <4>1, <4>2, <4>3
    <3> QED BY <3>3, <3>5, <3>8, <3>9 DEF RowsApart
  <2> QED BY <1>4, <2>1, <2>2, <2>3, <2>4, <2>5 DEF Step
<1>5. ASSUME UNCHANGED <<rows, given, handler>>
      PROVE  TokensOnTheirWay' /\ FoundIsThere' /\ RowsApart'
    BY <1>5 DEF handler, PoolInv, TokensOnTheirWay, FoundIsThere, RowsApart, Workspace
<1> QED BY <1>4, <1>5 DEF Next, SignUp, AddMember, vars, handler

LEMMA PoolAlways == Spec => []PoolInv
<1>1. Init => PoolInv
    BY InvInit DEF Init, PoolInv, TokensOnTheirWay, FoundIsThere, RowsApart
<1> QED BY <1>1, PoolNext, PTL DEF Spec

\* A token opens one workspace only, however many processes draw and rotate tokens.
TokensAreOfOneWorkspace ==
    \A t \in Tokens, v, w \in Workspaces : Resolves(t, v) /\ Resolves(t, w) => v = w

\* However many processes rotate at once, two workspaces never share a token.
THEOREM OneWorkspacePerToken == Spec => []TokensAreOfOneWorkspace
<1>1. PoolInv => TokensAreOfOneWorkspace
    BY DEF PoolInv, RowsApart, TokensAreOfOneWorkspace, Resolves
<1> QED BY <1>1, PoolAlways, PTL

\* A step after which a workspace accepts one more token is the third commit of a
\* request for that workspace, whose user may administrate it, and the token has
\* never been accepted before.
OnlyAsked ==
    \A t \in Tokens, w \in Workspaces :
        Resolves(t, w)' /\ ~Resolves(t, w) =>
            /\ t \notin given
            /\ \E p \in Processes :
                   /\ pc[p] = "write" /\ Workspace(p) = w /\ token[p] = t
                   /\ role[w][User(p)] \in Administrators
NewTokensAreAsked == [][OnlyAsked]_vars

\* However many processes provision and rotate, and whatever fails, no former token
\* is accepted again, nor any that no administrator of the workspace asked for.
THEOREM NoTokenReturns == Spec => NewTokensAreAsked
<1>1. ASSUME PoolInv, [Next]_vars PROVE OnlyAsked
  <2> SUFFICES ASSUME NEW t \in Tokens, NEW w \in Workspaces, Resolves(t, w)', ~Resolves(t, w)
               PROVE  /\ t \notin given
                      /\ \E p \in Processes :
                             /\ pc[p] = "write" /\ Workspace(p) = w /\ token[p] = t
                             /\ role[w][User(p)] \in Administrators
      BY DEF OnlyAsked
  <2>1. rows' # rows
      BY DEF Resolves
  <2>2. PICK p \in Processes : Write(p)
      BY <1>1, <2>1 DEF Next, vars, SignUp, AddMember, Step, Begin, Check, Refuse, Create,
                        CreateLoses, Own, Find, Fails, database
  <2>3. pc[p] = "write" /\ rows' = RowsWritten(p)
      BY <2>2 DEF Write
  <2>4. PICK s \in rows' : s.workspace = w /\ s.token = t
      BY DEF Resolves
  <2>5. s \notin rows
      BY <1>1, <2>4 DEF Resolves
  <2>6. s.token = token[p] /\ s.workspace = Workspace(p)
      BY <1>1, <2>3, <2>4, <2>5, RowsAfter
  <2>7. token[p] \in Tokens /\ token[p] # Nothing
      BY <1>1, <2>3, NothingAssumption DEF PoolInv, Inv, TypeOK
  <2>8. t \notin given
      BY <1>1, <2>4, <2>6, <2>7 DEF PoolInv, TokensOnTheirWay
  <2>9. role[w][User(p)] \in Administrators
      BY <1>1, <2>3, <2>4, <2>6 DEF PoolInv, Inv, AdministratorsRotate
  <2> QED BY <2>3, <2>4, <2>6, <2>8, <2>9
<1> QED BY <1>1, PoolAlways, PTL DEF Spec, NewTokensAreAsked

-----------------------------------------------------------------------------
\* The assumption of what follows: one process serves all requests.
OneProcess == \A p, q \in Processes : p = q

\* A workspace has one integration, which has its token; the rest keeps ids apart.
RowsOK ==
    /\ \A r \in rows : r.id \in given /\ r.token \in given /\ digest[r.workspace] = r.token
    /\ \A r, s \in rows : r.workspace = s.workspace \/ r.id = s.id => r = s
    /\ \A w \in Workspaces :
           digest[w] # Nothing => Exists(w) /\ \E r \in rows : r.workspace = w

\* What a request has found is still so when it writes.
FoundOK ==
    \A p \in Processes :
        /\ pc[p] # "write" => found[p] = Nothing
        /\ pc[p] = "write" =>
               /\ token[p] \notin given
               /\ IF found[p] = Nothing
                  THEN \A r \in rows : r.workspace # Workspace(p)
                  ELSE \E r \in rows : r.id = found[p] /\ r.workspace = Workspace(p)

SoloInv == Inv /\ RowsOK /\ FoundOK

\* What the third commit leaves of the integrations: the others, and one with the
\* new token.
LEMMA WriteRows ==
    ASSUME SoloInv, NEW p \in Processes, pc[p] = "write"
    PROVE  \E n \in Integration :
               /\ n.workspace = Workspace(p) /\ n.token = token[p]
               /\ n.id \in given \cup {token[p]}
               /\ \A s \in rows : s.workspace # Workspace(p) => s.id # n.id
               /\ RowsWritten(p) = {s \in rows : s.workspace # Workspace(p)} \cup {n}
<1>1. /\ Workspace(p) \in Workspaces /\ token[p] \in Tokens /\ token[p] \notin given
      /\ rows \subseteq Integration
    BY RequestType DEF SoloInv, Inv, TypeOK, FoundOK
<1>2. CASE found[p] = Nothing
  <2> DEFINE n == [id |-> token[p], workspace |-> Workspace(p), token |-> token[p]]
  <2>1. n \in Integration /\ n.workspace = Workspace(p) /\ n.token = token[p] /\ n.id = token[p]
      BY <1>1 DEF Integration
  <2>2. \A s \in rows : s.workspace # Workspace(p) /\ s.id # n.id
      BY <1>1, <1>2, <2>1 DEF SoloInv, FoundOK, RowsOK
  <2>3. RowsWritten(p) = rows \cup {n}
      BY <1>2 DEF RowsWritten
  <2> HIDE DEF n
  <2>4. RowsWritten(p) = {s \in rows : s.workspace # Workspace(p)} \cup {n}
      BY <2>2, <2>3
  <2> QED BY <2>1, <2>2, <2>4
<1>3. CASE found[p] # Nothing
  <2>1. PICK r \in rows : r.id = found[p] /\ r.workspace = Workspace(p)
      BY <1>3 DEF SoloInv, FoundOK
  <2> DEFINE n == [r EXCEPT !.token = token[p]]
  <2>2. /\ n \in Integration /\ n.workspace = Workspace(p) /\ n.token = token[p]
        /\ n.id = r.id /\ r.id \in given
      BY <1>1, <2>1 DEF Integration, SoloInv, RowsOK
  <2>3. \A s \in rows : (s.id = found[p] <=> s = r) /\ (s.workspace = Workspace(p) <=> s = r)
      BY <2>1 DEF SoloInv, RowsOK
  <2>4. RowsWritten(p) = {IF s.id = found[p] THEN [s EXCEPT !.token = token[p]] ELSE s : s \in rows}
      BY <1>3 DEF RowsWritten
  <2>5. RowsWritten(p) = {IF s = r THEN n ELSE s : s \in rows}
      BY <2>3, <2>4
  <2> HIDE DEF n
  <2>6. RowsWritten(p) = {s \in rows : s.workspace # Workspace(p)} \cup {n}
      BY <2>1, <2>3, <2>5
  <2>7. \A s \in rows : s.workspace # Workspace(p) => s.id # n.id
      BY <2>1, <2>2, <2>3
  <2> QED BY <2>2, <2>6, <2>7
<1> QED BY <1>2, <1>3

LEMMA SoloNext ==
    ASSUME OneProcess PROVE SoloInv /\ [Next]_vars => SoloInv'
<1> SUFFICES ASSUME SoloInv, [Next]_vars PROVE RowsOK' /\ FoundOK'
    BY InvNext DEF SoloInv
<1>t. /\ founder \in [Workspaces -> Users \cup {Nothing}]
      /\ digest \in [Workspaces -> Tokens \cup {Nothing}]
      /\ pc \in [Processes -> Pcs] /\ found \in [Processes -> Tokens \cup {Nothing}]
      /\ token \in [Processes -> Tokens \cup {Nothing}]
      /\ request \in [Processes -> Requests \cup {Nothing}]
      /\ rows \subseteq Integration
    BY DEF SoloInv, Inv, TypeOK
\* Steps that leave the tokens alone, and do not lead to the third commit.
<1>1. ASSUME UNCHANGED <<digest, rows, given>>,
             \A w \in Workspaces : Exists(w) => Exists(w)'
      PROVE  RowsOK'
    BY <1>1 DEF SoloInv, RowsOK
<1>2. ASSUME NEW p \in Processes, pc'[p] # "write", found'[p] = Nothing
      PROVE  FoundOK'
    BY <1>2, OneProcess DEF OneProcess, FoundOK
<1>3. ASSUME NEW p \in Processes, Ends(p) PROVE FoundOK'
  <2>1. pc'[p] = "idle" /\ found'[p] = Nothing
      BY <1>3, <1>t DEF Ends
  <2> QED BY <2>1, <1>2
<1>4. ASSUME NEW p \in Processes, NEW from \in Pcs \ {"write"}, NEW to \in Pcs \ {"write"},
             Goes(p, from, to), UNCHANGED found
      PROVE  FoundOK'
  <2>1. pc[p] # "write" /\ pc'[p] # "write" /\ found'[p] = Nothing
      BY <1>4, <1>t DEF Goes, SoloInv, FoundOK
  <2> QED BY <2>1, <1>2
<1>5. ASSUME NEW p \in Processes, Step(p) PROVE RowsOK' /\ FoundOK'
  <2> USE DEF database
  <2>k. {"check", "create", "own", "find", "idle"} \subseteq Pcs \ {"write"}
      BY DEF Pcs
  <2>1. ASSUME NEW u \in Users, NEW w \in Workspaces, Begin(p, u, w) PROVE RowsOK' /\ FoundOK'
    <3>1. PICK to \in {"check", "create"} : Goes(p, "idle", to)
        BY <2>1 DEF Begin
    <3>2. UNCHANGED <<founder, digest, rows, given, found>>
        BY <2>1 DEF Begin
    <3> QED BY <3>1, <3>2, <2>k, <1>1, <1>4 DEF Exists
  <2>2. CASE Check(p) \/ Own(p)
    <3>1. PICK from \in {"check", "own"} : Goes(p, from, "find")
        BY <2>2 DEF Check, Own
    <3>2. UNCHANGED <<founder, digest, rows, given, found>>
        BY <2>2 DEF Check, Own
    <3> QED BY <3>1, <3>2, <2>k, <1>1, <1>4 DEF Exists
  <2>3. CASE Refuse(p) \/ CreateLoses(p) \/ Fails(p)
    <3>1. Ends(p) /\ UNCHANGED <<founder, digest, rows, given>>
        BY <2>3 DEF Refuse, CreateLoses, Fails
    <3> QED BY <3>1, <1>1, <1>3 DEF Exists
  <2>4. CASE Create(p)
    <3>1. /\ Goes(p, "create", "own") /\ UNCHANGED <<digest, rows, given, found>>
          /\ founder' = [founder EXCEPT ![Workspace(p)] = User(p)]
          /\ ~Exists(Workspace(p))
        BY <2>4 DEF Create
    <3>2. \A w \in Workspaces : Exists(w) => Exists(w)'
        BY <3>1, <1>t DEF Exists
    <3> QED BY <3>1, <3>2, <2>k, <1>1, <1>4
  <2>5. CASE Find(p)
    <3>1. /\ pc'[p] = "write" /\ pc[p] = "find" /\ found[p] = Nothing
          /\ UNCHANGED <<founder, digest, rows, given, request>>
        BY <2>5, <1>t DEF Find, Goes, SoloInv, FoundOK
    <3>2. PICK t \in Tokens \ given : token' = [token EXCEPT ![p] = t]
        BY <2>5 DEF Find
    <3>3. token'[p] \notin given'
        BY <3>1, <3>2, <1>t
    <3>4. Workspace(p)' = Workspace(p)
        BY <3>1 DEF Workspace
    <3>5. \/ found' = found /\ {r \in rows : r.workspace = Workspace(p)} = {}
          \/ \E r \in {s \in rows : s.workspace = Workspace(p)} :
                 found' = [found EXCEPT ![p] = r.id]
        BY <2>5 DEF Find
    <3>6. IF found'[p] = Nothing
          THEN \A r \in rows : r.workspace # Workspace(p)
          ELSE \E r \in rows : r.id = found'[p] /\ r.workspace = Workspace(p)
      <4>1. CASE found' = found /\ {r \in rows : r.workspace = Workspace(p)} = {}
          BY <4>1, <3>1
      <4>2. ASSUME NEW r \in rows, r.workspace = Workspace(p),
                   found' = [found EXCEPT ![p] = r.id]
            PROVE  found'[p] = r.id /\ r.id # Nothing
          BY <4>2, <1>t, NothingAssumption DEF Integration
      <4> QED BY <3>5, <4>1, <4>2
    <3>7. FoundOK'
        BY <3>1, <3>3, <3>4, <3>6, OneProcess DEF FoundOK, OneProcess
    <3> QED BY <3>1, <3>7, <1>1 DEF Exists
  <2>6. CASE Write(p)
    <3>1. /\ pc[p] = "write" /\ Ends(p) /\ UNCHANGED founder
          /\ digest' = [digest EXCEPT ![Workspace(p)] = token[p]]
          /\ rows' = RowsWritten(p) /\ given' = given \cup {token[p]}
        BY <2>6 DEF Write
    <3>2. PICK n \in Integration :
               /\ n.workspace = Workspace(p) /\ n.token = token[p]
               /\ n.id \in given \cup {token[p]}
               /\ \A s \in rows : s.workspace # Workspace(p) => s.id # n.id
               /\ rows' = {s \in rows : s.workspace # Workspace(p)} \cup {n}
        BY <3>1, WriteRows
    <3>3. /\ Workspace(p) \in Workspaces /\ token[p] \in Tokens /\ Exists(Workspace(p))
        BY <3>1, RequestType DEF SoloInv, Inv, TypeOK, RequestsOK
    <3>4. /\ digest'[Workspace(p)] = token[p]
          /\ \A w \in Workspaces : w # Workspace(p) => digest'[w] = digest[w]
        BY <3>1, <3>3, <1>t
    <3>5. \A r \in rows' : \/ r = n
                           \/ r \in rows /\ r.workspace # Workspace(p) /\ r.workspace \in Workspaces
        BY <3>2, <1>t DEF Integration
    <3>6. \A r \in rows' : /\ r.id \in given' /\ r.token \in given'
                           /\ digest'[r.workspace] = r.token
        BY <3>1, <3>2, <3>4, <3>5 DEF SoloInv, RowsOK
    <3>7. \A r, s \in rows' : r.workspace = s.workspace \/ r.id = s.id => r = s
        BY <3>2, <3>5 DEF SoloInv, RowsOK
    <3>8. ASSUME NEW w \in Workspaces, digest'[w] # Nothing
          PROVE  Exists(w)' /\ \E r \in rows' : r.workspace = w
      <4>1. CASE w = Workspace(p)
          BY <4>1, <3>1, <3>2, <3>3 DEF Exists
      <4>2. CASE w # Workspace(p)
          BY <4>2, <3>1, <3>2, <3>4, <3>8 DEF SoloInv, RowsOK, Exists
      <4> QED BY <4>1, <4>2
    <3>9. RowsOK'
        BY <3>6, <3>7, <3>8 DEF RowsOK
    <3> QED BY <3>1, <3>9, <1>3
  <2> QED BY <1>5, <2>1, <2>2, <2>3, <2>4, <2>5, <2>6 DEF Step
<1>6. ASSUME NEW u \in Users, NEW w \in Workspaces, SignUp(u, w) \/ AddMember(w, u)
      PROVE  RowsOK' /\ FoundOK'
  <2>1. /\ UNCHANGED <<digest, rows, given, pc, request, token, found>>
        /\ founder' = founder \/ (~Exists(w) /\ founder' = [founder EXCEPT ![w] = u])
      BY <1>6 DEF SignUp, AddMember, handler
  <2>2. \A x \in Workspaces : Exists(x) => Exists(x)'
      BY <2>1, <1>t DEF Exists
  <2>3. FoundOK'
      BY <2>1 DEF SoloInv, FoundOK, Workspace
  <2> QED BY <2>1, <2>2, <2>3, <1>1
<1>7. CASE UNCHANGED vars
    BY <1>7 DEF vars, SoloInv, RowsOK, FoundOK, Exists, Workspace
<1> QED BY <1>5, <1>6, <1>7 DEF Next

LEMMA SoloAlways == ASSUME OneProcess PROVE Spec => []SoloInv
<1>1. Init => SoloInv
    BY InvInit DEF Init, SoloInv, RowsOK, FoundOK
<1> QED BY <1>1, SoloNext, OneProcess, PTL DEF Spec

\* With one process the digest kept with the workspace and the one kept with its
\* integration say the same of every token.
THEOREM Agree == ASSUME OneProcess PROVE Spec => []ChecksAgree
<1>1. SoloInv => ChecksAgree
  <2> SUFFICES ASSUME SoloInv, NEW w \in Workspaces, NEW t \in Tokens
               PROVE  Resolves(t, w) <=> Verifies(t, w)
      BY DEF ChecksAgree
  <2>1. ASSUME Resolves(t, w) PROVE Verifies(t, w)
      BY <2>1, NothingAssumption DEF Resolves, Verifies, SoloInv, RowsOK
  <2>2. ASSUME Verifies(t, w) PROVE Resolves(t, w)
      BY <2>2, NothingAssumption DEF Resolves, Verifies, SoloInv, RowsOK
  <2> QED BY <2>1, <2>2
<1> QED BY <1>1, SoloAlways, OneProcess, PTL

\* With one process, whatever fails, the integrations are a register of one token
\* for each workspace in which no former token comes back.
THEOREM Refinement == ASSUME OneProcess PROVE Spec => ImplementsRegister
<1> DEFINE current == [w \in Workspaces |-> {t \in Tokens : Resolves(t, w)}]
<1>1. Init => Register!Init
    BY DEF Init, Register!Init, Resolves
<1>2. ASSUME SoloInv, [Next]_vars PROVE [Register!Next]_(Register!vars)
  <2>1. ASSUME NEW p \in Processes, Write(p) PROVE Register!Next
    <3>1. /\ pc[p] = "write" /\ rows' = RowsWritten(p) /\ given' = given \cup {token[p]}
        BY <2>1 DEF Write
    <3>2. PICK n \in Integration :
               /\ n.workspace = Workspace(p) /\ n.token = token[p]
               /\ rows' = {s \in rows : s.workspace # Workspace(p)} \cup {n}
        BY <1>2, <3>1, WriteRows
    <3>3. Workspace(p) \in Workspaces /\ token[p] \in Tokens /\ token[p] \notin given
        BY <1>2, <3>1, RequestType DEF SoloInv, Inv, TypeOK, FoundOK
    <3>4. \A w \in Workspaces, t \in Tokens :
              Resolves(t, w)' <=> IF w = Workspace(p) THEN t = token[p] ELSE Resolves(t, w)
        BY <3>2 DEF Resolves
    <3>5. current' = [current EXCEPT ![Workspace(p)] = {token[p]}]
        BY <3>3, <3>4
    <3> QED BY <3>1, <3>3, <3>5 DEF Register!Next, Register!Rotate
  <2>2. CASE UNCHANGED <<rows, given>>
      BY <2>2 DEF Register!vars, Resolves
  <2>3. ASSUME NEW p \in Processes, Step(p), ~Write(p) PROVE UNCHANGED <<rows, given>>
      BY <2>3 DEF Step, Begin, Check, Refuse, Create, CreateLoses, Own, Find, Fails, database
  <2> QED BY <1>2, <2>1, <2>2, <2>3 DEF Next, SignUp, AddMember, vars
<1> QED BY <1>1, <1>2, SoloAlways, OneProcess, PTL
        DEF ImplementsRegister, Register!Spec, Spec
=============================================================================
