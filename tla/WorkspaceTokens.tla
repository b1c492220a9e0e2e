--------------------------- MODULE WorkspaceTokens ---------------------------
(***************************************************************************)
(* Provisioning of workspaces and of their webhook tokens                  *)
(* (api/v1/routes/workspace.py, db/ingestion.py).  A request makes a       *)
(* workspace, its owner and its token in three commits.  A server process  *)
(* serves one request after another; several processes may share the       *)
(* database.                                                               *)
(***************************************************************************)
CONSTANTS
    Processes,
    Workspaces,
    Users,        \* those with a valid key or session
    Tokens,       \* what secrets.token_urlsafe may draw
    Nothing,      \* None
    MayFail       \* whether statements, commits and processes fail

Requests == [user : Users, workspace : Workspaces]

ASSUME NothingAssumption == Nothing \notin Tokens \cup Users \cup Requests
ASSUME MayFailAssumption == MayFail \in BOOLEAN

VARIABLES
    founder,      \* workspaces: who made each of them, by a request or by signing up
    role,         \* workspace_members
    digest,       \* workspaces.webhook_token_hash
    rows,         \* workspace_integrations
    given,        \* history: the tokens that were committed
    pc,           \* where each process is in its request
    request,      \* its parameters
    token,        \* the token it has drawn
    found         \* the integration it has found

database == <<founder, role, digest, rows, given>>
handler == <<pc, request, token, found>>
vars == <<founder, role, digest, rows, given, pc, request, token, found>>

Roles == {"none", "member", "admin", "owner"}
Administrators == {"admin", "owner"}
Pcs == {"idle", "check", "create", "own", "find", "write"}

\* An integration is known by the first token it had.
Integration == [id : Tokens, workspace : Workspaces, token : Tokens]

Exists(w) == founder[w] # Nothing

\* resolve_webhook_workspace
Resolves(t, w) == \E r \in rows : r.workspace = w /\ r.token = t

\* verify_workspace_webhook_token
Verifies(t, w) == Exists(w) /\ digest[w] = t

Init ==
    /\ founder = [w \in Workspaces |-> Nothing]
    /\ role = [w \in Workspaces |-> [u \in Users |-> "none"]]
    /\ digest = [w \in Workspaces |-> Nothing]
    /\ rows = {}
    /\ given = {}
    /\ pc = [p \in Processes |-> "idle"]
    /\ request = [p \in Processes |-> Nothing]
    /\ token = [p \in Processes |-> Nothing]
    /\ found = [p \in Processes |-> Nothing]

-----------------------------------------------------------------------------
User(p) == request[p].user
Workspace(p) == request[p].workspace

Goes(p, from, to) ==
    /\ pc[p] = from
    /\ pc' = [pc EXCEPT ![p] = to]

Ends(p) ==
    /\ pc' = [pc EXCEPT ![p] = "idle"]
    /\ request' = [request EXCEPT ![p] = Nothing]
    /\ token' = [token EXCEPT ![p] = Nothing]
    /\ found' = [found EXCEPT ![p] = Nothing]

\* provision_webhook_token looks the workspace up.
Begin(p, u, w) ==
    /\ Goes(p, "idle", IF Exists(w) THEN "check" ELSE "create")
    /\ request' = [request EXCEPT ![p] = [user |-> u, workspace |-> w]]
    /\ UNCHANGED <<database, token, found>>

Check(p) ==
    /\ Goes(p, "check", "find")
    /\ role[Workspace(p)][User(p)] \in Administrators
    /\ UNCHANGED <<database, request, token, found>>

\* 403
Refuse(p) ==
    /\ pc[p] = "check"
    /\ role[Workspace(p)][User(p)] \notin Administrators
    /\ Ends(p)
    /\ UNCHANGED database

\* The first commit.
Create(p) ==
    /\ Goes(p, "create", "own")
    /\ ~Exists(Workspace(p))
    /\ founder' = [founder EXCEPT ![Workspace(p)] = User(p)]
    /\ UNCHANGED <<role, digest, rows, given, request, token, found>>

\* Mutant: the workspace is there now, so go on.
CreateGoesOn(p) ==
    /\ Goes(p, "create", "own")
    /\ Exists(Workspace(p))
    /\ UNCHANGED <<database, request, token, found>>

\* Another process has made it: the primary key refuses a second row.
CreateLoses(p) ==
    /\ pc[p] = "create"
    /\ Exists(Workspace(p))
    /\ Ends(p)
    /\ UNCHANGED database

\* Mutant: the role's default.
OwnAsMember(p) ==
    /\ Goes(p, "own", "find")
    /\ role' = [role EXCEPT ![Workspace(p)][User(p)] = "member"]
    /\ UNCHANGED <<founder, digest, rows, given, request, token, found>>

\* The second commit: add_workspace_member.
Own(p) ==
    /\ Goes(p, "own", "find")
    /\ role' = [role EXCEPT ![Workspace(p)][User(p)] = "owner"]
    /\ UNCHANGED <<founder, digest, rows, given, request, token, found>>

\* Mutant: tokens are derived, not drawn, and may come again.
FindDerives(p) ==
    /\ Goes(p, "find", "write")
    /\ \E t \in Tokens : token' = [token EXCEPT ![p] = t]
    /\ LET mine == {r \in rows : r.workspace = Workspace(p)}
       IN  IF mine = {} THEN UNCHANGED found
           ELSE \E r \in mine : found' = [found EXCEPT ![p] = r.id]
    /\ UNCHANGED <<database, request>>

\* A token nobody has; provision_workspace_webhook_token looks for an integration,
\* and takes any there is.
Find(p) ==
    /\ Goes(p, "find", "write")
    /\ \E t \in Tokens \ given :
        /\ \A q \in Processes : token[q] # t
        /\ token' = [token EXCEPT ![p] = t]
    /\ LET mine == {r \in rows : r.workspace = Workspace(p)}
       IN  IF mine = {} THEN UNCHANGED found
           ELSE \E r \in mine : found' = [found EXCEPT ![p] = r.id]
    /\ UNCHANGED <<database, request>>

RowsWritten(p) ==
    IF found[p] = Nothing
    THEN rows \cup {[id |-> token[p], workspace |-> Workspace(p), token |-> token[p]]}
    ELSE {IF r.id = found[p] THEN [r EXCEPT !.token = token[p]] ELSE r : r \in rows}

\* Mutant: the integration has the token but the workspace has not.
WriteRowsOnly(p) ==
    /\ pc[p] = "write"
    /\ rows' = RowsWritten(p)
    /\ given' = given \cup {token[p]}
    /\ Ends(p)
    /\ UNCHANGED <<founder, role, digest>>

\* The third commit.
Write(p) ==
    /\ pc[p] = "write"
    /\ digest' = [digest EXCEPT ![Workspace(p)] = token[p]]
    /\ rows' = RowsWritten(p)
    /\ given' = given \cup {token[p]}
    /\ Ends(p)
    /\ UNCHANGED <<founder, role>>

\* Mutant: a request that fails takes its user's membership back.
FailsAndLeaves(p) ==
    /\ MayFail
    /\ pc[p] # "idle"
    /\ role' = [role EXCEPT ![Workspace(p)][User(p)] = "none"]
    /\ Ends(p)
    /\ UNCHANGED <<founder, digest, rows, given>>

\* A statement or a commit raises, or the process ends; what was committed stays.
Fails(p) ==
    /\ MayFail
    /\ pc[p] # "idle"
    /\ Ends(p)
    /\ UNCHANGED database

Step(p) ==
    \/ \E u \in Users, w \in Workspaces : Begin(p, u, w)
    \/ Check(p) \/ Refuse(p)
    \/ Create(p) \/ CreateLoses(p)
    \/ Own(p)
    \/ Find(p) \/ Write(p)
    \/ Fails(p)

-----------------------------------------------------------------------------
\* A first sign-in makes a workspace and its owner in one commit.
SignUp(u, w) ==
    /\ ~Exists(w)
    /\ founder' = [founder EXCEPT ![w] = u]
    /\ role' = [role EXCEPT ![w][u] = "owner"]
    /\ UNCHANGED <<digest, rows, given, handler>>

\* An operator adds a user to a workspace.
AddMember(w, u) ==
    /\ Exists(w)
    /\ role[w][u] = "none"
    /\ \E r \in {"member", "admin"} : role' = [role EXCEPT ![w][u] = r]
    /\ UNCHANGED <<founder, digest, rows, given, handler>>

Next ==
    \/ \E p \in Processes : Step(p)
    \/ \E u \in Users, w \in Workspaces : SignUp(u, w) \/ AddMember(w, u)

Spec == Init /\ [][Next]_vars

-----------------------------------------------------------------------------
\* Every variable has its type, and a request is at hand as far as it has come.
TypeOK ==
    /\ founder \in [Workspaces -> Users \cup {Nothing}]
    /\ role \in [Workspaces -> [Users -> Roles]]
    /\ digest \in [Workspaces -> Tokens \cup {Nothing}]
    /\ rows \subseteq Integration
    /\ given \subseteq Tokens
    /\ pc \in [Processes -> Pcs]
    /\ request \in [Processes -> Requests \cup {Nothing}]
    /\ token \in [Processes -> Tokens \cup {Nothing}]
    /\ \A p \in Processes : pc[p] # "idle" => request[p] \in Requests
    /\ \A p \in Processes : pc[p] = "write" => token[p] \in Tokens
    /\ found \in [Processes -> Tokens \cup {Nothing}]

\* Whoever makes a workspace, nobody else becomes its owner: of two processes that
\* found it missing, one makes it and the other's user gets nothing.
OnlyFounderOwns ==
    \A w \in Workspaces, u \in Users : role[w][u] = "owner" => founder[w] = u

\* A request that is about to rotate a token is an administrator's, whatever became
\* of the workspace since the request looked it up.
AdministratorsRotate ==
    \A p \in Processes :
        pc[p] \in {"find", "write"} => role[Workspace(p)][User(p)] \in Administrators

\* A token that the e-mail webhook accepts is of a workspace with an owner or an
\* administrator, even when a request failed between its commits.
TokensAreAdministered ==
    \A r \in rows : \E u \in Users : role[r.workspace][u] \in Administrators

\* The two checks of a token agree.
ChecksAgree ==
    \A w \in Workspaces, t \in Tokens : Resolves(t, w) <=> Verifies(t, w)

\* With one process: a workspace has one token, a rotated one never comes back.
Register ==
    INSTANCE TokenRegister
        WITH current <- [w \in Workspaces |-> {t \in Tokens : Resolves(t, w)}]
ImplementsRegister == Register!Spec
=============================================================================
