--------------------------- MODULE GoogleConnection ---------------------------
(***************************************************************************)
(* A user's Google Calendar credential (app/services/google_connections.py)*)
(* and the calls made with it (app/services/google_calendar.py).           *)
(*                                                                         *)
(* Saving a credential and changing a calendar are plain functions, which  *)
(* FastAPI runs in threads; here, one step of a thread is one statement or *)
(* one call of Google.  Disconnecting is a coroutine with one DELETE, and  *)
(* reading a credential one SELECT.  Google, which grants and revokes      *)
(* tokens, and may apply a change without its answer arriving, or long     *)
(* after, is part of the model.  Calls that only read apply nothing and    *)
(* differ in no other way; they are left out.                              *)
(***************************************************************************)
EXTENDS Naturals

CONSTANTS
    Nothing,
    Users,
    Threads,
    Tokens,             \* refresh tokens Google may grant
    Keys,               \* values of CREDENTIAL_ENCRYPTION_KEY
    Faults,             \* subset of {"db", "restart"}
    MaxCopies           \* bound on the copies of one change

Credentials == [token : Tokens, key : Keys]

ASSUME NothingAssumption ==
    Nothing \notin Users \cup Tokens \cup Keys /\ Nothing \notin Credentials
ASSUME MaxCopiesAssumption == MaxCopies \in Nat

VARIABLES
    created,        \* the table oauth_credentials is there
    row,            \* the user's row of it
    key,            \* the key the server was started with
    grant,          \* who a token was granted for, at Google
    revoked,        \* tokens Google takes no longer
    pc,
    user,           \* whose request a thread handles
    token,          \* the token it has been granted, or has loaded
    found,          \* it has found a credential of the user
    disturbed,      \* the user has disconnected since it began
    connected,      \* users told that they are connected, who have not disconnected
    copies,         \* how often the change a user is making has been applied
    late,           \* requests of it Google has yet to apply, though nobody waits
    answer,         \* the last answer about it
    unsure          \* some request of it was answered 502, or not at all

credential == <<created, row, connected>>
server == <<key, pc, user, token, found, disturbed>>
google == <<grant, revoked>>
change == <<copies, late, answer, unsure>>
vars == <<credential, server, google, change>>

SavePcs == {"exchange", "tables", "create", "select", "write"}
CallPcs == {"load", "call"}
Pcs == SavePcs \cup CallPcs \cup {"idle"}
Answers == {"none", "done", "refused", "unknown"}

Init ==
    /\ created = FALSE
    /\ row = [u \in Users |-> Nothing]
    /\ key \in Keys \cup {Nothing}
    /\ grant = [g \in Tokens |-> Nothing]
    /\ revoked = {}
    /\ pc = [t \in Threads |-> "idle"]
    /\ user = [t \in Threads |-> Nothing]
    /\ token = [t \in Threads |-> Nothing]
    /\ found = [t \in Threads |-> FALSE]
    /\ disturbed = [t \in Threads |-> FALSE]
    /\ connected = {}
    /\ copies = [u \in Users |-> 0]
    /\ late = [u \in Users |-> 0]
    /\ answer = [u \in Users |-> "none"]
    /\ unsure = [u \in Users |-> FALSE]

-----------------------------------------------------------------------------
Goes(t, from, to) ==
    /\ pc[t] = from
    /\ pc' = [pc EXCEPT ![t] = to]

Begins(t, u, to) ==
    /\ Goes(t, "idle", to)
    /\ user' = [user EXCEPT ![t] = u]
    /\ disturbed' = [disturbed EXCEPT ![t] = FALSE]
    /\ UNCHANGED <<key, token, found>>

Ends(t) ==
    /\ pc' = [pc EXCEPT ![t] = "idle"]
    /\ user' = [user EXCEPT ![t] = Nothing]
    /\ token' = [token EXCEPT ![t] = Nothing]
    /\ found' = [found EXCEPT ![t] = FALSE]
    /\ disturbed' = [disturbed EXCEPT ![t] = FALSE]
    /\ UNCHANGED key

-----------------------------------------------------------------------------
\* save_google_calendar_token checks the storage before it uses the code up;
\* without a key, 503.
BeginSave(t, u) ==
    /\ key # Nothing
    /\ Begins(t, u, "exchange")
    /\ UNCHANGED <<credential, google, change>>

\* fetch_token: Google grants a token it has not granted before.
Exchange(t) ==
    /\ Goes(t, "exchange", "tables")
    /\ \E g \in Tokens :
        /\ grant[g] = Nothing
        /\ grant' = [grant EXCEPT ![g] = user[t]]
        /\ token' = [token EXCEPT ![t] = g]
    /\ UNCHANGED <<credential, revoked, key, user, found, disturbed, change>>

\* The exchange fails, or gives no token, or not for the calendar: 400.
NotGranted(t) ==
    /\ pc[t] = "exchange"
    /\ Ends(t)
    /\ UNCHANGED <<credential, google, change>>

\* metadata.create_all looks for the table ...
LookForTable(t) ==
    /\ Goes(t, "tables", IF created THEN "select" ELSE "create")
    /\ UNCHANGED <<credential, google, change, key, user, token, found, disturbed>>

\* ... and creates it; it fails if another thread has done so meanwhile: 503.
CreateTable(t) ==
    /\ Goes(t, "create", "select")
    /\ ~created
    /\ created' = TRUE
    /\ UNCHANGED <<row, connected, google, change, key, user, token, found, disturbed>>

CreateFails(t) ==
    /\ pc[t] = "create"
    /\ created
    /\ Ends(t)
    /\ UNCHANGED <<credential, google, change>>

\* Mutant: any user's credential will do.
SelectAny(t) ==
    /\ Goes(t, "select", "write")
    /\ found' = [found EXCEPT ![t] = \E u \in Users : row[u] # Nothing]
    /\ UNCHANGED <<credential, google, change, key, user, token, disturbed>>

\* Has the user a credential?
Select(t) ==
    /\ Goes(t, "select", "write")
    /\ found' = [found EXCEPT ![t] = row[user[t]] # Nothing]
    /\ UNCHANGED <<credential, google, change, key, user, token, disturbed>>

\* What the thread writes, and answers: 200.
Saves(t) ==
    /\ row' = [row EXCEPT ![user[t]] = [token |-> token[t], key |-> key]]
    /\ connected' = IF disturbed[t] THEN connected ELSE connected \cup {user[t]}
    /\ Ends(t)
    /\ UNCHANGED <<created, google, change>>

Insert(t) ==
    /\ pc[t] = "write" /\ ~found[t]
    /\ row[user[t]] = Nothing
    /\ Saves(t)

\* Another thread has inserted one: the primary key refuses it, 503.
InsertFails(t) ==
    /\ pc[t] = "write" /\ ~found[t]
    /\ row[user[t]] # Nothing
    /\ Ends(t)
    /\ UNCHANGED <<credential, google, change>>

Update(t) ==
    /\ pc[t] = "write" /\ found[t]
    /\ row[user[t]] # Nothing
    /\ Saves(t)

\* The user has disconnected meanwhile: the UPDATE has no row to change, and the
\* answer is 200 all the same.
UpdateNothing(t) ==
    /\ pc[t] = "write" /\ found[t]
    /\ row[user[t]] = Nothing
    /\ connected' = IF disturbed[t] THEN connected ELSE connected \cup {user[t]}
    /\ Ends(t)
    /\ UNCHANGED <<created, row, google, change>>

\* A statement or the commit raises: 503.
SaveFails(t) ==
    /\ "db" \in Faults
    /\ pc[t] \in {"tables", "create", "select", "write"}
    /\ Ends(t)
    /\ UNCHANGED <<credential, google, change>>

\* disconnect_provider: whatever the threads are at.
Disconnect(u) ==
    /\ row' = [row EXCEPT ![u] = Nothing]
    /\ connected' = connected \ {u}
    /\ disturbed' = [t \in Threads |-> disturbed[t] \/ user[t] = u]
    /\ UNCHANGED <<created, google, change, key, pc, user, token, found>>

-----------------------------------------------------------------------------
Calling(u) == \E t \in Threads : pc[t] \in CallPcs /\ user[t] = u

\* A user makes a change, when he has an answer about the one before.
BeginChange(t, u) ==
    /\ ~Calling(u)
    /\ Begins(t, u, "load")
    /\ copies' = [copies EXCEPT ![u] = 0]
    /\ late' = [late EXCEPT ![u] = 0]
    /\ answer' = [answer EXCEPT ![u] = "none"]
    /\ unsure' = [unsure EXCEPT ![u] = FALSE]
    /\ UNCHANGED <<credential, google>>

\* He tries again after an error.
Retry(t, u) ==
    /\ ~Calling(u)
    /\ answer[u] \in {"refused", "unknown"}
    /\ copies[u] + late[u] < MaxCopies
    /\ Begins(t, u, "load")
    /\ UNCHANGED <<credential, google, change>>

Readable(u) == row[u] # Nothing /\ row[u].key = key

\* Mutant: the provider is looked up, and not the user.
LoadAny(t) ==
    /\ Goes(t, "load", "call")
    /\ \E u \in Users : Readable(u) /\ token' = [token EXCEPT ![t] = row[u].token]
    /\ UNCHANGED <<credential, google, change, key, user, found, disturbed>>

\* load_refresh_token
Load(t) ==
    /\ Goes(t, "load", "call")
    /\ Readable(user[t])
    /\ token' = [token EXCEPT ![t] = row[user[t]].token]
    /\ UNCHANGED <<credential, google, change, key, user, found, disturbed>>

Answer(t, a) ==
    /\ answer' = [answer EXCEPT ![user[t]] = a]
    /\ Ends(t)
    /\ UNCHANGED <<credential, google>>

\* There is no credential, 409, or it cannot be decrypted, 503.
NotLoaded(t) ==
    /\ pc[t] = "load"
    /\ ~Readable(user[t])
    /\ Answer(t, "refused")
    /\ UNCHANGED <<copies, late, unsure>>

\* Google applies the change and says so.
Done(t) ==
    /\ pc[t] = "call"
    /\ token[t] \notin revoked
    /\ copies' = [copies EXCEPT ![user[t]] = @ + 1]
    /\ Answer(t, "done")
    /\ UNCHANGED <<late, unsure>>

\* Google refuses it, or the token: 400, 403, 404, 409, 429 or, for a disabled API, 503.
Refused(t) ==
    /\ pc[t] = "call"
    /\ Answer(t, "refused")
    /\ UNCHANGED <<copies, late, unsure>>

\* Whether an unheard request is not applied, has been, or will be.
MaybeApplied(t) ==
    \/ UNCHANGED <<copies, late>>
    \/ /\ token[t] \notin revoked
       /\ copies' = [copies EXCEPT ![user[t]] = @ + 1]
       /\ UNCHANGED late
    \/ /\ token[t] \notin revoked
       /\ late' = [late EXCEPT ![user[t]] = @ + 1]
       /\ UNCHANGED copies

\* Mutant: no answer is taken for a refusal.
UnknownAsRefused(t) ==
    /\ pc[t] = "call"
    /\ MaybeApplied(t)
    /\ Answer(t, "refused")
    /\ UNCHANGED unsure

\* No answer in time, a server error or an answer that is not JSON: 502.
Unknown(t) ==
    /\ pc[t] = "call"
    /\ MaybeApplied(t)
    /\ unsure' = [unsure EXCEPT ![user[t]] = TRUE]
    /\ Answer(t, "unknown")

-----------------------------------------------------------------------------
\* Google comes to a request that nobody waits for any more.
ApplyLate(u) ==
    /\ late[u] > 0
    /\ late' = [late EXCEPT ![u] = @ - 1]
    /\ copies' = [copies EXCEPT ![u] = @ + 1]
    /\ UNCHANGED <<credential, server, google, answer, unsure>>

\* The user withdraws his consent, or the token expires.
Revoke(g) ==
    /\ grant[g] # Nothing
    /\ revoked' = revoked \cup {g}
    /\ UNCHANGED <<credential, server, grant, change>>

\* The server is started again, perhaps with another key; its requests have no answer.
Restart ==
    /\ "restart" \in Faults
    /\ key' \in Keys \cup {Nothing}
    /\ connected' = IF key' = key THEN connected ELSE {}
    /\ pc' = [t \in Threads |-> "idle"]
    /\ user' = [t \in Threads |-> Nothing]
    /\ token' = [t \in Threads |-> Nothing]
    /\ found' = [t \in Threads |-> FALSE]
    /\ disturbed' = [t \in Threads |-> FALSE]
    /\ LET cut(u) == \E t \in Threads : pc[t] = "call" /\ user[t] = u
       IN  /\ late' = [u \in Users |-> IF cut(u) THEN late[u] + 1 ELSE late[u]]
           /\ unsure' = [u \in Users |-> unsure[u] \/ Calling(u)]
           /\ answer' = [u \in Users |-> IF Calling(u) THEN "unknown" ELSE answer[u]]
    /\ UNCHANGED <<created, row, google, copies>>

Next ==
    \/ \E t \in Threads, u \in Users : BeginSave(t, u) \/ BeginChange(t, u) \/ Retry(t, u)
    \/ \E t \in Threads :
        \/ Exchange(t) \/ NotGranted(t)
        \/ LookForTable(t) \/ CreateTable(t) \/ CreateFails(t)
        \/ Select(t) \/ Insert(t) \/ InsertFails(t) \/ Update(t) \/ UpdateNothing(t)
        \/ SaveFails(t)
        \/ Load(t) \/ NotLoaded(t)
        \/ Done(t) \/ Refused(t) \/ Unknown(t)
    \/ \E u \in Users : Disconnect(u) \/ ApplyLate(u)
    \/ \E g \in Tokens : Revoke(g)
    \/ Restart

Spec == Init /\ [][Next]_vars

-----------------------------------------------------------------------------
\* Every variable has its type, credentials are in a table that is there, and a
\* thread has what it has come to.
TypeOK ==
    /\ created \in BOOLEAN
    /\ row \in [Users -> Credentials \cup {Nothing}]
    /\ key \in Keys \cup {Nothing}
    /\ grant \in [Tokens -> Users \cup {Nothing}]
    /\ revoked \subseteq Tokens
    /\ pc \in [Threads -> Pcs]
    /\ user \in [Threads -> Users \cup {Nothing}]
    /\ token \in [Threads -> Tokens \cup {Nothing}]
    /\ found \in [Threads -> BOOLEAN]
    /\ disturbed \in [Threads -> BOOLEAN]
    /\ connected \subseteq Users
    /\ copies \in [Users -> Nat]
    /\ late \in [Users -> Nat]
    /\ answer \in [Users -> Answers]
    /\ unsure \in [Users -> BOOLEAN]
    /\ \A t \in Threads :
        /\ pc[t] # "idle" => user[t] \in Users
        /\ pc[t] \in {"tables", "create", "select", "write", "call"} => token[t] \in Tokens
        /\ pc[t] \in SavePcs => key # Nothing
        /\ pc[t] \in {"select", "write"} => created
    /\ \A u \in Users : row[u] # Nothing => created

\* What is stored for a user, and what is used for him, Google has granted for him.
OwnCredentials ==
    /\ \A u \in Users : row[u] # Nothing => grant[row[u].token] = u
    /\ \A t \in Threads : pc[t] = "call" => grant[token[t]] = user[t]

\* A user who was told that he is connected, and has not disconnected meanwhile or
\* since, has a credential the server can read, whatever other connections of
\* his succeeded or failed, until the server's key is changed.
ConnectionHolds == \A u \in connected : Readable(u)

\* A change answered as made has been applied; one that is still open after refusals
\* has not; and only who was left unsure may find it applied twice.
AnswersAreHonest ==
    \A u \in Users :
        /\ answer[u] = "done" => copies[u] > 0
        /\ answer[u] = "refused" /\ ~unsure[u] => copies[u] + late[u] = 0
        /\ copies[u] > 1 => unsure[u]
=============================================================================
