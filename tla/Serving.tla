------------------------------- MODULE Serving -------------------------------
(***************************************************************************)
(* How the server answers requests that read: who they are let in as       *)
(* (api/deps.py), the search and timeline routes, the administrator's      *)
(* pages, the daily brief with its calendar and its language model         *)
(* (routes/brief.py, services/llm), and what they share with the webhook   *)
(* of e-mails: one event loop, a limited number of threads, and the pool   *)
(* of database connections (db/session.py).                                *)
(*                                                                         *)
(* A coroutine keeps the loop until it awaits something.  The dependencies *)
(* in deps.py are coroutines, as are search, timeline and the webhook, so  *)
(* their queries, and their waiting for a connection, keep the loop.  The  *)
(* other handlers are plain functions and run in threads, where the answer *)
(* of a brief, which has a response_model, is validated too.  A request    *)
(* keeps its connection from its first query until get_db closes the       *)
(* session, which takes a turn of the loop and then a thread.              *)
(***************************************************************************)
EXTENDS Naturals, FiniteSets

CONSTANTS
    None,           \* no cookie, key, header; nobody has the loop
    Users,          \* an API key is known by its user
    Workspaces,
    Own,            \* google_users.workspace_id
    Admins,         \* users whose address is in ADMIN_EMAILS
    Requests,       \* each is made once
    Kind,           \* what it asks for
    Carries,        \* the cookie, key and header it comes with
    PoolSize,       \* connections of the pool (5, and 10 of overflow)
    MaxThreads,     \* threads of the server (40)
    Faults,         \* what may go wrong, a subset of FaultKinds
    MaxChanges      \* bound: changes of who may read what

Kinds == {"read", "brief", "admin", "hook"}
FaultKinds == {"db", "shape"}

ASSUME NoneAssumption == None \notin Users \cup Workspaces \cup Requests
ASSUME UsersAssumption == Own \in [Users -> Workspaces] /\ Admins \subseteq Users
ASSUME RequestsAssumption ==
    /\ IsFiniteSet(Requests)
    /\ Kind \in [Requests -> Kinds]
    /\ Carries \in [Requests -> [cookie : Users \cup {None}, key : Users \cup {None},
                                 header : Workspaces \cup {None}]]
    /\ \A r \in Requests : \* others are refused before they need anything
        /\ Kind[r] \in {"read", "brief"} => Carries[r].cookie # None \/ Carries[r].key # None
        /\ Kind[r] = "admin" => Carries[r].cookie # None
ASSUME LimitsAssumption == /\ PoolSize \in Nat \ {0}
                           /\ MaxThreads \in Nat \ {0}
                           /\ Faults \subseteq FaultKinds
                           /\ MaxChanges \in Nat

VARIABLES
    sessions,   \* users with a live session and an active account
    keys,       \* users with an active API key
    members,    \* workspace_members
    changes,    \* how often they have changed
    since,      \* history: what entitles a request, of that which was so since it began
    ai,         \* the settings of the brief's model
    pc,         \* where a request is
    loop,       \* the request whose coroutine has the event loop
    busy,       \* the requests whose handlers have a thread
    holds,      \* the requests whose sessions have a connection
    answer,
    brief,      \* the response of a brief, as far as it is made
    google,     \* history: what Google said of the calendar
    model       \* history: what became of the model's summary

grants == <<sessions, keys, members, changes>>
server == <<loop, busy, holds>>
content == <<brief, google, model>>
vars == <<sessions, keys, members, changes, since, ai, pc, loop, busy, holds,
          answer, brief, google, model>>

Pcs == {"new", "open", "ready", "queued", "connect", "identify", "admit", "query",
        "record", "report", "items", "calendar", "model", "respond", "leave", "ended"}
Answers == {"none", "served", "failed"}
Titles == {"user", "member"}

\* What the calendar's answer may hold: nothing, nothing on its first page, all
\* of the day's events, or the first page of them.
Pages == {"empty", "emptyPage", "all", "firstPage"}

Brief == [records : BOOLEAN,                            \* saved records are there
          count : {"unknown", "zero", "some"},          \* calendar_count
          more : BOOLEAN,                               \* calendar_has_more
          notice : BOOLEAN,                             \* calendar_notice is there
          says : {"nothing", "no events", "events", "at least", "unavailable"},
          text : {"factual", "generated"},              \* summary
          source : {"factual", "ai"},                   \* summary_source
          hint : {"none", "not enabled", "unavailable"}] \* summary_notice

BlankBrief == [records |-> FALSE, count |-> "unknown", more |-> FALSE,
               notice |-> FALSE, says |-> "nothing", text |-> "factual",
               source |-> "factual", hint |-> "none"]

\* Who a request comes from, and what he wants to read: a cookie goes before a key,
\* and its user's workspace before the header.
Cookie(r) == Carries[r].cookie
User(r) == IF Cookie(r) # None THEN Cookie(r) ELSE Carries[r].key
Workspace(r) == IF Cookie(r) # None THEN Own[Cookie(r)] ELSE Carries[r].header

\* What entitles him to it, of the sessions, keys and memberships there are.
TitlesOf(r, s, k, m) ==
    {t \in Titles :
        /\ t = "user" => IF Cookie(r) # None THEN User(r) \in s ELSE User(r) \in k
        /\ t = "member" => <<User(r), Workspace(r)>> \in m}

Init ==
    /\ sessions = {u \in Users : \E r \in Requests : Cookie(r) = u}
    /\ keys \in SUBSET {u \in Users : \E r \in Requests : Carries[r].key = u}
    /\ members = {<<u, Own[u]>> : u \in Users}
    /\ changes = 0
    /\ since = [r \in Requests |-> {}]
    /\ ai \in {"off", "not configured", "on"}
    /\ pc = [r \in Requests |-> "new"]
    /\ loop = None
    /\ busy = {}
    /\ holds = {}
    /\ answer = [r \in Requests |-> "none"]
    /\ brief = [r \in Requests |-> BlankBrief]
    /\ google = [r \in Requests |-> "unasked"]
    /\ model = [r \in Requests |-> "unasked"]

-----------------------------------------------------------------------------
(***************************************************************************)
(* Who may read what changes while requests are on their way.  Keys and    *)
(* memberships that no request needs are left as they are.                 *)
(***************************************************************************)
OnItsWay(r) == pc[r] \notin {"new", "ended"} /\ Kind[r] # "hook"

Changes(s, k, m) ==
    /\ changes < MaxChanges
    /\ changes' = changes + 1
    /\ sessions' = s /\ keys' = k /\ members' = m
    /\ since' = [r \in Requests |->
                    IF OnItsWay(r) THEN since[r] \cup TitlesOf(r, s, k, m) ELSE {}]
    /\ UNCHANGED <<ai, pc, server, answer, content>>

\* The command provision_api_key.
ProvisionKey(u) ==
    /\ u \notin keys
    /\ \E r \in Requests : Carries[r].key = u
    /\ Changes(sessions, keys \cup {u}, members)

Needed(u, w) == \E r \in Requests : u = User(r) /\ w = Workspace(r)

\* add_workspace_member
Admit(u, w) ==
    /\ <<u, w>> \notin members /\ Needed(u, w)
    /\ Changes(sessions, keys, members \cup {<<u, w>>})

\* A session ends, or its account is disabled; an operator disables a key or ends
\* a membership.
Withdraw ==
    \/ \E u \in sessions : Changes(sessions \ {u}, keys, members)
    \/ \E u \in keys : Changes(sessions, keys \ {u}, members)
    \/ \E x \in members : Needed(x[1], x[2]) /\ Changes(sessions, keys, members \ {x})

-----------------------------------------------------------------------------
(***************************************************************************)
(* The loop, threads and connections, and the checks of deps.py.           *)
(***************************************************************************)
\* session_user, apart from the Origin of what is not a GET
SessionHolds(u) == u \in sessions /\ <<u, Own[u]>> \in members

\* Mutant: a key that is not active will do.
KnownByAnyKey(r) ==
    IF Cookie(r) # None THEN SessionHolds(Cookie(r)) ELSE User(r) # None

\* get_api_key
Known(r) ==
    IF Cookie(r) # None THEN SessionHolds(Cookie(r)) ELSE User(r) \in keys

\* get_current_workspace_id, for what it finds at the moment it looks
LetIn(r) ==
    /\ Cookie(r) # None => SessionHolds(Cookie(r))
    /\ <<User(r), Workspace(r)>> \in members

Goes(r, from, to) ==
    /\ pc[r] = from
    /\ pc' = [pc EXCEPT ![r] = to]

\* The handler, or a dependency before it, returns or raises: the loop or the
\* thread is given back, and the connection not yet.  What a brief returns is
\* still to be validated.
Leaves(r, a) ==
    /\ pc' = [pc EXCEPT ![r] =
                 IF a = "served" /\ Kind[r] = "brief" THEN "respond" ELSE "leave"]
    /\ answer' = [answer EXCEPT ![r] = a]
    /\ loop' = IF loop = r THEN None ELSE loop
    /\ busy' = busy \ {r}
    /\ UNCHANGED <<grants, since, ai, holds>>

\* An exception: the brief, if it was one, is lost.
Fails(r) ==
    /\ Leaves(r, "failed")
    /\ brief' = [brief EXCEPT ![r] = BlankBrief]
    /\ google' = [google EXCEPT ![r] = "unasked"]
    /\ model' = [model EXCEPT ![r] = "unasked"]

Begin(r) ==
    /\ Goes(r, "new", IF Kind[r] = "hook" THEN "ready" ELSE "open")
    /\ since' = [since EXCEPT ![r] =
                    IF Kind[r] = "hook" THEN {} ELSE TitlesOf(r, sessions, keys, members)]
    /\ UNCHANGED <<grants, ai, server, answer, content>>

\* get_db makes a session, for which a thread must be free.
Open(r) ==
    /\ Goes(r, "open", IF Kind[r] = "admin" THEN "queued" ELSE "ready")
    /\ Cardinality(busy) < MaxThreads
    /\ UNCHANGED <<grants, since, ai, server, answer, content>>

\* The loop runs the request's coroutine.
TakeLoop(r) ==
    /\ loop = None
    /\ Goes(r, "ready", "connect")
    /\ loop' = r
    /\ UNCHANGED <<grants, since, ai, busy, holds, answer, content>>

\* Mutant: the handler of a brief is a coroutine, and has the loop.
StartOnLoop(r) ==
    /\ loop = None
    /\ Goes(r, "queued", IF Kind[r] = "brief" THEN "items" ELSE "connect")
    /\ loop' = r
    /\ UNCHANGED <<grants, since, ai, busy, holds, answer, content>>

\* A plain handler gets a thread.
TakeThread(r) ==
    /\ Goes(r, "queued", IF Kind[r] = "brief" THEN "items" ELSE "connect")
    /\ Cardinality(busy) < MaxThreads
    /\ busy' = busy \cup {r}
    /\ UNCHANGED <<grants, since, ai, loop, holds, answer, content>>

\* The session's first query takes a connection.
Connect(r) ==
    /\ Goes(r, "connect", IF Kind[r] = "hook" THEN "record" ELSE "identify")
    /\ Cardinality(holds) < PoolSize
    /\ holds' = holds \cup {r}
    /\ UNCHANGED <<grants, since, ai, loop, busy, answer, content>>

\* Mutant: the pool waits without limit.
PoolWaits(r) == FALSE

\* The pool has none for pool_timeout seconds: 500.
PoolTimesOut(r) ==
    /\ pc[r] = "connect"
    /\ Cardinality(holds) = PoolSize
    /\ Fails(r)

\* get_api_key; for the administrator's pages, require_admin
Identify(r) ==
    /\ Goes(r, "identify", IF Kind[r] = "admin" THEN "report" ELSE "admit")
    /\ Known(r)
    /\ Kind[r] = "admin" => Cookie(r) \in Admins
    /\ UNCHANGED <<grants, since, ai, server, answer, content>>

\* 401, or 403 for who is no administrator
NotKnown(r) ==
    /\ pc[r] = "identify"
    /\ ~Known(r) \/ (Kind[r] = "admin" /\ Cookie(r) \notin Admins)
    /\ Fails(r)

\* get_current_workspace_id.  A coroutine goes on to its query; the handler of a
\* brief is given to a thread.
GoIn(r) ==
    /\ Goes(r, "admit", IF Kind[r] = "brief" THEN "queued" ELSE "query")
    /\ LetIn(r)
    /\ loop' = IF Kind[r] = "brief" THEN None ELSE loop
    /\ UNCHANGED <<grants, since, ai, busy, holds, answer, content>>

\* 400, 401 or 403
NotLetIn(r) ==
    /\ pc[r] = "admit"
    /\ ~LetIn(r)
    /\ Fails(r)

\* 400: nothing to search for; 404: no such user
Refuse(r) ==
    /\ pc[r] \in {"query", "report"}
    /\ Fails(r)

\* The one query of search and timeline, in the coroutine, or those of the
\* administrator's pages, in a thread.
Answer(r) ==
    /\ pc[r] \in {"query", "report"}
    /\ Leaves(r, "served") /\ UNCHANGED content

\* A statement raises: 500.
DbFails(r) ==
    /\ "db" \in Faults
    /\ pc[r] \in {"identify", "admit", "query", "report", "items"}
    /\ Fails(r)

\* What was answered is the client's.
Forget(r) ==
    /\ since' = [since EXCEPT ![r] = {}]
    /\ answer' = [answer EXCEPT ![r] = "none"]
    /\ brief' = [brief EXCEPT ![r] = BlankBrief]
    /\ google' = [google EXCEPT ![r] = "unasked"]
    /\ model' = [model EXCEPT ![r] = "unasked"]

\* The webhook resolves the token and records the delivery, or refuses it, or
\* fails; it closes its session itself, before it lets go of the loop.
Record(r) ==
    /\ Goes(r, "record", "ended")
    /\ loop' = None
    /\ holds' = holds \ {r}
    /\ Forget(r)
    /\ UNCHANGED <<grants, ai, busy>>

-----------------------------------------------------------------------------
(***************************************************************************)
(* get_today_brief, in its thread.                                         *)
(***************************************************************************)
\* 422: an unknown timezone
NoZone(r) ==
    /\ pc[r] = "items"
    /\ Fails(r)

Items(r) ==
    /\ Goes(r, "items", "calendar")
    /\ \E some \in BOOLEAN : brief' = [brief EXCEPT ![r].records = some]
    /\ UNCHANGED <<grants, since, ai, server, answer, google, model>>

\* There are events, or saved records.
WorthTelling(b, page) == page \in {"all", "firstPage"} \/ b.records

\* The brief is done, unless there is a model to ask.
Continues(r, b, page) ==
    /\ pc[r] = "calendar"
    /\ IF ai = "on" /\ WorthTelling(b, page)
       THEN /\ Goes(r, "calendar", "model")
            /\ brief' = [brief EXCEPT ![r] = b]
            /\ UNCHANGED <<grants, since, ai, server, answer>>
       ELSE /\ brief' = [brief EXCEPT ![r] =
                   [b EXCEPT !.hint = IF ai = "not configured" /\ WorthTelling(b, page)
                                      THEN "not enabled" ELSE "none"]]
            /\ Leaves(r, "served")

\* Google answers.
Calendar(r) ==
    \E page \in Pages :
        /\ Continues(r,
            [brief[r] EXCEPT
                !.count = IF page \in {"empty", "emptyPage"} THEN "zero" ELSE "some",
                !.more = page \in {"emptyPage", "firstPage"},
                !.says = CASE page = "all" -> "events"
                           [] page = "firstPage" -> "at least"
                           [] OTHER -> "no events"],
            page)
        /\ google' = [google EXCEPT ![r] = page]
        /\ UNCHANGED model

\* Mutant: a calendar that cannot be read is taken for an empty one.
CalendarTakenForEmpty(r) ==
    /\ Continues(r, [brief[r] EXCEPT !.count = "zero", !.says = "no events"], "empty")
    /\ google' = [google EXCEPT ![r] = "failed"]
    /\ UNCHANGED model

\* There is no credential, or it cannot be read; Google refuses, or does not answer
\* in time; or the connection of the credential's store fails.
CalendarFails(r) ==
    /\ Continues(r, [brief[r] EXCEPT !.notice = TRUE, !.says = "unavailable"], "empty")
    /\ google' = [google EXCEPT ![r] = "failed"]
    /\ UNCHANGED model

\* Google's answer is JSON, and not of the expected shape: 500.
CalendarIsOdd(r) ==
    /\ "shape" \in Faults
    /\ pc[r] = "calendar"
    /\ Fails(r)

\* SynthesisLLM.generate returns.
Generate(r) ==
    /\ pc[r] = "model"
    /\ brief' = [brief EXCEPT ![r].text = "generated", ![r].source = "ai"]
    /\ model' = [model EXCEPT ![r] = "finished"]
    /\ Leaves(r, "served")
    /\ UNCHANGED google

\* It raises: no answer in time, an error, a text that is empty, cut off or too long.
GenerateFails(r) ==
    /\ pc[r] = "model"
    /\ brief' = [brief EXCEPT ![r].hint = "unavailable"]
    /\ model' = [model EXCEPT ![r] = "failed"]
    /\ Leaves(r, "served")
    /\ UNCHANGED google

-----------------------------------------------------------------------------
\* The loop comes back to a brief and has what it returned validated against its
\* response_model, for which a thread must be free.
Respond(r) ==
    /\ loop = None
    /\ Cardinality(busy) < MaxThreads
    /\ Goes(r, "respond", "leave")
    /\ UNCHANGED <<grants, since, ai, server, answer, content>>

\* The loop comes back to the request and has get_db go on, which closes the
\* session, in a thread that is always to be had.
Leave(r) ==
    /\ loop = None
    /\ Goes(r, "leave", "ended")
    /\ holds' = holds \ {r}
    /\ Forget(r)
    /\ UNCHANGED <<grants, ai, loop, busy>>

Step(r) ==
    \/ Open(r) \/ TakeLoop(r) \/ TakeThread(r)
    \/ Connect(r) \/ PoolTimesOut(r)
    \/ Identify(r) \/ NotKnown(r) \/ GoIn(r) \/ NotLetIn(r)
    \/ Refuse(r) \/ Answer(r) \/ DbFails(r) \/ Record(r)
    \/ NoZone(r) \/ Items(r)
    \/ Calendar(r) \/ CalendarFails(r) \/ CalendarIsOdd(r)
    \/ Generate(r) \/ GenerateFails(r)
    \/ Respond(r) \/ Leave(r)

Next ==
    \/ \E u \in Users : ProvisionKey(u) \/ \E w \in Workspaces : Admit(u, w)
    \/ Withdraw
    \/ \E r \in Requests : Begin(r) \/ Step(r)

Spec == Init /\ [][Next]_vars

\* As long as some request can go on, one does: the loop and the threads run, the
\* pool gives a connection or gives up after its timeout, and so do the calls of
\* Google and of the model.  A request takes a bounded number of steps, so it
\* does not matter which goes on first.
FairSpec == Spec /\ WF_vars(\E r \in Requests : Step(r))

-----------------------------------------------------------------------------
\* Every variable has its type.
TypeOK ==
    /\ sessions \subseteq Users
    /\ keys \subseteq Users
    /\ members \subseteq Users \X Workspaces
    /\ changes \in 0 .. MaxChanges
    /\ since \in [Requests -> SUBSET Titles]
    /\ ai \in {"off", "not configured", "on"}
    /\ pc \in [Requests -> Pcs]
    /\ loop \in Requests \cup {None}
    /\ busy \subseteq Requests
    /\ holds \subseteq Requests
    /\ answer \in [Requests -> Answers]
    /\ brief \in [Requests -> Brief]
    /\ google \in [Requests -> Pages \cup {"unasked", "failed"}]
    /\ model \in [Requests -> {"unasked", "failed", "finished"}]

\* Where a request has the loop, and where a thread.
HasLoop(r) ==
    /\ Kind[r] # "admin"
    /\ pc[r] \in {"connect", "identify", "admit", "query", "record"}

HasThread(r) ==
    \/ Kind[r] = "admin" /\ pc[r] \in {"connect", "identify", "report"}
    \/ pc[r] \in {"items", "calendar", "model"}

\* Loop, threads and connections are given back: the loop is kept for the database
\* only, never while Google or the model is asked; who waits for a connection has
\* none already; and a request that has ended, however it ended, has nothing.
ResourcesComeBack ==
    /\ \A r \in Requests : loop = r <=> HasLoop(r)
    /\ \A r \in Requests : r \in busy <=> HasThread(r)
    /\ \A r \in holds : pc[r] \notin {"new", "open", "ready", "connect", "ended"}
    /\ Cardinality(holds) <= PoolSize
    /\ Cardinality(busy) <= MaxThreads

\* What is answered to a request, its user was entitled to: his session or key, and
\* his membership of the workspace that was read, were there at some time since
\* it began, however long it waited for the loop, a thread or a connection.
ServedWereEntitled ==
    \A r \in Requests :
        answer[r] = "served" => since[r] = Titles

\* A brief says how many events there are if and only if Google has told it, says
\* that there are none only if Google named none, and calls a summary the model's
\* if and only if the model has finished it; otherwise what it says of calendar
\* and model tells which of them failed it.
BriefsAreHonest ==
    \A r \in Requests :
        Kind[r] = "brief" /\ answer[r] = "served" =>
            LET b == brief[r]
                answered == google[r] \in Pages
            IN  /\ b.count # "unknown" <=> answered
                /\ b.notice <=> ~answered
                /\ b.says = "no events" <=> google[r] \in {"empty", "emptyPage"}
                /\ b.says = "events" <=> google[r] = "all"
                /\ b.more <=> google[r] \in {"emptyPage", "firstPage"}
                /\ b.source = "ai" <=> model[r] = "finished"
                /\ b.text = "generated" <=> model[r] = "finished"
                /\ b.hint = "unavailable" <=> model[r] = "failed"

\* The requests on their way
OnWay == {r \in Requests : pc[r] \notin {"new", "ended"}}

\* Every request ends, whoever waits for whom, though requests that wait for a thread keep
\* connections, threads and the loop wait for connections, and connections come
\* back only through the loop.
EveryRequestEnds ==
    OnWay # {} ~> OnWay = {}
=============================================================================
