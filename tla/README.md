# Umbra: TLA+ specification of the backend

Umbra collects a user's e-mails, WhatsApp messages and calendar events, stores
them as vectors, and answers questions and writes briefs from them. This
directory holds TLA+ models of the parts of the backend whose correctness
depends on order, on failure and on several actors; the TLC runs that check
them on small instances; and TLAPS proofs of the main results for every value
of the constants. All paths below are relative to the repository, most of them
under `app/`.

## The system

The backend is one FastAPI process over a relational database (SQLite or
Postgres) and a Pinecone index. `async` handlers and background tasks share one
event loop; plain handlers run in a pool of threads. An APScheduler job in the
same process, and a standalone command, retry failed ingestion jobs.

| Component | State it keeps | Operations | Talks to |
|---|---|---|---|
| E-mail ingestion store `db/ingestion.py`, `db/models.py` | `webhook_receipts`, `ingestion_jobs`, `source_items` | record a delivery, mark processing / succeeded / failed, requeue, persist item | called by webhook, task, retry worker |
| E-mail webhook `webhooks/email.py` | the background tasks of the process | verify, record, add task; `_process_email` | store, pipeline |
| Retry worker `services/ingestion/retry.py`, `services/scheduler.py`, `workers/retry_failed.py` | the batch of a process | select, requeue, rerun, settle | store, pipeline |
| Pipeline `services/ingestion/pipeline.py`, `chunker.py`, `normalizer.py`, embedder, `vectorstore/` | the vectors of each namespace | check types, chunk, embed, upsert, publish | registry, Pinecone, event bus |
| WhatsApp and calendar webhooks | none but their tasks | verify, extract, add task | pipeline |
| Event bus `services/realtime/event_bus.py` | subscribers' bounded queues | subscribe, unsubscribe, publish | pipeline; no route subscribes yet |
| Sign-in and sessions `session_auth.py`, `browser_session.py`, `db/auth_models.py` | `login_challenges`, `browser_sessions`, `google_users`, API keys, memberships | challenge, Google sign-in, session check, logout | Google; every signed-in route |
| Workspace tokens `routes/workspace.py`, `db/ingestion.py` 68-112 and 177-205, `api/deps.py` | workspaces, integrations, members, API keys | provision / rotate, resolve, authorise | e-mail webhook |
| Type registry `db/type_registry.py` | a JSON file and a copy in memory, or a table | list, add, validate | pipeline, connections |
| Google connection `google_connections.py`, `routes/auth.py`, `connections.py` | `oauth_credentials` | save, load, list, disconnect | Google, calendar proxy, brief |
| Calendar proxy `services/google_calendar.py` | none | read, create, change | Google |
| Request serving `api/deps.py`, `db/session.py`, routes `search`, `timeline`, `admin`, `brief`, `services/llm` | the event loop, the threads and the pool of connections; who may read what | let in, read, brief, give back | database, Google, language model |

Hard behaviour, by component, and what makes it correct:

* **E-mail ingestion.** Deliveries are repeated, the task lives in memory and
  dies with the process, the database or the vector store fails at any step
  (the store possibly after it has applied the write), and two retry processes
  may take the same job. Correct means: one job per delivery, "succeeded" only
  when text and vectors are there, a bounded number of runs, a settled job left
  alone, no job forgotten.
* **Sign-in.** Threads interleave at every statement, and a slow call to Google
  lies between reading a challenge and deleting it. Correct means: a challenge
  yields one session at most and none after it was withdrawn; one Google
  account has one, whole, account; a disabled account is not served.
* **Chunker.** Boundaries: the windows at the end of a text. Correct means: no
  character is lost, sizes and overlaps are as promised.
* **Pipeline, WhatsApp, calendar, event bus.** A failure in the middle of a
  batch, redelivery without receipts, new chunk ids on every run, full queues,
  payloads with several numbers. Correct means: an event tells of a document that is
  whole, a batch that breaks off has no gap, an e-mail keeps one document.
* **Workspace tokens.** Three commits per provisioning, two processes that
  provision at once. Correct means: one token per workspace, a rotated one is dead,
  and only a workspace's maker and those he admits rotate it.
* **Type registry.** A store chosen at start-up, whole-file writes, a crash or a
  reader in the middle of one. Correct means: the pipeline never rejects a built-in
  name, and a confirmed name is known again after a restart.
* **Google connection and calendar.** Select-then-insert, disconnection and restart
  during both, changes whose answer is lost. Correct means: a confirmed connection
  holds, a credential serves its user only, and an answer about a change is true.

* **Request serving.** Coroutines that query the database keep the event loop while they
  wait for a connection, handlers keep threads and connections while they wait for
  Google and the model, and rights are withdrawn on the way. Correct means: every
  request ends and gives back what it took, is served only to who was entitled since
  it began, and a brief says of calendar and summary what Google answered and the
  model did.

`PROJECT.json` lists every hazard at its line, with the properties that cover it.

## Modules

| Module | Models | Run by |
|---|---|---|
| `Ingestion` | e-mail webhook, background task, retry processes, crashes | `MCIngestion` |
| `JobLedger` | the abstract promise of ingestion, per delivery | refined by `Ingestion` |
| `MailRuns` | `Ingestion` composed with `Pipeline`: its calls are runs | `MCMailRuns` |
| `IngestionProofs` | theorems about `Ingestion` and `MailRuns`, and the refinement | |
| `SessionAuth` | sign-in, sessions, logout, authorisation | `MCSessionAuth` |
| `SignIns` | the abstract promise of signing in | refined by `SessionAuth` |
| `SessionAuthProofs` | theorems about `SessionAuth`, and the refinement | |
| `Chunker` | `chunk_document` | `MCChunker` |
| `ChunkerProofs` | theorems about `Chunker` | |
| `Pipeline` | WhatsApp and calendar webhooks, the steps of the pipeline, event bus | `MCPipeline` |
| `PipelineProofs` | theorems about `Pipeline` | |
| `WorkspaceTokens` | provisioning of workspaces and webhook tokens | `MCWorkspaceTokens` |
| `TokenRegister` | the abstract promise about those tokens | refined by `WorkspaceTokens` |
| `WorkspaceTokensProofs` | theorems about `WorkspaceTokens`, and the refinement | |
| `TypeRegistry` | the registry of sources and document types | `MCTypeRegistry` |
| `TypeRegistryProofs` | theorems about `TypeRegistry` | |
| `GoogleConnection` | Google credentials, and changes of calendars | `MCGoogleConnection` |
| `GoogleConnectionProofs` | theorems about `GoogleConnection` | |
| `Serving` | what requests that read need and get, and the daily brief | `MCServing` |
| `ServingProofs` | theorems about `Serving` | |

### Ingestion

`receipts`, `rows`, `mailOf`, `status`, `attempts` and `items` are the tables;
`stored` is the vector store, a delivery being in it when its vectors are.
`task[j]` is where the background task of job `j` is. A retry process `w` has a
place `pc[w]`, the rest of its `batch[w]`, the job in hand `cur[w]`, and
`seen[w]`, the attempts its session read: `SessionLocal` is created with
`expire_on_commit=False`, so `mark_job_processing` adds one to that value and not
to what the table holds by then. `runs` and `failures` are history.

One action is one transaction, or one call of the pipeline. `TaskStart`,
`TaskPersist`, `TaskIngest`, `TaskSucceed` are the body of `_process_email`;
a failure of persisting or of the pipeline leads to `TaskFail` (`mark_job_failed`).
`RetrySelect` ... `RetrySucceed` are
`run_retry_worker` and `retry_ingestion_job`; `RetryRead` and `RetryRequeue` are
the two halves of `requeue_failed_job`, the read with its check and the write.
`ServerCrash` ends all tasks and the scheduler's
batch; `WorkerCrash` ends another retry process. `Strikes` counts crashes and
database errors, which the code cannot answer by a retry of its own, and bounds them.

What one database error does depends on what is left of the session. `_process_email`
does not roll back before `mark_job_failed` (`email.py:87-92`), while
`persist_source_item` does so itself. After a failed flush or commit every further
statement raises, so `TaskDbError` ends the task from `mark_job_succeeded`, and from
`mark_job_processing` as well, unless it was the SELECT that begins the session which
failed, where the session may still serve `mark_job_failed`: both outcomes are allowed
there. `retry_ingestion_job` asks for the job before it rolls back (`retry.py:56-57`).
A failed flush has expired the job, so that this is a query and raises, which
ends the batch (`RetryAborts`). A failed commit, or a failed query of the source item, has
not: the session returns the job it holds, rolls back, and `RetryFail` marks it
(`RetryDbError`). If reading the job fails at first, the handler asks again, and
either finds it (`RetryReadFails`) or aborts.

The background task and the scheduler share an event loop, and today's embedder
never suspends; the model lets them interleave at every transaction all the
same. That allows more behaviours than the process has and fewer only if a call
were split, so what is checked stays true when the embedder becomes truly
asynchronous. A faulty transaction is one that was rolled back: a commit whose
outcome the client does not learn is not modelled. Rows are numbered in order of
`created_at`; ties are not modelled.

`JobLedger` is what remains when tables, tasks and batches are forgotten: a
delivery is unknown, accepted or finished, is run a bounded number of times, and
never after it has finished. `ImplementsLedger` maps `Ingestion` to it.

### MailRuns

Here the one call `TaskIngest` or `RetryIngest` is a run of `Pipeline`: `TaskCalls` and
`RetryCalls` start it, `RunGoesOn` takes its steps (embedding, an upsert that may be
applied in part, the event), `TaskReturns` and `RetryReturns` hand its outcome to whoever waits
(`taskRun`, `retryRun`). `ServerStops` and `CommandStops` end a process with its
runs, in the middle of an upsert too. `where` is `Pipeline`'s `pc`; chats, events and
subscribers are left out. `ungrouped` are the vectors without a `thread_id`: the
task's document has its sender there, the retry's is rebuilt from `source_items`,
where there is none. `stored`, which `Ingestion` changes at will, has an e-mail here when
the index has it (`Learns`), as of when its caller learns it.

### SessionAuth

Each thread has a place `pc` and the locals of its handler: the two cookies, the
verified subject, the account it has found. One action is one statement that
reads or writes the database: `SignIn` (the read of the challenge) and `Consume`
(the counted delete) are apart, with Google's answer in between; so are
`LookupNothing` and `Create`, and the three reads of `session_user`. `Create` is
one commit; its failure by the unique `google_sub` is `CreateLoses`. The two
reads of a sign-in's own authorisation are one action, `Authorize`; the property
about disabled accounts is stated of requests, whose reads are apart. A browser
may send any cookie it was ever given. `Ends` is every refusal, and a crash of
the process. `challenge`, `user` and `expires` hold plain tokens where the code
stores their digests. `issued`, `withdrawn` and `origin` are history. Header checks, cookie attributes and
the wording of errors are left out.

`SignIns` is what a browser and an account owner see of it: a challenge is offered,
withdrawn, spent by a subject, and then used for one session or lost; a subject has one
account, made while it signs in; a session is for the account of the subject that
spent its challenge, with a token that was never given. `ImplementsSignIns` maps
`SessionAuth` to it: a challenge is spent while a thread is past `Consume` with it
(`Holding`), its signer is the subject in that thread's locals, and the account of a
subject is the one that holds it. Sessions may end at any time in `SignIns`, as by logout
and by deletion of the expired.

### Chunker

A text is its length; a chunk is the interval it was cut from and the intervals
of the fragments appended to it. One action per branch and per turn of the loop.
`CallAgain` is the next call. The module assumes a chunk size of at least
`MinTokens`: `chunk_document` called with less would take every window for a
fragment, have no chunk to append it to and return nothing; the pipeline calls
it with the default, 500.

### Pipeline

A task `t` is a list of documents, `docs[t]`, given to `ingest_documents`; `pc[t]`
and `next[t]` are where it is in it. `ReceiveChats` and `ReceiveEvent` are the
webhooks; `RunMail` is any run of a persisted e-mail, with the id of its source
item, by the server or by the retry command (`Ingestion` says which runs there
are; here there may be any). `Normalize` ends the task of a payload with a
malformed message, as `_process_messages` does, before anything is stored. `Crash` ends
every run of the server, and `Stop` one run with its process. `Embed`,
`Upsert` and `Publish` are `ingest_document`; the validity checks are part of
`Embed`, and a failed upsert may have been applied to any part.

`store` is the index. A namespace is `"user-"` before the user id, so the user of
a document stands for it. A document is identified by where its id was made; a
vector by its document's id, or, when the text was cut, by the run and the part, as
`chunk_document` makes new ids then. A text is the number of its parts. `queue[s]`
is the queue of a subscriber of `UserOf[s]`, in the server's memory: the retry
command publishes on a bus of its own. `Take` is the subscriber's side, which the
repository does not have yet.

### WorkspaceTokens

`founder` says which workspaces there are and who made them, `role` is
`workspace_members`, `digest` the hash kept with a workspace and `rows` the
integrations, each known by the first token it had. `pc[p]` is where process `p`
is in `provision_webhook_token`: `Begin` and `Check` are its two reads, `Create`,
`Own` and `Write` its commits; `Find` draws the token and looks for an integration,
any of those there are. A handler has no `await`, so one process serves one request
after another; two processes interleave. `Fails` is a statement or commit that
raises, or the end of the process, before any of these. Tokens stand for their
digests. A token that was drawn and not committed was shown to nobody and may be
drawn again. `AddMember` is the operator's use of `add_workspace_member`, for users
who are not members yet: the function would also overwrite an owner's role.

`TokenRegister` keeps one token for each workspace and never takes a former one;
`ImplementsRegister` maps the tokens the e-mail webhook would accept to it.

### TypeRegistry

`table` and `file` are the two stores; `mode[p]` is the one process `p` settled on when it
imported the module (`_ENGINE` set or not), and `memory[p]` its `_SOURCES` and
`_DOCUMENT_TYPES`, in one set, as the two kinds of names are disjoint here.
Start-up is one step: its statements are upserts and one read, and the listing and
validity checks of a process with a database query the table. The endpoints'
check and addition are one step, as the coroutine awaits nothing. `write_text` is
two: `OpenFile` empties the file, `WriteFile` fills it (the text is far below one
buffer). `OpenFails` and `WriteFails` are answered 500, and leave the name in the
memory. `Canonical` stands for the trimming, lower-casing and the alias
`google_calendar`. `promised` is history, by store; `EndServer` strikes from it what an
unreadable file has lost. One server process and one command are modelled, which is
how the repository runs; the file's write by several servers is not.

### GoogleConnection

`row` is `oauth_credentials`, keyed by user as its id is a digest of the user and the
provider. A thread goes through `save_google_calendar_token`: `Exchange` is
`fetch_token`, `LookForTable` and `CreateTable` are `create_all`, `Select` and one of
`Insert`, `Update`, `UpdateNothing` and `InsertFails` the transaction, at the isolation
of the repository's databases, which does not protect a SELECT from another's
DELETE. `disconnect` and `load_refresh_token` look for the table first; without
it they end as they would with an empty one, so each is one step. The disconnect
route finds `gcal` among the providers, as `BuiltInsStay` says.

A change is `Load`, then Google: `Done`, `Refused` (an answer of Google that it did not
apply the change) or `Unknown` (502), where Google may have applied it, may yet
(`ApplyLate`), or never will. `copies` counts applications of the change a user is making;
he makes one at a time and may `Retry` after an error. `connected`, `disturbed`,
`copies`, `late`, `answer` and `unsure` are history, or the world outside. A `Restart` may
bring another key. That the message for an answer that is not JSON does not tell
the user to check his calendar, as the other 502s do, is wording and left out.

### Serving

A request `r` asks for what `Kind[r]` says and comes with the cookie, key and header of
`Carries[r]`; `pc[r]` is where it is. `loop` is whose coroutine has the event loop, `busy`
whose handlers have a thread, `holds` whose sessions have a connection. `get_db` makes a
session in a thread (`Open`) and closes it after a turn of the loop (`Leave`); the first
query takes a connection (`Connect`), or raises after `pool_timeout` (`PoolTimesOut`). The
dependencies of `deps.py` are coroutines: `TakeLoop` to `GoIn` keep the loop, and so do
the queries of search and timeline (`Answer`) and those of the e-mail webhook (`Record`).
Administrator's pages and briefs run in threads (`TakeThread`). `Items`, `Calendar`
and `Generate`, with their failing twins, are `get_today_brief` and what it calls; `brief[r]`
says what its response claims, field by field. FastAPI validates it against the
`response_model` in a thread, with the connection still taken (`Respond`); the administrator's
routes have none, and coroutines are validated on the loop. `sessions`, `keys` and `members` change
by `Withdraw`, `Admit` and `ProvisionKey` at any step. `since`, `google` and `model` are
history. The session is one predicate here, `SessionHolds`, as `SessionAuth` has its statements.

What the answer holds is forgotten with the request, and rights that no request needs are
left as they are; both only make the instance smaller. The queries themselves, which
read rows and change nothing, are left out. The credential is loaded by an engine with
a pool of its own; that it has no connection to give is one of `CalendarFails`.

## Runs

| Run | Instance | Question |
|---|---|---|
| `ingestion_one_worker` | `MailRuns`: two deliveries, one of a short text and one cut in two, the command as the only retry process, two attempts, batches of one, four runs, all faults, two crashes or database errors | do jobs, items, vectors, thread ids and budget stay consistent with one retry process, and is the ledger implemented? |
| `ingestion_live` | `Ingestion`: two deliveries, scheduler and command, two attempts, batches of one, all faults, one crash or database error | is a job forgotten only by a crash or a database error, does the counter stay within its budget, how often may lost updates let a job run, and does every delivery settle that is not dropped, without its text, or kept out of the batches? |
| `ingestion_requeue_race` | one fault kind, two processes | finds a job requeued that another process has taken or finished |
| `ingestion_no_item` | the source item cannot be persisted | finds a job that is retried for ever |
| `session_auth` | two threads, subjects, accounts, challenges and tokens; lifetimes 1 and 2, clock up to 2 | every property of sign-in, and is the contract of signing in implemented? |
| `chunker` | texts up to 40 characters, chunks of 2 and 3 tokens, every overlap, smallest chunk 2 tokens | every property of the chunker |
| `pipeline` | two tasks of payloads of up to two messages, one of them malformed, a calendar event, a short and a long e-mail; two subscribers with queues of one; all faults | every property of the pipeline |
| `pipeline_numbers` | one payload with changes of two numbers | finds a message in another number's namespace |
| `workspace_tokens` | one process, two workspaces, users and three tokens, failures, and sign-ins that make a workspace meanwhile | is the register implemented, who becomes an owner, and is a token always administrated? |
| `type_registry` | server and command; a built-in and a new name of each kind, a shipped one; database, disk and crashes fail | what is known after which start? |
| `google_connection` | two users, two threads, two tokens, two keys, two copies of a change; database errors and restarts | every property of connections and changes |
| `serving` | a brief, a search, an administrator's page and an e-mail webhook, two users and workspaces; one thread, one connection, one change of rights; database errors, odd answers of Google | every property of request serving |

**Bounds.** `MaxJobs` is the number of deliveries in the runs that fire everything:
a duplicate job has a row as long as the other delivery is still to come. Two deliveries
are enough for two jobs to compete for a batch of one, in which the older one stands in
the way of the younger. Two attempts leave one retry,
and a job that failed twice; a retry after a retry is in the proofs, which are
for any number. `ingestion_one_worker` follows every run into the index, so its bounds are
the smaller ones: four runs are two for each delivery, and two crashes or database
errors are one during a run and one after it. The command is its retry process as the
server may crash without it and it without the server; the scheduler, which ends with
the server, is in `ingestion_live`, and the proofs cover either. Challenges,
accounts and tokens are bounded by the ids there are; two of each, with two
threads, let every pair of requests meet, and a longer-lived session than
challenge lets one expire before the other. `session_auth` uses symmetry over
all its sets of model values, which its properties do not tell apart; it checks
no liveness. A text of 40 characters is up to twenty windows.
Two tasks in `pipeline` let two runs of an e-mail, or two batches, overlap, and
their documents' events fill a queue of one; with three its safety properties hold
as well. Three tokens are a first one and two rotations, or one
workspace's rotation and another's first. In `google_connection` two tokens are two
connections of one user, at once or in turn, or one of each user; the second copy of
a change is the first wrong one. It uses symmetry as `session_auth` does.
In `serving` one thread and one connection are always at their limit, so that each of the
four requests waits for what another one keeps; with one change of rights every request may lose
or gain one while it waits. Pools of any size are proved.
What several processes may do to workspaces is proved for any number of them.

**Fairness.** `ingestion_live` and `ingestion_no_item` assume weak fairness of
each background task and of each retry process: the event loop runs a task that
was added, and the interval trigger, or the operator's schedule, starts a batch
again and again. `pipeline` assumes it of each task, which a crash
ends as a failed one. No fairness of deliveries or faults is assumed. `serving` assumes that some
request goes on as long as one can: the loop and the threads run, and the pool, Google
and the model answer or time out (`pool_timeout`, and the timeouts of `requests` and of the
model's client). It needs no fairness among requests, as each takes a bounded number of
steps.

**Deadlock** is checked in every run but `serving`, whose requests are made once each, so
that it stops when they have ended; `EveryRequestEnds` says that it does not stop before.

### What the runs show to be wrong

* **A job is requeued behind another process's back** (`ingestion_requeue_race`).
  `requeue_failed_job` tests what its session has read and writes without a
  condition, so with the scheduler and the command at work a job that is being
  processed, or has succeeded, becomes "queued" again and is run again. With one
  retry process this cannot happen, and that is proved. Even with several,
  "succeeded" stays true of the stores and the attempt counter stays within its
  budget, although it no longer counts every run: the pipeline may run a job
  `RacedRuns[n, w]` times with a budget of `n` and `w` processes, which is the binomial
  coefficient of `n - 1 + w` over `w`: 3 instead of 2 in the run, 6 instead of 3 with the
  default budget and two processes (`RacedRunsBounded`).
* **A job is retried for ever** (`ingestion_no_item`). A job that failed before its
  source item was persisted raises `LookupError` ahead of `mark_job_processing`:
  its attempts stay, and each batch selects it again. Batches take the oldest jobs first
  (`retry.py:80-81`), so `RETRY_BATCH_LIMIT` such jobs fill every batch, and a younger failed
  job, though its text is there, is not retried. `SettledOrDropped` is what holds
  instead: a delivery settles unless its text was never persisted, a crash or a database
  error has dropped it, or as many older ones without a text as a batch takes keep it out.
* **A message is stored for another number's user** (`pipeline_numbers`).
  `_extract_messages_and_user_id` keeps the user of a payload's last change only.

The models, and the reading they took, show more limits:

* A WhatsApp message that is delivered twice has two documents: `ReceiveChats` makes
  new ones at each delivery, where e-mails have receipts.
* Two server processes that provision one workspace at once insert two integrations,
  of which a rotation changes one, so the other's token is accepted for ever
  (`workspace_tokens` with a second process finds it; with one process it cannot
  happen, which is proved).
* After a crash a job that was queued or processing has no task, no batch selects it
  and the provider's redelivery is ignored; `blueprint.md:456` says so. One database error
  does the same: in `mark_job_processing` or `mark_job_succeeded` of a background task,
  whose handler uses the session again without a rollback; in a flush of a retry, whose
  handler queries before it rolls back, and takes the rest of the batch with it; and
  in `mark_job_failed`. `OpenJobIsHeld` says that failures of persisting and of the
  pipeline do not.
* A workspace is committed before its owner: a failure between the two leaves one that
  nobody may administrate, and its maker with 403. It has no token
  (`TokensAreAdministered`).
* A retried e-mail loses its `thread_id`, as `source_items` does not keep it. `ThreadsAreKept`
  says that this befalls retried e-mails only.
* The vectors of a long text that a former run has left stay beside those of a later run.
* A dependency that finds the pool empty keeps the event loop until a connection is
  back or `pool_timeout` has passed, and connections come back only by the loop, so
  nothing else is answered meanwhile: neither other requests nor the e-mail webhook, which the
  docstring at `webhooks/email.py:114` calls non-blocking. A brief keeps its connection
  during its calls of Google and of the model. Everybody is answered in the end
  (`EveryRequestEnds`), some with 500.
* When Google's first page names no event and says that there are more pages, a brief says
  that there are no events, with `calendar_has_more` set.
* `tests/test_brief_llm.py:103` expects a text of 2401 characters to be rejected; the limit in
  `synthesis_llm.py:39` is 2500. Lengths are not modelled.
* Without a database, a server that ends while it writes the registry file loses every
  name that was ever added; a process whose database does not answer when it starts
  knows the names of the file only (`EndServer` and `StartOnFile`).

## Proofs

Everything below holds for every value of the constants that satisfies the named
assumptions, for any number of processes, threads, deliveries or tokens.

* `IngestionProofs`. `Basic` (types, untouched rows beyond the table, a task or a
  handler only on an existing row) is inductive and gives `TypeCorrect`; with it,
  `OneJob`. `StoredOK` says that whoever is about to mark a job "succeeded" has
  persisted and stored it, and gives `Stored` for any number of racing processes.
  `SeenOK` says that a process about to count an attempt has read one within the
  budget, and gives `AttemptsWithinBudget` in spite of lost updates. Under
  `OneWorker` (one retry process) `SoloInv` adds that what the process has read is
  what the table holds, and that a task and a handler exclude each other; from it
  follow `Exclusive`, `RunsBounded`, `RequeueSafe`, `SettledForGood` and
  `Refinement`. `OneWorker` is an assumption of these theorems and not of the
  module; without it they are false, as the run shows. `OpenJobsHeld` follows the
  last process at work on a job: where it goes to its handler the handler marks the job, and
  where it loses the job a crash or a database error has struck. For `MailRuns`, `MailsAreIngestion` says that each of its
  steps is one of `Ingestion` or a stutter, so all of the above holds of it; `FindInv`
  (a run past its upsert has all its vectors in the index, and who waits for a run waits
  for one of his job's e-mail) gives `SucceededFindable`; `ThreadInv` (vectors without a
  thread are of retried e-mails, no e-mail is retried while its task is at work, and a job
  whose task has run succeeds by a retry only as its second run) gives
  `ThreadsKept`. These three hold for any number of racing retry processes. So do
  `MailsArePipeline` (the runs in `MailRuns` are runs of `Pipeline`, a crash or a caller that
  has gone being one of its faults, so its invariants hold of them), `MailsKeepOneDocument`
  (every vector is one of the document its e-mail keeps), `SucceededForGood` (the text and the
  vectors of a job that once succeeded are never taken away, even where a race marks
  the job otherwise) and `TasksAlone`: races are among retry processes, as
  none of them can have a job whose task is at work. `MailsKeepPromises` carries what holds
  under `OneWorker` over to the composition, `ImplementsLedger` included.
* `SessionAuthProofs`. `AccountInv` gives `OneAccount`, `OwnAccount` and
  `WholeAccounts`. `ChallengeInv` gives `OneSession` and `Withdrawn`: a nonce is
  in one place at a time, as a row not yet used, in the hands of one thread, or as
  the origin of one session, and a withdrawn nonce is in none. `RevokeInv` says that what
  a request found wanting when it began it will find wanting at the read that looks at
  it, as no account gets a key or a membership back; it gives `RevokedNotServed`.
  `SignInsArePromised` is the refinement of `SignIns`: with both invariants, at most one
  thread holds a challenge, so each statement is one step of the contract or none. The
  proof has one lemma per statement, which says what it does to the mapped state.
* `ChunkerProofs`. `Loops` relates the last chunk to `start_char`: it started one
  stride before as long as there is no fragment, and once there is one every later
  window is one. It gives `EveryCharacterIsKept`, `SizesKept` and `Overlaps`, and
  `SomeChunk`: every document has a chunk, which is what `Pipeline` assumes of `Parts`.
* `PipelineProofs`. `IdsOK` gives each document of a payload an id of its own and an
  e-mail the one it keeps; `StoreOK` says that every vector is of a document some
  task has come to; `DoneOK` says that a task has stored in full what it has left
  behind or is about to publish. They give `FindableEvents`, `NoGaps` and
  `OneDocumentOfMail`, for any payloads and any faults, and `DoneTasksAreFindable`: a task
  that ends and has not failed has all its documents whole in the index.
  `WorkOfTasksRunsOut` counts the steps a task has left, which only its own steps change.
  `LastNumberOwns` says where messages of payloads with several numbers go, and
  `OneNumberSuffices` that other payloads have no such trouble: its hypothesis is of the
  constant `Payloads`, and the run `pipeline_numbers` shows that it is needed.
* `WorkspaceTokensProofs`. `RequestsOK` says that a request past its look-up is about
  a workspace that exists, and one between its commits its founder's; it gives
  `OneOwner`, `RotatedByAdministrators` and `TokensAdministered` for any number of
  processes. Under `OneProcess`, `RowsOK` (one integration per workspace, ids apart)
  and `FoundOK` (what a request has found is still so when it writes) give `Agree`
  and `Refinement`; with two processes `FoundOK` is what breaks. What remains then is
  `PoolInv`: tokens on their way are new and apart, integrations share neither ids nor
  tokens, and what a request has found stays. It gives `OneWorkspacePerToken` and
  `NoTokenReturns` for any number of processes: two of them may leave a workspace with two
  tokens, but never with a former one again, nor with one that no administrator's
  request for that workspace has committed.
* `TypeRegistryProofs`. `BuiltInOK` follows the built-in names, and `PromisesOK` the
  confirmed ones, through table, file and memories: a confirmed name is in the memory
  of a server that uses the file, and in the file unless that server has emptied it.
  They give `BuiltIns`, `Remembered` and `StartsKnowing` for any names and processes.
* `GoogleConnectionProofs`. `OwnInv` gives a token in hand the user it was granted for.
  `HoldInv` says that a thread that has found a credential finds it still, unless its
  user has disconnected, which is what makes `Holds` inductive. `OneCall` and `Counted`
  say that the change of a user who is sure is applied if and only if he was told so,
  and give `Honest`.
* `ServingProofs`. The invariant ties loop, threads and connections to where their
  requests are, each request to the rights it has had at some time since it began (`since` only
  grows while it is on its way), and each brief to what Google and the model have said. It gives
  `ComeBack`, `Entitled` and `Honest`, for any requests, threads and connections.
  `PoolCloses` says when requests wait in a circle: only if more of them are on their way than
  the pool has connections, these are all held by requests that wait for the loop or
  for a thread, and whoever keeps the loop or a thread waits for a connection. That happens
  (a webhook has taken the loop and waits for the connection of a brief that waits for
  the loop), and nothing but `pool_timeout` ends it; loop and threads alone make no circle.
  `StepsRunOut` says that each step of a request lowers the number of those
  it has left, at most twelve, and no other's.

`TypeCorrect` is proved of every module; the runs list `TypeOK` where the type says
something of its own, as the queues' capacity in `pipeline`.

Only model-checked are the liveness properties, which need fairness:
`SettledOrDropped`, `AcknowledgedIsFindable` and `EveryRequestEnds`; `RacedRunsBounded`, whose
bound TLC also finds to be reached for budgets of up to four and up to three processes; and
the counterexamples. Every other invariant, action property and refinement of a passing run is
proved. Fairness and `ENABLED` are beyond the prover, but most of what the three rest on
is not: what a state needs to go on (`PoolCloses`), that steps run out
(`WorkOfTasksRunsOut`, `StepsRunOut`), and that what has ended is as it should be
(`DoneTasksAreFindable`, `ComeBack`). Of `SettledOrDropped` it is `OpenJobsHeld`; that
the batches of a retry process come to each job is checked only.

## Not modelled

Google's verifier, the embedding model, Pinecone and SMTP-side signatures appear
as calls that succeed or fail. Of the vector store, `query` and `delete` and the index in memory
are left out: no route asks the first, and nothing calls the second. What search,
timeline and administrator's pages select, and reads of calendars, keep no state. The
`Origin` of a POST is checked from the request alone. `CredentialStore` is used by
nothing. The commands route is a stub. Configuration, logging, encryption and migrations
are start-up code. The wording of briefs, prompts and errors is left out.

## Plan

`Ingestion`, `MailRuns`, `SessionAuth`, `Chunker`, `Pipeline`, `WorkspaceTokens`,
`TypeRegistry`, `GoogleConnection` and `Serving` are done, with their proofs. Next:

1. Composition: `Ingestion` with `WorkspaceTokens` in front of it (a delivery under
   a token being rotated).
2. Composition: `TypeRegistry` with `GoogleConnection`, so that a stored credential is
   always listed and can be disconnected.
3. `Chunker` in place of `Parts` in `Pipeline`, so that the vectors of a document cover
   its text.
