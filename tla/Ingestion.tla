----------------------------- MODULE Ingestion -----------------------------
(***************************************************************************)
(* Durable ingestion of e-mail: the webhook that records a delivery        *)
(* (db/ingestion.py, webhooks/email.py), the background task that          *)
(* processes it, and the processes that retry failed jobs                  *)
(* (services/ingestion/retry.py): the scheduler inside the server and the  *)
(* standalone command workers/retry_failed.py.                             *)
(*                                                                         *)
(* Every action is one database transaction of the code, or one call of    *)
(* the pipeline.  What a process read in an earlier transaction it holds   *)
(* in variables of its own (cur, seen, batch), as the SQLAlchemy session   *)
(* does with expire_on_commit=False.                                       *)
(***************************************************************************)
EXTENDS Integers, FiniteSets

CONSTANTS
    Mail,         \* deliveries: a workspace together with a provider's message id
    NoMail,       \* the mailOf of a row that does not exist
    Workers,      \* processes that run run_retry_worker
    Scheduler,    \* the one of them, if any, that lives in the server process
    MaxAttempts,  \* settings.MAX_INGESTION_ATTEMPTS
    BatchLimit,   \* settings.RETRY_BATCH_LIMIT, or --limit
    Faults,       \* what may go wrong, a subset of FaultKinds
    MaxJobs,      \* bound: rows of ingestion_jobs
    MaxFailures   \* bound: crashes and database errors, in any process

FaultKinds == {"persist", "ingest", "db", "crash"}

ASSUME NoMailAssumption == NoMail \notin Mail
ASSUME FaultsAssumption == Faults \subseteq FaultKinds
ASSUME LimitsAssumption == /\ MaxAttempts \in Nat
                           /\ BatchLimit \in Nat \ {0}
ASSUME BoundsAssumption == /\ MaxJobs \in Nat
                           /\ MaxFailures \in Nat

JobIds == 1 .. MaxJobs
Statuses == {"absent", "queued", "processing", "succeeded", "failed"}
TaskPcs == {"none", "start", "persist", "ingest", "succeed", "fail"}
RetryPcs == {"idle", "read", "requeue", "start", "ingest", "succeed", "fail"}

VARIABLES
    receipts,     \* webhook_receipts: the deliveries recorded
    rows,         \* ingestion_jobs: how many rows, numbered in order of created_at
    mailOf,       \* ingestion_jobs.receipt_id, as the delivery of that receipt
    status,       \* ingestion_jobs.status
    attempts,     \* ingestion_jobs.attempts
    items,        \* source_items: the deliveries whose text is persisted
    stored,       \* the vector store: the deliveries whose vectors are in it
    task,         \* where the background task of a job is
    pc,           \* where a retry process is
    batch,        \* the selected jobs it has not looked at yet
    cur,          \* the job it is retrying
    seen,         \* attempts of that job, as its session read it
    runs,         \* history: calls of ingest_documents made for a job
    failures      \* history: crashes and database errors so far

database == <<receipts, rows, mailOf, status, attempts, items>>
worker == <<pc, batch, cur, seen>>
vars == <<receipts, rows, mailOf, status, attempts, items, stored, task,
          pc, batch, cur, seen, runs, failures>>

Jobs == 1 .. rows

Init ==
    /\ receipts = {}
    /\ rows = 0
    /\ mailOf = [j \in JobIds |-> NoMail]
    /\ status = [j \in JobIds |-> "absent"]
    /\ attempts = [j \in JobIds |-> 0]
    /\ items = {}
    /\ stored = {}
    /\ task = [j \in JobIds |-> "none"]
    /\ pc = [w \in Workers |-> "idle"]
    /\ batch = [w \in Workers |-> {}]
    /\ cur = [w \in Workers |-> 0]
    /\ seen = [w \in Workers |-> 0]
    /\ runs = [j \in JobIds |-> 0]
    /\ failures = 0

\* A crash, or a database that does not answer.
Strikes(fault) ==
    /\ fault \in Faults
    /\ failures < MaxFailures
    /\ failures' = failures + 1

-----------------------------------------------------------------------------
(***************************************************************************)
(* The webhook: receipt and queued job are inserted in one transaction,    *)
(* and the job's background task is added.  A second delivery of the same  *)
(* message breaks the unique constraint of the receipts and is only        *)
(* acknowledged.                                                           *)
(***************************************************************************)
Record(m) ==
    /\ rows < MaxJobs
    /\ receipts' = receipts \cup {m}
    /\ rows' = rows + 1
    /\ mailOf' = [mailOf EXCEPT ![rows + 1] = m]
    /\ status' = [status EXCEPT ![rows + 1] = "queued"]
    /\ task' = [task EXCEPT ![rows + 1] = "start"]
    /\ UNCHANGED <<attempts, items, stored, worker, runs, failures>>

\* Mutant: webhook_receipts without its unique constraint.
AcceptEveryDelivery(m) == Record(m)

AcceptDelivery(m) ==
    /\ m \notin receipts
    /\ Record(m)

IgnoreDelivery(m) ==
    /\ m \in receipts
    /\ UNCHANGED vars

-----------------------------------------------------------------------------
(***************************************************************************)
(* The background task of job j.  An exception takes it to "fail", where   *)
(* mark_job_failed is tried once, in the same session; if that raises too, *)
(* the error is logged and the task is over.                               *)
(***************************************************************************)
TaskGoes(j, from, to) ==
    /\ task[j] = from
    /\ task' = [task EXCEPT ![j] = to]

\* mark_job_processing
TaskStart(j) ==
    /\ TaskGoes(j, "start", "persist")
    /\ status' = [status EXCEPT ![j] = "processing"]
    /\ attempts' = [attempts EXCEPT ![j] = @ + 1]
    /\ UNCHANGED <<receipts, rows, mailOf, items, stored, worker, runs, failures>>

\* normalize_email and persist_source_item
TaskPersist(j) ==
    /\ TaskGoes(j, "persist", "ingest")
    /\ items' = items \cup {mailOf[j]}
    /\ UNCHANGED <<receipts, rows, mailOf, status, attempts, stored, worker,
                   runs, failures>>

\* either of them raises; persist_source_item has rolled back
TaskPersistFails(j) ==
    /\ "persist" \in Faults
    /\ TaskGoes(j, "persist", "fail")
    /\ UNCHANGED <<database, stored, worker, runs, failures>>

\* ingest_documents returns
TaskIngest(j) ==
    /\ TaskGoes(j, "ingest", "succeed")
    /\ stored' = stored \cup {mailOf[j]}
    /\ runs' = [runs EXCEPT ![j] = @ + 1]
    /\ UNCHANGED <<database, worker, failures>>

\* Mutant: the exception is swallowed.
TaskSwallowsError(j) ==
    /\ "ingest" \in Faults
    /\ TaskGoes(j, "ingest", "succeed")
    /\ runs' = [runs EXCEPT ![j] = @ + 1]
    /\ UNCHANGED <<database, stored, worker, failures>>

\* Mutant: the exception leaves the task without mark_job_failed.
TaskLeavesJobOpen(j) ==
    /\ "ingest" \in Faults
    /\ TaskGoes(j, "ingest", "none")
    /\ runs' = [runs EXCEPT ![j] = @ + 1]
    /\ UNCHANGED <<database, stored, worker, failures>>

\* ingest_documents raises; the store may have applied the upsert all the same
TaskIngestFails(j) ==
    /\ "ingest" \in Faults
    /\ TaskGoes(j, "ingest", "fail")
    /\ stored' \in {stored, stored \cup {mailOf[j]}}
    /\ runs' = [runs EXCEPT ![j] = @ + 1]
    /\ UNCHANGED <<database, worker, failures>>

\* mark_job_succeeded
TaskSucceed(j) ==
    /\ TaskGoes(j, "succeed", "none")
    /\ status' = [status EXCEPT ![j] = "succeeded"]
    /\ UNCHANGED <<receipts, rows, mailOf, attempts, items, stored, worker,
                   runs, failures>>

\* mark_job_processing or mark_job_succeeded raises and changes nothing.  After a failed
\* flush or commit the session refuses all else, as nothing rolls it back, so that
\* mark_job_failed raises too and the task is over.  Only the SELECT with which the
\* session begins may fail and leave it fit for mark_job_failed.
TaskDbError(j) ==
    /\ Strikes("db")
    /\ \/ TaskGoes(j, "start", "fail")
       \/ \E from \in {"start", "succeed"} : TaskGoes(j, from, "none")
    /\ UNCHANGED <<database, stored, worker, runs>>

\* mark_job_failed
TaskFail(j) ==
    /\ TaskGoes(j, "fail", "none")
    /\ status' = [status EXCEPT ![j] = "failed"]
    /\ UNCHANGED <<receipts, rows, mailOf, attempts, items, stored, worker,
                   runs, failures>>

\* mark_job_failed itself meets a database error: the job keeps the status it has
TaskGivesUp(j) ==
    /\ Strikes("db")
    /\ TaskGoes(j, "fail", "none")
    /\ UNCHANGED <<database, stored, worker, runs>>

TaskStep(j) ==
    \/ TaskStart(j)   \/ TaskPersist(j)     \/ TaskPersistFails(j)
    \/ TaskIngest(j)  \/ TaskIngestFails(j) \/ TaskSucceed(j)
    \/ TaskDbError(j) \/ TaskFail(j)        \/ TaskGivesUp(j)

-----------------------------------------------------------------------------
(***************************************************************************)
(* A retry process w.  It selects a batch, then takes its jobs one by one, *)
(* oldest first.  "read" is between two jobs of the batch.                 *)
(***************************************************************************)
\* Mutant: <= for <.
HasBudgetOffByOne(n) == n <= MaxAttempts

HasBudget(n) == n < MaxAttempts

\* Mutants: the requeue has no bound, one too low, or no regard for who is at work.
CanRequeueIgnoringBudget(j) == status[j] = "failed"
CanRequeueOffByOne(j) == status[j] = "failed" /\ HasBudget(attempts[j] + 1)
CanRequeueProcessing(j) ==
    status[j] \in {"failed", "processing"} /\ HasBudget(attempts[j])

CanRequeue(j) == status[j] = "failed" /\ HasBudget(attempts[j])

Retryable == {j \in Jobs : CanRequeue(j)}

\* Mutant: ORDER BY created_at DESC.
YoungestOf(S) == {j \in S : Cardinality({i \in S : i > j}) < BatchLimit}

OldestOf(S) == {j \in S : Cardinality({i \in S : i < j}) < BatchLimit}

RetryGoes(w, from, to) ==
    /\ pc[w] = from
    /\ pc' = [pc EXCEPT ![w] = to]

\* the SELECT of run_retry_worker
RetrySelect(w) ==
    /\ Retryable # {}        \* an empty selection changes nothing
    /\ RetryGoes(w, "idle", "read")
    /\ batch' = [batch EXCEPT ![w] = OldestOf(Retryable)]
    /\ UNCHANGED <<database, stored, task, cur, seen, runs, failures>>

\* get_ingestion_job: a new session reads the next job of the batch, and
\* requeue_failed_job checks what was read
RetryRead(w) ==
    /\ pc[w] = "read"
    /\ \E j \in batch[w] :
        /\ \A i \in batch[w] : j <= i
        /\ batch' = [batch EXCEPT ![w] = @ \ {j}]
        /\ cur' = [cur EXCEPT ![w] = j]
        /\ seen' = [seen EXCEPT ![w] = attempts[j]]
        /\ pc' = [pc EXCEPT ![w] =
                    IF CanRequeue(j) THEN "requeue" ELSE "read"]
    /\ UNCHANGED <<database, stored, task, runs, failures>>

\* the loop of run_retry_worker is over
RetryFinish(w) ==
    /\ batch[w] = {}
    /\ RetryGoes(w, "read", "idle")
    /\ UNCHANGED <<database, stored, task, batch, cur, seen, runs, failures>>

\* the write of requeue_failed_job
RetryRequeue(w) ==
    /\ RetryGoes(w, "requeue", "start")
    /\ status' = [status EXCEPT ![cur[w]] = "queued"]
    /\ UNCHANGED <<receipts, rows, mailOf, attempts, items, stored, task,
                   batch, cur, seen, runs, failures>>

\* Mutant: a retry is not counted.
RetryStartUncounted(w) ==
    /\ RetryGoes(w, "start", "ingest")
    /\ mailOf[cur[w]] \in items
    /\ status' = [status EXCEPT ![cur[w]] = "processing"]
    /\ UNCHANGED <<receipts, rows, mailOf, attempts, items, stored, task, batch,
                   cur, seen, runs, failures>>

\* mark_job_processing: the session writes one more than it has read
RetryStart(w) ==
    /\ RetryGoes(w, "start", "ingest")
    /\ mailOf[cur[w]] \in items
    /\ status' = [status EXCEPT ![cur[w]] = "processing"]
    /\ attempts' = [attempts EXCEPT ![cur[w]] = seen[w] + 1]
    /\ UNCHANGED <<receipts, rows, mailOf, items, stored, task, batch, cur, seen,
                   runs, failures>>

\* the source item does not exist: LookupError
RetryNoItem(w) ==
    /\ RetryGoes(w, "start", "fail")
    /\ mailOf[cur[w]] \notin items
    /\ UNCHANGED <<database, stored, task, batch, cur, seen, runs, failures>>

\* ingest_documents returns
RetryIngest(w) ==
    /\ RetryGoes(w, "ingest", "succeed")
    /\ stored' = stored \cup {mailOf[cur[w]]}
    /\ runs' = [runs EXCEPT ![cur[w]] = @ + 1]
    /\ UNCHANGED <<database, task, batch, cur, seen, failures>>

\* ingest_documents raises, with the upsert applied or not
RetryIngestFails(w) ==
    /\ "ingest" \in Faults
    /\ RetryGoes(w, "ingest", "fail")
    /\ stored' \in {stored, stored \cup {mailOf[cur[w]]}}
    /\ runs' = [runs EXCEPT ![cur[w]] = @ + 1]
    /\ UNCHANGED <<database, task, batch, cur, seen, failures>>

\* mark_job_succeeded
RetrySucceed(w) ==
    /\ RetryGoes(w, "succeed", "read")
    /\ status' = [status EXCEPT ![cur[w]] = "succeeded"]
    /\ UNCHANGED <<receipts, rows, mailOf, attempts, items, stored, task, batch,
                   cur, seen, runs, failures>>

\* get_ingestion_job could not read the job; the handler can
RetryReadFails(w) ==
    /\ Strikes("db")
    /\ \E j \in batch[w] :
        /\ \A i \in batch[w] : j <= i
        /\ batch' = [batch EXCEPT ![w] = @ \ {j}]
        /\ cur' = [cur EXCEPT ![w] = j]
    /\ RetryGoes(w, "read", "fail")
    /\ UNCHANGED <<database, stored, task, seen, runs>>

\* A query or a commit of retry_ingestion_job raises and changes nothing.  The handler's
\* get_ingestion_job finds the job in the session, without a query, and goes on.
RetryDbError(w) ==
    /\ Strikes("db")
    /\ \E from \in {"requeue", "start", "succeed"} : RetryGoes(w, from, "fail")
    /\ UNCHANGED <<database, stored, task, batch, cur, seen, runs>>

\* the rest of the handler: roll back, mark_job_failed
RetryFail(w) ==
    /\ RetryGoes(w, "fail", "read")
    /\ status' = [status EXCEPT ![cur[w]] = "failed"]
    /\ UNCHANGED <<receipts, rows, mailOf, attempts, items, stored, task, batch,
                   cur, seen, runs, failures>>

\* The handler raises, which ends the whole batch: its get_ingestion_job must query,
\* and cannot, when a flush has failed, which has expired what the session had read,
\* or when the job was never read; or mark_job_failed meets a database error.
RetryAborts(w) ==
    /\ Strikes("db")
    /\ pc[w] \in {"requeue", "start", "succeed", "fail"} \/ (pc[w] = "read" /\ batch[w] # {})
    /\ pc' = [pc EXCEPT ![w] = "idle"]
    /\ batch' = [batch EXCEPT ![w] = {}]
    /\ UNCHANGED <<database, stored, task, cur, seen, runs>>

RetryStep(w) ==
    \/ RetrySelect(w)  \/ RetryRead(w)        \/ RetryFinish(w)
    \/ RetryRequeue(w) \/ RetryStart(w)       \/ RetryNoItem(w)
    \/ RetryIngest(w)  \/ RetryIngestFails(w) \/ RetrySucceed(w)
    \/ RetryDbError(w) \/ RetryFail(w)        \/ RetryAborts(w)
    \/ RetryReadFails(w)

-----------------------------------------------------------------------------
(***************************************************************************)
(* Background tasks and batches are only in memory: a crash of the server  *)
(* ends its tasks and the scheduler's batch, a crash of a standalone       *)
(* process its own batch.  The database and the vector store stay.         *)
(***************************************************************************)
ServerCrash ==
    /\ Strikes("crash")
    /\ task' = [j \in JobIds |-> "none"]
    /\ pc' = [w \in Workers |-> IF w = Scheduler THEN "idle" ELSE pc[w]]
    /\ batch' = [w \in Workers |-> IF w = Scheduler THEN {} ELSE batch[w]]
    /\ UNCHANGED <<database, stored, cur, seen, runs>>

WorkerCrash(w) ==
    /\ Strikes("crash")
    /\ w # Scheduler
    /\ pc[w] # "idle"
    /\ pc' = [pc EXCEPT ![w] = "idle"]
    /\ batch' = [batch EXCEPT ![w] = {}]
    /\ UNCHANGED <<database, stored, task, cur, seen, runs>>

Next ==
    \/ \E m \in Mail : AcceptDelivery(m) \/ IgnoreDelivery(m)
    \/ \E j \in JobIds : TaskStep(j)
    \/ \E w \in Workers : RetryStep(w)
    \/ ServerCrash
    \/ \E w \in Workers : WorkerCrash(w)

Spec == Init /\ [][Next]_vars

\* The event loop runs a task that was added, and the interval trigger (or the
\* operator's cron) runs a retry process again and again.
Fairness ==
    /\ \A j \in JobIds : WF_vars(TaskStep(j))
    /\ \A w \in Workers : WF_vars(RetryStep(w))

FairSpec == Spec /\ Fairness

-----------------------------------------------------------------------------
Budget == IF MaxAttempts > 1 THEN MaxAttempts ELSE 1

\* Every variable has the type its column or local variable has.
TypeOK ==
    /\ receipts \subseteq Mail
    /\ rows \in 0 .. MaxJobs
    /\ mailOf \in [JobIds -> Mail \cup {NoMail}]
    /\ status \in [JobIds -> Statuses]
    /\ attempts \in [JobIds -> Nat]
    /\ items \subseteq Mail
    /\ stored \subseteq Mail
    /\ task \in [JobIds -> TaskPcs]
    /\ pc \in [Workers -> RetryPcs]
    /\ batch \in [Workers -> SUBSET Jobs]
    /\ cur \in [Workers -> Jobs \cup {0}]
    /\ seen \in [Workers -> Nat]
    /\ runs \in [JobIds -> Nat]
    /\ failures \in 0 .. MaxFailures

\* record_webhook_delivery: a recorded delivery has exactly one job, however
\* often the provider sends it and whatever crashes in between.
OneJobPerReceipt ==
    /\ receipts = {mailOf[j] : j \in Jobs}
    /\ \A i, j \in Jobs : mailOf[i] = mailOf[j] => i = j

\* A job says "succeeded" only when the text is in source_items and the vectors
\* are in the store, whichever process marked it and whatever failed before.
SucceededIsStored ==
    \A j \in Jobs : status[j] = "succeeded" =>
        mailOf[j] \in items /\ mailOf[j] \in stored

\* The attempt counter never passes the budget, even when several retry
\* processes write the counter each from its own reading.
AttemptsBounded == \A j \in Jobs : attempts[j] <= Budget

Handlers(j) ==
    {w \in Workers : cur[w] = j /\ pc[w] \in RetryPcs \ {"idle", "read"}}

\* At any time one process at most works on a job: its background task, or one
\* retry process.  (One retry process; retry_ingestion_job takes no lock.)
ExclusiveRun ==
    \A j \in Jobs :
        /\ task[j] # "none" => Handlers(j) = {}
        /\ \A v, w \in Handlers(j) : v = w

\* The pipeline runs at most MAX_INGESTION_ATTEMPTS times for a job, and each
\* of its runs has been charged to the attempt counter.
RunsWithinBudget ==
    \A j \in Jobs : runs[j] <= attempts[j] /\ attempts[j] <= Budget

\* What a budget of n allows if w retry processes race for it.  While one of them
\* sleeps on its reading the others use the budget up; then it takes the counter
\* back to one more than it had read, and all of them have n - 1 left.
RacedRuns[n \in Nat, w \in Nat] ==
    IF n <= 1 \/ w = 0 THEN 1 ELSE RacedRuns[n, w - 1] + RacedRuns[n - 1, w]

\* mark_job_processing writes one more than its session has read, so that of two
\* retry processes one's run may go uncounted, or take back what the other has
\* counted.  The pipeline still runs only so often for a job, crashes included.
RacedRunsBounded ==
    \A j \in Jobs : runs[j] <= RacedRuns[MaxAttempts, Cardinality(Workers)]

\* requeue_failed_job: a job goes back to the queue only from "failed", and
\* only with budget left.
RequeueOnlyFailed ==
    [][\A j \in Jobs :
        status[j] # "queued" /\ status'[j] = "queued" =>
            status[j] = "failed" /\ HasBudget(attempts[j])]_vars

Settled(j) == \/ status[j] = "succeeded"
              \/ status[j] = "failed" /\ ~HasBudget(attempts[j])

\* A settled job stays as it is, and the pipeline never runs for it again.
SettledIsFinal ==
    [][\A j \in Jobs :
        Settled(j) => status'[j] = status[j] /\ runs'[j] = runs[j]]_vars

Open(j) == status[j] \in {"queued", "processing"}
Held(j) == task[j] # "none" \/ Handlers(j) # {}

\* Only a crash or a database error leaves a job queued or processing with no
\* task or retry process at work on it: no other step forgets one half-way,
\* whichever process marked it last.
OpenJobIsHeld ==
    [][\A j \in JobIds :
        Open(j)' /\ ~Held(j)' => (Open(j) /\ ~Held(j)) \/ failures' > failures]_vars

\* retry_failed.py: a recorded delivery ends with its vectors stored or its retry
\* budget used.
EventuallySettled == \A j \in JobIds : status[j] # "absent" ~> Settled(j)

\* A job whose text was never stored fails for ever: its retries use no budget.
Textless(j) == task[j] = "none" /\ mailOf[j] \notin items

\* Older ones fill every batch, and a failed job is not selected.
Starved(j) ==
    /\ status[j] = "failed"
    /\ Cardinality({i \in Jobs : i < j /\ Textless(i) /\ CanRequeue(i)}) >= BatchLimit

\* What is true of it: such a delivery is settled in the end, unless a crash or
\* a database error has dropped its job half-way, its text was never stored, or
\* it waits behind as many older deliveries without a text as a batch takes.
SettledOrDropped ==
    \A j \in JobIds :
        status[j] # "absent" ~>
            Settled(j) \/ (Open(j) /\ ~Held(j)) \/ Textless(j) \/ Starved(j)

-----------------------------------------------------------------------------
(***************************************************************************)
(* What all of this implements: the ledger of deliveries.                  *)
(***************************************************************************)
JobOf(m) == CHOOSE j \in Jobs : mailOf[j] = m

StateOf(m) ==
    IF m \notin receipts THEN "unknown"
    ELSE IF status[JobOf(m)] = "succeeded" THEN "finished" ELSE "accepted"

RunsOf(m) == IF m \in receipts THEN runs[JobOf(m)] ELSE 0

Ledger == INSTANCE JobLedger WITH
    MaxRuns <- Budget,
    state <- [m \in Mail |-> StateOf(m)],
    ran <- [m \in Mail |-> RunsOf(m)]

\* With one retry process the tables, tasks and batches keep the promise of
\* JobLedger: bounded runs per delivery, none after the delivery has finished.
ImplementsLedger == Ledger!Spec
=============================================================================
