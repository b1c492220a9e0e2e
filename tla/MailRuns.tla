------------------------------ MODULE MailRuns ------------------------------
(***************************************************************************)
(* The ingestion store together with the pipeline: every ingest_documents  *)
(* of Ingestion is a run of Pipeline, which the background task or the     *)
(* retry process waits for, and which ends with the process it runs in.    *)
(*                                                                         *)
(* The task's document is the normalized e-mail, whose thread_id is its    *)
(* sender (normalizer.py); a retry's is made of the source item, which has *)
(* no thread_id (retry.py).                                                *)
(***************************************************************************)
EXTENDS Ingestion, Sequences

CONSTANTS
    Workspaces,
    WorkspaceOf,  \* of each delivery
    Parts,        \* how many chunks the text of each e-mail makes
    PipeFaults,   \* what may go wrong in the pipeline
    MaxTasks      \* bound: calls of ingest_documents

ASSUME MailsAssumption ==
    /\ WorkspaceOf \in [Mail -> Workspaces]
    /\ Parts \in [Mail -> Nat \ {0}]
    /\ PipeFaults \subseteq {"embed", "upsert", "crash"}
    /\ MaxTasks \in Nat

VARIABLES
    tasks, docs, home, where, next, store,  \* those of Pipeline
    taskRun,     \* the run of each job's background task, if it has begun
    retryRun,    \* the run each retry process waits for
    ungrouped    \* the vectors whose metadata has no thread_id

pipe == <<tasks, docs, home, where, next, store>>
calls == <<taskRun, retryRun>>
mailVars == <<receipts, rows, mailOf, status, attempts, items, stored, task,
              pc, batch, cur, seen, runs, failures,
              tasks, docs, home, where, next, store, taskRun, retryRun, ungrouped>>

Pipe == INSTANCE Pipeline WITH
    Chats <- {}, Events <- {}, Mails <- Mail, Users <- Workspaces,
    DefaultUser <- WorkspaceOf[CHOOSE m \in Mail : TRUE], MailUser <- WorkspaceOf,
    Payloads <- {}, Malformed <- {}, Subscribers <- {}, UserOf <- << >>,
    Capacity <- 1, Faults <- PipeFaults, pc <- where, live <- {}, queue <- << >>

MailsInit ==
    /\ Init
    /\ Pipe!Init
    /\ taskRun = [j \in JobIds |-> 0]
    /\ retryRun = [w \in Workers |-> 0]
    /\ ungrouped = {}

-----------------------------------------------------------------------------
(***************************************************************************)
(* A task or a retry process calls ingest_documents, and has its answer    *)
(* when the run has ended.                                                 *)
(***************************************************************************)
TaskCalls(j) ==
    /\ task[j] = "ingest" /\ taskRun[j] = 0
    /\ Pipe!RunMail(mailOf[j], "server")
    /\ taskRun' = [taskRun EXCEPT ![j] = tasks + 1]
    /\ UNCHANGED <<vars, retryRun, ungrouped>>

RetryCalls(w) ==
    /\ pc[w] = "ingest" /\ retryRun[w] = 0
    /\ Pipe!RunMail(mailOf[cur[w]], IF w = Scheduler THEN "server" ELSE "command")
    /\ retryRun' = [retryRun EXCEPT ![w] = tasks + 1]
    /\ UNCHANGED <<vars, taskRun, ungrouped>>

\* All the vectors that one run makes of the e-mail are in the index.
Findable(m) == Pipe!Findable(Pipe!MailDoc(m, Pipe!KeptId))

\* stored has an e-mail from when its caller learns that it is stored.
Learns(m) == stored' = stored \cup {x \in {m} : Findable(x)}

TaskReturns(j) ==
    /\ taskRun[j] # 0
    /\ \/ where[taskRun[j]] = "done" /\ TaskIngest(j)
       \/ where[taskRun[j]] = "failed" /\ TaskIngestFails(j) /\ Learns(mailOf[j])
    /\ UNCHANGED <<pipe, calls, ungrouped>>

RetryReturns(w) ==
    /\ retryRun[w] # 0
    /\ \/ where[retryRun[w]] = "done" /\ RetryIngest(w)
       \/ where[retryRun[w]] = "failed" /\ RetryIngestFails(w) /\ Learns(mailOf[cur[w]])
    /\ retryRun' = [retryRun EXCEPT ![w] = 0]
    /\ UNCHANGED <<pipe, taskRun, ungrouped>>

-----------------------------------------------------------------------------
\* The document of run t has its thread_id.
Grouped(t) == \E j \in JobIds : taskRun[j] = t

\* Mutant: the chunks of a text that is cut do not take over its thread_id.
WritesChunksUngrouped(t, vs) ==
    ungrouped' = IF Grouped(t) /\ Cardinality(vs) < 2 THEN ungrouped \ vs
                 ELSE ungrouped \cup vs

\* Vectors that are written replace those of the same id, thread_id included.
Writes(t, vs) == ungrouped' = IF Grouped(t) THEN ungrouped \ vs ELSE ungrouped \cup vs

Written(t) == Pipe!VectorsOf(Pipe!Current(t), t)

\* A step of ingest_documents.
RunGoesOn(t) ==
    /\ \/ Pipe!Embed(t) /\ UNCHANGED ungrouped
       \/ Pipe!EmbedFails(t) /\ UNCHANGED ungrouped
       \/ Pipe!Upsert(t) /\ Writes(t, Written(t))
       \/ Pipe!UpsertFails(t) /\ \E vs \in SUBSET Written(t) :
              store' = store \cup vs /\ Writes(t, vs)
       \/ Pipe!Publish(t) /\ UNCHANGED ungrouped
    /\ UNCHANGED <<vars, calls>>

\* A crash of the server ends its runs, and one of the command its own.
ServerStops ==
    /\ ServerCrash
    /\ Pipe!Crash
    /\ retryRun' = [w \in Workers |-> IF w = Scheduler THEN 0 ELSE retryRun[w]]
    /\ UNCHANGED <<taskRun, ungrouped>>

CommandStops(w) ==
    /\ WorkerCrash(w)
    /\ IF retryRun[w] = 0 \/ where[retryRun[w]] \in Pipe!Ended
       THEN UNCHANGED pipe
       ELSE Pipe!Stop(retryRun[w])
    /\ retryRun' = [retryRun EXCEPT ![w] = 0]
    /\ UNCHANGED <<taskRun, ungrouped>>

\* What tasks and retry processes do besides.
TaskWorks(j) ==
    \/ TaskStart(j) \/ TaskPersist(j) \/ TaskPersistFails(j)
    \/ TaskSucceed(j) \/ TaskDbError(j) \/ TaskFail(j) \/ TaskGivesUp(j)

RetryWorks(w) ==
    \/ RetrySelect(w)  \/ RetryRead(w)    \/ RetryFinish(w)
    \/ RetryRequeue(w) \/ RetryStart(w)   \/ RetryNoItem(w)
    \/ RetrySucceed(w) \/ RetryDbError(w) \/ RetryFail(w) \/ RetryAborts(w)
    \/ RetryReadFails(w)

Works ==
    /\ \/ \E m \in Mail : AcceptDelivery(m) \/ IgnoreDelivery(m)
       \/ \E j \in JobIds : TaskWorks(j)
       \/ \E w \in Workers : RetryWorks(w)
    /\ UNCHANGED <<pipe, calls, ungrouped>>

MailsNext ==
    \/ Works
    \/ \E j \in JobIds : TaskCalls(j) \/ TaskReturns(j)
    \/ \E w \in Workers : RetryCalls(w) \/ RetryReturns(w) \/ CommandStops(w)
    \/ \E t \in Pipe!TaskIds : RunGoesOn(t)
    \/ ServerStops

MailsSpec == MailsInit /\ [][MailsNext]_mailVars

-----------------------------------------------------------------------------
\* A job says "succeeded" only when the text is in source_items and every vector
\* of one whole run is in the index, under the id of that text: whichever process
\* marked the job, whichever run it waited for, and whatever was cut off before.
SucceededIsFindable ==
    \A j \in Jobs : status[j] = "succeeded" =>
        mailOf[j] \in items /\ Findable(mailOf[j])

\* An e-mail stays grouped under its sender, in each of its vectors, while its own
\* task is at work, and for good when that task's run was the only one: only
\* a retry loses the thread_id, and no retry meddles with a task.
ThreadsAreKept ==
    \A j \in Jobs :
        (task[j] # "none"
            \/ (status[j] = "succeeded" /\ taskRun[j] # 0 /\ runs[j] = 1))
        => \A v \in ungrouped : v.doc.of # mailOf[j]
=============================================================================
