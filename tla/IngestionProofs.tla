-------------------------- MODULE IngestionProofs --------------------------
(***************************************************************************)
(* Proofs about Ingestion and MailRuns, for every set of deliveries and    *)
(* retry processes, every limit and every set of faults.                   *)
(***************************************************************************)
EXTENDS MailRuns, TLAPS

Busy == RetryPcs \ {"idle", "read"}

\* Rows beyond the table are untouched, rows of it belong to a receipt.
RowsOK ==
    \A j \in JobIds :
        /\ j \in Jobs => mailOf[j] \in receipts
        /\ j \notin Jobs =>
            /\ status[j] = "absent"
            /\ attempts[j] = 0
            /\ runs[j] = 0
            /\ task[j] = "none"

\* No background task works on a job that a retry process has selected, or works
\* on, which then is a row of the table.
HandlersOK ==
    \A w \in Workers :
        /\ \A j \in batch[w] : task[j] = "none"
        /\ pc[w] \in Busy => cur[w] \in Jobs /\ task[cur[w]] = "none"

\* A background task holds its job open.
TasksOK ==
    \A j \in JobIds :
        /\ task[j] # "none" => status[j] \in {"queued", "processing"}
        /\ task[j] = "start" => attempts[j] = 0

Basic == TypeOK /\ RowsOK /\ HandlersOK /\ TasksOK

LEMMA InitBasic == Init => Basic
BY BoundsAssumption
DEF Init, Basic, TypeOK, RowsOK, HandlersOK, TasksOK, Jobs, JobIds, Statuses,
    TaskPcs, RetryPcs, Busy

-----------------------------------------------------------------------------
LEMMA DeliveryBasic ==
    ASSUME Basic, NEW m \in Mail, AcceptDelivery(m) \/ IgnoreDelivery(m)
    PROVE  Basic'
<1> USE BoundsAssumption DEF Basic
<1>1. CASE AcceptDelivery(m)
  <2> USE <1>1 DEF AcceptDelivery, Record, worker
  <2>1. rows + 1 \in JobIds /\ rows' \in 0 .. MaxJobs /\ Jobs' = Jobs \cup {rows + 1}
        /\ rows + 1 \notin Jobs
    BY DEF TypeOK, Jobs, JobIds
  <2>2. TypeOK'
    BY <2>1 DEF TypeOK, JobIds, Statuses, TaskPcs, RetryPcs
  <2>3. RowsOK'
    BY <2>1 DEF TypeOK, RowsOK
  <2>4. HandlersOK'
    BY <2>1 DEF TypeOK, HandlersOK
  <2>5. TasksOK'
    BY <2>1 DEF TypeOK, TasksOK, RowsOK
  <2> QED
    BY <2>2, <2>3, <2>4, <2>5
<1>2. CASE IgnoreDelivery(m)
  BY <1>2 DEF IgnoreDelivery, vars, TypeOK, RowsOK, HandlersOK, TasksOK, Jobs
<1> QED
  BY <1>1, <1>2

LEMMA TaskBasic ==
    ASSUME Basic, NEW j \in JobIds, TaskStep(j)
    PROVE  Basic'
<1> USE DEF Basic
<1>1. task[j] # "none" /\ j \in Jobs /\ mailOf[j] \in Mail /\ UNCHANGED <<rows, worker>>
  BY DEF TaskStep, TaskStart, TaskPersist, TaskPersistFails, TaskIngest,
     TaskIngestFails, TaskSucceed, TaskDbError, TaskFail, TaskGivesUp, TaskGoes,
     database, TypeOK, RowsOK
<1>2. Jobs' = Jobs
  BY <1>1 DEF Jobs
<1>f. failures' \in 0 .. MaxFailures
  BY BoundsAssumption DEF TaskStep, TaskStart, TaskPersist, TaskPersistFails, TaskIngest,
     TaskIngestFails, TaskSucceed, TaskDbError, TaskFail, TaskGivesUp, Strikes, TypeOK
<1>3. TypeOK'
  BY <1>1, <1>2, <1>f DEF TaskStep, TaskStart, TaskPersist, TaskPersistFails, TaskIngest,
     TaskIngestFails, TaskSucceed, TaskDbError, TaskFail, TaskGivesUp, TaskGoes,
     database, worker, TypeOK, Statuses, TaskPcs
<1>4. RowsOK'
  BY <1>1, <1>2 DEF TaskStep, TaskStart, TaskPersist, TaskPersistFails, TaskIngest,
     TaskIngestFails, TaskSucceed, TaskDbError, TaskFail, TaskGivesUp, TaskGoes,
     database, worker, TypeOK, RowsOK
<1>5. HandlersOK'
  <2>1. \A i \in JobIds : i # j => task'[i] = task[i]
    BY DEF TaskStep, TaskStart, TaskPersist, TaskPersistFails, TaskIngest,
       TaskIngestFails, TaskSucceed, TaskDbError, TaskFail, TaskGivesUp, TaskGoes,
       TypeOK
  <2>2. Jobs \subseteq JobIds
    BY BoundsAssumption DEF TypeOK, Jobs, JobIds
  <2>3. \A w \in Workers : batch[w] \subseteq Jobs
    BY DEF TypeOK
  <2> QED
    BY <1>1, <1>2, <2>1, <2>2, <2>3 DEF HandlersOK, worker
<1>6. TasksOK'
  BY <1>1, <1>2 DEF TaskStep, TaskStart, TaskPersist, TaskPersistFails, TaskIngest,
     TaskIngestFails, TaskSucceed, TaskDbError, TaskFail, TaskGivesUp, TaskGoes,
     database, worker, TypeOK, TasksOK
<1> QED
  BY <1>3, <1>4, <1>5, <1>6

LEMMA RetryBasic ==
    ASSUME Basic, NEW w \in Workers, RetryStep(w)
    PROVE  Basic'
<1> USE DEF Basic
<1>f. failures' \in 0 .. MaxFailures
  BY BoundsAssumption DEF RetryStep, RetrySelect, RetryRead, RetryFinish, RetryRequeue,
     RetryStart, RetryNoItem, RetryIngest, RetryIngestFails, RetrySucceed,
     RetryDbError, RetryReadFails, RetryFail, RetryAborts, Strikes, TypeOK
<1>1. UNCHANGED <<receipts, rows, mailOf, items, task>> /\ Jobs' = Jobs
  BY DEF RetryStep, RetrySelect, RetryRead, RetryFinish, RetryRequeue,
     RetryStart, RetryNoItem, RetryIngest, RetryIngestFails, RetrySucceed,
     RetryDbError, RetryReadFails, RetryFail, RetryAborts, RetryGoes, database, Jobs
<1>2. CASE RetrySelect(w) \/ RetryFinish(w) \/ RetryAborts(w)
  <2>1. OldestOf(Retryable) \in SUBSET Jobs
    BY DEF OldestOf, Retryable
  <2>3. \A j \in Retryable : task[j] = "none"
    <3>1. Jobs \subseteq JobIds
      BY BoundsAssumption DEF TypeOK, Jobs, JobIds
    <3> QED
      BY <3>1 DEF Retryable, CanRequeue, TasksOK
  <2>2. \A j \in OldestOf(Retryable) : task[j] = "none"
    BY <2>3 DEF OldestOf
  <2> QED
    BY <1>1, <1>2, <1>f, <2>1, <2>2 DEF RetrySelect, RetryFinish, RetryAborts, RetryGoes,
       database, TypeOK, RowsOK, HandlersOK, TasksOK, RetryPcs, Busy
<1>3. CASE RetryRead(w)
  <2>1. PICK i \in batch[w] :
            /\ batch' = [batch EXCEPT ![w] = @ \ {i}]
            /\ cur' = [cur EXCEPT ![w] = i]
            /\ seen' = [seen EXCEPT ![w] = attempts[i]]
            /\ pc' = [pc EXCEPT ![w] =
                        IF CanRequeue(i) THEN "requeue" ELSE "read"]
    BY <1>3 DEF RetryRead
  <2>2. i \in Jobs /\ UNCHANGED <<database, stored, runs>>
    BY <1>3 DEF RetryRead, TypeOK
  <2>3. i \in JobIds
    BY <2>2, BoundsAssumption DEF TypeOK, Jobs, JobIds
  <2>4. task[i] = "none"
    BY <2>1 DEF HandlersOK
  <2>5. TypeOK'
    BY <1>1, <1>f, <2>1, <2>2, <2>3 DEF TypeOK, RetryPcs, database
  <2> QED
    BY <1>1, <2>1, <2>2, <2>3, <2>4, <2>5
    DEF TypeOK, RowsOK, HandlersOK, TasksOK, Busy, RetryPcs, database
<1>4. CASE \/ RetryRequeue(w) \/ RetryStart(w) \/ RetryNoItem(w) \/ RetryIngest(w)
           \/ RetryIngestFails(w) \/ RetrySucceed(w) \/ RetryDbError(w) \/ RetryFail(w)
  <2> DEFINE j == cur[w]
  <2>6. pc[w] \in Busy
    BY <1>4 DEF RetryRequeue, RetryStart, RetryNoItem, RetryIngest, RetryIngestFails,
       RetrySucceed, RetryDbError, RetryFail, RetryGoes, Busy, RetryPcs
  <2>7. j \in Jobs /\ task[j] = "none"
    BY <2>6 DEF HandlersOK
  <2>8. j \in JobIds
    BY <2>7, BoundsAssumption DEF TypeOK, Jobs, JobIds
  <2>1. j \in Jobs /\ j \in JobIds /\ task[j] = "none" /\ mailOf[j] \in Mail
    BY <2>7, <2>8 DEF TypeOK, RowsOK
  <2>2. TypeOK'
    BY <1>1, <1>4, <1>f, <2>1 DEF RetryRequeue, RetryStart, RetryNoItem, RetryIngest,
       RetryIngestFails, RetrySucceed, RetryDbError, RetryFail, RetryGoes, TypeOK,
       RetryPcs, Statuses, database
  <2>3. RowsOK'
    BY <1>1, <1>4, <2>1 DEF RetryRequeue, RetryStart, RetryNoItem, RetryIngest,
       RetryIngestFails, RetrySucceed, RetryDbError, RetryFail, RetryGoes, TypeOK,
       RowsOK, database
  <2>4. HandlersOK'
    BY <1>1, <1>4, <2>1 DEF RetryRequeue, RetryStart, RetryNoItem, RetryIngest,
       RetryIngestFails, RetrySucceed, RetryDbError, RetryFail, RetryGoes, TypeOK,
       HandlersOK, Busy, RetryPcs
  <2>5. TasksOK'
    BY <1>1, <1>4, <2>1 DEF RetryRequeue, RetryStart, RetryNoItem, RetryIngest,
       RetryIngestFails, RetrySucceed, RetryDbError, RetryFail, RetryGoes, TypeOK,
       TasksOK, database
  <2> QED
    BY <2>2, <2>3, <2>4, <2>5
<1>5. CASE RetryReadFails(w)
  <2>1. PICK i \in batch[w] :
            /\ batch' = [batch EXCEPT ![w] = @ \ {i}]
            /\ cur' = [cur EXCEPT ![w] = i]
    BY <1>5 DEF RetryReadFails
  <2>2. /\ i \in Jobs /\ UNCHANGED <<database, stored, seen, runs>>
        /\ pc' = [pc EXCEPT ![w] = "fail"]
    BY <1>5 DEF RetryReadFails, RetryGoes, TypeOK
  <2>3. task[i] = "none"
    BY <2>1 DEF HandlersOK
  <2>4. TypeOK'
    BY <1>1, <1>f, <2>1, <2>2 DEF TypeOK, RetryPcs, database
  <2> QED
    BY <1>1, <2>1, <2>2, <2>3, <2>4
    DEF TypeOK, RowsOK, HandlersOK, TasksOK, Busy, RetryPcs, database
<1> QED
  BY <1>2, <1>3, <1>4, <1>5 DEF RetryStep

LEMMA CrashBasic ==
    ASSUME Basic, ServerCrash \/ \E w \in Workers : WorkerCrash(w)
    PROVE  Basic'
<1> USE BoundsAssumption
    DEF Basic, TypeOK, RowsOK, HandlersOK, TasksOK, Jobs, TaskPcs, RetryPcs, Busy,
        database, Strikes
<1>1. CASE ServerCrash
  <2>1. TypeOK'
    BY <1>1 DEF ServerCrash
  <2>2. Jobs \subseteq JobIds
    BY DEF JobIds
  <2>3. HandlersOK'
    BY <1>1, <2>2 DEF ServerCrash
  <2> QED
    BY <1>1, <2>1, <2>3 DEF ServerCrash
<1>2. ASSUME NEW w \in Workers, WorkerCrash(w) PROVE Basic'
  BY <1>2 DEF WorkerCrash
<1> QED
  BY <1>1, <1>2

LEMMA StepBasic == Basic /\ [Next]_vars => Basic'
<1> SUFFICES ASSUME Basic, [Next]_vars PROVE Basic'
  OBVIOUS
<1>1. CASE UNCHANGED vars
  BY <1>1 DEF vars, Basic, TypeOK, RowsOK, HandlersOK, TasksOK, Jobs
<1> QED
  BY <1>1, DeliveryBasic, TaskBasic, RetryBasic, CrashBasic DEF Next

\* Every variable keeps its type, whatever the processes do and whatever fails.
THEOREM TypeCorrect == Spec => []TypeOK
<1>1. Basic => TypeOK
  BY DEF Basic
<1> QED
  BY <1>1, InitBasic, StepBasic, PTL DEF Spec

-----------------------------------------------------------------------------
LEMMA TableUnchanged ==
    ASSUME \/ \E j \in JobIds : TaskStep(j)
           \/ \E w \in Workers : RetryStep(w) \/ WorkerCrash(w)
           \/ \E m \in Mail : IgnoreDelivery(m)
           \/ ServerCrash
           \/ UNCHANGED vars
    PROVE  UNCHANGED <<receipts, rows, mailOf>>
BY DEF TaskStep, TaskStart, TaskPersist, TaskPersistFails, TaskIngest,
   TaskIngestFails, TaskSucceed, TaskDbError, TaskFail, TaskGivesUp, TaskGoes,
   RetryStep, RetrySelect, RetryRead, RetryFinish, RetryRequeue, RetryStart,
   RetryNoItem, RetryIngest, RetryIngestFails, RetrySucceed, RetryDbError, RetryReadFails,
   RetryFail, RetryAborts, RetryGoes, WorkerCrash, ServerCrash, Strikes,
   IgnoreDelivery, database, vars

LEMMA StepOneJob == Basic /\ OneJobPerReceipt /\ [Next]_vars => OneJobPerReceipt'
<1> SUFFICES ASSUME Basic, OneJobPerReceipt, [Next]_vars PROVE OneJobPerReceipt'
  OBVIOUS
<1>1. ASSUME NEW m \in Mail, AcceptDelivery(m) PROVE OneJobPerReceipt'
  <2>1. /\ Jobs' = Jobs \cup {rows + 1}
        /\ rows + 1 \in JobIds \ Jobs
        /\ Jobs \subseteq JobIds
    BY <1>1, BoundsAssumption
    DEF AcceptDelivery, Record, Basic, TypeOK, Jobs, JobIds
  <2>2. /\ m \notin receipts
        /\ receipts' = receipts \cup {m}
        /\ mailOf'[rows + 1] = m
        /\ \A j \in Jobs : mailOf'[j] = mailOf[j]
    BY <1>1, <2>1 DEF AcceptDelivery, Record, Basic, TypeOK
  <2>3. \A j \in Jobs : mailOf[j] # m
    BY <2>2 DEF OneJobPerReceipt
  <2> QED
    BY <2>1, <2>2, <2>3 DEF OneJobPerReceipt
<1>2. CASE UNCHANGED <<receipts, rows, mailOf>>
  BY <1>2 DEF OneJobPerReceipt, Jobs
<1> QED
  BY <1>1, <1>2, TableUnchanged DEF Next

\* Redelivery, crashes and retries never give a recorded delivery a second job
\* or leave it without one (record_webhook_delivery).
THEOREM OneJob == Spec => []OneJobPerReceipt
<1>1. Init => OneJobPerReceipt
  BY DEF Init, OneJobPerReceipt, Jobs
<1> QED
  BY <1>1, InitBasic, StepBasic, StepOneJob, PTL DEF Spec

-----------------------------------------------------------------------------
(***************************************************************************)
(* A process that has come past persist_source_item, or past the lookup of *)
(* the item, works on a persisted text; one that has come past             *)
(* ingest_documents has its vectors in the store.                          *)
(***************************************************************************)
StoredOK ==
    /\ \A j \in JobIds :
        /\ task[j] \in {"ingest", "succeed"} => mailOf[j] \in items
        /\ task[j] = "succeed" => mailOf[j] \in stored
    /\ \A w \in Workers :
        /\ pc[w] \in {"ingest", "succeed"} => mailOf[cur[w]] \in items
        /\ pc[w] = "succeed" => mailOf[cur[w]] \in stored

StoredInv == Basic /\ StoredOK /\ SucceededIsStored

LEMMA DeliveryStored ==
    ASSUME StoredInv, NEW m \in Mail, AcceptDelivery(m)
    PROVE  StoredOK' /\ SucceededIsStored'
<1> USE DEF StoredInv, Basic
<1>1. /\ Jobs' = Jobs \cup {rows + 1}
      /\ rows + 1 \in JobIds \ Jobs
      /\ Jobs \subseteq JobIds
  BY BoundsAssumption DEF AcceptDelivery, Record, TypeOK, Jobs, JobIds
<1>2. /\ \A j \in JobIds : j # rows + 1 =>
            mailOf'[j] = mailOf[j] /\ status'[j] = status[j] /\ task'[j] = task[j]
      /\ task'[rows + 1] = "start" /\ status'[rows + 1] = "queued"
      /\ UNCHANGED <<items, stored, worker>>
  BY <1>1 DEF AcceptDelivery, Record, TypeOK
<1>3. \A w \in Workers : pc[w] \in {"ingest", "succeed"} => cur[w] \in Jobs
  BY DEF HandlersOK, Busy, RetryPcs
<1> QED
  BY <1>1, <1>2, <1>3 DEF StoredOK, SucceededIsStored, worker

LEMMA TaskStored ==
    ASSUME StoredInv, NEW j \in JobIds, TaskStep(j)
    PROVE  StoredOK' /\ SucceededIsStored'
<1> USE DEF StoredInv, Basic
<1>1. UNCHANGED <<rows, mailOf, worker>> /\ Jobs' = Jobs /\ Jobs \subseteq JobIds
  BY BoundsAssumption DEF TaskStep, TaskStart, TaskPersist, TaskPersistFails,
     TaskIngest, TaskIngestFails, TaskSucceed, TaskDbError, TaskFail, TaskGivesUp,
     TaskGoes, database, Jobs, JobIds, TypeOK
<1>2. items \subseteq items' /\ stored \subseteq stored'
  BY DEF TaskStep, TaskStart, TaskPersist, TaskPersistFails,
     TaskIngest, TaskIngestFails, TaskSucceed, TaskDbError, TaskFail, TaskGivesUp,
     TaskGoes, database
<1>3. \A i \in JobIds : i # j => task'[i] = task[i] /\ status'[i] = status[i]
  BY DEF TaskStep, TaskStart, TaskPersist, TaskPersistFails,
     TaskIngest, TaskIngestFails, TaskSucceed, TaskDbError, TaskFail, TaskGivesUp,
     TaskGoes, database, TypeOK
<1>4. /\ task'[j] \in {"ingest", "succeed"} => mailOf[j] \in items'
      /\ task'[j] = "succeed" => mailOf[j] \in stored'
      /\ status'[j] = "succeeded" => mailOf[j] \in items' /\ mailOf[j] \in stored'
  BY DEF TaskStep, TaskStart, TaskPersist, TaskPersistFails,
     TaskIngest, TaskIngestFails, TaskSucceed, TaskDbError, TaskFail, TaskGivesUp,
     TaskGoes, database, TypeOK, StoredOK, TasksOK
<1> QED
  BY <1>1, <1>2, <1>3, <1>4 DEF StoredOK, SucceededIsStored, worker

LEMMA RetryStored ==
    ASSUME StoredInv, NEW w \in Workers, RetryStep(w)
    PROVE  StoredOK' /\ SucceededIsStored'
<1> USE DEF StoredInv, Basic
<1>1. UNCHANGED <<rows, mailOf, task, items>> /\ Jobs' = Jobs /\ Jobs \subseteq JobIds
  BY BoundsAssumption DEF RetryStep, RetrySelect, RetryRead, RetryFinish,
     RetryRequeue, RetryStart, RetryNoItem, RetryIngest, RetryIngestFails,
     RetrySucceed, RetryDbError, RetryReadFails, RetryFail, RetryAborts, RetryGoes, database, Jobs,
     JobIds, TypeOK
<1>2. stored \subseteq stored'
  BY DEF RetryStep, RetrySelect, RetryRead, RetryFinish, RetryRequeue, RetryStart,
     RetryNoItem, RetryIngest, RetryIngestFails, RetrySucceed, RetryDbError, RetryReadFails,
     RetryFail, RetryAborts, RetryGoes
<1>3. \A v \in Workers : v # w => pc'[v] = pc[v] /\ cur'[v] = cur[v]
  BY DEF RetryStep, RetrySelect, RetryRead, RetryFinish, RetryRequeue, RetryStart,
     RetryNoItem, RetryIngest, RetryIngestFails, RetrySucceed, RetryDbError, RetryReadFails,
     RetryFail, RetryAborts, RetryGoes, TypeOK
<1>4. /\ pc'[w] \in {"ingest", "succeed"} => mailOf[cur'[w]] \in items
      /\ pc'[w] = "succeed" => mailOf[cur'[w]] \in stored'
  BY DEF RetryStep, RetrySelect, RetryRead, RetryFinish, RetryRequeue, RetryStart,
     RetryNoItem, RetryIngest, RetryIngestFails, RetrySucceed, RetryDbError, RetryReadFails,
     RetryFail, RetryAborts, RetryGoes, TypeOK, StoredOK
<1>5. \A j \in Jobs : status'[j] = "succeeded" =>
        \/ status[j] = "succeeded"
        \/ j = cur[w] /\ pc[w] = "succeed"
  BY <1>1 DEF RetryStep, RetrySelect, RetryRead, RetryFinish, RetryRequeue,
     RetryStart, RetryNoItem, RetryIngest, RetryIngestFails, RetrySucceed,
     RetryDbError, RetryReadFails, RetryFail, RetryAborts, RetryGoes, TypeOK, database
<1> QED
  BY <1>1, <1>2, <1>3, <1>4, <1>5 DEF StoredOK, SucceededIsStored

LEMMA StepStored == StoredInv /\ [Next]_vars => StoredOK' /\ SucceededIsStored'
<1> SUFFICES ASSUME StoredInv, [Next]_vars PROVE StoredOK' /\ SucceededIsStored'
  OBVIOUS
<1>1. CASE UNCHANGED vars \/ \E m \in Mail : IgnoreDelivery(m)
  BY <1>1 DEF vars, IgnoreDelivery, StoredInv, StoredOK, SucceededIsStored, Jobs
<1>2. CASE ServerCrash \/ \E w \in Workers : WorkerCrash(w)
  BY <1>2 DEF ServerCrash, WorkerCrash, Strikes, database, StoredInv, Basic,
     StoredOK, SucceededIsStored, TypeOK, Jobs
<1> QED
  BY <1>1, <1>2, DeliveryStored, TaskStored, RetryStored DEF Next

\* No failure, crash or race of retry processes makes a job report success
\* without its text persisted and its vectors stored.
THEOREM Stored == Spec => []SucceededIsStored
<1>1. Init => StoredOK /\ SucceededIsStored
  BY DEF Init, StoredOK, SucceededIsStored, Jobs
<1>2. StoredInv /\ [Next]_vars => StoredInv'
  BY StepBasic, StepStored DEF StoredInv
<1>3. Init => StoredInv
  BY <1>1, InitBasic DEF StoredInv
<1>4. StoredInv => SucceededIsStored
  BY DEF StoredInv
<1> QED
  BY <1>2, <1>3, <1>4, PTL DEF Spec

-----------------------------------------------------------------------------
(***************************************************************************)
(* A retry process writes one more than it has read, and it has read a     *)
(* number with budget left: the counter stays within the budget even when  *)
(* another process has advanced it in between.                             *)
(***************************************************************************)
SeenOK == \A w \in Workers : pc[w] \in {"requeue", "start"} => HasBudget(seen[w])

BudgetInv == Basic /\ SeenOK /\ AttemptsBounded

LEMMA StepBudget == BudgetInv /\ [Next]_vars => SeenOK' /\ AttemptsBounded'
<1> SUFFICES ASSUME BudgetInv, [Next]_vars PROVE SeenOK' /\ AttemptsBounded'
  OBVIOUS
<1> USE LimitsAssumption, BoundsAssumption DEF BudgetInv, Basic, Budget, HasBudget
<1>1. Jobs \subseteq JobIds
  BY DEF TypeOK, Jobs, JobIds
<1>2. ASSUME NEW m \in Mail, AcceptDelivery(m) PROVE SeenOK' /\ AttemptsBounded'
  <2>1. Jobs' = Jobs \cup {rows + 1} /\ attempts'[rows + 1] = 0 /\ UNCHANGED <<attempts, worker>>
    BY <1>2 DEF AcceptDelivery, Record, TypeOK, RowsOK, Jobs, JobIds
  <2> QED
    BY <2>1 DEF SeenOK, AttemptsBounded, worker
<1>3. ASSUME NEW j \in JobIds, TaskStep(j) PROVE SeenOK' /\ AttemptsBounded'
  <2>1. /\ UNCHANGED <<rows, worker>> /\ Jobs' = Jobs
        /\ \/ UNCHANGED attempts
           \/ attempts[j] = 0 /\ attempts' = [attempts EXCEPT ![j] = 1]
    BY <1>3 DEF TaskStep, TaskStart, TaskPersist, TaskPersistFails, TaskIngest,
       TaskIngestFails, TaskSucceed, TaskDbError, TaskFail, TaskGivesUp, TaskGoes,
       database, Jobs, TasksOK, TypeOK
  <2> QED
    BY <1>1, <2>1 DEF SeenOK, AttemptsBounded, TypeOK, worker
<1>4. ASSUME NEW w \in Workers, RetryStep(w) PROVE SeenOK' /\ AttemptsBounded'
  <2>1. Jobs' = Jobs
    BY <1>4, TableUnchanged DEF Jobs
  <2>2. /\ \A v \in Workers : v # w => pc'[v] = pc[v] /\ seen'[v] = seen[v]
        /\ pc'[w] \in {"requeue", "start"} => HasBudget(seen'[w])
    BY <1>1, <1>4 DEF RetryStep, RetrySelect, RetryRead, RetryFinish, RetryRequeue, RetryStart,
       RetryNoItem, RetryIngest, RetryIngestFails, RetrySucceed, RetryDbError, RetryReadFails,
       RetryFail, RetryAborts, RetryGoes, CanRequeue, TypeOK, SeenOK
  <2>3. \/ UNCHANGED attempts
        \/ HasBudget(seen[w]) /\ attempts' = [attempts EXCEPT ![cur[w]] = seen[w] + 1]
    BY <1>4 DEF RetryStep, RetrySelect, RetryRead, RetryFinish, RetryRequeue, RetryStart,
       RetryNoItem, RetryIngest, RetryIngestFails, RetrySucceed, RetryDbError, RetryReadFails,
       RetryFail, RetryAborts, RetryGoes, SeenOK, database
  <2> QED
    BY <1>1, <2>1, <2>2, <2>3 DEF SeenOK, AttemptsBounded, TypeOK
<1>5. CASE ServerCrash \/ \E w \in Workers : WorkerCrash(w)
  BY <1>5 DEF ServerCrash, WorkerCrash, Strikes, database, SeenOK, AttemptsBounded,
     TypeOK, Jobs
<1>6. CASE UNCHANGED vars \/ \E m \in Mail : IgnoreDelivery(m)
  BY <1>6 DEF vars, IgnoreDelivery, SeenOK, AttemptsBounded, Jobs
<1> QED
  BY <1>2, <1>3, <1>4, <1>5, <1>6 DEF Next

\* The attempt counter of a job never exceeds MAX_INGESTION_ATTEMPTS (or the
\* one attempt every delivery gets), for any number of retry processes.
THEOREM AttemptsWithinBudget == Spec => []AttemptsBounded
<1>1. Init => SeenOK /\ AttemptsBounded
  BY DEF Init, SeenOK, AttemptsBounded, Jobs
<1>2. BudgetInv /\ [Next]_vars => BudgetInv'
  BY StepBasic, StepBudget DEF BudgetInv
<1>3. Init => BudgetInv
  BY <1>1, InitBasic DEF BudgetInv
<1>4. BudgetInv => AttemptsBounded
  BY DEF BudgetInv
<1> QED
  BY <1>2, <1>3, <1>4, PTL DEF Spec

-----------------------------------------------------------------------------
(***************************************************************************)
(* A single retry process.  What its session has read is then still what   *)
(* the row says, and nobody else writes the row until it lets go of it.    *)
(***************************************************************************)
OneWorker == \A v, w \in Workers : v = w

RunsOK ==
    /\ \A j \in JobIds :
        /\ runs[j] <= attempts[j]
        /\ task[j] \in {"persist", "ingest"} => runs[j] < attempts[j]
        /\ task[j] = "succeed" => runs[j] > 0
    /\ \A w \in Workers :
        /\ pc[w] = "ingest" => runs[cur[w]] < attempts[cur[w]]
        /\ pc[w] = "succeed" => runs[cur[w]] > 0

FreshOK ==
    \A w \in Workers :
        /\ pc[w] \in {"requeue", "start"} => seen[w] = attempts[cur[w]]
        /\ pc[w] = "requeue" => status[cur[w]] = "failed"
        /\ pc[w] = "start" => status[cur[w]] = "queued"
        /\ pc[w] \in {"ingest", "succeed"} => status[cur[w]] = "processing"
        /\ pc[w] = "fail" => \/ status[cur[w]] \in {"queued", "processing"}
                            \/ CanRequeue(cur[w])
        /\ pc[w] \in Busy => cur[w] \notin batch[w]
        /\ \A j \in batch[w] : CanRequeue(j)

SoloInv == BudgetInv /\ RunsOK /\ FreshOK

LEMMA StepSolo ==
    ASSUME OneWorker PROVE SoloInv /\ [Next]_vars => RunsOK' /\ FreshOK'
<1> SUFFICES ASSUME SoloInv, [Next]_vars PROVE RunsOK' /\ FreshOK'
  OBVIOUS
<1> USE BoundsAssumption DEF SoloInv, BudgetInv, Basic, HasBudget
<1>1. Jobs \subseteq JobIds
  BY DEF TypeOK, Jobs, JobIds
<1>2. \A w \in Workers : pc[w] \notin {"idle", "read"} =>
        cur[w] \in JobIds /\ cur[w] \in Jobs /\ task[cur[w]] = "none"
  BY <1>1 DEF HandlersOK, Busy, TypeOK
<1>8. \A w \in Workers : \A j \in batch[w] : j \in JobIds /\ j \in Jobs /\ task[j] = "none"
  BY <1>1 DEF HandlersOK, TypeOK
<1>9. \A w \in Workers : pc[w] \in Busy <=> pc[w] \notin {"idle", "read"}
  BY DEF Busy, TypeOK
<1>10. OldestOf(Retryable) \subseteq Retryable
  BY DEF OldestOf
<1>3. ASSUME NEW m \in Mail, AcceptDelivery(m) PROVE RunsOK' /\ FreshOK'
  <2>1. /\ rows + 1 \in JobIds \ Jobs
        /\ UNCHANGED <<attempts, worker, runs>>
        /\ status' = [status EXCEPT ![rows + 1] = "queued"]
        /\ task' = [task EXCEPT ![rows + 1] = "start"]
    BY <1>3 DEF AcceptDelivery, Record, TypeOK, Jobs, JobIds
  <2> QED
    BY <1>1, <1>2, <1>8, <2>1 DEF RunsOK, FreshOK, CanRequeue, TypeOK, worker
<1>4. ASSUME NEW j \in JobIds, TaskStep(j) PROVE RunsOK' /\ FreshOK'
  <2>1. /\ task[j] # "none"
        /\ UNCHANGED worker
        /\ \A i \in JobIds : i # j =>
             /\ task'[i] = task[i] /\ status'[i] = status[i]
             /\ attempts'[i] = attempts[i] /\ runs'[i] = runs[i]
    BY <1>4 DEF TaskStep, TaskStart, TaskPersist, TaskPersistFails, TaskIngest,
       TaskIngestFails, TaskSucceed, TaskDbError, TaskFail, TaskGivesUp, TaskGoes,
       database, TypeOK
  <2>2. FreshOK'
    BY <1>2, <1>8, <2>1 DEF FreshOK, CanRequeue, worker
  <2>3. /\ runs'[j] <= attempts'[j]
        /\ task'[j] \in {"persist", "ingest"} => runs'[j] < attempts'[j]
        /\ task'[j] = "succeed" => runs'[j] > 0
    BY <1>4 DEF TaskStep, TaskStart, TaskPersist, TaskPersistFails, TaskIngest,
       TaskIngestFails, TaskSucceed, TaskDbError, TaskFail, TaskGivesUp, TaskGoes,
       database, TypeOK, RunsOK
  <2> QED
    BY <1>2, <2>1, <2>2, <2>3 DEF RunsOK, worker
<1>5. ASSUME NEW w \in Workers, RetryStep(w) PROVE RunsOK' /\ FreshOK'
  <2>1. Workers = {w} /\ UNCHANGED task
    BY <1>5, OneWorker DEF OneWorker, RetryStep, RetrySelect, RetryRead, RetryFinish,
       RetryRequeue, RetryStart, RetryNoItem, RetryIngest, RetryIngestFails,
       RetrySucceed, RetryDbError, RetryReadFails, RetryFail, RetryAborts, RetryGoes
  <2>2. CASE RetrySelect(w) \/ RetryFinish(w) \/ RetryAborts(w)
    <3>1. UNCHANGED <<status, attempts, runs>> /\ pc'[w] \in {"idle", "read"}
      BY <2>2 DEF RetrySelect, RetryFinish, RetryAborts, RetryGoes, TypeOK, database
    <3>2. batch'[w] \subseteq batch[w] \cup Retryable
      BY <1>10, <2>2 DEF RetrySelect, RetryFinish, RetryAborts, TypeOK
    <3>3. \A j \in batch'[w] : CanRequeue(j)'
      BY <3>1, <3>2 DEF FreshOK, Retryable, CanRequeue
    <3> QED
      BY <2>1, <3>1, <3>3 DEF RunsOK, FreshOK, Busy
  <2>3. CASE RetryRead(w)
    <3>1. PICK i \in batch[w] :
              /\ batch' = [batch EXCEPT ![w] = @ \ {i}]
              /\ cur' = [cur EXCEPT ![w] = i]
              /\ seen' = [seen EXCEPT ![w] = attempts[i]]
              /\ pc' = [pc EXCEPT ![w] = IF CanRequeue(i) THEN "requeue" ELSE "read"]
      BY <2>3 DEF RetryRead
    <3>2. UNCHANGED <<status, attempts, runs>> /\ pc[w] = "read" /\ CanRequeue(i)
      BY <2>3 DEF RetryRead, database, FreshOK
    <3>3. /\ pc'[w] = "requeue" /\ cur'[w] = i /\ seen'[w] = attempts[i]
          /\ batch'[w] = batch[w] \ {i}
      BY <3>1, <3>2 DEF TypeOK
    <3>4. RunsOK'
      BY <2>1, <3>2, <3>3 DEF RunsOK
    <3> QED
      BY <2>1, <3>2, <3>3, <3>4 DEF FreshOK, CanRequeue
  <2>6. CASE RetryReadFails(w)
    BY <1>1, <2>1, <2>6 DEF RetryReadFails, RetryGoes, CanRequeue, RunsOK, FreshOK, TypeOK,
       database, Busy
  <2>4. CASE \/ RetryRequeue(w) \/ RetryStart(w) \/ RetryNoItem(w)
             \/ RetrySucceed(w) \/ RetryDbError(w) \/ RetryFail(w)
    <3>1. cur[w] \in JobIds /\ task[cur[w]] = "none" /\ UNCHANGED <<cur, seen, runs>>
      BY <1>2, <2>4 DEF RetryRequeue, RetryStart, RetryNoItem, RetrySucceed,
         RetryDbError, RetryFail, RetryGoes
    <3>2. RunsOK'
      BY <2>1, <2>4, <3>1 DEF RetryRequeue, RetryStart, RetryNoItem, RetrySucceed,
         RetryDbError, RetryFail, RetryGoes, database, RunsOK, FreshOK, TypeOK
    <3>3. FreshOK'
      BY <1>8, <1>9, <2>1, <2>4, <3>1 DEF RetryRequeue, RetryStart, RetryNoItem,
         RetrySucceed, RetryDbError, RetryFail, RetryGoes, database, FreshOK, SeenOK, TypeOK,
         CanRequeue
    <3> QED
      BY <3>2, <3>3
  <2>5. CASE RetryIngest(w) \/ RetryIngestFails(w)
    BY <1>2, <2>1, <2>5 DEF RetryIngest, RetryIngestFails, RetryGoes, database,
       RunsOK, FreshOK, TypeOK, CanRequeue
  <2> QED
    BY <1>5, <2>2, <2>3, <2>4, <2>5, <2>6 DEF RetryStep
<1>6. CASE ServerCrash \/ \E w \in Workers : WorkerCrash(w)
  BY <1>2, <1>6 DEF ServerCrash, WorkerCrash, Strikes, database, RunsOK, FreshOK,
     CanRequeue, TypeOK
<1>7. CASE UNCHANGED vars \/ \E m \in Mail : IgnoreDelivery(m)
  BY <1>7 DEF vars, IgnoreDelivery, RunsOK, FreshOK, CanRequeue
<1> QED
  BY <1>3, <1>4, <1>5, <1>6, <1>7 DEF Next

LEMMA SoloInvariant == ASSUME OneWorker PROVE Spec => []SoloInv
<1>1. Init => SoloInv
  <2>1. Init => SeenOK /\ AttemptsBounded /\ RunsOK /\ FreshOK
    BY DEF Init, SeenOK, AttemptsBounded, RunsOK, FreshOK, Jobs
  <2> QED
    BY <2>1, InitBasic DEF SoloInv, BudgetInv
<1>2. SoloInv /\ [Next]_vars => SoloInv'
  BY OneWorker, StepBasic, StepBudget, StepSolo DEF SoloInv, BudgetInv
<1> QED
  BY <1>1, <1>2, PTL DEF Spec

\* With a single retry process a job is in the hands of its background task or
\* of that process, never of both, crashes and errors included.
THEOREM Exclusive == ASSUME OneWorker PROVE Spec => []ExclusiveRun
<1>1. SoloInv => ExclusiveRun
  BY OneWorker, BoundsAssumption DEF SoloInv, BudgetInv, Basic, HandlersOK, Busy,
     Handlers, ExclusiveRun, OneWorker
<1> QED
  BY <1>1, SoloInvariant, OneWorker, PTL

\* With a single retry process the pipeline runs for a job at most
\* MAX_INGESTION_ATTEMPTS times, and every run is counted.
THEOREM RunsBounded == ASSUME OneWorker PROVE Spec => []RunsWithinBudget
<1>1. SoloInv => RunsWithinBudget
  BY BoundsAssumption DEF SoloInv, BudgetInv, Basic, AttemptsBounded, RunsOK,
     RunsWithinBudget, TypeOK, Jobs, JobIds
<1> QED
  BY <1>1, SoloInvariant, OneWorker, PTL

(***************************************************************************)
(* What a step of one retry process may do to the status of a job and to   *)
(* its runs.                                                               *)
(***************************************************************************)
Runs(j) == /\ runs[j] < Budget /\ runs'[j] = runs[j] + 1
           /\ status[j] \in {"queued", "processing"} /\ status'[j] = status[j]

Succeeds(j) == /\ runs[j] > 0 /\ runs'[j] = runs[j]
               /\ status[j] \in {"queued", "processing"} /\ status'[j] = "succeeded"

Requeues(j) == /\ CanRequeue(j) /\ status'[j] = "queued" /\ runs'[j] = runs[j]

Moves(j) == /\ runs'[j] = runs[j]
            /\ \/ status'[j] = status[j]
               \/ /\ status[j] \in {"queued", "processing"}
                  /\ status'[j] \in {"processing", "failed"}

LEMMA StepEffect ==
    ASSUME OneWorker, SoloInv, [Next]_vars, NEW j \in Jobs
    PROVE  Runs(j) \/ Succeeds(j) \/ Requeues(j) \/ Moves(j)
<1> USE BoundsAssumption, LimitsAssumption DEF SoloInv, BudgetInv, Basic
<1>1. j \in JobIds /\ Jobs \subseteq JobIds /\ attempts[j] <= Budget
      /\ attempts[j] \in Nat /\ runs[j] \in Nat
  BY DEF TypeOK, Jobs, JobIds, AttemptsBounded
<1>2. ASSUME NEW m \in Mail, AcceptDelivery(m) PROVE Moves(j)
  BY <1>1, <1>2 DEF AcceptDelivery, Record, Moves, TypeOK, Jobs
<1>3. ASSUME NEW i \in JobIds, TaskStep(i)
      PROVE  Runs(j) \/ Succeeds(j) \/ Moves(j)
  <2>1. CASE i = j
    <3>1. CASE TaskIngest(i) \/ TaskIngestFails(i)
      BY <1>1, <2>1, <3>1 DEF TaskIngest, TaskIngestFails, TaskGoes, database,
         TypeOK, TasksOK, RunsOK, Runs, Budget
    <3>2. CASE TaskSucceed(i)
      BY <1>1, <2>1, <3>2 DEF TaskSucceed, TaskGoes, TypeOK, TasksOK, RunsOK,
         Succeeds
    <3>3. CASE \/ TaskStart(i)   \/ TaskPersist(i) \/ TaskPersistFails(i)
               \/ TaskDbError(i) \/ TaskFail(i)    \/ TaskGivesUp(i)
      BY <1>1, <2>1, <3>3 DEF TaskStart, TaskPersist, TaskPersistFails, TaskDbError,
         TaskFail, TaskGivesUp, TaskGoes, database, TypeOK, TasksOK, Moves
    <3> QED
      BY <1>3, <3>1, <3>2, <3>3 DEF TaskStep
  <2>2. CASE i # j
    BY <1>1, <1>3, <2>2 DEF TaskStep, TaskStart, TaskPersist, TaskPersistFails,
       TaskIngest, TaskIngestFails, TaskSucceed, TaskDbError, TaskFail, TaskGivesUp,
       TaskGoes, database, TypeOK, Moves
  <2> QED
    BY <2>1, <2>2
<1>4. ASSUME NEW w \in Workers, RetryStep(w)
      PROVE  Runs(j) \/ Succeeds(j) \/ Requeues(j) \/ Moves(j)
  <2>1. CASE cur[w] = j
    <3>1. CASE RetryIngest(w) \/ RetryIngestFails(w)
      BY <1>1, <2>1, <3>1 DEF RetryIngest, RetryIngestFails, RetryGoes, database,
         TypeOK, FreshOK, RunsOK, Runs, Budget
    <3>2. CASE RetrySucceed(w)
      BY <1>1, <2>1, <3>2 DEF RetrySucceed, RetryGoes, TypeOK, FreshOK, RunsOK,
         Succeeds
    <3>3. CASE RetryRequeue(w)
      BY <1>1, <2>1, <3>3 DEF RetryRequeue, RetryGoes, TypeOK, FreshOK, SeenOK,
         CanRequeue, Requeues
    <3>4. CASE RetryStart(w) \/ RetryFail(w)
      BY <1>1, <2>1, <3>4 DEF RetryStart, RetryFail, RetryGoes, TypeOK, FreshOK,
         CanRequeue, Moves
    <3>5. CASE \/ RetrySelect(w) \/ RetryRead(w)    \/ RetryFinish(w)
               \/ RetryNoItem(w) \/ RetryDbError(w) \/ RetryAborts(w) \/ RetryReadFails(w)
      BY <3>5 DEF RetrySelect, RetryRead, RetryFinish, RetryNoItem, RetryDbError, RetryReadFails,
         RetryAborts, RetryGoes, database, Moves
    <3> QED
      BY <1>4, <3>1, <3>2, <3>3, <3>4, <3>5 DEF RetryStep
  <2>2. CASE cur[w] # j
    BY <1>1, <1>4, <2>2 DEF RetryStep, RetrySelect, RetryRead, RetryFinish,
       RetryRequeue, RetryStart, RetryNoItem, RetryIngest, RetryIngestFails,
       RetrySucceed, RetryDbError, RetryReadFails, RetryFail, RetryAborts, RetryGoes, database,
       TypeOK, Moves
  <2> QED
    BY <2>1, <2>2
<1>5. CASE ServerCrash \/ \E w \in Workers : WorkerCrash(w)
  BY <1>5 DEF ServerCrash, WorkerCrash, Strikes, database, Moves
<1>6. CASE UNCHANGED vars \/ \E m \in Mail : IgnoreDelivery(m)
  BY <1>6 DEF vars, IgnoreDelivery, Moves
<1> QED
  BY <1>2, <1>3, <1>4, <1>5, <1>6 DEF Next

\* With a single retry process a job is queued again only from "failed" and
\* with budget left (requeue_failed_job); RequeueRace shows the same is false
\* of two.
THEOREM RequeueSafe == ASSUME OneWorker PROVE Spec => RequeueOnlyFailed
<1>1. SoloInv /\ [Next]_vars =>
        [\A j \in Jobs : status[j] # "queued" /\ status'[j] = "queued" =>
            status[j] = "failed" /\ HasBudget(attempts[j])]_vars
  <2> SUFFICES ASSUME SoloInv, [Next]_vars, NEW j \in Jobs,
                      status[j] # "queued", status'[j] = "queued"
               PROVE  status[j] = "failed" /\ HasBudget(attempts[j])
    OBVIOUS
  <2> QED
    BY OneWorker, StepEffect DEF Runs, Succeeds, Requeues, Moves, CanRequeue
<1> QED
  BY <1>1, SoloInvariant, OneWorker, PTL DEF RequeueOnlyFailed, Spec

\* With a single retry process a job that succeeded, or failed with its budget
\* used up, is never touched or run again.
THEOREM SettledForGood == ASSUME OneWorker PROVE Spec => SettledIsFinal
<1>1. SoloInv /\ [Next]_vars =>
        [\A j \in Jobs :
            Settled(j) => status'[j] = status[j] /\ runs'[j] = runs[j]]_vars
  <2> SUFFICES ASSUME SoloInv, [Next]_vars, NEW j \in Jobs, Settled(j)
               PROVE  status'[j] = status[j] /\ runs'[j] = runs[j]
    OBVIOUS
  <2> QED
    BY OneWorker, StepEffect
    DEF Runs, Succeeds, Requeues, Moves, CanRequeue, Settled
<1> QED
  BY <1>1, SoloInvariant, OneWorker, PTL DEF SettledIsFinal, Spec

-----------------------------------------------------------------------------
(***************************************************************************)
(* The refinement.  A delivery is seen through its one job; a step runs or *)
(* finishes the job of one delivery, or none.                              *)
(***************************************************************************)
RefineInv == SoloInv /\ OneJobPerReceipt

LEMMA JobOfMail ==
    ASSUME OneJobPerReceipt
    PROVE  /\ \A j \in Jobs : mailOf[j] \in receipts /\ JobOf(mailOf[j]) = j
           /\ \A m \in receipts : JobOf(m) \in Jobs /\ mailOf[JobOf(m)] = m
BY DEF OneJobPerReceipt, JobOf

LEMMA OneJobMoves ==
    ASSUME Basic, [Next]_vars, UNCHANGED rows
    PROVE  \E k \in Int : \A j \in Jobs :
             j # k => runs'[j] = runs[j] /\ status'[j] = status[j]
<1> USE DEF Basic
<1>1. Jobs \subseteq JobIds /\ JobIds \subseteq Int
  BY BoundsAssumption DEF TypeOK, Jobs, JobIds
<1>2. ASSUME NEW m \in Mail, AcceptDelivery(m) PROVE FALSE
  BY <1>2 DEF AcceptDelivery, Record, TypeOK
<1>3. ASSUME NEW i \in JobIds, TaskStep(i)
      PROVE  \A j \in Jobs : j # i => runs'[j] = runs[j] /\ status'[j] = status[j]
  BY <1>1, <1>3 DEF TaskStep, TaskStart, TaskPersist, TaskPersistFails, TaskIngest,
     TaskIngestFails, TaskSucceed, TaskDbError, TaskFail, TaskGivesUp, TaskGoes,
     database, TypeOK
<1>4. ASSUME NEW w \in Workers, RetryStep(w)
      PROVE  \A j \in Jobs : j # cur[w] => runs'[j] = runs[j] /\ status'[j] = status[j]
  BY <1>1, <1>4 DEF RetryStep, RetrySelect, RetryRead, RetryFinish,
     RetryRequeue, RetryStart, RetryNoItem, RetryIngest, RetryIngestFails,
     RetrySucceed, RetryDbError, RetryReadFails, RetryFail, RetryAborts, RetryGoes, database, TypeOK
<1>5. \A w \in Workers : cur[w] \in Int
  BY DEF TypeOK, Jobs
<1>6. CASE ServerCrash \/ \E w \in Workers : WorkerCrash(w)
  BY <1>6 DEF ServerCrash, WorkerCrash, Strikes, database
<1>7. CASE UNCHANGED vars \/ \E m \in Mail : IgnoreDelivery(m)
  BY <1>7 DEF vars, IgnoreDelivery
<1> QED
  BY <1>1, <1>2, <1>3, <1>4, <1>5, <1>6, <1>7 DEF Next

LEMMA AcceptMapped ==
    ASSUME RefineInv, RefineInv', NEW m \in Mail, AcceptDelivery(m)
    PROVE  Ledger!Accept(m)
<1> USE DEF RefineInv, SoloInv, BudgetInv, Basic
<1>1. /\ m \notin receipts
      /\ receipts' = receipts \cup {m}
      /\ rows + 1 \in JobIds \ Jobs
      /\ Jobs' = Jobs \cup {rows + 1}
      /\ runs[rows + 1] = 0
      /\ UNCHANGED runs
      /\ mailOf' = [mailOf EXCEPT ![rows + 1] = m]
      /\ status' = [status EXCEPT ![rows + 1] = "queued"]
  BY BoundsAssumption DEF AcceptDelivery, Record, TypeOK, RowsOK, Jobs, JobIds
<1>2. Jobs \subseteq JobIds
  BY BoundsAssumption DEF TypeOK, Jobs, JobIds
<1>3. /\ StateOf(m) = "unknown" /\ RunsOf(m) = 0
      /\ StateOf(m)' = "accepted" /\ RunsOf(m)' = 0
  <2>1. JobOf(m)' = rows + 1
    BY <1>1, <1>2, JobOfMail DEF TypeOK, OneJobPerReceipt, JobOf
  <2> QED
    BY <1>1, <2>1 DEF StateOf, RunsOf, TypeOK
<1>4. ASSUME NEW n \in Mail, n # m
      PROVE  StateOf(n)' = StateOf(n) /\ RunsOf(n)' = RunsOf(n)
  <2>1. CASE n \in receipts
    <3>1. JobOf(n) \in Jobs /\ mailOf[JobOf(n)] = n
      BY <2>1, JobOfMail
    <3>2. JobOf(n)' = JobOf(n)
      BY <1>1, <1>2, <3>1 DEF TypeOK, OneJobPerReceipt, JobOf
    <3> QED
      BY <1>1, <1>2, <2>1, <3>1, <3>2 DEF StateOf, RunsOf, TypeOK
  <2>2. CASE n \notin receipts
    BY <1>1, <1>4, <2>2 DEF StateOf, RunsOf
  <2> QED
    BY <2>1, <2>2
<1> QED
  BY <1>3, <1>4 DEF Ledger!Accept

LEMMA TouchMapped ==
    ASSUME OneWorker, RefineInv, [Next]_vars, UNCHANGED <<receipts, rows, mailOf>>
    PROVE  [Ledger!Next]_(Ledger!vars)
<1> USE DEF RefineInv, SoloInv, BudgetInv, Basic
<1>1. PICK k \in Int : \A j \in Jobs :
          j # k => runs'[j] = runs[j] /\ status'[j] = status[j]
  BY OneJobMoves
<1>2. Jobs \subseteq JobIds /\ \A m : JobOf(m)' = JobOf(m)
  BY BoundsAssumption DEF TypeOK, Jobs, JobIds, JobOf
<1>3. \A m \in receipts : JobOf(m) \in Jobs /\ mailOf[JobOf(m)] = m
  BY JobOfMail
<1>4. ASSUME NEW m \in Mail, m \in receipts => JobOf(m) # k
      PROVE  StateOf(m)' = StateOf(m) /\ RunsOf(m)' = RunsOf(m)
  BY <1>1, <1>2, <1>3, <1>4 DEF StateOf, RunsOf
<1>5. ASSUME k \in Jobs, NEW m \in Mail, m # mailOf[k]
      PROVE  StateOf(m)' = StateOf(m) /\ RunsOf(m)' = RunsOf(m)
  BY <1>3, <1>4, <1>5
<1>6. ASSUME k \in Jobs
      PROVE  /\ mailOf[k] \in Mail /\ mailOf[k] \in receipts /\ JobOf(mailOf[k]) = k
             /\ RunsOf(mailOf[k]) = runs[k] /\ RunsOf(mailOf[k])' = runs'[k]
  BY <1>2, <1>6, JobOfMail DEF TypeOK, RunsOf
<1>7. CASE k \in Jobs /\ Runs(k)
  <2>1. StateOf(mailOf[k]) = "accepted" /\ StateOf(mailOf[k])' = "accepted"
    BY <1>2, <1>6, <1>7 DEF StateOf, Runs
  <2>2. Ledger!Run(mailOf[k])
    BY <1>5, <1>6, <1>7, <2>1 DEF Ledger!Run, Runs
  <2> QED
    BY <1>6, <1>7, <2>2 DEF Ledger!Next
<1>8. CASE k \in Jobs /\ Succeeds(k)
  <2>1. StateOf(mailOf[k]) = "accepted" /\ StateOf(mailOf[k])' = "finished"
    BY <1>2, <1>6, <1>8 DEF StateOf, Succeeds
  <2>2. Ledger!Finish(mailOf[k])
    BY <1>5, <1>6, <1>8, <2>1 DEF Ledger!Finish, Succeeds
  <2> QED
    BY <1>6, <1>8, <2>2 DEF Ledger!Next
<1>9. CASE k \in Jobs => Requeues(k) \/ Moves(k)
  <2>1. ASSUME NEW m \in Mail
        PROVE  StateOf(m)' = StateOf(m) /\ RunsOf(m)' = RunsOf(m)
    <3>1. CASE m \in receipts /\ JobOf(m) = k
      BY <1>2, <1>3, <1>9, <3>1 DEF StateOf, RunsOf, Requeues, Moves, CanRequeue
    <3> QED
      BY <1>4, <3>1
  <2> QED
    BY <2>1 DEF Ledger!vars
<1> QED
  BY <1>7, <1>8, <1>9, OneWorker, StepEffect

\* With a single retry process the tables, tasks and batches of Ingestion keep
\* what JobLedger promises for each delivery, for every number of deliveries and
\* jobs, every limit and every set of faults.
THEOREM Refinement == ASSUME OneWorker PROVE Spec => ImplementsLedger
<1>1. Init => Ledger!Init
  BY DEF Init, Ledger!Init, StateOf, RunsOf
<1>2. RefineInv /\ RefineInv' /\ [Next]_vars => [Ledger!Next]_(Ledger!vars)
  <2> SUFFICES ASSUME RefineInv, RefineInv', [Next]_vars
               PROVE  [Ledger!Next]_(Ledger!vars)
    OBVIOUS
  <2>1. CASE \E m \in Mail : AcceptDelivery(m)
    BY <2>1, AcceptMapped DEF Ledger!Next
  <2>2. CASE UNCHANGED <<receipts, rows, mailOf>>
    BY <2>2, OneWorker, TouchMapped
  <2> QED
    BY <2>1, <2>2, TableUnchanged DEF Next
<1>3. Spec => []RefineInv
  BY OneWorker, SoloInvariant, OneJob, PTL DEF RefineInv
<1> QED
  BY <1>1, <1>2, <1>3, PTL DEF ImplementsLedger, Ledger!Spec, Spec
-----------------------------------------------------------------------------
(***************************************************************************)
(* The store together with the pipeline.  What happens to the tables is    *)
(* what happens in Ingestion; and what a caller takes for stored is in the *)
(* index.                                                                  *)
(***************************************************************************)
LEMMA MailsStep == [MailsNext]_mailVars => [Next]_vars
<1> SUFFICES ASSUME [MailsNext]_mailVars PROVE [Next]_vars
  OBVIOUS
<1>1. CASE Works
  BY <1>1 DEF Works, TaskWorks, RetryWorks, Next, TaskStep, RetryStep
<1>2. ASSUME NEW j \in JobIds, TaskCalls(j) \/ TaskReturns(j) PROVE [Next]_vars
  BY <1>2 DEF TaskCalls, TaskReturns, Next, TaskStep
<1>3. ASSUME NEW w \in Workers, RetryCalls(w) \/ RetryReturns(w) \/ CommandStops(w)
      PROVE  [Next]_vars
  BY <1>3 DEF RetryCalls, RetryReturns, CommandStops, Next, RetryStep
<1>4. ASSUME NEW t \in Pipe!TaskIds, RunGoesOn(t) PROVE [Next]_vars
  BY <1>4 DEF RunGoesOn
<1>5. CASE ServerStops
  BY <1>5 DEF ServerStops, Next
<1>6. CASE UNCHANGED mailVars
  BY <1>6 DEF mailVars, vars
<1> QED
  BY <1>1, <1>2, <1>3, <1>4, <1>5, <1>6 DEF MailsNext

\* With the pipeline in place of its calls, the store behaves as Ingestion says.
THEOREM MailsAreIngestion == MailsSpec => Spec
<1>1. MailsInit => Init
  BY DEF MailsInit
<1> QED
  BY <1>1, MailsStep, PTL DEF MailsSpec, Spec

DocOf(m) == Pipe!MailDoc(m, Pipe!KeptId)

\* Every run is of one e-mail, and has all its vectors in the index from its
\* upsert on.
MailRunsOK ==
    /\ tasks \in 0 .. MaxTasks
    /\ where \in [Pipe!TaskIds -> Pipe!Pcs]
    /\ next = [t \in Pipe!TaskIds |-> 1]
    /\ docs = [t \in Pipe!TaskIds |-> docs[t]]
    /\ \A t \in Pipe!TaskIds :
        /\ t <= tasks => \E m \in Mail : docs[t] = << DocOf(m) >>
        /\ t > tasks => where[t] = "none"
        /\ where[t] \in {"publish", "done"} => Pipe!VectorsOf(docs[t][1], t) \subseteq store

\* Who waits for a run waits for one of his job's e-mail.
CallsOK ==
    /\ taskRun \in [JobIds -> 0 .. tasks]
    /\ retryRun \in [Workers -> 0 .. tasks]
    /\ \A j \in JobIds : taskRun[j] # 0 =>
        j \in Jobs /\ docs[taskRun[j]] = << DocOf(mailOf[j]) >>
    /\ \A w \in Workers : retryRun[w] # 0 =>
        pc[w] = "ingest" /\ docs[retryRun[w]] = << DocOf(mailOf[cur[w]]) >>

StoredIsFindable == \A m \in stored : Findable(m)

FindInv == MailRunsOK /\ CallsOK /\ StoredIsFindable

LEMMA InitFind == MailsInit => FindInv
<1> SUFFICES ASSUME MailsInit PROVE FindInv
  OBVIOUS
<1>1. /\ tasks = 0 /\ where = [t \in Pipe!TaskIds |-> "none"]
      /\ next = [t \in Pipe!TaskIds |-> 1] /\ docs = [t \in Pipe!TaskIds |-> << >>]
      /\ stored = {} /\ taskRun = [j \in JobIds |-> 0] /\ retryRun = [w \in Workers |-> 0]
  BY DEF MailsInit, Pipe!Init, Init
<1>2. MaxTasks \in Nat
  BY MailsAssumption
<1>3. MailRunsOK
  <2>1. where \in [Pipe!TaskIds -> Pipe!Pcs]
    BY <1>1 DEF Pipe!Pcs
  <2> QED
    BY <1>1, <1>2, <2>1 DEF MailRunsOK, Pipe!TaskIds
<1> QED
  BY <1>1, <1>3 DEF FindInv, CallsOK, StoredIsFindable

\* What a call starts.
LEMMA CallEffect ==
    ASSUME MailRunsOK, NEW m \in Mail, NEW process, Pipe!RunMail(m, process)
    PROVE  /\ tasks < MaxTasks /\ tasks' = tasks + 1 /\ tasks + 1 \in Pipe!TaskIds
           /\ docs' = [docs EXCEPT ![tasks + 1] = << DocOf(m) >>]
           /\ where' = [where EXCEPT ![tasks + 1] = "embed"]
           /\ next' = next /\ store' = store
           /\ MailRunsOK'
<1>1. /\ tasks < MaxTasks /\ tasks' = tasks + 1
      /\ docs' = [docs EXCEPT ![tasks + 1] = << DocOf(m) >>]
      /\ where' = [where EXCEPT ![tasks + 1] = "embed"]
      /\ next' = next /\ store' = store
  BY DEF Pipe!RunMail, Pipe!Starts, DocOf
<1>2. tasks + 1 \in Pipe!TaskIds /\ tasks' \in 0 .. MaxTasks
  BY <1>1, MailsAssumption DEF MailRunsOK, Pipe!TaskIds
<1>3. MailRunsOK'
  <2>1. where' \in [Pipe!TaskIds -> Pipe!Pcs]
    BY <1>1, <1>2 DEF MailRunsOK, Pipe!Pcs
  <2>2. ASSUME NEW t \in Pipe!TaskIds
        PROVE  /\ t <= tasks' => \E x \in Mail : docs'[t] = << DocOf(x) >>
               /\ t > tasks' => where'[t] = "none"
               /\ where'[t] \in {"publish", "done"} =>
                      Pipe!VectorsOf(docs'[t][1], t) \subseteq store'
    <3>1. t \in Int /\ tasks \in Int
      BY DEF MailRunsOK, Pipe!TaskIds
    <3>2. CASE t = tasks + 1
      BY <1>1, <1>2, <3>1, <3>2 DEF MailRunsOK
    <3>3. CASE t # tasks + 1
      <4>1. docs'[t] = docs[t] /\ where'[t] = where[t]
        BY <1>1, <3>3 DEF MailRunsOK
      <4>2. (t <= tasks' => t <= tasks) /\ (t > tasks' => t > tasks)
        BY <1>1, <3>1, <3>3
      <4> QED
        BY <1>1, <4>1, <4>2 DEF MailRunsOK
    <3> QED
      BY <3>2, <3>3
  <2> QED
    BY <1>1, <1>2, <2>1, <2>2 DEF MailRunsOK, DocOf, Pipe!MailDoc, Pipe!KeptId, Pipe!VectorsOf,
       Pipe!TaskIds, Pipe!Pcs
<1> QED
  BY <1>1, <1>2, <1>3

\* What a step of a run does.
LEMMA RunEffect ==
    ASSUME MailRunsOK, NEW t0 \in Pipe!TaskIds, RunGoesOn(t0)
    PROVE  /\ UNCHANGED <<vars, tasks, docs, next, taskRun, retryRun>>
           /\ t0 <= tasks
           /\ store \subseteq store'
           /\ \A t \in Pipe!TaskIds : t # t0 => where'[t] = where[t]
           /\ \E vs \in SUBSET Written(t0) : Writes(t0, vs)
           /\ MailRunsOK'
<1>1. UNCHANGED <<vars, taskRun, retryRun>>
  BY DEF RunGoesOn, calls
<1>2. Pipe!Current(t0) = docs[t0][1]
  BY DEF MailRunsOK, Pipe!Current
<1>3. where[t0] # "none" => t0 <= tasks
  BY DEF MailRunsOK, Pipe!TaskIds
<1>4. t0 <= tasks => Len(docs[t0]) = 1
  BY DEF MailRunsOK
<1>5. UNCHANGED ungrouped => \E vs \in SUBSET Written(t0) : Writes(t0, vs)
  <2>1. UNCHANGED ungrouped => Writes(t0, {})
    BY DEF Writes
  <2> QED
    BY <2>1
<1>6. PICK to \in Pipe!Pcs :
          /\ UNCHANGED <<tasks, docs, next>>
          /\ where[t0] # "none" /\ where' = [where EXCEPT ![t0] = to] /\ to # "none"
          /\ store \subseteq store'
          /\ to \in {"publish", "done"} => Pipe!VectorsOf(docs[t0][1], t0) \subseteq store'
          /\ \E vs \in SUBSET Written(t0) : Writes(t0, vs)
  <2>1. CASE Pipe!Embed(t0) /\ UNCHANGED ungrouped
    BY <2>1, <1>5 DEF Pipe!Embed, Pipe!Goes, Pipe!task, Pipe!Pcs
  <2>2. CASE Pipe!EmbedFails(t0) /\ UNCHANGED ungrouped
    BY <2>2, <1>5 DEF Pipe!EmbedFails, Pipe!Goes, Pipe!task, Pipe!Pcs
  <2>3. CASE Pipe!Upsert(t0) /\ Writes(t0, Written(t0))
    BY <2>3, <1>2 DEF Pipe!Upsert, Pipe!Goes, Pipe!task, Pipe!Pcs, Written
  <2>4. CASE /\ Pipe!UpsertFails(t0)
             /\ \E vs \in SUBSET Written(t0) : store' = store \cup vs /\ Writes(t0, vs)
    BY <2>4 DEF Pipe!UpsertFails, Pipe!Goes, Pipe!task, Pipe!Pcs
  <2>5. CASE Pipe!Publish(t0) /\ UNCHANGED ungrouped
    <3>1. where[t0] = "publish" /\ store' = store /\ UNCHANGED <<tasks, docs>>
      BY <2>5 DEF Pipe!Publish, Pipe!Advance, Pipe!Goes, Pipe!task
    <3>2. next[t0] = 1 /\ Len(docs[t0]) = 1
      BY <3>1, <1>3, <1>4 DEF MailRunsOK
    <3>3. where' = [where EXCEPT ![t0] = "done"] /\ next' = next
      BY <2>5, <3>2 DEF Pipe!Publish, Pipe!Advance, Pipe!Goes
    <3>4. Pipe!VectorsOf(docs[t0][1], t0) \subseteq store
      BY <3>1 DEF MailRunsOK
    <3> QED
      BY <2>5, <1>5, <3>1, <3>3, <3>4 DEF Pipe!Pcs
  <2> QED
    BY <2>1, <2>2, <2>3, <2>4, <2>5 DEF RunGoesOn
<1>7. \A t \in Pipe!TaskIds : t # t0 => where'[t] = where[t]
  BY <1>6 DEF MailRunsOK
<1>8. where'[t0] = to
  BY <1>6 DEF MailRunsOK
<1>9. MailRunsOK'
  <2>1. where' \in [Pipe!TaskIds -> Pipe!Pcs]
    BY <1>6 DEF MailRunsOK
  <2>2. ASSUME NEW t \in Pipe!TaskIds
        PROVE  /\ t <= tasks => \E x \in Mail : docs[t] = << DocOf(x) >>
               /\ t > tasks => where'[t] = "none"
               /\ where'[t] \in {"publish", "done"} =>
                      Pipe!VectorsOf(docs[t][1], t) \subseteq store'
    <3>1. t \in Int /\ tasks \in Int
      BY DEF MailRunsOK, Pipe!TaskIds
    <3>2. CASE t = t0
      BY <1>3, <1>6, <1>8, <3>1, <3>2 DEF MailRunsOK
    <3>3. CASE t # t0
      BY <1>6, <1>7, <3>3 DEF MailRunsOK
    <3> QED
      BY <3>2, <3>3
  <2> QED
    BY <1>6, <2>1, <2>2 DEF MailRunsOK, DocOf, Pipe!MailDoc, Pipe!KeptId, Pipe!VectorsOf,
       Pipe!TaskIds, Pipe!Pcs
<1> QED
  BY <1>1, <1>3, <1>6, <1>7, <1>9

\* A crash only ends runs.
LEMMA CrashEffect ==
    ASSUME MailRunsOK, UNCHANGED <<tasks, docs, next, store>>,
           where' \in [Pipe!TaskIds -> Pipe!Pcs],
           \A t \in Pipe!TaskIds :
               where'[t] = where[t] \/ (where'[t] = "failed" /\ where[t] # "none")
    PROVE  MailRunsOK'
<1>1. ASSUME NEW t \in Pipe!TaskIds
      PROVE  /\ t <= tasks => \E x \in Mail : docs[t] = << DocOf(x) >>
             /\ t > tasks => where'[t] = "none"
             /\ where'[t] \in {"publish", "done"} =>
                    Pipe!VectorsOf(docs[t][1], t) \subseteq store
  BY DEF MailRunsOK
<1> QED
  BY <1>1 DEF MailRunsOK, DocOf, Pipe!MailDoc, Pipe!KeptId, Pipe!VectorsOf, Pipe!TaskIds, Pipe!Pcs

LEMMA FindableGrows ==
    ASSUME NEW m \in Mail, store \subseteq store'
    PROVE  Findable(m) => Findable(m)'
BY DEF Findable, Pipe!Findable, Pipe!VectorsOf, Pipe!MailDoc, Pipe!KeptId

LEMMA RunFinds ==
    ASSUME MailRunsOK, NEW m \in Mail, NEW t \in 1 .. tasks,
           docs[t] = << DocOf(m) >>, where[t] = "done"
    PROVE  Findable(m)
<1>1. t \in Pipe!TaskIds /\ t \in 0 .. MaxTasks
  BY MailsAssumption DEF MailRunsOK, Pipe!TaskIds
<1>2. Pipe!VectorsOf(DocOf(m), t) \subseteq store
  BY <1>1 DEF MailRunsOK
<1> QED
  BY <1>1, <1>2 DEF Findable, Pipe!Findable, DocOf

\* What tasks and retry processes do besides leaves runs alone, and those who wait
\* for one.
LEMMA WorksEffect ==
    ASSUME Basic, Works
    PROVE  /\ UNCHANGED <<tasks, docs, home, where, next, store, taskRun, retryRun, ungrouped>>
           /\ stored' = stored
           /\ \A j \in Jobs : j \in Jobs' /\ mailOf'[j] = mailOf[j]
           /\ \A w \in Workers : pc[w] = "ingest" =>
                  pc'[w] = "ingest" /\ cur'[w] = cur[w] /\ cur[w] \in Jobs
<1> USE BoundsAssumption DEF Basic, TypeOK, HandlersOK, Busy, RetryPcs
<1>1. UNCHANGED <<tasks, docs, home, where, next, store, taskRun, retryRun, ungrouped>>
  BY DEF Works, pipe, calls
<1>2. \A w \in Workers : pc[w] = "ingest" => cur[w] \in Jobs
  OBVIOUS
<1>3. ASSUME NEW m \in Mail, AcceptDelivery(m) \/ IgnoreDelivery(m)
      PROVE  /\ stored' = stored /\ UNCHANGED <<pc, cur>>
             /\ \A j \in Jobs : j \in Jobs' /\ mailOf'[j] = mailOf[j]
  BY <1>3 DEF AcceptDelivery, IgnoreDelivery, Record, vars, worker, Jobs, JobIds
<1>4. ASSUME NEW j \in JobIds, TaskWorks(j)
      PROVE  stored' = stored /\ UNCHANGED <<pc, cur, rows, mailOf>>
  BY <1>4 DEF TaskWorks, TaskStart, TaskPersist, TaskPersistFails, TaskSucceed, TaskDbError,
              TaskFail, TaskGivesUp, database, worker
<1>5. ASSUME NEW w \in Workers, RetryWorks(w)
      PROVE  /\ stored' = stored /\ UNCHANGED <<rows, mailOf>>
             /\ pc[w] # "ingest"
             /\ \A v \in Workers : v # w => pc'[v] = pc[v] /\ cur'[v] = cur[v]
  BY <1>5 DEF RetryWorks, RetrySelect, RetryRead, RetryFinish, RetryRequeue, RetryStart,
              RetryNoItem, RetrySucceed, RetryDbError, RetryReadFails, RetryFail, RetryAborts, RetryGoes,
              database
<1>6. CASE \E m \in Mail : AcceptDelivery(m) \/ IgnoreDelivery(m)
  BY <1>1, <1>2, <1>3, <1>6
<1>7. CASE \E j \in JobIds : TaskWorks(j)
  BY <1>1, <1>2, <1>4, <1>7 DEF Jobs
<1>8. CASE \E w \in Workers : RetryWorks(w)
  BY <1>1, <1>2, <1>5, <1>8 DEF Jobs
<1> QED
  BY <1>6, <1>7, <1>8 DEF Works

LEMMA StepFind == Basic /\ FindInv /\ [MailsNext]_mailVars => FindInv'
<1> SUFFICES ASSUME Basic, FindInv, [MailsNext]_mailVars PROVE FindInv'
  OBVIOUS
<1>1. /\ MailRunsOK /\ tasks \in Nat
      /\ \A m \in stored : m \in Mail /\ Findable(m)
      /\ taskRun \in [JobIds -> 0 .. tasks] /\ retryRun \in [Workers -> 0 .. tasks]
      /\ \A j \in JobIds : taskRun[j] # 0 =>
          j \in Jobs /\ docs[taskRun[j]] = << DocOf(mailOf[j]) >>
      /\ \A w \in Workers : retryRun[w] # 0 =>
          pc[w] = "ingest" /\ docs[retryRun[w]] = << DocOf(mailOf[cur[w]]) >>
  <2>1. MailRunsOK /\ CallsOK /\ StoredIsFindable
    BY DEF FindInv
  <2>2. tasks \in Nat
    BY <2>1, MailsAssumption DEF MailRunsOK
  <2>3. \A m \in stored : m \in Mail /\ Findable(m)
    BY <2>1 DEF StoredIsFindable, Basic, TypeOK
  <2> QED
    BY <2>1, <2>2, <2>3 DEF CallsOK
<1>2. \A j \in Jobs : j \in JobIds /\ mailOf[j] \in Mail
  BY BoundsAssumption DEF Basic, TypeOK, RowsOK, Jobs, JobIds
<1>3. \A w \in Workers : pc[w] = "ingest" => cur[w] \in Jobs
  BY DEF Basic, HandlersOK, Busy, RetryPcs
<1>4. \A j \in JobIds : task[j] # "none" => j \in Jobs
  BY DEF Basic, RowsOK
<1>5. CASE Works
  <2>1. /\ UNCHANGED <<tasks, docs, where, next, store, taskRun, retryRun>>
        /\ stored' = stored
        /\ \A j \in Jobs : j \in Jobs' /\ mailOf'[j] = mailOf[j]
        /\ \A w \in Workers : pc[w] = "ingest" =>
               pc'[w] = "ingest" /\ cur'[w] = cur[w] /\ cur[w] \in Jobs
    BY <1>5, WorksEffect
  <2>2. MailRunsOK'
    BY <1>1, <2>1, CrashEffect DEF MailRunsOK
  <2>3. CallsOK'
    <3>1. taskRun' \in [JobIds -> 0 .. tasks'] /\ retryRun' \in [Workers -> 0 .. tasks']
      BY <1>1, <2>1
    <3>2. ASSUME NEW j \in JobIds, taskRun[j] # 0
          PROVE  j \in Jobs' /\ docs[taskRun[j]] = << DocOf(mailOf'[j]) >>
      BY <1>1, <2>1, <3>2
    <3>3. ASSUME NEW w \in Workers, retryRun[w] # 0
          PROVE  pc'[w] = "ingest" /\ docs[retryRun[w]] = << DocOf(mailOf'[cur'[w]]) >>
      BY <1>1, <2>1, <3>3
    <3> QED
      BY <2>1, <3>1, <3>2, <3>3 DEF CallsOK, DocOf, Pipe!MailDoc, Pipe!KeptId
  <2>4. StoredIsFindable'
    BY <1>1, <2>1, FindableGrows DEF StoredIsFindable
  <2> QED
    BY <2>2, <2>3, <2>4 DEF FindInv
<1>6. ASSUME NEW j \in JobIds, TaskCalls(j) PROVE FindInv'
  <2>1. /\ task[j] = "ingest" /\ Pipe!RunMail(mailOf[j], "server")
        /\ taskRun' = [taskRun EXCEPT ![j] = tasks + 1] /\ retryRun' = retryRun
        /\ UNCHANGED <<stored, mailOf, rows, pc, cur>>
    BY <1>6 DEF TaskCalls, vars
  <2>2. j \in Jobs /\ mailOf[j] \in Mail
    BY <1>2, <1>4, <2>1
  <2>3. /\ tasks' = tasks + 1 /\ docs' = [docs EXCEPT ![tasks + 1] = << DocOf(mailOf[j]) >>]
        /\ store' = store /\ tasks + 1 \in Pipe!TaskIds /\ MailRunsOK'
    BY <1>1, <2>1, <2>2, CallEffect
  <2>4. /\ docs'[tasks + 1] = << DocOf(mailOf[j]) >>
        /\ \A t \in 1 .. tasks : docs'[t] = docs[t]
    BY <1>1, <2>3, MailsAssumption DEF MailRunsOK, Pipe!TaskIds
  <2>5. CallsOK'
    <3>1. taskRun' \in [JobIds -> 0 .. tasks'] /\ retryRun' \in [Workers -> 0 .. tasks']
      BY <1>1, <2>1, <2>3
    <3>2. ASSUME NEW i \in JobIds, taskRun'[i] # 0
          PROVE  i \in Jobs /\ docs'[taskRun'[i]] = << DocOf(mailOf[i]) >>
      BY <1>1, <2>1, <2>2, <2>4, <3>2
    <3>3. ASSUME NEW w \in Workers, retryRun[w] # 0
          PROVE  pc[w] = "ingest" /\ docs'[retryRun[w]] = << DocOf(mailOf[cur[w]]) >>
      BY <1>1, <2>4, <3>3
    <3> QED
      BY <2>1, <3>1, <3>2, <3>3 DEF CallsOK, Jobs, DocOf, Pipe!MailDoc, Pipe!KeptId
  <2>6. StoredIsFindable'
    BY <1>1, <2>1, <2>3, FindableGrows DEF StoredIsFindable
  <2> QED
    BY <2>3, <2>5, <2>6 DEF FindInv
<1>7. ASSUME NEW w \in Workers, RetryCalls(w) PROVE FindInv'
  <2>1. /\ pc[w] = "ingest"
        /\ Pipe!RunMail(mailOf[cur[w]], IF w = Scheduler THEN "server" ELSE "command")
        /\ retryRun' = [retryRun EXCEPT ![w] = tasks + 1] /\ taskRun' = taskRun
        /\ UNCHANGED <<stored, mailOf, rows, pc, cur>>
    BY <1>7 DEF RetryCalls, vars
  <2>2. mailOf[cur[w]] \in Mail
    BY <1>2, <1>3, <2>1
  <2>3. /\ tasks' = tasks + 1 /\ docs' = [docs EXCEPT ![tasks + 1] = << DocOf(mailOf[cur[w]]) >>]
        /\ store' = store /\ tasks + 1 \in Pipe!TaskIds /\ MailRunsOK'
    BY <1>1, <2>1, <2>2, CallEffect
  <2>4. /\ docs'[tasks + 1] = << DocOf(mailOf[cur[w]]) >>
        /\ \A t \in 1 .. tasks : docs'[t] = docs[t]
    BY <1>1, <2>3, MailsAssumption DEF MailRunsOK, Pipe!TaskIds
  <2>5. CallsOK'
    <3>1. taskRun' \in [JobIds -> 0 .. tasks'] /\ retryRun' \in [Workers -> 0 .. tasks']
      BY <1>1, <2>1, <2>3
    <3>2. ASSUME NEW i \in JobIds, taskRun[i] # 0
          PROVE  i \in Jobs /\ docs'[taskRun[i]] = << DocOf(mailOf[i]) >>
      BY <1>1, <2>4, <3>2
    <3>3. ASSUME NEW v \in Workers, retryRun'[v] # 0
          PROVE  pc[v] = "ingest" /\ docs'[retryRun'[v]] = << DocOf(mailOf[cur[v]]) >>
      BY <1>1, <2>1, <2>4, <3>3
    <3> QED
      BY <2>1, <3>1, <3>2, <3>3 DEF CallsOK, Jobs, DocOf, Pipe!MailDoc, Pipe!KeptId
  <2>6. StoredIsFindable'
    BY <1>1, <2>1, <2>3, FindableGrows DEF StoredIsFindable
  <2> QED
    BY <2>3, <2>5, <2>6 DEF FindInv
<1>8. ASSUME NEW j \in JobIds, TaskReturns(j) PROVE FindInv'
  <2>1. /\ UNCHANGED <<tasks, docs, where, next, store, taskRun, retryRun, mailOf, rows, pc, cur>>
        /\ taskRun[j] # 0
        /\ \/ where[taskRun[j]] = "done" /\ stored' = stored \cup {mailOf[j]}
           \/ stored' = stored \cup {x \in {mailOf[j]} : Findable(x)}
    BY <1>8 DEF TaskReturns, TaskIngest, TaskIngestFails, Learns, pipe, calls, database, worker
  <2>2. mailOf[j] \in Mail /\ taskRun[j] \in 1 .. tasks
    BY <1>1, <1>2, <2>1
  <2>3. \A m \in stored' : m \in Mail /\ Findable(m)
    BY <1>1, <2>1, <2>2, RunFinds
  <2>4. MailRunsOK'
    BY <1>1, <2>1, CrashEffect DEF MailRunsOK
  <2>5. CallsOK'
    BY <1>1, <2>1 DEF CallsOK, Jobs, DocOf, Pipe!MailDoc, Pipe!KeptId
  <2>6. StoredIsFindable'
    BY <2>1, <2>3, FindableGrows DEF StoredIsFindable
  <2> QED
    BY <2>4, <2>5, <2>6 DEF FindInv
<1>9. ASSUME NEW w \in Workers, RetryReturns(w) PROVE FindInv'
  <2>1. /\ UNCHANGED <<tasks, docs, where, next, store, taskRun, mailOf, rows, cur>>
        /\ retryRun[w] # 0 /\ retryRun' = [retryRun EXCEPT ![w] = 0]
        /\ \/ where[retryRun[w]] = "done" /\ stored' = stored \cup {mailOf[cur[w]]}
           \/ stored' = stored \cup {x \in {mailOf[cur[w]]} : Findable(x)}
    BY <1>9 DEF RetryReturns, RetryIngest, RetryIngestFails, Learns, pipe, database
  <2>2. \A v \in Workers : v # w => pc'[v] = pc[v]
    BY <1>9 DEF RetryReturns, RetryIngest, RetryIngestFails, RetryGoes, Basic, TypeOK
  <2>3. mailOf[cur[w]] \in Mail /\ retryRun[w] \in 1 .. tasks
    BY <1>1, <1>2, <1>3, <2>1
  <2>4. \A m \in stored' : m \in Mail /\ Findable(m)
    BY <1>1, <2>1, <2>3, RunFinds
  <2>5. MailRunsOK'
    BY <1>1, <2>1, CrashEffect DEF MailRunsOK
  <2>6. CallsOK'
    BY <1>1, <2>1, <2>2 DEF CallsOK, Jobs, DocOf, Pipe!MailDoc, Pipe!KeptId
  <2>7. StoredIsFindable'
    BY <2>1, <2>4, FindableGrows DEF StoredIsFindable
  <2> QED
    BY <2>5, <2>6, <2>7 DEF FindInv
<1>10. ASSUME NEW t \in Pipe!TaskIds, RunGoesOn(t) PROVE FindInv'
  <2>1. /\ UNCHANGED <<tasks, docs, taskRun, retryRun, stored, mailOf, rows, pc, cur>>
        /\ store \subseteq store' /\ MailRunsOK'
    BY <1>1, <1>10, RunEffect DEF vars
  <2>2. CallsOK'
    BY <1>1, <2>1 DEF CallsOK, Jobs, DocOf, Pipe!MailDoc, Pipe!KeptId
  <2>3. StoredIsFindable'
    BY <1>1, <2>1, FindableGrows DEF StoredIsFindable
  <2> QED
    BY <2>1, <2>2, <2>3 DEF FindInv
<1>11. CASE ServerStops
  <2>1. /\ UNCHANGED <<tasks, docs, next, store, taskRun, stored, mailOf, rows, cur>>
        /\ pc' = [w \in Workers |-> IF w = Scheduler THEN "idle" ELSE pc[w]]
        /\ retryRun' = [w \in Workers |-> IF w = Scheduler THEN 0 ELSE retryRun[w]]
        /\ where' = [t \in Pipe!TaskIds |->
              IF home[t] = "server" /\ where[t] \notin Pipe!Ended THEN "failed" ELSE where[t]]
    BY <1>11 DEF ServerStops, ServerCrash, Pipe!Crash, Pipe!task, database
  <2>2. /\ where' \in [Pipe!TaskIds -> Pipe!Pcs]
        /\ \A t \in Pipe!TaskIds :
               where'[t] = where[t] \/ (where'[t] = "failed" /\ where[t] # "none")
    BY <1>1, <2>1 DEF MailRunsOK, Pipe!Pcs, Pipe!Ended
  <2>3. MailRunsOK'
    BY <1>1, <2>1, <2>2, CrashEffect
  <2>4. CallsOK'
    BY <1>1, <2>1 DEF CallsOK, Jobs, DocOf, Pipe!MailDoc, Pipe!KeptId
  <2>5. StoredIsFindable'
    BY <1>1, <2>1, FindableGrows DEF StoredIsFindable
  <2> QED
    BY <2>3, <2>4, <2>5 DEF FindInv
<1>12. ASSUME NEW w \in Workers, CommandStops(w) PROVE FindInv'
  <2>1. /\ UNCHANGED <<taskRun, stored, mailOf, rows, cur>>
        /\ pc' = [pc EXCEPT ![w] = "idle"]
        /\ retryRun' = [retryRun EXCEPT ![w] = 0]
    BY <1>12 DEF CommandStops, WorkerCrash, database
  <2>2. \/ UNCHANGED <<tasks, docs, next, store, where>>
        \/ /\ retryRun[w] # 0 /\ where[retryRun[w]] \notin Pipe!Ended
           /\ where' = [where EXCEPT ![retryRun[w]] = "failed"]
           /\ UNCHANGED <<tasks, docs, next, store>>
    BY <1>12 DEF CommandStops, Pipe!Stop, Pipe!task, pipe
  <2>3. /\ where' \in [Pipe!TaskIds -> Pipe!Pcs]
        /\ UNCHANGED <<tasks, docs, next, store>>
        /\ \A t \in Pipe!TaskIds :
               where'[t] = where[t] \/ (where'[t] = "failed" /\ where[t] # "none")
    BY <1>1, <2>2 DEF MailRunsOK, Pipe!Pcs, Pipe!Ended
  <2>4. MailRunsOK'
    BY <1>1, <2>3, CrashEffect
  <2>5. CallsOK'
    BY <1>1, <2>1, <2>3 DEF CallsOK, Jobs, DocOf, Pipe!MailDoc, Pipe!KeptId, Basic, TypeOK
  <2>6. StoredIsFindable'
    BY <1>1, <2>1, <2>3, FindableGrows DEF StoredIsFindable
  <2> QED
    BY <2>4, <2>5, <2>6 DEF FindInv
<1>13. CASE UNCHANGED mailVars
  <2>1. UNCHANGED <<tasks, docs, where, next, store, taskRun, retryRun, stored, mailOf, rows, pc, cur>>
    BY <1>13 DEF mailVars
  <2>2. MailRunsOK'
    BY <1>1, <2>1, CrashEffect DEF MailRunsOK
  <2>3. CallsOK' /\ StoredIsFindable'
    BY <1>1, <2>1, FindableGrows DEF CallsOK, StoredIsFindable, Jobs, DocOf, Pipe!MailDoc, Pipe!KeptId
  <2> QED
    BY <2>2, <2>3 DEF FindInv
<1> QED
  BY <1>5, <1>6, <1>7, <1>8, <1>9, <1>10, <1>11, <1>12, <1>13 DEF MailsNext

LEMMA InvariantStored == Spec => []StoredInv
<1>1. Init => StoredInv
  BY InitBasic DEF Init, StoredInv, StoredOK, SucceededIsStored, Jobs
<1>2. StoredInv /\ [Next]_vars => StoredInv'
  BY StepBasic, StepStored DEF StoredInv
<1> QED
  BY <1>1, <1>2, PTL DEF Spec

\* For any retry processes, whatever fails: a job that succeeded has its text in
\* source_items and the vectors of a whole run in the index.
THEOREM SucceededFindable == MailsSpec => []SucceededIsFindable
<1>1. MailsSpec => []StoredInv
  BY MailsAreIngestion, InvariantStored, PTL
<1>2. MailsInit => FindInv
  BY InitFind
<1>3. StoredInv /\ FindInv /\ [MailsNext]_mailVars => FindInv'
  BY StepFind DEF StoredInv
<1>4. StoredInv /\ FindInv => SucceededIsFindable
  BY DEF StoredInv, SucceededIsStored, FindInv, StoredIsFindable, SucceededIsFindable
<1> QED
  BY <1>1, <1>2, <1>3, <1>4, PTL DEF MailsSpec

-----------------------------------------------------------------------------
(***************************************************************************)
(* Threads of e-mails.  Vectors without a thread_id are of e-mails that a  *)
(* retry has run for; a retry runs for no job whose task is at work, and a *)
(* job whose task has run succeeds by a retry only as its second run.      *)
(***************************************************************************)
RetryRuns == {t \in 1 .. tasks : ~Grouped(t)}

Retried == {docs[t][1].of : t \in RetryRuns}

Handled(j) == \E w \in Workers : j \in batch[w] \/ (cur[w] = j /\ pc[w] \in Busy)

RetriesOK == /\ \A v \in ungrouped : v.doc.of \in Retried
             /\ Retried \subseteq receipts

ThreadOK(j) ==
    /\ mailOf[j] \in Retried => task[j] = "none"
    /\ task[j] \in {"persist", "ingest"} => status[j] = "processing"
    /\ task[j] \in {"start", "persist"} => taskRun[j] = 0
    /\ taskRun[j] # 0 /\ runs[j] = 0 =>
        status[j] = "processing" /\ task[j] \in {"ingest", "none"} /\ ~Handled(j)
    /\ taskRun[j] # 0 /\ runs[j] = 1 =>
        \A w \in Workers : cur[w] = j => pc[w] # "succeed"
    /\ taskRun[j] # 0 /\ runs[j] = 1 /\ status[j] = "succeeded" =>
        mailOf[j] \notin Retried /\ ~Handled(j)

ThreadInv ==
    Basic /\ OneJobPerReceipt /\ FindInv /\ RetriesOK /\ \A j \in Jobs : ThreadOK(j)

ThreadsStep == RetriesOK' /\ \A j \in Jobs' : ThreadOK(j)'

LEMMA RetriedSame == UNCHANGED <<tasks, docs, taskRun>> => Retried' = Retried
BY DEF Retried, RetryRuns, Grouped

\* What is so of every job's row.
LEMMA ThreadFacts ==
    ASSUME ThreadInv
    PROVE  /\ Jobs \subseteq JobIds
           /\ \A j \in Jobs : mailOf[j] \in Mail /\ mailOf[j] \in receipts
           /\ \A j \in Jobs : Handled(j) => task[j] = "none"
           /\ DOMAIN pc = Workers /\ DOMAIN cur = Workers /\ DOMAIN batch = Workers
           /\ DOMAIN task = JobIds /\ DOMAIN status = JobIds /\ DOMAIN runs = JobIds
           /\ \A j \in JobIds : runs[j] \in Nat
BY BoundsAssumption
DEF ThreadInv, Basic, TypeOK, RowsOK, HandlersOK, Jobs, JobIds, Handled

\* The new job of a delivery has not been run.
LEMMA DeliveryThread ==
    ASSUME ThreadInv, UNCHANGED <<tasks, docs, taskRun, ungrouped>>,
           NEW m \in Mail, AcceptDelivery(m) \/ IgnoreDelivery(m)
    PROVE  ThreadsStep
<1>1. Retried' = Retried
  BY RetriedSame
<1>2. CASE AcceptDelivery(m)
  <2>1. /\ m \notin receipts /\ receipts' = receipts \cup {m}
        /\ Jobs' = Jobs \cup {rows + 1} /\ rows + 1 \in JobIds /\ rows + 1 \notin Jobs
        /\ Jobs \subseteq JobIds
        /\ mailOf' = [mailOf EXCEPT ![rows + 1] = m]
        /\ status' = [status EXCEPT ![rows + 1] = "queued"]
        /\ task' = [task EXCEPT ![rows + 1] = "start"]
        /\ UNCHANGED <<runs, pc, cur, batch>>
    BY <1>2, BoundsAssumption
    DEF AcceptDelivery, Record, worker, ThreadInv, Basic, TypeOK, Jobs, JobIds
  <2>2. RetriesOK'
    BY <1>1, <2>1 DEF ThreadInv, RetriesOK
  <2>3. taskRun[rows + 1] = 0
    BY <2>1 DEF ThreadInv, FindInv, CallsOK
  <2>4. ASSUME NEW j, j = rows + 1 PROVE ThreadOK(j)'
    <3>1. mailOf'[j] = m /\ task'[j] = "start" /\ taskRun'[j] = 0 /\ m \notin Retried'
      BY <1>1, <2>1, <2>3, <2>4 DEF ThreadInv, RetriesOK, Basic, TypeOK
    <3> QED
      BY <3>1 DEF ThreadOK
  <2>5. ASSUME NEW j \in Jobs PROVE ThreadOK(j)'
    <3>1. /\ mailOf'[j] = mailOf[j] /\ task'[j] = task[j] /\ status'[j] = status[j]
          /\ ThreadOK(j)
      BY <2>1 DEF ThreadInv, Basic, TypeOK
    <3> QED
      BY <1>1, <2>1, <3>1 DEF ThreadOK, Handled
  <2> QED
    BY <2>1, <2>2, <2>4, <2>5 DEF ThreadsStep
<1>3. CASE IgnoreDelivery(m)
  BY <1>1, <1>3 DEF IgnoreDelivery, vars, ThreadInv, RetriesOK, ThreadOK, Handled, Jobs,
     ThreadsStep
<1> QED
  BY <1>2, <1>3

\* A task's own transactions.  No retry process works on its job.
LEMMA TaskThread ==
    ASSUME ThreadInv, UNCHANGED <<tasks, docs, taskRun, ungrouped>>,
           NEW i \in JobIds, TaskWorks(i)
    PROVE  ThreadsStep
<1>1. Retried' = Retried
  BY RetriedSame
<1>2. /\ UNCHANGED <<rows, mailOf, receipts, runs, pc, cur, batch>>
      /\ Jobs' = Jobs /\ i \in Jobs
      /\ \A j \in JobIds : j # i => task'[j] = task[j] /\ status'[j] = status[j]
      /\ task[i] # "none"
  <2>1. task[i] # "none"
    BY DEF TaskWorks, TaskStart, TaskPersist, TaskPersistFails, TaskSucceed, TaskDbError,
       TaskFail, TaskGivesUp, TaskGoes
  <2>2. i \in Jobs
    BY <2>1 DEF ThreadInv, Basic, RowsOK
  <2> QED
    BY <2>1, <2>2, ThreadFacts DEF TaskWorks, TaskStart, TaskPersist, TaskPersistFails,
       TaskSucceed, TaskDbError, TaskFail, TaskGivesUp, TaskGoes, database, worker, Jobs
<1>3. mailOf[i] \notin Retried /\ ~Handled(i) /\ ThreadOK(i) /\ runs[i] \in Nat
  BY <1>2, ThreadFacts DEF ThreadInv, ThreadOK
<1>4. RetriesOK'
  BY <1>1, <1>2 DEF ThreadInv, RetriesOK
<1>5. ThreadOK(i)'
  <2>1. ~Handled(i)'
    BY <1>2, <1>3 DEF Handled
  <2>2. i \in JobIds /\ \A w \in Workers : cur[w] = i => pc[w] # "succeed"
    BY <1>3 DEF Handled, Busy, RetryPcs
  <2>3. \/ task[i] = "start" /\ task'[i] = "persist" /\ status'[i] = "processing"
        \/ task[i] = "persist" /\ task'[i] = "ingest" /\ status'[i] = status[i]
        \/ task[i] = "persist" /\ task'[i] = "fail" /\ status'[i] = status[i]
        \/ task[i] = "start" /\ task'[i] = "fail" /\ status'[i] = status[i]
        \/ task[i] \in {"start", "succeed"} /\ task'[i] = "none" /\ status'[i] = status[i]
        \/ task[i] = "succeed" /\ task'[i] = "none" /\ status'[i] = "succeeded"
        \/ task[i] = "fail" /\ task'[i] = "none"
    BY ThreadFacts DEF TaskWorks, TaskStart, TaskPersist, TaskPersistFails, TaskSucceed,
       TaskDbError, TaskFail, TaskGivesUp, TaskGoes, database
  <2> QED
    BY <1>1, <1>2, <1>3, <2>1, <2>2, <2>3 DEF ThreadOK
<1>6. ASSUME NEW j \in Jobs, j # i PROVE ThreadOK(j)'
  BY <1>1, <1>2, <1>6, ThreadFacts DEF ThreadInv, ThreadOK, Handled
<1> QED
  BY <1>2, <1>4, <1>5, <1>6 DEF ThreadsStep

\* A retry process's own transactions.
LEMMA RetryThread ==
    ASSUME ThreadInv, UNCHANGED <<tasks, docs, taskRun, ungrouped>>,
           NEW v \in Workers, RetryWorks(v)
    PROVE  ThreadsStep
<1>1. Retried' = Retried
  BY RetriedSame
<1>2. /\ UNCHANGED <<rows, mailOf, receipts, runs, task>> /\ Jobs' = Jobs
      /\ \A w \in Workers : w # v =>
           pc'[w] = pc[w] /\ cur'[w] = cur[w] /\ batch'[w] = batch[w]
  BY ThreadFacts DEF RetryWorks, RetrySelect, RetryRead, RetryFinish, RetryRequeue,
     RetryStart, RetryNoItem, RetrySucceed, RetryDbError, RetryReadFails, RetryFail, RetryAborts,
     RetryGoes, database, Jobs
<1>3. RetriesOK'
  BY <1>1, <1>2 DEF ThreadInv, RetriesOK
<1>4. ASSUME NEW j \in Jobs PROVE ThreadOK(j)'
  <2>1. j \in JobIds /\ ThreadOK(j) /\ runs[j] \in Nat
    BY ThreadFacts DEF ThreadInv
  <2>2. CASE cur[v] = j /\ pc[v] \in Busy
    <3>1. Handled(j) /\ task[j] = "none"
      BY <2>2, ThreadFacts DEF Handled
    <3>2. pc'[v] # "succeed"
      BY <2>2, ThreadFacts DEF RetryWorks, RetrySelect, RetryRead, RetryFinish, RetryRequeue,
         RetryStart, RetryNoItem, RetrySucceed, RetryDbError, RetryReadFails, RetryFail, RetryAborts,
         RetryGoes, Busy, RetryPcs
    <3>3. status'[j] = "succeeded" => status[j] = "succeeded" \/ pc[v] = "succeed"
      BY <2>1, <2>2, ThreadFacts DEF RetryWorks, RetrySelect, RetryRead, RetryFinish,
         RetryRequeue, RetryStart, RetryNoItem, RetrySucceed, RetryDbError, RetryReadFails, RetryFail,
         RetryAborts, RetryGoes, database
    <3>4. \A w \in Workers : cur'[w] = j /\ pc'[w] = "succeed" => cur[w] = j /\ pc[w] = "succeed"
      BY <1>2, <3>2
    <3> QED
      BY <1>1, <1>2, <2>1, <2>2, <3>1, <3>3, <3>4 DEF ThreadOK
  <2>3. CASE ~(cur[v] = j /\ pc[v] \in Busy)
    <3>1. status'[j] = status[j]
      BY <2>1, <2>3, ThreadFacts DEF RetryWorks, RetrySelect, RetryRead, RetryFinish,
         RetryRequeue, RetryStart, RetryNoItem, RetrySucceed, RetryDbError, RetryReadFails, RetryFail,
         RetryAborts, RetryGoes, Busy, RetryPcs, database
    <3>2. cur'[v] = j /\ pc'[v] \in Busy =>
              \/ status[j] = "failed" /\ pc'[v] = "requeue"
              \/ j \in batch[v] /\ pc'[v] = "fail"
      BY <2>3, ThreadFacts DEF RetryWorks, RetrySelect, RetryRead, RetryFinish,
         RetryRequeue, RetryStart, RetryNoItem, RetrySucceed, RetryDbError, RetryReadFails, RetryFail,
         RetryAborts, RetryGoes, Busy, RetryPcs, database, CanRequeue
    <3>5. j \in batch'[v] => j \in batch[v] \/ status[j] = "failed"
      <4>1. OldestOf(Retryable) \subseteq Retryable
        BY DEF OldestOf
      <4>2. j \in batch'[v] => j \in batch[v] \/ j \in Retryable
        BY <4>1, ThreadFacts DEF RetryWorks, RetrySelect, RetryRead, RetryFinish,
           RetryRequeue, RetryStart, RetryNoItem, RetrySucceed, RetryDbError,
           RetryReadFails, RetryFail, RetryAborts, RetryGoes
      <4> QED
        BY <4>2 DEF Retryable, CanRequeue
    <3>3. status[j] # "failed" => (Handled(j)' => Handled(j))
      BY <1>2, <3>2, <3>5 DEF Handled
    <3>4. \A w \in Workers : cur'[w] = j /\ pc'[w] = "succeed" => cur[w] = j /\ pc[w] = "succeed"
      BY <1>2, <3>2 DEF Busy, RetryPcs
    <3> QED
      BY <1>1, <1>2, <2>1, <3>1, <3>3, <3>4 DEF ThreadOK
  <2> QED
    BY <2>2, <2>3
<1> QED
  BY <1>2, <1>3, <1>4 DEF ThreadsStep

\* A run that is called: a task's takes its job's thread_id along, and a retry's is
\* of a job whose task is over.
LEMMA CallThread ==
    ASSUME ThreadInv,
           \/ \E i \in JobIds : TaskCalls(i)
           \/ \E w \in Workers : RetryCalls(w)
    PROVE  ThreadsStep
<1>1. /\ MailRunsOK /\ tasks \in Nat /\ taskRun \in [JobIds -> 0 .. tasks]
      /\ \A j \in JobIds : runs[j] \in Nat
  <2>1. MailRunsOK /\ CallsOK
    BY DEF ThreadInv, FindInv
  <2>2. tasks \in Nat
    BY <2>1, MailsAssumption DEF MailRunsOK
  <2> QED
    BY <2>1, <2>2, ThreadFacts DEF CallsOK
<1>2. ASSUME NEW i \in JobIds, TaskCalls(i) PROVE ThreadsStep
  <2>1. /\ task[i] = "ingest" /\ taskRun[i] = 0 /\ Pipe!RunMail(mailOf[i], "server")
        /\ taskRun' = [taskRun EXCEPT ![i] = tasks + 1]
        /\ UNCHANGED <<vars, ungrouped>>
    BY <1>2 DEF TaskCalls
  <2>2. i \in Jobs /\ mailOf[i] \in Mail /\ ThreadOK(i) /\ ~Handled(i)
    BY <2>1, ThreadFacts DEF ThreadInv, Basic, RowsOK
  <2>3. tasks' = tasks + 1 /\ \A t \in 1 .. tasks : docs'[t] = docs[t]
    BY <1>1, <2>1, <2>2, CallEffect, MailsAssumption DEF MailRunsOK, Pipe!TaskIds
  <2>4. /\ taskRun'[i] = tasks + 1
        /\ \A j \in JobIds : j # i => taskRun'[j] = taskRun[j]
    BY <1>1, <2>1
  <2>5. Retried' = Retried
    <3>1. RetryRuns' = RetryRuns
      <4>1. ASSUME NEW t \in 1 .. tasks PROVE t \in RetryRuns' <=> t \in RetryRuns
        BY <1>1, <2>1, <2>3, <2>4, <4>1 DEF RetryRuns, Grouped
      <4>2. tasks + 1 \notin RetryRuns' /\ tasks + 1 \notin RetryRuns
        BY <1>1, <2>4 DEF RetryRuns, Grouped
      <4>3. RetryRuns \subseteq 1 .. tasks /\ RetryRuns' \subseteq 1 .. tasks + 1
        BY <2>3 DEF RetryRuns
      <4>4. \A t \in 1 .. tasks + 1 : t \in 1 .. tasks \/ t = tasks + 1
        BY <1>1
      <4> QED
        BY <1>1, <4>1, <4>2, <4>3, <4>4
    <3> QED
      BY <2>3, <3>1 DEF Retried, RetryRuns
  <2>6. UNCHANGED <<rows, mailOf, receipts, status, task, pc, cur, batch, runs>> /\ Jobs' = Jobs
    BY <2>1 DEF vars, Jobs
  <2>7. ASSUME NEW j \in Jobs PROVE ThreadOK(j)'
    <3>1. ThreadOK(j) /\ j \in JobIds
      BY ThreadFacts DEF ThreadInv
    <3> QED
      BY <1>1, <2>1, <2>2, <2>5, <2>6, <3>1 DEF ThreadOK, Handled, Busy, RetryPcs
  <2> QED
    BY <2>1, <2>5, <2>6, <2>7 DEF ThreadsStep, RetriesOK, ThreadInv
<1>3. ASSUME NEW v \in Workers, RetryCalls(v) PROVE ThreadsStep
  <2>1. /\ pc[v] = "ingest"
        /\ Pipe!RunMail(mailOf[cur[v]], IF v = Scheduler THEN "server" ELSE "command")
        /\ UNCHANGED <<vars, taskRun, ungrouped>>
    BY <1>3 DEF RetryCalls
  <2>2. /\ cur[v] \in Jobs /\ task[cur[v]] = "none" /\ Handled(cur[v])
        /\ mailOf[cur[v]] \in Mail /\ mailOf[cur[v]] \in receipts
    BY <2>1, ThreadFacts DEF ThreadInv, Basic, HandlersOK, Handled, Busy, RetryPcs
  <2>3. /\ tasks' = tasks + 1 /\ docs'[tasks + 1][1].of = mailOf[cur[v]]
        /\ \A t \in 1 .. tasks : docs'[t] = docs[t]
    <3>1. /\ tasks' = tasks + 1 /\ tasks + 1 \in Pipe!TaskIds
          /\ docs' = [docs EXCEPT ![tasks + 1] = << DocOf(mailOf[cur[v]]) >>]
      BY <1>1, <2>1, <2>2, CallEffect
    <3>2. docs = [t \in Pipe!TaskIds |-> docs[t]]
      BY <1>1 DEF MailRunsOK
    <3>3. docs'[tasks + 1] = << DocOf(mailOf[cur[v]]) >>
      BY <3>1, <3>2
    <3>4. DocOf(mailOf[cur[v]]).of = mailOf[cur[v]]
      BY DEF DocOf, Pipe!MailDoc
    <3>5. \A t \in 1 .. tasks : docs'[t] = docs[t]
      BY <1>1, <3>1, <3>2 DEF Pipe!TaskIds
    <3> QED
      BY <3>1, <3>3, <3>4, <3>5
  <2>4. RetryRuns' = RetryRuns \cup {tasks + 1}
    BY <1>1, <2>1, <2>3 DEF RetryRuns, Grouped
  <2>5. Retried' = Retried \cup {mailOf[cur[v]]}
    BY <2>3, <2>4 DEF Retried, RetryRuns
  <2>6. UNCHANGED <<rows, mailOf, receipts, status, task, pc, cur, batch, runs>> /\ Jobs' = Jobs
    BY <2>1 DEF vars, Jobs
  <2>7. ASSUME NEW j \in Jobs PROVE ThreadOK(j)'
    <3>1. ThreadOK(j) /\ j \in JobIds
      BY ThreadFacts DEF ThreadInv
    <3>2. mailOf[j] = mailOf[cur[v]] => j = cur[v]
      BY <2>2 DEF ThreadInv, OneJobPerReceipt
    <3>3. Handled(j)' <=> Handled(j)
      BY <2>6 DEF Handled
    <3> QED
      BY <2>1, <2>2, <2>5, <2>6, <3>1, <3>2, <3>3 DEF ThreadOK
  <2>8. RetriesOK'
    BY <2>1, <2>2, <2>5, <2>6 DEF RetriesOK, ThreadInv
  <2> QED
    BY <2>6, <2>7, <2>8 DEF ThreadsStep
<1> QED
  BY <1>2, <1>3

\* A run that has ended is counted: a task's is its job's first, and a retry's at
\* least the second of a job whose task has run.
LEMMA ReturnThread ==
    ASSUME ThreadInv,
           \/ \E i \in JobIds : TaskReturns(i)
           \/ \E w \in Workers : RetryReturns(w)
    PROVE  ThreadsStep
<1>1. ASSUME NEW i \in JobIds, TaskReturns(i) PROVE ThreadsStep
  <2>1. /\ task[i] = "ingest" /\ task' \in {[task EXCEPT ![i] = "succeed"], [task EXCEPT ![i] = "fail"]}
        /\ runs' = [runs EXCEPT ![i] = @ + 1]
        /\ UNCHANGED <<database, worker, tasks, docs, taskRun, ungrouped>>
    BY <1>1 DEF TaskReturns, TaskIngest, TaskIngestFails, TaskGoes, pipe, calls
  <2>2. Retried' = Retried
    BY <2>1, RetriedSame
  <2>3. UNCHANGED <<rows, mailOf, receipts, status, pc, cur, batch>> /\ Jobs' = Jobs
    BY <2>1 DEF database, worker, Jobs
  <2>4. i \in Jobs
    BY <2>1 DEF ThreadInv, Basic, RowsOK
  <2>5. mailOf[i] \notin Retried /\ ~Handled(i) /\ ThreadOK(i)
    BY <2>1, <2>4, ThreadFacts DEF ThreadInv, ThreadOK
  <2>6. ASSUME NEW j \in Jobs PROVE ThreadOK(j)'
    <3>1. ThreadOK(j) /\ j \in JobIds /\ runs[j] \in Nat
      BY ThreadFacts DEF ThreadInv
    <3>2. Handled(j)' <=> Handled(j)
      BY <2>3 DEF Handled
    <3>3. ~Handled(j) => \A w \in Workers : cur[w] = j => pc[w] # "succeed"
      BY DEF Handled, Busy, RetryPcs
    <3>4. CASE j = i
      <4>1. task'[j] \in {"succeed", "fail"} /\ runs'[j] = runs[j] + 1
        BY <2>1, <3>1, <3>4, ThreadFacts
      <4> QED
        BY <2>1, <2>2, <2>3, <2>5, <3>1, <3>2, <3>3, <3>4, <4>1 DEF ThreadOK
    <3>5. CASE j # i
      <4>1. task'[j] = task[j] /\ runs'[j] = runs[j]
        BY <2>1, <3>1, <3>5, ThreadFacts
      <4> QED
        BY <2>1, <2>2, <2>3, <3>1, <3>2, <4>1 DEF ThreadOK
    <3> QED
      BY <3>4, <3>5
  <2> QED
    BY <2>1, <2>2, <2>3, <2>6 DEF ThreadsStep, RetriesOK, ThreadInv
<1>2. ASSUME NEW v \in Workers, RetryReturns(v) PROVE ThreadsStep
  <2>1. /\ pc[v] = "ingest" /\ pc' \in {[pc EXCEPT ![v] = "succeed"], [pc EXCEPT ![v] = "fail"]}
        /\ runs' = [runs EXCEPT ![cur[v]] = @ + 1]
        /\ UNCHANGED <<database, task, cur, batch, tasks, docs, taskRun, ungrouped>>
    BY <1>2 DEF RetryReturns, RetryIngest, RetryIngestFails, RetryGoes, pipe
  <2>2. Retried' = Retried
    BY <2>1, RetriedSame
  <2>3. UNCHANGED <<rows, mailOf, receipts, status, task, cur, batch>> /\ Jobs' = Jobs
    BY <2>1 DEF database, Jobs
  <2>4. cur[v] \in Jobs /\ task[cur[v]] = "none" /\ Handled(cur[v])
    BY <2>1, ThreadFacts DEF ThreadInv, Basic, HandlersOK, Handled, Busy, RetryPcs
  <2>5. \A w \in Workers : w # v => pc'[w] = pc[w]
    BY <2>1, ThreadFacts
  <2>6. ASSUME NEW j \in Jobs PROVE ThreadOK(j)'
    <3>1. ThreadOK(j) /\ j \in JobIds /\ runs[j] \in Nat
      BY ThreadFacts DEF ThreadInv
    <3>2. Handled(j)' <=> Handled(j)
      <4>1. pc[v] \in Busy /\ pc'[v] \in Busy
        BY <2>1, ThreadFacts DEF Busy, RetryPcs
      <4> QED
        BY <2>3, <2>5, <4>1 DEF Handled
    <3>3. CASE j = cur[v]
      <4>1. runs'[j] = runs[j] + 1
        BY <2>1, <3>1, <3>3, ThreadFacts
      <4> QED
        BY <2>1, <2>2, <2>3, <2>4, <3>1, <3>2, <3>3, <4>1 DEF ThreadOK
    <3>4. CASE j # cur[v]
      <4>1. runs'[j] = runs[j]
        BY <2>1, <3>1, <3>4, ThreadFacts
      <4>2. \A w \in Workers : cur'[w] = j => pc'[w] = pc[w]
        BY <2>3, <2>5, <3>4
      <4> QED
        BY <2>1, <2>2, <2>3, <3>1, <3>2, <4>1, <4>2 DEF ThreadOK
    <3> QED
      BY <3>3, <3>4
  <2> QED
    BY <2>1, <2>2, <2>3, <2>6 DEF ThreadsStep, RetriesOK, ThreadInv
<1> QED
  BY <1>1, <1>2

\* A step of a run writes vectors without a thread_id only if it is a retry's.
LEMMA RunThread ==
    ASSUME ThreadInv, NEW t \in Pipe!TaskIds, RunGoesOn(t)
    PROVE  ThreadsStep
<1>1. MailRunsOK
  BY DEF ThreadInv, FindInv
<1>2. /\ UNCHANGED <<vars, tasks, docs, taskRun>> /\ t <= tasks
      /\ \E vs \in SUBSET Written(t) : Writes(t, vs)
  BY <1>1, RunEffect
<1>3. Retried' = Retried
  BY <1>2, RetriedSame
<1>4. \A v \in Written(t) : v.doc = docs[t][1]
  BY DEF Written, Pipe!VectorsOf, Pipe!Current, MailRunsOK, ThreadInv, FindInv
<1>5. ~Grouped(t) => docs[t][1].of \in Retried
  BY <1>2 DEF Retried, RetryRuns, Pipe!TaskIds
<1>6. \A v \in ungrouped' : v \in ungrouped \/ (v \in Written(t) /\ ~Grouped(t))
  BY <1>2 DEF Writes
<1>7. UNCHANGED <<rows, mailOf, receipts, status, task, pc, cur, batch, runs>> /\ Jobs' = Jobs
  BY <1>2 DEF vars, Jobs
<1>8. RetriesOK'
  BY <1>3, <1>4, <1>5, <1>6, <1>7 DEF ThreadInv, RetriesOK
<1>9. \A j \in Jobs : ThreadOK(j)'
  BY <1>2, <1>3, <1>7 DEF ThreadInv, ThreadOK, Handled
<1> QED
  BY <1>7, <1>8, <1>9 DEF ThreadsStep

\* A crash ends tasks and handlers, and changes no job.
LEMMA CrashThread ==
    ASSUME ThreadInv, ServerStops \/ \E w \in Workers : CommandStops(w)
    PROVE  ThreadsStep
<1>1. /\ UNCHANGED <<database, cur, runs, taskRun, ungrouped, tasks, docs>>
      /\ \A w \in Workers : (pc'[w] = pc[w] \/ pc'[w] = "idle") /\ batch'[w] \subseteq batch[w]
      /\ \A j \in JobIds : task'[j] = task[j] \/ task'[j] = "none"
  BY ThreadFacts DEF ServerStops, ServerCrash, CommandStops, WorkerCrash, Pipe!Crash,
     Pipe!Stop, Pipe!task, pipe
<1>2. Retried' = Retried
  BY <1>1, RetriedSame
<1>3. UNCHANGED <<rows, mailOf, receipts, status>> /\ Jobs' = Jobs
  BY <1>1 DEF database, Jobs
<1>4. ASSUME NEW j \in Jobs PROVE ThreadOK(j)'
  <2>1. ThreadOK(j) /\ j \in JobIds
    BY ThreadFacts DEF ThreadInv
  <2>2. Handled(j)' => Handled(j)
    BY <1>1 DEF Handled, Busy
  <2>3. \A w \in Workers : pc'[w] = "succeed" => pc[w] = "succeed"
    BY <1>1
  <2> QED
    BY <1>1, <1>2, <1>3, <2>1, <2>2, <2>3 DEF ThreadOK
<1> QED
  BY <1>1, <1>2, <1>3, <1>4 DEF ThreadsStep, RetriesOK, ThreadInv

LEMMA StepThreads == ThreadInv /\ [MailsNext]_mailVars => ThreadInv'
<1> SUFFICES ASSUME ThreadInv, [MailsNext]_mailVars PROVE ThreadInv'
  OBVIOUS
<1>1. Basic' /\ OneJobPerReceipt' /\ FindInv'
  BY MailsStep, StepBasic, StepOneJob, StepFind DEF ThreadInv
<1>2. ThreadsStep
  <2>1. CASE Works
    BY <2>1, DeliveryThread, TaskThread, RetryThread DEF Works, pipe, calls
  <2>2. CASE UNCHANGED mailVars
    <3>1. Retried' = Retried /\ Jobs' = Jobs
      BY <2>2, RetriedSame DEF mailVars, Jobs
    <3> QED
      BY <2>2, <3>1 DEF mailVars, ThreadInv, RetriesOK, ThreadOK, Handled, ThreadsStep
  <2> QED
    BY <2>1, <2>2, CallThread, ReturnThread, RunThread, CrashThread DEF MailsNext
<1> QED
  BY <1>1, <1>2 DEF ThreadInv, ThreadsStep

\* For any retry processes, whatever fails: an e-mail keeps its thread_id while its
\* task is at work, and for good if the task's run was the only one.
THEOREM ThreadsKept == MailsSpec => []ThreadsAreKept
<1>1. MailsInit => ThreadInv
  <2>1. MailsInit => Basic /\ OneJobPerReceipt /\ FindInv
    BY InitBasic, InitFind DEF MailsInit, Init, OneJobPerReceipt, Jobs
  <2>2. MailsInit => Retried = {} /\ Jobs = {} /\ ungrouped = {}
    BY DEF MailsInit, Init, Pipe!Init, Retried, RetryRuns, Jobs
  <2> QED
    BY <2>1, <2>2 DEF ThreadInv, RetriesOK
<1>2. ThreadInv => ThreadsAreKept
  BY DEF ThreadInv, RetriesOK, ThreadOK, ThreadsAreKept
<1> QED
  BY <1>1, <1>2, StepThreads, PTL DEF MailsSpec

-----------------------------------------------------------------------------
LEMMA TaskKeepsOpen ==
    ASSUME Basic, NEW i \in JobIds, TaskStep(i), ~(failures' > failures),
           NEW j \in JobIds, Open(j)', ~Held(j)'
    PROVE  Open(j) /\ ~Held(j)
<1>1. failures \in Nat /\ task \in [JobIds -> TaskPcs] /\ status \in [JobIds -> Statuses]
  BY BoundsAssumption DEF Basic, TypeOK
<1>2. ~TaskDbError(i) /\ ~TaskGivesUp(i)
  BY <1>1 DEF TaskDbError, TaskGivesUp, Strikes
<1>3. UNCHANGED <<pc, cur>>
  BY DEF TaskStep, TaskStart, TaskPersist, TaskPersistFails, TaskIngest, TaskIngestFails,
     TaskSucceed, TaskDbError, TaskFail, TaskGivesUp, worker
<1>4. CASE i = j
  BY <1>1, <1>2, <1>4 DEF TaskStep, TaskStart, TaskPersist, TaskPersistFails, TaskIngest,
     TaskIngestFails, TaskSucceed, TaskFail, TaskGoes, Open, Held
<1>5. CASE i # j
  <2>1. task'[j] = task[j] /\ status'[j] = status[j]
    BY <1>1, <1>5 DEF TaskStep, TaskStart, TaskPersist, TaskPersistFails, TaskIngest,
       TaskIngestFails, TaskSucceed, TaskDbError, TaskFail, TaskGivesUp, TaskGoes, database
  <2> QED
    BY <1>3, <2>1 DEF Open, Held, Handlers
<1> QED
  BY <1>4, <1>5

LEMMA RetryKeepsOpen ==
    ASSUME Basic, NEW w \in Workers, RetryStep(w), ~(failures' > failures),
           NEW j \in JobIds, Open(j)', ~Held(j)'
    PROVE  Open(j) /\ ~Held(j)
<1>1. /\ failures \in Nat /\ status \in [JobIds -> Statuses]
      /\ pc \in [Workers -> RetryPcs] /\ DOMAIN cur = Workers
  BY BoundsAssumption DEF Basic, TypeOK
<1>2. ~RetryDbError(w) /\ ~RetryReadFails(w) /\ ~RetryAborts(w)
  BY <1>1 DEF RetryDbError, RetryReadFails, RetryAborts, Strikes
<1>3. /\ task' = task
      /\ \A v \in Workers : v # w => pc'[v] = pc[v] /\ cur'[v] = cur[v]
  BY <1>1 DEF RetryStep, RetrySelect, RetryRead, RetryFinish, RetryRequeue, RetryStart,
     RetryNoItem, RetryIngest, RetryIngestFails, RetrySucceed, RetryDbError, RetryReadFails, RetryFail,
     RetryAborts, RetryGoes, database
<1>4. ~(cur'[w] = j /\ pc'[w] \in Busy)
  BY DEF Held, Handlers, Busy
<1>5. CASE cur[w] = j /\ pc[w] \in Busy
  BY <1>1, <1>2, <1>4, <1>5 DEF RetryStep, RetrySelect, RetryRead, RetryFinish, RetryRequeue,
     RetryStart, RetryNoItem, RetryIngest, RetryIngestFails, RetrySucceed, RetryFail,
     RetryGoes, Open, Busy, RetryPcs
<1>6. CASE ~(cur[w] = j /\ pc[w] \in Busy)
  <2>1. status'[j] = status[j]
    BY <1>1, <1>6 DEF RetryStep, RetrySelect, RetryRead, RetryFinish, RetryRequeue,
       RetryStart, RetryNoItem, RetryIngest, RetryIngestFails, RetrySucceed, RetryDbError, RetryReadFails,
       RetryFail, RetryAborts, RetryGoes, Busy, RetryPcs, database
  <2>2. \A v \in Workers : cur[v] = j /\ pc[v] \in Busy => cur'[v] = j /\ pc'[v] \in Busy
    BY <1>3, <1>6
  <2>3. ~Held(j)
    BY <1>3, <2>2 DEF Held, Handlers, Busy
  <2> QED
    BY <2>1, <2>3 DEF Open
<1> QED
  BY <1>5, <1>6

\* For any retry processes: only a crash or a database error leaves an open job
\* with nobody at work on it.
THEOREM OpenJobsHeld == Spec => OpenJobIsHeld
<1>1. ASSUME Basic, [Next]_vars, NEW j \in JobIds, Open(j)', ~Held(j)',
             ~(failures' > failures)
      PROVE  Open(j) /\ ~Held(j)
  <2>1. failures \in Nat /\ status \in [JobIds -> Statuses] /\ task \in [JobIds -> TaskPcs]
    BY <1>1, BoundsAssumption DEF Basic, TypeOK
  <2>2. ASSUME NEW m \in Mail, AcceptDelivery(m) \/ IgnoreDelivery(m)
        PROVE  Open(j) /\ ~Held(j)
    BY <1>1, <2>1, <2>2 DEF AcceptDelivery, Record, IgnoreDelivery, vars, worker, Open, Held,
       Handlers
  <2>3. CASE ServerCrash \/ \E w \in Workers : WorkerCrash(w)
    BY <1>1, <2>1, <2>3 DEF ServerCrash, WorkerCrash, Strikes
  <2>4. CASE UNCHANGED vars
    BY <1>1, <2>4 DEF vars, Open, Held, Handlers
  <2> QED
    BY <1>1, <2>2, <2>3, <2>4, TaskKeepsOpen, RetryKeepsOpen DEF Next
<1>2. Basic /\ [Next]_vars =>
        [\A j \in JobIds :
            Open(j)' /\ ~Held(j)' => (Open(j) /\ ~Held(j)) \/ failures' > failures]_vars
  BY <1>1
<1> QED
  BY <1>2, InitBasic, StepBasic, PTL DEF Spec, OpenJobIsHeld
-----------------------------------------------------------------------------
(***************************************************************************)
(* What holds of the store holds of it with the pipeline, and what holds   *)
(* of the pipeline, too: the composition implements both.                  *)
(***************************************************************************)
\* With a single retry process: what the store promises, it promises with the runs
\* of the pipeline, their failures and crashes in place of single steps.
THEOREM MailsKeepPromises ==
    ASSUME OneWorker
    PROVE  MailsSpec => /\ [](OneJobPerReceipt /\ ExclusiveRun /\ RunsWithinBudget)
                        /\ ImplementsLedger
BY OneWorker, MailsAreIngestion, OneJob, Exclusive, RunsBounded, Refinement, PTL

LEMMA FindInvariant == MailsSpec => [](Basic /\ FindInv)
<1>1. MailsInit => Basic /\ FindInv
  BY InitBasic, InitFind DEF MailsInit
<1>2. Basic /\ FindInv /\ [MailsNext]_mailVars => (Basic /\ FindInv)'
  BY MailsStep, StepBasic, StepFind
<1> QED
  BY <1>1, <1>2, PTL DEF MailsSpec

LEMMA MailsPipeStep ==
    ASSUME Basic, FindInv, [MailsNext]_mailVars
    PROVE  [Pipe!Next]_(Pipe!vars)
<1>1. \A j \in JobIds : task[j] = "ingest" => mailOf[j] \in Mail
  BY BoundsAssumption DEF Basic, TypeOK, RowsOK, Jobs, JobIds
<1>2. \A w \in Workers : pc[w] = "ingest" => mailOf[cur[w]] \in Mail
  <2>1. \A w \in Workers : pc[w] = "ingest" => cur[w] \in Jobs
    BY DEF Basic, HandlersOK, Busy, RetryPcs
  <2>2. \A j \in Jobs : mailOf[j] \in Mail
    BY BoundsAssumption DEF Basic, TypeOK, RowsOK, Jobs, JobIds
  <2> QED
    BY <2>1, <2>2
<1>3. \A w \in Workers : retryRun[w] # 0 => retryRun[w] \in Pipe!TaskIds
  BY MailsAssumption DEF FindInv, CallsOK, MailRunsOK, Pipe!TaskIds
<1>4. UNCHANGED pipe => UNCHANGED Pipe!vars
  BY DEF pipe, Pipe!vars
<1>5. ASSUME NEW m \in Mail, NEW process \in {"server", "command"}, Pipe!RunMail(m, process)
      PROVE  Pipe!Next
  BY <1>5 DEF Pipe!Next, Pipe!Homes
<1>6. CASE Works
  BY <1>4, <1>6 DEF Works
<1>7. ASSUME NEW j \in JobIds, TaskCalls(j) \/ TaskReturns(j) PROVE [Pipe!Next]_(Pipe!vars)
  BY <1>1, <1>4, <1>5, <1>7 DEF TaskCalls, TaskReturns
<1>8. ASSUME NEW w \in Workers, RetryCalls(w) \/ RetryReturns(w)
      PROVE  [Pipe!Next]_(Pipe!vars)
  BY <1>2, <1>4, <1>5, <1>8 DEF RetryCalls, RetryReturns
<1>9. ASSUME NEW w \in Workers, CommandStops(w) PROVE [Pipe!Next]_(Pipe!vars)
  BY <1>3, <1>4, <1>9 DEF CommandStops, Pipe!Next
<1>10. ASSUME NEW t \in Pipe!TaskIds, RunGoesOn(t) PROVE [Pipe!Next]_(Pipe!vars)
  BY <1>10 DEF RunGoesOn, Pipe!Next, Pipe!TaskStep
<1>11. CASE ServerStops
  BY <1>11 DEF ServerStops, Pipe!Next
<1>12. CASE UNCHANGED mailVars
  BY <1>4, <1>12 DEF mailVars, pipe
<1> QED
  BY <1>6, <1>7, <1>8, <1>9, <1>10, <1>11, <1>12 DEF MailsNext

\* The runs that tasks and retry processes wait for are runs of Pipeline: whatever is
\* called, given up or stopped around them, ingest_documents does what it does alone.
THEOREM MailsArePipeline == MailsSpec => Pipe!Spec
<1>1. MailsInit => Pipe!Init
  BY DEF MailsInit
<1>2. Basic /\ FindInv /\ [MailsNext]_mailVars => [Pipe!Next]_(Pipe!vars)
  BY MailsPipeStep
<1> QED
  BY <1>1, <1>2, FindInvariant, PTL DEF MailsSpec, Pipe!Spec

\* No row of source_items is deleted.
LEMMA ItemsStay == [Next]_vars => items \subseteq items'
<1> SUFFICES ASSUME [Next]_vars PROVE items \subseteq items'
  OBVIOUS
<1>1. ASSUME NEW j \in JobIds, TaskStep(j) PROVE items \subseteq items'
  BY <1>1 DEF TaskStep, TaskStart, TaskPersist, TaskPersistFails, TaskIngest,
     TaskIngestFails, TaskSucceed, TaskDbError, TaskFail, TaskGivesUp, database
<1>2. ASSUME NEW w \in Workers, RetryStep(w) PROVE items' = items
  BY <1>2 DEF RetryStep, RetrySelect, RetryRead, RetryFinish, RetryRequeue, RetryStart,
     RetryNoItem, RetryIngest, RetryIngestFails, RetrySucceed, RetryDbError, RetryReadFails, RetryFail,
     RetryAborts, database
<1> QED
  BY <1>1, <1>2 DEF Next, AcceptDelivery, Record, IgnoreDelivery, ServerCrash, WorkerCrash,
     database, vars

\* No vector leaves the index.
LEMMA StoreStays == FindInv /\ [MailsNext]_mailVars => store \subseteq store'
<1> SUFFICES ASSUME FindInv, [MailsNext]_mailVars PROVE store \subseteq store'
  OBVIOUS
<1>1. ASSUME NEW t \in Pipe!TaskIds, RunGoesOn(t) PROVE store \subseteq store'
  BY <1>1, RunEffect DEF FindInv
<1>2. ASSUME NEW m, NEW process, Pipe!RunMail(m, process) PROVE store' = store
  BY <1>2 DEF Pipe!RunMail, Pipe!Starts
<1>3. CASE ServerStops \/ \E w \in Workers : CommandStops(w)
  BY <1>3 DEF ServerStops, CommandStops, Pipe!Crash, Pipe!Stop, pipe
<1> QED
  BY <1>1, <1>2, <1>3 DEF MailsNext, Works, TaskCalls, TaskReturns, RetryCalls, RetryReturns,
     pipe, mailVars

\* For any retry processes: an e-mail whose job has once said "succeeded" is found for
\* ever, though a second retry process may run it again and mark the job as failed.
THEOREM SucceededForGood ==
    ASSUME NEW m \in Mail
    PROVE  MailsSpec =>
             []((\E j \in Jobs : mailOf[j] = m /\ status[j] = "succeeded")
                   => [](m \in items /\ Findable(m)))
<1> DEFINE Kept == m \in items /\ Findable(m)
           Said == \E j \in Jobs : mailOf[j] = m /\ status[j] = "succeeded"
<1>1. SucceededIsFindable => (Said => Kept)
  BY DEF SucceededIsFindable
<1>2. FindInv /\ Kept /\ [MailsNext]_mailVars => Kept'
  BY MailsStep, ItemsStay, StoreStays, FindableGrows
<1>3. MailsSpec => []SucceededIsFindable
  BY SucceededFindable
<1> HIDE DEF Kept, Said
<1>4. MailsSpec => [](Said => []Kept)
  BY <1>1, <1>2, <1>3, FindInvariant, PTL DEF MailsSpec
<1> QED
  BY <1>4 DEF Kept, Said

\* The index holds vectors of e-mails only, each made of its one document.
MailVectors ==
    \A v \in store : \E m \in Mail, t \in Pipe!TaskIds : v \in Pipe!VectorsOf(DocOf(m), t)

LEMMA StepVectors == FindInv /\ MailVectors /\ [MailsNext]_mailVars => MailVectors'
<1> SUFFICES ASSUME FindInv, MailVectors, [MailsNext]_mailVars PROVE MailVectors'
  OBVIOUS
<1>1. CASE UNCHANGED store
  BY <1>1 DEF MailVectors, DocOf, Pipe!MailDoc, Pipe!KeptId, Pipe!VectorsOf, Pipe!TaskIds
<1>2. ASSUME NEW t \in Pipe!TaskIds, RunGoesOn(t) PROVE MailVectors'
  <2>1. t <= tasks /\ MailRunsOK
    BY <1>2, RunEffect DEF FindInv
  <2>2. PICK m \in Mail : docs[t] = << DocOf(m) >>
    BY <2>1 DEF MailRunsOK
  <2>3. Written(t) = Pipe!VectorsOf(DocOf(m), t)
    BY <2>1, <2>2 DEF Written, Pipe!Current, MailRunsOK
  <2>4. \A v \in store' : v \in store \/ v \in Pipe!VectorsOf(DocOf(m), t)
    BY <1>2, <2>3 DEF RunGoesOn, Written, Pipe!Embed, Pipe!EmbedFails, Pipe!Upsert,
       Pipe!UpsertFails, Pipe!Publish
  <2> QED
    BY <2>4 DEF MailVectors, DocOf, Pipe!MailDoc, Pipe!KeptId, Pipe!VectorsOf, Pipe!TaskIds
<1>3. ASSUME NEW m, NEW process, Pipe!RunMail(m, process) PROVE store' = store
  BY <1>3 DEF Pipe!RunMail, Pipe!Starts
<1>4. CASE ServerStops \/ \E w \in Workers : CommandStops(w)
  BY <1>1, <1>4 DEF ServerStops, CommandStops, Pipe!Crash, Pipe!Stop, pipe
<1> QED
  BY <1>1, <1>2, <1>3, <1>4 DEF MailsNext, Works, TaskCalls, TaskReturns, RetryCalls,
     RetryReturns, pipe, mailVars

\* For any retry processes: however often an e-mail is run, by its task and by retries at
\* the same time, its vectors are those of one document, and one if it is not cut.
THEOREM MailsKeepOneDocument == MailsSpec => []Pipe!MailsHaveOneDocument
<1>1. MailsInit => MailVectors
  BY DEF MailsInit, Pipe!Init, MailVectors
<1>2. MailVectors => Pipe!MailsHaveOneDocument
  <2> SUFFICES ASSUME MailVectors, NEW v \in store, NEW w \in store,
                      v.doc.of = w.doc.of, v.doc.of \in Mail
               PROVE  v.doc = w.doc /\ (Parts[v.doc.of] = 1 => v = w)
    BY DEF Pipe!MailsHaveOneDocument
  <2>1. PICK m \in Mail, t \in Pipe!TaskIds : v \in Pipe!VectorsOf(DocOf(m), t)
    BY DEF MailVectors
  <2>2. PICK n \in Mail, u \in Pipe!TaskIds : w \in Pipe!VectorsOf(DocOf(n), u)
    BY DEF MailVectors
  <2>3. DocOf(m).of = m /\ DocOf(n).of = n
    BY DEF DocOf, Pipe!MailDoc
  <2>4. v.doc = DocOf(m) /\ w.doc = DocOf(n)
    BY <2>1, <2>2 DEF Pipe!VectorsOf
  <2>5. m = n
    BY <2>3, <2>4
  <2>6. Parts[m] = 1 => v = [doc |-> DocOf(m), run |-> 0, part |-> 1]
    BY <2>1, <2>3 DEF Pipe!VectorsOf
  <2>7. Parts[m] = 1 => w = [doc |-> DocOf(m), run |-> 0, part |-> 1]
    BY <2>2, <2>3, <2>5 DEF Pipe!VectorsOf
  <2> QED
    BY <2>3, <2>4, <2>5, <2>6, <2>7
<1> QED
  BY <1>1, <1>2, StepVectors, FindInvariant, PTL DEF MailsSpec

\* A background task is alone with its job.
TaskIsAlone == \A j \in Jobs : task[j] # "none" => Handlers(j) = {}

\* For any retry processes, which may well race for one job among themselves: none of
\* them handles a job whose background task is at work.
THEOREM TasksAlone == Spec => []TaskIsAlone
<1>1. Basic => TaskIsAlone
  BY DEF Basic, HandlersOK, TaskIsAlone, Handlers, Busy
<1> QED
  BY <1>1, InitBasic, StepBasic, PTL DEF Spec
=============================================================================
