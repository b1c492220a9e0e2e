------------------------------ MODULE Pipeline ------------------------------
(***************************************************************************)
(* From an acknowledged message to its vectors and its timeline event: the *)
(* WhatsApp and calendar webhooks with their background tasks, which keep  *)
(* neither receipts nor jobs (webhooks/whatsapp.py, webhooks/calendar.py), *)
(* runs and reruns of persisted e-mails, the pipeline they all go through  *)
(* (services/ingestion/pipeline.py) and the event bus                      *)
(* (services/realtime/event_bus.py).                                       *)
(*                                                                         *)
(* A task is a list of documents handed to ingest_documents.  Texts are    *)
(* left out but for the number of chunks they make; Chunker says how.      *)
(***************************************************************************)
EXTENDS Integers, Sequences, FiniteSets

CONSTANTS
    Chats,        \* WhatsApp messages, by the provider's id
    Events,       \* calendar events, by the provider's id
    Mails,        \* persisted e-mails (source_items)
    Users,        \* user ids: of phone numbers, workspaces and "default-user"
    DefaultUser,
    MailUser,     \* the workspace of each e-mail
    Payloads,     \* what Meta sends in one call
    Malformed,    \* chats whose normalization raises (a bad timestamp)
    Parts,        \* how many chunks the text of each item makes
    Subscribers,  \* queues handed out by the event bus
    UserOf,       \* the user each of them subscribes to
    Capacity,     \* their maxsize (100)
    Faults,       \* what may go wrong, a subset of FaultKinds
    MaxTasks      \* bound: tasks ever started

Items == Chats \cup Events \cup Mails
FaultKinds == {"embed", "upsert", "crash"}

\* A payload, flattened: its messages in order, each with the number of the
\* change that carried it, and the number of the last change.
Payload == [messages : Seq([chat : Chats, number : Users]), last : Users]

ASSUME ItemsAssumption == /\ Chats \cap Events = {}
                          /\ Mails \cap (Chats \cup Events) = {}
                          /\ Parts \in [Items -> Nat \ {0}]
                          /\ Malformed \subseteq Chats
ASSUME UsersAssumption == /\ DefaultUser \in Users
                          /\ MailUser \in [Mails -> Users]
                          /\ UserOf \in [Subscribers -> Users]
ASSUME PayloadsAssumption == Payloads \subseteq Payload
ASSUME BoundsAssumption == /\ Capacity \in Nat \ {0}
                           /\ MaxTasks \in Nat
                           /\ Faults \subseteq FaultKinds

VARIABLES
    tasks,      \* tasks started so far
    docs,       \* the documents of each task, kept after its end
    home,       \* the process of each task
    pc,         \* where each task is
    next,       \* the document it is at
    store,      \* the vectors in the index
    live,       \* the subscribed queues
    queue       \* their contents

task == <<tasks, docs, home>>
bus == <<live, queue>>
vars == <<tasks, docs, home, pc, next, store, live, queue>>

TaskIds == 1 .. MaxTasks
Tasks == 1 .. tasks
Pcs == {"none", "normalize", "embed", "upsert", "publish", "done", "failed"}
Ended == {"none", "done", "failed"}
Homes == {"server", "command"}

\* A document: the item it comes from, its user, and its id.  Normalizing makes
\* an id of its own for each message of each task; that of an e-mail is kept with
\* its source item.
KeptId == <<0, 0>>
Doc == [of : Items, user : Users, id : (0 .. MaxTasks) \X Nat]

\* The normalizers.  The text and the metadata are left out.
ChatDoc(c, user, t, i) == [of |-> c, user |-> user, id |-> <<t, i>>]
EventDoc(v, user, t) == [of |-> v, user |-> user, id |-> <<t, 1>>]
MailDoc(m, id) == [of |-> m, user |-> MailUser[m], id |-> id]

\* A vector has the id of its document if that was not cut, else a new one for
\* each chunk of each run.
Vector == [doc : Doc, run : 0 .. MaxTasks, part : Nat]

VectorsOf(d, t) ==
    {[doc |-> d, run |-> IF Parts[d.of] = 1 THEN 0 ELSE t, part |-> k] :
        k \in 1 .. Parts[d.of]}

Init ==
    /\ tasks = 0
    /\ docs = [t \in TaskIds |-> << >>]
    /\ home = [t \in TaskIds |-> "server"]
    /\ pc = [t \in TaskIds |-> "none"]
    /\ next = [t \in TaskIds |-> 1]
    /\ store = {}
    /\ live = {}
    /\ queue = [s \in Subscribers |-> << >>]

-----------------------------------------------------------------------------
Starts(ds, process, from) ==
    /\ tasks < MaxTasks
    /\ tasks' = tasks + 1
    /\ docs' = [docs EXCEPT ![tasks + 1] = ds]
    /\ home' = [home EXCEPT ![tasks + 1] = process]
    /\ pc' = [pc EXCEPT ![tasks + 1] = from]
    /\ UNCHANGED <<next, store, bus>>

\* receive_whatsapp_webhook: all messages of the payload, for the user of its
\* last change.  Nothing remembers what was received before.
ReceiveChats(p) ==
    Starts([i \in DOMAIN p.messages |-> ChatDoc(p.messages[i].chat, p.last, tasks + 1, i)],
           "server", "normalize")

\* receive_calendar_webhook
ReceiveEvent(v) ==
    Starts(<< EventDoc(v, DefaultUser, tasks + 1) >>, "server", "normalize")

\* Mutant: a rerun makes a new document.
RunMailAnew(m, process) ==
    Starts(<< MailDoc(m, <<tasks + 1, 1>>) >>, process, "embed")

\* A run or rerun of an e-mail, by the server or by the standalone command.
RunMail(m, process) ==
    Starts(<< MailDoc(m, KeptId) >>, process, "embed")

-----------------------------------------------------------------------------
Current(t) == docs[t][next[t]]

Goes(t, from, to) ==
    /\ pc[t] = from
    /\ pc' = [pc EXCEPT ![t] = to]

\* _process_messages normalizes the whole payload first.
Normalize(t) ==
    /\ docs[t] # << >>
    /\ \A i \in DOMAIN docs[t] : docs[t][i].of \notin Malformed
    /\ Goes(t, "normalize", "embed")
    /\ UNCHANGED <<task, next, store, bus>>

\* There is nothing to process.
NormalizeNothing(t) ==
    /\ docs[t] = << >>
    /\ Goes(t, "normalize", "done")
    /\ UNCHANGED <<task, next, store, bus>>

\* A message is malformed: the task's handler logs what was raised.
NormalizeFails(t) ==
    /\ \E i \in DOMAIN docs[t] : docs[t][i].of \in Malformed
    /\ Goes(t, "normalize", "failed")
    /\ UNCHANGED <<task, next, store, bus>>

\* Types and namespace are valid, and the chunks are embedded.
Embed(t) ==
    /\ Goes(t, "embed", "upsert")
    /\ UNCHANGED <<task, next, store, bus>>

\* Mutant: the loop goes on with the next document.
EmbedFailsAndSkips(t) ==
    /\ "embed" \in Faults
    /\ next[t] < Len(docs[t])
    /\ Goes(t, "embed", "embed")
    /\ next' = [next EXCEPT ![t] = @ + 1]
    /\ UNCHANGED <<task, store, bus>>

\* One of them raises: the rest of the documents is given up.
EmbedFails(t) ==
    /\ "embed" \in Faults
    /\ Goes(t, "embed", "failed")
    /\ UNCHANGED <<task, next, store, bus>>

Upsert(t) ==
    /\ Goes(t, "upsert", "publish")
    /\ store' = store \cup VectorsOf(Current(t), t)
    /\ UNCHANGED <<task, next, bus>>

\* Mutant: the failure is logged, and the event published.
UpsertFailsUnseen(t) ==
    /\ "upsert" \in Faults
    /\ Goes(t, "upsert", "publish")
    /\ UNCHANGED <<task, next, store, bus>>

\* The call raises, whatever part of it the index has applied.
UpsertFails(t) ==
    /\ "upsert" \in Faults
    /\ Goes(t, "upsert", "failed")
    /\ \E applied \in SUBSET VectorsOf(Current(t), t) : store' = store \cup applied
    /\ UNCHANGED <<task, next, bus>>

\* Mutant: put for put_nowait, on queues without a maxsize.
HasRoomAlways(s) == TRUE

HasRoom(s) == Len(queue[s]) < Capacity

\* Mutant: only the first document of a batch is processed.
AdvanceNever(t) == Goes(t, "publish", "done") /\ UNCHANGED next

Advance(t) ==
    IF next[t] < Len(docs[t])
    THEN /\ Goes(t, "publish", "embed")
         /\ next' = [next EXCEPT ![t] = @ + 1]
    ELSE /\ Goes(t, "publish", "done")
         /\ UNCHANGED next

\* event_bus.publish: the queues of the user get the event, the full ones do not.
\* The bus is one process's, so the command's events reach nobody.
Publish(t) ==
    /\ Advance(t)
    /\ queue' = [s \in Subscribers |->
                    IF /\ home[t] = "server" /\ s \in live
                       /\ UserOf[s] = Current(t).user /\ HasRoom(s)
                    THEN Append(queue[s], Current(t)) ELSE queue[s]]
    /\ UNCHANGED <<task, store, live>>

TaskStep(t) ==
    \/ Normalize(t) \/ NormalizeNothing(t) \/ NormalizeFails(t)
    \/ Embed(t) \/ EmbedFails(t)
    \/ Upsert(t) \/ UpsertFails(t)
    \/ Publish(t)

-----------------------------------------------------------------------------
Subscribe(s) ==
    /\ s \notin live
    /\ live' = live \cup {s}
    /\ queue' = [queue EXCEPT ![s] = << >>]
    /\ UNCHANGED <<task, pc, next, store>>

Unsubscribe(s) ==
    /\ s \in live
    /\ live' = live \ {s}
    /\ queue' = [queue EXCEPT ![s] = << >>]
    /\ UNCHANGED <<task, pc, next, store>>

\* The subscriber takes an event.
Take(s) ==
    /\ queue[s] # << >>
    /\ queue' = [queue EXCEPT ![s] = Tail(@)]
    /\ UNCHANGED <<task, pc, next, store, live>>

\* The server stops: its tasks and its queues are gone.
Crash ==
    /\ "crash" \in Faults
    /\ pc' = [t \in TaskIds |->
                 IF home[t] = "server" /\ pc[t] \notin Ended THEN "failed" ELSE pc[t]]
    /\ live' = {}
    /\ queue' = [s \in Subscribers |-> << >>]
    /\ UNCHANGED <<task, next, store>>

\* The command is stopped: its runs are over.
Stop(t) ==
    /\ "crash" \in Faults
    /\ home[t] = "command" /\ pc[t] \notin Ended
    /\ pc' = [pc EXCEPT ![t] = "failed"]
    /\ UNCHANGED <<task, next, store, bus>>

Next ==
    \/ \E p \in Payloads : ReceiveChats(p)
    \/ \E v \in Events : ReceiveEvent(v)
    \/ \E m \in Mails, process \in Homes : RunMail(m, process)
    \/ \E t \in TaskIds : TaskStep(t) \/ Stop(t)
    \/ \E s \in Subscribers : Subscribe(s) \/ Unsubscribe(s) \/ Take(s)
    \/ Crash

Spec == Init /\ [][Next]_vars

\* The event loop runs every task that was added.
FairSpec == Spec /\ \A t \in TaskIds : WF_vars(TaskStep(t))

-----------------------------------------------------------------------------
\* Every variable has its type, and no queue exceeds its capacity.
TypeOK ==
    /\ tasks \in 0 .. MaxTasks
    /\ docs \in [TaskIds -> Seq(Doc)]
    /\ home \in [TaskIds -> Homes]
    /\ pc \in [TaskIds -> Pcs]
    /\ next \in [TaskIds -> Nat \ {0}]
    /\ store \subseteq Vector
    /\ live \subseteq Subscribers
    /\ queue \in [Subscribers -> Seq(Doc)]
    /\ \A s \in Subscribers : Len(queue[s]) <= Capacity

\* All the vectors that one run makes of document d are in the index.
Findable(d) == \E t \in 0 .. MaxTasks : VectorsOf(d, t) \subseteq store

\* Who reads an event from the bus finds the whole document in the namespace of
\* the user he subscribed to, whatever failed or was rerun before.
EventsAreFindable ==
    \A s \in Subscribers : \A i \in DOMAIN queue[s] :
        queue[s][i].user = UserOf[s] /\ Findable(queue[s][i])

\* A later message of a payload is in the index, if only in part, only when all
\* the earlier ones are there in full: failures and crashes cut off the end of a
\* conversation and never its middle.
NoGapsInBatches ==
    \A t \in Tasks : \A i, j \in DOMAIN docs[t] :
        i < j /\ (\E v \in store : v.doc = docs[t][j]) => Findable(docs[t][i])

\* However often an e-mail is run, by whichever process, its vectors are those
\* of one document, and a single one when its text is not cut.
MailsHaveOneDocument ==
    \A v, w \in store :
        v.doc.of = w.doc.of /\ v.doc.of \in Mails =>
            v.doc = w.doc /\ (Parts[v.doc.of] = 1 => v = w)

\* Every task that was added ends, and unless it failed, with each of its documents
\* in the index.
AcknowledgedIsFindable ==
    \A t \in TaskIds :
        t \in Tasks ~>
            \/ pc[t] = "failed"
            \/ pc[t] = "done" /\ \A i \in DOMAIN docs[t] : Findable(docs[t][i])

\* The vectors of a message are in the namespace of the number it was sent to.
MessagesStayWithTheirNumber ==
    \A v \in store : v.doc.of \in Chats =>
        \E p \in Payloads : \E i \in DOMAIN p.messages :
            p.messages[i] = [chat |-> v.doc.of, number |-> v.doc.user]
=============================================================================
