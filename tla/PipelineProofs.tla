--------------------------- MODULE PipelineProofs ---------------------------
(***************************************************************************)
(* What Pipeline keeps for any set of messages, payloads, subscribers and  *)
(* tasks, with any faults.                                                 *)
(***************************************************************************)
EXTENDS Pipeline, TLAPS

\* A task that has not started has no documents; one at work is at one of its
\* documents, and one that normalizes is at the first.
CursorOK ==
    \A t \in TaskIds :
        /\ t \notin Tasks => pc[t] = "none" /\ docs[t] = << >> /\ next[t] = 1
        /\ pc[t] = "normalize" => next[t] = 1
        /\ pc[t] \in {"embed", "upsert", "publish"} => next[t] \in 1 .. Len(docs[t])

\* A document has the id of its place, but for the one of an e-mail.
IdsOK ==
    \A t \in TaskIds : \A i \in DOMAIN docs[t] :
        \/ /\ docs[t][i].of \notin Mails
           /\ docs[t][i].id = <<t, i>>
        \/ /\ docs[t][i].of \in Mails
           /\ docs[t][i].id = KeptId
           /\ docs[t][i].user = MailUser[docs[t][i].of]
           /\ Len(docs[t]) = 1

\* Vectors are those of some run of a document that a task has come to.
StoreOK ==
    \A v \in store :
        /\ \E t \in TaskIds : v \in VectorsOf(v.doc, t)
        /\ \E t \in Tasks : \E i \in DOMAIN docs[t] : i <= next[t] /\ v.doc = docs[t][i]

\* What a task is about to publish, or has left behind, is in the index.
DoneOK ==
    \A t \in TaskIds :
        /\ pc[t] = "publish" => VectorsOf(Current(t), t) \subseteq store
        /\ \A i \in DOMAIN docs[t] : i < next[t] => Findable(docs[t][i])

Inv == TypeOK /\ CursorOK /\ IdsOK /\ StoreOK /\ DoneOK /\ EventsAreFindable

-----------------------------------------------------------------------------
\* The vectors of a run have their type.
LEMMA VectorsType ==
    ASSUME NEW d \in Doc, NEW t \in TaskIds
    PROVE  VectorsOf(d, t) \subseteq Vector
BY ItemsAssumption, BoundsAssumption DEF VectorsOf, Vector, Doc, TaskIds

\* What is in the index stays there.
LEMMA FindableStays ==
    ASSUME NEW d, Findable(d), store \subseteq store'
    PROVE  Findable(d)'
BY DEF Findable

\* A started task, and what it changes of the invariant.
LEMMA StartsKeeps ==
    ASSUME Inv,
           NEW ds \in Seq(Doc), NEW process \in Homes, NEW from \in {"normalize", "embed"},
           Starts(ds, process, from),
           from = "embed" => Len(ds) = 1,
           \A i \in DOMAIN ds :
               \/ ds[i].of \notin Mails /\ ds[i].id = <<tasks + 1, i>>
               \/ /\ ds[i].of \in Mails /\ ds[i].id = KeptId
                  /\ ds[i].user = MailUser[ds[i].of] /\ Len(ds) = 1
    PROVE  Inv'
<1> DEFINE t0 == tasks + 1
<1>1. /\ t0 \in TaskIds /\ t0 \notin Tasks /\ Tasks' = Tasks \cup {t0} /\ tasks' = t0
      /\ docs' = [docs EXCEPT ![t0] = ds] /\ pc' = [pc EXCEPT ![t0] = from]
      /\ home' = [home EXCEPT ![t0] = process]
      /\ UNCHANGED <<next, store, live, queue>>
    BY BoundsAssumption DEF Starts, Inv, TypeOK, TaskIds, Tasks, bus
<1>2. docs[t0] = << >> /\ next[t0] = 1 /\ pc[t0] = "none"
    BY <1>1 DEF Inv, CursorOK
<1>3. \A t \in TaskIds : t # t0 => docs'[t] = docs[t] /\ pc'[t] = pc[t]
    BY <1>1 DEF Inv, TypeOK
<1>4. docs'[t0] = ds /\ pc'[t0] = from
    BY <1>1 DEF Inv, TypeOK
<1>5. TypeOK'
    BY <1>1 DEF Inv, TypeOK, Pcs, TaskIds
<1>6. CursorOK'
    BY <1>1, <1>2, <1>3, <1>4 DEF Inv, CursorOK
<1>7. IdsOK'
    BY <1>1, <1>3, <1>4 DEF Inv, IdsOK
<1>8. StoreOK'
  <2> SUFFICES ASSUME NEW v \in store
               PROVE  /\ \E t \in TaskIds : v \in VectorsOf(v.doc, t)
                      /\ \E t \in Tasks' : \E i \in DOMAIN docs'[t] :
                             i <= next[t] /\ v.doc = docs'[t][i]
      BY <1>1 DEF StoreOK, VectorsOf
  <2>1. PICK t \in Tasks : \E i \in DOMAIN docs[t] : i <= next[t] /\ v.doc = docs[t][i]
      BY DEF Inv, StoreOK
  <2>2. t \in TaskIds /\ t # t0
      BY <1>1, BoundsAssumption DEF Tasks, TaskIds, Inv, TypeOK
  <2> QED BY <1>1, <1>3, <2>1, <2>2 DEF Inv, StoreOK
<1>9. DoneOK'
  <2> SUFFICES ASSUME NEW t \in TaskIds
               PROVE  /\ pc'[t] = "publish" => VectorsOf(docs'[t][next[t]], t) \subseteq store
                      /\ \A i \in DOMAIN docs'[t] : i < next[t] => Findable(docs'[t][i])
      BY <1>1 DEF DoneOK, Current, Findable, VectorsOf
  <2>1. CASE t = t0
      BY <2>1, <1>2, <1>4
  <2>2. CASE t # t0
      BY <2>2, <1>3 DEF Inv, DoneOK, Current
  <2> QED BY <2>1, <2>2
<1>10. EventsAreFindable'
    BY <1>1 DEF Inv, EventsAreFindable, Findable, VectorsOf
<1> QED BY <1>5, <1>6, <1>7, <1>8, <1>9, <1>10 DEF Inv

-----------------------------------------------------------------------------
\* What a step of a task does to the invariant when documents and vectors stay
\* or, for vectors, grow by some of its current document's.
LEMMA TaskKeeps ==
    ASSUME Inv, NEW t0 \in TaskIds,
           NEW from \in {"normalize", "embed", "upsert"}, NEW to \in Pcs,
           Goes(t0, from, to),
           UNCHANGED <<task, next, live, queue>>,
           store \subseteq store',
           from = "normalize" =>
               /\ store' = store
               /\ to \in {"embed", "done", "failed"}
               /\ to = "embed" => docs[t0] # << >>,
           from # "normalize" =>
               /\ store' \subseteq store \cup VectorsOf(Current(t0), t0)
               /\ to \in {"upsert", "publish", "failed"},
           to = "publish" => VectorsOf(Current(t0), t0) \subseteq store'
    PROVE  Inv'
<1>1. /\ pc' = [pc EXCEPT ![t0] = to] /\ pc[t0] = from
      /\ UNCHANGED <<tasks, docs, home, next, live, queue>>
    BY DEF Goes, task
<1>2. t0 \in Tasks
    BY <1>1 DEF Inv, CursorOK
<1>3. from # "normalize" => next[t0] \in DOMAIN docs[t0] /\ Current(t0) = docs[t0][next[t0]]
                            /\ Current(t0) \in Doc
  <2> SUFFICES ASSUME from # "normalize"
               PROVE  /\ next[t0] \in DOMAIN docs[t0]
                      /\ docs[t0][next[t0]] \in Doc
      BY DEF Current
  <2>1. docs[t0] \in Seq(Doc) /\ next[t0] \in 1 .. Len(docs[t0])
      BY <1>1 DEF Inv, TypeOK, CursorOK
  <2> QED BY <2>1
<1>4. TypeOK'
  <2>1. store' \subseteq Vector
      BY <1>3, VectorsType DEF Inv, TypeOK
  <2> QED BY <1>1, <2>1 DEF Inv, TypeOK, Tasks
<1>5. CursorOK'
  <2> SUFFICES ASSUME NEW t \in TaskIds
               PROVE  /\ t \notin Tasks => pc'[t] = "none" /\ docs[t] = << >> /\ next[t] = 1
                      /\ pc'[t] = "normalize" => next[t] = 1
                      /\ pc'[t] \in {"embed", "upsert", "publish"} => next[t] \in 1 .. Len(docs[t])
      BY <1>1 DEF CursorOK, Tasks
  <2>1. CASE t # t0
      BY <2>1, <1>1 DEF Inv, TypeOK, CursorOK
  <2>2. CASE t = t0 /\ from = "normalize"
    <3>1. docs[t] \in Seq(Doc) /\ next[t] = 1 /\ pc'[t] = to
        BY <1>1, <2>2 DEF Inv, TypeOK, CursorOK
    <3>2. docs[t] # << >> => 1 \in 1 .. Len(docs[t])
        BY <3>1
    <3> QED BY <3>1, <3>2, <2>2, <1>2
  <2>3. CASE t = t0 /\ from # "normalize"
      BY <2>3, <1>1, <1>2 DEF Inv, TypeOK, CursorOK
  <2> QED BY <2>1, <2>2, <2>3
<1>6. IdsOK'
    BY <1>1 DEF Inv, IdsOK
<1>7. StoreOK'
  <2> SUFFICES ASSUME NEW v \in store'
               PROVE  /\ \E t \in TaskIds : v \in VectorsOf(v.doc, t)
                      /\ \E t \in Tasks : \E i \in DOMAIN docs[t] :
                             i <= next[t] /\ v.doc = docs[t][i]
      BY <1>1 DEF StoreOK, VectorsOf, Tasks
  <2>1. CASE v \in store
      BY <2>1 DEF Inv, StoreOK
  <2>2. CASE v \notin store
    <3>1. from # "normalize" /\ v \in VectorsOf(Current(t0), t0)
        BY <2>2
    <3>2. v.doc = Current(t0)
        BY <3>1 DEF VectorsOf
    <3>3. next[t0] \in Nat
        BY DEF Inv, TypeOK
    <3> QED BY <1>2, <1>3, <3>1, <3>2, <3>3
  <2> QED BY <2>1, <2>2
<1>8. DoneOK'
  <2> SUFFICES ASSUME NEW t \in TaskIds
               PROVE  /\ pc'[t] = "publish" => VectorsOf(Current(t), t) \subseteq store'
                      /\ \A i \in DOMAIN docs[t] : i < next[t] => Findable(docs[t][i])'
      BY <1>1 DEF DoneOK, Current, Findable, VectorsOf
  <2>1. pc'[t] = "publish" => VectorsOf(Current(t), t) \subseteq store'
    <3>1. CASE t = t0
        BY <3>1, <1>1 DEF Inv, TypeOK
    <3>2. CASE t # t0
        BY <3>2, <1>1 DEF Inv, TypeOK, DoneOK
    <3> QED BY <3>1, <3>2
  <2>2. ASSUME NEW i \in DOMAIN docs[t], i < next[t]
        PROVE  Findable(docs[t][i])'
    <3>1. Findable(docs[t][i])
        BY <2>2 DEF Inv, DoneOK
    <3> QED BY <3>1, <1>1 DEF Findable, VectorsOf
  <2> QED BY <2>1, <2>2
<1>9. EventsAreFindable'
    BY <1>1 DEF Inv, EventsAreFindable, Findable, VectorsOf
<1> QED BY <1>4, <1>5, <1>6, <1>7, <1>8, <1>9 DEF Inv

\* A published event, and the document that follows it.
LEMMA PublishKeeps ==
    ASSUME Inv, NEW t0 \in TaskIds, Publish(t0)
    PROVE  Inv'
<1> DEFINE d == Current(t0)
<1>1. /\ pc[t0] = "publish" /\ UNCHANGED <<tasks, docs, home, store, live>>
      /\ docs[t0] \in Seq(Doc) /\ next[t0] \in 1 .. Len(docs[t0]) /\ d \in Doc
    BY DEF Publish, Advance, Goes, task, Inv, TypeOK, CursorOK, Current
<1>2. Findable(d)
  <2>1. VectorsOf(d, t0) \subseteq store /\ t0 \in 0 .. MaxTasks
      BY <1>1 DEF Inv, DoneOK, TaskIds
  <2> QED BY <2>1 DEF Findable
<1>3. t0 \in Tasks
    BY <1>1 DEF Inv, CursorOK
<1>4. \/ /\ pc' = [pc EXCEPT ![t0] = "embed"]
         /\ next' = [next EXCEPT ![t0] = next[t0] + 1]
         /\ next[t0] + 1 \in 1 .. Len(docs[t0])
      \/ /\ pc' = [pc EXCEPT ![t0] = "done"] /\ next' = next
    BY <1>1 DEF Publish, Advance, Goes
<1>5. \A t \in TaskIds : t # t0 => pc'[t] = pc[t] /\ next'[t] = next[t]
    BY <1>4 DEF Inv, TypeOK
<1>6. next'[t0] \in {next[t0], next[t0] + 1} /\ next[t0] \in Nat \ {0}
    BY <1>4 DEF Inv, TypeOK
<1>7. \A s \in Subscribers :
          \/ queue'[s] = queue[s]
          \/ /\ queue'[s] = Append(queue[s], d)
             /\ UserOf[s] = d.user /\ HasRoom(s)
    BY DEF Publish
<1>8. TypeOK'
  <2>1. pc' \in [TaskIds -> Pcs] /\ next' \in [TaskIds -> Nat \ {0}]
    <3>1. pc \in [TaskIds -> Pcs] /\ next \in [TaskIds -> Nat \ {0}]
        BY DEF Inv, TypeOK
    <3>2. next[t0] + 1 \in Nat \ {0} /\ {"embed", "done"} \subseteq Pcs
        BY <1>6 DEF Pcs
    <3> QED BY <3>1, <3>2, <1>4
  <2>2. ASSUME NEW s \in Subscribers
        PROVE  queue'[s] \in Seq(Doc) /\ Len(queue'[s]) <= Capacity
    <3>1. queue[s] \in Seq(Doc) /\ Len(queue[s]) <= Capacity
        BY DEF Inv, TypeOK
    <3>2. CASE queue'[s] = queue[s]
        BY <3>1, <3>2
    <3>3. CASE queue'[s] = Append(queue[s], d) /\ Len(queue[s]) < Capacity
      <4>1. Append(queue[s], d) \in Seq(Doc) /\ Len(Append(queue[s], d)) = Len(queue[s]) + 1
          BY <3>1, <1>1
      <4> QED BY <4>1, <3>1, <3>3, BoundsAssumption
    <3> QED BY <3>2, <3>3, <1>7 DEF HasRoom
  <2>3. queue' \in [Subscribers -> Seq(Doc)]
      BY <2>2 DEF Publish
  <2> QED BY <1>1, <2>1, <2>2, <2>3 DEF Inv, TypeOK
<1>9. CursorOK'
  <2> SUFFICES ASSUME NEW t \in TaskIds
               PROVE  /\ t \notin Tasks => pc'[t] = "none" /\ docs[t] = << >> /\ next'[t] = 1
                      /\ pc'[t] = "normalize" => next'[t] = 1
                      /\ pc'[t] \in {"embed", "upsert", "publish"} => next'[t] \in 1 .. Len(docs[t])
      BY <1>1 DEF CursorOK, Tasks
  <2>1. CASE t # t0
      BY <2>1, <1>5 DEF Inv, CursorOK
  <2>2. CASE t = t0
      BY <2>2, <1>3, <1>4 DEF Inv, TypeOK
  <2> QED BY <2>1, <2>2
<1>10. IdsOK'
    BY <1>1 DEF Inv, IdsOK
<1>11. StoreOK'
  <2> SUFFICES ASSUME NEW v \in store
               PROVE  /\ \E t \in TaskIds : v \in VectorsOf(v.doc, t)
                      /\ \E t \in Tasks : \E i \in DOMAIN docs[t] :
                             i <= next'[t] /\ v.doc = docs[t][i]
      BY <1>1 DEF StoreOK, VectorsOf, Tasks
  <2>0. PICK t \in Tasks : \E i \in DOMAIN docs[t] : i <= next[t] /\ v.doc = docs[t][i]
      BY DEF Inv, StoreOK
  <2>1. PICK i \in DOMAIN docs[t] : i <= next[t] /\ v.doc = docs[t][i]
      BY <2>0
  <2>2. t \in TaskIds
      BY BoundsAssumption DEF Tasks, TaskIds, Inv, TypeOK
  <2>3. i \in Nat /\ next[t] \in Nat
      BY <2>1, <2>2 DEF Inv, TypeOK
  <2>4. i <= next'[t]
      BY <2>1, <2>2, <2>3, <1>5, <1>6
  <2> QED BY <2>1, <2>4 DEF Inv, StoreOK
<1>12. DoneOK'
  <2> SUFFICES ASSUME NEW t \in TaskIds
               PROVE  /\ pc'[t] = "publish" => VectorsOf(docs[t][next'[t]], t) \subseteq store
                      /\ \A i \in DOMAIN docs[t] : i < next'[t] => Findable(docs[t][i])
      BY <1>1 DEF DoneOK, Current, Findable, VectorsOf
  <2>1. CASE t # t0
      BY <2>1, <1>5 DEF Inv, DoneOK, Current
  <2>2. CASE t = t0
    <3>1. pc'[t] # "publish"
        BY <2>2, <1>4 DEF Inv, TypeOK
    <3>2. ASSUME NEW i \in DOMAIN docs[t], i < next'[t]
          PROVE  Findable(docs[t][i])
      <4>1. i \in Nat
          BY <1>1, <2>2
      <4>2. CASE i < next[t]
          BY <4>2 DEF Inv, DoneOK
      <4>3. CASE i = next[t]
          BY <4>3, <1>2, <2>2 DEF Current
      <4> QED BY <3>2, <4>1, <4>2, <4>3, <1>6, <2>2
    <3> QED BY <3>1, <3>2
  <2> QED BY <2>1, <2>2
<1>13. EventsAreFindable'
  <2> SUFFICES ASSUME NEW s \in Subscribers, NEW i \in DOMAIN queue'[s]
               PROVE  queue'[s][i].user = UserOf[s] /\ Findable(queue'[s][i])
      BY <1>1 DEF EventsAreFindable, Findable, VectorsOf
  <2>1. CASE queue'[s] = queue[s]
      BY <2>1 DEF Inv, EventsAreFindable
  <2>2. CASE queue'[s] = Append(queue[s], d) /\ UserOf[s] = d.user
    <3>1. queue[s] \in Seq(Doc)
        BY DEF Inv, TypeOK
    <3>2. \/ i \in DOMAIN queue[s] /\ queue'[s][i] = queue[s][i]
          \/ queue'[s][i] = d
        BY <3>1, <2>2
    <3> QED BY <3>2, <2>2, <1>2 DEF Inv, EventsAreFindable
  <2> QED BY <2>1, <2>2, <1>7
<1> QED BY <1>8, <1>9, <1>10, <1>11, <1>12, <1>13 DEF Inv

-----------------------------------------------------------------------------
\* Init establishes the invariant.
LEMMA InvInit == Init => Inv
<1> SUFFICES ASSUME Init PROVE Inv
    OBVIOUS
<1>1. TypeOK
    BY BoundsAssumption DEF Init, TypeOK, TaskIds, Pcs, Homes
<1>2. CursorOK /\ IdsOK /\ StoreOK /\ DoneOK
    BY DEF Init, CursorOK, IdsOK, StoreOK, DoneOK, Findable, Current, Tasks
<1>3. EventsAreFindable
    BY DEF Init, EventsAreFindable
<1> QED BY <1>1, <1>2, <1>3 DEF Inv

\* The steps that start a task keep the invariant.
LEMMA ReceiveKeeps ==
    ASSUME Inv,
           \/ \E p \in Payloads : ReceiveChats(p)
           \/ \E v \in Events : ReceiveEvent(v)
           \/ \E m \in Mails, process \in Homes : RunMail(m, process)
    PROVE  Inv'
<1>1. tasks \in Nat /\ tasks < MaxTasks
  <2>1. tasks \in 0 .. MaxTasks
      BY DEF Inv, TypeOK
  <2>2. tasks < MaxTasks
      BY ZenonT(30) DEF ReceiveChats, ReceiveEvent, RunMail, Starts
  <2> QED BY <2>1, <2>2, BoundsAssumption
<1>2. <<tasks + 1, 1>> \in (0 .. MaxTasks) \X Nat /\ KeptId \in (0 .. MaxTasks) \X Nat
    BY <1>1, BoundsAssumption DEF KeptId
<1>3. ASSUME NEW p \in Payloads, ReceiveChats(p) PROVE Inv'
  <2> DEFINE ds == [i \in DOMAIN p.messages |->
                       ChatDoc(p.messages[i].chat, p.last, tasks + 1, i)]
  <2>1. p.messages \in Seq([chat : Chats, number : Users]) /\ p.last \in Users
      BY PayloadsAssumption DEF Payload
  <2>2. DOMAIN p.messages = 1 .. Len(p.messages) /\ Len(p.messages) \in Nat
      BY <2>1
  <2>3. \A i \in DOMAIN p.messages : p.messages[i].chat \in Chats
    <3> DEFINE Message == [chat : Chats, number : Users]
    <3>1. \A m \in Message : m.chat \in Chats
        OBVIOUS
    <3>2. p.messages \in Seq(Message)
        BY <2>1
    <3> HIDE DEF Message
    <3>3. \A i \in DOMAIN p.messages : p.messages[i] \in Message
        BY <2>2, <3>2
    <3> QED BY <3>1, <3>3
  <2>4. \A i \in DOMAIN ds : ds[i] \in Doc
      BY <2>1, <2>2, <2>3, <1>1, BoundsAssumption DEF Doc, Items, ChatDoc
  <2>5. ds \in Seq(Doc)
    <3>1. ds \in [1 .. Len(p.messages) -> Doc]
        BY <2>2, <2>4
    <3> HIDE DEF ds
    <3> QED BY <2>2, <3>1
  <2>6. Starts(ds, "server", "normalize")
      BY <1>3 DEF ReceiveChats
  <2>7. \A i \in DOMAIN ds : ds[i].of \notin Mails /\ ds[i].id = <<tasks + 1, i>>
      BY <2>3, ItemsAssumption DEF ChatDoc
  <2> HIDE DEF ds
  <2> QED BY <2>5, <2>6, <2>7, StartsKeeps DEF Homes
<1>4. ASSUME NEW v \in Events, ReceiveEvent(v) PROVE Inv'
  <2> DEFINE d == EventDoc(v, DefaultUser, tasks + 1)
  <2>1. d \in Doc
      BY <1>2, UsersAssumption DEF Doc, Items, EventDoc
  <2>2. d.of \notin Mails /\ d.id = <<tasks + 1, 1>>
      BY ItemsAssumption DEF EventDoc
  <2>3. Starts(<<d>>, "server", "normalize")
      BY <1>4 DEF ReceiveEvent
  <2> HIDE DEF d
  <2>4. <<d>> \in Seq(Doc) /\ Len(<<d>>) = 1 /\ DOMAIN <<d>> = {1}
      BY <2>1
  <2>5. \A i \in DOMAIN <<d>> : <<d>>[i].of \notin Mails /\ <<d>>[i].id = <<tasks + 1, i>>
      BY <2>2, <2>4
  <2> QED BY <2>3, <2>4, <2>5, StartsKeeps DEF Homes
<1>5. ASSUME NEW m \in Mails, NEW process \in Homes, RunMail(m, process) PROVE Inv'
  <2> DEFINE d == MailDoc(m, KeptId)
  <2>1. d \in Doc
      BY <1>2, UsersAssumption DEF Doc, Items, MailDoc
  <2>2. d.of \in Mails /\ d.id = KeptId /\ d.user = MailUser[d.of]
      BY DEF MailDoc
  <2>3. Starts(<<d>>, process, "embed")
      BY <1>5 DEF RunMail
  <2> HIDE DEF d
  <2>4. <<d>> \in Seq(Doc) /\ Len(<<d>>) = 1 /\ DOMAIN <<d>> = {1}
      BY <2>1
  <2>5. \A i \in DOMAIN <<d>> : /\ <<d>>[i].of \in Mails /\ <<d>>[i].id = KeptId
                                /\ <<d>>[i].user = MailUser[<<d>>[i].of] /\ Len(<<d>>) = 1
      BY <2>2, <2>4
  <2> QED BY <2>3, <2>4, <2>5, StartsKeeps
<1> QED BY <1>3, <1>4, <1>5

\* The steps of a task keep the invariant.
LEMMA TaskStepKeeps ==
    ASSUME Inv, NEW t \in TaskIds, TaskStep(t)
    PROVE  Inv'
<1> USE DEF bus, task, Pcs
<1>1. CASE Normalize(t)
    BY <1>1, TaskKeeps DEF Normalize
<1>2. CASE NormalizeNothing(t) \/ NormalizeFails(t)
  <2>1. PICK to \in {"done", "failed"} : Goes(t, "normalize", to)
      BY <1>2 DEF NormalizeNothing, NormalizeFails
  <2>2. UNCHANGED <<task, next, store, live, queue>>
      BY <1>2 DEF NormalizeNothing, NormalizeFails
  <2> QED BY <2>1, <2>2, TaskKeeps
<1>3. CASE Embed(t)
    BY <1>3, TaskKeeps DEF Embed
<1>4. CASE EmbedFails(t)
    BY <1>4, TaskKeeps DEF EmbedFails
<1>5. CASE Upsert(t)
    BY <1>5, TaskKeeps DEF Upsert
<1>6. CASE UpsertFails(t)
  <2>1. /\ Goes(t, "upsert", "failed") /\ UNCHANGED <<task, next, live, queue>>
        /\ \E applied \in SUBSET VectorsOf(Current(t), t) : store' = store \cup applied
      BY <1>6 DEF UpsertFails
  <2>2. store \subseteq store' /\ store' \subseteq store \cup VectorsOf(Current(t), t)
      BY <2>1
  <2> QED BY <2>1, <2>2, TaskKeeps
<1>7. CASE Publish(t)
    BY <1>7, PublishKeeps
<1> QED BY <1>1, <1>2, <1>3, <1>4, <1>5, <1>6, <1>7 DEF TaskStep

\* Subscribers, a crash and the end of a command leave documents and vectors alone
\* and put nothing in a queue.
LEMMA RestKeeps ==
    ASSUME Inv,
           UNCHANGED <<task, next, store>>,
           live' \subseteq Subscribers,
           pc' \in [TaskIds -> Pcs],
           \A t \in TaskIds : pc'[t] = pc[t] \/ (pc'[t] = "failed" /\ pc[t] \notin Ended),
           queue' \in [Subscribers -> Seq(Doc)],
           \A s \in Subscribers :
               \/ queue'[s] = queue[s]
               \/ queue'[s] = << >>
               \/ queue[s] # << >> /\ queue'[s] = Tail(queue[s])
    PROVE  Inv'
<1>1. UNCHANGED <<tasks, docs, home, next, store>>
    BY DEF task
<1>2. \A t \in TaskIds : pc'[t] = pc[t] \/ (pc'[t] = "failed" /\ t \in Tasks)
    BY DEF Inv, CursorOK, Ended
<1>3. ASSUME NEW s \in Subscribers
      PROVE  /\ Len(queue'[s]) <= Capacity
             /\ \A i \in DOMAIN queue'[s] : \E k \in DOMAIN queue[s] : queue'[s][i] = queue[s][k]
  <2>1. queue[s] \in Seq(Doc) /\ Len(queue[s]) <= Capacity
      BY DEF Inv, TypeOK
  <2>2. CASE queue'[s] = queue[s]
      BY <2>1, <2>2
  <2>3. CASE queue'[s] = << >>
      BY <2>3, BoundsAssumption
  <2>4. CASE queue[s] # << >> /\ queue'[s] = Tail(queue[s])
    <3>1. /\ Len(queue'[s]) = Len(queue[s]) - 1 /\ Len(queue[s]) \in Nat
          /\ \A i \in 1 .. Len(queue'[s]) : queue'[s][i] = queue[s][i + 1]
          /\ DOMAIN queue'[s] = 1 .. Len(queue'[s]) /\ DOMAIN queue[s] = 1 .. Len(queue[s])
        BY <2>1, <2>4
    <3>2. \A i \in 1 .. Len(queue'[s]) : i + 1 \in 1 .. Len(queue[s])
        BY <3>1
    <3>3. Len(queue'[s]) <= Capacity
        BY <2>1, <3>1, BoundsAssumption
    <3> QED BY <3>1, <3>2, <3>3
  <2> QED BY <2>2, <2>3, <2>4
<1>4. TypeOK'
    BY <1>1, <1>3 DEF Inv, TypeOK
<1>5. CursorOK' /\ IdsOK' /\ StoreOK'
    BY <1>1, <1>2 DEF Inv, CursorOK, IdsOK, StoreOK, VectorsOf, Tasks
<1>6. DoneOK'
    BY <1>1, <1>2 DEF Inv, DoneOK, Current, Findable, VectorsOf
<1>7. EventsAreFindable'
  <2> SUFFICES ASSUME NEW s \in Subscribers, NEW i \in DOMAIN queue'[s]
               PROVE  queue'[s][i].user = UserOf[s] /\ Findable(queue'[s][i])
      BY <1>1 DEF EventsAreFindable, Findable, VectorsOf
  <2>1. PICK k \in DOMAIN queue[s] : queue'[s][i] = queue[s][k]
      BY <1>3
  <2> QED BY <2>1 DEF Inv, EventsAreFindable
<1> QED BY <1>4, <1>5, <1>6, <1>7 DEF Inv

\* Every step keeps the invariant.
LEMMA InvNext == Inv /\ [Next]_vars => Inv'
<1> SUFFICES ASSUME Inv, [Next]_vars PROVE Inv'
    OBVIOUS
<1>1. live \subseteq Subscribers /\ queue \in [Subscribers -> Seq(Doc)]
    BY DEF Inv, TypeOK
<1>a. pc \in [TaskIds -> Pcs]
    BY DEF Inv, TypeOK
<1>2. CASE \/ \E p \in Payloads : ReceiveChats(p)
           \/ \E v \in Events : ReceiveEvent(v)
           \/ \E m \in Mails, process \in Homes : RunMail(m, process)
    BY <1>2, ReceiveKeeps
<1>3. CASE \E t \in TaskIds : TaskStep(t)
    BY <1>3, TaskStepKeeps
<1>b. ASSUME NEW t0 \in TaskIds, Stop(t0) PROVE Inv'
  <2>1. /\ pc' = [pc EXCEPT ![t0] = "failed"] /\ pc[t0] \notin Ended
        /\ UNCHANGED <<task, next, store, live, queue>>
      BY <1>b DEF Stop, bus
  <2>2. pc' \in [TaskIds -> Pcs]
      BY <2>1, <1>a DEF Pcs
  <2>3. \A t \in TaskIds : pc'[t] = pc[t] \/ (pc'[t] = "failed" /\ pc[t] \notin Ended)
      BY <2>1, <1>a
  <2> QED BY <2>1, <2>2, <2>3, <1>1, RestKeeps
<1>4. ASSUME NEW s \in Subscribers, Subscribe(s) \/ Unsubscribe(s) \/ Take(s)
      PROVE  Inv'
  <2>1. CASE Subscribe(s)
      BY <2>1, <1>1, <1>a, RestKeeps DEF Subscribe, task
  <2>2. CASE Unsubscribe(s)
      BY <2>2, <1>1, <1>a, RestKeeps DEF Unsubscribe, task
  <2>3. CASE Take(s)
    <3>1. Tail(queue[s]) \in Seq(Doc)
        BY <2>3, <1>1 DEF Take
    <3> QED BY <2>3, <3>1, <1>1, <1>a, RestKeeps DEF Take, task
  <2> QED BY <1>4, <2>1, <2>2, <2>3
<1>5. CASE Crash
  <2>1. queue' = [s \in Subscribers |-> << >>] /\ live' = {}
      BY <1>5 DEF Crash
  <2>2. queue' \in [Subscribers -> Seq(Doc)]
      BY <2>1
  <2>3. pc' = [t \in TaskIds |->
                 IF home[t] = "server" /\ pc[t] \notin Ended THEN "failed" ELSE pc[t]]
      BY <1>5 DEF Crash
  <2>4. pc' \in [TaskIds -> Pcs]
      BY <2>3, <1>a DEF Pcs
  <2> QED BY <1>5, <2>1, <2>2, <2>3, <2>4, RestKeeps DEF Crash, task
<1>6. CASE UNCHANGED vars
    BY <1>6, <1>1, <1>a, RestKeeps DEF vars, task
<1> QED BY <1>2, <1>3, <1>b, <1>4, <1>5, <1>6 DEF Next

LEMMA InvAlways == Spec => []Inv
BY InvInit, InvNext, PTL DEF Spec

-----------------------------------------------------------------------------
\* Types are kept, and no subscriber's queue exceeds its capacity.
THEOREM TypeCorrect == Spec => []TypeOK
<1>1. Inv => TypeOK
    BY DEF Inv
<1> QED BY <1>1, InvAlways, PTL

\* Whoever reads an event finds its document whole, in his own namespace, in
\* spite of failures, reruns and crashes.
THEOREM FindableEvents == Spec => []EventsAreFindable
<1>1. Inv => EventsAreFindable
    BY DEF Inv
<1> QED BY <1>1, InvAlways, PTL

\* A batch that breaks off leaves no gap: what is in the index of a payload is a
\* prefix of it, but for the document at which it broke off.
THEOREM NoGaps == Spec => []NoGapsInBatches
<1>1. ASSUME Inv, NEW t \in Tasks, NEW i \in DOMAIN docs[t], NEW j \in DOMAIN docs[t],
             i < j, NEW v \in store, v.doc = docs[t][j]
      PROVE  Findable(docs[t][i])
  <2>1. PICK u \in Tasks : \E k \in DOMAIN docs[u] : k <= next[u] /\ v.doc = docs[u][k]
      BY <1>1 DEF Inv, StoreOK
  <2>2. PICK k \in DOMAIN docs[u] : k <= next[u] /\ v.doc = docs[u][k]
      BY <2>1
  <2>3. t \in TaskIds /\ u \in TaskIds
      BY <1>1, BoundsAssumption DEF Tasks, TaskIds, Inv, TypeOK
  <2>4. /\ i \in Nat \ {0} /\ j \in Nat /\ j <= Len(docs[t]) /\ k \in Nat
        /\ next[t] \in Nat /\ Len(docs[t]) \in Nat
      BY <1>1, <2>3 DEF Inv, TypeOK
  <2>5. docs[t][j].of \notin Mails /\ docs[t][j].id = <<t, j>>
      BY <1>1, <2>3, <2>4 DEF Inv, IdsOK
  <2>6. docs[u][k].id = <<u, k>>
      BY <1>1, <2>2, <2>3, <2>5 DEF Inv, IdsOK
  <2>7. u = t /\ k = j
      BY <1>1, <2>2, <2>5, <2>6
  <2>8. i < next[t]
      BY <1>1, <2>2, <2>4, <2>7
  <2> QED BY <1>1, <2>3, <2>8 DEF Inv, DoneOK
<1>2. Inv => NoGapsInBatches
    BY <1>1 DEF NoGapsInBatches
<1> QED BY <1>2, InvAlways, PTL

\* However often and wherever an e-mail is run, its vectors are of one document,
\* and a short e-mail has one vector.
THEOREM OneDocumentOfMail == Spec => []MailsHaveOneDocument
<1>1. ASSUME Inv, NEW v \in store, v.doc.of \in Mails
      PROVE  /\ v.doc.user = MailUser[v.doc.of] /\ v.doc.id = KeptId /\ v.doc \in Doc
             /\ \E t \in TaskIds : v \in VectorsOf(v.doc, t)
  <2>1. PICK u \in Tasks : \E k \in DOMAIN docs[u] : k <= next[u] /\ v.doc = docs[u][k]
      BY <1>1 DEF Inv, StoreOK
  <2>2. u \in TaskIds
      BY <1>1, BoundsAssumption DEF Tasks, TaskIds, Inv, TypeOK
  <2>3. v.doc.user = MailUser[v.doc.of] /\ v.doc.id = KeptId
      BY <1>1, <2>1, <2>2 DEF Inv, IdsOK
  <2>4. v.doc \in Doc
      BY <1>1 DEF Inv, TypeOK, Vector
  <2> QED BY <1>1, <2>3, <2>4 DEF Inv, StoreOK
<1>2. ASSUME Inv, NEW v \in store, NEW w \in store, v.doc.of = w.doc.of, v.doc.of \in Mails
      PROVE  v.doc = w.doc /\ (Parts[v.doc.of] = 1 => v = w)
  <2>1. v.doc = w.doc
      BY <1>1, <1>2 DEF Doc
  <2>2. ASSUME Parts[v.doc.of] = 1 PROVE v = w
    <3>1. /\ \E k \in 1 .. 1 : v = [doc |-> v.doc, run |-> 0, part |-> k]
          /\ \E k \in 1 .. 1 : w = [doc |-> w.doc, run |-> 0, part |-> k]
        BY <1>1, <1>2, <2>1, <2>2 DEF VectorsOf
    <3> QED BY <2>1, <3>1
  <2> QED BY <2>1, <2>2
<1>3. Inv => MailsHaveOneDocument
    BY <1>2 DEF MailsHaveOneDocument
<1> QED BY <1>3, InvAlways, PTL
-----------------------------------------------------------------------------
(***************************************************************************)
(* What a task that ends has done, and that it has ever less to do.        *)
(***************************************************************************)
\* A task that is done has all its documents in the index.
DoneIsFindable ==
    \A t \in TaskIds : pc[t] = "done" => \A i \in DOMAIN docs[t] : Findable(docs[t][i])

\* What documents a task has, and what they wait for: five stages for a whole batch,
\* of which normalizing is one, and three for each document.
WorkLeft(t) ==
    IF pc[t] \in Ended THEN 0
    ELSE IF pc[t] = "normalize" THEN 3 * Len(docs[t]) + 1
    ELSE 3 * (Len(docs[t]) - next[t])
            + (IF pc[t] = "embed" THEN 3 ELSE IF pc[t] = "upsert" THEN 2 ELSE 1)

\* The started tasks have ever less to do, and no step that is another's adds to it.
WorkRunsOut ==
    [][/\ \A t \in Tasks : WorkLeft(t)' <= WorkLeft(t)
       /\ \A t \in TaskIds : TaskStep(t) => WorkLeft(t)' < WorkLeft(t)]_vars

\* A step of a task changes no other, and keeps its documents and what is stored.
LEMMA TaskStepAlone ==
    ASSUME Inv, NEW t \in TaskIds, TaskStep(t)
    PROVE  /\ UNCHANGED <<tasks, docs>> /\ store \subseteq store'
           /\ \A u \in TaskIds : u # t => pc'[u] = pc[u] /\ next'[u] = next[u]
           /\ t \in Tasks
<1>1. UNCHANGED <<tasks, docs>> /\ store \subseteq store'
    BY DEF TaskStep, Normalize, NormalizeNothing, NormalizeFails, Embed, EmbedFails, Upsert,
           UpsertFails, Publish, task
<1>2. \E from, to \in Pcs : from \notin Ended /\ Goes(t, from, to)
    BY DEF TaskStep, Normalize, NormalizeNothing, NormalizeFails, Embed, EmbedFails, Upsert,
           UpsertFails, Publish, Advance, Pcs, Ended
<1>3. next' = next \/ next' = [next EXCEPT ![t] = @ + 1]
    BY DEF TaskStep, Normalize, NormalizeNothing, NormalizeFails, Embed, EmbedFails, Upsert,
           UpsertFails, Publish, Advance
<1>4. \A u \in TaskIds : u # t => pc'[u] = pc[u] /\ next'[u] = next[u]
    BY <1>2, <1>3 DEF Goes, Inv, TypeOK
<1>5. t \in Tasks
    BY <1>2 DEF Goes, Inv, CursorOK, Ended
<1> QED BY <1>1, <1>4, <1>5

\* A step that ends a task well leaves all its documents findable.
LEMMA EndingIsFindable ==
    ASSUME Inv, NEW t \in TaskIds, TaskStep(t), pc'[t] = "done", NEW i \in DOMAIN docs[t]
    PROVE  Findable(docs[t][i])
<1>1. docs[t] \in Seq(Doc) /\ i \in 1 .. Len(docs[t]) /\ pc \in [TaskIds -> Pcs]
    BY DEF Inv, TypeOK
<1>2. Publish(t) /\ ~(next[t] < Len(docs[t]))
  <2>1. NormalizeNothing(t) \/ Publish(t)
      BY <1>1 DEF TaskStep, Normalize, NormalizeFails, Embed, EmbedFails, Upsert, UpsertFails,
             Goes
  <2>2. ~NormalizeNothing(t)
      BY <1>1 DEF NormalizeNothing
  <2>3. Publish(t) => ~(next[t] < Len(docs[t]))
      BY <1>1 DEF Publish, Advance, Goes
  <2> QED BY <2>1, <2>2, <2>3
<1>3. pc[t] = "publish" /\ next[t] \in 1 .. Len(docs[t])
  <2>1. pc[t] = "publish"
      BY <1>2 DEF Publish, Advance, Goes
  <2> QED BY <2>1 DEF Inv, CursorOK
<1>4. CASE i < next[t]
    BY <1>4 DEF Inv, DoneOK
<1>5. CASE i = next[t]
  <2>1. VectorsOf(docs[t][i], t) \subseteq store
      BY <1>3, <1>5 DEF Inv, DoneOK, Current
  <2>2. t \in 0 .. MaxTasks
      BY BoundsAssumption DEF TaskIds
  <2> QED BY <2>1, <2>2 DEF Findable
<1> QED BY <1>1, <1>2, <1>3, <1>4, <1>5

\* A new task, and nothing else.
LEMMA ReceiveStarts ==
    ASSUME Inv,
           \/ \E p \in Payloads : ReceiveChats(p)
           \/ \E v \in Events : ReceiveEvent(v)
           \/ \E m \in Mails, process \in Homes : RunMail(m, process)
    PROVE  /\ store' = store /\ next' = next /\ Tasks \subseteq Tasks'
           /\ \A t \in Tasks : pc'[t] = pc[t] /\ docs'[t] = docs[t]
           /\ \A t \in TaskIds : pc'[t] = "done" => t \in Tasks
<1>a. (\E p \in Payloads : ReceiveChats(p)) =>
          \E ds, process, from : from \in {"normalize", "embed"} /\ Starts(ds, process, from)
    BY Zenon DEF ReceiveChats
<1>b. (\E v \in Events : ReceiveEvent(v)) =>
          \E ds, process, from : from \in {"normalize", "embed"} /\ Starts(ds, process, from)
    BY Zenon DEF ReceiveEvent
<1>c. (\E m \in Mails, process \in Homes : RunMail(m, process)) =>
          \E ds, process, from : from \in {"normalize", "embed"} /\ Starts(ds, process, from)
    BY Zenon DEF RunMail
<1>1. PICK ds, process, from : from \in {"normalize", "embed"} /\ Starts(ds, process, from)
    BY <1>a, <1>b, <1>c
<1>2. tasks \in Nat /\ Tasks \subseteq TaskIds /\ tasks + 1 \notin Tasks
    BY BoundsAssumption DEF Tasks, TaskIds, Inv, TypeOK
<1>3. \A t \in TaskIds : t # tasks + 1 => pc'[t] = pc[t] /\ docs'[t] = docs[t]
    BY <1>1 DEF Starts, Inv, TypeOK
<1>4. \A t \in TaskIds : t = tasks + 1 => pc'[t] = from
    BY <1>1 DEF Starts, Inv, TypeOK
<1>5. \A t \in TaskIds : t \notin Tasks => pc[t] = "none"
    BY DEF Inv, CursorOK
<1>6. Tasks \subseteq Tasks'
    BY <1>1, <1>2 DEF Starts, Tasks
<1> QED BY <1>1, <1>2, <1>3, <1>4, <1>5, <1>6 DEF Starts

\* What is no task's work ends tasks or leaves them alone.
LEMMA RestEnds ==
    ASSUME Inv,
           \/ \E t \in TaskIds : Stop(t)
           \/ \E s \in Subscribers : Subscribe(s) \/ Unsubscribe(s) \/ Take(s)
           \/ Crash
           \/ UNCHANGED vars
    PROVE  /\ UNCHANGED <<tasks, docs, next, store>>
           /\ \A t \in TaskIds : pc'[t] = pc[t] \/ pc'[t] = "failed"
<1>1. pc \in [TaskIds -> Pcs]
    BY DEF Inv, TypeOK
<1>2. CASE \E t \in TaskIds : Stop(t)
    BY <1>1, <1>2 DEF Stop, task
<1>3. CASE \E s \in Subscribers : Subscribe(s) \/ Unsubscribe(s) \/ Take(s)
    BY <1>3 DEF Subscribe, Unsubscribe, Take, task
<1>4. CASE Crash
    BY <1>4 DEF Crash, task
<1> QED BY <1>2, <1>3, <1>4 DEF vars

\* Every step but a task's own starts one, ends some, or leaves all as they are.
LEMMA StepKinds ==
    ASSUME [Next]_vars
    PROVE  \/ \E t \in TaskIds : TaskStep(t)
           \/ \/ \E p \in Payloads : ReceiveChats(p)
              \/ \E v \in Events : ReceiveEvent(v)
              \/ \E m \in Mails, process \in Homes : RunMail(m, process)
           \/ \/ \E t \in TaskIds : Stop(t)
              \/ \E s \in Subscribers : Subscribe(s) \/ Unsubscribe(s) \/ Take(s)
              \/ Crash
              \/ UNCHANGED vars
BY DEF Next

\* For any batches, faults and reruns: a task that ends and has not failed has each of
\* its documents in the index, and every chunk of it.
THEOREM DoneTasksAreFindable == Spec => []DoneIsFindable
<1>1. Init => DoneIsFindable
    BY DEF Init, DoneIsFindable
<1>2. Inv /\ DoneIsFindable /\ [Next]_vars => DoneIsFindable'
  <2> SUFFICES ASSUME Inv, DoneIsFindable, [Next]_vars, NEW t \in TaskIds, pc'[t] = "done",
                      NEW i \in DOMAIN docs'[t]
               PROVE  \E u \in 0 .. MaxTasks : VectorsOf(docs'[t][i], u) \subseteq store'
      BY DEF DoneIsFindable, Findable, VectorsOf
  <2>2. CASE \E u \in TaskIds : TaskStep(u)
    <3>1. PICK u \in TaskIds : TaskStep(u)
        BY <2>2
    <3>2. docs' = docs /\ store \subseteq store'
        BY <3>1, TaskStepAlone
    <3>3. Findable(docs[t][i])
      <4>1. CASE u = t
          BY <4>1, <3>1, <3>2, EndingIsFindable
      <4>2. CASE u # t
          BY <4>2, <3>1, <3>2, TaskStepAlone DEF DoneIsFindable
      <4> QED BY <4>1, <4>2
    <3> QED BY <3>2, <3>3 DEF Findable
  <2>3. CASE \/ \E p \in Payloads : ReceiveChats(p)
             \/ \E v \in Events : ReceiveEvent(v)
             \/ \E m \in Mails, process \in Homes : RunMail(m, process)
    <3>1. store' = store /\ docs'[t] = docs[t] /\ pc[t] = "done"
        BY <2>3, ReceiveStarts
    <3> QED BY <3>1 DEF DoneIsFindable, Findable
  <2>4. CASE \/ \E u \in TaskIds : Stop(u)
             \/ \E s \in Subscribers : Subscribe(s) \/ Unsubscribe(s) \/ Take(s)
             \/ Crash
             \/ UNCHANGED vars
    <3>1. store' = store /\ docs' = docs /\ pc[t] = "done"
        BY <2>4, RestEnds
    <3> QED BY <3>1 DEF DoneIsFindable, Findable
  <2> QED BY <2>2, <2>3, <2>4, StepKinds
<1> QED BY <1>1, <1>2, InvAlways, PTL DEF Spec

\* The work left is a number, and none is left at the end.
LEMMA WorkIsCounted ==
    ASSUME Inv, NEW t \in TaskIds
    PROVE  /\ WorkLeft(t) \in Nat
           /\ WorkLeft(t) = 0 <=> pc[t] \in Ended
<1>1. docs[t] \in Seq(Doc) /\ Len(docs[t]) \in Nat /\ next[t] \in Nat /\ pc[t] \in Pcs
    BY DEF Inv, TypeOK
<1>2. pc[t] \in {"embed", "upsert", "publish"} => next[t] <= Len(docs[t])
    BY <1>1 DEF Inv, CursorOK
<1>3. CASE pc[t] \in Ended
    BY <1>3 DEF WorkLeft
<1>4. CASE pc[t] = "normalize"
    BY <1>1, <1>4 DEF WorkLeft, Ended
<1>5. CASE pc[t] \in {"embed", "upsert", "publish"}
    BY <1>1, <1>2, <1>5 DEF WorkLeft, Ended
<1> QED BY <1>1, <1>3, <1>4, <1>5 DEF Pcs, Ended

\* A task's step leaves it less to do.
LEMMA TaskStepWorks ==
    ASSUME Inv, NEW t \in TaskIds, TaskStep(t)
    PROVE  WorkLeft(t)' < WorkLeft(t)
<1>1. /\ docs' = docs /\ pc \in [TaskIds -> Pcs] /\ next \in [TaskIds -> Nat \ {0}]
      /\ docs[t] \in Seq(Doc) /\ Len(docs[t]) \in Nat /\ next[t] \in Nat \ {0}
    BY TaskStepAlone DEF Inv, TypeOK
<1>2. /\ pc[t] = "normalize" => next[t] = 1
      /\ pc[t] \in {"embed", "upsert", "publish"} => next[t] <= Len(docs[t])
    BY <1>1 DEF Inv, CursorOK
<1>3. CASE pc'[t] \in Ended
  <2>1. WorkLeft(t)' = 0
      BY <1>3 DEF WorkLeft
  <2>2. pc[t] \notin Ended
      BY DEF TaskStep, Normalize, NormalizeNothing, NormalizeFails, Embed, EmbedFails, Upsert,
             UpsertFails, Publish, Advance, Goes, Ended
  <2> QED BY <2>1, <2>2, WorkIsCounted
<1>4. CASE pc'[t] \notin Ended /\ Normalize(t)
  <2>1. pc[t] = "normalize" /\ pc'[t] = "embed" /\ next' = next
      BY <1>1, <1>4 DEF Normalize, Goes
  <2> QED BY <1>1, <1>2, <2>1 DEF WorkLeft, Ended
<1>5. CASE pc'[t] \notin Ended /\ Embed(t)
  <2>1. pc[t] = "embed" /\ pc'[t] = "upsert" /\ next' = next
      BY <1>1, <1>5 DEF Embed, Goes
  <2> QED BY <1>1, <1>2, <2>1 DEF WorkLeft, Ended
<1>6. CASE pc'[t] \notin Ended /\ Upsert(t)
  <2>1. pc[t] = "upsert" /\ pc'[t] = "publish" /\ next' = next
      BY <1>1, <1>6 DEF Upsert, Goes
  <2> QED BY <1>1, <1>2, <2>1 DEF WorkLeft, Ended
<1>7. CASE pc'[t] \notin Ended /\ Publish(t)
  <2>1. /\ pc[t] = "publish" /\ pc'[t] = "embed" /\ next'[t] = next[t] + 1
        /\ next[t] < Len(docs[t])
      BY <1>1, <1>7 DEF Publish, Advance, Goes, Ended
  <2> QED BY <1>1, <1>2, <2>1 DEF WorkLeft, Ended
<1>8. ~(NormalizeNothing(t) \/ NormalizeFails(t) \/ EmbedFails(t) \/ UpsertFails(t))
          \/ pc'[t] \in Ended
    BY <1>1 DEF NormalizeNothing, NormalizeFails, EmbedFails, UpsertFails, Goes, Ended
<1> QED BY <1>3, <1>4, <1>5, <1>6, <1>7, <1>8 DEF TaskStep

\* For any batches and faults: a task's steps are at most three for each of its
\* documents and one, and nothing that happens elsewhere gives it more to do; so it
\* ends if the loop goes on with it, and no batch is processed for ever.
THEOREM WorkOfTasksRunsOut == Spec => WorkRunsOut
<1> DEFINE Works == /\ \A t \in Tasks : WorkLeft(t)' <= WorkLeft(t)
                    /\ \A t \in TaskIds : TaskStep(t) => WorkLeft(t)' < WorkLeft(t)
<1>1. Inv /\ Inv' /\ [Next]_vars => Works
  <2> SUFFICES ASSUME Inv, Inv', [Next]_vars, NEW t \in Tasks
               PROVE  WorkLeft(t)' <= WorkLeft(t)
      BY TaskStepWorks
  <2>0. t \in TaskIds
      BY BoundsAssumption DEF Tasks, TaskIds, Inv, TypeOK
  <2>1. WorkLeft(t) \in Nat
      BY <2>0, WorkIsCounted
  <2>2. ASSUME pc'[t] = pc[t], next'[t] = next[t], docs'[t] = docs[t]
        PROVE  WorkLeft(t)' = WorkLeft(t)
      BY <2>2 DEF WorkLeft
  <2>3. CASE \E u \in TaskIds : TaskStep(u)
    <3>1. PICK u \in TaskIds : TaskStep(u)
        BY <2>3
    <3>2. CASE u = t
      <4>1. WorkLeft(t)' < WorkLeft(t)
          BY <3>1, <3>2, TaskStepWorks
      <4>2. WorkLeft(t)' \in Nat
        <5>1. docs'[t] \in Seq(Doc) /\ Len(docs'[t]) \in Nat /\ next'[t] \in Nat
              /\ pc'[t] \in Pcs
            BY <2>0 DEF Inv, TypeOK
        <5>2. pc'[t] \in {"embed", "upsert", "publish"} => next'[t] <= Len(docs'[t])
            BY <2>0, <5>1 DEF Inv, CursorOK
        <5> QED BY <5>1, <5>2 DEF WorkLeft, Ended, Pcs
      <4> QED BY <4>1, <4>2, <2>1
    <3>3. CASE u # t
      <4>1. pc'[t] = pc[t] /\ next'[t] = next[t] /\ docs' = docs
          BY <3>1, <3>3, <2>0, TaskStepAlone
      <4> QED BY <4>1, <2>1, <2>2
    <3> QED BY <3>2, <3>3
  <2>4. CASE \/ \E p \in Payloads : ReceiveChats(p)
             \/ \E v \in Events : ReceiveEvent(v)
             \/ \E m \in Mails, process \in Homes : RunMail(m, process)
    <3>1. pc'[t] = pc[t] /\ next' = next /\ docs'[t] = docs[t]
        BY <2>4, ReceiveStarts
    <3> QED BY <3>1, <2>1, <2>2
  <2>5. CASE \/ \E u \in TaskIds : Stop(u)
             \/ \E s \in Subscribers : Subscribe(s) \/ Unsubscribe(s) \/ Take(s)
             \/ Crash
             \/ UNCHANGED vars
    <3>1. UNCHANGED <<docs, next>> /\ (pc'[t] = pc[t] \/ pc'[t] = "failed")
        BY <2>5, <2>0, RestEnds
    <3>2. CASE pc'[t] = pc[t]
        BY <3>1, <3>2, <2>1, <2>2
    <3>3. CASE pc'[t] = "failed"
      <4>1. WorkLeft(t)' = 0
          BY <3>3 DEF WorkLeft, Ended
      <4> QED BY <4>1, <2>1
    <3> QED BY <3>1, <3>2, <3>3
  <2> QED BY <2>3, <2>4, <2>5, StepKinds
<1>2. Spec => [][Inv /\ Inv' /\ [Next]_vars]_vars
    BY InvAlways, PTL DEF Spec
<1> QED BY <1>1, <1>2, PTL DEF WorkRunsOut

-----------------------------------------------------------------------------
(***************************************************************************)
(* Whose a message is.                                                     *)
(***************************************************************************)
\* A chat's document has the user of the last change of a payload that carried it.
ChatsOfPayloads ==
    \A t \in TaskIds : \A i \in DOMAIN docs[t] :
        docs[t][i].of \in Chats =>
            \E p \in Payloads : \E j \in DOMAIN p.messages :
                p.messages[j].chat = docs[t][i].of /\ p.last = docs[t][i].user

\* Every vector of a chat is in the namespace of the last number of some payload that
\* carried the chat.
ChatsFollowTheLastNumber ==
    \A v \in store : v.doc.of \in Chats =>
        \E p \in Payloads : \E i \in DOMAIN p.messages :
            p.messages[i].chat = v.doc.of /\ p.last = v.doc.user

\* Of the namespaces the payloads could mean, a message is in that of the last change:
\* no rerun, fault or other task puts it anywhere else.
THEOREM LastNumberOwns == Spec => []ChatsFollowTheLastNumber
<1>1. Init => ChatsOfPayloads
    BY DEF Init, ChatsOfPayloads
<1>2. Inv /\ ChatsOfPayloads /\ [Next]_vars => ChatsOfPayloads'
  <2> SUFFICES ASSUME Inv, ChatsOfPayloads, [Next]_vars, NEW t \in TaskIds,
                      NEW i \in DOMAIN docs'[t], docs'[t][i].of \in Chats
               PROVE  \E p \in Payloads : \E j \in DOMAIN p.messages :
                          p.messages[j].chat = docs'[t][i].of /\ p.last = docs'[t][i].user
      BY DEF ChatsOfPayloads
  <2>1. CASE docs'[t] = docs[t]
      BY <2>1 DEF ChatsOfPayloads
  <2>2. ASSUME NEW ds, NEW process, NEW from, Starts(ds, process, from), docs'[t] # docs[t]
        PROVE  docs'[t] = ds
      BY <2>2 DEF Starts, Inv, TypeOK
  <2>3. CASE docs'[t] # docs[t] /\ \E p \in Payloads : ReceiveChats(p)
    <3>1. PICK p \in Payloads : ReceiveChats(p)
        BY <2>3
    <3> DEFINE ds == [k \in DOMAIN p.messages |->
                         ChatDoc(p.messages[k].chat, p.last, tasks + 1, k)]
    <3>2. docs'[t] = ds
        BY <2>2, <2>3, <3>1 DEF ReceiveChats
    <3>3. i \in DOMAIN p.messages /\ docs'[t][i] = ds[i]
        BY <3>2
    <3>4. docs'[t][i].of = p.messages[i].chat /\ docs'[t][i].user = p.last
        BY <3>3 DEF ChatDoc
    <3> QED BY <3>3, <3>4
  <2>4. CASE docs'[t] # docs[t] /\ \E v \in Events : ReceiveEvent(v)
    <3>1. PICK v \in Events : docs'[t] = << EventDoc(v, DefaultUser, tasks + 1) >>
        BY <2>2, <2>4 DEF ReceiveEvent
    <3>2. docs'[t][i].of = v
        BY <3>1 DEF EventDoc
    <3> QED BY <3>2, ItemsAssumption
  <2>5. CASE docs'[t] # docs[t] /\ \E m \in Mails, process \in Homes : RunMail(m, process)
    <3>1. PICK m \in Mails : docs'[t] = << MailDoc(m, KeptId) >>
        BY <2>2, <2>5 DEF RunMail
    <3>2. docs'[t][i].of = m
        BY <3>1 DEF MailDoc
    <3> QED BY <3>2, ItemsAssumption
  <2>6. CASE \E u \in TaskIds : TaskStep(u)
      BY <2>1, <2>6, TaskStepAlone
  <2>7. CASE \/ \E u \in TaskIds : Stop(u)
             \/ \E s \in Subscribers : Subscribe(s) \/ Unsubscribe(s) \/ Take(s)
             \/ Crash
             \/ UNCHANGED vars
      BY <2>1, <2>7, RestEnds
  <2> QED BY <2>1, <2>3, <2>4, <2>5, <2>6, <2>7, StepKinds
<1>3. Inv /\ ChatsOfPayloads => ChatsFollowTheLastNumber
  <2> SUFFICES ASSUME Inv, ChatsOfPayloads, NEW v \in store, v.doc.of \in Chats
               PROVE  \E p \in Payloads : \E i \in DOMAIN p.messages :
                          p.messages[i].chat = v.doc.of /\ p.last = v.doc.user
      BY DEF ChatsFollowTheLastNumber
  <2>1. PICK t \in Tasks : \E i \in DOMAIN docs[t] : v.doc = docs[t][i]
      BY DEF Inv, StoreOK
  <2>2. t \in TaskIds
      BY BoundsAssumption DEF Tasks, TaskIds, Inv, TypeOK
  <2> QED BY <2>1, <2>2 DEF ChatsOfPayloads
<1> QED BY <1>1, <1>2, <1>3, InvAlways, PTL DEF Spec

\* Where no payload has messages of several numbers, every message is in the namespace
\* of its own: what the run pipeline_numbers refutes is due to such payloads alone.
THEOREM OneNumberSuffices ==
    ASSUME \A p \in Payloads : \A i \in DOMAIN p.messages : p.messages[i].number = p.last
    PROVE  Spec => []MessagesStayWithTheirNumber
<1>1. ChatsFollowTheLastNumber => MessagesStayWithTheirNumber
  <2> SUFFICES ASSUME ChatsFollowTheLastNumber, NEW v \in store, v.doc.of \in Chats
               PROVE  \E p \in Payloads : \E i \in DOMAIN p.messages :
                          p.messages[i] = [chat |-> v.doc.of, number |-> v.doc.user]
      BY DEF MessagesStayWithTheirNumber
  <2>1. PICK p \in Payloads : \E i \in DOMAIN p.messages :
                p.messages[i].chat = v.doc.of /\ p.last = v.doc.user
      BY DEF ChatsFollowTheLastNumber
  <2>2. PICK i \in DOMAIN p.messages :
                p.messages[i].chat = v.doc.of /\ p.last = v.doc.user
      BY <2>1
  <2> DEFINE Message == [chat : Chats, number : Users]
  <2>3. p.messages \in Seq(Message)
      BY PayloadsAssumption DEF Payload
  <2> HIDE DEF Message
  <2>4. p.messages[i] \in Message
      BY <2>3
  <2>5. \A m \in Message : m = [chat |-> m.chat, number |-> m.number]
      BY DEF Message
  <2>6. p.messages[i].number = p.last
      OBVIOUS
  <2> QED BY <2>2, <2>4, <2>5, <2>6
<1> QED BY <1>1, LastNumberOwns, PTL
=============================================================================
