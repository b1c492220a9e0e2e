---------------------------- MODULE ServingProofs ----------------------------
(***************************************************************************)
(* For any users, requests, pool and threads, and any faults.              *)
(***************************************************************************)
EXTENDS Serving, FiniteSetTheorems, TLAPS

\* Where a request is tells which it is, and what it has.
Placed(r) ==
    /\ pc[r] = "open" => Kind[r] # "hook"
    /\ pc[r] = "ready" => Kind[r] # "admin"
    /\ pc[r] = "queued" => Kind[r] \in {"brief", "admin"}
    /\ pc[r] = "identify" => Kind[r] # "hook"
    /\ pc[r] = "admit" => Kind[r] \in {"read", "brief"}
    /\ pc[r] = "query" => Kind[r] = "read"
    /\ pc[r] = "record" => Kind[r] = "hook"
    /\ pc[r] = "report" => Kind[r] = "admin"
    /\ pc[r] \in {"items", "calendar", "model", "respond"} => Kind[r] = "brief"
    /\ loop = r <=> HasLoop(r)
    /\ r \in busy <=> HasThread(r)
    /\ r \in holds => pc[r] \notin {"new", "open", "ready", "connect", "ended"}
    /\ r \in holds /\ pc[r] = "queued" => Kind[r] = "brief"

\* The limits of pool and threads.
Within ==
    /\ Cardinality(holds) <= PoolSize
    /\ Cardinality(busy) <= MaxThreads

Places == \A r \in Requests : Placed(r)
ServerInv == TypeOK /\ Places /\ Within

\* What a request has shown on its way, and all of it when it is answered.
Shown(r) ==
    /\ OnItsWay(r) => TitlesOf(r, sessions, keys, members) \subseteq since[r]
    /\ pc[r] = "admit" => "user" \in since[r]
    /\ pc[r] \in {"query", "report", "items", "calendar", "model"} => since[r] = Titles
    /\ pc[r] = "queued" /\ Kind[r] = "brief" => since[r] = Titles
    /\ answer[r] = "served" => since[r] = Titles /\ pc[r] \in {"respond", "leave"}
                             /\ Kind[r] # "hook"
Shows == \A r \in Requests : Shown(r)

\* What a brief says of the calendar, and of the model.
OfCalendar(b, g) ==
    /\ b.count # "unknown" <=> g \in Pages
    /\ b.notice <=> g \notin Pages
    /\ b.says = "no events" <=> g \in {"empty", "emptyPage"}
    /\ b.says = "events" <=> g = "all"
    /\ b.more <=> g \in {"emptyPage", "firstPage"}
OfModel(b, m) ==
    /\ b.source = "ai" <=> m = "finished"
    /\ b.text = "generated" <=> m = "finished"
    /\ b.hint = "unavailable" <=> m = "failed"

\* What it says before it is answered.
Told(r) ==
    /\ pc[r] \notin {"model", "respond", "leave"} => google[r] = "unasked"
    /\ pc[r] \notin {"respond", "leave"} => model[r] = "unasked"
    /\ pc[r] = "calendar" => brief[r] = [BlankBrief EXCEPT !.records = brief[r].records]
    /\ pc[r] = "model" => OfCalendar(brief[r], google[r]) /\ OfModel(brief[r], model[r])
    /\ answer[r] = "served" => pc[r] \in {"respond", "leave"}
    /\ answer[r] = "served" /\ Kind[r] = "brief" =>
        OfCalendar(brief[r], google[r]) /\ OfModel(brief[r], model[r])
    /\ pc[r] \notin {"calendar", "model", "respond", "leave"} => brief[r] = BlankBrief
Tells == \A r \in Requests : Told(r)

\* The steps on which a request fails.
Failing(r) ==
    \/ PoolTimesOut(r) \/ NotKnown(r) \/ NotLetIn(r) \/ Refuse(r)
    \/ DbFails(r) \/ NoZone(r) \/ CalendarIsOdd(r)

FailingPcs == {"connect", "identify", "admit", "query", "report", "items", "calendar"}

USE DEF grants, server, content

-----------------------------------------------------------------------------
LEMMA CardAdd ==
  ASSUME NEW S \in SUBSET Requests, NEW r \in Requests, NEW n \in Nat, Cardinality(S) < n
  PROVE  Cardinality(S \cup {r}) <= n
  <1>1. IsFiniteSet(S)
    BY FS_Subset, RequestsAssumption
  <1>2. Cardinality(S) \in Nat
    BY <1>1, FS_CardinalityType
  <1>3. Cardinality(S \cup {r}) = IF r \in S THEN Cardinality(S) ELSE Cardinality(S) + 1
    BY <1>1, FS_AddElement
  <1> QED BY <1>2, <1>3

LEMMA CardRemove ==
  ASSUME NEW S \in SUBSET Requests, NEW r \in Requests, NEW n \in Nat, Cardinality(S) <= n
  PROVE  Cardinality(S \ {r}) <= n
  <1>1. IsFiniteSet(S)
    BY FS_Subset, RequestsAssumption
  <1>2. Cardinality(S) \in Nat
    BY <1>1, FS_CardinalityType
  <1>3. Cardinality(S \ {r}) <= Cardinality(S)
    BY <1>1, FS_Subset
  <1>4. Cardinality(S \ {r}) \in Nat
    BY <1>1, FS_Subset, FS_CardinalityType
  <1> QED BY <1>2, <1>3, <1>4

\* However a request fails, it does so in the same way.
LEMMA FailingFails ==
  ASSUME NEW r \in Requests, Failing(r)
  PROVE  Fails(r) /\ pc[r] \in FailingPcs
  BY DEF Failing, FailingPcs, PoolTimesOut, NotKnown, NotLetIn, Refuse, DbFails, NoZone,
         CalendarIsOdd

\* A change of who may read what makes other users, keys and members.
LEMMA GrantsChange ==
  ASSUME TypeOK,
         \/ \E u \in Users : ProvisionKey(u) \/ \E w \in Workspaces : Admit(u, w)
         \/ Withdraw
  PROVE  \E s \in SUBSET Users, k \in SUBSET Users, m \in SUBSET (Users \X Workspaces) :
             Changes(s, k, m)
  <1>1. ASSUME NEW u \in Users, ProvisionKey(u) PROVE Changes(sessions, keys \cup {u}, members)
    BY <1>1 DEF ProvisionKey
  <1>2. ASSUME NEW u \in Users, NEW w \in Workspaces, Admit(u, w)
        PROVE  Changes(sessions, keys, members \cup {<<u, w>>})
    BY <1>2 DEF Admit
  <1>3. ASSUME Withdraw
        PROVE  \E s \in SUBSET sessions, k \in SUBSET keys, m \in SUBSET members :
                   Changes(s, k, m)
    BY <1>3 DEF Withdraw
  <1>4. sessions \in SUBSET Users /\ keys \in SUBSET Users
          /\ members \in SUBSET (Users \X Workspaces)
    BY DEF TypeOK
  <1>5. CASE \E u \in Users : ProvisionKey(u)
    <2>1. PICK u \in Users : Changes(sessions, keys \cup {u}, members)
      BY <1>1, <1>5
    <2>2. keys \cup {u} \in SUBSET Users
      BY <1>4
    <2> QED BY <1>4, <2>1, <2>2
  <1>6. CASE \E u \in Users, w \in Workspaces : Admit(u, w)
    <2>1. PICK u \in Users, w \in Workspaces : Changes(sessions, keys, members \cup {<<u, w>>})
      BY <1>2, <1>6
    <2>2. members \cup {<<u, w>>} \in SUBSET (Users \X Workspaces)
      BY <1>4
    <2> QED BY <1>4, <2>1, <2>2
  <1>7. CASE Withdraw
    <2>1. PICK s \in SUBSET sessions, k \in SUBSET keys, m \in SUBSET members : Changes(s, k, m)
      BY <1>3, <1>7
    <2>2. s \in SUBSET Users /\ k \in SUBSET Users /\ m \in SUBSET (Users \X Workspaces)
      BY <1>4
    <2> QED BY <2>1, <2>2
  <1> QED BY <1>5, <1>6, <1>7


-----------------------------------------------------------------------------
\* What a brief goes on with, when Google has answered, or not.
CalendarIs(r, b, page, g) ==
    /\ Continues(r, b, page)
    /\ google' = [google EXCEPT ![r] = g]
    /\ UNCHANGED model

LEMMA CalendarTells ==
  ASSUME NEW r \in Requests, Calendar(r)
  PROVE  \E page \in Pages, c \in {"zero", "some"}, m \in BOOLEAN,
            s \in {"no events", "events", "at least"} :
             /\ c = "zero" <=> page \in {"empty", "emptyPage"}
             /\ m <=> page \in {"emptyPage", "firstPage"}
             /\ s = "no events" <=> page \in {"empty", "emptyPage"}
             /\ s = "events" <=> page = "all"
             /\ CalendarIs(r, [brief[r] EXCEPT !.count = c, !.more = m, !.says = s], page, page)
  <1>1. PICK page \in Pages : CalendarIs(r,
            [brief[r] EXCEPT
                !.count = IF page \in {"empty", "emptyPage"} THEN "zero" ELSE "some",
                !.more = page \in {"emptyPage", "firstPage"},
                !.says = CASE page = "all" -> "events"
                           [] page = "firstPage" -> "at least"
                           [] OTHER -> "no events"], page, page)
    BY DEF Calendar, CalendarIs
  <1> DEFINE c == IF page \in {"empty", "emptyPage"} THEN "zero" ELSE "some"
             m == page \in {"emptyPage", "firstPage"}
             s == CASE page = "all" -> "events"
                    [] page = "firstPage" -> "at least"
                    [] OTHER -> "no events"
  <1>2. CalendarIs(r, [brief[r] EXCEPT !.count = c, !.more = m, !.says = s], page, page)
    BY <1>1
  <1>3. /\ c \in {"zero", "some"} /\ m \in BOOLEAN /\ s \in {"no events", "events", "at least"}
        /\ c = "zero" <=> page \in {"empty", "emptyPage"}
        /\ m <=> page \in {"emptyPage", "firstPage"}
        /\ s = "no events" <=> page \in {"empty", "emptyPage"}
        /\ s = "events" <=> page = "all"
    BY DEF Pages
  <1> HIDE DEF c, m, s
  <1> QED BY <1>2, <1>3

\* In either case the brief has been waiting for the calendar, and goes on to the
\* model or to its end.
LEMMA CalendarGoes ==
  ASSUME NEW r \in Requests, Calendar(r) \/ CalendarFails(r)
  PROVE  /\ pc[r] = "calendar"
         /\ \/ Goes(r, "calendar", "model") /\ UNCHANGED <<grants, since, ai, server, answer>>
            \/ Leaves(r, "served")
  <1>1. PICK b, page : Continues(r, b, page)
    BY DEF Calendar, CalendarFails
  <1> QED BY <1>1 DEF Continues, Goes

\* Who is known has shown who he is, and his cookie also where he belongs.
LEMMA KnownTitles ==
  ASSUME NEW r \in Requests
  PROVE  /\ Known(r) => "user" \in TitlesOf(r, sessions, keys, members)
         /\ Known(r) /\ Cookie(r) # None => "member" \in TitlesOf(r, sessions, keys, members)
         /\ LetIn(r) => "member" \in TitlesOf(r, sessions, keys, members)
  BY DEF Known, LetIn, TitlesOf, Titles, SessionHolds, User, Workspace

LEMMA Blank == BlankBrief \in Brief
  BY DEF BlankBrief, Brief

LEMMA InitType == Init => TypeOK
  <1> SUFFICES ASSUME Init PROVE TypeOK
    OBVIOUS
  <1>1. members \subseteq Users \X Workspaces
    <2>1. members = {<<u, Own[u]>> : u \in Users}
      BY DEF Init
    <2>2. Own \in [Users -> Workspaces]
      BY UsersAssumption
    <2> QED BY <2>1, <2>2
  <1>2. changes \in 0 .. MaxChanges
    <2>1. changes = 0
      BY DEF Init
    <2>2. MaxChanges \in Nat
      BY LimitsAssumption
    <2> QED BY <2>1, <2>2
  <1>3. brief \in [Requests -> Brief]
    BY Blank DEF Init
  <1> QED BY <1>1, <1>2, <1>3 DEF Init, TypeOK, Titles, Answers, Pages, Pcs

LEMMA InitServer == Init => ServerInv
  <1> SUFFICES ASSUME Init PROVE ServerInv
    OBVIOUS
  <1>1. TypeOK
    BY InitType
  <1>2. ASSUME NEW r \in Requests PROVE Placed(r)
    BY NoneAssumption DEF Init, Placed, HasLoop, HasThread
  <1>3. Cardinality({}) = 0
    BY FS_EmptySet
  <1>4. Within
    <2>1. holds = {} /\ busy = {}
      BY DEF Init
    <2>2. PoolSize \in Nat /\ MaxThreads \in Nat
      BY LimitsAssumption
    <2> QED BY <1>3, <2>1, <2>2 DEF Within
  <1> QED BY <1>1, <1>2, <1>4 DEF ServerInv, Places

LEMMA InitShown == Init => Shows /\ Tells
  <1> SUFFICES ASSUME Init, NEW r \in Requests PROVE Shown(r) /\ Told(r)
    BY DEF Shows, Tells
  <1>1. /\ pc[r] = "new" /\ answer[r] = "none" /\ brief[r] = BlankBrief
        /\ google[r] = "unasked" /\ model[r] = "unasked"
    BY DEF Init
  <1> QED BY <1>1 DEF Shown, Told, OnItsWay

\* Types.
LEMMA NextType == TypeOK /\ [Next]_vars => TypeOK'
  <1> SUFFICES ASSUME TypeOK, [Next]_vars PROVE TypeOK'
    OBVIOUS
  <1> USE DEF TypeOK, Titles, Answers, Pcs, Pages
  <1>1. ASSUME NEW r \in Requests, Begin(r) PROVE TypeOK'
    <2>1. TitlesOf(r, sessions, keys, members) \subseteq Titles
      BY DEF TitlesOf
    <2> QED BY <2>1, <1>1 DEF Begin, Goes
  <1>2. ASSUME NEW r \in Requests, Open(r) PROVE TypeOK'
    BY <1>2 DEF Open, Goes
  <1>3. ASSUME NEW r \in Requests, TakeLoop(r) PROVE TypeOK'
    BY <1>3 DEF TakeLoop, Goes
  <1>4. ASSUME NEW r \in Requests, TakeThread(r) PROVE TypeOK'
    BY <1>4 DEF TakeThread, Goes
  <1>5. ASSUME NEW r \in Requests, Connect(r) PROVE TypeOK'
    BY <1>5 DEF Connect, Goes
  <1>6. ASSUME NEW r \in Requests, Identify(r) PROVE TypeOK'
    BY <1>6 DEF Identify, Goes
  <1>7. ASSUME NEW r \in Requests, GoIn(r) PROVE TypeOK'
    BY <1>7 DEF GoIn, Goes
  <1>8. ASSUME NEW r \in Requests, Answer(r) PROVE TypeOK'
    BY <1>8 DEF Answer, Leaves
  <1>9. ASSUME NEW r \in Requests, Record(r) PROVE TypeOK'
    BY <1>9, Blank DEF Record, Forget, Goes
  <1>10. ASSUME NEW r \in Requests, Items(r) PROVE TypeOK'
    <2>1. ASSUME NEW some \in BOOLEAN PROVE [brief[r] EXCEPT !.records = some] \in Brief
      <3>1. brief[r] \in Brief
        OBVIOUS
      <3> QED BY <3>1 DEF Brief
    <2>2. PICK some \in BOOLEAN :
             brief' = [brief EXCEPT ![r] = [brief[r] EXCEPT !.records = some]]
      BY <1>10 DEF Items
    <2> QED BY <2>1, <2>2, <1>10 DEF Items, Goes
  <1>11. ASSUME NEW r \in Requests, Calendar(r) PROVE TypeOK'
    <2>1. PICK page \in Pages, c \in {"zero", "some"}, m \in BOOLEAN,
                s \in {"no events", "events", "at least"} :
             /\ c = "zero" <=> page \in {"empty", "emptyPage"}
             /\ m <=> page \in {"emptyPage", "firstPage"}
             /\ s = "no events" <=> page \in {"empty", "emptyPage"}
             /\ s = "events" <=> page = "all"
             /\ CalendarIs(r, [brief[r] EXCEPT !.count = c, !.more = m, !.says = s], page, page)
      BY <1>11, CalendarTells
    <2> DEFINE b == [brief[r] EXCEPT !.count = c, !.more = m, !.says = s]
               hinted(h) == [b EXCEPT !.hint = h]
    <2>a. CalendarIs(r, b, page, page)
      BY <2>1
    <2>2. brief[r] \in Brief
      BY DEF TypeOK
    <2>3. b \in Brief
      BY <2>2 DEF Brief
    <2>4. ASSUME NEW h \in {"not enabled", "none"} PROVE hinted(h) \in Brief
      BY <2>3 DEF Brief
    <2>5. \/ brief' = [brief EXCEPT ![r] = b]
          \/ \E h \in {"not enabled", "none"} : brief' = [brief EXCEPT ![r] = hinted(h)]
      <3> HIDE DEF b
      <3> QED BY <2>a DEF CalendarIs, Continues
    <2> HIDE DEF b, hinted
    <2>6. brief' \in [Requests -> Brief]
      <3>1. brief \in [Requests -> Brief]
        OBVIOUS
      <3> HIDE DEF TypeOK
      <3> QED BY <2>3, <2>4, <2>5, <3>1
    <2>7. google' \in [Requests -> Pages \cup {"unasked", "failed"}] /\ model' = model
      BY <2>a DEF CalendarIs
    <2>8. \/ Goes(r, "calendar", "model") /\ UNCHANGED <<grants, since, ai, server, answer>>
          \/ Leaves(r, "served")
      BY <1>11, CalendarGoes
    <2> QED BY <2>6, <2>7, <2>8 DEF Goes, Leaves
  <1>12. ASSUME NEW r \in Requests, CalendarFails(r) PROVE TypeOK'
    <2> DEFINE b == [brief[r] EXCEPT !.notice = TRUE, !.says = "unavailable"]
               hinted(h) == [b EXCEPT !.hint = h]
    <2>a. CalendarIs(r, b, "empty", "failed")
      BY <1>12 DEF CalendarFails, CalendarIs
    <2>2. brief[r] \in Brief
      BY DEF TypeOK
    <2>3. b \in Brief
      BY <2>2 DEF Brief
    <2>4. ASSUME NEW h \in {"not enabled", "none"} PROVE hinted(h) \in Brief
      BY <2>3 DEF Brief
    <2>5. \/ brief' = [brief EXCEPT ![r] = b]
          \/ \E h \in {"not enabled", "none"} : brief' = [brief EXCEPT ![r] = hinted(h)]
      <3> HIDE DEF b
      <3> QED BY <2>a DEF CalendarIs, Continues
    <2> HIDE DEF b, hinted
    <2>6. brief' \in [Requests -> Brief]
      <3>1. brief \in [Requests -> Brief]
        OBVIOUS
      <3> HIDE DEF TypeOK
      <3> QED BY <2>3, <2>4, <2>5, <3>1
    <2>7. google' \in [Requests -> Pages \cup {"unasked", "failed"}] /\ model' = model
      BY <2>a DEF CalendarIs
    <2>8. \/ Goes(r, "calendar", "model") /\ UNCHANGED <<grants, since, ai, server, answer>>
          \/ Leaves(r, "served")
      BY <1>12, CalendarGoes
    <2> QED BY <2>6, <2>7, <2>8 DEF Goes, Leaves
  <1>13. ASSUME NEW r \in Requests, Generate(r) PROVE TypeOK'
    <2>1. [brief[r] EXCEPT !.text = "generated", !.source = "ai"] \in Brief
      <3>1. brief[r] \in Brief
        OBVIOUS
      <3> QED BY <3>1 DEF Brief
    <2> QED BY <2>1, <1>13 DEF Generate, Leaves
  <1>14. ASSUME NEW r \in Requests, GenerateFails(r) PROVE TypeOK'
    <2>1. [brief[r] EXCEPT !.hint = "unavailable"] \in Brief
      <3>1. brief[r] \in Brief
        OBVIOUS
      <3> QED BY <3>1 DEF Brief
    <2> QED BY <2>1, <1>14 DEF GenerateFails, Leaves
  <1>15. ASSUME NEW r \in Requests, Leave(r) PROVE TypeOK'
    BY <1>15, Blank DEF Leave, Forget, Goes
  <1>r. ASSUME NEW r \in Requests, Respond(r) PROVE TypeOK'
    BY <1>r DEF Respond, Goes
  <1>16. ASSUME NEW r \in Requests, Failing(r) PROVE TypeOK'
    <2>1. Fails(r) /\ pc[r] \in FailingPcs
      BY <1>16, FailingFails
    <2> QED BY <2>1, Blank DEF Fails, Leaves, FailingPcs
  <1>17. ASSUME NEW s \in SUBSET Users, NEW k \in SUBSET Users,
               NEW m \in SUBSET (Users \X Workspaces), Changes(s, k, m)
        PROVE  TypeOK'
    <2>1. ASSUME NEW r \in Requests PROVE TitlesOf(r, s, k, m) \subseteq Titles
      BY DEF TitlesOf
    <2>2. changes' \in 0 .. MaxChanges
      <3>1. MaxChanges \in Nat
        BY LimitsAssumption
      <3>2. changes < MaxChanges /\ changes' = changes + 1
        BY <1>17 DEF Changes
      <3>3. changes \in 0 .. MaxChanges
        OBVIOUS
      <3> HIDE DEF TypeOK
      <3> QED BY <3>1, <3>2, <3>3
    <2> QED BY <2>1, <2>2, <1>17 DEF Changes
  <1>18. CASE UNCHANGED vars
    BY <1>18 DEF vars
  <1>19. CASE \E u \in Users : ProvisionKey(u) \/ \E w \in Workspaces : Admit(u, w)
    BY <1>19, <1>17, GrantsChange
  <1>20. CASE Withdraw
    BY <1>20, <1>17, GrantsChange
  <1>21. CASE \E r \in Requests : Begin(r) \/ Step(r)
    BY <1>21, <1>1, <1>2, <1>3, <1>4, <1>5, <1>6, <1>7, <1>8, <1>9, <1>10,
       <1>11, <1>12, <1>13, <1>14, <1>15, <1>16, <1>r DEF Step, Failing
  <1> QED BY <1>18, <1>19, <1>20, <1>21 DEF Next

\* Where a request is, and what it has.
LEMMA NextPlaces == ServerInv /\ [Next]_vars => Places'
  <1> SUFFICES ASSUME ServerInv, [Next]_vars, NEW q \in Requests PROVE Placed(q)'
    BY DEF Places
  <1>a. TypeOK /\ Placed(q)
    BY DEF ServerInv, Places
  <1>b. Kind \in [Requests -> Kinds] /\ None \notin Requests
    BY NoneAssumption, RequestsAssumption
  <1> USE DEF TypeOK, Placed, HasLoop, HasThread, Pcs, Kinds
  <1>c. ASSUME NEW r \in Requests PROVE Placed(r)
    BY DEF ServerInv, Places
  <1>1. ASSUME NEW r \in Requests, Begin(r) PROVE Placed(q)'
    BY <1>1, <1>a, <1>b, <1>c DEF Begin, Goes
  <1>2. ASSUME NEW r \in Requests, Open(r) PROVE Placed(q)'
    BY <1>2, <1>a, <1>b, <1>c DEF Open, Goes
  <1>3. ASSUME NEW r \in Requests, TakeLoop(r) PROVE Placed(q)'
    BY <1>3, <1>a, <1>b, <1>c DEF TakeLoop, Goes
  <1>4. ASSUME NEW r \in Requests, TakeThread(r) PROVE Placed(q)'
    BY <1>4, <1>a, <1>b, <1>c DEF TakeThread, Goes
  <1>5. ASSUME NEW r \in Requests, Connect(r) PROVE Placed(q)'
    BY <1>5, <1>a, <1>b, <1>c DEF Connect, Goes
  <1>6. ASSUME NEW r \in Requests, Identify(r) PROVE Placed(q)'
    BY <1>6, <1>a, <1>b, <1>c DEF Identify, Goes
  <1>7. ASSUME NEW r \in Requests, GoIn(r) PROVE Placed(q)'
    BY <1>7, <1>a, <1>b, <1>c DEF GoIn, Goes
  <1>8. ASSUME NEW r \in Requests, Answer(r) PROVE Placed(q)'
    BY <1>8, <1>a, <1>b, <1>c DEF Answer, Leaves
  <1>9. ASSUME NEW r \in Requests, Record(r) PROVE Placed(q)'
    BY <1>9, <1>a, <1>b, <1>c DEF Record, Forget, Goes
  <1>10. ASSUME NEW r \in Requests, Items(r) PROVE Placed(q)'
    BY <1>10, <1>a, <1>b, <1>c DEF Items, Goes
  <1>11. ASSUME NEW r \in Requests, Calendar(r) PROVE Placed(q)'
    <2>1. /\ pc[r] = "calendar"
          /\ \/ Goes(r, "calendar", "model") /\ UNCHANGED <<grants, since, ai, server, answer>>
             \/ Leaves(r, "served")
      BY <1>11, CalendarGoes
    <2>2. CASE Goes(r, "calendar", "model") /\ UNCHANGED <<grants, since, ai, server, answer>>
      BY <2>1, <2>2, <1>a, <1>b, <1>c DEF Goes
    <2>3. CASE Leaves(r, "served")
      BY <2>1, <2>3, <1>a, <1>b, <1>c DEF Leaves
    <2> QED BY <2>1, <2>2, <2>3
  <1>12. ASSUME NEW r \in Requests, CalendarFails(r) PROVE Placed(q)'
    <2>1. /\ pc[r] = "calendar"
          /\ \/ Goes(r, "calendar", "model") /\ UNCHANGED <<grants, since, ai, server, answer>>
             \/ Leaves(r, "served")
      BY <1>12, CalendarGoes
    <2>2. CASE Goes(r, "calendar", "model") /\ UNCHANGED <<grants, since, ai, server, answer>>
      BY <2>1, <2>2, <1>a, <1>b, <1>c DEF Goes
    <2>3. CASE Leaves(r, "served")
      BY <2>1, <2>3, <1>a, <1>b, <1>c DEF Leaves
    <2> QED BY <2>1, <2>2, <2>3
  <1>13. ASSUME NEW r \in Requests, Generate(r) PROVE Placed(q)'
    BY <1>13, <1>a, <1>b, <1>c DEF Generate, Leaves
  <1>14. ASSUME NEW r \in Requests, GenerateFails(r) PROVE Placed(q)'
    BY <1>14, <1>a, <1>b, <1>c DEF GenerateFails, Leaves
  <1>15. ASSUME NEW r \in Requests, Leave(r) PROVE Placed(q)'
    BY <1>15, <1>a, <1>b, <1>c DEF Leave, Forget, Goes
  <1>r. ASSUME NEW r \in Requests, Respond(r) PROVE Placed(q)'
    BY <1>r, <1>a, <1>b, <1>c DEF Respond, Goes
  <1>16. ASSUME NEW r \in Requests, Failing(r) PROVE Placed(q)'
    <2>1. Fails(r) /\ pc[r] \in FailingPcs
      BY <1>16, FailingFails
    <2> QED BY <2>1, <1>a, <1>b, <1>c DEF Fails, Leaves, FailingPcs
  <1>17. ASSUME NEW s \in SUBSET Users, NEW k \in SUBSET Users,
               NEW m \in SUBSET (Users \X Workspaces), Changes(s, k, m)
        PROVE  Placed(q)'
    BY <1>17, <1>a, <1>b DEF Changes
  <1>18. CASE UNCHANGED vars
    BY <1>18, <1>a, <1>b DEF vars
  <1>19. CASE \E u \in Users : ProvisionKey(u) \/ \E w \in Workspaces : Admit(u, w)
    BY <1>19, <1>17, <1>a, GrantsChange
  <1>20. CASE Withdraw
    BY <1>20, <1>17, <1>a, GrantsChange
  <1>21. CASE \E r \in Requests : Begin(r) \/ Step(r)
    BY <1>21, <1>1, <1>2, <1>3, <1>4, <1>5, <1>6, <1>7, <1>8, <1>9, <1>10,
       <1>11, <1>12, <1>13, <1>14, <1>15, <1>16, <1>r DEF Step, Failing
  <1> QED BY <1>18, <1>19, <1>20, <1>21 DEF Next

\* The limits of pool and threads.
LEMMA NextWithin == ServerInv /\ [Next]_vars => Within'
  <1> SUFFICES ASSUME ServerInv, [Next]_vars PROVE Within'
    OBVIOUS
  <1>a. /\ holds \in SUBSET Requests /\ busy \in SUBSET Requests
        /\ PoolSize \in Nat /\ MaxThreads \in Nat
    BY LimitsAssumption DEF ServerInv, TypeOK
  <1> USE DEF ServerInv, Within
  <1>1. ASSUME NEW r \in Requests, Begin(r) PROVE Within'
    BY <1>1, <1>a DEF Begin, Goes
  <1>2. ASSUME NEW r \in Requests, Open(r) PROVE Within'
    BY <1>2, <1>a DEF Open, Goes
  <1>3. ASSUME NEW r \in Requests, TakeLoop(r) PROVE Within'
    BY <1>3, <1>a DEF TakeLoop, Goes
  <1>4. ASSUME NEW r \in Requests, TakeThread(r) PROVE Within'
    BY <1>4, <1>a, CardAdd, CardRemove DEF TakeThread, Goes
  <1>5. ASSUME NEW r \in Requests, Connect(r) PROVE Within'
    BY <1>5, <1>a, CardAdd, CardRemove DEF Connect, Goes
  <1>6. ASSUME NEW r \in Requests, Identify(r) PROVE Within'
    BY <1>6, <1>a DEF Identify, Goes
  <1>7. ASSUME NEW r \in Requests, GoIn(r) PROVE Within'
    BY <1>7, <1>a DEF GoIn, Goes
  <1>8. ASSUME NEW r \in Requests, Answer(r) PROVE Within'
    BY <1>8, <1>a, CardAdd, CardRemove DEF Answer, Leaves
  <1>9. ASSUME NEW r \in Requests, Record(r) PROVE Within'
    BY <1>9, <1>a, CardAdd, CardRemove DEF Record, Forget, Goes
  <1>10. ASSUME NEW r \in Requests, Items(r) PROVE Within'
    BY <1>10, <1>a DEF Items, Goes
  <1>11. ASSUME NEW r \in Requests, Calendar(r) PROVE Within'
    <2>1. /\ pc[r] = "calendar"
          /\ \/ Goes(r, "calendar", "model") /\ UNCHANGED <<grants, since, ai, server, answer>>
             \/ Leaves(r, "served")
      BY <1>11, CalendarGoes
    <2>2. CASE Goes(r, "calendar", "model") /\ UNCHANGED <<grants, since, ai, server, answer>>
      BY <2>1, <2>2, <1>a, CardRemove DEF Goes
    <2>3. CASE Leaves(r, "served")
      BY <2>1, <2>3, <1>a, CardRemove DEF Leaves
    <2> QED BY <2>1, <2>2, <2>3
  <1>12. ASSUME NEW r \in Requests, CalendarFails(r) PROVE Within'
    <2>1. /\ pc[r] = "calendar"
          /\ \/ Goes(r, "calendar", "model") /\ UNCHANGED <<grants, since, ai, server, answer>>
             \/ Leaves(r, "served")
      BY <1>12, CalendarGoes
    <2>2. CASE Goes(r, "calendar", "model") /\ UNCHANGED <<grants, since, ai, server, answer>>
      BY <2>1, <2>2, <1>a, CardRemove DEF Goes
    <2>3. CASE Leaves(r, "served")
      BY <2>1, <2>3, <1>a, CardRemove DEF Leaves
    <2> QED BY <2>1, <2>2, <2>3
  <1>13. ASSUME NEW r \in Requests, Generate(r) PROVE Within'
    BY <1>13, <1>a, CardAdd, CardRemove DEF Generate, Leaves
  <1>14. ASSUME NEW r \in Requests, GenerateFails(r) PROVE Within'
    BY <1>14, <1>a, CardAdd, CardRemove DEF GenerateFails, Leaves
  <1>15. ASSUME NEW r \in Requests, Leave(r) PROVE Within'
    BY <1>15, <1>a, CardAdd, CardRemove DEF Leave, Forget, Goes
  <1>r. ASSUME NEW r \in Requests, Respond(r) PROVE Within'
    BY <1>r, <1>a DEF Respond, Goes
  <1>16. ASSUME NEW r \in Requests, Failing(r) PROVE Within'
    <2>1. Fails(r) /\ pc[r] \in FailingPcs
      BY <1>16, FailingFails
    <2> QED BY <2>1, <1>a, CardRemove DEF Fails, Leaves, FailingPcs
  <1>17. ASSUME NEW s \in SUBSET Users, NEW k \in SUBSET Users,
               NEW m \in SUBSET (Users \X Workspaces), Changes(s, k, m)
        PROVE  Within'
    BY <1>17, <1>a DEF Changes
  <1>18. CASE UNCHANGED vars
    BY <1>18, <1>a DEF vars
  <1>19. CASE \E u \in Users : ProvisionKey(u) \/ \E w \in Workspaces : Admit(u, w)
    BY <1>19, <1>17, GrantsChange
  <1>20. CASE Withdraw
    BY <1>20, <1>17, GrantsChange
  <1>21. CASE \E r \in Requests : Begin(r) \/ Step(r)
    BY <1>21, <1>1, <1>2, <1>3, <1>4, <1>5, <1>6, <1>7, <1>8, <1>9, <1>10,
       <1>11, <1>12, <1>13, <1>14, <1>15, <1>16, <1>r DEF Step, Failing
  <1> QED BY <1>18, <1>19, <1>20, <1>21 DEF Next

\* What a request has shown.
LEMMA NextShown == ServerInv /\ Shows /\ [Next]_vars => Shows'
  <1> SUFFICES ASSUME ServerInv, Shows, [Next]_vars, NEW q \in Requests PROVE Shown(q)'
    BY DEF Shows
  <1>a. TypeOK /\ Placed(q) /\ Shown(q)
    BY DEF ServerInv, Places, Shows
  <1> USE DEF TypeOK, Placed, Shown, OnItsWay, Pcs
  <1>1. ASSUME NEW r \in Requests, Begin(r) PROVE Shown(q)'
    BY <1>1, <1>a DEF Begin, Goes
  <1>2. ASSUME NEW r \in Requests, Open(r) PROVE Shown(q)'
    BY <1>2, <1>a DEF Open, Goes
  <1>3. ASSUME NEW r \in Requests, TakeLoop(r) PROVE Shown(q)'
    BY <1>3, <1>a DEF TakeLoop, Goes
  <1>4. ASSUME NEW r \in Requests, TakeThread(r) PROVE Shown(q)'
    BY <1>4, <1>a DEF TakeThread, Goes
  <1>5. ASSUME NEW r \in Requests, Connect(r) PROVE Shown(q)'
    BY <1>5, <1>a DEF Connect, Goes
  <1>6. ASSUME NEW r \in Requests, Identify(r) PROVE Shown(q)'
    <2>1. Kind[r] = "admin" => Cookie(r) # None
      BY RequestsAssumption DEF Cookie
    <2>2. /\ "user" \in TitlesOf(r, sessions, keys, members)
          /\ Kind[r] = "admin" => "member" \in TitlesOf(r, sessions, keys, members)
      BY <2>1, <1>6, KnownTitles DEF Identify
    <2>3. Shown(r) /\ Placed(r) /\ since[r] \in SUBSET Titles /\ pc[r] = "identify"
      BY <1>6 DEF Shows, ServerInv, Places, Identify, Goes
    <2>4. "user" \in since[r] /\ (Kind[r] = "admin" => since[r] = Titles)
      BY <2>2, <2>3 DEF Titles
    <2>5. CASE q = r
      BY <2>4, <2>5, <1>6, <1>a DEF Identify, Goes
    <2>6. CASE q # r
      BY <2>6, <1>6, <1>a DEF Identify, Goes
    <2> QED BY <2>5, <2>6
  <1>7. ASSUME NEW r \in Requests, GoIn(r) PROVE Shown(q)'
    <2>1. "member" \in TitlesOf(r, sessions, keys, members)
      BY <1>7, KnownTitles DEF GoIn
    <2> QED BY <2>1, <1>7, <1>a DEF GoIn, Goes, Titles
  <1>8. ASSUME NEW r \in Requests, Answer(r) PROVE Shown(q)'
    BY <1>8, <1>a DEF Answer, Leaves
  <1>9. ASSUME NEW r \in Requests, Record(r) PROVE Shown(q)'
    BY <1>9, <1>a DEF Record, Forget, Goes
  <1>10. ASSUME NEW r \in Requests, Items(r) PROVE Shown(q)'
    BY <1>10, <1>a DEF Items, Goes
  <1>11. ASSUME NEW r \in Requests, Calendar(r) PROVE Shown(q)'
    <2>1. /\ pc[r] = "calendar"
          /\ \/ Goes(r, "calendar", "model") /\ UNCHANGED <<grants, since, ai, server, answer>>
             \/ Leaves(r, "served")
      BY <1>11, CalendarGoes
    <2>2. CASE Goes(r, "calendar", "model") /\ UNCHANGED <<grants, since, ai, server, answer>>
      BY <2>1, <2>2, <1>a DEF Goes
    <2>3. CASE Leaves(r, "served")
      BY <2>1, <2>3, <1>a DEF Leaves
    <2> QED BY <2>1, <2>2, <2>3
  <1>12. ASSUME NEW r \in Requests, CalendarFails(r) PROVE Shown(q)'
    <2>1. /\ pc[r] = "calendar"
          /\ \/ Goes(r, "calendar", "model") /\ UNCHANGED <<grants, since, ai, server, answer>>
             \/ Leaves(r, "served")
      BY <1>12, CalendarGoes
    <2>2. CASE Goes(r, "calendar", "model") /\ UNCHANGED <<grants, since, ai, server, answer>>
      BY <2>1, <2>2, <1>a DEF Goes
    <2>3. CASE Leaves(r, "served")
      BY <2>1, <2>3, <1>a DEF Leaves
    <2> QED BY <2>1, <2>2, <2>3
  <1>13. ASSUME NEW r \in Requests, Generate(r) PROVE Shown(q)'
    BY <1>13, <1>a DEF Generate, Leaves
  <1>14. ASSUME NEW r \in Requests, GenerateFails(r) PROVE Shown(q)'
    BY <1>14, <1>a DEF GenerateFails, Leaves
  <1>15. ASSUME NEW r \in Requests, Leave(r) PROVE Shown(q)'
    BY <1>15, <1>a DEF Leave, Forget, Goes
  <1>r. ASSUME NEW r \in Requests, Respond(r) PROVE Shown(q)'
    BY <1>r, <1>a DEF Respond, Goes
  <1>16. ASSUME NEW r \in Requests, Failing(r) PROVE Shown(q)'
    <2>1. Fails(r) /\ pc[r] \in FailingPcs
      BY <1>16, FailingFails
    <2> QED BY <2>1, <1>a DEF Fails, Leaves, FailingPcs
  <1>17. ASSUME NEW s \in SUBSET Users, NEW k \in SUBSET Users,
               NEW m \in SUBSET (Users \X Workspaces), Changes(s, k, m)
        PROVE  Shown(q)'
    <2>1. TitlesOf(q, s, k, m) \subseteq Titles
      BY DEF TitlesOf
    <2>2. since'[q] = IF OnItsWay(q) THEN since[q] \cup TitlesOf(q, s, k, m) ELSE {}
      BY <1>17 DEF Changes
    <2>3. TitlesOf(q, s, k, m) = TitlesOf(q, sessions', keys', members')
      BY <1>17 DEF Changes
    <2> QED BY <2>1, <2>2, <2>3, <1>17, <1>a DEF Changes
  <1>18. CASE UNCHANGED vars
    BY <1>18, <1>a DEF vars
  <1>19. CASE \E u \in Users : ProvisionKey(u) \/ \E w \in Workspaces : Admit(u, w)
    BY <1>19, <1>17, <1>a, GrantsChange
  <1>20. CASE Withdraw
    BY <1>20, <1>17, <1>a, GrantsChange
  <1>21. CASE \E r \in Requests : Begin(r) \/ Step(r)
    BY <1>21, <1>1, <1>2, <1>3, <1>4, <1>5, <1>6, <1>7, <1>8, <1>9, <1>10,
       <1>11, <1>12, <1>13, <1>14, <1>15, <1>16, <1>r DEF Step, Failing
  <1> QED BY <1>18, <1>19, <1>20, <1>21 DEF Next

\* What a brief tells.
LEMMA NextTold == ServerInv /\ Tells /\ [Next]_vars => Tells'
  <1> SUFFICES ASSUME ServerInv, Tells, [Next]_vars, NEW q \in Requests PROVE Told(q)'
    BY DEF Tells
  <1>a. TypeOK /\ Placed(q) /\ Told(q)
    BY DEF ServerInv, Places, Tells
  <1> USE DEF TypeOK, Placed, Told, Pcs
  <1>1. ASSUME NEW r \in Requests, Begin(r) PROVE Told(q)'
    BY <1>1, <1>a DEF Begin, Goes
  <1>2. ASSUME NEW r \in Requests, Open(r) PROVE Told(q)'
    BY <1>2, <1>a DEF Open, Goes
  <1>3. ASSUME NEW r \in Requests, TakeLoop(r) PROVE Told(q)'
    BY <1>3, <1>a DEF TakeLoop, Goes
  <1>4. ASSUME NEW r \in Requests, TakeThread(r) PROVE Told(q)'
    BY <1>4, <1>a DEF TakeThread, Goes
  <1>5. ASSUME NEW r \in Requests, Connect(r) PROVE Told(q)'
    BY <1>5, <1>a DEF Connect, Goes
  <1>6. ASSUME NEW r \in Requests, Identify(r) PROVE Told(q)'
    BY <1>6, <1>a DEF Identify, Goes
  <1>7. ASSUME NEW r \in Requests, GoIn(r) PROVE Told(q)'
    BY <1>7, <1>a DEF GoIn, Goes
  <1>8. ASSUME NEW r \in Requests, Answer(r) PROVE Told(q)'
    BY <1>8, <1>a DEF Answer, Leaves
  <1>9. ASSUME NEW r \in Requests, Record(r) PROVE Told(q)'
    BY <1>9, <1>a DEF Record, Forget, Goes
  <1>10. ASSUME NEW r \in Requests, Items(r) PROVE Told(q)'
    <2>1. PICK some \in BOOLEAN :
             brief' = [brief EXCEPT ![r] = [brief[r] EXCEPT !.records = some]]
      BY <1>10 DEF Items
    <2>2. CASE q = r
      <3>1. brief[r] = BlankBrief /\ brief'[r] = [BlankBrief EXCEPT !.records = some]
        BY <1>a, <2>1, <2>2, <1>10 DEF Items, Goes
      <3>2. brief'[r] = [BlankBrief EXCEPT !.records = brief'[r].records]
        BY <3>1 DEF BlankBrief
      <3> QED BY <3>2, <2>2, <1>10, <1>a DEF Items, Goes
    <2>3. CASE q # r
      BY <2>1, <2>3, <1>10, <1>a DEF Items, Goes
    <2> QED BY <2>2, <2>3
  <1>11. ASSUME NEW r \in Requests, Calendar(r) PROVE Told(q)'
    <2>1. PICK page \in Pages, c \in {"zero", "some"}, m \in BOOLEAN,
                s \in {"no events", "events", "at least"} :
             /\ c = "zero" <=> page \in {"empty", "emptyPage"}
             /\ m <=> page \in {"emptyPage", "firstPage"}
             /\ s = "no events" <=> page \in {"empty", "emptyPage"}
             /\ s = "events" <=> page = "all"
             /\ CalendarIs(r, [brief[r] EXCEPT !.count = c, !.more = m, !.says = s], page, page)
      BY <1>11, CalendarTells
    <2> DEFINE b == [brief[r] EXCEPT !.count = c, !.more = m, !.says = s]
               hinted(h) == [b EXCEPT !.hint = h]
    <2>a. CalendarIs(r, b, page, page)
      BY <2>1
    <2>2. /\ pc[r] = "calendar" /\ model[r] = "unasked" /\ model' = model
          /\ brief[r] = [BlankBrief EXCEPT !.records = brief[r].records]
          /\ google' = [google EXCEPT ![r] = page]
      <3>1. Told(r)
        BY DEF Tells
      <3>2. pc[r] = "calendar"
        BY <1>11, CalendarGoes
      <3> HIDE DEF b
      <3> QED BY <2>a, <3>1, <3>2 DEF CalendarIs
    <2>3. brief[r] \in Brief /\ b \in Brief
      <3>1. brief[r] \in Brief
        BY <1>a
      <3> QED BY <3>1 DEF Brief
    <2>4. OfCalendar(b, page) /\ OfModel(b, "unasked")
      BY <2>1, <2>2 DEF OfCalendar, OfModel, BlankBrief, Pages
    <2>5. ASSUME NEW h \in {"not enabled", "none"}
          PROVE  OfCalendar(hinted(h), page) /\ OfModel(hinted(h), "unasked")
      <3> HIDE DEF b
      <3> QED BY <2>3, <2>4 DEF OfCalendar, OfModel, Brief
    <2>6. \/ brief' = [brief EXCEPT ![r] = b]
          \/ \E h \in {"not enabled", "none"} : brief' = [brief EXCEPT ![r] = hinted(h)]
      <3> HIDE DEF b
      <3> QED BY <2>a DEF CalendarIs, Continues
    <2> HIDE DEF b, hinted
    <2>7. /\ OfCalendar(brief'[r], google'[r]) /\ OfModel(brief'[r], model'[r])
          /\ \A x \in Requests : x # r => brief'[x] = brief[x] /\ google'[x] = google[x]
      <3>1. brief \in [Requests -> Brief] /\ google \in [Requests -> Pages \cup {"unasked", "failed"}]
        BY <1>a
      <3> HIDE DEF TypeOK, Told, Placed
      <3> QED BY <2>2, <2>4, <2>5, <2>6, <3>1
    <2>8. \/ Goes(r, "calendar", "model") /\ UNCHANGED answer
          \/ Leaves(r, "served")
      BY <1>11, CalendarGoes
    <2>9. CASE q = r
      BY <2>2, <2>7, <2>8, <2>9, <1>a DEF Goes, Leaves
    <2>10. CASE q # r
      BY <2>2, <2>7, <2>8, <2>10, <1>a DEF Goes, Leaves
    <2> QED BY <2>9, <2>10
  <1>12. ASSUME NEW r \in Requests, CalendarFails(r) PROVE Told(q)'
    <2> DEFINE b == [brief[r] EXCEPT !.notice = TRUE, !.says = "unavailable"]
               hinted(h) == [b EXCEPT !.hint = h]
    <2>a. CalendarIs(r, b, "empty", "failed")
      BY <1>12 DEF CalendarFails, CalendarIs
    <2>2. /\ pc[r] = "calendar" /\ model[r] = "unasked" /\ model' = model
          /\ brief[r] = [BlankBrief EXCEPT !.records = brief[r].records]
          /\ google' = [google EXCEPT ![r] = "failed"]
      <3>1. Told(r)
        BY DEF Tells
      <3>2. pc[r] = "calendar"
        BY <1>12, CalendarGoes
      <3> HIDE DEF b
      <3> QED BY <2>a, <3>1, <3>2 DEF CalendarIs
    <2>3. brief[r] \in Brief /\ b \in Brief
      <3>1. brief[r] \in Brief
        BY <1>a
      <3> QED BY <3>1 DEF Brief
    <2>4. OfCalendar(b, "failed") /\ OfModel(b, "unasked")
      BY <2>2 DEF OfCalendar, OfModel, BlankBrief, Pages
    <2>5. ASSUME NEW h \in {"not enabled", "none"}
          PROVE  OfCalendar(hinted(h), "failed") /\ OfModel(hinted(h), "unasked")
      <3> HIDE DEF b
      <3> QED BY <2>3, <2>4 DEF OfCalendar, OfModel, Brief
    <2>6. \/ brief' = [brief EXCEPT ![r] = b]
          \/ \E h \in {"not enabled", "none"} : brief' = [brief EXCEPT ![r] = hinted(h)]
      <3> HIDE DEF b
      <3> QED BY <2>a DEF CalendarIs, Continues
    <2> HIDE DEF b, hinted
    <2>7. /\ OfCalendar(brief'[r], google'[r]) /\ OfModel(brief'[r], model'[r])
          /\ \A x \in Requests : x # r => brief'[x] = brief[x] /\ google'[x] = google[x]
      <3>1. brief \in [Requests -> Brief] /\ google \in [Requests -> Pages \cup {"unasked", "failed"}]
        BY <1>a
      <3> HIDE DEF TypeOK, Told, Placed
      <3> QED BY <2>2, <2>4, <2>5, <2>6, <3>1
    <2>8. \/ Goes(r, "calendar", "model") /\ UNCHANGED answer
          \/ Leaves(r, "served")
      BY <1>12, CalendarGoes
    <2>9. CASE q = r
      BY <2>2, <2>7, <2>8, <2>9, <1>a DEF Goes, Leaves
    <2>10. CASE q # r
      BY <2>2, <2>7, <2>8, <2>10, <1>a DEF Goes, Leaves
    <2> QED BY <2>9, <2>10
  <1>13. ASSUME NEW r \in Requests, Generate(r) PROVE Told(q)'
    <2>1. CASE q = r
      <3>1. brief[r] \in Brief /\ OfCalendar(brief[r], google[r]) /\ OfModel(brief[r], "unasked")
        BY <1>a, <2>1, <1>13 DEF Generate
      <3>2. brief'[r] = [brief[r] EXCEPT !.text = "generated", !.source = "ai"]
        BY <1>a, <1>13 DEF Generate
      <3>3. OfCalendar(brief'[r], google[r]) /\ OfModel(brief'[r], "finished")
        BY <3>1, <3>2 DEF OfCalendar, OfModel, Brief
      <3> QED BY <3>3, <2>1, <1>13, <1>a DEF Generate, Leaves
    <2>2. CASE q # r
      BY <2>2, <1>13, <1>a DEF Generate, Leaves
    <2> QED BY <2>1, <2>2
  <1>14. ASSUME NEW r \in Requests, GenerateFails(r) PROVE Told(q)'
    <2>1. CASE q = r
      <3>1. brief[r] \in Brief /\ OfCalendar(brief[r], google[r]) /\ OfModel(brief[r], "unasked")
        BY <1>a, <2>1, <1>14 DEF GenerateFails
      <3>2. brief'[r] = [brief[r] EXCEPT !.hint = "unavailable"]
        BY <1>a, <1>14 DEF GenerateFails
      <3>3. OfCalendar(brief'[r], google[r]) /\ OfModel(brief'[r], "failed")
        BY <3>1, <3>2 DEF OfCalendar, OfModel, Brief
      <3> QED BY <3>3, <2>1, <1>14, <1>a DEF GenerateFails, Leaves
    <2>2. CASE q # r
      BY <2>2, <1>14, <1>a DEF GenerateFails, Leaves
    <2> QED BY <2>1, <2>2
  <1>15. ASSUME NEW r \in Requests, Leave(r) PROVE Told(q)'
    BY <1>15, <1>a DEF Leave, Forget, Goes
  <1>r. ASSUME NEW r \in Requests, Respond(r) PROVE Told(q)'
    BY <1>r, <1>a DEF Respond, Goes
  <1>16. ASSUME NEW r \in Requests, Failing(r) PROVE Told(q)'
    <2>1. Fails(r) /\ pc[r] \in FailingPcs
      BY <1>16, FailingFails
    <2> QED BY <2>1, <1>a DEF Fails, Leaves, FailingPcs
  <1>17. ASSUME NEW s \in SUBSET Users, NEW k \in SUBSET Users,
               NEW m \in SUBSET (Users \X Workspaces), Changes(s, k, m)
        PROVE  Told(q)'
    BY <1>17, <1>a DEF Changes
  <1>18. CASE UNCHANGED vars
    BY <1>18, <1>a DEF vars
  <1>19. CASE \E u \in Users : ProvisionKey(u) \/ \E w \in Workspaces : Admit(u, w)
    BY <1>19, <1>17, <1>a, GrantsChange
  <1>20. CASE Withdraw
    BY <1>20, <1>17, <1>a, GrantsChange
  <1>21. CASE \E r \in Requests : Begin(r) \/ Step(r)
    BY <1>21, <1>1, <1>2, <1>3, <1>4, <1>5, <1>6, <1>7, <1>8, <1>9, <1>10,
       <1>11, <1>12, <1>13, <1>14, <1>15, <1>16, <1>r DEF Step, Failing
  <1> QED BY <1>18, <1>19, <1>20, <1>21 DEF Next

-----------------------------------------------------------------------------

\* Every variable has its type.
THEOREM TypeCorrect == Spec => []TypeOK
  <1>1. Init => ServerInv
    BY InitServer
  <1>2. ServerInv /\ [Next]_vars => ServerInv'
    BY NextType, NextPlaces, NextWithin DEF ServerInv
  <1>3. ServerInv => TypeOK
    BY DEF ServerInv
  <1> QED BY <1>1, <1>2, <1>3, PTL DEF Spec

\* Loop, threads and connections come back, whatever fails: the loop is kept for
\* the database only, and a request that has ended has nothing.
THEOREM ComeBack == Spec => []ResourcesComeBack
  <1>1. Init => ServerInv
    BY InitServer
  <1>2. ServerInv /\ [Next]_vars => ServerInv'
    BY NextType, NextPlaces, NextWithin DEF ServerInv
  <1>3. ServerInv => ResourcesComeBack
    BY DEF ServerInv, Places, Placed, Within, ResourcesComeBack, TypeOK
  <1> QED BY <1>1, <1>2, <1>3, PTL DEF Spec

\* Nobody is answered who was not entitled to the answer while he waited for it.
THEOREM Entitled == Spec => []ServedWereEntitled
  <1>1. Init => ServerInv /\ Shows
    BY InitServer, InitShown
  <1>2. ServerInv /\ Shows /\ [Next]_vars => (ServerInv /\ Shows)'
    BY NextType, NextPlaces, NextWithin, NextShown DEF ServerInv
  <1>3. ServerInv /\ Shows => ServedWereEntitled
    BY DEF Shows, Shown, ServedWereEntitled
  <1> QED BY <1>1, <1>2, <1>3, PTL DEF Spec

\* A brief says of calendar and model what became of them.
THEOREM Honest == Spec => []BriefsAreHonest
  <1>1. Init => ServerInv /\ Tells
    BY InitServer, InitShown
  <1>2. ServerInv /\ Tells /\ [Next]_vars => (ServerInv /\ Tells)'
    BY NextType, NextPlaces, NextWithin, NextTold DEF ServerInv
  <1>3. ServerInv /\ Tells => BriefsAreHonest
    BY DEF Tells, Told, OfCalendar, OfModel, BriefsAreHonest
  <1> QED BY <1>1, <1>2, <1>3, PTL DEF Spec
-----------------------------------------------------------------------------
(***************************************************************************)
(* Why every request ends.  Somebody can always go on, if only by the      *)
(* pool's timeout, and who goes on comes closer to his end; that he does   *)
(* go on is the fairness of FairSpec and left to TLC (EveryRequestEnds).   *)
(***************************************************************************)
\* Who is on his way and has what his next step needs: the loop, a thread, a
\* connection; or, at the database, at Google and at the model, an answer or a
\* failure that comes of itself.
CanGo(r) ==
    /\ r \in OnWay
    /\ pc[r] \in {"ready", "respond", "leave"} => loop = None
    /\ pc[r] \in {"open", "queued", "respond"} => Cardinality(busy) < MaxThreads
    /\ pc[r] = "connect" => Cardinality(holds) < PoolSize

\* The one circle requests can wait in goes through the pool, and needs more requests
\* than it has connections: whoever keeps the loop or a thread waits for a
\* connection, and who has one waits for the loop or a thread.
OnlyThePoolCloses ==
    OnWay # {} /\ (\A r \in OnWay : ~CanGo(r)) =>
        /\ Cardinality(OnWay) > PoolSize
        /\ Cardinality(holds) = PoolSize
        /\ loop # None \/ busy # {}
        /\ \A r \in Requests : loop = r \/ r \in busy => pc[r] = "connect"
        /\ \A r \in holds : pc[r] \in {"queued", "respond", "leave"}

\* For any pool, any threads and any requests: when nobody can go on, more requests are
\* on their way than the pool has connections, all of these are taken by who waits
\* for the loop or a thread, and who keeps the loop or a thread waits for one of
\* them (the coroutines of deps.py and get_db, and their threads), which the pool's
\* timeout ends.  The loop and the threads alone are never waited for in a circle.
THEOREM PoolCloses == Spec => []OnlyThePoolCloses
  <1>1. Init => ServerInv
    BY InitServer
  <1>2. ServerInv /\ [Next]_vars => ServerInv'
    BY NextType, NextPlaces, NextWithin DEF ServerInv
  <1>3. ServerInv => OnlyThePoolCloses
    <2> SUFFICES ASSUME ServerInv, OnWay # {}, \A r \in OnWay : ~CanGo(r)
                 PROVE  /\ Cardinality(OnWay) > PoolSize
                        /\ Cardinality(holds) = PoolSize
                        /\ loop # None \/ busy # {}
                        /\ \A r \in Requests : loop = r \/ r \in busy => pc[r] = "connect"
                        /\ \A r \in holds : pc[r] \in {"queued", "respond", "leave"}
      BY DEF OnlyThePoolCloses
    <2>a. TypeOK /\ Within /\ \A r \in Requests : Placed(r)
      BY DEF ServerInv, Places
    <2>b. PoolSize \in Nat /\ MaxThreads \in Nat \ {0}
      BY LimitsAssumption
    <2>1. ASSUME NEW r \in Requests, loop = r \/ r \in busy
          PROVE  r \in OnWay /\ pc[r] = "connect" /\ r \notin holds
      <3>1. HasLoop(r) \/ HasThread(r)
        BY <2>1, <2>a DEF Placed
      <3>2. r \in OnWay
        BY <3>1 DEF HasLoop, HasThread, OnWay
      <3>3. pc[r] = "connect"
        BY <3>1, <3>2 DEF HasLoop, HasThread, CanGo
      <3> QED BY <3>2, <3>3, <2>a DEF Placed
    <2>2. loop # None \/ busy # {}
      <3> SUFFICES ASSUME loop = None, busy = {} PROVE FALSE
        OBVIOUS
      <3>1. Cardinality(busy) < MaxThreads
        BY FS_EmptySet, <2>b
      <3>2. PICK r \in OnWay : pc[r] = "connect"
        <4>1. PICK r \in OnWay : TRUE
          OBVIOUS
        <4> QED BY <4>1, <3>1 DEF CanGo
      <3>3. r \in Requests /\ (HasLoop(r) \/ HasThread(r))
        BY <3>2, <2>a, RequestsAssumption DEF OnWay, HasLoop, HasThread
      <3> QED BY <3>2, <3>3, <2>a, NoneAssumption DEF Placed, OnWay
    <2>3. PICK q \in Requests : loop = q \/ q \in busy
      BY <2>2, <2>a DEF TypeOK
    <2>4. q \in OnWay /\ pc[q] = "connect" /\ q \notin holds
      BY <2>1, <2>3
    <2>5. Cardinality(holds) = PoolSize
      <3>1. ~(Cardinality(holds) < PoolSize)
        BY <2>4 DEF CanGo
      <3>2. Cardinality(holds) \in Nat
        BY <2>a, FS_Subset, FS_CardinalityType, RequestsAssumption DEF TypeOK
      <3> QED BY <3>1, <3>2, <2>a, <2>b DEF Within
    <2>6. ASSUME NEW r \in holds
          PROVE  r \in OnWay /\ pc[r] \in {"queued", "respond", "leave"}
      <3>1. r \in Requests /\ pc[r] \notin {"new", "open", "ready", "connect", "ended"}
        BY <2>a DEF TypeOK, Placed
      <3>2. r \in OnWay
        BY <3>1 DEF OnWay
      <3> QED BY <3>1, <3>2 DEF CanGo
    <2>7. Cardinality(OnWay) > PoolSize
      <3>1. IsFiniteSet(holds) /\ IsFiniteSet(OnWay)
        BY <2>a, FS_Subset, RequestsAssumption DEF TypeOK, OnWay
      <3>2. IsFiniteSet(holds \cup {q}) /\ Cardinality(holds \cup {q}) = PoolSize + 1
        BY <3>1, <2>4, <2>5, FS_AddElement
      <3>3. holds \cup {q} \subseteq OnWay
        BY <2>4, <2>6
      <3>4. Cardinality(holds \cup {q}) <= Cardinality(OnWay)
        BY <3>1, <3>3, FS_Subset
      <3>5. Cardinality(OnWay) \in Nat
        BY <3>1, FS_CardinalityType
      <3> QED BY <3>2, <3>4, <3>5, <2>b
    <2> QED BY <2>1, <2>2, <2>5, <2>6, <2>7
  <1> QED BY <1>1, <1>2, <1>3, PTL DEF Spec

\* How many steps a request of this kind has before it at this place, at most.
Left(kind, place) ==
    CASE place = "ended"    -> 0
      [] place = "leave"    -> 1
      [] place = "respond"  -> 2
      [] place = "model"    -> 3
      [] place \in {"calendar", "query", "report", "record"} -> 4
      [] place = "items"    -> 5
      [] place = "queued"   -> IF kind = "brief" THEN 6 ELSE 10
      [] place = "admit"    -> 7
      [] place = "identify" -> 8
      [] place = "connect"  -> 9
      [] place = "ready"    -> 10
      [] place = "open"     -> 11
      [] place = "new"      -> 12

StepsLeft(r) == Left(Kind[r], pc[r])

\* One request takes a step of those it has left, and the others stay where they are.
Advances(r) ==
    /\ StepsLeft(r)' < StepsLeft(r)
    /\ \A q \in Requests : q # r => pc'[q] = pc[q]

\* The count is between 0, at the end, and 12, before the beginning.
LEMMA StepsAreCounted ==
  ASSUME NEW kind, NEW place \in Pcs
  PROVE  Left(kind, place) \in 0 .. 12 /\ (Left(kind, place) = 0 <=> place = "ended")
  <1>1. /\ Left(kind, "ended") = 0 /\ Left(kind, "leave") = 1 /\ Left(kind, "respond") = 2
        /\ Left(kind, "model") = 3 /\ Left(kind, "calendar") = 4 /\ Left(kind, "query") = 4
        /\ Left(kind, "report") = 4 /\ Left(kind, "record") = 4 /\ Left(kind, "items") = 5
    BY DEF Left
  <1>2. Left(kind, "queued") \in {6, 10}
    BY DEF Left
  <1>3. /\ Left(kind, "admit") = 7 /\ Left(kind, "identify") = 8
        /\ Left(kind, "connect") = 9 /\ Left(kind, "ready") = 10
        /\ Left(kind, "open") = 11 /\ Left(kind, "new") = 12
    BY DEF Left
  <1> QED BY <1>1, <1>2, <1>3 DEF Pcs

\* A request that goes to a place with fewer steps before it advances.
LEMMA GoingAdvances ==
  ASSUME ServerInv, NEW r \in Requests, NEW from, NEW to, Goes(r, from, to),
         Left(Kind[r], to) < Left(Kind[r], from)
  PROVE  Advances(r)
  <1>1. pc[r] = from /\ pc'[r] = to /\ \A q \in Requests : q # r => pc'[q] = pc[q]
    BY DEF Goes, ServerInv, TypeOK
  <1>2. StepsLeft(r) = Left(Kind[r], from) /\ StepsLeft(r)' = Left(Kind[r], to)
    BY <1>1 DEF StepsLeft
  <1> QED BY <1>1, <1>2 DEF Advances

\* So does one that returns or raises.
LEMMA LeavingAdvances ==
  ASSUME ServerInv, NEW r \in Requests, NEW a, Leaves(r, a),
         pc[r] \notin {"ended", "leave", "respond"}
  PROVE  Advances(r)
  <1> DEFINE to == IF a = "served" /\ Kind[r] = "brief" THEN "respond" ELSE "leave"
  <1>1. pc[r] \in Pcs /\ Goes(r, pc[r], to)
    BY DEF Leaves, Goes, ServerInv, TypeOK
  <1>2. Left(Kind[r], to) \in {1, 2}
    BY DEF Left
  <1>3. Left(Kind[r], pc[r]) > 2
    <2>1. CASE pc[r] \in {"new", "open", "ready", "queued", "connect", "identify", "admit"}
      BY <2>1 DEF Left
    <2>2. CASE pc[r] \in {"query", "record", "report", "items", "calendar", "model"}
      BY <2>2 DEF Left
    <2> QED BY <1>1, <2>1, <2>2 DEF Pcs
  <1> HIDE DEF to
  <1>4. Left(Kind[r], to) < Left(Kind[r], pc[r])
    BY <1>1, <1>2, <1>3, StepsAreCounted
  <1> QED BY <1>1, <1>4, GoingAdvances

\* Each action of a request is a step to a place with fewer before it.
LEMMA StepAdvances ==
  ASSUME ServerInv, NEW r \in Requests, Begin(r) \/ Step(r)
  PROVE  Advances(r)
  <1>a. Kind[r] \in Kinds
    BY RequestsAssumption
  <1>1. CASE Begin(r)
    <2>1. Goes(r, "new", IF Kind[r] = "hook" THEN "ready" ELSE "open")
      BY <1>1 DEF Begin
    <2> QED BY <2>1, GoingAdvances DEF Left
  <1>2. CASE Open(r)
    <2>1. Goes(r, "open", IF Kind[r] = "admin" THEN "queued" ELSE "ready")
      BY <1>2 DEF Open
    <2> QED BY <2>1, GoingAdvances DEF Left
  <1>3. CASE TakeLoop(r)
    <2>1. Goes(r, "ready", "connect")
      BY <1>3 DEF TakeLoop
    <2> QED BY <2>1, GoingAdvances DEF Left
  <1>4. CASE TakeThread(r)
    <2>1. Goes(r, "queued", IF Kind[r] = "brief" THEN "items" ELSE "connect")
      BY <1>4 DEF TakeThread
    <2> QED BY <2>1, GoingAdvances DEF Left
  <1>5. CASE Connect(r)
    <2>1. Goes(r, "connect", IF Kind[r] = "hook" THEN "record" ELSE "identify")
      BY <1>5 DEF Connect
    <2> QED BY <2>1, GoingAdvances DEF Left
  <1>6. CASE Identify(r)
    <2>1. Goes(r, "identify", IF Kind[r] = "admin" THEN "report" ELSE "admit")
      BY <1>6 DEF Identify
    <2> QED BY <2>1, GoingAdvances DEF Left
  <1>7. CASE GoIn(r)
    <2>1. Goes(r, "admit", IF Kind[r] = "brief" THEN "queued" ELSE "query")
      BY <1>7 DEF GoIn
    <2> QED BY <2>1, GoingAdvances DEF Left
  <1>8. CASE Answer(r)
    BY <1>8, LeavingAdvances DEF Answer
  <1>9. CASE Failing(r)
    BY <1>9, LeavingAdvances, FailingFails DEF Fails, FailingPcs
  <1>10. CASE Record(r)
    <2>1. Goes(r, "record", "ended")
      BY <1>10 DEF Record
    <2> QED BY <2>1, GoingAdvances DEF Left
  <1>11. CASE Items(r)
    <2>1. Goes(r, "items", "calendar")
      BY <1>11 DEF Items
    <2> QED BY <2>1, GoingAdvances DEF Left
  <1>12. CASE Calendar(r) \/ CalendarFails(r)
    <2>1. CASE Goes(r, "calendar", "model")
      BY <2>1, GoingAdvances DEF Left
    <2> QED BY <2>1, <1>12, LeavingAdvances, CalendarGoes
  <1>13. CASE Generate(r) \/ GenerateFails(r)
    BY <1>13, LeavingAdvances DEF Generate, GenerateFails
  <1>14. CASE Leave(r)
    <2>1. Goes(r, "leave", "ended")
      BY <1>14 DEF Leave
    <2> QED BY <2>1, GoingAdvances DEF Left
  <1>15. CASE Respond(r)
    <2>1. Goes(r, "respond", "leave")
      BY <1>15 DEF Respond
    <2> QED BY <2>1, GoingAdvances DEF Left
  <1> QED
    BY <1>1, <1>2, <1>3, <1>4, <1>5, <1>6, <1>7, <1>8, <1>9, <1>10, <1>11, <1>12, <1>13,
       <1>14, <1>15 DEF Step, Failing

\* Every step is one of a request that comes closer to its end, which it reaches after
\* twelve at most, or a change of who may read what, of which there are MaxChanges.
EveryStepCounts ==
    [][\/ \E r \in Requests : Advances(r)
       \/ changes' = changes + 1 /\ UNCHANGED pc]_vars

\* No request goes in a circle: however it fails or waits, each of its steps is one of
\* the twelve it has at most, so it ends if it goes on at all.
THEOREM StepsRunOut == Spec => EveryStepCounts
  <1>1. Init => ServerInv
    BY InitServer
  <1>2. ServerInv /\ [Next]_vars => ServerInv'
    BY NextType, NextPlaces, NextWithin DEF ServerInv
  <1>3. ServerInv /\ [Next]_vars =>
          [\/ \E r \in Requests : Advances(r)
           \/ changes' = changes + 1 /\ UNCHANGED pc]_vars
    <2> SUFFICES ASSUME ServerInv, Next
                 PROVE  \/ \E r \in Requests : Advances(r)
                        \/ changes' = changes + 1 /\ UNCHANGED pc
      OBVIOUS
    <2>1. CASE \E r \in Requests : Begin(r) \/ Step(r)
      BY <2>1, StepAdvances
    <2>2. CASE \/ \E u \in Users : ProvisionKey(u) \/ \E w \in Workspaces : Admit(u, w)
               \/ Withdraw
      BY <2>2, GrantsChange DEF Changes, ServerInv
    <2> QED BY <2>1, <2>2 DEF Next
  <1> QED BY <1>1, <1>2, <1>3, PTL DEF Spec, EveryStepCounts
=============================================================================
