------------------------ MODULE GoogleConnectionProofs ------------------------
(***************************************************************************)
(* For any users, threads, tokens and keys, and any faults.                *)
(***************************************************************************)
EXTENDS GoogleConnection, TLAPS

\* A token in hand was granted for the user whose request the thread handles.
InHand ==
    \A t \in Threads :
        pc[t] \in {"tables", "create", "select", "write", "call"} =>
            grant[token[t]] = user[t]
OwnInv == InHand /\ OwnCredentials

\* A thread that has found a credential, and has not been disturbed, still finds it.
FoundStays ==
    \A t \in Threads :
        pc[t] = "write" /\ found[t] /\ ~disturbed[t] => row[user[t]] # Nothing
HoldInv == FoundStays /\ ConnectionHolds

\* One thread at most makes a change of a user, who has no success yet.
OneCall ==
    /\ \A t1, t2 \in Threads :
           pc[t1] \in CallPcs /\ pc[t2] \in CallPcs /\ user[t1] = user[t2] => t1 = t2
    /\ \A t \in Threads : pc[t] \in CallPcs => answer[user[t]] # "done"

\* As long as a user is sure, his change is applied if he was told so, and only then.
Counted ==
    \A u \in Users :
        /\ answer[u] = "done" => copies[u] > 0
        /\ ~unsure[u] => late[u] = 0
        /\ ~unsure[u] => copies[u] = (IF answer[u] = "done" THEN 1 ELSE 0)

USE NothingAssumption

-----------------------------------------------------------------------------
LEMMA InitInv == Init => TypeOK /\ OwnInv /\ HoldInv /\ OneCall /\ Counted
  <1> SUFFICES ASSUME Init PROVE TypeOK /\ OwnInv /\ HoldInv /\ OneCall /\ Counted
    OBVIOUS
  <1>1. TypeOK
    BY DEF Init, TypeOK, Pcs, SavePcs, CallPcs, Answers
  <1>2. OwnInv
    BY DEF Init, OwnInv, InHand, OwnCredentials
  <1>3. HoldInv
    BY DEF Init, HoldInv, FoundStays, ConnectionHolds
  <1>4. OneCall
    BY DEF Init, OneCall, CallPcs
  <1>5. Counted
    BY DEF Init, Counted
  <1> QED BY <1>1, <1>2, <1>3, <1>4, <1>5

\* Types, and what a thread has come to.
LEMMA NextType == TypeOK /\ [Next]_vars => TypeOK'
  <1> SUFFICES ASSUME TypeOK, [Next]_vars PROVE TypeOK'
    OBVIOUS
  <1> USE DEF TypeOK, Credentials, Pcs, SavePcs, CallPcs, Answers,
              credential, server, google, change
  <1>1. ASSUME NEW t \in Threads, NEW u \in Users, BeginSave(t, u) PROVE TypeOK'
    BY <1>1 DEF BeginSave, Begins, Goes
  <1>2. ASSUME NEW t \in Threads, NEW u \in Users, BeginChange(t, u) PROVE TypeOK'
    BY <1>2 DEF BeginChange, Begins, Goes
  <1>3. ASSUME NEW t \in Threads, NEW u \in Users, Retry(t, u) PROVE TypeOK'
    BY <1>3 DEF Retry, Begins, Goes
  <1>4. ASSUME NEW t \in Threads, Exchange(t) PROVE TypeOK'
    BY <1>4 DEF Exchange, Goes
  <1>5. ASSUME NEW t \in Threads, NotGranted(t) PROVE TypeOK'
    BY <1>5 DEF NotGranted, Ends
  <1>6. ASSUME NEW t \in Threads, LookForTable(t) PROVE TypeOK'
    BY <1>6 DEF LookForTable, Goes
  <1>7. ASSUME NEW t \in Threads, CreateTable(t) PROVE TypeOK'
    BY <1>7 DEF CreateTable, Goes
  <1>8. ASSUME NEW t \in Threads, CreateFails(t) PROVE TypeOK'
    BY <1>8 DEF CreateFails, Ends
  <1>9. ASSUME NEW t \in Threads, Select(t) PROVE TypeOK'
    BY <1>9 DEF Select, Goes
  <1>10. ASSUME NEW t \in Threads, Insert(t) PROVE TypeOK'
    <2>1. user[t] \in Users /\ token[t] \in Tokens /\ key \in Keys
      BY <1>10 DEF Insert
    <2>2. [token |-> token[t], key |-> key] \in Credentials
      BY <2>1
    <2> QED BY <1>10, <2>1, <2>2 DEF Insert, Saves, Ends
  <1>11. ASSUME NEW t \in Threads, InsertFails(t) PROVE TypeOK'
    BY <1>11 DEF InsertFails, Ends
  <1>12. ASSUME NEW t \in Threads, Update(t) PROVE TypeOK'
    <2>1. user[t] \in Users /\ token[t] \in Tokens /\ key \in Keys
      BY <1>12 DEF Update
    <2>2. [token |-> token[t], key |-> key] \in Credentials
      BY <2>1
    <2> QED BY <1>12, <2>1, <2>2 DEF Update, Saves, Ends
  <1>13. ASSUME NEW t \in Threads, UpdateNothing(t) PROVE TypeOK'
    BY <1>13 DEF UpdateNothing, Ends
  <1>14. ASSUME NEW t \in Threads, SaveFails(t) PROVE TypeOK'
    BY <1>14 DEF SaveFails, Ends
  <1>15. ASSUME NEW t \in Threads, Load(t) PROVE TypeOK'
    <2>1. user[t] \in Users /\ row[user[t]] \in Credentials
      BY <1>15 DEF Load, Goes, Readable
    <2>2. row[user[t]].token \in Tokens
      BY <2>1
    <2> QED BY <1>15, <2>1, <2>2 DEF Load, Goes
  <1>16. ASSUME NEW t \in Threads, NotLoaded(t) PROVE TypeOK'
    BY <1>16 DEF NotLoaded, Answer, Ends
  <1>17. ASSUME NEW t \in Threads, Done(t) PROVE TypeOK'
    BY <1>17 DEF Done, Answer, Ends
  <1>18. ASSUME NEW t \in Threads, Refused(t) PROVE TypeOK'
    BY <1>18 DEF Refused, Answer, Ends
  <1>19. ASSUME NEW t \in Threads, Unknown(t) PROVE TypeOK'
    BY <1>19 DEF Unknown, MaybeApplied, Answer, Ends
  <1>20. ASSUME NEW u \in Users, Disconnect(u) PROVE TypeOK'
    BY <1>20 DEF Disconnect
  <1>21. ASSUME NEW u \in Users, ApplyLate(u) PROVE TypeOK'
    BY <1>21 DEF ApplyLate
  <1>22. ASSUME NEW g \in Tokens, Revoke(g) PROVE TypeOK'
    BY <1>22 DEF Revoke
  <1>23. ASSUME Restart PROVE TypeOK'
    BY <1>23 DEF Restart
  <1>24. CASE UNCHANGED vars
    BY <1>24 DEF vars
  <1> QED
    BY <1>1, <1>2, <1>3, <1>4, <1>5, <1>6, <1>7, <1>8, <1>9, <1>10, <1>11,
       <1>12, <1>13, <1>14, <1>15, <1>16, <1>17, <1>18, <1>19, <1>20, <1>21,
       <1>22, <1>23, <1>24 DEF Next

\* A token is granted once; it is stored for the user of the thread that has it.
LEMMA NextOwn == TypeOK /\ OwnInv /\ [Next]_vars => OwnInv'
  <1> SUFFICES ASSUME TypeOK, OwnInv, [Next]_vars PROVE OwnInv'
    OBVIOUS
  <1> USE DEF TypeOK, Credentials, Pcs, SavePcs, CallPcs, Answers,
              credential, server, google, change, OwnInv, InHand, OwnCredentials
  <1>1. ASSUME NEW t \in Threads, NEW u \in Users, BeginSave(t, u) PROVE OwnInv'
    BY <1>1 DEF BeginSave, Begins, Goes
  <1>2. ASSUME NEW t \in Threads, NEW u \in Users, BeginChange(t, u) PROVE OwnInv'
    BY <1>2 DEF BeginChange, Begins, Goes
  <1>3. ASSUME NEW t \in Threads, NEW u \in Users, Retry(t, u) PROVE OwnInv'
    BY <1>3 DEF Retry, Begins, Goes
  <1>4. ASSUME NEW t \in Threads, Exchange(t) PROVE OwnInv'
    BY <1>4 DEF Exchange, Goes
  <1>5. ASSUME NEW t \in Threads, NotGranted(t) PROVE OwnInv'
    BY <1>5 DEF NotGranted, Ends
  <1>6. ASSUME NEW t \in Threads, LookForTable(t) PROVE OwnInv'
    BY <1>6 DEF LookForTable, Goes
  <1>7. ASSUME NEW t \in Threads, CreateTable(t) PROVE OwnInv'
    BY <1>7 DEF CreateTable, Goes
  <1>8. ASSUME NEW t \in Threads, CreateFails(t) PROVE OwnInv'
    BY <1>8 DEF CreateFails, Ends
  <1>9. ASSUME NEW t \in Threads, Select(t) PROVE OwnInv'
    BY <1>9 DEF Select, Goes
  <1>10. ASSUME NEW t \in Threads, Insert(t) PROVE OwnInv'
    BY <1>10 DEF Insert, Saves, Ends
  <1>11. ASSUME NEW t \in Threads, InsertFails(t) PROVE OwnInv'
    BY <1>11 DEF InsertFails, Ends
  <1>12. ASSUME NEW t \in Threads, Update(t) PROVE OwnInv'
    BY <1>12 DEF Update, Saves, Ends
  <1>13. ASSUME NEW t \in Threads, UpdateNothing(t) PROVE OwnInv'
    BY <1>13 DEF UpdateNothing, Ends
  <1>14. ASSUME NEW t \in Threads, SaveFails(t) PROVE OwnInv'
    BY <1>14 DEF SaveFails, Ends
  <1>15. ASSUME NEW t \in Threads, Load(t) PROVE OwnInv'
    BY <1>15 DEF Load, Goes, Readable
  <1>16. ASSUME NEW t \in Threads, NotLoaded(t) PROVE OwnInv'
    BY <1>16 DEF NotLoaded, Answer, Ends
  <1>17. ASSUME NEW t \in Threads, Done(t) PROVE OwnInv'
    BY <1>17 DEF Done, Answer, Ends
  <1>18. ASSUME NEW t \in Threads, Refused(t) PROVE OwnInv'
    BY <1>18 DEF Refused, Answer, Ends
  <1>19. ASSUME NEW t \in Threads, Unknown(t) PROVE OwnInv'
    BY <1>19 DEF Unknown, MaybeApplied, Answer, Ends
  <1>20. ASSUME NEW u \in Users, Disconnect(u) PROVE OwnInv'
    BY <1>20 DEF Disconnect
  <1>21. ASSUME NEW u \in Users, ApplyLate(u) PROVE OwnInv'
    BY <1>21 DEF ApplyLate
  <1>22. ASSUME NEW g \in Tokens, Revoke(g) PROVE OwnInv'
    BY <1>22 DEF Revoke
  <1>23. ASSUME Restart PROVE OwnInv'
    BY <1>23 DEF Restart
  <1>24. CASE UNCHANGED vars
    BY <1>24 DEF vars
  <1> QED
    BY <1>1, <1>2, <1>3, <1>4, <1>5, <1>6, <1>7, <1>8, <1>9, <1>10, <1>11,
       <1>12, <1>13, <1>14, <1>15, <1>16, <1>17, <1>18, <1>19, <1>20, <1>21,
       <1>22, <1>23, <1>24 DEF Next

\* Only a disconnection takes a credential away, and it disturbs the user's threads.
LEMMA NextHold == TypeOK /\ HoldInv /\ [Next]_vars => HoldInv'
  <1> SUFFICES ASSUME TypeOK, HoldInv, [Next]_vars PROVE HoldInv'
    OBVIOUS
  <1> USE DEF TypeOK, Credentials, Pcs, SavePcs, CallPcs, Answers,
              credential, server, google, change, HoldInv, FoundStays, ConnectionHolds, Readable
  <1>1. ASSUME NEW t \in Threads, NEW u \in Users, BeginSave(t, u) PROVE HoldInv'
    BY <1>1 DEF BeginSave, Begins, Goes
  <1>2. ASSUME NEW t \in Threads, NEW u \in Users, BeginChange(t, u) PROVE HoldInv'
    BY <1>2 DEF BeginChange, Begins, Goes
  <1>3. ASSUME NEW t \in Threads, NEW u \in Users, Retry(t, u) PROVE HoldInv'
    BY <1>3 DEF Retry, Begins, Goes
  <1>4. ASSUME NEW t \in Threads, Exchange(t) PROVE HoldInv'
    BY <1>4 DEF Exchange, Goes
  <1>5. ASSUME NEW t \in Threads, NotGranted(t) PROVE HoldInv'
    BY <1>5 DEF NotGranted, Ends
  <1>6. ASSUME NEW t \in Threads, LookForTable(t) PROVE HoldInv'
    BY <1>6 DEF LookForTable, Goes
  <1>7. ASSUME NEW t \in Threads, CreateTable(t) PROVE HoldInv'
    BY <1>7 DEF CreateTable, Goes
  <1>8. ASSUME NEW t \in Threads, CreateFails(t) PROVE HoldInv'
    BY <1>8 DEF CreateFails, Ends
  <1>9. ASSUME NEW t \in Threads, Select(t) PROVE HoldInv'
    BY <1>9 DEF Select, Goes
  <1>10. ASSUME NEW t \in Threads, Insert(t) PROVE HoldInv'
    <2>1. user[t] \in Users /\ token[t] \in Tokens /\ key \in Keys
      BY <1>10 DEF Insert
    <2>2. [token |-> token[t], key |-> key] # Nothing
      BY <2>1
    <2>3. FoundStays'
      BY <1>10, <2>1, <2>2 DEF Insert, Saves, Ends
    <2>4. ConnectionHolds'
      BY <1>10, <2>1, <2>2 DEF Insert, Saves, Ends
    <2> QED BY <2>3, <2>4
  <1>11. ASSUME NEW t \in Threads, InsertFails(t) PROVE HoldInv'
    BY <1>11 DEF InsertFails, Ends
  <1>12. ASSUME NEW t \in Threads, Update(t) PROVE HoldInv'
    <2>1. user[t] \in Users /\ token[t] \in Tokens /\ key \in Keys
      BY <1>12 DEF Update
    <2>2. [token |-> token[t], key |-> key] # Nothing
      BY <2>1
    <2>3. FoundStays'
      BY <1>12, <2>1, <2>2 DEF Update, Saves, Ends
    <2>4. ConnectionHolds'
      BY <1>12, <2>1, <2>2 DEF Update, Saves, Ends
    <2> QED BY <2>3, <2>4
  <1>13. ASSUME NEW t \in Threads, UpdateNothing(t) PROVE HoldInv'
    BY <1>13 DEF UpdateNothing, Ends
  <1>14. ASSUME NEW t \in Threads, SaveFails(t) PROVE HoldInv'
    BY <1>14 DEF SaveFails, Ends
  <1>15. ASSUME NEW t \in Threads, Load(t) PROVE HoldInv'
    BY <1>15 DEF Load, Goes
  <1>16. ASSUME NEW t \in Threads, NotLoaded(t) PROVE HoldInv'
    BY <1>16 DEF NotLoaded, Answer, Ends
  <1>17. ASSUME NEW t \in Threads, Done(t) PROVE HoldInv'
    BY <1>17 DEF Done, Answer, Ends
  <1>18. ASSUME NEW t \in Threads, Refused(t) PROVE HoldInv'
    BY <1>18 DEF Refused, Answer, Ends
  <1>19. ASSUME NEW t \in Threads, Unknown(t) PROVE HoldInv'
    BY <1>19 DEF Unknown, MaybeApplied, Answer, Ends
  <1>20. ASSUME NEW u \in Users, Disconnect(u) PROVE HoldInv'
    BY <1>20 DEF Disconnect
  <1>21. ASSUME NEW u \in Users, ApplyLate(u) PROVE HoldInv'
    BY <1>21 DEF ApplyLate
  <1>22. ASSUME NEW g \in Tokens, Revoke(g) PROVE HoldInv'
    BY <1>22 DEF Revoke
  <1>23. ASSUME Restart PROVE HoldInv'
    BY <1>23 DEF Restart
  <1>24. CASE UNCHANGED vars
    BY <1>24 DEF vars
  <1> QED
    BY <1>1, <1>2, <1>3, <1>4, <1>5, <1>6, <1>7, <1>8, <1>9, <1>10, <1>11,
       <1>12, <1>13, <1>14, <1>15, <1>16, <1>17, <1>18, <1>19, <1>20, <1>21,
       <1>22, <1>23, <1>24 DEF Next

\* A change is begun when no other call of its user is under way.
LEMMA NextCalls == TypeOK /\ OneCall /\ [Next]_vars => OneCall'
  <1> SUFFICES ASSUME TypeOK, OneCall, [Next]_vars PROVE OneCall'
    OBVIOUS
  <1> USE DEF TypeOK, Credentials, Pcs, SavePcs, CallPcs, Answers,
              credential, server, google, change, OneCall, Calling
  <1>1. ASSUME NEW t \in Threads, NEW u \in Users, BeginSave(t, u) PROVE OneCall'
    BY <1>1 DEF BeginSave, Begins, Goes
  <1>2. ASSUME NEW t \in Threads, NEW u \in Users, BeginChange(t, u) PROVE OneCall'
    BY <1>2 DEF BeginChange, Begins, Goes
  <1>3. ASSUME NEW t \in Threads, NEW u \in Users, Retry(t, u) PROVE OneCall'
    BY <1>3 DEF Retry, Begins, Goes
  <1>4. ASSUME NEW t \in Threads, Exchange(t) PROVE OneCall'
    BY <1>4 DEF Exchange, Goes
  <1>5. ASSUME NEW t \in Threads, NotGranted(t) PROVE OneCall'
    BY <1>5 DEF NotGranted, Ends
  <1>6. ASSUME NEW t \in Threads, LookForTable(t) PROVE OneCall'
    BY <1>6 DEF LookForTable, Goes
  <1>7. ASSUME NEW t \in Threads, CreateTable(t) PROVE OneCall'
    BY <1>7 DEF CreateTable, Goes
  <1>8. ASSUME NEW t \in Threads, CreateFails(t) PROVE OneCall'
    BY <1>8 DEF CreateFails, Ends
  <1>9. ASSUME NEW t \in Threads, Select(t) PROVE OneCall'
    BY <1>9 DEF Select, Goes
  <1>10. ASSUME NEW t \in Threads, Insert(t) PROVE OneCall'
    BY <1>10 DEF Insert, Saves, Ends
  <1>11. ASSUME NEW t \in Threads, InsertFails(t) PROVE OneCall'
    BY <1>11 DEF InsertFails, Ends
  <1>12. ASSUME NEW t \in Threads, Update(t) PROVE OneCall'
    BY <1>12 DEF Update, Saves, Ends
  <1>13. ASSUME NEW t \in Threads, UpdateNothing(t) PROVE OneCall'
    BY <1>13 DEF UpdateNothing, Ends
  <1>14. ASSUME NEW t \in Threads, SaveFails(t) PROVE OneCall'
    BY <1>14 DEF SaveFails, Ends
  <1>15. ASSUME NEW t \in Threads, Load(t) PROVE OneCall'
    BY <1>15 DEF Load, Goes
  <1>16. ASSUME NEW t \in Threads, NotLoaded(t) PROVE OneCall'
    BY <1>16 DEF NotLoaded, Answer, Ends
  <1>17. ASSUME NEW t \in Threads, Done(t) PROVE OneCall'
    BY <1>17 DEF Done, Answer, Ends
  <1>18. ASSUME NEW t \in Threads, Refused(t) PROVE OneCall'
    BY <1>18 DEF Refused, Answer, Ends
  <1>19. ASSUME NEW t \in Threads, Unknown(t) PROVE OneCall'
    BY <1>19 DEF Unknown, MaybeApplied, Answer, Ends
  <1>20. ASSUME NEW u \in Users, Disconnect(u) PROVE OneCall'
    BY <1>20 DEF Disconnect
  <1>21. ASSUME NEW u \in Users, ApplyLate(u) PROVE OneCall'
    BY <1>21 DEF ApplyLate
  <1>22. ASSUME NEW g \in Tokens, Revoke(g) PROVE OneCall'
    BY <1>22 DEF Revoke
  <1>23. ASSUME Restart PROVE OneCall'
    BY <1>23 DEF Restart
  <1>24. CASE UNCHANGED vars
    BY <1>24 DEF vars
  <1> QED
    BY <1>1, <1>2, <1>3, <1>4, <1>5, <1>6, <1>7, <1>8, <1>9, <1>10, <1>11,
       <1>12, <1>13, <1>14, <1>15, <1>16, <1>17, <1>18, <1>19, <1>20, <1>21,
       <1>22, <1>23, <1>24 DEF Next

\* An application nobody was told of leaves the user unsure.
LEMMA NextCounted == TypeOK /\ OneCall /\ Counted /\ [Next]_vars => Counted'
  <1> SUFFICES ASSUME TypeOK, OneCall, Counted, [Next]_vars PROVE Counted'
    OBVIOUS
  <1> USE DEF TypeOK, Credentials, Pcs, SavePcs, CallPcs, Answers,
              credential, server, google, change, OneCall, Counted, Calling
  <1>1. ASSUME NEW t \in Threads, NEW u \in Users, BeginSave(t, u) PROVE Counted'
    BY <1>1 DEF BeginSave, Begins, Goes
  <1>2. ASSUME NEW t \in Threads, NEW u \in Users, BeginChange(t, u) PROVE Counted'
    BY <1>2 DEF BeginChange, Begins, Goes
  <1>3. ASSUME NEW t \in Threads, NEW u \in Users, Retry(t, u) PROVE Counted'
    BY <1>3 DEF Retry, Begins, Goes
  <1>4. ASSUME NEW t \in Threads, Exchange(t) PROVE Counted'
    BY <1>4 DEF Exchange, Goes
  <1>5. ASSUME NEW t \in Threads, NotGranted(t) PROVE Counted'
    BY <1>5 DEF NotGranted, Ends
  <1>6. ASSUME NEW t \in Threads, LookForTable(t) PROVE Counted'
    BY <1>6 DEF LookForTable, Goes
  <1>7. ASSUME NEW t \in Threads, CreateTable(t) PROVE Counted'
    BY <1>7 DEF CreateTable, Goes
  <1>8. ASSUME NEW t \in Threads, CreateFails(t) PROVE Counted'
    BY <1>8 DEF CreateFails, Ends
  <1>9. ASSUME NEW t \in Threads, Select(t) PROVE Counted'
    BY <1>9 DEF Select, Goes
  <1>10. ASSUME NEW t \in Threads, Insert(t) PROVE Counted'
    BY <1>10 DEF Insert, Saves, Ends
  <1>11. ASSUME NEW t \in Threads, InsertFails(t) PROVE Counted'
    BY <1>11 DEF InsertFails, Ends
  <1>12. ASSUME NEW t \in Threads, Update(t) PROVE Counted'
    BY <1>12 DEF Update, Saves, Ends
  <1>13. ASSUME NEW t \in Threads, UpdateNothing(t) PROVE Counted'
    BY <1>13 DEF UpdateNothing, Ends
  <1>14. ASSUME NEW t \in Threads, SaveFails(t) PROVE Counted'
    BY <1>14 DEF SaveFails, Ends
  <1>15. ASSUME NEW t \in Threads, Load(t) PROVE Counted'
    BY <1>15 DEF Load, Goes
  <1>16. ASSUME NEW t \in Threads, NotLoaded(t) PROVE Counted'
    BY <1>16 DEF NotLoaded, Answer, Ends
  <1>17. ASSUME NEW t \in Threads, Done(t) PROVE Counted'
    BY <1>17 DEF Done, Answer, Ends
  <1>18. ASSUME NEW t \in Threads, Refused(t) PROVE Counted'
    BY <1>18 DEF Refused, Answer, Ends
  <1>19. ASSUME NEW t \in Threads, Unknown(t) PROVE Counted'
    BY <1>19 DEF Unknown, MaybeApplied, Answer, Ends
  <1>20. ASSUME NEW u \in Users, Disconnect(u) PROVE Counted'
    BY <1>20 DEF Disconnect
  <1>21. ASSUME NEW u \in Users, ApplyLate(u) PROVE Counted'
    BY <1>21 DEF ApplyLate
  <1>22. ASSUME NEW g \in Tokens, Revoke(g) PROVE Counted'
    BY <1>22 DEF Revoke
  <1>23. ASSUME Restart PROVE Counted'
    BY <1>23 DEF Restart
  <1>24. CASE UNCHANGED vars
    BY <1>24 DEF vars
  <1> QED
    BY <1>1, <1>2, <1>3, <1>4, <1>5, <1>6, <1>7, <1>8, <1>9, <1>10, <1>11,
       <1>12, <1>13, <1>14, <1>15, <1>16, <1>17, <1>18, <1>19, <1>20, <1>21,
       <1>22, <1>23, <1>24 DEF Next

THEOREM Invariance == Spec => [](TypeOK /\ OwnInv /\ HoldInv /\ OneCall /\ Counted)
  BY InitInv, NextType, NextOwn, NextHold, NextCalls, NextCounted, PTL DEF Spec

-----------------------------------------------------------------------------
\* Every variable keeps its type.
THEOREM TypeCorrect == Spec => []TypeOK
  BY Invariance, PTL

\* No credential is stored or used for another user than the one who consented.
THEOREM Own == Spec => []OwnCredentials
  BY Invariance, PTL DEF OwnInv

\* A connection that was confirmed holds until its user disconnects, or the key changes.
THEOREM Holds == Spec => []ConnectionHolds
  BY Invariance, PTL DEF HoldInv

\* Answers about a change are true, and a duplicate never comes unannounced.
THEOREM Honest == Spec => []AnswersAreHonest
  <1>1. TypeOK /\ Counted => AnswersAreHonest
    BY DEF TypeOK, Counted, AnswersAreHonest
  <1> QED BY <1>1, Invariance, PTL
=============================================================================
