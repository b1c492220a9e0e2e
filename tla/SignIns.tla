------------------------------- MODULE SignIns -------------------------------
(***************************************************************************)
(* What signing in promises.  A challenge that was offered is withdrawn,   *)
(* or spent by one subject; a spent one gives one session at most, which   *)
(* is of the account of that subject; a subject has one account, made when *)
(* it signs in, and keeps it; a session's token is never given again.      *)
(***************************************************************************)
CONSTANTS None, Nonces, Subjects, Accounts, Tokens

VARIABLES
    status,     \* of each challenge
    signer,     \* the subject that has spent it, until its session is given
    account,    \* the account of each subject
    given,      \* every token there has been
    session     \* the account of each live session

vars == <<status, signer, account, given, session>>

Init ==
    /\ status = [n \in Nonces |-> "none"]
    /\ signer = [n \in Nonces |-> None]
    /\ account = [s \in Subjects |-> None]
    /\ given = {}
    /\ session = [k \in Tokens |-> None]

Offered == {n \in Nonces : status[n] = "offered"}

\* Challenges that are withdrawn, and sessions that end.
Without(N) == [n \in Nonces |-> IF n \in N THEN "withdrawn" ELSE status[n]]
Ended(K) == [k \in Tokens |-> IF k \in K THEN None ELSE session[k]]

Withdraw ==
    /\ \E N \in SUBSET Offered : status' = Without(N)
    /\ \E K \in SUBSET Tokens : session' = Ended(K)
    /\ UNCHANGED <<signer, account, given>>

Offer(n) ==
    /\ status[n] = "none"
    /\ \E N \in SUBSET Offered : status' = [Without(N) EXCEPT ![n] = "offered"]
    /\ \E K \in SUBSET Tokens : session' = Ended(K)
    /\ UNCHANGED <<signer, account, given>>

Spend(n, s) ==
    /\ status[n] = "offered"
    /\ status' = [status EXCEPT ![n] = "spent"]
    /\ signer' = [signer EXCEPT ![n] = s]
    /\ UNCHANGED <<account, given, session>>

\* What follows fails.
Lose(n) ==
    /\ status[n] = "spent"
    /\ status' = [status EXCEPT ![n] = "lost"]
    /\ signer' = [signer EXCEPT ![n] = None]
    /\ UNCHANGED <<account, given, session>>

\* A subject that has spent a challenge gets an account that nobody had.
Enroll(n, a) ==
    /\ status[n] = "spent"
    /\ account[signer[n]] = None
    /\ \A s \in Subjects : account[s] # a
    /\ account' = [account EXCEPT ![signer[n]] = a]
    /\ UNCHANGED <<status, signer, given, session>>

Issue(n, k) ==
    /\ status[n] = "spent"
    /\ account[signer[n]] # None
    /\ k \notin given
    /\ status' = [status EXCEPT ![n] = "used"]
    /\ signer' = [signer EXCEPT ![n] = None]
    /\ given' = given \cup {k}
    /\ \E K \in SUBSET Tokens : session' = [Ended(K) EXCEPT ![k] = account[signer[n]]]
    /\ UNCHANGED account

Next ==
    \/ Withdraw
    \/ \E n \in Nonces :
        \/ Offer(n) \/ Lose(n)
        \/ \E s \in Subjects : Spend(n, s)
        \/ \E a \in Accounts : Enroll(n, a)
        \/ \E k \in Tokens : Issue(n, k)

Spec == Init /\ [][Next]_vars
=============================================================================
