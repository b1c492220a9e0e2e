---------------------------- MODULE SessionAuth ----------------------------
(***************************************************************************)
(* Browser sign-in with Google and the sessions it issues                  *)
(* (api/v1/routes/session_auth.py, services/browser_session.py).           *)
(*                                                                         *)
(* The handlers are plain functions that the server runs in threads, each  *)
(* with its own database session, so two requests interleave at every      *)
(* statement.  A thread carries what its request brought with it (the two  *)
(* cookies and the subject of the Google credential) and what it has read. *)
(* A browser may send any cookie it was ever given, however old.           *)
(***************************************************************************)
EXTENDS Integers, FiniteSets

CONSTANTS
    Threads,        \* server threads
    Subjects,       \* Google accounts, by their "sub" claim
    Accounts,       \* bound: ids for user rows with their workspace and key
    Nonces,         \* bound: challenges that can be issued
    Tokens,         \* bound: session tokens that can be issued
    None,           \* no value: an absent cookie, an empty column
    ChallengeLife,  \* seconds a challenge lives (300)
    SessionLife,    \* ACCESS_TOKEN_EXPIRE_MINUTES in seconds
    MaxTime         \* bound: of the clock

ASSUME NoneAssumption == None \notin Subjects \cup Accounts \cup Nonces \cup Tokens
ASSUME TimesAssumption == /\ ChallengeLife \in Nat \ {0}
                          /\ SessionLife \in Nat \ {0}
                          /\ MaxTime \in Nat

VARIABLES
    now,          \* time.time() in whole seconds
    challenge,    \* login_challenges.expires_at, 0 where there is no row
    holder,       \* google_users.google_sub of an account, None without a row
    workspaces,   \* accounts whose workspace row exists
    keys,         \* accounts whose API key is active
    members,      \* accounts whose user is a member of its workspace
    user,         \* browser_sessions.user_id, None where there is no row
    expires,      \* browser_sessions.expires_at
    pc,           \* threads: where each one is
    local,        \* threads: what the request brought and what it has read
    issued,       \* history: the nonces handed out
    withdrawn,    \* history: the nonces whose row was deleted unused
    origin        \* history: the nonce a session token was issued for

rows == <<challenge, holder, workspaces, keys, members, user, expires>>
thread == <<pc, local>>
history == <<issued, withdrawn, origin>>
vars == <<now, challenge, holder, workspaces, keys, members, user, expires,
          pc, local, issued, withdrawn, origin>>

Pcs == {"idle", "consume", "lookup", "create", "authorize", "rotate",
        "key", "member", "serve"}

\* The locals of a handler: the two cookies, the subject of the credential, the
\* account read or created and, as history, whether that account was in order
\* when the request began.
Locals == [nonce : Nonces \cup {None}, prev : Tokens \cup {None},
           sub : Subjects \cup {None}, acct : Accounts \cup {None},
           began : BOOLEAN]
NoLocals == [nonce |-> None, prev |-> None, sub |-> None, acct |-> None,
             began |-> FALSE]

HasAccount(s) == \E a \in Accounts : holder[a] = s
GivenTokens == {k \in Tokens : origin[k] # None}

Init ==
    /\ now = 0
    /\ challenge = [n \in Nonces |-> 0]
    /\ holder = [a \in Accounts |-> None]
    /\ workspaces = {} /\ keys = {} /\ members = {}
    /\ user = [k \in Tokens |-> None]
    /\ expires = [k \in Tokens |-> 0]
    /\ pc = [t \in Threads |-> "idle"]
    /\ local = [t \in Threads |-> NoLocals]
    /\ issued = {} /\ withdrawn = {}
    /\ origin = [k \in Tokens |-> None]

-----------------------------------------------------------------------------
Live(n) == challenge[n] > now

\* Deleting the challenges of N and the sessions of K, as each handler does it.
DropChallenges(N) ==
    /\ challenge' = [n \in Nonces |-> IF n \in N THEN 0 ELSE challenge[n]]
    /\ withdrawn' = withdrawn \cup {n \in N : challenge[n] # 0}

DropSessions(K) == user' = [k \in Tokens |-> IF k \in K THEN None ELSE user[k]]

Expired(deadline) == {x \in DOMAIN deadline : deadline[x] <= now}

\* POST /challenge: one transaction deletes the browser's previous challenge and
\* everything expired, and inserts a new challenge.
Challenge(p, n) ==
    /\ n \notin issued
    /\ issued' = issued \cup {n}
    /\ LET gone == ({p} \cup Expired(challenge)) \ {n}
       IN  /\ challenge' = [m \in Nonces |->
                               IF m = n THEN now + ChallengeLife
                               ELSE IF m \in gone THEN 0 ELSE challenge[m]]
           /\ withdrawn' = withdrawn \cup {m \in gone \cap issued : challenge[m] # 0}
    /\ DropSessions(Expired(expires))
    /\ UNCHANGED <<now, holder, workspaces, keys, members, expires, thread, origin>>

-----------------------------------------------------------------------------
(***************************************************************************)
(* POST /google.  The challenge is read, Google verifies the credential,   *)
(* and the challenge is deleted by a statement that says whether it was    *)
(* still there.                                                            *)
(***************************************************************************)
Goes(t, from, to) ==
    /\ pc[t] = from
    /\ pc' = [pc EXCEPT ![t] = to]

Continues(t, from, to) == Goes(t, from, to) /\ UNCHANGED local

Leaves(t, from) ==
    /\ Goes(t, from, "idle")
    /\ local' = [local EXCEPT ![t] = NoLocals]

Takes(t, from, a, to) ==
    /\ Goes(t, from, to)
    /\ local' = [local EXCEPT ![t].acct = a]

SignIn(t, n, p, s) ==
    /\ n \in issued
    /\ Live(n)                  \* else 401
    /\ Goes(t, "idle", "consume")
    /\ local' = [local EXCEPT ![t] =
                    [NoLocals EXCEPT !.nonce = n, !.prev = p, !.sub = s]]
    /\ UNCHANGED <<now, rows, history>>

DeleteChallenge(n) ==
    /\ challenge' = [challenge EXCEPT ![n] = 0]
    /\ UNCHANGED <<now, holder, workspaces, keys, members, user, expires, history>>

\* Mutant: the deleted rows are not counted.
ConsumeUnchecked(t) ==
    /\ Continues(t, "consume", "lookup")
    /\ DeleteChallenge(local[t].nonce)

Consume(t) ==
    /\ Continues(t, "consume", "lookup")
    /\ Live(local[t].nonce)
    /\ DeleteChallenge(local[t].nonce)

ConsumeFails(t) ==
    /\ Leaves(t, "consume")
    /\ ~Live(local[t].nonce)
    /\ UNCHANGED <<now, rows, history>>

\* Mutant: an account is found by something else than its subject.
LookupAnyone(t) ==
    /\ \E a \in Accounts : holder[a] # None /\ Takes(t, "lookup", a, "authorize")
    /\ UNCHANGED <<now, rows, history>>

\* the account of the subject is found
Lookup(t) ==
    /\ \E a \in Accounts :
        holder[a] = local[t].sub /\ Takes(t, "lookup", a, "authorize")
    /\ UNCHANGED <<now, rows, history>>

LookupNothing(t) ==
    /\ Continues(t, "lookup", "create")
    /\ ~HasAccount(local[t].sub)
    /\ UNCHANGED <<now, rows, history>>

NewAccount(t, a) ==
    /\ a \notin workspaces
    /\ Takes(t, "create", a, "rotate")
    /\ holder' = [holder EXCEPT ![a] = local[t].sub]
    /\ workspaces' = workspaces \cup {a}
    /\ keys' = keys \cup {a}
    /\ members' = members \cup {a}
    /\ UNCHANGED <<now, challenge, user, expires, history>>

\* Mutant: google_sub without its unique constraint.
CreateAlways(t, a) == NewAccount(t, a)

\* Workspace, key, membership and user row in one commit.  What was just
\* inserted is still in the session, so key and membership are not read again.
Create(t, a) ==
    /\ pc[t] = "create"
    /\ ~HasAccount(local[t].sub)
    /\ NewAccount(t, a)

\* Mutant: the rows flushed before the failing commit are not rolled back.
CreateLosesNoRollback(t) ==
    /\ \E a, b \in Accounts :
        /\ holder[a] = local[t].sub
        /\ b \notin workspaces
        /\ workspaces' = workspaces \cup {b}
        /\ Takes(t, "create", a, "authorize")
    /\ UNCHANGED <<now, challenge, holder, keys, members, user, expires, history>>

\* Another thread has created the account: the commit breaks the unique
\* constraint, everything is rolled back and the account read.
CreateLoses(t) ==
    /\ \E a \in Accounts :
        holder[a] = local[t].sub /\ Takes(t, "create", a, "authorize")
    /\ UNCHANGED <<now, rows, history>>

InOrder(a) == a \in keys /\ a \in members

Authorize(t) ==
    /\ Continues(t, "authorize", "rotate")
    /\ InOrder(local[t].acct)
    /\ UNCHANGED <<now, rows, history>>

\* Mutant: the browser keeps the token it had, for the new account.
RotateKeeps(t, k) ==
    /\ IF local[t].prev = None THEN origin[k] = None ELSE k = local[t].prev
    /\ Leaves(t, "rotate")
    /\ user' = [user EXCEPT ![k] = local[t].acct]
    /\ expires' = [expires EXCEPT ![k] = now + SessionLife]
    /\ origin' = [origin EXCEPT ![k] = local[t].nonce]
    /\ UNCHANGED <<now, challenge, holder, workspaces, keys, members, issued,
                   withdrawn>>

\* The previous session of the browser is deleted and a new one inserted.
Rotate(t, k) ==
    /\ origin[k] = None
    /\ Leaves(t, "rotate")
    /\ user' = [x \in Tokens |-> IF x = k THEN local[t].acct
                                 ELSE IF x = local[t].prev THEN None ELSE user[x]]
    /\ expires' = [expires EXCEPT ![k] = now + SessionLife]
    /\ origin' = [origin EXCEPT ![k] = local[t].nonce]
    /\ UNCHANGED <<now, challenge, holder, workspaces, keys, members, issued,
                   withdrawn>>

-----------------------------------------------------------------------------
\* POST /logout deletes the session and the challenge of the browser.
Logout(k, n) ==
    /\ DropSessions({k})
    /\ DropChallenges({n} \cap issued)
    /\ UNCHANGED <<now, holder, workspaces, keys, members, expires, thread,
                   issued, origin>>

(***************************************************************************)
(* session_user, which every request of a signed-in browser goes through:  *)
(* session row, then API key, then membership are read one after another.  *)
(***************************************************************************)
RequestBegins(t, k) ==
    /\ user[k] # None /\ expires[k] > now       \* else 401
    /\ Goes(t, "idle", "key")
    /\ local' = [local EXCEPT ![t] =
                    [NoLocals EXCEPT !.acct = user[k], !.began = InOrder(user[k])]]
    /\ UNCHANGED <<now, rows, history>>

\* Mutant: the key is not looked at again once a session exists.
RequestSkipsKey(t) ==
    /\ Continues(t, "key", "member")
    /\ UNCHANGED <<now, rows, history>>

RequestReadsKey(t) ==
    /\ Continues(t, "key", "member")
    /\ local[t].acct \in keys
    /\ UNCHANGED <<now, rows, history>>

RequestReadsMember(t) ==
    /\ Continues(t, "member", "serve")
    /\ local[t].acct \in members
    /\ UNCHANGED <<now, rows, history>>

\* The request is answered, or refused, or its process dies: what it had
\* committed stays.  It is refused where Google rejects the credential or its
\* claims do not fit the cookie, where the key is inactive or the member gone.
Ends(t) ==
    /\ pc[t] # "idle"
    /\ Leaves(t, pc[t])
    /\ UNCHANGED <<now, rows, history>>

\* An operator disables a key or removes a member.
Disable(a) ==
    /\ a \in workspaces
    /\ \/ keys' = keys \ {a} /\ UNCHANGED members
       \/ members' = members \ {a} /\ UNCHANGED keys
    /\ UNCHANGED <<now, challenge, holder, workspaces, user, expires, thread, history>>

Tick ==
    /\ now < MaxTime
    /\ now' = now + 1
    /\ UNCHANGED <<rows, thread, history>>

ThreadStep(t) ==
    \/ \E n \in Nonces, p \in GivenTokens \cup {None}, s \in Subjects : SignIn(t, n, p, s)
    \/ Consume(t) \/ ConsumeFails(t)
    \/ Lookup(t) \/ LookupNothing(t)
    \/ (\E a \in Accounts : Create(t, a)) \/ CreateLoses(t)
    \/ Authorize(t)
    \/ \E k \in Tokens : Rotate(t, k) \/ RequestBegins(t, k)
    \/ RequestReadsKey(t) \/ RequestReadsMember(t)
    \/ Ends(t)

Next ==
    \/ \E p \in issued \cup {None}, n \in Nonces : Challenge(p, n)
    \/ \E k \in GivenTokens \cup {None}, n \in issued \cup {None} : Logout(k, n)
    \/ \E t \in Threads : ThreadStep(t)
    \/ \E a \in Accounts : Disable(a)
    \/ Tick

Spec == Init /\ [][Next]_vars

-----------------------------------------------------------------------------
\* Every variable has the type its column or local variable has.
TypeOK ==
    /\ now \in 0 .. MaxTime
    /\ challenge \in [Nonces -> Nat]
    /\ holder \in [Accounts -> Subjects \cup {None}]
    /\ workspaces \subseteq Accounts
    /\ keys \subseteq Accounts
    /\ members \subseteq Accounts
    /\ user \in [Tokens -> Accounts \cup {None}]
    /\ expires \in [Tokens -> Nat]
    /\ pc \in [Threads -> Pcs]
    /\ local \in [Threads -> Locals]
    /\ issued \subseteq Nonces
    /\ withdrawn \subseteq Nonces
    /\ origin \in [Tokens -> Nonces \cup {None}]

\* A challenge signs in once: however often a browser submits the credential,
\* and however the requests interleave, it yields one session at most.
OneSessionPerChallenge ==
    \A j, k \in GivenTokens : origin[j] = origin[k] => j = k

\* A challenge deleted by a logout, by a newer challenge or as expired yields no
\* session, even when a sign-in had already read it and was waiting for Google.
WithdrawnIsUseless == \A k \in GivenTokens : origin[k] \notin withdrawn

\* First sign-ins of one Google account that race create one account.
OneAccountPerSubject ==
    \A a, b \in Accounts : holder[a] = holder[b] /\ holder[a] # None => a = b

\* A sign-in goes on with the account of the subject Google has verified, be it
\* found, created, or created by another thread.
SignsInItsSubject ==
    \A t \in Threads :
        pc[t] \in {"authorize", "rotate"} => holder[local[t].acct] = local[t].sub

\* An account is provisioned whole or not at all: no workspace or active key
\* without the user it was made for, even after a lost race.
AccountsAreWhole ==
    /\ workspaces = {a \in Accounts : holder[a] # None}
    /\ keys \cup members \subseteq workspaces
    /\ \A k \in Tokens : user[k] # None => user[k] \in workspaces

\* A request that began after the key was disabled or the membership removed is
\* not served, whatever sessions were issued or rotated in between.
RevokedIsNotServed == \A t \in Threads : pc[t] = "serve" => local[t].began
-----------------------------------------------------------------------------
(***************************************************************************)
(* The contract of signing in, SignIns.  A challenge is spent while the    *)
(* thread that deleted it is on its way to a session.                      *)
(***************************************************************************)
Past == {"lookup", "create", "authorize", "rotate"}
Holds(t) == pc[t] \in Past
Holding(n) == {t \in Threads : Holds(t) /\ local[t].nonce = n}

statusOf == [n \in Nonces |->
                IF n \notin issued THEN "none"
                ELSE IF challenge[n] # 0 THEN "offered"
                ELSE IF n \in withdrawn THEN "withdrawn"
                ELSE IF \E k \in Tokens : origin[k] = n THEN "used"
                ELSE IF Holding(n) # {} THEN "spent" ELSE "lost"]

signerOf == [n \in Nonces |->
                IF Holding(n) # {} THEN local[CHOOSE t \in Holding(n) : TRUE].sub ELSE None]

accountOf == [s \in Subjects |->
                 IF HasAccount(s) THEN CHOOSE a \in Accounts : holder[a] = s ELSE None]

Contract == INSTANCE SignIns WITH
    status <- statusOf, signer <- signerOf, account <- accountOf,
    given <- GivenTokens, session <- user

\* However the statements of several sign-ins, logouts and failures interleave, each
\* does what signing in promises: a session is for the account of the very subject
\* that spent its challenge, which only that subject's sign-in could have made.
ImplementsSignIns == Contract!Spec
=============================================================================
