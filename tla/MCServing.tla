----------------------------- MODULE MCServing -----------------------------
\* Instances of Serving for TLC.
EXTENDS Serving, TLC

CONSTANTS u1, u2, w1, w2, daily, search, admin, hook

MCOwn == (u1 :> w1) @@ (u2 :> w2)

\* u1 reads his brief, and his pages as an administrator; u2 searches u1's workspace
\* with a key, as soon as he is let in.
MCKind == (daily :> "brief") @@ (search :> "read") @@ (admin :> "admin") @@ (hook :> "hook")

With(cookie, key, header) == [cookie |-> cookie, key |-> key, header |-> header]

MCCarries ==
    (daily :> With(u1, u2, w2)) @@ (search :> With(None, u2, w1))
        @@ (admin :> With(u1, None, None)) @@ (hook :> With(None, None, None))
=============================================================================
