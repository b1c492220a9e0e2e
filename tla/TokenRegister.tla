---------------------------- MODULE TokenRegister ----------------------------
(***************************************************************************)
(* What the webhook tokens of workspaces promise: a workspace has at most  *)
(* one token, and one that was replaced never comes back, for any          *)
(* workspace.                                                              *)
(***************************************************************************)
CONSTANTS Workspaces, Tokens

VARIABLES
    current,    \* the tokens that name each workspace
    given       \* every token there has been

vars == <<current, given>>

Init == current = [w \in Workspaces |-> {}] /\ given = {}

Rotate(w, t) ==
    /\ t \notin given
    /\ current' = [current EXCEPT ![w] = {t}]
    /\ given' = given \cup {t}

Next == \E w \in Workspaces, t \in Tokens : Rotate(w, t)

Spec == Init /\ [][Next]_vars
=============================================================================
