--------------------------- MODULE MCSessionAuth ---------------------------
(***************************************************************************)
(* Constants of the runs of SessionAuth.                                   *)
(***************************************************************************)
EXTENDS SessionAuth, TLC

CONSTANTS t1, t2, s1, s2, a1, a2, n1, n2, k1, k2

MCThreads == {t1, t2}
MCSubjects == {s1, s2}
MCAccounts == {a1, a2}
MCNonces == {n1, n2}
MCTokens == {k1, k2}

MCSymmetry == Permutations(MCThreads) \cup Permutations(MCSubjects)
    \cup Permutations(MCAccounts) \cup Permutations(MCNonces)
    \cup Permutations(MCTokens)
=============================================================================
