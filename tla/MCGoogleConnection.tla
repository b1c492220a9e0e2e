-------------------------- MODULE MCGoogleConnection --------------------------
\* Instances of GoogleConnection for TLC.
EXTENDS GoogleConnection, TLC

\* No property tells the members of a set apart.
Symmetry ==
    Permutations(Users) \cup Permutations(Threads) \cup Permutations(Tokens)
        \cup Permutations(Keys)
=============================================================================
