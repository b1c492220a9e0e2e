------------------------- MODULE MCWorkspaceTokens -------------------------
\* Instances of WorkspaceTokens for TLC.
EXTENDS WorkspaceTokens, TLC

\* No property tells the members of a set apart.
Symmetry ==
    Permutations(Processes) \cup Permutations(Workspaces)
        \cup Permutations(Users) \cup Permutations(Tokens)
=============================================================================
