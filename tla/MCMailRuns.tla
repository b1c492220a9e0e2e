----------------------------- MODULE MCMailRuns -----------------------------
\* Instances of MailRuns for TLC.
EXTENDS MailRuns, TLC

CONSTANTS m1, m2, scheduler, command, workspace

MCMail == {m1, m2}
MCCommand == {command}
MCWorkspaceOf == [m \in Mail |-> workspace]

\* m1 is short, m2 is cut in two.
MCParts == (m1 :> 1) @@ (m2 :> 2)
=============================================================================
