----------------------------- MODULE MCPipeline -----------------------------
\* Instances of Pipeline for TLC.
EXTENDS Pipeline, TLC

CONSTANTS c1, c2, c3, e1, m1, m2, default, number1, number2, workspace, q1, q2

MCMailUser == [m \in Mails |-> workspace]

\* c1 and m1 are short, c2 and m2 are cut in two.
MCParts == [i \in Items |-> IF i \in {c2, m2} THEN 2 ELSE 1]

MCUserOf == (q1 :> number1) @@ (q2 :> workspace)

To(number, chats) ==
    [messages |-> [i \in DOMAIN chats |-> [chat |-> chats[i], number |-> number]],
     last |-> number]

\* A status update, a message, a batch, and a batch with a malformed message.
OneNumber ==
    {[messages |-> << >>, last |-> default], To(number1, <<c1>>),
     To(number1, <<c2, c1>>), To(number1, <<c1, c3>>)}

TwoNumbers ==
    {[messages |-> <<[chat |-> c1, number |-> number1], [chat |-> c2, number |-> number2]>>,
      last |-> number2]}

=============================================================================
