------------------------------ MODULE MCPacket ------------------------------
(* Two tasks a1, a2 on one core exchange messages with task b on another. *)
EXTENDS PacketDriver

CONSTANTS a1, a2, b, here, there

AllTasks == {a1, a2, b}
AllCores == {here, there}
ToOne == {<<a1, b>>, <<a2, b>>}
Shared == {<<a1, b>>, <<a2, NoTask>>}
HomeOf == [t \in {a1, a2, NoTask, b} |-> IF t = b \/ t = NoTask THEN there ELSE here]

\* The cells outside a queue are never read.
LiveState == <<[t \in Tasks |-> Queue(t)], start, end, niVars, sendVars, recvVars>>
=============================================================================
