------------------------------ MODULE Channel ------------------------------
(***************************************************************************)
(* What the packet driver promises to tasks on different cores: each task  *)
(* has a port, a first-in first-out queue of messages, and a receive call  *)
(* returns the oldest one, whole.                                          *)
(***************************************************************************)
EXTENDS Sequences

CONSTANTS Tasks, Messages, NoMessage

VARIABLES port,         \* task -> messages sent to it and not yet received
          received      \* task -> message its last receive call returned

vars == <<port, received>>

Init == /\ port = [t \in Tasks |-> << >>]
        /\ received = [t \in Tasks |-> NoMessage]

Send(t) == /\ \E m \in Messages : port' = [port EXCEPT ![t] = Append(@, m)]
           /\ UNCHANGED received

Call(t) == /\ received' = [received EXCEPT ![t] = NoMessage]
           /\ UNCHANGED port

Return(t) == /\ port[t] # << >>
             /\ received' = [received EXCEPT ![t] = Head(port[t])]
             /\ port' = [port EXCEPT ![t] = Tail(@)]

Next == \E t \in Tasks : Send(t) \/ Call(t) \/ Return(t)

Step == [Next]_vars

Spec == Init /\ [][Next]_vars
=============================================================================
