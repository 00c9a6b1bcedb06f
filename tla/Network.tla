------------------------------ MODULE Network ------------------------------
(***************************************************************************)
(* What the network on chip promises: the packets of one core for another  *)
(* arrive whole, once, and in the order in which they were sent.  A step   *)
(* is a clock cycle: several cores may start to send a packet, or finish   *)
(* to read one, in the same cycle.                                         *)
(***************************************************************************)
EXTENDS Naturals, Sequences

CONSTANT Cores

VARIABLES inflight,     \* sender -> receiver -> packets on their way
          delivered     \* receiver -> packets read, each with its sender

vars == <<inflight, delivered>>

Init == /\ inflight = [s \in Cores |-> [d \in Cores |-> << >>]]
        /\ delivered = [d \in Cores |-> << >>]

Delivers(s, d) == /\ inflight[s][d] # << >>
                  /\ delivered'[d] = Append(delivered[d], <<s, Head(inflight[s][d])>>)

Left(s, d) == IF Delivers(s, d) THEN Tail(inflight[s][d]) ELSE inflight[s][d]

Keeps(s, d) == inflight'[s][d] = Left(s, d)
Sends(s, d) == /\ Len(inflight'[s][d]) = Len(Left(s, d)) + 1
               /\ SubSeq(inflight'[s][d], 1, Len(Left(s, d))) = Left(s, d)

Next == /\ \A d \in Cores : \/ delivered'[d] = delivered[d]
                            \/ \E s \in Cores : Delivers(s, d)
        /\ \A s, d \in Cores : Keeps(s, d) \/ Sends(s, d)

Step == [Next]_vars

Spec == Init /\ [][Next]_vars
=============================================================================
