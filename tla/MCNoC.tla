------------------------------- MODULE MCNoC -------------------------------
(* Four cores, 0 and 1 on the lower line of the mesh, 2 and 3 above. *)
EXTENDS NoC

\* Two packets from core 0 and one from core 2, all for core 3.
Crossing == [c \in Cores |-> CASE c = 0 -> <<3, 3>> [] c = 2 -> <<3>> [] OTHER -> << >>]
=============================================================================
