------------------------------ MODULE MCKernel ------------------------------
(***************************************************************************)
(* A small instance of HFKernel and one of Exchange, which share nothing:  *)
(* one or the other runs, beside the first state of the one that does not. *)
(***************************************************************************)
EXTENDS HFKernel, Exchange

\* Task 2 of exercise1 and the sender of noc_test.
SlowTasks == {<<1, 2>>}

VARIABLE running

BothInit == /\ Init /\ ExchangeInit
            /\ running \in {"kernel"} \cup Apps
            /\ app = IF running = "kernel" THEN CHOOSE a \in Apps : TRUE ELSE running

BothNext == /\ UNCHANGED running
            /\ \/ running = "kernel" /\ Next /\ UNCHANGED exchangeVars
               \/ running # "kernel" /\ ExchangeNext /\ UNCHANGED vars

BothSpec == BothInit /\ [][BothNext]_<<vars, exchangeVars, running>>

\* Of Exchange, what no task reads any more is left out.
ToCome(t) == {Program[t][k].to : k \in {j \in next[t] .. Len(Program[t]) : Program[t][j].do = "send"}}

Unless(t, v, empty) == IF Unread(t) THEN empty ELSE v[t]

LiveExchange ==
    <<app, next, sent, delays, mixed, {t \in reported : ~Unread(t)},
      [t \in Tasks |-> <<Unless(t, asked, {}), Unless(t, queue, << >>), Unless(t, buf, << >>)>>],
      [t \in Tasks |-> [u \in ToCome(t) \cap DOMAIN id[t] |-> id[t][u]]]>>

LiveState == IF running = "kernel" THEN vars ELSE LiveExchange
=============================================================================
