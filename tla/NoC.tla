-------------------------------- MODULE NoC --------------------------------
(***************************************************************************)
(* The network on chip of mpsoc_sim (noc.c) and what the board simulator   *)
(* (do_debug, mem_read and mem_write of mpsoc_sim.c) and the packet driver *)
(* do with it: a step is one clock cycle of the board.                     *)
(*                                                                         *)
(* A core writes a packet flit by flit into the queue of its network       *)
(* interface; the interface hands the flits to a router, the routers pass  *)
(* them on over a connection that lasts one packet, and the interface at   *)
(* the other end raises an interrupt when it holds a whole packet.  Built  *)
(* with BUS there is one router with a port for each core and one          *)
(* connection at a time; else there is a mesh of routers with five ports.  *)
(*                                                                         *)
(* Left out: the value of a flit beyond its place in its packet; the byte  *)
(* behind the array status, which the BUS build reads as one more port and *)
(* which is 0 in a fresh heap; NI_BUFFER_LENGTH = 0, which no build sets.  *)
(***************************************************************************)
EXTENDS Integers, Sequences, SequencesExt

CONSTANTS NOC_WIDTH, NOC_HEIGHT,
          NOC_BUFFER_SIZE,          \* flits in a queue of a router
          NI_BUFFER_LENGTH,         \* flits in a queue of an interface, and in a packet
          ROUTING_ALGORITHM_DELAY,  \* network cycles a header waits in a router
          CPU_NETWORK_CLK_RATIO,    \* board cycles for one of the routers
          READ_GAP,                 \* board cycles from one NocRead to the next
          Builds,                   \* "BUS" and "MESH"
          Traffic,                  \* core -> cores it sends a packet to, in order
          NoFlit

Cores == 0 .. NOC_WIDTH * NOC_HEIGHT - 1

ASSUME NoCAssumption ==
    /\ NOC_WIDTH \in Nat /\ NOC_WIDTH >= 2
    /\ NOC_HEIGHT \in Nat /\ NOC_HEIGHT >= 2
    /\ NOC_BUFFER_SIZE \in Nat \ {0}
    /\ NI_BUFFER_LENGTH \in Nat /\ NI_BUFFER_LENGTH >= 2
    /\ ROUTING_ALGORITHM_DELAY \in Nat
    /\ CPU_NETWORK_CLK_RATIO \in Nat /\ CPU_NETWORK_CLK_RATIO >= 2
    /\ READ_GAP \in Nat /\ READ_GAP >= 2
    /\ Builds \subseteq {"BUS", "MESH"}
    /\ Traffic \in [Cores -> Seq(Cores)]
    /\ NoFlit \notin [from : Cores, number : Nat, pos : Nat]

VARIABLES build,        \* how the simulator was compiled
          gcycles,      \* modulo CPU_NETWORK_CLK_RATIO
          arbiter,      \* router -> port that may open a connection
          connection,   \* router -> input port -> its connection
          queue,        \* router -> input port -> flits
          fromCore,     \* core -> wire from the core to its interface
          toRouter,     \* router -> input port -> wire into it
          toNI,         \* core -> wire from a router to its interface
          toCore,       \* core -> wire from its interface to the core
          plasma,       \* core -> flits its interface has from the core
          noc,          \* core -> flits its interface has for the core
          begun,        \* core -> packets it has begun to write
          written,      \* core -> flits of the last of them it has written
          flits_remaining,  \* core -> flits the interrupt handler has to read
          reads,        \* core -> NocReads the handler still makes
          gap,          \* core -> cycles until its next NocRead
          got,          \* core -> flits the handler has read
          delivered     \* core -> packets it has read, each with its sender

routerVars == <<arbiter, connection, queue, toRouter, toNI>>
niVars == <<plasma, noc, toCore>>
coreVars == <<fromCore, begun, written, flits_remaining, reads, gap, got, delivered>>
vars == <<build, gcycles, routerVars, niVars, coreVars>>

EAST == 0
WEST == 1
NORTH == 2
SOUTH == 3
LOCAL_PORT == 4         \* LOCAL, which is a word of TLA+
NONE == 5

IDLE == 0
ROUTING_DELAY == 1
ROUTING_HEADER == 2
ROUTING_PAYLOAD == 3
ROUTING_DATA == 4

Routers == IF build = "BUS" THEN {0} ELSE Cores
Ports == IF build = "BUS" THEN Cores ELSE EAST .. LOCAL_PORT

\* Flit k of the n-th packet of a core: 1 is the header, 2 the number of
\* flits that follow.
Flit(c, n, k) == [from |-> c, number |-> n, pos |-> k]
Target(flit) == Traffic[flit.from][flit.number]
PayloadFlits == NI_BUFFER_LENGTH - 2

isFull(buffer, max) == Len(buffer) = max
isEmpty(buffer) == buffer = << >>

\* A wire joins the output half of a Port to the input half of another: a
\* request is ON while there is a flit.
cleanPort == [out |-> NoFlit, out_ack |-> FALSE, in |-> NoFlit, in_ack |-> FALSE]

Idle == [status |-> IDLE, redirect_to |-> NONE, routing_delay |-> 0, packets_remaining |-> 0]

Init ==     \* load_architecture
    /\ build \in Builds
    /\ gcycles = 0
    /\ arbiter = [r \in Routers |-> 0]
    /\ connection = [r \in Routers |-> [p \in Ports |-> Idle]]
    /\ queue = [r \in Routers |-> [p \in Ports |-> << >>]]
    /\ toRouter = [r \in Routers |-> [p \in Ports |-> cleanPort]]
    /\ fromCore = [c \in Cores |-> cleanPort]
    /\ toNI = fromCore /\ toCore = fromCore
    /\ plasma = [c \in Cores |-> << >>]
    /\ noc = plasma /\ got = plasma /\ delivered = plasma
    /\ begun = [c \in Cores |-> 0]
    /\ written = begun /\ flits_remaining = begun /\ reads = begun /\ gap = begun
-----------------------------------------------------------------------------
(* Wires *)

\* Mutant: a flit is offered again before its acknowledge has come back.
synchronizePortsAgain(w) ==
    IF w.out # NoFlit /\ ~w.in_ack THEN [w EXCEPT !.in = w.out]
    ELSE IF w.out # NoFlit /\ w.in_ack THEN [w EXCEPT !.in = NoFlit, !.in_ack = FALSE, !.out_ack = TRUE]
    ELSE w

synchronizePorts(w) ==
    IF w.out # NoFlit /\ ~w.in_ack /\ ~w.out_ack THEN [w EXCEPT !.in = w.out]
    ELSE IF w.out # NoFlit /\ w.in_ack THEN [w EXCEPT !.in = NoFlit, !.in_ack = FALSE, !.out_ack = TRUE]
    ELSE w

\* do_debug: a core whose flit has been taken leaves the bus and goes on.
Release(w) == IF w.out_ack THEN [w EXCEPT !.out = NoFlit, !.out_ack = FALSE] ELSE w

SyncedFromCore == [c \in Cores |-> synchronizePorts(Release(fromCore[c]))]
SyncedToCore == [c \in Cores |-> synchronizePorts(toCore[c])]
SyncedToNI == [c \in Cores |-> synchronizePorts(toNI[c])]
SyncedToRouter == [r \in Routers |-> [p \in Ports |-> synchronizePorts(toRouter[r][p])]]
-----------------------------------------------------------------------------
(* Routers *)

LineOf(n) == n \div NOC_WIDTH
ColumnOf(n) == n % NOC_WIDTH

\* The ports of a router that lead somewhere.
Connected(r) ==
    IF build = "BUS" THEN Cores
    ELSE {p \in EAST .. LOCAL_PORT :
              CASE p = EAST -> ColumnOf(r) < NOC_WIDTH - 1
                [] p = WEST -> ColumnOf(r) > 0
                [] p = NORTH -> LineOf(r) < NOC_HEIGHT - 1
                [] p = SOUTH -> LineOf(r) > 0
                [] p = LOCAL_PORT -> TRUE}

Neighbour(r, p) == CASE p = EAST -> r + 1
                     [] p = WEST -> r - 1
                     [] p = NORTH -> r + NOC_WIDTH
                     [] p = SOUTH -> r - NOC_WIDTH
Opposite(p) == CASE p = EAST -> WEST [] p = WEST -> EAST [] p = NORTH -> SOUTH [] p = SOUTH -> NORTH

\* Does output port p of router r lead to an interface, and to which.
ToInterface(p) == build = "BUS" \/ p = LOCAL_PORT
InterfaceAt(r, p) == IF build = "BUS" THEN p ELSE r

\* The port a packet leaves router r by.
Direction(r, flit) ==
    LET dest == Target(flit)
    IN CASE build = "BUS" -> dest
         [] build # "BUS" /\ dest = r -> LOCAL_PORT
         [] build # "BUS" /\ ColumnOf(r) < ColumnOf(dest) -> EAST
         [] build # "BUS" /\ ColumnOf(r) > ColumnOf(dest) -> WEST
         [] build # "BUS" /\ ColumnOf(r) = ColumnOf(dest) /\ LineOf(r) > LineOf(dest) -> SOUTH
         [] build # "BUS" /\ ColumnOf(r) = ColumnOf(dest) /\ LineOf(r) < LineOf(dest) -> NORTH

\* Flits that wait on the wires into router r enter its queues.
Accepts(wire, q) == wire.in # NoFlit /\ ~isFull(q, NOC_BUFFER_SIZE)

ActiveConnections(conn) == {p \in Ports : conn[p].status # IDLE}

BusFree(conn) == ActiveConnections(conn) = {}

MayConnect(conn, a, dest) ==
    IF build = "BUS" THEN BusFree(conn)
    ELSE \A j \in ActiveConnections(conn) \ {a} : conn[j].redirect_to # dest

\* The port in turn opens a connection for the packet at its head.
Arbitrate(r, q, conn) ==
    LET a == arbiter[r]
    IN IF conn[a].status = IDLE /\ ~isEmpty(q[a]) /\ MayConnect(conn, a, Direction(r, Head(q[a])))
       THEN [conn EXCEPT ![a] = [Idle EXCEPT !.status = ROUTING_DELAY,
                                             !.redirect_to = Direction(r, Head(q[a])),
                                             !.routing_delay = ROUTING_ALGORITHM_DELAY]]
       ELSE conn

\* One input port forwards: s holds the queues, connections and outputs of a
\* router, i is the port.
Put(s, i, conn) == [q |-> [s.q EXCEPT ![i] = Tail(@)],
                    conn |-> [s.conn EXCEPT ![i] = conn],
                    out |-> [s.out EXCEPT ![conn.redirect_to] = [flit |-> Head(s.q[i]), ack |-> FALSE]]]

ForwardHeader(s, i) ==
    LET c == s.conn[i]
    IN IF c.routing_delay > 0 THEN [s EXCEPT !.conn[i].routing_delay = @ - 1]
       ELSE IF isEmpty(s.q[i]) THEN s
       ELSE Put(s, i, [c EXCEPT !.status = ROUTING_HEADER])

ForwardSize(s, i) ==
    IF isEmpty(s.q[i]) THEN s
    ELSE Put(s, i, [s.conn[i] EXCEPT !.status = ROUTING_PAYLOAD, !.packets_remaining = PayloadFlits])

\* Mutant: a connection is closed one flit early.
LastFlitEarly(c) == c.packets_remaining <= 1

LastFlit(c) == c.packets_remaining = 0

ForwardData(s, i) ==
    LET c == [s.conn[i] EXCEPT !.status = ROUTING_DATA]
    IN IF LastFlit(c)
       THEN [s EXCEPT !.conn[i] = Idle, !.out[c.redirect_to] = [flit |-> NoFlit, ack |-> FALSE]]
       ELSE IF isEmpty(s.q[i]) THEN [s EXCEPT !.conn[i] = c]
       ELSE Put(s, i, [c EXCEPT !.packets_remaining = @ - 1])

Forward(s, i) ==
    LET c == s.conn[i]
    IN CASE c.status = IDLE -> s
         [] c.status = ROUTING_DELAY -> ForwardHeader(s, i)
         [] c.status = ROUTING_HEADER /\ s.out[c.redirect_to].ack -> ForwardSize(s, i)
         [] c.status \in {ROUTING_PAYLOAD, ROUTING_DATA} /\ s.out[c.redirect_to].ack -> ForwardData(s, i)
         [] OTHER -> s

\* Mutant: the turn does not pass.
NextPortStuck(r, conn) == arbiter[r]

\* Who is in turn next: the mesh skips ports without a wire, the bus waits
\* for the end of the connection.
BusTurn(conn) == IF BusFree(conn) THEN (arbiter[0] + 1) % (NOC_WIDTH * NOC_HEIGHT) ELSE arbiter[0]

NextPort(r, conn) ==
    IF build = "BUS" THEN BusTurn(conn)
    ELSE LET after(k) == (arbiter[r] + k) % 5
             k == CHOOSE k \in 1 .. 5 : /\ after(k) \in Connected(r)
                                        /\ \A j \in 1 .. k - 1 : after(j) \notin Connected(r)
         IN after(k)

\* The outputs of router r as the wires have them.
WireOut(r, p, wires, nis) == IF ToInterface(p) THEN nis[InterfaceAt(r, p)]
                             ELSE wires[Neighbour(r, p)][Opposite(p)]
OutputsOf(r, wires, nis) ==
    [p \in Connected(r) |-> LET w == WireOut(r, p, wires, nis) IN [flit |-> w.out, ack |-> w.out_ack]]

\* The ports forward one after another.
PortCount == IF build = "BUS" THEN NOC_WIDTH * NOC_HEIGHT ELSE 5
ForwardAll(s) ==
    LET passed[k \in 0 .. PortCount] == IF k = 0 THEN s ELSE Forward(passed[k - 1], k - 1)
    IN passed[PortCount]

\* cycleRouter(r) with the wires as synchronized.
cycleRouter(r, wires, nis) ==
    LET taken == {p \in Ports : Accepts(wires[r][p], queue[r][p])}
        q == [p \in Ports |-> IF p \in taken THEN Append(queue[r][p], wires[r][p].in) ELSE queue[r][p]]
        s == [q |-> q, conn |-> Arbitrate(r, q, connection[r]), out |-> OutputsOf(r, wires, nis)]
        f == ForwardAll(s)
    IN [taken |-> taken, q |-> f.q, conn |-> f.conn, out |-> f.out, arbiter |-> NextPort(r, f.conn)]

\* The BUS build has a copy of cycleRouter for its one router; it differs in
\* Direction, BusFree and BusTurn.
cycleBus(wires, nis) == cycleRouter(0, wires, nis)

\* A wire with what its two ends leave on it.
Wire(w, took, out) == [w EXCEPT !.out = out.flit, !.out_ack = out.ack, !.in_ack = @ \/ took]

\* The routers stand still in the board cycles between two of theirs.
RouterCycle == (gcycles + 1) % CPU_NETWORK_CLK_RATIO = 0
Resting(r, wires, nis) == [taken |-> {}, q |-> queue[r], conn |-> connection[r],
                           out |-> OutputsOf(r, wires, nis), arbiter |-> arbiter[r]]
-----------------------------------------------------------------------------
(* Network interfaces *)

\* An interface with this queue and this output wire: the flit at the head
\* stays in the queue until it has been acknowledged.
Offer(buffer, w) ==
    LET left == IF ~isEmpty(buffer) /\ w.out_ack THEN Tail(buffer) ELSE buffer
    IN [buffer |-> left,
        flit |-> IF ~isEmpty(left) THEN Head(left) ELSE IF isEmpty(buffer) THEN w.out ELSE NoFlit,
        ack |-> IF isEmpty(buffer) THEN w.out_ack ELSE FALSE]

IntoPlasma(c) == SyncedFromCore[c].in # NoFlit /\ ~isFull(plasma[c], NI_BUFFER_LENGTH)
IntoNoc(c) == SyncedToNI[c].in # NoFlit /\ ~isFull(noc[c], NI_BUFFER_LENGTH)

RouterOf(c) == IF build = "BUS" THEN 0 ELSE c
PortOf(c) == IF build = "BUS" THEN c ELSE LOCAL_PORT

cycleNetworkInterface(c) ==
    LET p == IF IntoPlasma(c) THEN Append(plasma[c], SyncedFromCore[c].in) ELSE plasma[c]
        n == IF IntoNoc(c) THEN Append(noc[c], SyncedToNI[c].in) ELSE noc[c]
    IN [toNoc |-> Offer(p, SyncedToRouter[RouterOf(c)][PortOf(c)]),
        toPlasma |-> Offer(n, SyncedToCore[c])]
-----------------------------------------------------------------------------
(* Cores *)

InWrite(c) == written[c] > 0                    \* a critical section of HF_NB_Send
InHandler(c) == reads[c] > 0 \/ gap[c] > 0      \* RecvCommServiceISR

\* Where the board raises the receive interrupt of a core.
Raises(c) == isFull(noc[c], NI_BUFFER_LENGTH) /\ toCore[c].in # NoFlit /\ flits_remaining[c] = 0

MayInterrupt(c) == Raises(c) /\ ~InWrite(c) /\ ~InHandler(c)

\* Mutant: the driver does not look at NOC_STATUS.
InterfaceEmptyIgnored(buffer) == TRUE

InterfaceEmpty(buffer) == isEmpty(buffer)

MayStart(c) == ~InWrite(c) /\ ~InHandler(c) /\ begun[c] < Len(Traffic[c])

Stalled(c) == SyncedFromCore[c].out # NoFlit

\* NOC_WRITE of flit k of packet n.
NocWrite(c, n, k) == [flit |-> Flit(c, n, k), begun |-> n, written |-> k]
NoWrite(c) == [flit |-> SyncedFromCore[c].out, begun |-> begun[c], written |-> written[c]]

\* What a core does with its output in a cycle, given the cores that start.
Writes(c, starters) ==
    CASE Stalled(c) -> NoWrite(c)
      [] ~Stalled(c) /\ c \in starters -> NocWrite(c, begun[c] + 1, 1)
      [] ~Stalled(c) /\ c \notin starters /\ written[c] \in 1 .. NI_BUFFER_LENGTH - 1 ->
             NocWrite(c, begun[c], written[c] + 1)
      [] OTHER -> [NoWrite(c) EXCEPT !.written = 0]

\* The handler's NocRead in this cycle: the first starts the interface.
Reading(c) == reads[c] > 0 /\ gap[c] = 0
StartsInterface(c) == flits_remaining[c] = NI_BUFFER_LENGTH + 1
ReadsFlit(c) == Reading(c) /\ ~StartsInterface(c) /\ SyncedToCore[c].in # NoFlit

Handled(c, irqs) ==
    LET interrupted == [remaining |-> NI_BUFFER_LENGTH + 1, reads |-> NI_BUFFER_LENGTH + 1,
                        gap |-> READ_GAP - 1, got |-> << >>]
        same == [remaining |-> flits_remaining[c], reads |-> reads[c], gap |-> gap[c], got |-> got[c]]
    IN CASE c \in irqs -> interrupted
         [] c \notin irqs /\ Reading(c) ->
                [remaining |-> IF StartsInterface(c) \/ ReadsFlit(c) THEN flits_remaining[c] - 1
                               ELSE flits_remaining[c],
                 reads |-> reads[c] - 1,
                 gap |-> READ_GAP - 1,
                 got |-> IF StartsInterface(c) THEN << >> ELSE Append(got[c], SyncedToCore[c].in)]
         [] c \notin irqs /\ ~Reading(c) /\ gap[c] > 0 -> [same EXCEPT !.gap = @ - 1]
         [] OTHER -> same

\* The handler has read a packet.
Finishes(c, irqs) == Reading(c) /\ reads[c] = 1 /\ c \notin irqs
-----------------------------------------------------------------------------
Clock == gcycles' = (gcycles + 1) % CPU_NETWORK_CLK_RATIO

\* One cycle: starters begin to send a packet, irqs take an interrupt.
Cycle(starters, irqs) ==
    LET done == [r \in Routers |->
            CASE ~RouterCycle -> Resting(r, SyncedToRouter, SyncedToNI)
              [] RouterCycle /\ build = "BUS" -> cycleBus(SyncedToRouter, SyncedToNI)
              [] OTHER -> cycleRouter(r, SyncedToRouter, SyncedToNI)]
        ni == [c \in Cores |-> cycleNetworkInterface(c)]
        w == [c \in Cores |-> Writes(c, starters)]
        h == [c \in Cores |-> Handled(c, irqs)]
    IN /\ \A c \in starters : InterfaceEmpty(ni[c].toNoc.buffer)
       /\ Clock
       /\ arbiter' = [r \in Routers |-> done[r].arbiter]
       /\ connection' = [r \in Routers |-> done[r].conn]
       /\ queue' = [r \in Routers |-> done[r].q]
       /\ toRouter' = [r \in Routers |-> [p \in Ports |->
              Wire(SyncedToRouter[r][p], p \in done[r].taken,
                   IF p \notin Connected(r) THEN [flit |-> NoFlit, ack |-> FALSE]
                   ELSE IF ToInterface(p) THEN ni[InterfaceAt(r, p)].toNoc
                   ELSE done[Neighbour(r, p)].out[Opposite(p)])]]
       /\ toNI' = [c \in Cores |-> Wire(SyncedToNI[c], IntoNoc(c), done[RouterOf(c)].out[PortOf(c)])]
       /\ toCore' = [c \in Cores |-> Wire(SyncedToCore[c], ReadsFlit(c), ni[c].toPlasma)]
       /\ fromCore' = [c \in Cores |->
              Wire(SyncedFromCore[c], IntoPlasma(c),
                   [flit |-> w[c].flit, ack |-> SyncedFromCore[c].out_ack])]
       /\ plasma' = [c \in Cores |-> ni[c].toNoc.buffer]
       /\ noc' = [c \in Cores |-> ni[c].toPlasma.buffer]
       /\ begun' = [c \in Cores |-> w[c].begun]
       /\ written' = [c \in Cores |-> w[c].written]
       /\ flits_remaining' = [c \in Cores |-> h[c].remaining]
       /\ reads' = [c \in Cores |-> h[c].reads]
       /\ gap' = [c \in Cores |-> h[c].gap]
       /\ got' = [c \in Cores |-> h[c].got]
       /\ delivered' = [c \in Cores |->
              IF Finishes(c, irqs) /\ h[c].got[1] # NoFlit
              THEN Append(delivered[c], <<h[c].got[1].from, h[c].got[1].number>>)
              ELSE delivered[c]]
       /\ UNCHANGED build

Next == \E irqs \in SUBSET {c \in Cores : MayInterrupt(c)} :
        \E starters \in SUBSET {c \in Cores \ irqs : MayStart(c)} : Cycle(starters, irqs)

Spec == Init /\ [][Next]_vars

(* The clock does not stop (a ratio of at least 2 makes it visible in      *)
(* gcycles), and a core whose interrupt waits opens its interrupts some    *)
(* time: every critical section of the kernel ends.                        *)
FairSpec == Spec /\ WF_gcycles(Clock) /\ \A c \in Cores : []<>~MayInterrupt(c)
-----------------------------------------------------------------------------
(* Properties *)

(* RecvCommServiceISR: the handler finds a flit at every NocRead, and the  *)
(* flits are those of one packet for this core, in order, none of another  *)
(* packet between them.                                                    *)
PacketsIntact ==
    \A c \in Cores : \A k \in 1 .. Len(got[c]) :
        /\ got[c][k] # NoFlit
        /\ got[c][k] = [got[c][1] EXCEPT !.pos = k]
        /\ Target(got[c][k]) = c

(* HF_NB_Send writes with interrupts off, and each flit stops the core     *)
(* until the interface has taken it: a core never has to wait for the      *)
(* network there, the interface has room for all it writes.                *)
WriterHasRoom ==
    \A c \in Cores : fromCore[c].in # NoFlit => ~isFull(plasma[c], NI_BUFFER_LENGTH) \/ fromCore[c].in_ack

(* The network is a first-in first-out channel of whole packets.           *)
InFlight(s, d) == SelectSeq([k \in 1 .. begun[s] |-> k],
                            LAMBDA k : Traffic[s][k] = d /\ <<s, k>> \notin ToSet(delivered[d]))
Abstract == INSTANCE Network WITH
    inflight <- [s \in Cores |-> [d \in Cores |-> InFlight(s, d)]]
ImplementsNetwork == Abstract!Init /\ [][Abstract!Step]_vars

(* Every packet a core begins to write arrives: the routers neither starve *)
(* a port nor wait for each other in a circle.                             *)
Arrives ==
    \A c \in Cores : \A n \in 1 .. Len(Traffic[c]) :
        begun[c] >= n ~> <<c, n>> \in ToSet(delivered[Traffic[c][n]])
=============================================================================
