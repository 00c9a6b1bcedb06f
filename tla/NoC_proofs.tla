----------------------------- MODULE NoC_proofs -----------------------------
(***************************************************************************)
(* Two properties of the network, for any size of it, of packets, traffic  *)
(* and queues, in both builds.                                             *)
(*                                                                         *)
(* A core never waits for the network while it writes a packet.  The       *)
(* driver starts a packet when NOC_STATUS shows an empty interface, so the *)
(* interface never holds more flits, the one on the wire included, than    *)
(* the core has written of this packet; and a packet is as long as the     *)
(* queue of the interface.  The flit on the wire must be counted once:     *)
(* that is what the state of the handshake in Handshake is for.            *)
(*                                                                         *)
(* The interrupt handler reads whole packets (PacketsAlwaysIntact).  The   *)
(* flits of every stretch of their way follow each other (Chain): from the *)
(* core to the queue of its router (SendInv), from a queue to the output   *)
(* its connection holds (RouterInv), from a wire to the queue of the next  *)
(* router (LinkInv), and from the last output through the interface to the *)
(* handler (ReceiveInv).  A wire that is waiting carries the next flit, an *)
(* acknowledged one leaves the last flit known (Flow).  What joins the     *)
(* stretches is that one connection at most holds an output, and lets go   *)
(* of it only after the last flit of a packet (Turned).                    *)
(***************************************************************************)
EXTENDS NoC, ModLemmas, SequenceTheorems, TLAPS

USE NoCAssumption

Signals == [from : Cores, number : Nat, pos : Nat] \cup {NoFlit}
Wires == [out : Signals, out_ack : BOOLEAN, in : Signals, in_ack : BOOLEAN]

WriterType ==
    /\ fromCore \in [Cores -> Wires]
    /\ plasma \in [Cores -> Seq(Signals)]
    /\ begun \in [Cores -> Nat]
    /\ written \in [Cores -> 0 .. NI_BUFFER_LENGTH]

\* A flit is on a wire from the core's write until the core is told that it has
\* been taken; the other end shows it for a part of that time.
Handshake(w) == /\ w.in # NoFlit => w.out # NoFlit /\ ~w.out_ack
                /\ w.in_ack => w.in # NoFlit
                /\ w.out_ack => w.in = NoFlit /\ ~w.in_ack

\* It has not been taken yet.
Waits(w) == w.out # NoFlit /\ ~w.in_ack /\ ~w.out_ack

\* Flits the core has put into its interface that have not left it.
Inside(c) == Len(plasma[c]) + (IF Waits(fromCore[c]) THEN 1 ELSE 0)

WriterInv ==
    /\ WriterType
    /\ \A c \in Cores : /\ Handshake(fromCore[c])
                        /\ written[c] = 0 => ~Waits(fromCore[c])
                        /\ written[c] > 0 => Inside(c) <= written[c]
-----------------------------------------------------------------------------
LEMMA InitWriter == Init => WriterInv
<1> SUFFICES ASSUME Init PROVE WriterInv
  OBVIOUS
<1>1. cleanPort \in Wires /\ Handshake(cleanPort) /\ ~Waits(cleanPort)
  BY DEF cleanPort, Wires, Signals, Handshake, Waits
<1>2. << >> \in Seq(Signals)
  OBVIOUS
<1> HIDE DEF cleanPort, Wires, Signals
<1>3. /\ fromCore = [c \in Cores |-> cleanPort] /\ plasma = [c \in Cores |-> << >>]
      /\ begun = [c \in Cores |-> 0] /\ written = [c \in Cores |-> 0]
  BY DEF Init
<1>4. WriterType
  BY <1>1, <1>2, <1>3 DEF WriterType
<1> QED BY <1>1, <1>3, <1>4 DEF WriterInv

\* What an interface shows at its head leaves its queue only when taken.
LEMMA OfferShrinks ==
    ASSUME NEW b \in Seq(Signals), NEW w
    PROVE  /\ Offer(b, w).buffer \in Seq(Signals)
           /\ Len(Offer(b, w).buffer) <= Len(b)
<1> HIDE DEF Signals
<1>1. Offer(b, w).buffer = IF b # << >> /\ w.out_ack THEN Tail(b) ELSE b
  BY DEF Offer, isEmpty
<1>2. b # << >> => Tail(b) \in Seq(Signals) /\ Len(Tail(b)) = Len(b) - 1
  BY HeadTailProperties
<1>3. Len(b) \in Nat
  OBVIOUS
<1> QED BY <1>1, <1>2, <1>3

\* The wire from a core after the signals have crossed it.
LEMMA SyncedWire ==
    ASSUME NEW w \in Wires, Handshake(w), NEW s, s = synchronizePorts(Release(w))
    PROVE  /\ s \in Wires
           /\ s.out = NoFlit => s.in = NoFlit /\ ~s.in_ack /\ ~s.out_ack
           /\ s.out # NoFlit => \/ Waits(w) /\ s.in # NoFlit /\ ~s.in_ack /\ ~s.out_ack
                                \/ ~Waits(w) /\ s.in = NoFlit /\ ~s.in_ack /\ s.out_ack
           /\ w.out_ack => s.out = NoFlit
<1>1. PICK r : r = Release(w)
  OBVIOUS
<1>2. CASE w.out_ack
  <2>1. /\ r.out = NoFlit /\ r.out_ack = FALSE /\ r.in = w.in /\ r.in_ack = w.in_ack
        /\ r \in Wires
    BY <1>1, <1>2 DEF Release, Wires, Signals
  <2>2. s = r
    BY <1>1, <2>1 DEF synchronizePorts
  <2> QED BY <1>2, <2>1, <2>2 DEF Handshake
<1>3. CASE ~w.out_ack
  <2>1. r = w
    BY <1>1, <1>3 DEF Release
  <2>2. CASE w.out = NoFlit
    <3>1. s = w
      BY <1>1, <2>1, <2>2 DEF synchronizePorts
    <3> QED BY <3>1, <2>2, <1>3 DEF Handshake
  <2>3. CASE w.out # NoFlit /\ ~w.in_ack
    <3>1. s = [w EXCEPT !.in = w.out]
      BY <1>1, <1>3, <2>1, <2>3 DEF synchronizePorts
    <3>2. s \in Wires /\ s.out = w.out /\ s.in = w.out /\ s.in_ack = w.in_ack /\ s.out_ack = w.out_ack
      BY <3>1 DEF Wires
    <3> QED BY <3>2, <2>3, <1>3 DEF Waits
  <2>4. CASE w.out # NoFlit /\ w.in_ack
    <3>1. s = [w EXCEPT !.in = NoFlit, !.in_ack = FALSE, !.out_ack = TRUE]
      BY <1>1, <1>3, <2>1, <2>4 DEF synchronizePorts
    <3>2. s \in Wires /\ s.out = w.out /\ s.in = NoFlit /\ s.in_ack = FALSE /\ s.out_ack = TRUE
      BY <3>1 DEF Wires, Signals
    <3> QED BY <3>2, <2>4, <1>3 DEF Waits
  <2> QED BY <2>2, <2>3, <2>4 DEF Wires
<1> QED BY <1>2, <1>3

LEMMA CycleWriter ==
    ASSUME WriterInv, NEW starters \in SUBSET Cores, NEW irqs, Cycle(starters, irqs)
    PROVE  WriterInv'
<1>1. PICK w, ni : /\ w = [c \in Cores |-> Writes(c, starters)]
                   /\ ni = [c \in Cores |-> cycleNetworkInterface(c)]
  OBVIOUS
<1>2. /\ fromCore' = [c \in Cores |-> Wire(SyncedFromCore[c], IntoPlasma(c),
                                           [flit |-> w[c].flit, ack |-> SyncedFromCore[c].out_ack])]
      /\ plasma' = [c \in Cores |-> ni[c].toNoc.buffer]
      /\ begun' = [c \in Cores |-> w[c].begun]
      /\ written' = [c \in Cores |-> w[c].written]
      /\ \A c \in starters : InterfaceEmpty(ni[c].toNoc.buffer)
  BY <1>1, Zenon DEF Cycle
<1>3. ASSUME NEW c \in Cores
      PROVE  /\ fromCore'[c] \in Wires /\ plasma'[c] \in Seq(Signals)
             /\ begun'[c] \in Nat /\ written'[c] \in 0 .. NI_BUFFER_LENGTH
             /\ Handshake(fromCore'[c])
             /\ written'[c] = 0 => ~Waits(fromCore'[c])
             /\ written'[c] > 0 =>
                   Len(plasma'[c]) + (IF Waits(fromCore'[c]) THEN 1 ELSE 0) <= written'[c]
  <2>1. PICK v, s, x : v = fromCore[c] /\ s = SyncedFromCore[c] /\ x = Writes(c, starters)
    OBVIOUS
  <2>2. PICK took, b : took = IntoPlasma(c) /\ b = plasma[c]
    OBVIOUS
  <2>3. PICK q : q = IF took THEN Append(b, s.in) ELSE b
    OBVIOUS
  <2>4. /\ v \in Wires /\ Handshake(v) /\ s = synchronizePorts(Release(v))
        /\ b \in Seq(Signals) /\ Len(b) \in Nat
        /\ begun[c] \in Nat /\ written[c] \in 0 .. NI_BUFFER_LENGTH
        /\ written[c] = 0 => ~Waits(v)
        /\ written[c] > 0 => Len(b) + (IF Waits(v) THEN 1 ELSE 0) <= written[c]
    BY <2>1, <2>2 DEF WriterInv, WriterType, SyncedFromCore, Inside
  <2>5. /\ s \in Wires
        /\ s.out = NoFlit => s.in = NoFlit /\ ~s.in_ack /\ ~s.out_ack
        /\ s.out # NoFlit => \/ Waits(v) /\ s.in # NoFlit /\ ~s.in_ack /\ ~s.out_ack
                             \/ ~Waits(v) /\ s.in = NoFlit /\ ~s.in_ack /\ s.out_ack
    BY <2>4, SyncedWire
  <2>6. took <=> s.in # NoFlit /\ Len(b) # NI_BUFFER_LENGTH
    BY <2>1, <2>2 DEF IntoPlasma, isFull
  <2>7. /\ q \in Seq(Signals)
        /\ Len(q) = IF took THEN Len(b) + 1 ELSE Len(b)
    <3>1. s.in \in Signals
      BY <2>5 DEF Wires
    <3> HIDE DEF Signals
    <3> QED BY <3>1, <2>3, <2>4, AppendProperties
  <2>8. /\ plasma'[c] \in Seq(Signals) /\ Len(plasma'[c]) <= Len(q) /\ Len(plasma'[c]) \in Nat
        /\ c \in starters => Len(plasma'[c]) = 0
    <3>1. ni[c].toNoc = Offer(q, SyncedToRouter[RouterOf(c)][PortOf(c)])
      BY <1>1, <2>1, <2>2, <2>3 DEF cycleNetworkInterface
    <3>2. plasma'[c] = Offer(q, SyncedToRouter[RouterOf(c)][PortOf(c)]).buffer
      BY <3>1, <1>2
    <3>3. plasma'[c] \in Seq(Signals) /\ Len(plasma'[c]) <= Len(q)
      BY <3>2, <2>7, OfferShrinks
    <3>4. c \in starters => plasma'[c] = << >>
      BY <1>2 DEF InterfaceEmpty, isEmpty
    <3> HIDE DEF Signals
    <3> QED BY <3>3, <3>4
  <2>9. /\ fromCore'[c] = [s EXCEPT !.out = x.flit, !.out_ack = s.out_ack, !.in_ack = s.in_ack \/ took]
        /\ begun'[c] = x.begun /\ written'[c] = x.written
    BY <1>1, <1>2, <2>1, <2>2 DEF Wire
  <2>10. CASE s.out # NoFlit
    <3>1. x = [flit |-> s.out, begun |-> begun[c], written |-> written[c]]
      BY <2>1, <2>10 DEF Writes, Stalled, NoWrite
    <3>2. PICK z : z = fromCore'[c]
      OBVIOUS
    <3>3. /\ z.out = s.out /\ z.in = s.in /\ z.out_ack = s.out_ack
          /\ z.in_ack = (s.in_ack \/ took)
          /\ z \in Wires
      BY <3>1, <3>2, <2>5, <2>9 DEF Wires
    <3>4. begun'[c] = begun[c] /\ written'[c] = written[c]
      BY <3>1, <2>9
    <3>5. CASE Waits(v)
      <4>1. s.in # NoFlit /\ ~s.in_ack /\ ~s.out_ack
        BY <3>5, <2>5, <2>10
      <4>2. written[c] > 0 /\ Len(b) + 1 <= written[c]
        BY <3>5, <2>4
      <4>3. took
        BY <4>1, <4>2, <2>4, <2>6
      <4>4. Handshake(z) /\ ~Waits(z)
        BY <3>3, <4>1, <4>3, <2>10 DEF Handshake, Waits
      <4>5. Len(plasma'[c]) + 0 <= written[c]
        BY <4>2, <4>3, <2>4, <2>7, <2>8
      <4> QED BY <3>2, <3>3, <3>4, <4>4, <4>5, <2>4, <2>8
    <3>6. CASE ~Waits(v)
      <4>1. s.in = NoFlit /\ ~s.in_ack /\ s.out_ack /\ ~took
        BY <3>6, <2>5, <2>6, <2>10
      <4>2. Handshake(z) /\ ~Waits(z)
        BY <3>3, <4>1 DEF Handshake, Waits
      <4>3. written[c] > 0 => Len(plasma'[c]) + 0 <= written[c]
        BY <3>6, <4>1, <2>4, <2>7, <2>8
      <4> QED BY <3>2, <3>3, <3>4, <4>2, <4>3, <2>4, <2>8
    <3> QED BY <3>5, <3>6
  <2>11. CASE s.out = NoFlit
    <3>1. s.in = NoFlit /\ ~s.in_ack /\ ~s.out_ack /\ ~took
      BY <2>5, <2>6, <2>11
    <3>2. PICK z : z = fromCore'[c]
      OBVIOUS
    <3>3. /\ z.out = x.flit /\ z.in = NoFlit /\ ~z.out_ack /\ ~z.in_ack
          /\ x.flit \in Signals => z \in Wires
      BY <3>1, <3>2, <2>5, <2>9 DEF Wires
    <3>4. Handshake(z) /\ (x.flit = NoFlit => ~Waits(z))
      BY <3>3 DEF Handshake, Waits
    <3>5. Len(plasma'[c]) <= Len(b)
      BY <3>1, <2>4, <2>7, <2>8
    <3>6. ~Stalled(c)
      BY <2>1, <2>11 DEF Stalled
    <3>7. CASE c \in starters
      <4>1. x.flit = Flit(c, begun[c] + 1, 1) /\ x.begun = begun[c] + 1 /\ x.written = 1
        BY <3>6, <3>7, <2>1 DEF Writes, NocWrite
      <4>2. x.flit \in Signals
        BY <4>1, <2>4 DEF Flit, Signals
      <4>3. 1 \in 0 .. NI_BUFFER_LENGTH
        OBVIOUS
      <4>4. \A n \in {0, 1} : Len(plasma'[c]) + n <= 1
        BY <3>7, <2>8
      <4>5. (IF Waits(z) THEN 1 ELSE 0) \in {0, 1}
        OBVIOUS
      <4>6. Len(plasma'[c]) + (IF Waits(z) THEN 1 ELSE 0) <= 1
        BY <4>4, <4>5, Zenon
      <4>7. written'[c] = 1 /\ begun'[c] \in Nat
        BY <4>1, <2>4, <2>9
      <4>8. fromCore'[c] \in Wires /\ Handshake(fromCore'[c])
        BY <3>2, <3>3, <3>4, <4>2
      <4>9. written'[c] # 0
        BY <4>7
      <4> HIDE DEF Wires, Signals, Handshake, Waits
      <4> QED BY <3>2, <4>3, <4>6, <4>7, <4>8, <4>9, <2>8
    <3>8. CASE c \notin starters /\ written[c] \in 1 .. NI_BUFFER_LENGTH - 1
      <4>1. x.flit = Flit(c, begun[c], written[c] + 1) /\ x.begun = begun[c] /\ x.written = written[c] + 1
        BY <3>6, <3>8, <2>1 DEF Writes, NocWrite
      <4>2. x.flit \in Signals
        BY <4>1, <2>4 DEF Flit, Signals
      <4>3. written[c] + 1 \in 0 .. NI_BUFFER_LENGTH /\ written[c] > 0
        BY <3>8, <2>4
      <4>4. Len(b) <= written[c]
        BY <4>3, <2>4
      <4>5. \A n \in {0, 1} : Len(plasma'[c]) + n <= written[c] + 1
        BY <4>3, <4>4, <3>5, <2>4, <2>8
      <4>6. (IF Waits(z) THEN 1 ELSE 0) \in {0, 1}
        OBVIOUS
      <4>7. Len(plasma'[c]) + (IF Waits(z) THEN 1 ELSE 0) <= written[c] + 1
        BY <4>5, <4>6, Zenon
      <4>8. /\ written'[c] = written[c] + 1 /\ begun'[c] \in Nat
            /\ written'[c] \in 0 .. NI_BUFFER_LENGTH /\ written'[c] # 0
        BY <4>1, <4>3, <2>4, <2>9
      <4>9. fromCore'[c] \in Wires /\ Handshake(fromCore'[c])
        BY <3>2, <3>3, <3>4, <4>2
      <4> HIDE DEF Wires, Signals, Handshake, Waits
      <4> QED BY <3>2, <4>7, <4>8, <4>9, <2>8
    <3>9. CASE c \notin starters /\ written[c] \notin 1 .. NI_BUFFER_LENGTH - 1
      <4>1. x = [NoWrite(c) EXCEPT !.written = 0]
        BY <3>6, <3>9, <2>1 DEF Writes
      <4>2. x.flit = NoFlit /\ x.begun = begun[c] /\ x.written = 0
        BY <4>1, <2>1, <2>11 DEF NoWrite
      <4>3. x.flit \in Signals /\ 0 \in 0 .. NI_BUFFER_LENGTH
        BY <4>2 DEF Signals
      <4> QED BY <3>2, <3>3, <3>4, <4>2, <4>3, <2>4, <2>8, <2>9
    <3> QED BY <3>7, <3>8, <3>9
  <2> QED BY <2>10, <2>11
<1>4. WriterType'
  <2>1. /\ fromCore' = [c \in Cores |-> fromCore'[c]] /\ plasma' = [c \in Cores |-> plasma'[c]]
        /\ begun' = [c \in Cores |-> begun'[c]] /\ written' = [c \in Cores |-> written'[c]]
    BY <1>2
  <2>2. /\ \A c \in Cores : fromCore'[c] \in Wires
        /\ \A c \in Cores : plasma'[c] \in Seq(Signals)
        /\ \A c \in Cores : begun'[c] \in Nat
        /\ \A c \in Cores : written'[c] \in 0 .. NI_BUFFER_LENGTH
    BY <1>3
  <2> HIDE DEF Wires, Signals
  <2> QED BY <2>1, <2>2, Zenon DEF WriterType
<1> QED BY <1>3, <1>4 DEF WriterInv, Inside, Waits

LEMMA NextWriter == WriterInv /\ [Next]_vars => WriterInv'
<1> SUFFICES ASSUME WriterInv, [Next]_vars PROVE WriterInv'
  OBVIOUS
<1>1. CASE Next
  <2>1. PICK irqs, starters \in SUBSET Cores : Cycle(starters, irqs)
    BY <1>1 DEF Next
  <2> QED BY <2>1, CycleWriter
<1>2. CASE UNCHANGED vars
  BY <1>2 DEF WriterInv, WriterType, Inside, Waits, vars, niVars, coreVars
<1> QED BY <1>1, <1>2

\* The interface of a core has room whenever the core writes, so that the store of
\* HF_NB_Send, made with interrupts off, never stops the core for longer than the
\* handshake takes.
THEOREM WriterAlwaysHasRoom == Spec => []WriterHasRoom
<1>1. WriterInv => WriterHasRoom
  <2> SUFFICES ASSUME WriterInv, NEW c \in Cores, fromCore[c].in # NoFlit, ~fromCore[c].in_ack
               PROVE  ~isFull(plasma[c], NI_BUFFER_LENGTH)
    BY DEF WriterHasRoom
  <2>1. Waits(fromCore[c])
    BY DEF WriterInv, Handshake, Waits
  <2>2. /\ written[c] \in 0 .. NI_BUFFER_LENGTH /\ Len(plasma[c]) \in Nat
        /\ written[c] # 0 /\ Len(plasma[c]) + 1 <= written[c]
    BY <2>1 DEF WriterInv, WriterType, Inside
  <2> QED BY <2>2 DEF isFull
<1> QED BY <1>1, InitWriter, NextWriter, PTL DEF Spec
-----------------------------------------------------------------------------
(* The flits of packets, in order *)

\* The flits of the packets of Traffic.
Flits == {f \in [from : Cores, number : Nat, pos : 1 .. NI_BUFFER_LENGTH] : f.number \in 1 .. Len(Traffic[f.from])}
Shown == Flits \cup {NoFlit}

\* Between packets: nothing has been sent, or the last flit of a packet.
Ended(f) == f = NoFlit \/ f.pos = NI_BUFFER_LENGTH
Same(f, g) == f = g \/ (Ended(f) /\ Ended(g))

\* g may come after f.
After(f, g) == g # NoFlit /\ IF Ended(f) THEN g.pos = 1 ELSE g = [f EXCEPT !.pos = @ + 1]

\* The flits of q come one after another, the first of them after f; and the last.
Chain(f, q) == \A k \in 1 .. Len(q) : After(IF k = 1 THEN f ELSE q[k - 1], q[k])
End(f, q) == IF q = << >> THEN f ELSE q[Len(q)]

LEMMA SameAfter ==
    ASSUME NEW f, NEW g, NEW x, Same(f, g), After(f, x)
    PROVE  After(g, x)
BY DEF Same, After

LEMMA SameTrans ==
    ASSUME NEW f, NEW g, NEW h, Same(f, g), Same(g, h)
    PROVE  Same(f, h) /\ Same(g, f)
BY DEF Same

LEMMA ChainSame ==
    ASSUME NEW f, NEW g, NEW q, Same(f, g), Chain(f, q)
    PROVE  Chain(g, q) /\ Same(End(f, q), End(g, q))
<1>1. ASSUME NEW k \in 1 .. Len(q) PROVE After(IF k = 1 THEN g ELSE q[k - 1], q[k])
  <2>1. After(IF k = 1 THEN f ELSE q[k - 1], q[k])
    BY DEF Chain
  <2>2. CASE k = 1
    BY <2>1, <2>2, SameAfter
  <2>3. CASE k # 1
    BY <2>1, <2>3
  <2> QED BY <2>2, <2>3
<1>2. Same(End(f, q), End(g, q))
  BY DEF End, Same
<1> QED BY <1>1, <1>2 DEF Chain

LEMMA ChainAppend ==
    ASSUME NEW S, NEW q \in Seq(S), NEW x \in S, NEW f, Chain(f, q), After(End(f, q), x)
    PROVE  Chain(f, Append(q, x)) /\ End(f, Append(q, x)) = x
<1>1. PICK p, n : p = Append(q, x) /\ n = Len(q)
  OBVIOUS
<1>2. n \in Nat /\ Len(p) = n + 1 /\ p[n + 1] = x /\ (\A k \in 1 .. n : p[k] = q[k]) /\ p # << >>
  BY <1>1, AppendProperties
<1>3. n = 0 <=> q = << >>
  BY <1>1, EmptySeq
<1>4. ASSUME NEW k \in 1 .. n + 1 PROVE After(IF k = 1 THEN f ELSE p[k - 1], p[k])
  <2>1. CASE k = n + 1
    <3>1. (IF k = 1 THEN f ELSE p[k - 1]) = End(f, q)
      <4>1. CASE n = 0
        BY <4>1, <2>1, <1>3 DEF End
      <4>2. CASE n # 0
        <5>1. k # 1 /\ k - 1 = n /\ n \in 1 .. n
          BY <4>2, <2>1, <1>2
        <5> QED BY <5>1, <4>2, <1>1, <1>2, <1>3 DEF End
      <4> QED BY <4>1, <4>2
    <3> QED BY <3>1, <2>1, <1>2
  <2>2. CASE k # n + 1
    <3>1. k \in 1 .. n /\ (k # 1 => k - 1 \in 1 .. n)
      BY <2>2, <1>2
    <3>2. p[k] = q[k] /\ (k # 1 => p[k - 1] = q[k - 1])
      BY <3>1, <1>2
    <3>3. After(IF k = 1 THEN f ELSE q[k - 1], q[k])
      BY <3>1, <1>1 DEF Chain
    <3> QED BY <3>2, <3>3
  <2> QED BY <2>1, <2>2
<1>5. End(f, p) = x
  BY <1>2 DEF End
<1> QED BY <1>1, <1>2, <1>4, <1>5 DEF Chain

LEMMA ChainTail ==
    ASSUME NEW S, NEW q \in Seq(S), q # << >>, NEW f, Chain(f, q)
    PROVE  /\ Head(q) \in S /\ Tail(q) \in Seq(S)
           /\ After(f, Head(q)) /\ Chain(Head(q), Tail(q))
           /\ End(Head(q), Tail(q)) = End(f, q)
<1>1. PICK h, t, n : h = Head(q) /\ t = Tail(q) /\ n = Len(t)
  OBVIOUS
<1>2. /\ h \in S /\ t \in Seq(S) /\ Len(q) = n + 1 /\ n \in Nat
      /\ h = q[1] /\ \A k \in 1 .. n : t[k] = q[k + 1]
  BY <1>1, HeadTailProperties
<1>3. n = 0 <=> t = << >>
  BY <1>1, <1>2, EmptySeq
<1>4. After(f, h)
  <2>1. 1 \in 1 .. Len(q)
    BY <1>2
  <2> QED BY <2>1, <1>2 DEF Chain
<1>5. ASSUME NEW k \in 1 .. n PROVE After(IF k = 1 THEN h ELSE t[k - 1], t[k])
  <2>1. k + 1 \in 1 .. Len(q) /\ k + 1 # 1 /\ (k + 1) - 1 = k /\ t[k] = q[k + 1]
    BY <1>2
  <2>2. After(q[k], q[k + 1])
    BY <2>1 DEF Chain
  <2>3. CASE k = 1
    BY <2>1, <2>2, <2>3, <1>2
  <2>4. CASE k # 1
    <3>1. k - 1 \in 1 .. n /\ (k - 1) + 1 = k
      BY <2>4, <1>2
    <3>2. t[k - 1] = q[k]
      BY <3>1, <1>2
    <3> QED BY <3>2, <2>1, <2>2, <2>4
  <2> QED BY <2>3, <2>4
<1>6. End(h, t) = End(f, q)
  <2>1. CASE n = 0
    BY <2>1, <1>2, <1>3 DEF End
  <2>2. CASE n # 0
    <3>1. n \in 1 .. n
      BY <2>2, <1>2
    <3>2. t[n] = q[n + 1]
      BY <3>1, <1>2
    <3> QED BY <3>2, <2>2, <1>1, <1>2, <1>3 DEF End
  <2> QED BY <2>1, <2>2
<1> QED BY <1>1, <1>2, <1>4, <1>5, <1>6 DEF Chain

\* A packet that goes on has the same sender and number.
LEMMA GoesOn ==
    ASSUME NEW f \in Flits, NEW g, After(f, g), ~Ended(f)
    PROVE  /\ g \in Flits /\ g.pos = f.pos + 1 /\ g.from = f.from /\ g.number = f.number
           /\ Target(g) = Target(f)
<1>1. f \in [from : Cores, number : Nat, pos : 1 .. NI_BUFFER_LENGTH] /\ f.number \in 1 .. Len(Traffic[f.from])
  BY DEF Flits
<1>2. g = [f EXCEPT !.pos = f.pos + 1] /\ f.pos # NI_BUFFER_LENGTH
  BY DEF After, Ended
<1>3. f.pos + 1 \in 1 .. NI_BUFFER_LENGTH
  BY <1>1, <1>2
<1>4. g = [from |-> f.from, number |-> f.number, pos |-> f.pos + 1]
  BY <1>1, <1>2
<1> QED BY <1>1, <1>3, <1>4 DEF Flits, Target

LEMMA FlitType ==
    ASSUME NEW f \in Flits
    PROVE  /\ f # NoFlit /\ f.pos \in 1 .. NI_BUFFER_LENGTH /\ f.from \in Cores
           /\ f.number \in 1 .. Len(Traffic[f.from]) /\ Target(f) \in Cores
<1>1. f \in [from : Cores, number : Nat, pos : 1 .. NI_BUFFER_LENGTH] /\ f.number \in 1 .. Len(Traffic[f.from])
  BY DEF Flits
<1>2. f \in [from : Cores, number : Nat, pos : Nat]
  BY <1>1
<1>3. f # NoFlit
  BY <1>2
<1>4. Traffic[f.from] \in Seq(Cores)
  BY <1>1
<1>5. Target(f) \in Cores
  <2> HIDE DEF Cores
  <2> QED BY <1>1, <1>4 DEF Target
<1> QED BY <1>1, <1>3, <1>5

-----------------------------------------------------------------------------
(* The mesh *)

\* A product of a smaller factor.
LEMMA RowsBelow ==
    ASSUME NEW w \in Nat \ {0}, NEW h \in Nat, NEW l \in Int, NEW c \in 0 .. w - 1
    PROVE  /\ l * w + c < w * h => l < h
           /\ l < h => l * w + c < w * h
           /\ l * w + c >= 0 => l >= 0
           /\ l >= 0 => l * w \in Nat
<1>1. CASE l < h
  <2>1. l + 1 <= h
    BY <1>1
  <2>2. (l + 1) * w <= h * w
    BY <2>1
  <2>3. (l + 1) * w = l * w + w /\ h * w = w * h
    OBVIOUS
  <2>4. l >= 0 => l * w >= 0
    OBVIOUS
  <2>5. l <= -1 => l * w <= (-1) * w
    OBVIOUS
  <2>6. l * w \in Int /\ w * h \in Int /\ (-1) * w = -w
    OBVIOUS
  <2> QED BY <1>1, <2>2, <2>3, <2>4, <2>5, <2>6
<1>2. CASE l >= h
  <2>1. l * w >= h * w /\ h * w >= 0
    BY <1>2
  <2>2. l * w \in Int /\ h * w \in Int /\ h * w = w * h
    OBVIOUS
  <2> QED BY <1>2, <2>1, <2>2
<1> QED BY <1>1, <1>2

\* A core is known by its line and its column.
LEMMA PlaceOf ==
    ASSUME NEW n \in Cores
    PROVE  /\ ColumnOf(n) \in 0 .. NOC_WIDTH - 1 /\ LineOf(n) \in 0 .. NOC_HEIGHT - 1
           /\ n = LineOf(n) * NOC_WIDTH + ColumnOf(n)
<1>1. PICK w, h, l, c : w = NOC_WIDTH /\ h = NOC_HEIGHT /\ l = n \div w /\ c = n % w
  OBVIOUS
<1>2. w \in Nat \ {0} /\ h \in Nat /\ n \in Nat /\ n < w * h
  <2>1. w \in Nat \ {0} /\ h \in Nat
    BY <1>1
  <2>2. n \in 0 .. w * h - 1 /\ w * h \in Nat
    BY <1>1, <2>1 DEF Cores
  <2> QED BY <2>1, <2>2
<1>3. l \in Nat /\ n = l * w + c /\ c \in 0 .. w - 1
  BY <1>1, <1>2, ModDivision, ModRange
<1>4. l < h
  BY <1>2, <1>3, RowsBelow
<1> QED BY <1>1, <1>2, <1>3, <1>4 DEF LineOf, ColumnOf

LEMMA PlaceIs ==
    ASSUME NEW l \in 0 .. NOC_HEIGHT - 1, NEW c \in 0 .. NOC_WIDTH - 1, NEW n, n = l * NOC_WIDTH + c
    PROVE  n \in Cores /\ LineOf(n) = l /\ ColumnOf(n) = c
<1>1. PICK w, h : w = NOC_WIDTH /\ h = NOC_HEIGHT
  OBVIOUS
<1>2. w \in Nat \ {0} /\ h \in Nat /\ l \in Nat /\ l < h /\ c \in 0 .. w - 1 /\ n = l * w + c
  BY <1>1
<1>3. l * w \in Nat /\ n < w * h
  BY <1>2, RowsBelow
<1>4. n \in Nat
  BY <1>2, <1>3
<1>5. w * h \in Int
  BY <1>2
<1>6. n \in Cores
  BY <1>1, <1>3, <1>4, <1>5 DEF Cores
<1>7. n % w = c /\ n \div w = l
  <2>1. n % w = c
    <3>1. w \in Nat \ {0} /\ n \in Nat /\ l \in Int /\ c \in 0 .. w - 1 /\ n = l * w + c
      BY <1>2, <1>4
    <3> QED BY <3>1, ModUnique
  <2>2. n = (n \div w) * w + (n % w) /\ n \div w \in Nat
    BY <1>2, <1>4, ModDivision
  <2>3. PICK d : d = n \div w
    OBVIOUS
  <2>4. d * w = l * w /\ d \in Nat
    BY <1>2, <1>3, <2>1, <2>2, <2>3
  <2>5. d < l => d * w < l * w
    BY <1>2, <2>4
  <2>6. d > l => d * w > l * w
    BY <1>2, <2>4
  <2>7. d = l
    BY <2>4, <2>5, <2>6, <1>2, <1>3
  <2> QED BY <2>1, <2>3, <2>7
<1> QED BY <1>1, <1>6, <1>7 DEF LineOf, ColumnOf

Far == {EAST, WEST, NORTH, SOUTH}

LEMMA MeshPorts ==
    ASSUME build # "BUS", NEW r
    PROVE  /\ EAST \in Connected(r) <=> ColumnOf(r) < NOC_WIDTH - 1
           /\ WEST \in Connected(r) <=> ColumnOf(r) > 0
           /\ NORTH \in Connected(r) <=> LineOf(r) < NOC_HEIGHT - 1
           /\ SOUTH \in Connected(r) <=> LineOf(r) > 0
<1> HIDE NoCAssumption
<1> QED BY DEF Connected, EAST, WEST, NORTH, SOUTH, LOCAL_PORT

LEMMA MeshWires ==
    /\ \A r : /\ Neighbour(r, EAST) = r + 1 /\ Neighbour(r, WEST) = r - 1
             /\ Neighbour(r, NORTH) = r + NOC_WIDTH /\ Neighbour(r, SOUTH) = r - NOC_WIDTH
    /\ Opposite(EAST) = WEST /\ Opposite(WEST) = EAST /\ Opposite(NORTH) = SOUTH /\ Opposite(SOUTH) = NORTH
    /\ LOCAL_PORT \notin Far
<1> HIDE NoCAssumption
<1> QED BY DEF Neighbour, Opposite, Far, EAST, WEST, NORTH, SOUTH, LOCAL_PORT

\* A wire between two routers has one output and one input.
LEMMA Crossed ==
    ASSUME build # "BUS", NEW r \in Cores, NEW p \in Connected(r), p # LOCAL_PORT, NEW n, n = Neighbour(r, p),
           NEW o, o = Opposite(p)
    PROVE  /\ n \in Cores /\ o \in Connected(n) /\ o # LOCAL_PORT
           /\ Neighbour(n, o) = r /\ Opposite(o) = p
<1>1. PICK l, c, w, h : l = LineOf(r) /\ c = ColumnOf(r) /\ w = NOC_WIDTH /\ h = NOC_HEIGHT
  OBVIOUS
<1>2. /\ c \in 0 .. w - 1 /\ l \in 0 .. h - 1 /\ r = l * w + c /\ w \in Nat /\ h \in Nat
      /\ l * w \in Int /\ r \in Int
  <2>1. c \in 0 .. w - 1 /\ l \in 0 .. h - 1 /\ r = l * w + c /\ w \in Nat /\ h \in Nat
    BY <1>1, PlaceOf
  <2>2. l * w \in Int
    BY <2>1
  <2> QED BY <2>1, <2>2
<1>3. p \in Far
  BY DEF Connected, Far, EAST, WEST, NORTH, SOUTH, LOCAL_PORT
<1>4. CASE p = EAST
  <2>1. c < w - 1 /\ n = r + 1 /\ o = WEST
    BY <1>1, <1>4, MeshPorts, MeshWires
  <2>2. c + 1 \in 0 .. w - 1 /\ n = l * w + (c + 1)
    BY <2>1, <1>2
  <2>3. n \in Cores /\ ColumnOf(n) = c + 1
    BY <2>2, <1>1, <1>2, PlaceIs
  <2>4. WEST \in Connected(n)
    BY <2>2, <2>3, <1>1, <1>2, MeshPorts
  <2>5. Neighbour(n, o) = r /\ Opposite(o) = p /\ o \in Far
    BY <2>1, <1>1, <1>2, <1>4, MeshWires DEF Far
  <2> QED BY <2>1, <2>3, <2>4, <2>5, MeshWires
<1>5. CASE p = WEST
  <2>1. c > 0 /\ n = r - 1 /\ o = EAST
    BY <1>1, <1>5, MeshPorts, MeshWires
  <2>2. c - 1 \in 0 .. w - 1 /\ n = l * w + (c - 1) /\ c - 1 < w - 1
    BY <2>1, <1>2
  <2>3. n \in Cores /\ ColumnOf(n) = c - 1
    BY <2>2, <1>1, <1>2, PlaceIs
  <2>4. EAST \in Connected(n)
    BY <2>2, <2>3, <1>1, <1>2, MeshPorts
  <2>5. Neighbour(n, o) = r /\ Opposite(o) = p /\ o \in Far
    BY <2>1, <1>1, <1>2, <1>5, MeshWires DEF Far
  <2> QED BY <2>1, <2>3, <2>4, <2>5, MeshWires
<1>6. CASE p = NORTH
  <2>1. l < h - 1 /\ n = r + w /\ o = SOUTH
    BY <1>1, <1>6, MeshPorts, MeshWires
  <2>2. l + 1 \in 0 .. h - 1 /\ n = (l + 1) * w + c
    <3>1. (l + 1) * w = l * w + w
      BY <1>2
    <3> QED BY <3>1, <2>1, <1>2
  <2>3. n \in Cores /\ LineOf(n) = l + 1
    BY <2>2, <1>1, <1>2, PlaceIs
  <2>4. SOUTH \in Connected(n)
    BY <2>2, <2>3, <1>1, <1>2, MeshPorts
  <2>5. Neighbour(n, o) = r /\ Opposite(o) = p /\ o \in Far
    BY <2>1, <1>1, <1>2, <1>6, MeshWires DEF Far
  <2> QED BY <2>1, <2>3, <2>4, <2>5, MeshWires
<1>7. CASE p = SOUTH
  <2>1. l > 0 /\ n = r - w /\ o = NORTH
    BY <1>1, <1>7, MeshPorts, MeshWires
  <2>2. l - 1 \in 0 .. h - 1 /\ n = (l - 1) * w + c /\ l - 1 < h - 1
    <3>1. (l - 1) * w = l * w - w
      BY <1>2
    <3> QED BY <3>1, <2>1, <1>2
  <2>3. n \in Cores /\ LineOf(n) = l - 1
    BY <2>2, <1>1, <1>2, PlaceIs
  <2>4. NORTH \in Connected(n)
    BY <2>2, <2>3, <1>1, <1>2, MeshPorts
  <2>5. Neighbour(n, o) = r /\ Opposite(o) = p /\ o \in Far
    BY <2>1, <1>1, <1>2, <1>7, MeshWires DEF Far
  <2> QED BY <2>1, <2>3, <2>4, <2>5, MeshWires
<1> QED BY <1>3, <1>4, <1>5, <1>6, <1>7 DEF Far

\* A packet leaves a router by a port that leads somewhere, and reaches an
\* interface only at its core.
LEMMA Leads ==
    ASSUME build \in {"BUS", "MESH"}, NEW r \in Routers, NEW f \in Flits
    PROVE  /\ Direction(r, f) \in Connected(r) /\ Direction(r, f) \in Int
           /\ ToInterface(Direction(r, f)) => InterfaceAt(r, Direction(r, f)) = Target(f)
<1>1. PICK d : d = Target(f)
  OBVIOUS
<1>2. d \in Cores
  BY <1>1, FlitType
<1>3. CASE build = "BUS"
  <2>1. Direction(r, f) = d
    BY <1>1, <1>3 DEF Direction
  <2>2. d \in Int
    BY <1>2 DEF Cores
  <2> QED BY <1>1, <1>2, <1>3, <2>1, <2>2 DEF Connected, InterfaceAt
<1>4. CASE build # "BUS"
  <2>1. r \in Cores
    BY <1>4 DEF Routers
  <2>2. /\ ColumnOf(r) \in 0 .. NOC_WIDTH - 1 /\ LineOf(r) \in 0 .. NOC_HEIGHT - 1
        /\ ColumnOf(d) \in 0 .. NOC_WIDTH - 1 /\ LineOf(d) \in 0 .. NOC_HEIGHT - 1
        /\ ColumnOf(r) = ColumnOf(d) /\ LineOf(r) = LineOf(d) => r = d
    BY <1>2, <2>1, PlaceOf
  <2>3. CASE d = r
    <3>1. Direction(r, f) = LOCAL_PORT
      <4>1. ~(ColumnOf(r) < ColumnOf(d)) /\ ~(ColumnOf(r) > ColumnOf(d)) /\ ~(LineOf(r) > LineOf(d)) /\ ~(LineOf(r) < LineOf(d))
        BY <2>2, <2>3
      <4> QED BY <4>1, <1>1, <1>4, <2>3 DEF Direction
    <3> QED BY <3>1, <1>1, <1>4, <2>3 DEF Connected, InterfaceAt, EAST, WEST, NORTH, SOUTH, LOCAL_PORT
  <2>4. CASE d # r /\ ColumnOf(r) < ColumnOf(d)
    <3>1. Direction(r, f) = EAST /\ ColumnOf(r) < NOC_WIDTH - 1
      BY <1>1, <1>4, <2>2, <2>4 DEF Direction
    <3> QED BY <3>1, <1>4 DEF Connected, ToInterface, EAST, WEST, NORTH, SOUTH, LOCAL_PORT
  <2>5. CASE d # r /\ ColumnOf(r) > ColumnOf(d)
    <3>1. Direction(r, f) = WEST /\ ColumnOf(r) > 0
      BY <1>1, <1>4, <2>2, <2>5 DEF Direction
    <3> QED BY <3>1, <1>4 DEF Connected, ToInterface, EAST, WEST, NORTH, SOUTH, LOCAL_PORT
  <2>6. CASE d # r /\ ColumnOf(r) = ColumnOf(d) /\ LineOf(r) > LineOf(d)
    <3>1. Direction(r, f) = SOUTH /\ LineOf(r) > 0
      BY <1>1, <1>4, <2>2, <2>6 DEF Direction
    <3> QED BY <3>1, <1>4 DEF Connected, ToInterface, EAST, WEST, NORTH, SOUTH, LOCAL_PORT
  <2>7. CASE d # r /\ ColumnOf(r) = ColumnOf(d) /\ LineOf(r) < LineOf(d)
    <3>1. Direction(r, f) = NORTH /\ LineOf(r) < NOC_HEIGHT - 1
      BY <1>1, <1>4, <2>2, <2>7 DEF Direction
    <3> QED BY <3>1, <1>4 DEF Connected, ToInterface, EAST, WEST, NORTH, SOUTH, LOCAL_PORT
  <2> QED BY <2>2, <2>3, <2>4, <2>5, <2>6, <2>7
<1> QED BY <1>3, <1>4

LEMMA DirectionSame ==
    ASSUME NEW r, NEW f, NEW g, Target(f) = Target(g)
    PROVE  Direction(r, f) = Direction(r, g)
BY DEF Direction

-----------------------------------------------------------------------------
(* Routers *)

Sending == {ROUTING_HEADER, ROUTING_PAYLOAD, ROUTING_DATA}
Statuses == {IDLE, ROUTING_DELAY} \cup Sending
Conns == [status : Statuses, redirect_to : Int, routing_delay : Int, packets_remaining : Int]
Outputs == [flit : Shown, ack : BOOLEAN]

\* The flit of a packet that an input port has put on its output last.
Ahead(c, x) == IF c.status \in Sending THEN x ELSE NoFlit

\* How far a connection is with the packet of flit x.
Fits(c, x) == IF c.status = ROUTING_HEADER THEN x.pos = 1
              ELSE x.pos = NI_BUFFER_LENGTH - c.packets_remaining /\ c.packets_remaining \in 0 .. PayloadFlits

\* An input port with queue q and connection c, whose output shows flit x.
PortOK(r, q, c, x) ==
    /\ Chain(Ahead(c, x), q)
    /\ c.status # IDLE => c.redirect_to \in Connected(r)
    /\ c.status = ROUTING_DELAY => q # << >> /\ c.redirect_to = Direction(r, Head(q)) /\ x = NoFlit
    /\ c.status \in Sending => x # NoFlit /\ c.redirect_to = Direction(r, x) /\ Fits(c, x)

\* The flit on the output of connection c.
OutOf(c, out) == out[c.redirect_to].flit

RouterOK(r, q, conn, out) ==
    /\ \A i \in Ports : PortOK(r, q[i], conn[i], OutOf(conn[i], out))
    /\ \A i, j \in Ports : i # j /\ conn[i].status # IDLE /\ conn[j].status # IDLE
                           => conn[i].redirect_to # conn[j].redirect_to
    /\ \A o \in Connected(r) : out[o].flit # NoFlit
                               => \E i \in Ports : conn[i].status \in Sending /\ conn[i].redirect_to = o

TipOf(q, c, x) == End(Ahead(c, x), q)

RouterStates(r) == [q : [Ports -> Seq(Flits)], conn : [Ports -> Conns], out : [Connected(r) -> Outputs]]

\* Output y, acknowledged or empty, gives way to x.
Replaces(x, y) == /\ x.flit = NoFlit \/ x.ack
                  /\ ~y.ack
                  /\ IF y.flit = NoFlit THEN Ended(x.flit) ELSE After(x.flit, y.flit)

\* What forwarding makes of a router in state s0.
Moved(r, s0, s) ==
    /\ s \in RouterStates(r) /\ RouterOK(r, s.q, s.conn, s.out)
    /\ \A o \in Connected(r) : s.out[o] = s0.out[o] \/ Replaces(s0.out[o], s.out[o])
    /\ \A i \in Ports :
          /\ Same(TipOf(s0.q[i], s0.conn[i], OutOf(s0.conn[i], s0.out)),
                  TipOf(s.q[i], s.conn[i], OutOf(s.conn[i], s.out)))
          /\ s.conn[i].status = ROUTING_DELAY => s.out[s.conn[i].redirect_to] = s0.out[s.conn[i].redirect_to]

\* One input port and its output change.
PortMoves(r, q, c, x, q1, c1, x1) ==
    /\ q1 \in Seq(Flits) /\ c1 \in Conns /\ x1 \in Outputs
    /\ c.status # IDLE
    /\ c1.status # IDLE => c1.redirect_to = c.redirect_to
    /\ c1.status # IDLE => PortOK(r, q1, c1, x1.flit)
    /\ c1.status = IDLE => Chain(NoFlit, q1) /\ x1.flit = NoFlit
    /\ c1.status = ROUTING_DELAY => x1 = x
    /\ x1 = x \/ Replaces(x, x1)
    /\ Same(TipOf(q, c, x.flit), TipOf(q1, c1, x1.flit))

\* s1 is s but for input port i and its output.
ChangesPort(r, s, s1, i) ==
    /\ s1.q \in [Ports -> Seq(Flits)] /\ s1.conn \in [Ports -> Conns] /\ s1.out \in [Connected(r) -> Outputs]
    /\ \A j \in Ports : j # i => s1.q[j] = s.q[j] /\ s1.conn[j] = s.conn[j]
    /\ \A o \in Connected(r) : o # s.conn[i].redirect_to => s1.out[o] = s.out[o]
    /\ DOMAIN s1 = {"q", "conn", "out"}

\* x is acknowledged or empty, so it is what it was when the cycle began.
LEMMA StillThere ==
    ASSUME NEW r, NEW s0, NEW s, Moved(r, s0, s), NEW i \in Ports, s.conn[i].status # IDLE,
           NEW x, x = s.out[s.conn[i].redirect_to], x.ack \/ s.conn[i].status = ROUTING_DELAY
    PROVE  x = s0.out[s.conn[i].redirect_to]
<1>1. s.conn[i].redirect_to \in Connected(r)
  BY DEF Moved, RouterOK, PortOK
<1>2. CASE s.conn[i].status = ROUTING_DELAY
  BY <1>2 DEF Moved
<1>3. CASE x.ack
  BY <1>1, <1>3 DEF Moved, Replaces
<1> QED BY <1>2, <1>3

LEMMA PortKeeps ==
    ASSUME NEW r, NEW s0, NEW s, Moved(r, s0, s), NEW i \in Ports,
           NEW s1, s1 \in RouterStates(r), ChangesPort(r, s, s1, i),
           NEW o, o = s.conn[i].redirect_to,
           PortMoves(r, s.q[i], s.conn[i], s.out[o], s1.q[i], s1.conn[i], s1.out[o]),
           s1.out[o] # s.out[o] \/ s1.conn[i].status = ROUTING_DELAY => s.out[o] = s0.out[o]
    PROVE  Moved(r, s0, s1)
<1>1. PICK q, c, x, q1, c1, x1 : /\ q = s.q[i] /\ c = s.conn[i] /\ x = s.out[o]
                                 /\ q1 = s1.q[i] /\ c1 = s1.conn[i] /\ x1 = s1.out[o]
  OBVIOUS
<1>2. /\ \A j \in Ports : PortOK(r, s.q[j], s.conn[j], OutOf(s.conn[j], s.out))
      /\ \A j, k \in Ports : j # k /\ s.conn[j].status # IDLE /\ s.conn[k].status # IDLE
                             => s.conn[j].redirect_to # s.conn[k].redirect_to
      /\ \A p \in Connected(r) : s.out[p].flit # NoFlit
                             => \E j \in Ports : s.conn[j].status \in Sending /\ s.conn[j].redirect_to = p
  BY DEF Moved, RouterOK
<1>3. /\ c.status # IDLE /\ (c1.status # IDLE => c1.redirect_to = o)
      /\ (c1.status # IDLE => PortOK(r, q1, c1, x1.flit))
      /\ (c1.status = IDLE => Chain(NoFlit, q1) /\ x1.flit = NoFlit)
      /\ (c1.status = ROUTING_DELAY => x1 = x)
      /\ (x1 = x \/ Replaces(x, x1))
      /\ Same(TipOf(q, c, x.flit), TipOf(q1, c1, x1.flit))
  BY <1>1 DEF PortMoves
<1>4. o \in Connected(r)
  BY <1>1, <1>2, <1>3 DEF PortOK
<1>5. /\ \A j \in Ports : j # i => s1.q[j] = s.q[j] /\ s1.conn[j] = s.conn[j]
      /\ \A p \in Connected(r) : p # o => s1.out[p] = s.out[p]
  BY DEF ChangesPort
<1>6. ASSUME NEW j \in Ports, j # i, s.conn[j].status # IDLE
      PROVE  /\ s.conn[j].redirect_to \in Connected(r) /\ s.conn[j].redirect_to # o
             /\ s1.out[s.conn[j].redirect_to] = s.out[s.conn[j].redirect_to]
             /\ OutOf(s1.conn[j], s1.out) = OutOf(s.conn[j], s.out)
  <2>1. s.conn[j].redirect_to \in Connected(r)
    BY <1>2, <1>6 DEF PortOK
  <2>2. s.conn[j].redirect_to # o
    BY <1>1, <1>2, <1>3, <1>6
  <2> QED BY <2>1, <2>2, <1>5, <1>6 DEF OutOf
<1>7. Chain(Ahead(c1, x1.flit), q1) /\ (c1.status # IDLE => OutOf(c1, s1.out) = x1.flit)
  BY <1>1, <1>3 DEF PortOK, OutOf, Ahead, Sending, IDLE, ROUTING_DELAY, ROUTING_HEADER, ROUTING_PAYLOAD, ROUTING_DATA
<1>8. c1.status = IDLE => \A y : PortOK(r, q1, c1, y)
  BY <1>3 DEF PortOK, Ahead, Sending, IDLE, ROUTING_DELAY, ROUTING_HEADER, ROUTING_PAYLOAD, ROUTING_DATA
<1>9. ASSUME NEW j \in Ports PROVE PortOK(r, s1.q[j], s1.conn[j], OutOf(s1.conn[j], s1.out))
  <2>1. CASE j = i
    BY <2>1, <1>1, <1>3, <1>7, <1>8
  <2>2. CASE j # i /\ s.conn[j].status # IDLE
    BY <2>2, <1>2, <1>5, <1>6
  <2>3. CASE j # i /\ s.conn[j].status = IDLE
    <3>1. PortOK(r, s.q[j], s.conn[j], OutOf(s.conn[j], s.out)) /\ s1.q[j] = s.q[j] /\ s1.conn[j] = s.conn[j]
      BY <2>3, <1>2, <1>5
    <3> QED BY <3>1, <2>3 DEF PortOK, Ahead, Sending, IDLE, ROUTING_DELAY, ROUTING_HEADER, ROUTING_PAYLOAD, ROUTING_DATA
  <2> QED BY <2>1, <2>2, <2>3
<1>10. ASSUME NEW j \in Ports, NEW k \in Ports, j # k, s1.conn[j].status # IDLE, s1.conn[k].status # IDLE
       PROVE  s1.conn[j].redirect_to # s1.conn[k].redirect_to
  <2>1. CASE j = i
    BY <2>1, <1>1, <1>3, <1>5, <1>6, <1>10
  <2>2. CASE k = i
    BY <2>2, <1>1, <1>3, <1>5, <1>6, <1>10
  <2>3. CASE j # i /\ k # i
    BY <2>3, <1>2, <1>5, <1>10
  <2> QED BY <2>1, <2>2, <2>3
<1>11. ASSUME NEW p \in Connected(r), s1.out[p].flit # NoFlit
       PROVE  \E j \in Ports : s1.conn[j].status \in Sending /\ s1.conn[j].redirect_to = p
  <2>1. CASE p = o
    <3>1. c1.status # IDLE
      BY <1>1, <1>3, <1>11, <2>1
    <3>2. c1.status # ROUTING_DELAY
      BY <1>1, <1>3, <1>11, <2>1, <3>1 DEF PortOK
    <3>3. c1.status \in Statuses
      <4>1. s1.conn \in [Ports -> Conns]
        BY DEF ChangesPort
      <4> QED BY <4>1, <1>1 DEF Conns
    <3> QED BY <1>1, <1>3, <2>1, <3>1, <3>2, <3>3 DEF Statuses
  <2>2. CASE p # o
    <3>1. PICK j \in Ports : s.conn[j].status \in Sending /\ s.conn[j].redirect_to = p
      BY <1>2, <1>5, <1>11, <2>2
    <3>2. j # i
      BY <3>1, <2>2
    <3> QED BY <3>1, <3>2, <1>5
  <2> QED BY <2>1, <2>2
<1>12. RouterOK(r, s1.q, s1.conn, s1.out)
  BY <1>9, <1>10, <1>11 DEF RouterOK
<1>13. ASSUME NEW p \in Connected(r) PROVE s1.out[p] = s0.out[p] \/ Replaces(s0.out[p], s1.out[p])
  <2>1. s.out[p] = s0.out[p] \/ Replaces(s0.out[p], s.out[p])
    BY DEF Moved
  <2>2. CASE p # o
    BY <2>1, <2>2, <1>5
  <2>3. CASE p = o
    BY <2>1, <2>3, <1>1, <1>3
  <2> QED BY <2>2, <2>3
<1>14. ASSUME NEW j \in Ports
       PROVE  /\ Same(TipOf(s0.q[j], s0.conn[j], OutOf(s0.conn[j], s0.out)),
                      TipOf(s1.q[j], s1.conn[j], OutOf(s1.conn[j], s1.out)))
              /\ s1.conn[j].status = ROUTING_DELAY => s1.out[s1.conn[j].redirect_to] = s0.out[s1.conn[j].redirect_to]
  <2>1. /\ Same(TipOf(s0.q[j], s0.conn[j], OutOf(s0.conn[j], s0.out)),
                TipOf(s.q[j], s.conn[j], OutOf(s.conn[j], s.out)))
        /\ s.conn[j].status = ROUTING_DELAY => s.out[s.conn[j].redirect_to] = s0.out[s.conn[j].redirect_to]
    BY DEF Moved
  <2>2. CASE j # i /\ s.conn[j].status # IDLE
    BY <2>1, <2>2, <1>5, <1>6
  <2>3. CASE j # i /\ s.conn[j].status = IDLE
    <3>1. s1.q[j] = s.q[j] /\ s1.conn[j] = s.conn[j]
      BY <2>3, <1>5
    <3>2. \A y, z : TipOf(s.q[j], s.conn[j], y) = TipOf(s.q[j], s.conn[j], z)
      BY <2>3 DEF TipOf, Ahead, Sending, IDLE, ROUTING_HEADER, ROUTING_PAYLOAD, ROUTING_DATA
    <3>3. s1.conn[j].status # ROUTING_DELAY
      BY <3>1, <2>3 DEF IDLE, ROUTING_DELAY
    <3> QED BY <2>1, <3>1, <3>2, <3>3
  <2>4. CASE j = i
    <3>1. OutOf(c, s.out) = x.flit
      BY <1>1 DEF OutOf
    <3>2. TipOf(q1, c1, OutOf(c1, s1.out)) = TipOf(q1, c1, x1.flit)
      <4>1. CASE c1.status # IDLE
        BY <4>1, <1>7
      <4>2. CASE c1.status = IDLE
        BY <4>2 DEF TipOf, Ahead, Sending, IDLE, ROUTING_HEADER, ROUTING_PAYLOAD, ROUTING_DATA
      <4> QED BY <4>1, <4>2
    <3>3. Same(TipOf(s0.q[j], s0.conn[j], OutOf(s0.conn[j], s0.out)), TipOf(q1, c1, OutOf(c1, s1.out)))
      <4>1. PICK f0, f, f1 : /\ f0 = TipOf(s0.q[j], s0.conn[j], OutOf(s0.conn[j], s0.out))
                             /\ f = TipOf(q, c, x.flit) /\ f1 = TipOf(q1, c1, x1.flit)
        OBVIOUS
      <4>2. Same(f0, f)
        BY <2>1, <2>4, <3>1, <4>1, <1>1
      <4>3. Same(f, f1)
        BY <4>1, <1>3
      <4> QED BY <4>1, <4>2, <4>3, <3>2, SameTrans
    <3>4. c1.status = ROUTING_DELAY => s1.out[c1.redirect_to] = s0.out[c1.redirect_to]
      <4>1. SUFFICES ASSUME c1.status = ROUTING_DELAY PROVE x1 = s0.out[o]
        <5>1. ROUTING_DELAY # IDLE
          BY DEF IDLE, ROUTING_DELAY
        <5> QED BY <5>1, <1>1, <1>3
      <4>2. c.status = ROUTING_DELAY \/ x1 = x
        BY <4>1, <1>3
      <4> QED BY <4>1, <4>2, <1>1, <1>3
    <3> QED BY <3>3, <3>4, <2>4, <1>1
  <2> QED BY <2>2, <2>3, <2>4
<1> QED BY <1>12, <1>13, <1>14 DEF Moved

Changed(s, i, q, c, x) == [q |-> [s.q EXCEPT ![i] = q], conn |-> [s.conn EXCEPT ![i] = c],
                           out |-> [s.out EXCEPT ![s.conn[i].redirect_to] = x]]

\* A change of one port that PortMoves allows.
LEMMA ChangeKeeps ==
    ASSUME NEW r, NEW s0, NEW s, Moved(r, s0, s), NEW i \in Ports, NEW c, c = s.conn[i],
           NEW x, x = s.out[c.redirect_to],
           NEW q1, NEW c1, NEW x1, PortMoves(r, s.q[i], c, x, q1, c1, x1),
           x1 # x => x.ack \/ c.status = ROUTING_DELAY,
           c1.status = ROUTING_DELAY => c.status = ROUTING_DELAY
    PROVE  Moved(r, s0, Changed(s, i, q1, c1, x1))
<1>1. PICK s1, o : s1 = Changed(s, i, q1, c1, x1) /\ o = c.redirect_to
  OBVIOUS
<1>2. s \in RouterStates(r) /\ c.status # IDLE /\ o \in Connected(r)
  BY <1>1 DEF Moved, RouterOK, PortOK, PortMoves
<1>3. q1 \in Seq(Flits) /\ c1 \in Conns /\ x1 \in Outputs
  BY DEF PortMoves
<1>4. s.q \in [Ports -> Seq(Flits)] /\ s.conn \in [Ports -> Conns] /\ s.out \in [Connected(r) -> Outputs]
  BY <1>2 DEF RouterStates
<1>5. /\ s1.q = [s.q EXCEPT ![i] = q1] /\ s1.conn = [s.conn EXCEPT ![i] = c1] /\ s1.out = [s.out EXCEPT ![o] = x1]
      /\ s1 = [q |-> s1.q, conn |-> s1.conn, out |-> s1.out]
  BY <1>1 DEF Changed
<1>6. /\ s1.q \in [Ports -> Seq(Flits)] /\ s1.q[i] = q1 /\ \A j \in Ports : j # i => s1.q[j] = s.q[j]
  <2> HIDE DEF Flits
  <2> QED BY <1>3, <1>4, <1>5
<1>7. /\ s1.conn \in [Ports -> Conns] /\ s1.conn[i] = c1 /\ \A j \in Ports : j # i => s1.conn[j] = s.conn[j]
  <2> HIDE DEF Conns
  <2> QED BY <1>3, <1>4, <1>5
<1>8. /\ s1.out \in [Connected(r) -> Outputs] /\ s1.out[o] = x1
      /\ \A p \in Connected(r) : p # o => s1.out[p] = s.out[p]
  <2> HIDE DEF Outputs
  <2> QED BY <1>2, <1>3, <1>4, <1>5
<1>9. s1 \in RouterStates(r)
  BY <1>5, <1>6, <1>7, <1>8 DEF RouterStates
<1>10. ChangesPort(r, s, s1, i)
  BY <1>1, <1>5, <1>6, <1>7, <1>8 DEF ChangesPort
<1>11. s1.out[o] # s.out[o] \/ s1.conn[i].status = ROUTING_DELAY => s.out[o] = s0.out[o]
  BY <1>1, <1>2, <1>7, <1>8, StillThere
<1>12. PortMoves(r, s.q[i], s.conn[i], s.out[o], s1.q[i], s1.conn[i], s1.out[o])
  BY <1>1, <1>6, <1>7, <1>8
<1>13. Moved(r, s0, s1)
  BY <1>1, <1>9, <1>10, <1>11, <1>12, PortKeeps
<1> QED BY <1>1, <1>13

\* The next flit goes onto the output.
LEMMA PutMoves ==
    ASSUME NEW r, NEW q \in Seq(Flits), q # << >>, NEW c \in Conns, NEW x \in Outputs, PortOK(r, q, c, x.flit),
           c.status # IDLE, x.ack \/ c.status = ROUTING_DELAY,
           NEW c1 \in Conns, c1.status \in Sending, c1.redirect_to = c.redirect_to,
           c.status = ROUTING_DELAY => c1.status = ROUTING_HEADER,
           c.status # ROUTING_DELAY => /\ c1.status # ROUTING_HEADER /\ ~Ended(x.flit)
                                       /\ c1.packets_remaining \in 0 .. PayloadFlits
                                       /\ c1.packets_remaining = NI_BUFFER_LENGTH - (x.flit.pos + 1)
    PROVE  PortMoves(r, q, c, x, Tail(q), c1, [flit |-> Head(q), ack |-> FALSE])
<1>1. PICK h, t, y, a : h = Head(q) /\ t = Tail(q) /\ y = [flit |-> h, ack |-> FALSE] /\ a = Ahead(c, x.flit)
  OBVIOUS
<1>2. h \in Flits /\ t \in Seq(Flits) /\ After(a, h) /\ Chain(h, t) /\ End(h, t) = End(a, q)
  <2>1. Chain(a, q)
    BY <1>1 DEF PortOK
  <2> HIDE DEF Flits
  <2> QED BY <2>1, <1>1, ChainTail
<1>3. h # NoFlit
  BY <1>2, FlitType
<1>4. y \in Outputs /\ y.flit = h /\ y.ack = FALSE
  BY <1>1, <1>2 DEF Outputs, Shown
<1>5. c1.status # IDLE /\ c1.status # ROUTING_DELAY /\ Ahead(c1, h) = h
  BY DEF Ahead, Sending, IDLE, ROUTING_DELAY, ROUTING_HEADER, ROUTING_PAYLOAD, ROUTING_DATA
<1>6. CASE c.status = ROUTING_DELAY
  <2>1. a = NoFlit /\ x.flit = NoFlit /\ c.redirect_to = Direction(r, h)
    BY <1>1, <1>6 DEF PortOK, Ahead, Sending, ROUTING_DELAY, ROUTING_HEADER, ROUTING_PAYLOAD, ROUTING_DATA
  <2>2. h.pos = 1 /\ Replaces(x, y)
    BY <1>2, <1>3, <1>4, <2>1 DEF After, Ended, Replaces
  <2>3. PortOK(r, t, c1, h)
    BY <1>2, <1>3, <1>5, <1>6, <2>1, <2>2 DEF PortOK, Fits
  <2>4. TipOf(t, c1, h) = TipOf(q, c, x.flit)
    BY <1>1, <1>2, <1>5 DEF TipOf
  <2> QED BY <1>1, <1>2, <1>4, <1>5, <2>2, <2>3, <2>4 DEF PortMoves, Same
<1>7. CASE c.status # ROUTING_DELAY
  <2>1. c.status \in Sending
    BY <1>7 DEF Conns, Statuses
  <2>2. /\ a = x.flit /\ x.flit # NoFlit /\ c.redirect_to = Direction(r, x.flit)
        /\ x.ack /\ ~Ended(x.flit) /\ x.flit \in Flits
    BY <1>1, <1>7, <2>1 DEF PortOK, Ahead, Outputs, Shown
  <2>3. h.pos = x.flit.pos + 1 /\ Target(h) = Target(x.flit)
    BY <1>2, <2>2, GoesOn
  <2>4. c.redirect_to = Direction(r, h)
    BY <2>2, <2>3, DirectionSame
  <2>5. Fits(c1, h)
    <3>1. h.pos = NI_BUFFER_LENGTH - c1.packets_remaining
      <4>1. x.flit.pos \in Int
        BY <2>2, FlitType
      <4> QED BY <4>1, <2>3, <1>7
    <3> QED BY <3>1, <1>7 DEF Fits
  <2>6. Replaces(x, y)
    BY <1>2, <1>3, <1>4, <2>2 DEF Replaces
  <2>7. PortOK(r, t, c1, h)
    <3>1. c1.redirect_to \in Connected(r)
      BY DEF PortOK
    <3> QED BY <1>2, <1>3, <1>5, <2>4, <2>5, <3>1 DEF PortOK
  <2>8. TipOf(t, c1, h) = TipOf(q, c, x.flit)
    BY <1>1, <1>2, <1>5 DEF TipOf
  <2> QED BY <1>1, <1>2, <1>4, <1>5, <2>6, <2>7, <2>8 DEF PortMoves, Same
<1> QED BY <1>6, <1>7

\* A connection that ends leaves its output empty.
LEMMA CloseMoves ==
    ASSUME NEW r, NEW q \in Seq(Flits), NEW c \in Conns, NEW x \in Outputs, PortOK(r, q, c, x.flit),
           c.status \in Sending, x.ack, x.flit.pos = NI_BUFFER_LENGTH
    PROVE  PortMoves(r, q, c, x, q, Idle, [flit |-> NoFlit, ack |-> FALSE])
<1>1. PICK y : y = [flit |-> NoFlit, ack |-> FALSE]
  OBVIOUS
<1>2. y \in Outputs /\ y.flit = NoFlit /\ y.ack = FALSE
  BY <1>1 DEF Outputs, Shown
<1>3. Idle \in Conns /\ Idle.status = IDLE /\ IDLE # ROUTING_DELAY /\ IDLE \notin Sending /\ c.status # IDLE
  BY DEF Idle, Conns, Statuses, Sending, IDLE, NONE, ROUTING_DELAY, ROUTING_HEADER, ROUTING_PAYLOAD, ROUTING_DATA
<1>4. Ended(x.flit) /\ Ended(NoFlit) /\ Same(x.flit, NoFlit)
  BY DEF Ended, Same
<1>5. Chain(x.flit, q)
  BY DEF PortOK, Ahead
<1>6. Chain(NoFlit, q) /\ Same(End(x.flit, q), End(NoFlit, q))
  BY <1>4, <1>5, ChainSame
<1>7. TipOf(q, c, x.flit) = End(x.flit, q) /\ TipOf(q, Idle, NoFlit) = End(NoFlit, q)
  BY <1>3 DEF TipOf, Ahead
<1>8. Replaces(x, y)
  BY <1>2, <1>4 DEF Replaces
<1> QED BY <1>1, <1>2, <1>3, <1>6, <1>7, <1>8 DEF PortMoves

\* A connection that waits changes at most its state.
LEMMA StayMoves ==
    ASSUME NEW r, NEW q \in Seq(Flits), NEW c \in Conns, NEW x \in Outputs, PortOK(r, q, c, x.flit),
           NEW c1 \in Conns, c.status # IDLE, c1.status # IDLE, c1.redirect_to = c.redirect_to,
           c1.status \in Sending <=> c.status \in Sending,
           c.status \in Sending /\ Fits(c, x.flit) => Fits(c1, x.flit)
    PROVE  PortMoves(r, q, c, x, q, c1, x)
<1>1. \A y : Ahead(c1, y) = Ahead(c, y)
  BY DEF Ahead
<1>2. c1.status = ROUTING_DELAY => c.status = ROUTING_DELAY
  <2>1. c1.status = ROUTING_DELAY => c1.status \notin Sending
    BY DEF Sending, ROUTING_DELAY, ROUTING_HEADER, ROUTING_PAYLOAD, ROUTING_DATA
  <2>2. c.status \in Sending \/ c.status = ROUTING_DELAY
    BY DEF Conns, Statuses
  <2> QED BY <2>1, <2>2
<1>3. PortOK(r, q, c1, x.flit)
  BY <1>1, <1>2 DEF PortOK
<1> QED BY <1>1, <1>3 DEF PortMoves, TipOf, Same

\* Forward leaves a router that Moved describes.
LEMMA ForwardKeeps ==
    ASSUME NEW r, NEW s0, NEW s, Moved(r, s0, s), NEW i \in Ports
    PROVE  Moved(r, s0, Forward(s, i))
<1>1. PICK q, c, o, x : q = s.q[i] /\ c = s.conn[i] /\ o = c.redirect_to /\ x = s.out[o]
  OBVIOUS
<1>2. s.q \in [Ports -> Seq(Flits)] /\ s.conn \in [Ports -> Conns] /\ s.out \in [Connected(r) -> Outputs]
      /\ s = [q |-> s.q, conn |-> s.conn, out |-> s.out]
  BY DEF Moved, RouterStates
<1>3. q \in Seq(Flits) /\ c \in Conns /\ PortOK(r, q, c, x.flit)
  BY <1>1, <1>2 DEF Moved, RouterOK, OutOf
<1>4. c.status # IDLE => o \in Connected(r) /\ x \in Outputs
  BY <1>1, <1>2, <1>3 DEF PortOK
<1>5. [s.q EXCEPT ![i] = q] = s.q /\ [s.conn EXCEPT ![i] = c] = s.conn
      /\ (o \in Connected(r) => [s.out EXCEPT ![o] = x] = s.out)
  BY <1>1, <1>2
<1>6. CASE c.status = IDLE
  BY <1>1, <1>6 DEF Forward, IDLE, ROUTING_DELAY, ROUTING_HEADER, ROUTING_PAYLOAD, ROUTING_DATA
<1>7. CASE c.status = ROUTING_DELAY
  <2>1. c.status # IDLE /\ c.status \notin Sending
    BY <1>7 DEF Sending, IDLE, ROUTING_DELAY, ROUTING_HEADER, ROUTING_PAYLOAD, ROUTING_DATA
  <2>2. Forward(s, i) = ForwardHeader(s, i)
    BY <1>1, <1>7, <2>1 DEF Forward, IDLE, ROUTING_DELAY, ROUTING_HEADER, ROUTING_PAYLOAD, ROUTING_DATA
  <2>3. CASE c.routing_delay > 0
    <3>1. PICK c1 : c1 = [c EXCEPT !.routing_delay = c.routing_delay - 1]
      OBVIOUS
    <3>2. c1 \in Conns /\ c1.status = c.status /\ c1.redirect_to = c.redirect_to
      BY <3>1, <1>3 DEF Conns
    <3>3. PortMoves(r, q, c, x, q, c1, x)
      BY <3>2, <1>3, <1>4, <2>1, StayMoves
    <3>4. Moved(r, s0, Changed(s, i, q, c1, x))
      BY <3>2, <3>3, <1>1, <1>7, ChangeKeeps
    <3>5. Forward(s, i) = [q |-> s.q, conn |-> [s.conn EXCEPT ![i] = c1], out |-> s.out]
      <4>1. Forward(s, i) = [s EXCEPT !.conn[i].routing_delay = @ - 1]
        BY <1>1, <2>2, <2>3 DEF ForwardHeader
      <4>2. [s.conn EXCEPT ![i].routing_delay = @ - 1] = [s.conn EXCEPT ![i] = c1]
        BY <1>1, <3>1
      <4> QED BY <4>1, <4>2, <1>2
    <3>6. Changed(s, i, q, c1, x) = Forward(s, i)
      BY <3>5, <1>1, <1>4, <1>5, <2>1 DEF Changed
    <3> QED BY <3>4, <3>6
  <2>4. CASE ~(c.routing_delay > 0) /\ isEmpty(q)
    BY <1>1, <2>2, <2>4 DEF ForwardHeader
  <2>5. CASE ~(c.routing_delay > 0) /\ ~isEmpty(q)
    <3>1. PICK c1, y : c1 = [c EXCEPT !.status = ROUTING_HEADER] /\ y = [flit |-> Head(q), ack |-> FALSE]
      OBVIOUS
    <3>2. c1 \in Conns /\ c1.status = ROUTING_HEADER /\ c1.redirect_to = c.redirect_to /\ c1.status \in Sending
          /\ c1.status # ROUTING_DELAY
      BY <3>1, <1>3 DEF Conns, Statuses, Sending, ROUTING_DELAY, ROUTING_HEADER, ROUTING_PAYLOAD, ROUTING_DATA
    <3>3. PortMoves(r, q, c, x, Tail(q), c1, y)
      <4>1. q # << >>
        BY <2>5 DEF isEmpty
      <4> QED BY <4>1, <3>1, <3>2, <1>3, <1>4, <1>7, <2>1, PutMoves
    <3>4. Moved(r, s0, Changed(s, i, Tail(q), c1, y))
      BY <3>2, <3>3, <1>1, <1>7, ChangeKeeps
    <3>5. Forward(s, i) = Changed(s, i, Tail(q), c1, y)
      BY <3>1, <3>2, <1>1, <2>2, <2>5 DEF ForwardHeader, Put, Changed
    <3> QED BY <3>4, <3>5
  <2> QED BY <2>3, <2>4, <2>5
<1>8. CASE c.status = ROUTING_HEADER /\ x.ack
  <2>1. c.status # IDLE /\ c.status \in Sending /\ c.status # ROUTING_DELAY
    BY <1>8 DEF Sending, IDLE, ROUTING_DELAY, ROUTING_HEADER, ROUTING_PAYLOAD, ROUTING_DATA
  <2>2. Forward(s, i) = ForwardSize(s, i)
    BY <1>1, <1>8, <2>1 DEF Forward, IDLE, ROUTING_DELAY, ROUTING_HEADER, ROUTING_PAYLOAD, ROUTING_DATA
  <2>3. CASE isEmpty(q)
    BY <1>1, <2>2, <2>3 DEF ForwardSize
  <2>4. CASE ~isEmpty(q)
    <3>1. PICK c1, y : /\ c1 = [c EXCEPT !.status = ROUTING_PAYLOAD, !.packets_remaining = PayloadFlits]
                       /\ y = [flit |-> Head(q), ack |-> FALSE]
      OBVIOUS
    <3>2. /\ c1 \in Conns /\ c1.status = ROUTING_PAYLOAD /\ c1.redirect_to = c.redirect_to
          /\ c1.packets_remaining = NI_BUFFER_LENGTH - 2 /\ c1.packets_remaining \in 0 .. PayloadFlits
      <4>1. PICK n : n = PayloadFlits
        OBVIOUS
      <4>2. n \in Int /\ n \in 0 .. n /\ n = NI_BUFFER_LENGTH - 2
        BY <4>1 DEF PayloadFlits
      <4>3. c1 = [c EXCEPT !.status = ROUTING_PAYLOAD, !.packets_remaining = n]
        BY <3>1, <4>1
      <4> QED BY <4>1, <4>2, <4>3, <1>3 DEF Conns, Statuses, Sending
    <3>3. c1.status \in Sending /\ c1.status # ROUTING_DELAY /\ c1.status # ROUTING_HEADER
      BY <3>2 DEF Sending, ROUTING_DELAY, ROUTING_HEADER, ROUTING_PAYLOAD
    <3>4. x.flit.pos = 1 /\ x.flit # NoFlit /\ ~Ended(x.flit)
      BY <1>3, <1>8, <2>1 DEF PortOK, Fits, Ended
    <3>5. PortMoves(r, q, c, x, Tail(q), c1, y)
      <4>1. q # << >>
        BY <2>4 DEF isEmpty
      <4>2. c1.packets_remaining = NI_BUFFER_LENGTH - (x.flit.pos + 1)
        BY <3>2, <3>4
      <4> QED BY <4>1, <4>2, <3>1, <3>2, <3>3, <3>4, <1>3, <1>4, <1>8, <2>1, PutMoves
    <3>6. Moved(r, s0, Changed(s, i, Tail(q), c1, y))
      BY <3>3, <3>5, <1>1, <1>8, ChangeKeeps
    <3>7. Forward(s, i) = Changed(s, i, Tail(q), c1, y)
      BY <3>1, <3>2, <1>1, <2>2, <2>4 DEF ForwardSize, Put, Changed
    <3> QED BY <3>6, <3>7
  <2> QED BY <2>3, <2>4
<1>9. CASE c.status \in {ROUTING_PAYLOAD, ROUTING_DATA} /\ x.ack
  <2>1. c.status # IDLE /\ c.status \in Sending /\ c.status # ROUTING_DELAY /\ c.status # ROUTING_HEADER
    BY <1>9 DEF Sending, IDLE, ROUTING_DELAY, ROUTING_HEADER, ROUTING_PAYLOAD, ROUTING_DATA
  <2>2. Forward(s, i) = ForwardData(s, i)
    BY <1>1, <1>9, <2>1 DEF Forward, IDLE, ROUTING_DELAY, ROUTING_HEADER, ROUTING_PAYLOAD, ROUTING_DATA
  <2>3. /\ x.flit.pos = NI_BUFFER_LENGTH - c.packets_remaining /\ c.packets_remaining \in 0 .. PayloadFlits
        /\ x.flit # NoFlit
    BY <1>3, <2>1 DEF PortOK, Fits
  <2>4. PICK d : d = [c EXCEPT !.status = ROUTING_DATA]
    OBVIOUS
  <2>5. /\ d \in Conns /\ d.status = ROUTING_DATA /\ d.redirect_to = o /\ d.packets_remaining = c.packets_remaining
        /\ d.status # IDLE /\ d.status \in Sending /\ d.status # ROUTING_HEADER /\ d.status # ROUTING_DELAY
    <3>1. ROUTING_DATA \in Statuses
      BY DEF Statuses, Sending
    <3>2. d \in Conns /\ d.status = ROUTING_DATA /\ d.redirect_to = o /\ d.packets_remaining = c.packets_remaining
      <4> HIDE DEF Statuses
      <4> QED BY <3>1, <2>4, <1>1, <1>3 DEF Conns
    <3> QED BY <3>2 DEF Sending, IDLE, ROUTING_DELAY, ROUTING_HEADER, ROUTING_PAYLOAD, ROUTING_DATA
  <2>6. CASE LastFlit(d)
    <3>1. PICK y : y = [flit |-> NoFlit, ack |-> FALSE]
      OBVIOUS
    <3>2. x.flit.pos = NI_BUFFER_LENGTH
      BY <2>3, <2>5, <2>6 DEF LastFlit
    <3>3. PortMoves(r, q, c, x, q, Idle, y)
      BY <3>1, <3>2, <1>3, <1>4, <1>9, <2>1, CloseMoves
    <3>4. Moved(r, s0, Changed(s, i, q, Idle, y))
      <4>1. Idle.status # ROUTING_DELAY
        BY DEF Idle, IDLE, ROUTING_DELAY
      <4> QED BY <4>1, <3>3, <1>1, <1>9, ChangeKeeps
    <3>5. Forward(s, i) = [s EXCEPT !.conn[i] = Idle, !.out[o] = y]
      BY <3>1, <1>1, <2>2, <2>4, <2>5, <2>6 DEF ForwardData
    <3>6. Forward(s, i) = [q |-> s.q, conn |-> [s.conn EXCEPT ![i] = Idle], out |-> [s.out EXCEPT ![o] = y]]
      BY <3>5, <1>2
    <3>7. Forward(s, i) = Changed(s, i, q, Idle, y)
      BY <3>6, <1>1, <1>5 DEF Changed
    <3> QED BY <3>4, <3>7
  <2>7. CASE ~LastFlit(d) /\ isEmpty(q)
    <3>1. PortMoves(r, q, c, x, q, d, x)
      <4>1. Fits(c, x.flit) => Fits(d, x.flit)
        BY <2>1, <2>5 DEF Fits
      <4> QED BY <4>1, <1>1, <1>3, <1>4, <2>1, <2>5, StayMoves
    <3>2. Moved(r, s0, Changed(s, i, q, d, x))
      BY <3>1, <1>1, <2>1, <2>5, ChangeKeeps
    <3>3. Forward(s, i) = [s EXCEPT !.conn[i] = d]
      BY <1>1, <2>2, <2>4, <2>7 DEF ForwardData
    <3>4. Forward(s, i) = [q |-> s.q, conn |-> [s.conn EXCEPT ![i] = d], out |-> s.out]
      BY <3>3, <1>2
    <3>5. Forward(s, i) = Changed(s, i, q, d, x)
      BY <3>4, <1>1, <1>4, <1>5, <2>1 DEF Changed
    <3> QED BY <3>2, <3>5
  <2>8. CASE ~LastFlit(d) /\ ~isEmpty(q)
    <3>1. PICK c1, y : /\ c1 = [d EXCEPT !.packets_remaining = d.packets_remaining - 1]
                       /\ y = [flit |-> Head(q), ack |-> FALSE]
      OBVIOUS
    <3>2. /\ c1 \in Conns /\ c1.status = d.status /\ c1.redirect_to = c.redirect_to
          /\ c1.packets_remaining = c.packets_remaining - 1
      BY <3>1, <2>5, <1>1 DEF Conns
    <3>3. /\ c1.packets_remaining \in 0 .. PayloadFlits
          /\ c1.packets_remaining = NI_BUFFER_LENGTH - (x.flit.pos + 1)
          /\ x.flit.pos # NI_BUFFER_LENGTH
      BY <3>2, <2>3, <2>5, <2>8 DEF LastFlit, PayloadFlits
    <3>4. PortMoves(r, q, c, x, Tail(q), c1, y)
      <4>1. q # << >> /\ ~Ended(x.flit)
        BY <3>3, <2>3, <2>8 DEF isEmpty, Ended
      <4> QED BY <4>1, <3>1, <3>2, <3>3, <1>3, <1>4, <1>9, <2>1, <2>5, PutMoves
    <3>5. Moved(r, s0, Changed(s, i, Tail(q), c1, y))
      BY <3>2, <3>4, <1>1, <1>9, <2>5, ChangeKeeps
    <3>6. Forward(s, i) = Put(s, i, c1)
      BY <3>1, <1>1, <2>2, <2>4, <2>8 DEF ForwardData
    <3>7. Forward(s, i) = Changed(s, i, Tail(q), c1, y)
      BY <3>1, <3>2, <3>6, <1>1 DEF Put, Changed
    <3> QED BY <3>5, <3>7
  <2> QED BY <2>6, <2>7, <2>8
<1>10. CASE c.status \in Sending /\ ~x.ack
  <2>1. Forward(s, i) = s
    BY <1>1, <1>10 DEF Forward, Sending, IDLE, ROUTING_DELAY, ROUTING_HEADER, ROUTING_PAYLOAD, ROUTING_DATA
  <2> QED BY <2>1
<1> QED BY <1>3, <1>6, <1>7, <1>8, <1>9, <1>10 DEF Conns, Statuses, Sending

\* The ports are numbered from 0.
LEMMA PortNumbers ==
    ASSUME build \in {"BUS", "MESH"}
    PROVE  PortCount \in Nat \ {0} /\ Ports = 0 .. PortCount - 1
<1>1. NOC_WIDTH * NOC_HEIGHT \in Nat /\ NOC_WIDTH * NOC_HEIGHT > 0
  <2>1. PICK w, h : w = NOC_WIDTH /\ h = NOC_HEIGHT
    OBVIOUS
  <2>2. w \in Nat /\ h \in Nat /\ w >= 2 /\ h >= 2
    BY <2>1
  <2>3. w * h \in Nat /\ w * h > 0
    BY <2>2
  <2> QED BY <2>1, <2>3
<1>2. CASE build = "BUS"
  BY <1>1, <1>2 DEF PortCount, Ports, Cores
<1>3. CASE build = "MESH"
  BY <1>3 DEF PortCount, Ports, EAST, LOCAL_PORT
<1> QED BY <1>2, <1>3

\* All ports forward, one after another.
LEMMA ForwardAllKeeps ==
    ASSUME build \in {"BUS", "MESH"}, NEW r, NEW s0, Moved(r, s0, s0)
    PROVE  Moved(r, s0, ForwardAll(s0))
<1> DEFINE Body(g) == [k \in 0 .. PortCount |-> IF k = 0 THEN s0 ELSE Forward(g[k - 1], k - 1)]
           M == {s \in RouterStates(r) : Moved(r, s0, s)}
           States == Nat \X M
           step == [e \in States |-> <<e[1] + 1, IF e[1] < PortCount THEN Forward(e[2], e[1]) ELSE e[2]>>]
<1>1. \A s : s \in M <=> Moved(r, s0, s)
  BY DEF Moved
<1> HIDE DEF M
<1>2. ASSUME NEW s \in M, NEW k \in Nat, k < PortCount PROVE Forward(s, k) \in M
  <2>1. k \in Ports
    BY <1>2, PortNumbers
  <2> QED BY <2>1, <1>1, ForwardKeeps
<1>3. ASSUME NEW e \in States
      PROVE  /\ step[e] \in States
             /\ step[e][1] = e[1] + 1
             /\ e[1] < PortCount => step[e][2] = Forward(e[2], e[1])
  <2>1. PICK t : t = IF e[1] < PortCount THEN Forward(e[2], e[1]) ELSE e[2]
    OBVIOUS
  <2>2. e[1] \in Nat /\ e[2] \in M
    OBVIOUS
  <2>3. t \in M
    BY <2>1, <2>2, <1>2
  <2>4. step[e] = <<e[1] + 1, t>>
    BY <2>1
  <2>5. step[e] \in States
    BY <2>2, <2>3, <2>4
  <2>6. step[e][1] = e[1] + 1 /\ step[e][2] = t
    BY <2>4
  <2> QED BY <2>1, <2>5, <2>6
<1>4. step \in [States -> States] /\ <<0, s0>> \in States
  <2>1. step = [e \in States |-> step[e]]
    OBVIOUS
  <2>2. <<0, s0>> \in States
    BY <1>1
  <2> HIDE DEF step
  <2> QED BY <2>1, <2>2, <1>3
<1> HIDE DEF States, step
<1>5. PICK F : F[0] = <<0, s0>> /\ \A n \in Nat : F[n] \in States /\ F[n + 1] = step[F[n]]
  <2>1. PICK S, base, turn : S = States /\ base = <<0, s0>> /\ turn = step
    OBVIOUS
  <2>2. base \in S /\ turn \in [S -> S]
    BY <2>1, <1>4
  <2>3. \E F \in [Nat -> S] : F[0] = base /\ \A n \in Nat : F[n + 1] = turn[F[n]]
    <3> HIDE <2>1, <1>2, <1>3, NoCAssumption
    <3> QED BY <2>2, Iterated
  <2> QED BY <2>1, <2>3
<1>6. \A n \in Nat : F[n][1] = n
  <2> DEFINE Counted == {n \in Nat : F[n][1] = n}
  <2>1. 0 \in Counted
    BY <1>5
  <2>2. ASSUME NEW n \in Nat, n \in Counted PROVE n + 1 \in Counted
    <3>1. F[n + 1] = step[F[n]] /\ F[n] \in States
      BY <1>5
    <3>2. F[n + 1][1] = F[n][1] + 1
      BY <3>1, <1>3
    <3> QED BY <2>2, <3>2
  <2>3. Nat \subseteq Counted
    <3> HIDE DEF Counted
    <3> QED BY <2>1, <2>2, Induct
  <2> QED BY <2>3
<1>7. \E g : g = Body(g)
  <2> DEFINE g == [k \in 0 .. PortCount |-> F[k][2]]
  <2>1. ASSUME NEW k \in 0 .. PortCount PROVE F[k][2] = IF k = 0 THEN s0 ELSE Forward(g[k - 1], k - 1)
    <3>1. CASE k = 0
      BY <3>1, <1>5
    <3>2. CASE k # 0
      <4>1. k - 1 \in Nat /\ k - 1 < PortCount /\ (k - 1) + 1 = k /\ k - 1 \in 0 .. PortCount
        BY <3>2, PortNumbers
      <4>2. F[k] = step[F[k - 1]] /\ F[k - 1] \in States /\ F[k - 1][1] = k - 1
        BY <4>1, <1>5, <1>6
      <4>3. F[k][2] = Forward(F[k - 1][2], k - 1)
        BY <4>1, <4>2, <1>3
      <4> QED BY <3>2, <4>1, <4>3
    <3> QED BY <3>1, <3>2
  <2>2. g = Body(g)
    BY <2>1
  <2> QED BY <2>2
<1>8. PICK g : g = Body(g) /\ ForwardAll(s0) = g[PortCount]
  <2>1. PICK g : g = CHOOSE h : h = Body(h)
    OBVIOUS
  <2>2. g = Body(g)
    BY <1>7, <2>1, Zenon
  <2>3. ForwardAll(s0) = g[PortCount]
    BY <2>1, Zenon DEF ForwardAll
  <2> QED BY <2>2, <2>3
<1>9. /\ g[0] = s0
      /\ \A k \in Nat : k < PortCount => g[k + 1] = Forward(g[k], k)
  <2>1. 0 \in 0 .. PortCount
    BY PortNumbers
  <2>2. ASSUME NEW k \in Nat, k < PortCount PROVE g[k + 1] = Forward(g[k], k)
    <3>1. k + 1 \in 0 .. PortCount /\ k + 1 # 0 /\ (k + 1) - 1 = k
      BY <2>2, PortNumbers
    <3>2. g[k + 1] = Body(g)[k + 1]
      BY <1>8
    <3> QED BY <3>1, <3>2
  <2>3. g[0] = Body(g)[0]
    BY <1>8
  <2> QED BY <2>1, <2>2, <2>3
<1>10. \A k \in Nat : k <= PortCount => g[k] \in M
  <2> DEFINE In == {k \in Nat : k <= PortCount => g[k] \in M}
  <2>1. 0 \in In
    BY <1>1, <1>9
  <2>2. ASSUME NEW k \in Nat, k \in In PROVE k + 1 \in In
    <3> SUFFICES ASSUME k + 1 <= PortCount PROVE g[k + 1] \in M
      OBVIOUS
    <3>1. k < PortCount /\ k <= PortCount
      BY PortNumbers
    <3> QED BY <3>1, <2>2, <1>2, <1>9
  <2>3. Nat \subseteq In
    <3> HIDE DEF In
    <3> QED BY <2>1, <2>2, Induct
  <2> QED BY <2>3
<1>11. g[PortCount] \in M
  BY <1>10, PortNumbers
<1> QED BY <1>1, <1>8, <1>11

\* An idle port may show anything: PortOK looks at the output of others only.
LEMMA IdleOK ==
    ASSUME NEW r, NEW q, NEW c, c.status = IDLE
    PROVE  /\ \A x : PortOK(r, q, c, x) <=> Chain(NoFlit, q)
           /\ \A x : TipOf(q, c, x) = End(NoFlit, q)
BY DEF PortOK, TipOf, Ahead, Sending, IDLE, ROUTING_DELAY, ROUTING_HEADER, ROUTING_PAYLOAD, ROUTING_DATA

\* Acknowledges do not matter to RouterOK.
SameFlits(r, out, x) == \A o \in Connected(r) : out[o].flit = x[o].flit

LEMMA OutSame ==
    ASSUME NEW r, NEW q, NEW conn, NEW out, NEW x, RouterOK(r, q, conn, out), SameFlits(r, out, x)
    PROVE  RouterOK(r, q, conn, x)
<1>1. ASSUME NEW i \in Ports PROVE PortOK(r, q[i], conn[i], OutOf(conn[i], x))
  <2>1. PortOK(r, q[i], conn[i], OutOf(conn[i], out))
    BY DEF RouterOK
  <2>2. CASE conn[i].status = IDLE
    BY <2>1, <2>2, IdleOK
  <2>3. CASE conn[i].status # IDLE
    <3>1. conn[i].redirect_to \in Connected(r)
      BY <2>1, <2>3 DEF PortOK
    <3>2. OutOf(conn[i], out) = OutOf(conn[i], x)
      BY <3>1 DEF OutOf, SameFlits
    <3> QED BY <2>1, <3>2
  <2> QED BY <2>2, <2>3
<1>2. \A o \in Connected(r) : out[o].flit = x[o].flit
  BY DEF SameFlits
<1> QED BY <1>1, <1>2 DEF RouterOK

\* The flits m[p], p in T, may enter the queues of a router, and they did.
Welcome(q, conn, out, T, m) ==
    /\ T \subseteq Ports
    /\ \A p \in T : m[p] \in Flits /\ After(TipOf(q[p], conn[p], OutOf(conn[p], out)), m[p])
Entered(q, T, m, q1) == \A p \in Ports : q1[p] = IF p \in T THEN Append(q[p], m[p]) ELSE q[p]

LEMMA AcceptKeeps ==
    ASSUME NEW r, NEW q \in [Ports -> Seq(Flits)], NEW conn, NEW out, RouterOK(r, q, conn, out),
           NEW T, NEW m, Welcome(q, conn, out, T, m), NEW q1, Entered(q, T, m, q1)
    PROVE  /\ RouterOK(r, q1, conn, out)
           /\ \A p \in Ports : TipOf(q1[p], conn[p], OutOf(conn[p], out))
                               = IF p \in T THEN m[p] ELSE TipOf(q[p], conn[p], OutOf(conn[p], out))
<1>0. /\ \A p \in T : m[p] \in Flits /\ After(TipOf(q[p], conn[p], OutOf(conn[p], out)), m[p])
      /\ \A p \in Ports : q1[p] = IF p \in T THEN Append(q[p], m[p]) ELSE q[p]
  BY DEF Welcome, Entered
<1>1. ASSUME NEW p \in Ports
      PROVE  /\ q1[p] \in Seq(Flits)
             /\ PortOK(r, q1[p], conn[p], OutOf(conn[p], out))
             /\ TipOf(q1[p], conn[p], OutOf(conn[p], out))
                = IF p \in T THEN m[p] ELSE TipOf(q[p], conn[p], OutOf(conn[p], out))
  <2>1. PICK b, c, x : b = q[p] /\ c = conn[p] /\ x = OutOf(conn[p], out)
    OBVIOUS
  <2>2. b \in Seq(Flits) /\ PortOK(r, b, c, x)
    BY <2>1 DEF RouterOK
  <2>3. CASE p \notin T
    BY <2>1, <2>2, <2>3, <1>0
  <2>4. CASE p \in T
    <3>1. PICK y, b1, a : y = m[p] /\ b1 = Append(b, y) /\ a = Ahead(c, x)
      OBVIOUS
    <3>2. y \in Flits /\ After(End(a, b), y) /\ Chain(a, b)
      BY <2>1, <2>2, <2>4, <3>1, <1>0 DEF TipOf, PortOK
    <3>3. Chain(a, b1) /\ End(a, b1) = y
      <4> HIDE DEF Flits
      <4> QED BY <3>1, <3>2, <2>2, ChainAppend
    <3>4. /\ b1 \in Seq(Flits) /\ b1 # << >>
          /\ b # << >> => Head(b1) = Head(b)
      <4> HIDE DEF Flits
      <4>1. b1 \in Seq(Flits) /\ Len(b1) = Len(b) + 1 /\ \A k \in 1 .. Len(b) : b1[k] = b[k]
        BY <3>1, <3>2, <2>2, AppendProperties
      <4>2. Len(b) \in Nat /\ (b # << >> => Len(b) # 0)
        BY <2>2, EmptySeq, LenProperties
      <4>3. b1 # << >>
        BY <4>1, <4>2, EmptySeq
      <4>4. b # << >> => Head(b1) = b1[1] /\ Head(b) = b[1] /\ 1 \in 1 .. Len(b)
        BY <4>1, <4>2, <4>3, <2>2, HeadTailProperties
      <4> QED BY <4>1, <4>3, <4>4
    <3>5. PortOK(r, b1, c, x)
      BY <3>1, <3>3, <3>4, <2>2 DEF PortOK
    <3>6. q1[p] = b1
      BY <2>1, <2>4, <3>1, <1>0
    <3> QED BY <2>1, <2>4, <3>1, <3>3, <3>4, <3>5, <3>6 DEF TipOf
  <2> QED BY <2>3, <2>4
<1> QED BY <1>1 DEF RouterOK

\* The port in turn opens a connection.
LEMMA ArbitrateKeeps ==
    ASSUME build \in {"BUS", "MESH"}, NEW r \in Routers,
           NEW q \in [Ports -> Seq(Flits)], NEW conn \in [Ports -> Conns], NEW out, RouterOK(r, q, conn, out),
           NEW c1, c1 = Arbitrate(r, q, conn)
    PROVE  /\ c1 \in [Ports -> Conns] /\ RouterOK(r, q, c1, out)
           /\ \A i \in Ports : TipOf(q[i], c1[i], OutOf(c1[i], out)) = TipOf(q[i], conn[i], OutOf(conn[i], out))
<1>1. PICK a, d, n : /\ a = arbiter[r] /\ d = Direction(r, Head(q[a]))
                     /\ n = [Idle EXCEPT !.status = ROUTING_DELAY, !.redirect_to = d,
                                         !.routing_delay = ROUTING_ALGORITHM_DELAY]
  OBVIOUS
<1>2. CASE c1 = conn
  BY <1>2
<1>3. CASE c1 # conn
  <2>1. conn[a].status = IDLE /\ q[a] # << >> /\ MayConnect(conn, a, d) /\ c1 = [conn EXCEPT ![a] = n]
    BY <1>1, <1>3 DEF Arbitrate, isEmpty
  <2>2. a \in Ports
    BY <2>1, <1>3
  <2>3. Chain(NoFlit, q[a]) /\ q[a] \in Seq(Flits)
    BY <2>1, <2>2, IdleOK DEF RouterOK
  <2>4. d \in Connected(r) /\ d \in Int
    <3>1. Head(q[a]) \in Flits
      <4> HIDE DEF Flits
      <4> QED BY <2>1, <2>3, HeadTailProperties
    <3> QED BY <1>1, <3>1, Leads
  <2>5. n \in Conns /\ n.status = ROUTING_DELAY /\ n.redirect_to = d
    <3>1. n = [status |-> ROUTING_DELAY, redirect_to |-> d, routing_delay |-> ROUTING_ALGORITHM_DELAY,
               packets_remaining |-> 0]
      BY <1>1 DEF Idle
    <3>2. ROUTING_DELAY \in Statuses /\ ROUTING_ALGORITHM_DELAY \in Int /\ 0 \in Int
      BY DEF Statuses
    <3> QED BY <3>1, <3>2, <2>4 DEF Conns
  <2>6. c1 \in [Ports -> Conns] /\ c1[a] = n /\ \A j \in Ports : j # a => c1[j] = conn[j]
    <3> HIDE DEF Conns
    <3> QED BY <2>1, <2>2, <2>5
  <2>7. ASSUME NEW j \in Ports, conn[j].status # IDLE PROVE j # a /\ conn[j].redirect_to # d
    <3>1. j # a
      BY <2>1, <2>7
    <3>2. j \in ActiveConnections(conn)
      BY <2>7 DEF ActiveConnections
    <3> QED BY <2>1, <3>1, <3>2 DEF MayConnect, BusFree
  <2>8. out[d].flit = NoFlit
    <3> SUFFICES ASSUME out[d].flit # NoFlit PROVE FALSE
      OBVIOUS
    <3>1. PICK j \in Ports : conn[j].status \in Sending /\ conn[j].redirect_to = d
      BY <2>4 DEF RouterOK
    <3>2. conn[j].status # IDLE
      BY <3>1 DEF Sending, IDLE, ROUTING_HEADER, ROUTING_PAYLOAD, ROUTING_DATA
    <3> QED BY <2>7, <3>1, <3>2
  <2>9. ROUTING_DELAY # IDLE /\ ROUTING_DELAY \notin Sending /\ IDLE \notin Sending
    BY DEF Sending, IDLE, ROUTING_DELAY, ROUTING_HEADER, ROUTING_PAYLOAD, ROUTING_DATA
  <2>10. OutOf(n, out) = NoFlit
    BY <2>5, <2>8 DEF OutOf
  <2>11. PortOK(r, q[a], n, NoFlit)
    BY <1>1, <2>1, <2>3, <2>4, <2>5, <2>9 DEF PortOK, Ahead
  <2>12. \A x : TipOf(q[a], n, x) = TipOf(q[a], conn[a], x) /\ TipOf(q[a], conn[a], x) = End(NoFlit, q[a])
    BY <2>1, <2>5, <2>9 DEF TipOf, Ahead
  <2>13. \A j \in Ports : PortOK(r, q[j], c1[j], OutOf(c1[j], out))
    BY <2>6, <2>10, <2>11 DEF RouterOK
  <2>14. ASSUME NEW j \in Ports, NEW k \in Ports, j # k, c1[j].status # IDLE, c1[k].status # IDLE
         PROVE  c1[j].redirect_to # c1[k].redirect_to
    <3>1. CASE j = a
      BY <3>1, <2>5, <2>6, <2>7, <2>14
    <3>2. CASE k = a
      BY <3>2, <2>5, <2>6, <2>7, <2>14
    <3>3. CASE j # a /\ k # a
      <4>1. c1[j] = conn[j] /\ c1[k] = conn[k]
        BY <3>3, <2>6
      <4>2. \A i, l \in Ports : i # l /\ conn[i].status # IDLE /\ conn[l].status # IDLE
                               => conn[i].redirect_to # conn[l].redirect_to
        BY DEF RouterOK
      <4> QED BY <4>1, <4>2, <2>14
    <3> QED BY <3>1, <3>2, <3>3
  <2>15. ASSUME NEW o \in Connected(r), out[o].flit # NoFlit
         PROVE  \E i \in Ports : c1[i].status \in Sending /\ c1[i].redirect_to = o
    <3>1. PICK j \in Ports : conn[j].status \in Sending /\ conn[j].redirect_to = o
      BY <2>15 DEF RouterOK
    <3>2. j # a
      BY <2>1, <2>9, <3>1
    <3> QED BY <2>6, <3>1, <3>2
  <2>16. RouterOK(r, q, c1, out)
    BY <2>13, <2>14, <2>15 DEF RouterOK
  <2>17. \A i \in Ports : TipOf(q[i], c1[i], OutOf(c1[i], out)) = TipOf(q[i], conn[i], OutOf(conn[i], out))
    BY <2>6, <2>12
  <2> QED BY <2>6, <2>16, <2>17
<1> QED BY <1>2, <1>3

RouterState(q, conn, out) == [q |-> q, conn |-> conn, out |-> out]

\* What a cycle, d, makes of a router whose outputs were x; m are the flits on
\* the wires into it.
Turned(r, x, m, d) ==
    /\ d.taken \subseteq Ports /\ \A p \in d.taken : m[p] # NoFlit
    /\ RouterState(d.q, d.conn, d.out) \in RouterStates(r)
    /\ RouterOK(r, d.q, d.conn, d.out)
    /\ \A o \in Connected(r) : d.out[o] = x[o] \/ Replaces(x[o], d.out[o])
    /\ \A p \in Ports : Same(IF p \in d.taken THEN m[p]
                             ELSE TipOf(queue[r][p], connection[r][p], OutOf(connection[r][p], x)),
                             TipOf(d.q[p], d.conn[p], OutOf(d.conn[p], d.out)))

\* A router, and the flits m on the wires into it, before a cycle.
Ready(r, x, m) ==
    /\ queue[r] \in [Ports -> Seq(Flits)] /\ connection[r] \in [Ports -> Conns] /\ x \in [Connected(r) -> Outputs]
    /\ RouterOK(r, queue[r], connection[r], x)
    /\ \A p \in Ports : m[p] # NoFlit =>
          m[p] \in Flits /\ After(TipOf(queue[r][p], connection[r][p], OutOf(connection[r][p], x)), m[p])

LEMMA RestingTurns ==
    ASSUME NEW r, NEW wires, NEW nis, NEW m, NEW x, x = OutputsOf(r, wires, nis), Ready(r, x, m)
    PROVE  Turned(r, x, m, Resting(r, wires, nis))
<1>1. PICK d : d = Resting(r, wires, nis)
  OBVIOUS
<1>2. d.taken = {} /\ d.q = queue[r] /\ d.conn = connection[r] /\ d.out = x
  BY <1>1 DEF Resting
<1>3. RouterState(d.q, d.conn, d.out) \in RouterStates(r)
  BY <1>2 DEF RouterState, RouterStates, Ready
<1> QED BY <1>1, <1>2, <1>3 DEF Turned, Ready, Same

LEMMA RouterTurns ==
    ASSUME build \in {"BUS", "MESH"}, NEW r \in Routers, NEW wires, NEW nis,
           NEW m, \A p \in Ports : m[p] = wires[r][p].in,
           NEW x, x = OutputsOf(r, wires, nis), Ready(r, x, m)
    PROVE  Turned(r, x, m, cycleRouter(r, wires, nis))
<1>1. PICK T : T = {p \in Ports : Accepts(wires[r][p], queue[r][p])}
  OBVIOUS
<1>2. PICK q : q = [p \in Ports |-> IF p \in T THEN Append(queue[r][p], wires[r][p].in) ELSE queue[r][p]]
  OBVIOUS
<1>3. PICK c : c = Arbitrate(r, q, connection[r])
  OBVIOUS
<1>4. PICK s, f, d : s = [q |-> q, conn |-> c, out |-> x] /\ f = ForwardAll(s) /\ d = cycleRouter(r, wires, nis)
  OBVIOUS
<1>5. d = [taken |-> T, q |-> f.q, conn |-> f.conn, out |-> f.out, arbiter |-> NextPort(r, f.conn)]
  BY <1>1, <1>2, <1>3, <1>4, Zenon DEF cycleRouter
<1>6. d.taken = T /\ d.q = f.q /\ d.conn = f.conn /\ d.out = f.out
  BY <1>5
<1>7. T \subseteq Ports /\ \A p \in T : m[p] # NoFlit
  BY <1>1 DEF Accepts
<1>8. q = [p \in Ports |-> IF p \in T THEN Append(queue[r][p], m[p]) ELSE queue[r][p]]
  BY <1>2
<1> DEFINE Old(p) == TipOf(queue[r][p], connection[r][p], OutOf(connection[r][p], x))
<1>9. /\ q \in [Ports -> Seq(Flits)] /\ RouterOK(r, q, connection[r], x)
      /\ \A p \in Ports : TipOf(q[p], connection[r][p], OutOf(connection[r][p], x)) = IF p \in T THEN m[p] ELSE Old(p)
  <2>1. PICK q0, c0 : q0 = queue[r] /\ c0 = connection[r]
    OBVIOUS
  <2>2. q0 \in [Ports -> Seq(Flits)] /\ RouterOK(r, q0, c0, x) /\ Welcome(q0, c0, x, T, m)
    BY <2>1, <1>7 DEF Ready, Welcome
  <2>3. q \in [Ports -> Seq(Flits)] /\ Entered(q0, T, m, q)
    <3>1. \A p \in Ports : (IF p \in T THEN Append(q0[p], m[p]) ELSE q0[p]) \in Seq(Flits)
      <4> HIDE DEF Flits
      <4> QED BY <2>2, AppendProperties DEF Welcome
    <3> HIDE DEF Flits
    <3> QED BY <3>1, <2>1, <1>8 DEF Entered
  <2>4. /\ q \in [Ports -> Seq(Flits)] /\ RouterOK(r, q, c0, x)
        /\ \A p \in Ports : TipOf(q[p], c0[p], OutOf(c0[p], x))
                            = IF p \in T THEN m[p] ELSE TipOf(q0[p], c0[p], OutOf(c0[p], x))
    BY <2>2, <2>3, AcceptKeeps
  <2> QED BY <2>1, <2>4
<1>10. /\ c \in [Ports -> Conns] /\ RouterOK(r, q, c, x)
       /\ \A p \in Ports : TipOf(q[p], c[p], OutOf(c[p], x)) = TipOf(q[p], connection[r][p], OutOf(connection[r][p], x))
  <2>1. connection[r] \in [Ports -> Conns]
    BY DEF Ready
  <2> QED BY <2>1, <1>3, <1>9, ArbitrateKeeps
<1>11. Moved(r, s, s)
  <2>1. s.q = q /\ s.conn = c /\ s.out = x
    BY <1>4
  <2>2. s \in RouterStates(r)
    BY <1>4, <1>9, <1>10 DEF RouterStates, Ready
  <2> QED BY <2>1, <2>2, <1>10 DEF Moved, Same
<1>12. Moved(r, s, f)
  BY <1>4, <1>11, ForwardAllKeeps
<1>13. f \in RouterStates(r) /\ f = RouterState(f.q, f.conn, f.out)
  BY <1>12 DEF Moved, RouterStates, RouterState
<1>14. s.q = q /\ s.conn = c /\ s.out = x
  BY <1>4
<1>15. \A p \in Ports : Same(IF p \in T THEN m[p] ELSE Old(p), TipOf(f.q[p], f.conn[p], OutOf(f.conn[p], f.out)))
  BY <1>9, <1>10, <1>12, <1>14 DEF Moved
<1>16. RouterOK(r, f.q, f.conn, f.out) /\ \A o \in Connected(r) : f.out[o] = x[o] \/ Replaces(x[o], f.out[o])
  BY <1>12, <1>14 DEF Moved
<1> QED BY <1>4, <1>6, <1>7, <1>13, <1>15, <1>16 DEF Turned
-----------------------------------------------------------------------------
(* Wires *)

Links == [out : Shown, out_ack : BOOLEAN, in : Shown, in_ack : BOOLEAN]

Sound(w) == /\ w.in # NoFlit => w.in = w.out /\ ~w.out_ack
            /\ w.in_ack => w.in # NoFlit
            /\ w.out_ack => w.out # NoFlit /\ w.in = NoFlit /\ ~w.in_ack

\* The wire carries what comes after e; m is what was put on it last.
Flow(e, w, m) == IF Waits(w) THEN w.out = m /\ After(e, m) ELSE Same(e, m)

\* The wire s once the signals have crossed w.
Crosses(w, s) ==
    /\ s \in Links /\ Sound(s) /\ s.out = w.out
    /\ s.in # NoFlit <=> Waits(w)
    /\ s.in # NoFlit => s.in = w.out
    /\ ~s.in_ack /\ (s.out_ack <=> w.in_ack \/ w.out_ack)

LEMMA Synced ==
    ASSUME NEW w \in Links, Sound(w)
    PROVE  Crosses(w, synchronizePorts(w))
<1>1. PICK s : s = synchronizePorts(w)
  OBVIOUS
<1>2. CASE Waits(w)
  <2>1. s = [w EXCEPT !.in = w.out]
    BY <1>1, <1>2 DEF synchronizePorts, Waits
  <2>2. s \in Links /\ s.out = w.out /\ s.in = w.out /\ s.in_ack = w.in_ack /\ s.out_ack = w.out_ack
    BY <2>1 DEF Links
  <2> QED BY <2>2, <1>1, <1>2 DEF Waits, Sound, Crosses
<1>3. CASE w.out # NoFlit /\ w.in_ack
  <2>1. s = [w EXCEPT !.in = NoFlit, !.in_ack = FALSE, !.out_ack = TRUE]
    BY <1>1, <1>3 DEF synchronizePorts
  <2>2. s \in Links /\ s.out = w.out /\ s.in = NoFlit /\ s.in_ack = FALSE /\ s.out_ack = TRUE
    BY <2>1 DEF Links, Shown
  <2> QED BY <2>2, <1>1, <1>3 DEF Waits, Sound, Crosses
<1>4. CASE w.out = NoFlit \/ (w.out_ack /\ ~w.in_ack)
  <2>1. s = w
    BY <1>1, <1>4 DEF synchronizePorts
  <2>2. w.in = NoFlit /\ ~w.in_ack
    BY <1>4 DEF Sound
  <2> QED BY <2>1, <2>2, <1>1, <1>4 DEF Waits, Sound, Crosses
<1>5. Waits(w) \/ (w.out # NoFlit /\ w.in_ack) \/ (w.out = NoFlit \/ (w.out_ack /\ ~w.in_ack))
  <2> HIDE NoCAssumption
  <2> QED BY DEF Waits
<1> QED BY <1>2, <1>3, <1>4, <1>5

\* What a writer may do with its end of a wire: nothing, or put on it what
\* comes after its last flit, or leave it empty between packets.
Writer(s, x, m, m1) ==
    \/ x = [flit |-> s.out, ack |-> s.out_ack] /\ m1 = m
    \/ /\ s.out = NoFlit \/ s.out_ack
       /\ x.flit \in Shown /\ x.ack = FALSE
       /\ \/ x.flit = NoFlit /\ m1 = NoFlit /\ Ended(m)
          \/ x.flit = m1 /\ After(m, m1)

LEMMA FlowStep ==
    ASSUME NEW w \in Links, Sound(w), NEW e, NEW m, Flow(e, w, m),
           NEW s, Crosses(w, s), NEW took \in BOOLEAN, took => s.in # NoFlit,
           NEW x, NEW m1, Writer(s, x, m, m1),
           NEW e1, Same(IF took THEN s.in ELSE e, e1),
           NEW w1, w1 = Wire(s, took, x)
    PROVE  w1 \in Links /\ Sound(w1) /\ Flow(e1, w1, m1)
<1>1. w1 = [s EXCEPT !.out = x.flit, !.out_ack = x.ack, !.in_ack = s.in_ack \/ took]
  BY DEF Wire
<1>2. s \in Links /\ Sound(s) /\ s.out = w.out /\ s.in_ack = FALSE
  BY DEF Crosses, Links
<1>3. /\ w1.out = x.flit /\ w1.out_ack = x.ack /\ w1.in = s.in /\ w1.in_ack = took
  BY <1>1, <1>2 DEF Links
<1>4. x.flit \in Shown /\ x.ack \in BOOLEAN
  <2>1. CASE x = [flit |-> s.out, ack |-> s.out_ack]
    <3>1. x.flit = s.out /\ x.ack = s.out_ack
      BY <2>1
    <3> QED BY <3>1, <1>2 DEF Links
  <2>2. CASE x.flit \in Shown /\ x.ack = FALSE
    BY <2>2
  <2> QED BY <2>1, <2>2 DEF Writer
<1>5. w1 \in Links
  BY <1>1, <1>2, <1>4 DEF Links
<1>6. CASE x = [flit |-> s.out, ack |-> s.out_ack] /\ m1 = m
  <2>1. x.flit = s.out /\ x.ack = s.out_ack
    BY <1>6
  <2>2. Sound(w1)
    BY <1>2, <1>3, <2>1 DEF Sound
  <2>3. CASE Waits(w) /\ took
    <3>1. w.out = m /\ s.in = w.out /\ ~Waits(w1)
      BY <1>3, <2>3 DEF Flow, Crosses, Waits
    <3>2. Same(e1, m1)
      BY <1>6, <2>3, <3>1 DEF Same
    <3> QED BY <1>5, <2>2, <3>1, <3>2 DEF Flow
  <2>4. CASE Waits(w) /\ ~took
    <3>1. w.out = m /\ After(e, m) /\ Waits(w1) /\ w1.out = m
      BY <1>2, <1>3, <2>1, <2>4 DEF Flow, Crosses, Waits, Sound
    <3>2. After(e1, m)
      BY <2>4, <3>1, SameAfter
    <3> QED BY <1>5, <1>6, <2>2, <3>1, <3>2 DEF Flow
  <2>5. CASE ~Waits(w)
    <3>1. Same(e, m) /\ s.in = NoFlit /\ ~took
      BY <2>5 DEF Flow, Crosses
    <3>2. ~Waits(w1)
      BY <1>2, <1>3, <2>1, <2>5 DEF Crosses, Waits
    <3>3. Same(e1, m)
      <4>1. Same(e, e1)
        BY <3>1
      <4> QED BY <3>1, <4>1 DEF Same
    <3> QED BY <1>5, <1>6, <2>2, <3>2, <3>3 DEF Flow
  <2> QED BY <2>3, <2>4, <2>5
<1>7. CASE /\ s.out = NoFlit \/ s.out_ack
           /\ x.flit \in Shown /\ x.ack = FALSE
           /\ \/ x.flit = NoFlit /\ m1 = NoFlit /\ Ended(m)
              \/ x.flit = m1 /\ After(m, m1)
  <2>1. s.in = NoFlit /\ ~Waits(w) /\ ~took
    BY <1>2, <1>7 DEF Sound, Crosses, Waits
  <2>2. Sound(w1)
    BY <1>3, <1>7, <2>1 DEF Sound
  <2>3. Same(e, m) /\ Same(e, e1)
    BY <2>1 DEF Flow
  <2>4. Same(m, e1)
    BY <2>3 DEF Same
  <2>5. CASE x.flit = NoFlit /\ m1 = NoFlit /\ Ended(m)
    <3>1. ~Waits(w1)
      BY <1>3, <2>5 DEF Waits
    <3>2. Ended(NoFlit) /\ Ended(e1)
      BY <2>4, <2>5 DEF Ended, Same
    <3> QED BY <1>5, <2>2, <2>5, <3>1, <3>2 DEF Flow, Same
  <2>6. CASE x.flit = m1 /\ After(m, m1)
    <3>1. m1 # NoFlit
      BY <2>6 DEF After
    <3>2. Waits(w1) /\ w1.out = m1
      BY <1>3, <1>7, <2>1, <2>6, <3>1 DEF Waits
    <3>3. After(e1, m1)
      BY <2>4, <2>6, SameAfter
    <3> QED BY <1>5, <2>2, <3>2, <3>3 DEF Flow
  <2> QED BY <1>7, <2>5, <2>6
<1> QED BY <1>6, <1>7 DEF Writer

-----------------------------------------------------------------------------
(* Interfaces *)

\* The interface shows the head of its queue b on wire w.
Offered(b, w) == /\ Sound(w) /\ ~w.out_ack
                 /\ w.out = IF b = << >> THEN NoFlit ELSE Head(b)

\* What has not been taken of it.
Rest(b, w) == IF w.in_ack THEN Tail(b) ELSE b

\* An interface with queue b, wire w and reader at e in a cycle in which m is
\* put into the queue if put, and the reader takes the flit it sees if took.
Buffers(S, b, w, e, s, put, m, took, e1, o, w1) ==
    /\ b \in Seq(S) /\ w \in Links /\ Offered(b, w) /\ Chain(e, Rest(b, w))
    /\ Crosses(w, s)
    /\ put \in BOOLEAN /\ (put => m \in S /\ After(End(e, Rest(b, w)), m))
    /\ took \in BOOLEAN /\ (took => s.in # NoFlit)
    /\ Same(IF took THEN s.in ELSE e, e1)
    /\ o = Offer(IF put THEN Append(b, m) ELSE b, s)
    /\ w1 = Wire(s, took, o)

LEMMA BufferStep ==
    ASSUME NEW S, S \subseteq Flits, NEW b, NEW w, NEW e, NEW s, NEW put, NEW m, NEW took, NEW e1, NEW o, NEW w1,
           Buffers(S, b, w, e, s, put, m, took, e1, o, w1)
    PROVE  /\ o.buffer \in Seq(S) /\ w1 \in Links /\ Offered(o.buffer, w1)
           /\ took => s.in \in S
           /\ w1.in_ack = took
           /\ Chain(e1, Rest(o.buffer, w1))
           /\ Same(IF put THEN m ELSE End(e, Rest(b, w)), End(e1, Rest(o.buffer, w1)))
           /\ Len(Rest(b, w)) \in Nat /\ Len(Rest(o.buffer, w1)) \in Nat
           /\ Len(Rest(o.buffer, w1)) >= Len(Rest(b, w)) - (IF took THEN 1 ELSE 0)
<1>0. /\ b \in Seq(S) /\ w \in Links /\ Offered(b, w) /\ Chain(e, Rest(b, w))
      /\ Crosses(w, s)
      /\ put \in BOOLEAN /\ (put => m \in S /\ After(End(e, Rest(b, w)), m))
      /\ took \in BOOLEAN /\ (took => s.in # NoFlit)
      /\ Same(IF took THEN s.in ELSE e, e1)
      /\ o = Offer(IF put THEN Append(b, m) ELSE b, s)
      /\ w1 = Wire(s, took, o)
  BY DEF Buffers
<1> USE <1>0
<1>1. PICK p, R, L : p = (IF put THEN Append(b, m) ELSE b) /\ R = Rest(b, w) /\ L = o.buffer
  OBVIOUS
<1>2. s \in Links /\ s.out = w.out /\ ~s.in_ack /\ (s.out_ack <=> w.in_ack) /\ s.in_ack = FALSE
      /\ (s.in # NoFlit => s.in = w.out /\ ~w.in_ack /\ w.out # NoFlit)
  BY DEF Crosses, Offered, Waits, Links
<1>3. w.out # NoFlit => b # << >> /\ w.out = Head(b)
  BY DEF Offered
<1>4. w.in_ack => b # << >>
  BY <1>3 DEF Offered, Sound
<1>5. b # << >> => Head(b) \in S /\ Tail(b) \in Seq(S)
  BY HeadTailProperties
<1>6. R \in Seq(S)
  BY <1>1, <1>4, <1>5 DEF Rest
<1>7. put => p \in Seq(S) /\ p # << >> /\ (b # << >> => Head(p) = Head(b))
  <2> SUFFICES ASSUME put PROVE p \in Seq(S) /\ p # << >> /\ (b # << >> => Head(p) = Head(b))
    OBVIOUS
  <2>1. p \in Seq(S) /\ Len(p) = Len(b) + 1 /\ \A k \in 1 .. Len(b) : p[k] = b[k]
    BY <1>1, AppendProperties
  <2>2. Len(b) \in Nat /\ (b # << >> => Len(b) # 0)
    BY EmptySeq, LenProperties
  <2>3. p # << >>
    BY <2>1, <2>2, EmptySeq
  <2>4. b # << >> => Head(p) = p[1] /\ Head(b) = b[1] /\ 1 \in 1 .. Len(b)
    BY <2>1, <2>2, <2>3, HeadTailProperties
  <2> QED BY <2>1, <2>3, <2>4
<1>8. L = IF put THEN Append(R, m) ELSE R
  <2>1. L = IF p # << >> /\ s.out_ack THEN Tail(p) ELSE p
    BY <1>1 DEF Offer, isEmpty
  <2>2. CASE w.in_ack
    <3>1. R = Tail(b) /\ b # << >>
      BY <2>2, <1>1, <1>4 DEF Rest
    <3>2. CASE put
      BY <2>1, <2>2, <3>1, <3>2, <1>1, <1>2, <1>7, HeadTailAppend
    <3>3. CASE ~put
      BY <2>1, <2>2, <3>1, <3>3, <1>1, <1>2
    <3> QED BY <3>2, <3>3
  <2>3. CASE ~w.in_ack
    BY <2>1, <2>3, <1>1, <1>2 DEF Rest
  <2> QED BY <2>2, <2>3
<1>9. L \in Seq(S) /\ Chain(e, L) /\ End(e, L) = IF put THEN m ELSE End(e, R)
  <2>1. CASE put
    <3>1. m \in S /\ After(End(e, R), m) /\ Chain(e, R)
      BY <2>1, <1>1
    <3>2. L = Append(R, m)
      BY <1>8, <2>1
    <3>3. L \in Seq(S)
      BY <3>1, <3>2, <1>6, AppendProperties
    <3>4. Chain(e, L) /\ End(e, L) = m
      BY <3>1, <3>2, <1>6, ChainAppend
    <3> QED BY <2>1, <3>3, <3>4
  <2>2. CASE ~put
    BY <2>2, <1>1, <1>6, <1>8
  <2> QED BY <2>1, <2>2
<1>10. o.flit = (IF L = << >> THEN NoFlit ELSE Head(L)) /\ o.ack = FALSE
  <2>1. /\ o.flit = IF L # << >> THEN Head(L) ELSE IF p = << >> THEN s.out ELSE NoFlit
        /\ o.ack = IF p = << >> THEN s.out_ack ELSE FALSE
    BY <1>1 DEF Offer, isEmpty
  <2>2. p = << >> => b = << >>
    BY <1>1, <1>7
  <2>3. b = << >> => s.out = NoFlit /\ s.out_ack = FALSE
    BY <1>2, <1>3, <1>4 DEF Links
  <2> QED BY <2>1, <2>2, <2>3
<1>11. w1.out = o.flit /\ w1.out_ack = FALSE /\ w1.in = s.in /\ w1.in_ack = took /\ w1 \in Links
  <2>1. w1 = [s EXCEPT !.out = o.flit, !.out_ack = o.ack, !.in_ack = s.in_ack \/ took]
    BY DEF Wire
  <2>2. o.flit \in Shown
    <3>1. L # << >> => Head(L) \in S
      BY <1>9, HeadTailProperties
    <3> QED BY <3>1, <1>10 DEF Shown
  <2> QED BY <2>1, <2>2, <1>2, <1>10 DEF Links
<1>12. s.in # NoFlit => L # << >> /\ s.in = Head(L) /\ s.in \in S
  <2> SUFFICES ASSUME s.in # NoFlit PROVE L # << >> /\ s.in = Head(L) /\ s.in \in S
    OBVIOUS
  <2>1. s.in = Head(b) /\ b # << >> /\ ~w.in_ack /\ R = b
    BY <1>1, <1>2, <1>3 DEF Rest
  <2>2. L = p
    BY <2>1, <1>1, <1>8
  <2> QED BY <2>1, <2>2, <1>1, <1>5, <1>7
<1>13. Offered(L, w1)
  BY <1>10, <1>11, <1>12 DEF Offered, Sound
<1>14. PICK R1 : R1 = Rest(L, w1)
  OBVIOUS
<1>15. Len(R) \in Nat /\ Len(L) \in Nat /\ Len(L) >= Len(R)
  <2>1. put => Len(Append(R, m)) = Len(R) + 1
    BY <1>6, AppendProperties
  <2> QED BY <2>1, <1>6, <1>8, <1>9, LenProperties
<1>16. CASE took
  <2>1. R1 = Tail(L) /\ L # << >> /\ s.in = Head(L)
    BY <1>11, <1>12, <1>14, <1>16 DEF Rest
  <2>2. Chain(s.in, R1) /\ End(s.in, R1) = End(e, L)
    BY <2>1, <1>9, ChainTail
  <2>3. Same(s.in, e1)
    BY <1>16
  <2>4. Chain(e1, R1) /\ Same(End(e, L), End(e1, R1))
    BY <2>2, <2>3, ChainSame
  <2>5. Len(R1) \in Nat /\ Len(R1) = Len(L) - 1
    BY <2>1, <1>9, HeadTailProperties, LenProperties
  <2>6. Len(R1) >= Len(R) - 1
    BY <2>5, <1>15
  <2> QED BY <2>4, <2>5, <2>6, <1>1, <1>9, <1>11, <1>12, <1>13, <1>14, <1>15, <1>16
<1>17. CASE ~took
  <2>1. R1 = L
    BY <1>11, <1>14, <1>17 DEF Rest
  <2>2. Same(e, e1)
    BY <1>17
  <2>3. Chain(e1, R1) /\ Same(End(e, L), End(e1, R1))
    BY <2>1, <2>2, <1>9, ChainSame
  <2>4. Len(R1) >= Len(R) - 0
    BY <2>1, <1>15
  <2> QED BY <2>1, <2>3, <2>4, <1>1, <1>9, <1>11, <1>13, <1>14, <1>15, <1>17
<1> QED BY <1>16, <1>17

-----------------------------------------------------------------------------
(* The invariant *)

Outs(r) == OutputsOf(r, toRouter, toNI)
Tip(r, p) == TipOf(queue[r][p], connection[r][p], OutOf(connection[r][p], Outs(r)))

\* A wire into a router.
LinkInv(r, p) ==
    /\ toRouter[r][p] \in Links /\ Sound(toRouter[r][p])
    /\ p \in Connected(r) /\ ~ToInterface(p) => Flow(Tip(r, p), toRouter[r][p], toRouter[r][p].out)
    /\ p \notin Connected(r) => toRouter[r][p] = cleanPort

RouterInv(r) ==
    /\ queue[r] \in [Ports -> Seq(Flits)] /\ connection[r] \in [Ports -> Conns]
    /\ Outs(r) \in [Connected(r) -> Outputs]
    /\ RouterOK(r, queue[r], connection[r], Outs(r))
    /\ \A p \in Ports : LinkInv(r, p)

\* The flit a core has written last of a packet it has not finished to write.
Mark(c) == IF written[c] = 0 THEN NoFlit ELSE Flit(c, begun[c], written[c])

\* The wire from an interface to its router, and where the router is.
LocalWire(c) == toRouter[RouterOf(c)][PortOf(c)]
LocalTip(c) == Tip(RouterOf(c), PortOf(c))

\* From the write of a core to the queue of its router.
SendInv(c) ==
    /\ plasma[c] \in Seq(Flits) /\ fromCore[c] \in Links /\ Sound(fromCore[c])
    /\ Offered(plasma[c], LocalWire(c))
    /\ Chain(LocalTip(c), Rest(plasma[c], LocalWire(c)))
    /\ Flow(End(LocalTip(c), Rest(plasma[c], LocalWire(c))), fromCore[c], Mark(c))
    /\ begun[c] \in Nat /\ written[c] \in 0 .. NI_BUFFER_LENGTH
    /\ written[c] > 0 => begun[c] \in 1 .. Len(Traffic[c])

\* The flits for a core.
For(c) == {f \in Flits : Target(f) = c}

\* RecvCommServiceISR has read as many flits as it has made reads, and those it
\* still has to read wait in the interface.
HandlerInv(c) ==
    /\ reads[c] \in 0 .. NI_BUFFER_LENGTH + 1 /\ gap[c] \in 0 .. READ_GAP - 1
    /\ flits_remaining[c] = reads[c]
    /\ reads[c] = NI_BUFFER_LENGTH + 1 => got[c] = << >>
    /\ reads[c] \in 1 .. NI_BUFFER_LENGTH => Len(got[c]) = NI_BUFFER_LENGTH - reads[c]
    /\ reads[c] = 0 => Len(got[c]) \in {0, NI_BUFFER_LENGTH}
    /\ reads[c] > 0 => Len(Rest(noc[c], toCore[c])) >= NI_BUFFER_LENGTH - Len(got[c])
    /\ toCore[c].in_ack => gap[c] >= 1

\* From a router to the handler of a core.
ReceiveInv(c) ==
    /\ noc[c] \in Seq(For(c)) /\ got[c] \in Seq(For(c))
    /\ toCore[c] \in Links /\ Offered(noc[c], toCore[c])
    /\ Chain(NoFlit, got[c])
    /\ Chain(End(NoFlit, got[c]), Rest(noc[c], toCore[c]))
    /\ toNI[c] \in Links /\ Sound(toNI[c])
    /\ Flow(End(End(NoFlit, got[c]), Rest(noc[c], toCore[c])), toNI[c], toNI[c].out)
    /\ HandlerInv(c)

PacketInv == /\ build \in {"BUS", "MESH"}
             /\ \A r \in Routers : RouterInv(r)
             /\ \A c \in Cores : SendInv(c) /\ ReceiveInv(c)
-----------------------------------------------------------------------------
\* An interface and its router.
LEMMA Local ==
    ASSUME build \in {"BUS", "MESH"}, NEW c \in Cores
    PROVE  /\ RouterOf(c) \in Routers /\ PortOf(c) \in Connected(RouterOf(c)) /\ PortOf(c) \in Ports
           /\ ToInterface(PortOf(c)) /\ InterfaceAt(RouterOf(c), PortOf(c)) = c
<1>1. CASE build = "BUS"
  BY <1>1 DEF RouterOf, PortOf, Routers, Connected, Ports, ToInterface, InterfaceAt
<1>2. CASE build = "MESH"
  <2> HIDE DEF Cores
  <2>1. RouterOf(c) = c /\ PortOf(c) = LOCAL_PORT /\ Routers = Cores /\ Ports = EAST .. LOCAL_PORT
    BY <1>2 DEF RouterOf, PortOf, Routers, Ports
  <2>2. LOCAL_PORT \in Connected(c) /\ LOCAL_PORT \in EAST .. LOCAL_PORT
    BY <1>2 DEF Connected, EAST, WEST, NORTH, SOUTH, LOCAL_PORT
  <2>3. ToInterface(LOCAL_PORT) /\ InterfaceAt(c, LOCAL_PORT) = c
    BY <1>2 DEF ToInterface, InterfaceAt
  <2> QED BY <2>1, <2>2, <2>3
<1> QED BY <1>1, <1>2

LEMMA LocalPorts ==
    ASSUME build \in {"BUS", "MESH"}, NEW r \in Routers, NEW p \in Ports
    PROVE  /\ ToInterface(p) => /\ p \in Connected(r) /\ InterfaceAt(r, p) \in Cores
                                /\ RouterOf(InterfaceAt(r, p)) = r /\ PortOf(InterfaceAt(r, p)) = p
           /\ ~ToInterface(p) => build # "BUS" /\ p # LOCAL_PORT /\ r \in Cores /\ Routers = Cores
<1>1. CASE build = "BUS"
  BY <1>1 DEF RouterOf, PortOf, Routers, Connected, Ports, ToInterface, InterfaceAt
<1>2. CASE build = "MESH"
  <2> HIDE DEF Cores
  <2>1. r \in Cores /\ Routers = Cores /\ (ToInterface(p) <=> p = LOCAL_PORT)
    BY <1>2 DEF Routers, ToInterface
  <2>2. LOCAL_PORT \in Connected(r)
    BY <1>2 DEF Connected, EAST, WEST, NORTH, SOUTH, LOCAL_PORT
  <2>3. InterfaceAt(r, p) = r /\ RouterOf(r) = r /\ PortOf(r) = LOCAL_PORT
    BY <1>2 DEF InterfaceAt, RouterOf, PortOf
  <2> QED BY <1>2, <2>1, <2>2, <2>3
<1> QED BY <1>1, <1>2

LEMMA ConnectedPorts ==
    ASSUME build \in {"BUS", "MESH"}, NEW r
    PROVE  Connected(r) \subseteq Ports
<1>1. CASE build = "BUS"
  BY <1>1 DEF Connected, Ports
<1>2. CASE build = "MESH"
  BY <1>2 DEF Connected, Ports
<1> QED BY <1>1, <1>2

\* A wire from one router to another.
LEMMA Between ==
    ASSUME build \in {"BUS", "MESH"}, NEW r \in Routers, NEW p \in Connected(r), ~ToInterface(p),
           NEW n, n = Neighbour(r, p), NEW o, o = Opposite(p)
    PROVE  /\ n \in Routers /\ o \in Connected(n) /\ o \in Ports /\ ~ToInterface(o)
           /\ Neighbour(n, o) = r /\ Opposite(o) = p
<1>1. build # "BUS" /\ p # LOCAL_PORT /\ r \in Cores /\ Routers = Cores
  BY LocalPorts, ConnectedPorts
<1>2. n \in Cores /\ o \in Connected(n) /\ o # LOCAL_PORT /\ Neighbour(n, o) = r /\ Opposite(o) = p
  BY <1>1, Crossed
<1>3. o \in Ports
  BY <1>2, ConnectedPorts
<1> QED BY <1>1, <1>2, <1>3 DEF ToInterface

\* A value that only depends on how the simulator was compiled stays.
LEMMA SameBuild ==
    ASSUME build' = build
    PROVE  /\ Ports' = Ports /\ Routers' = Routers
           /\ \A r : Connected(r)' = Connected(r)
           /\ \A p : ToInterface(p)' = ToInterface(p)
           /\ \A c : RouterOf(c)' = RouterOf(c) /\ PortOf(c)' = PortOf(c)
           /\ \A r, p : InterfaceAt(r, p)' = InterfaceAt(r, p)
           /\ \A r, f : Direction(r, f)' = Direction(r, f)
<1>1. Ports' = Ports /\ Routers' = Routers
  BY DEF Ports, Routers
<1>2. \A r : Connected(r)' = Connected(r)
  BY DEF Connected
<1>3. \A p : ToInterface(p)' = ToInterface(p)
  BY DEF ToInterface
<1>4. \A c : RouterOf(c)' = RouterOf(c) /\ PortOf(c)' = PortOf(c)
  BY DEF RouterOf, PortOf
<1>5. \A r, p : InterfaceAt(r, p)' = InterfaceAt(r, p)
  BY DEF InterfaceAt
<1>6. \A r, f : Direction(r, f)' = Direction(r, f)
  BY DEF Direction
<1> QED BY <1>1, <1>2, <1>3, <1>4, <1>5, <1>6

LEMMA SameRouter ==
    ASSUME build' = build
    PROVE  /\ \A r, q, conn, out : RouterOK(r, q, conn, out) => RouterOK(r, q, conn, out)'
           /\ \A r, w, n : OutputsOf(r, w, n)' = OutputsOf(r, w, n)
<1>1. ASSUME NEW r, NEW q, NEW c, NEW x PROVE PortOK(r, q, c, x)' <=> PortOK(r, q, c, x)
  BY SameBuild DEF PortOK
<1>2. ASSUME NEW r, NEW q, NEW conn, NEW out, RouterOK(r, q, conn, out) PROVE RouterOK(r, q, conn, out)'
  BY <1>1, <1>2, SameBuild DEF RouterOK
<1>3. ASSUME NEW r, NEW p, NEW w, NEW n PROVE WireOut(r, p, w, n)' = WireOut(r, p, w, n)
  BY SameBuild DEF WireOut
<1>4. ASSUME NEW r, NEW w, NEW n PROVE OutputsOf(r, w, n)' = OutputsOf(r, w, n)
  BY <1>3, SameBuild DEF OutputsOf
<1> QED BY <1>2, <1>4

-----------------------------------------------------------------------------
(* A cycle *)

\* The outputs of router r, and the flits on the wires into it, as synchronized.
SyncedOuts(r) == OutputsOf(r, SyncedToRouter, SyncedToNI)
SyncedIns(r) == [p \in Ports |-> SyncedToRouter[r][p].in]

Done(r) == CASE ~RouterCycle -> Resting(r, SyncedToRouter, SyncedToNI)
             [] RouterCycle /\ build = "BUS" -> cycleBus(SyncedToRouter, SyncedToNI)
             [] OTHER -> cycleRouter(r, SyncedToRouter, SyncedToNI)

LEMMA LinkCrosses ==
    ASSUME PacketInv, NEW r \in Routers, NEW p \in Ports
    PROVE  /\ toRouter[r][p] \in Links /\ Sound(toRouter[r][p])
           /\ Crosses(toRouter[r][p], SyncedToRouter[r][p])
<1>1. toRouter[r][p] \in Links /\ Sound(toRouter[r][p])
  BY DEF PacketInv, RouterInv, LinkInv
<1>2. SyncedToRouter[r][p] = synchronizePorts(toRouter[r][p])
  BY DEF SyncedToRouter
<1> QED BY <1>1, <1>2, Synced

LEMMA NICrosses ==
    ASSUME PacketInv, NEW c \in Cores
    PROVE  toNI[c] \in Links /\ Sound(toNI[c]) /\ Crosses(toNI[c], SyncedToNI[c])
<1>1. toNI[c] \in Links /\ Sound(toNI[c])
  BY DEF PacketInv, ReceiveInv
<1>2. SyncedToNI[c] = synchronizePorts(toNI[c])
  BY DEF SyncedToNI
<1> QED BY <1>1, <1>2, Synced

\* The wire at an output of a router.
LEMMA OutCrosses ==
    ASSUME PacketInv, NEW r \in Routers, NEW o \in Connected(r),
           NEW w, w = WireOut(r, o, toRouter, toNI), NEW s, s = WireOut(r, o, SyncedToRouter, SyncedToNI)
    PROVE  w \in Links /\ Sound(w) /\ Crosses(w, s)
<1>1. build \in {"BUS", "MESH"} /\ o \in Ports
  BY ConnectedPorts DEF PacketInv
<1>2. CASE ToInterface(o)
  <2>1. InterfaceAt(r, o) \in Cores
    BY <1>1, <1>2, LocalPorts
  <2>2. w = toNI[InterfaceAt(r, o)] /\ s = SyncedToNI[InterfaceAt(r, o)]
    BY <1>2 DEF WireOut
  <2> QED BY <2>1, <2>2, NICrosses
<1>3. CASE ~ToInterface(o)
  <2>1. Neighbour(r, o) \in Routers /\ Opposite(o) \in Ports
    BY <1>1, <1>3, Between
  <2>2. w = toRouter[Neighbour(r, o)][Opposite(o)] /\ s = SyncedToRouter[Neighbour(r, o)][Opposite(o)]
    BY <1>3 DEF WireOut
  <2> QED BY <2>1, <2>2, LinkCrosses
<1> QED BY <1>2, <1>3

\* Every router is ready for its part of the cycle.
LEMMA RouterReady ==
    ASSUME PacketInv, NEW r \in Routers
    PROVE  /\ Ready(r, SyncedOuts(r), SyncedIns(r))
           /\ \A p \in Ports : TipOf(queue[r][p], connection[r][p], OutOf(connection[r][p], SyncedOuts(r))) = Tip(r, p)
<1>1. PICK x, y, m, q, conn : x = SyncedOuts(r) /\ y = Outs(r) /\ m = SyncedIns(r) /\ q = queue[r] /\ conn = connection[r]
  OBVIOUS
<1>2. build \in {"BUS", "MESH"} /\ Connected(r) \subseteq Ports
  BY ConnectedPorts DEF PacketInv
<1>3. /\ q \in [Ports -> Seq(Flits)] /\ conn \in [Ports -> Conns] /\ RouterOK(r, q, conn, y)
      /\ \A p \in Ports : LinkInv(r, p)
  BY <1>1 DEF PacketInv, RouterInv
<1>4. ASSUME NEW o \in Connected(r) PROVE x[o] \in Outputs /\ y[o].flit = x[o].flit
  <2>1. PICK w, s : w = WireOut(r, o, toRouter, toNI) /\ s = WireOut(r, o, SyncedToRouter, SyncedToNI)
    OBVIOUS
  <2>2. Crosses(w, s)
    BY <2>1, OutCrosses
  <2>3. x[o] = [flit |-> s.out, ack |-> s.out_ack]
    BY <1>1, <2>1 DEF SyncedOuts, OutputsOf
  <2>4. y[o] = [flit |-> w.out, ack |-> w.out_ack]
    BY <1>1, <2>1 DEF Outs, OutputsOf
  <2>5. s.out \in Shown /\ s.out_ack \in BOOLEAN /\ s.out = w.out
    BY <2>2 DEF Crosses, Links
  <2> QED BY <2>3, <2>4, <2>5 DEF Outputs
<1>5. x \in [Connected(r) -> Outputs]
  <2>1. x = [o \in Connected(r) |-> x[o]]
    BY <1>1 DEF SyncedOuts, OutputsOf
  <2> HIDE DEF Outputs
  <2> QED BY <2>1, <1>4
<1>6. /\ RouterOK(r, q, conn, x)
      /\ \A p \in Ports : TipOf(q[p], conn[p], OutOf(conn[p], y)) = TipOf(q[p], conn[p], OutOf(conn[p], x))
  <2>1. SameFlits(r, y, x)
    BY <1>4 DEF SameFlits
  <2>2. RouterOK(r, q, conn, y)
    BY <1>3
  <2> HIDE NoCAssumption
  <2>3. RouterOK(r, q, conn, x)
    BY <2>1, <2>2, OutSame
  <2>4. ASSUME NEW p \in Ports PROVE TipOf(q[p], conn[p], OutOf(conn[p], y)) = TipOf(q[p], conn[p], OutOf(conn[p], x))
    <3>1. PortOK(r, q[p], conn[p], OutOf(conn[p], y))
      BY <2>2 DEF RouterOK
    <3>2. CASE conn[p].status = IDLE
      BY <3>2, IdleOK
    <3>3. CASE conn[p].status # IDLE
      <4>1. conn[p].redirect_to \in Connected(r)
        BY <3>1, <3>3 DEF PortOK
      <4>2. OutOf(conn[p], y) = OutOf(conn[p], x)
        BY <4>1, <2>1 DEF OutOf, SameFlits
      <4> QED BY <4>2
    <3> QED BY <3>2, <3>3
  <2> QED BY <2>3, <2>4
<1>7. \A p \in Ports : TipOf(q[p], conn[p], OutOf(conn[p], x)) = Tip(r, p)
  BY <1>1, <1>6 DEF Tip
<1>8. ASSUME NEW p \in Ports, m[p] # NoFlit PROVE m[p] \in Flits /\ After(Tip(r, p), m[p])
  <2>1. PICK w : w = toRouter[r][p]
    OBVIOUS
  <2>2. m[p] = w.out /\ Waits(w) /\ w \in Links
    BY <1>1, <1>8, <2>1, LinkCrosses DEF SyncedIns, Crosses
  <2>3. w.out # NoFlit /\ ~w.in_ack /\ w.out \in Flits
    BY <2>2 DEF Waits, Links, Shown
  <2>4. p \in Connected(r)
    BY <1>3, <2>1, <2>3 DEF LinkInv, cleanPort
  <2>5. CASE ~ToInterface(p)
    <3>1. Flow(Tip(r, p), w, w.out)
      BY <1>3, <2>1, <2>4, <2>5 DEF LinkInv
    <3> QED BY <3>1, <2>2, <2>3 DEF Flow
  <2>6. CASE ToInterface(p)
    <3>1. PICK c \in Cores : RouterOf(c) = r /\ PortOf(c) = p
      BY <1>2, <2>6, LocalPorts
    <3>2. plasma[c] \in Seq(Flits) /\ Offered(plasma[c], w) /\ Chain(Tip(r, p), Rest(plasma[c], w))
      BY <3>1, <2>1 DEF PacketInv, SendInv, LocalWire, LocalTip
    <3>3. plasma[c] # << >> /\ w.out = Head(plasma[c]) /\ Rest(plasma[c], w) = plasma[c]
      BY <3>2, <2>3 DEF Offered, Rest
    <3>4. After(Tip(r, p), Head(plasma[c]))
      <4> HIDE DEF Flits
      <4> QED BY <3>2, <3>3, ChainTail
    <3> QED BY <3>3, <3>4, <2>2, <2>3
  <2> QED BY <2>5, <2>6
<1> QED BY <1>1, <1>3, <1>5, <1>6, <1>7, <1>8 DEF Ready

LEMMA RouterDone ==
    ASSUME PacketInv, NEW r \in Routers
    PROVE  Turned(r, SyncedOuts(r), SyncedIns(r), Done(r))
<1>1. build \in {"BUS", "MESH"}
  BY DEF PacketInv
<1>2. PICK x, m, wires, nis : x = SyncedOuts(r) /\ m = SyncedIns(r) /\ wires = SyncedToRouter /\ nis = SyncedToNI
  OBVIOUS
<1>3. Ready(r, x, m) /\ x = OutputsOf(r, wires, nis) /\ \A p \in Ports : m[p] = wires[r][p].in
  BY <1>2, RouterReady DEF SyncedOuts, SyncedIns
<1>4. CASE ~RouterCycle
  <2>1. Done(r) = Resting(r, wires, nis)
    BY <1>2, <1>4 DEF Done
  <2> QED BY <2>1, <1>2, <1>3, RestingTurns
<1>5. CASE RouterCycle
  <2>1. Done(r) = cycleRouter(r, wires, nis)
    <3>1. CASE build = "BUS"
      <4>1. r = 0
        BY <3>1 DEF Routers
      <4> QED BY <4>1, <3>1, <1>2, <1>5 DEF Done, cycleBus
    <3>2. CASE build # "BUS"
      BY <3>2, <1>2, <1>5 DEF Done
    <3> QED BY <3>1, <3>2
  <2>2. Turned(r, x, m, cycleRouter(r, wires, nis))
    BY <1>1, <1>3, RouterTurns
  <2> QED BY <2>1, <2>2, <1>2
<1> QED BY <1>4, <1>5

\* What a cycle does to each router and each core.
LEMMA CycleParts ==
    ASSUME build \in {"BUS", "MESH"}, NEW starters, NEW irqs, Cycle(starters, irqs)
    PROVE  /\ build' = build
           /\ \A r \in Routers :
                 /\ connection'[r] = Done(r).conn /\ queue'[r] = Done(r).q
                 /\ \A p \in Ports : toRouter'[r][p] =
                        Wire(SyncedToRouter[r][p], p \in Done(r).taken,
                             IF p \notin Connected(r) THEN [flit |-> NoFlit, ack |-> FALSE]
                             ELSE IF ToInterface(p) THEN cycleNetworkInterface(InterfaceAt(r, p)).toNoc
                             ELSE Done(Neighbour(r, p)).out[Opposite(p)])
           /\ \A c \in Cores :
                 /\ toNI'[c] = Wire(SyncedToNI[c], IntoNoc(c), Done(RouterOf(c)).out[PortOf(c)])
                 /\ toCore'[c] = Wire(SyncedToCore[c], ReadsFlit(c), cycleNetworkInterface(c).toPlasma)
                 /\ fromCore'[c] = Wire(SyncedFromCore[c], IntoPlasma(c),
                                        [flit |-> Writes(c, starters).flit, ack |-> SyncedFromCore[c].out_ack])
                 /\ plasma'[c] = cycleNetworkInterface(c).toNoc.buffer
                 /\ noc'[c] = cycleNetworkInterface(c).toPlasma.buffer
                 /\ begun'[c] = Writes(c, starters).begun /\ written'[c] = Writes(c, starters).written
                 /\ flits_remaining'[c] = Handled(c, irqs).remaining /\ reads'[c] = Handled(c, irqs).reads
                 /\ gap'[c] = Handled(c, irqs).gap /\ got'[c] = Handled(c, irqs).got
<1> DEFINE done == [r \in Routers |-> Done(r)]
           ni == [c \in Cores |-> cycleNetworkInterface(c)]
           w == [c \in Cores |-> Writes(c, starters)]
           h == [c \in Cores |-> Handled(c, irqs)]
<1>2. connection' = [r \in Routers |-> done[r].conn]
  BY Zenon DEF Cycle, Done
<1>3. queue' = [r \in Routers |-> done[r].q]
  BY Zenon DEF Cycle, Done
<1>4. toRouter' = [r \in Routers |-> [p \in Ports |->
             Wire(SyncedToRouter[r][p], p \in done[r].taken,
                  IF p \notin Connected(r) THEN [flit |-> NoFlit, ack |-> FALSE]
                  ELSE IF ToInterface(p) THEN ni[InterfaceAt(r, p)].toNoc
                  ELSE done[Neighbour(r, p)].out[Opposite(p)])]]
  BY Zenon DEF Cycle, Done
<1>5. toNI' = [c \in Cores |-> Wire(SyncedToNI[c], IntoNoc(c), done[RouterOf(c)].out[PortOf(c)])]
  BY Zenon DEF Cycle, Done
<1>6. /\ toCore' = [c \in Cores |-> Wire(SyncedToCore[c], ReadsFlit(c), ni[c].toPlasma)]
      /\ plasma' = [c \in Cores |-> ni[c].toNoc.buffer]
      /\ noc' = [c \in Cores |-> ni[c].toPlasma.buffer]
  BY Zenon DEF Cycle, Done
<1>7. /\ fromCore' = [c \in Cores |-> Wire(SyncedFromCore[c], IntoPlasma(c),
                                           [flit |-> w[c].flit, ack |-> SyncedFromCore[c].out_ack])]
      /\ begun' = [c \in Cores |-> w[c].begun] /\ written' = [c \in Cores |-> w[c].written]
  BY Zenon DEF Cycle, Done
<1>8. /\ flits_remaining' = [c \in Cores |-> h[c].remaining] /\ reads' = [c \in Cores |-> h[c].reads]
      /\ gap' = [c \in Cores |-> h[c].gap] /\ got' = [c \in Cores |-> h[c].got]
  BY Zenon DEF Cycle, Done
<1>9. build' = build
  BY Zenon DEF Cycle, Done
<1>1. /\ done = [r \in Routers |-> Done(r)]
      /\ ni = [c \in Cores |-> cycleNetworkInterface(c)]
      /\ w = [c \in Cores |-> Writes(c, starters)]
      /\ h = [c \in Cores |-> Handled(c, irqs)]
  OBVIOUS
<1> HIDE DEF done, ni, w, h
<1>10. ASSUME NEW r \in Routers
       PROVE  /\ connection'[r] = Done(r).conn /\ queue'[r] = Done(r).q
              /\ \A p \in Ports : toRouter'[r][p] =
                    Wire(SyncedToRouter[r][p], p \in Done(r).taken,
                         IF p \notin Connected(r) THEN [flit |-> NoFlit, ack |-> FALSE]
                         ELSE IF ToInterface(p) THEN cycleNetworkInterface(InterfaceAt(r, p)).toNoc
                         ELSE Done(Neighbour(r, p)).out[Opposite(p)])
  <2>1. connection'[r] = Done(r).conn /\ queue'[r] = Done(r).q
    BY <1>1, <1>2, <1>3
  <2>2. ASSUME NEW p \in Ports
        PROVE  toRouter'[r][p] =
                    Wire(SyncedToRouter[r][p], p \in Done(r).taken,
                         IF p \notin Connected(r) THEN [flit |-> NoFlit, ack |-> FALSE]
                         ELSE IF ToInterface(p) THEN cycleNetworkInterface(InterfaceAt(r, p)).toNoc
                         ELSE Done(Neighbour(r, p)).out[Opposite(p)])
    <3>1. toRouter'[r][p] =
             Wire(SyncedToRouter[r][p], p \in done[r].taken,
                  IF p \notin Connected(r) THEN [flit |-> NoFlit, ack |-> FALSE]
                  ELSE IF ToInterface(p) THEN ni[InterfaceAt(r, p)].toNoc
                  ELSE done[Neighbour(r, p)].out[Opposite(p)])
      BY <1>4
    <3>2. done[r] = Done(r)
      BY <1>1
    <3>3. ToInterface(p) => ni[InterfaceAt(r, p)] = cycleNetworkInterface(InterfaceAt(r, p))
      BY <1>1, LocalPorts
    <3>4. p \in Connected(r) /\ ~ToInterface(p) => done[Neighbour(r, p)] = Done(Neighbour(r, p))
      BY <1>1, Between
    <3> QED BY <3>1, <3>2, <3>3, <3>4
  <2> QED BY <2>1, <2>2
<1>11. ASSUME NEW c \in Cores
       PROVE  /\ toNI'[c] = Wire(SyncedToNI[c], IntoNoc(c), Done(RouterOf(c)).out[PortOf(c)])
              /\ toCore'[c] = Wire(SyncedToCore[c], ReadsFlit(c), cycleNetworkInterface(c).toPlasma)
              /\ fromCore'[c] = Wire(SyncedFromCore[c], IntoPlasma(c),
                                     [flit |-> Writes(c, starters).flit, ack |-> SyncedFromCore[c].out_ack])
              /\ plasma'[c] = cycleNetworkInterface(c).toNoc.buffer
              /\ noc'[c] = cycleNetworkInterface(c).toPlasma.buffer
              /\ begun'[c] = Writes(c, starters).begun /\ written'[c] = Writes(c, starters).written
              /\ flits_remaining'[c] = Handled(c, irqs).remaining /\ reads'[c] = Handled(c, irqs).reads
              /\ gap'[c] = Handled(c, irqs).gap /\ got'[c] = Handled(c, irqs).got
  <2> HIDE DEF Cores
  <2>1. toNI'[c] = Wire(SyncedToNI[c], IntoNoc(c), Done(RouterOf(c)).out[PortOf(c)])
    <3>1. RouterOf(c) \in Routers
      BY Local
    <3> QED BY <3>1, <1>1, <1>5
  <2>2. /\ toCore'[c] = Wire(SyncedToCore[c], ReadsFlit(c), cycleNetworkInterface(c).toPlasma)
        /\ plasma'[c] = cycleNetworkInterface(c).toNoc.buffer
        /\ noc'[c] = cycleNetworkInterface(c).toPlasma.buffer
    BY <1>1, <1>6
  <2>3. /\ fromCore'[c] = Wire(SyncedFromCore[c], IntoPlasma(c),
                               [flit |-> Writes(c, starters).flit, ack |-> SyncedFromCore[c].out_ack])
        /\ begun'[c] = Writes(c, starters).begun /\ written'[c] = Writes(c, starters).written
    BY <1>1, <1>7
  <2>4. /\ flits_remaining'[c] = Handled(c, irqs).remaining /\ reads'[c] = Handled(c, irqs).reads
        /\ gap'[c] = Handled(c, irqs).gap /\ got'[c] = Handled(c, irqs).got
    BY <1>1, <1>8
  <2> QED BY <2>1, <2>2, <2>3, <2>4
<1> QED BY <1>9, <1>10, <1>11

LEMMA WireEnds ==
    ASSUME NEW s \in Links, NEW took, NEW x, NEW w, w = Wire(s, took, x)
    PROVE  w.out = x.flit /\ w.out_ack = x.ack
<1>1. w = [s EXCEPT !.out = x.flit, !.out_ack = x.ack, !.in_ack = s.in_ack \/ took]
  BY DEF Wire
<1> QED BY <1>1 DEF Links

\* What a router has made of its output y is what the writer of a wire may do.
LEMMA RouterWrites ==
    ASSUME NEW s \in Links, NEW y, y = [flit |-> s.out, ack |-> s.out_ack],
           NEW x \in Outputs, x = y \/ Replaces(y, x)
    PROVE  Writer(s, x, s.out, x.flit)
<1>1. y.flit = s.out /\ y.ack = s.out_ack
  OBVIOUS
<1>2. CASE x = y
  BY <1>1, <1>2 DEF Writer
<1>3. CASE Replaces(y, x)
  <2>1. /\ s.out = NoFlit \/ s.out_ack
        /\ ~x.ack
        /\ IF x.flit = NoFlit THEN Ended(s.out) ELSE After(s.out, x.flit)
    BY <1>1, <1>3 DEF Replaces
  <2>2. x.flit \in Shown /\ x.ack = FALSE
    BY <2>1 DEF Outputs
  <2> QED BY <2>1, <2>2 DEF Writer
<1> QED BY <1>2, <1>3

\* The outputs of a router after the cycle.
LEMMA OutsNext ==
    ASSUME PacketInv, NEW starters, NEW irqs, Cycle(starters, irqs), NEW r \in Routers
    PROVE  /\ Outs(r)' = Done(r).out
           /\ Done(r).out \in [Connected(r) -> Outputs]
<1>1. PICK d : d = Done(r)
  OBVIOUS
<1>2. build \in {"BUS", "MESH"} /\ build' = build
  <2>1. build \in {"BUS", "MESH"}
    BY DEF PacketInv
  <2> QED BY <2>1, CycleParts
<1>3. d.out \in [Connected(r) -> Outputs]
  <2>1. RouterState(d.q, d.conn, d.out) \in RouterStates(r)
    BY <1>1, RouterDone DEF Turned
  <2> QED BY <2>1 DEF RouterState, RouterStates
<1>4. ASSUME NEW o \in Connected(r), NEW w, w = WireOut(r, o, toRouter, toNI)'
      PROVE  [flit |-> w.out, ack |-> w.out_ack] = d.out[o]
  <2>1. o \in Ports
    BY <1>2, ConnectedPorts
  <2>2. PICK s, took : s \in Links /\ w = Wire(s, took, d.out[o])
    <3>1. CASE ToInterface(o)
      <4>1. PICK c \in Cores : c = InterfaceAt(r, o) /\ RouterOf(c) = r /\ PortOf(c) = o
        BY <1>2, <2>1, <3>1, LocalPorts
      <4>2. w = toNI'[c]
        BY <1>2, <1>4, <3>1, <4>1, SameBuild DEF WireOut
      <4>3. toNI'[c] = Wire(SyncedToNI[c], IntoNoc(c), Done(RouterOf(c)).out[PortOf(c)])
        BY <1>2, CycleParts
      <4>4. SyncedToNI[c] \in Links
        BY NICrosses DEF Crosses
      <4> QED BY <4>1, <4>2, <4>3, <4>4, <1>1
    <3>2. CASE ~ToInterface(o)
      <4>1. PICK n, p : n = Neighbour(r, o) /\ p = Opposite(o)
        OBVIOUS
      <4>2. /\ n \in Routers /\ p \in Connected(n) /\ p \in Ports /\ ~ToInterface(p)
            /\ Neighbour(n, p) = r /\ Opposite(p) = o
        BY <1>2, <3>2, <4>1, Between
      <4>3. w = toRouter'[n][p]
        BY <1>2, <1>4, <3>2, <4>1, SameBuild DEF WireOut
      <4>4. toRouter'[n][p] = Wire(SyncedToRouter[n][p], p \in Done(n).taken,
                                   IF p \notin Connected(n) THEN [flit |-> NoFlit, ack |-> FALSE]
                                   ELSE IF ToInterface(p) THEN cycleNetworkInterface(InterfaceAt(n, p)).toNoc
                                   ELSE Done(Neighbour(n, p)).out[Opposite(p)])
        BY <1>2, <4>2, CycleParts
      <4>5. SyncedToRouter[n][p] \in Links
        BY <4>2, LinkCrosses DEF Crosses
      <4>6. toRouter'[n][p] = Wire(SyncedToRouter[n][p], p \in Done(n).taken, d.out[o])
        BY <4>2, <4>4, <1>1
      <4> QED BY <4>3, <4>5, <4>6
    <3> QED BY <3>1, <3>2
  <2>3. w.out = d.out[o].flit /\ w.out_ack = d.out[o].ack
    BY <2>2, WireEnds
  <2>4. d.out[o] \in Outputs
    BY <1>3
  <2> QED BY <2>3, <2>4 DEF Outputs
<1>5. Outs(r)' = [o \in Connected(r) |-> LET w == WireOut(r, o, toRouter, toNI)'
                                         IN [flit |-> w.out, ack |-> w.out_ack]]
  BY <1>2, SameBuild DEF Outs, OutputsOf
<1>6. d.out = [o \in Connected(r) |-> d.out[o]]
  BY <1>3
<1>7. Outs(r)' = d.out
  BY <1>4, <1>5, <1>6
<1> QED BY <1>1, <1>3, <1>7

\* The last flit that an input port has: what it took, or what it had.
LEMMA TipNext ==
    ASSUME PacketInv, NEW starters, NEW irqs, Cycle(starters, irqs), NEW r \in Routers, NEW p \in Ports
    PROVE  /\ p \in Done(r).taken => SyncedToRouter[r][p].in # NoFlit
           /\ Same(IF p \in Done(r).taken THEN SyncedToRouter[r][p].in ELSE Tip(r, p), Tip(r, p)')
<1>1. PICK d, x, m : d = Done(r) /\ x = SyncedOuts(r) /\ m = SyncedIns(r)
  OBVIOUS
<1>2. Turned(r, x, m, d)
  BY <1>1, RouterDone
<1>3. m[p] = SyncedToRouter[r][p].in
  BY <1>1 DEF SyncedIns
<1>4. TipOf(queue[r][p], connection[r][p], OutOf(connection[r][p], x)) = Tip(r, p)
  BY <1>1, RouterReady
<1>5. queue'[r] = d.q /\ connection'[r] = d.conn /\ Outs(r)' = d.out
  <2>1. build \in {"BUS", "MESH"}
    BY DEF PacketInv
  <2> QED BY <2>1, <1>1, CycleParts, OutsNext
<1>6. Tip(r, p)' = TipOf(d.q[p], d.conn[p], OutOf(d.conn[p], d.out))
  BY <1>5 DEF Tip, TipOf, OutOf
<1> QED BY <1>1, <1>2, <1>3, <1>4, <1>6 DEF Turned

-----------------------------------------------------------------------------
(* Cores *)

LEMMA Released ==
    ASSUME NEW w \in Links, Sound(w), NEW v, v = Release(w)
    PROVE  /\ v \in Links /\ Sound(v)
           /\ \A e, m : Flow(e, w, m) => Flow(e, v, m)
<1>1. CASE w.out_ack
  <2>1. v = [w EXCEPT !.out = NoFlit, !.out_ack = FALSE]
    BY <1>1 DEF Release
  <2>2. v \in Links /\ v.out = NoFlit /\ v.out_ack = FALSE /\ v.in = w.in /\ v.in_ack = w.in_ack
    BY <2>1 DEF Links, Shown
  <2>3. w.in = NoFlit /\ ~w.in_ack
    BY <1>1 DEF Sound
  <2>4. ~Waits(w) /\ ~Waits(v)
    BY <1>1, <2>2 DEF Waits
  <2> QED BY <2>2, <2>3, <2>4 DEF Sound, Flow
<1>2. CASE ~w.out_ack
  BY <1>2 DEF Release
<1> QED BY <1>1, <1>2

\* What comes over a wire is what was put on it last.
LEMMA FlowArrives ==
    ASSUME NEW w, NEW e, NEW m, Flow(e, w, m), NEW s, Crosses(w, s), s.in # NoFlit
    PROVE  s.in = m /\ m \in Flits /\ After(e, m)
<1>1. Waits(w) /\ s.in = w.out /\ s \in Links
  BY DEF Crosses
<1>2. w.out = m /\ After(e, m)
  BY <1>1 DEF Flow
<1> QED BY <1>1, <1>2 DEF Links, Shown

LEMMA MarkType ==
    ASSUME NEW c \in Cores, SendInv(c)
    PROVE  /\ written[c] > 0 => Mark(c) = Flit(c, begun[c], written[c]) /\ Mark(c) \in Flits /\ Mark(c).pos = written[c]
           /\ written[c] = 0 => Mark(c) = NoFlit
<1>1. SUFFICES ASSUME written[c] > 0
               PROVE  Mark(c) = Flit(c, begun[c], written[c]) /\ Mark(c) \in Flits /\ Mark(c).pos = written[c]
  BY DEF Mark
<1>2. written[c] \in 1 .. NI_BUFFER_LENGTH /\ begun[c] \in Nat /\ begun[c] \in 1 .. Len(Traffic[c])
  BY <1>1 DEF SendInv
<1>3. Mark(c) = [from |-> c, number |-> begun[c], pos |-> written[c]]
  BY <1>2 DEF Mark, Flit
<1> QED BY <1>2, <1>3 DEF Flits, Flit

LEMMA FlitAfter ==
    ASSUME NEW c, NEW n, NEW k \in Nat
    PROVE  Flit(c, n, k + 1) = [Flit(c, n, k) EXCEPT !.pos = @ + 1]
<1>1. PICK f : f = [from |-> c, number |-> n, pos |-> k]
  OBVIOUS
<1>2. f.pos = k /\ f.pos + 1 = k + 1
  BY <1>1
<1>3. [f EXCEPT !.pos = f.pos + 1] = [from |-> c, number |-> n, pos |-> f.pos + 1]
  BY <1>1
<1> QED BY <1>1, <1>2, <1>3 DEF Flit

\* What a core writes.
LEMMA CoreWrites ==
    ASSUME NEW c \in Cores, SendInv(c), NEW starters, c \in starters => MayStart(c),
           NEW s, s = SyncedFromCore[c], s \in Links, Sound(s),
           NEW x, x = Writes(c, starters),
           NEW m1, m1 = IF x.written = 0 THEN NoFlit ELSE Flit(c, x.begun, x.written)
    PROVE  /\ Writer(s, [flit |-> x.flit, ack |-> s.out_ack], Mark(c), m1)
           /\ x.begun \in Nat /\ x.written \in 0 .. NI_BUFFER_LENGTH
           /\ x.written > 0 => x.begun \in 1 .. Len(Traffic[c])
<1>1. /\ begun[c] \in Nat /\ written[c] \in 0 .. NI_BUFFER_LENGTH
      /\ written[c] > 0 => begun[c] \in 1 .. Len(Traffic[c])
  BY DEF SendInv
<1>2. PICK y : y = [flit |-> x.flit, ack |-> s.out_ack]
  OBVIOUS
<1>3. y.flit = x.flit /\ y.ack = s.out_ack
  BY <1>2
<1>4. CASE s.out # NoFlit
  <2>1. x = [flit |-> s.out, begun |-> begun[c], written |-> written[c]]
    BY <1>4 DEF Writes, Stalled, NoWrite
  <2>2. m1 = Mark(c)
    BY <2>1 DEF Mark
  <2>3. y = [flit |-> s.out, ack |-> s.out_ack]
    BY <1>2, <2>1
  <2>4. Writer(s, y, Mark(c), m1)
    BY <2>2, <2>3 DEF Writer
  <2> QED BY <2>1, <2>4, <1>1, <1>2
<1>5. CASE s.out = NoFlit
  <2>1. ~Stalled(c)
    BY <1>5 DEF Stalled
  <2>2. y.ack = FALSE
    BY <1>3, <1>5 DEF Sound, Links
  <2>3. CASE c \in starters
    <3>1. x = [flit |-> Flit(c, begun[c] + 1, 1), begun |-> begun[c] + 1, written |-> 1]
      BY <2>1, <2>3 DEF Writes, NocWrite
    <3>2. written[c] = 0 /\ begun[c] + 1 \in 1 .. Len(Traffic[c])
      <4>1. ~(written[c] > 0) /\ begun[c] < Len(Traffic[c])
        BY <2>3 DEF MayStart, InWrite
      <4>2. Len(Traffic[c]) \in Nat
        <5>1. Traffic[c] \in Seq(Cores)
          OBVIOUS
        <5> HIDE DEF Cores
        <5> QED BY <5>1, LenProperties
      <4> QED BY <4>1, <4>2, <1>1
    <3>3. m1 = Flit(c, begun[c] + 1, 1) /\ x.flit = m1
      BY <3>1
    <3>4. m1 = [from |-> c, number |-> begun[c] + 1, pos |-> 1] /\ m1 \in Flits
      BY <3>2, <3>3 DEF Flit, Flits
    <3>5. m1 # NoFlit /\ m1.pos = 1
      BY <3>4, FlitType
    <3>6. After(Mark(c), m1)
      <4>1. Mark(c) = NoFlit
        BY <3>2, MarkType
      <4> QED BY <4>1, <3>5 DEF After, Ended
    <3>7. Writer(s, y, Mark(c), m1)
      BY <3>3, <3>4, <3>6, <2>2, <1>3, <1>5 DEF Writer, Shown
    <3> QED BY <3>1, <3>2, <3>7, <1>1, <1>2
  <2>4. CASE c \notin starters /\ written[c] \in 1 .. NI_BUFFER_LENGTH - 1
    <3>1. x = [flit |-> Flit(c, begun[c], written[c] + 1), begun |-> begun[c], written |-> written[c] + 1]
      BY <2>1, <2>4 DEF Writes, NocWrite
    <3>2. written[c] + 1 \in 1 .. NI_BUFFER_LENGTH /\ written[c] > 0 /\ written[c] # NI_BUFFER_LENGTH
      BY <2>4, <1>1
    <3>3. x.written = written[c] + 1 /\ x.written # 0 /\ x.begun = begun[c] /\ x.flit = Flit(c, begun[c], written[c] + 1)
      BY <3>1, <3>2
    <3>4. m1 = [from |-> c, number |-> begun[c], pos |-> written[c] + 1] /\ x.flit = m1
      BY <3>3 DEF Flit
    <3>5. m1 \in Flits
      BY <3>2, <3>4, <1>1 DEF Flits
    <3>6. Mark(c) = [from |-> c, number |-> begun[c], pos |-> written[c]] /\ Mark(c) \in Flits
      BY <3>2, MarkType DEF Flit
    <3>7. ~Ended(Mark(c))
      <4>1. Mark(c) # NoFlit
        BY <3>6, FlitType
      <4> QED BY <4>1, <3>2, <3>6 DEF Ended
    <3>8. m1 = [Mark(c) EXCEPT !.pos = @ + 1] /\ m1 # NoFlit
      <4>1. Mark(c) = Flit(c, begun[c], written[c]) /\ m1 = Flit(c, begun[c], written[c] + 1)
        BY <3>4, <3>6 DEF Flit
      <4>2. m1 # NoFlit
        BY <3>5, FlitType
      <4> QED BY <4>1, <4>2, <1>1, FlitAfter
    <3>9. After(Mark(c), m1)
      BY <3>7, <3>8 DEF After
    <3>10. Writer(s, y, Mark(c), m1)
      BY <3>4, <3>5, <3>9, <2>2, <1>3, <1>5 DEF Writer, Shown
    <3> QED BY <3>2, <3>3, <3>10, <1>1, <1>2
  <2>5. CASE c \notin starters /\ written[c] \notin 1 .. NI_BUFFER_LENGTH - 1
    <3>1. x = [NoWrite(c) EXCEPT !.written = 0]
      BY <2>1, <2>5 DEF Writes
    <3>2. x.flit = NoFlit /\ x.begun = begun[c] /\ x.written = 0
      BY <3>1, <1>5 DEF NoWrite
    <3>3. m1 = NoFlit /\ y.flit = NoFlit
      BY <3>2, <1>3
    <3>4. Ended(Mark(c))
      <4>1. written[c] = 0 \/ written[c] = NI_BUFFER_LENGTH
        BY <2>5, <1>1
      <4>2. written[c] = NI_BUFFER_LENGTH => written[c] > 0
        OBVIOUS
      <4> QED BY <4>1, <4>2, MarkType DEF Ended
    <3>5. Writer(s, y, Mark(c), m1)
      BY <3>3, <3>4, <2>2, <1>5 DEF Writer, Shown
    <3>6. 0 \in 0 .. NI_BUFFER_LENGTH
      OBVIOUS
    <3> QED BY <3>2, <3>5, <3>6, <1>1, <1>2
  <2> QED BY <2>3, <2>4, <2>5
<1> QED BY <1>4, <1>5

\* A core and its interface, towards the router.
LEMMA NextSend ==
    ASSUME PacketInv, NEW starters, NEW irqs, Cycle(starters, irqs), NEW c \in Cores, c \in starters => MayStart(c)
    PROVE  /\ SendInv(c)'
           /\ LocalWire(c)' \in Links
<1>1. build \in {"BUS", "MESH"} /\ build' = build
  <2>1. build \in {"BUS", "MESH"}
    BY DEF PacketInv
  <2> QED BY <2>1, CycleParts
<1>2. PICK r, p : r = RouterOf(c) /\ p = PortOf(c)
  OBVIOUS
<1>3. r \in Routers /\ p \in Connected(r) /\ p \in Ports /\ ToInterface(p) /\ InterfaceAt(r, p) = c
  BY <1>1, <1>2, Local
<1>4. PICK w, s, w1, took : /\ w = toRouter[r][p] /\ s = SyncedToRouter[r][p] /\ w1 = toRouter'[r][p]
                            /\ took = (p \in Done(r).taken)
  OBVIOUS
<1>5. PICK v, t, put : v = Release(fromCore[c]) /\ t = SyncedFromCore[c] /\ put = IntoPlasma(c)
  OBVIOUS
<1>6. PICK e, e1, b, b1, o : /\ e = LocalTip(c) /\ e1 = Tip(r, p)' /\ b = plasma[c] /\ b1 = plasma'[c]
                             /\ o = cycleNetworkInterface(c).toNoc
  OBVIOUS
<1>7. /\ SendInv(c) /\ b \in Seq(Flits) /\ fromCore[c] \in Links /\ Sound(fromCore[c])
      /\ Offered(b, w) /\ Chain(e, Rest(b, w)) /\ Flow(End(e, Rest(b, w)), fromCore[c], Mark(c))
  BY <1>2, <1>4, <1>6 DEF PacketInv, SendInv, LocalWire
<1>8. LocalWire(c)' = w1 /\ LocalTip(c)' = e1
  <2>1. RouterOf(c)' = r /\ PortOf(c)' = p
    BY <1>1, <1>2, SameBuild
  <2> QED BY <2>1, <1>4, <1>6 DEF LocalWire, LocalTip, Tip
<1>9. v \in Links /\ Sound(v) /\ Flow(End(e, Rest(b, w)), v, Mark(c))
  BY <1>5, <1>7, Released
<1>10. Crosses(v, t)
  <2>1. t = synchronizePorts(v)
    BY <1>5 DEF SyncedFromCore
  <2> QED BY <2>1, <1>9, Synced
<1>11. t.in # NoFlit => t.in \in Flits /\ After(End(e, Rest(b, w)), t.in)
  BY <1>9, <1>10, FlowArrives
<1>12. w \in Links /\ Crosses(w, s)
  BY <1>3, <1>4, LinkCrosses
<1>13. (took => s.in # NoFlit) /\ Same(IF took THEN s.in ELSE e, e1)
  BY <1>2, <1>3, <1>4, <1>6, TipNext DEF LocalTip
<1>14. put => t.in # NoFlit
  BY <1>5 DEF IntoPlasma
<1>15. o = Offer(IF put THEN Append(b, t.in) ELSE b, s)
  BY <1>2, <1>4, <1>5, <1>6 DEF cycleNetworkInterface
<1>16. w1 = Wire(s, took, o) /\ b1 = o.buffer
  BY <1>1, <1>3, <1>4, <1>6, CycleParts
<1>17. put \in BOOLEAN /\ took \in BOOLEAN
  BY <1>4, <1>5 DEF IntoPlasma
<1>18. /\ b1 \in Seq(Flits) /\ w1 \in Links /\ Offered(b1, w1) /\ Chain(e1, Rest(b1, w1))
       /\ Same(IF put THEN t.in ELSE End(e, Rest(b, w)), End(e1, Rest(b1, w1)))
  <2>1. put => t.in \in Flits /\ After(End(e, Rest(b, w)), t.in)
    BY <1>11, <1>14
  <2> HIDE NoCAssumption
  <2> HIDE DEF Flits
  <2>2. /\ o.buffer \in Seq(Flits) /\ w1 \in Links /\ Offered(o.buffer, w1) /\ Chain(e1, Rest(o.buffer, w1))
        /\ Same(IF put THEN t.in ELSE End(e, Rest(b, w)), End(e1, Rest(o.buffer, w1)))
    <3>1. Buffers(Flits, b, w, e, s, put, t.in, took, e1, o, w1)
      BY <2>1, <1>7, <1>12, <1>13, <1>15, <1>16, <1>17 DEF Buffers
    <3> QED BY <3>1, BufferStep
  <2> QED BY <2>2, <1>16
<1>19. PICK x, y, v1, m1 : /\ x = Writes(c, starters) /\ y = [flit |-> x.flit, ack |-> t.out_ack] /\ v1 = fromCore'[c]
                           /\ m1 = IF x.written = 0 THEN NoFlit ELSE Flit(c, x.begun, x.written)
  OBVIOUS
<1>20. t \in Links /\ Sound(t)
  BY <1>10 DEF Crosses
<1>21. /\ Writer(t, y, Mark(c), m1) /\ x.begun \in Nat /\ x.written \in 0 .. NI_BUFFER_LENGTH
       /\ x.written > 0 => x.begun \in 1 .. Len(Traffic[c])
  BY <1>5, <1>7, <1>19, <1>20, CoreWrites
<1>22. begun'[c] = x.begun /\ written'[c] = x.written /\ v1 = Wire(t, put, y)
  BY <1>1, <1>5, <1>19, CycleParts
<1>23. v1 \in Links /\ Sound(v1) /\ Flow(End(e1, Rest(b1, w1)), v1, m1)
  BY <1>9, <1>10, <1>14, <1>17, <1>18, <1>21, <1>22, FlowStep
<1>24. Mark(c)' = m1
  BY <1>19, <1>22 DEF Mark, Flit
<1>25. SendInv(c)'
  BY <1>6, <1>8, <1>18, <1>19, <1>21, <1>22, <1>23, <1>24 DEF SendInv
<1> QED BY <1>8, <1>18, <1>25

\* What is at the other end of a wire into a router.
LEMMA LinkNext ==
    ASSUME PacketInv, NEW starters, NEW irqs, Cycle(starters, irqs), \A c \in Cores : c \in starters => MayStart(c),
           NEW r \in Routers, NEW p \in Ports
    PROVE  LinkInv(r, p)'
<1>1. build \in {"BUS", "MESH"} /\ build' = build
  <2>1. build \in {"BUS", "MESH"}
    BY DEF PacketInv
  <2> QED BY <2>1, CycleParts
<1>2. PICK w, s, w1, took, e, e1 : /\ w = toRouter[r][p] /\ s = SyncedToRouter[r][p] /\ w1 = toRouter'[r][p]
                                   /\ took = (p \in Done(r).taken) /\ e = Tip(r, p) /\ e1 = Tip(r, p)'
  OBVIOUS
<1>3. LinkInv(r, p) /\ w \in Links /\ Sound(w) /\ Crosses(w, s)
  BY <1>2, LinkCrosses DEF PacketInv, RouterInv
<1>4. (took => s.in # NoFlit) /\ Same(IF took THEN s.in ELSE e, e1)
  BY <1>2, TipNext
<1>5. w1 = Wire(s, took, IF p \notin Connected(r) THEN [flit |-> NoFlit, ack |-> FALSE]
                         ELSE IF ToInterface(p) THEN cycleNetworkInterface(InterfaceAt(r, p)).toNoc
                         ELSE Done(Neighbour(r, p)).out[Opposite(p)])
  BY <1>1, <1>2, CycleParts
<1>6. Connected(r)' = Connected(r) /\ ToInterface(p)' = ToInterface(p)
  BY <1>1, SameBuild
<1>7. CASE p \notin Connected(r)
  <2>1. w = cleanPort
    BY <1>2, <1>3, <1>7 DEF LinkInv
  <2>2. s = cleanPort
    <3>1. s = synchronizePorts(w)
      BY <1>2 DEF SyncedToRouter
    <3>2. w.out = NoFlit
      BY <2>1 DEF cleanPort
    <3> QED BY <3>1, <3>2, <2>1 DEF synchronizePorts
  <2>3. ~took
    BY <1>4, <2>2 DEF cleanPort
  <2>4. w1 = Wire(cleanPort, FALSE, [flit |-> NoFlit, ack |-> FALSE])
    <3>1. took = FALSE
      BY <2>3, <1>2
    <3> QED BY <3>1, <1>5, <1>7, <2>2
  <2>5. w1 = cleanPort
    BY <2>4 DEF Wire, cleanPort
  <2> QED BY <1>2, <1>3, <1>6, <1>7, <2>1, <2>5 DEF LinkInv
<1>8. CASE p \in Connected(r) /\ ToInterface(p)
  <2>1. PICK c \in Cores : RouterOf(c) = r /\ PortOf(c) = p
    BY <1>1, <1>8, LocalPorts
  <2>2. SendInv(c)' /\ LocalWire(c)' \in Links
    BY <2>1, NextSend
  <2>3. LocalWire(c)' = w1
    <3>1. RouterOf(c)' = r /\ PortOf(c)' = p
      BY <1>1, <2>1, SameBuild
    <3> QED BY <3>1, <1>2 DEF LocalWire
  <2>4. Offered(plasma'[c], w1)
    BY <2>2, <2>3 DEF SendInv
  <2> QED BY <1>2, <1>6, <1>8, <2>2, <2>3, <2>4 DEF LinkInv, Offered
<1>9. CASE p \in Connected(r) /\ ~ToInterface(p)
  <2>1. PICK n, o : n = Neighbour(r, p) /\ o = Opposite(p)
    OBVIOUS
  <2>2. n \in Routers /\ o \in Connected(n) /\ ~ToInterface(o) /\ Neighbour(n, o) = r /\ Opposite(o) = p
    BY <1>1, <1>9, <2>1, Between
  <2>3. PICK x, y : x = Done(n).out[o] /\ y = SyncedOuts(n)[o]
    OBVIOUS
  <2>4. y = [flit |-> s.out, ack |-> s.out_ack]
    BY <1>2, <2>2, <2>3 DEF SyncedOuts, OutputsOf, WireOut
  <2>5. x \in Outputs /\ (x = y \/ Replaces(y, x))
    <3>1. x \in Outputs
      BY <2>2, <2>3, OutsNext
    <3>2. Turned(n, SyncedOuts(n), SyncedIns(n), Done(n))
      BY <2>2, RouterDone
    <3> QED BY <3>1, <3>2, <2>2, <2>3 DEF Turned
  <2>6. s \in Links /\ s.out = w.out
    BY <1>3 DEF Crosses
  <2>7. Writer(s, x, w.out, x.flit)
    BY <2>4, <2>5, <2>6, RouterWrites
  <2>8. Flow(e, w, w.out)
    BY <1>2, <1>3, <1>9 DEF LinkInv
  <2>9. w1 = Wire(s, took, x) /\ took \in BOOLEAN
    BY <1>2, <1>5, <1>9, <2>1, <2>3
  <2>10. w1 \in Links /\ Sound(w1) /\ Flow(e1, w1, x.flit)
    BY <1>3, <1>4, <2>7, <2>8, <2>9, FlowStep
  <2>11. w1.out = x.flit
    BY <2>6, <2>9, WireEnds
  <2> QED BY <1>2, <1>6, <1>9, <2>10, <2>11 DEF LinkInv
<1> QED BY <1>7, <1>8, <1>9

LEMMA NextRouter ==
    ASSUME PacketInv, NEW starters, NEW irqs, Cycle(starters, irqs), \A c \in Cores : c \in starters => MayStart(c),
           NEW r \in Routers
    PROVE  RouterInv(r)'
<1>1. build \in {"BUS", "MESH"} /\ build' = build
  <2>1. build \in {"BUS", "MESH"}
    BY DEF PacketInv
  <2> QED BY <2>1, CycleParts
<1>2. PICK q, conn, out : q = Done(r).q /\ conn = Done(r).conn /\ out = Done(r).out
  OBVIOUS
<1>3. queue'[r] = q /\ connection'[r] = conn /\ Outs(r)' = out
  BY <1>1, <1>2, CycleParts, OutsNext
<1>4. Turned(r, SyncedOuts(r), SyncedIns(r), Done(r))
  BY RouterDone
<1>5. RouterState(q, conn, out) \in RouterStates(r) /\ RouterOK(r, q, conn, out)
  BY <1>2, <1>4 DEF Turned
<1>6. q \in [Ports -> Seq(Flits)] /\ conn \in [Ports -> Conns] /\ out \in [Connected(r) -> Outputs]
  BY <1>5 DEF RouterState, RouterStates
<1>7. RouterOK(r, q, conn, out)'
  BY <1>1, <1>5, SameRouter
<1>8. Ports' = Ports /\ Connected(r)' = Connected(r)
  BY <1>1, SameBuild
<1>9. \A p \in Ports : LinkInv(r, p)'
  BY LinkNext
<1>10. RouterOK(r, queue[r], connection[r], Outs(r))'
  BY <1>3, <1>7
<1> QED BY <1>3, <1>6, <1>8, <1>9, <1>10 DEF RouterInv

-----------------------------------------------------------------------------
(* The interrupt handler *)

\* The flits of a packet are numbered, and of one packet.
LEMMA Numbered ==
    ASSUME NEW q \in Seq(Flits), Chain(NoFlit, q), Len(q) <= NI_BUFFER_LENGTH, NEW k \in 1 .. Len(q)
    PROVE  q[k].pos = k /\ q[k] = [q[1] EXCEPT !.pos = k]
<1> DEFINE Good == {i \in Nat : i + 1 <= Len(q) => q[i + 1].pos = i + 1 /\ q[i + 1] = [q[1] EXCEPT !.pos = i + 1]}
<1>1. Len(q) \in Nat /\ \A i \in 1 .. Len(q) : q[i] \in Flits
  <2> HIDE DEF Flits
  <2> QED BY LenProperties, ElementOfSeq
<1>2. 0 \in Good
  <2> SUFFICES ASSUME 1 <= Len(q) PROVE q[1].pos = 1 /\ q[1] = [q[1] EXCEPT !.pos = 1]
    BY <1>1
  <2>1. 1 \in 1 .. Len(q)
    BY <1>1
  <2>2. After(NoFlit, q[1])
    BY <2>1 DEF Chain
  <2>3. q[1].pos = 1
    BY <2>2 DEF After, Ended
  <2>4. q[1] \in [from : Cores, number : Nat, pos : 1 .. NI_BUFFER_LENGTH]
    BY <2>1, <1>1 DEF Flits
  <2> QED BY <2>3, <2>4
<1>3. ASSUME NEW i \in Nat, i \in Good PROVE i + 1 \in Good
  <2> SUFFICES ASSUME (i + 1) + 1 <= Len(q)
               PROVE  /\ q[(i + 1) + 1].pos = (i + 1) + 1
                      /\ q[(i + 1) + 1] = [q[1] EXCEPT !.pos = (i + 1) + 1]
    OBVIOUS
  <2>1. i + 1 <= Len(q) /\ i + 1 \in 1 .. Len(q) /\ (i + 1) + 1 \in 1 .. Len(q) /\ 1 \in 1 .. Len(q)
        /\ i + 1 # NI_BUFFER_LENGTH /\ (i + 1) + 1 # 1 /\ ((i + 1) + 1) - 1 = i + 1
    BY <1>1
  <2>2. PICK f, g, h : f = q[1] /\ g = q[i + 1] /\ h = q[(i + 1) + 1]
    OBVIOUS
  <2>3. f \in Flits /\ g \in Flits /\ g.pos = i + 1 /\ g = [f EXCEPT !.pos = i + 1]
    BY <2>1, <2>2, <1>1, <1>3
  <2>4. After(g, h)
    BY <2>1, <2>2 DEF Chain
  <2>5. ~Ended(g)
    BY <2>1, <2>3, FlitType DEF Ended
  <2>6. h = [g EXCEPT !.pos = (i + 1) + 1]
    BY <2>3, <2>4, <2>5 DEF After
  <2>7. f \in [from : Cores, number : Nat, pos : 1 .. NI_BUFFER_LENGTH]
    BY <2>3 DEF Flits
  <2> QED BY <2>2, <2>3, <2>6, <2>7
<1>4. Nat \subseteq Good
  <2> HIDE DEF Good
  <2> QED BY <1>2, <1>3, Induct
<1>5. k - 1 \in Nat /\ (k - 1) + 1 = k /\ k <= Len(q)
  BY <1>1
<1>6. k - 1 \in Good
  BY <1>4, <1>5
<1> QED BY <1>5, <1>6

LEMMA GotLength ==
    ASSUME NEW c \in Cores, ReceiveInv(c)
    PROVE  /\ got[c] \in Seq(Flits) /\ Len(got[c]) \in 0 .. NI_BUFFER_LENGTH
           /\ reads[c] = 0 => Ended(End(NoFlit, got[c]))
<1>1. got[c] \in Seq(For(c)) /\ For(c) \subseteq Flits /\ Chain(NoFlit, got[c]) /\ HandlerInv(c)
  BY DEF ReceiveInv, For
<1>2. got[c] \in Seq(Flits) /\ Len(got[c]) \in Nat
  <2> HIDE DEF Flits, For
  <2>1. \A i \in 1 .. Len(got[c]) : got[c][i] \in Flits
    BY <1>1, ElementOfSeq
  <2> QED BY <1>1, <2>1, LenProperties, IsASeq
<1>3. Len(got[c]) \in 0 .. NI_BUFFER_LENGTH
  <2>1. CASE reads[c] = 0
    BY <2>1, <1>1 DEF HandlerInv
  <2>2. CASE reads[c] \in 1 .. NI_BUFFER_LENGTH
    BY <2>2, <1>1 DEF HandlerInv
  <2>3. CASE reads[c] = NI_BUFFER_LENGTH + 1
    BY <2>3, <1>1 DEF HandlerInv
  <2> QED BY <2>1, <2>2, <2>3, <1>1 DEF HandlerInv
<1>4. ASSUME reads[c] = 0 PROVE Ended(End(NoFlit, got[c]))
  <2>1. Len(got[c]) \in {0, NI_BUFFER_LENGTH}
    BY <1>1, <1>4 DEF HandlerInv
  <2>2. CASE got[c] = << >>
    BY <2>2 DEF End, Ended
  <2>3. CASE got[c] # << >>
    <3>1. Len(got[c]) = NI_BUFFER_LENGTH /\ NI_BUFFER_LENGTH \in 1 .. Len(got[c])
      BY <2>1, <2>3, <1>2, EmptySeq
    <3>2. got[c][NI_BUFFER_LENGTH].pos = NI_BUFFER_LENGTH
      <4>1. PICK q, k : q = got[c] /\ k = NI_BUFFER_LENGTH
        OBVIOUS
      <4>2. q \in Seq(Flits) /\ Chain(NoFlit, q) /\ Len(q) <= NI_BUFFER_LENGTH /\ k \in 1 .. Len(q)
        BY <4>1, <3>1, <1>1, <1>2
      <4>3. q[k].pos = k
        BY <4>2, Numbered
      <4> QED BY <4>1, <4>3
    <3> QED BY <3>1, <3>2, <2>3 DEF End, Ended
  <2> QED BY <2>2, <2>3
<1> QED BY <1>2, <1>3, <1>4

\* A flit on the wire from a router to an interface is for its core.
LEMMA ForTheCore ==
    ASSUME PacketInv, NEW c \in Cores, toNI[c].out \in Flits
    PROVE  toNI[c].out \in For(c)
<1>1. build \in {"BUS", "MESH"}
  BY DEF PacketInv
<1>2. PICK r, p, f : r = RouterOf(c) /\ p = PortOf(c) /\ f = toNI[c].out
  OBVIOUS
<1>3. r \in Routers /\ p \in Connected(r) /\ ToInterface(p) /\ InterfaceAt(r, p) = c
  BY <1>1, <1>2, Local
<1>4. Outs(r)[p].flit = f
  BY <1>2, <1>3 DEF Outs, OutputsOf, WireOut
<1>5. f # NoFlit /\ f \in Flits
  BY <1>2, FlitType
<1>6. RouterOK(r, queue[r], connection[r], Outs(r))
  BY <1>3 DEF PacketInv, RouterInv
<1>7. PICK i \in Ports : connection[r][i].status \in Sending /\ connection[r][i].redirect_to = p
  BY <1>3, <1>4, <1>5, <1>6 DEF RouterOK
<1>8. PortOK(r, queue[r][i], connection[r][i], f)
  <2>1. OutOf(connection[r][i], Outs(r)) = f
    BY <1>4, <1>7 DEF OutOf
  <2> QED BY <2>1, <1>6 DEF RouterOK
<1>9. p = Direction(r, f)
  BY <1>7, <1>8 DEF PortOK
<1>10. Target(f) = c
  BY <1>1, <1>3, <1>5, <1>9, Leads
<1> QED BY <1>2, <1>5, <1>10 DEF For

\* What the handler does in a cycle: t is the wire to the core, e the last flit
\* it has read.
LEMMA HandlerReads ==
    ASSUME PacketInv, NEW c \in Cores, NEW irqs, c \in irqs => MayInterrupt(c),
           NEW t, t = SyncedToCore[c], Crosses(toCore[c], t), t.in \in For(c) \/ t.in = NoFlit,
           t.in # NoFlit => After(End(NoFlit, got[c]), t.in),
           NEW h, h = Handled(c, irqs), NEW n \in Nat,
           n >= Len(Rest(noc[c], toCore[c])) - (IF ReadsFlit(c) THEN 1 ELSE 0)
    PROVE  /\ h.got \in Seq(For(c)) /\ Chain(NoFlit, h.got)
           /\ Same(IF ReadsFlit(c) THEN t.in ELSE End(NoFlit, got[c]), End(NoFlit, h.got))
           /\ h.reads \in 0 .. NI_BUFFER_LENGTH + 1 /\ h.gap \in 0 .. READ_GAP - 1
           /\ h.remaining = h.reads
           /\ h.reads = NI_BUFFER_LENGTH + 1 => h.got = << >>
           /\ h.reads \in 1 .. NI_BUFFER_LENGTH => Len(h.got) = NI_BUFFER_LENGTH - h.reads
           /\ h.reads = 0 => Len(h.got) \in {0, NI_BUFFER_LENGTH}
           /\ h.reads > 0 => n >= NI_BUFFER_LENGTH - Len(h.got)
           /\ ReadsFlit(c) => h.gap >= 1
<1>1. PICK w, b, g, e, m : /\ w = toCore[c] /\ b = noc[c] /\ g = got[c] /\ e = End(NoFlit, got[c])
                           /\ m = Len(Rest(noc[c], toCore[c]))
  OBVIOUS
<1>2. /\ b \in Seq(For(c)) /\ g \in Seq(For(c)) /\ w \in Links /\ Offered(b, w) /\ Chain(NoFlit, g)
      /\ HandlerInv(c) /\ ReceiveInv(c) /\ m = Len(Rest(b, w))
  BY <1>1 DEF PacketInv, ReceiveInv
<1>3. /\ reads[c] \in 0 .. NI_BUFFER_LENGTH + 1 /\ gap[c] \in 0 .. READ_GAP - 1
      /\ flits_remaining[c] = reads[c]
      /\ reads[c] = NI_BUFFER_LENGTH + 1 => g = << >>
      /\ reads[c] \in 1 .. NI_BUFFER_LENGTH => Len(g) = NI_BUFFER_LENGTH - reads[c]
      /\ reads[c] = 0 => Len(g) \in {0, NI_BUFFER_LENGTH}
      /\ reads[c] > 0 => m >= NI_BUFFER_LENGTH - Len(g)
      /\ w.in_ack => gap[c] >= 1
  BY <1>1, <1>2 DEF HandlerInv
<1>4. READ_GAP - 1 \in 0 .. READ_GAP - 1 /\ READ_GAP - 1 >= 1
  OBVIOUS
<1>5. Len(g) \in 0 .. NI_BUFFER_LENGTH /\ (reads[c] = 0 => Ended(e)) /\ Len(b) \in Nat
  <2>1. Len(b) \in Nat
    <3> HIDE DEF For
    <3> QED BY <1>2, LenProperties
  <2> QED BY <2>1, <1>1, <1>2, GotLength
<1>6. ~w.in_ack => m = Len(b)
  BY <1>2 DEF Rest
<1>7. << >> \in Seq(For(c)) /\ Chain(NoFlit, << >>) /\ End(NoFlit, << >>) = NoFlit /\ Len(<< >>) = 0
  BY DEF Chain, End
<1>8. CASE c \in irqs
  <2>1. h = [remaining |-> NI_BUFFER_LENGTH + 1, reads |-> NI_BUFFER_LENGTH + 1, gap |-> READ_GAP - 1, got |-> << >>]
    BY <1>8 DEF Handled
  <2>2. /\ reads[c] = 0 /\ gap[c] = 0 /\ Len(b) = NI_BUFFER_LENGTH
    BY <1>1, <1>3, <1>8 DEF MayInterrupt, InHandler, Raises, isFull
  <2>3. ~ReadsFlit(c) /\ ~w.in_ack
    BY <2>2, <1>3 DEF ReadsFlit, Reading
  <2>4. n >= NI_BUFFER_LENGTH
    BY <2>2, <2>3, <1>1, <1>6
  <2>5. Same(e, NoFlit)
    BY <2>2, <1>5 DEF Same, Ended
  <2>6. h.remaining = NI_BUFFER_LENGTH + 1 /\ h.reads = NI_BUFFER_LENGTH + 1 /\ h.gap = READ_GAP - 1 /\ h.got = << >>
    BY <2>1
  <2> HIDE DEF For
  <2> QED BY <2>3, <2>4, <2>5, <2>6, <1>1, <1>4, <1>7
<1>9. CASE c \notin irqs /\ Reading(c) /\ StartsInterface(c)
  <2>1. ~ReadsFlit(c) /\ reads[c] = NI_BUFFER_LENGTH + 1 /\ g = << >>
    BY <1>3, <1>9 DEF ReadsFlit, StartsInterface
  <2>2. h = [remaining |-> flits_remaining[c] - 1, reads |-> reads[c] - 1, gap |-> READ_GAP - 1, got |-> << >>]
    BY <1>9 DEF Handled
  <2>3. h.remaining = NI_BUFFER_LENGTH /\ h.reads = NI_BUFFER_LENGTH /\ h.gap = READ_GAP - 1 /\ h.got = << >>
    BY <2>1, <2>2, <1>3
  <2>4. n >= NI_BUFFER_LENGTH
    BY <2>1, <1>1, <1>3, <1>7
  <2>5. Same(e, NoFlit)
    BY <2>1, <1>1, <1>7 DEF Same
  <2> HIDE DEF For
  <2> QED BY <2>1, <2>3, <2>4, <2>5, <1>1, <1>4, <1>7
<1>10. CASE c \notin irqs /\ Reading(c) /\ ~StartsInterface(c)
  <2>1. reads[c] \in 1 .. NI_BUFFER_LENGTH /\ gap[c] = 0 /\ ~w.in_ack /\ Len(g) = NI_BUFFER_LENGTH - reads[c]
    BY <1>3, <1>10 DEF Reading, StartsInterface
  <2>2. m = Len(b) /\ m >= reads[c]
    BY <2>1, <1>3, <1>6
  <2>3. b # << >>
    BY <2>1, <2>2, <1>7
  <2>4. t.in # NoFlit
    <3>1. w.out = Head(b) /\ ~w.out_ack
      BY <2>3, <1>2 DEF Offered
    <3>2. Head(b) # NoFlit
      <4>1. Head(b) \in For(c)
        <5> HIDE DEF For
        <5> QED BY <2>3, <1>2, HeadTailProperties
      <4> QED BY <4>1, FlitType DEF For
    <3>3. Waits(w)
      BY <3>1, <3>2, <2>1 DEF Waits
    <3> QED BY <3>3, <1>1 DEF Crosses
  <2>5. ReadsFlit(c)
    BY <2>4, <1>10 DEF ReadsFlit
  <2>6. h = [remaining |-> flits_remaining[c] - 1, reads |-> reads[c] - 1, gap |-> READ_GAP - 1,
             got |-> Append(g, t.in)]
    BY <2>5, <1>1, <1>10 DEF Handled
  <2>7. h.remaining = reads[c] - 1 /\ h.reads = reads[c] - 1 /\ h.gap = READ_GAP - 1 /\ h.got = Append(g, t.in)
    BY <2>6, <1>3
  <2>8. h.got \in Seq(For(c)) /\ Len(h.got) = Len(g) + 1
    <3> HIDE DEF For
    <3> QED BY <2>4, <2>7, <1>2, AppendProperties
  <2>9. Chain(NoFlit, h.got) /\ End(NoFlit, h.got) = t.in
    <3> HIDE DEF For
    <3> QED BY <2>4, <2>7, <1>1, <1>2, ChainAppend
  <2>10. n >= m - 1
    BY <2>5, <1>1
  <2>11. Same(t.in, t.in)
    BY DEF Same
  <2>12. /\ h.reads \in 0 .. NI_BUFFER_LENGTH - 1 /\ Len(h.got) = NI_BUFFER_LENGTH - h.reads
         /\ n >= NI_BUFFER_LENGTH - Len(h.got)
    <3>1. PICK R, G, N, L : R = reads[c] /\ G = Len(g) /\ N = Len(h.got) /\ L = NI_BUFFER_LENGTH
      OBVIOUS
    <3>2. R \in 1 .. L /\ L \in Nat /\ m \in Nat /\ G = L - R /\ m >= R /\ N = G + 1 /\ n >= m - 1
      BY <3>1, <2>1, <2>2, <2>8, <2>10, <1>5
    <3>3. R - 1 \in 0 .. L - 1 /\ N = L - (R - 1) /\ n >= L - N
      BY <3>2
    <3> QED BY <3>1, <3>3, <2>7
  <2> HIDE DEF For
  <2> QED BY <2>5, <2>7, <2>8, <2>9, <2>11, <2>12, <1>4
<1>11. CASE c \notin irqs /\ ~Reading(c)
  <2>1. ~ReadsFlit(c)
    BY <1>11 DEF ReadsFlit
  <2>2. h.remaining = reads[c] /\ h.reads = reads[c] /\ h.got = g /\ h.gap \in 0 .. READ_GAP - 1
    <3> DEFINE same == [remaining |-> flits_remaining[c], reads |-> reads[c], gap |-> gap[c], got |-> got[c]]
    <3>1. CASE gap[c] > 0
      <4>1. h = [same EXCEPT !.gap = @ - 1]
        BY <3>1, <1>11 DEF Handled
      <4> QED BY <4>1, <3>1, <1>1, <1>3
    <3>2. CASE ~(gap[c] > 0)
      <4>1. h = same
        BY <3>2, <1>11 DEF Handled
      <4> QED BY <4>1, <1>1, <1>3
    <3> QED BY <3>1, <3>2
  <2>3. n >= m
    BY <2>1, <1>1
  <2>4. Same(e, e)
    BY DEF Same
  <2>5. m \in Nat
    <3>1. Rest(b, w) \in Seq(For(c))
      <4>1. w.in_ack => b # << >>
        BY <1>2 DEF Offered, Sound
      <4> HIDE DEF For
      <4> QED BY <4>1, <1>2, HeadTailProperties DEF Rest
    <3> HIDE DEF For
    <3> QED BY <3>1, <1>2, LenProperties
  <2>6. reads[c] > 0 => n >= NI_BUFFER_LENGTH - Len(g)
    BY <2>3, <2>5, <1>3, <1>5
  <2>7. /\ reads[c] \in 0 .. NI_BUFFER_LENGTH + 1
        /\ reads[c] = NI_BUFFER_LENGTH + 1 => g = << >>
        /\ reads[c] \in 1 .. NI_BUFFER_LENGTH => Len(g) = NI_BUFFER_LENGTH - reads[c]
        /\ reads[c] = 0 => Len(g) \in {0, NI_BUFFER_LENGTH}
    BY <1>3
  <2>8. e = End(NoFlit, g)
    BY <1>1
  <2> HIDE NoCAssumption
  <2> HIDE DEF For
  <2> QED BY <2>1, <2>2, <2>4, <2>6, <2>7, <2>8, <1>1, <1>2
<1> QED BY <1>8, <1>9, <1>10, <1>11

\* A core and its interface, from the router to the interrupt handler.
LEMMA NextReceive ==
    ASSUME PacketInv, NEW starters, NEW irqs, Cycle(starters, irqs), NEW c \in Cores, c \in irqs => MayInterrupt(c)
    PROVE  ReceiveInv(c)'
<1>1. build \in {"BUS", "MESH"} /\ build' = build
  <2>1. build \in {"BUS", "MESH"}
    BY DEF PacketInv
  <2> QED BY <2>1, CycleParts
<1>2. PICK r, p : r = RouterOf(c) /\ p = PortOf(c)
  OBVIOUS
<1>3. r \in Routers /\ p \in Connected(r) /\ p \in Ports /\ ToInterface(p) /\ InterfaceAt(r, p) = c
  BY <1>1, <1>2, Local
<1>4. PICK v, s, v1, put : /\ v = toNI[c] /\ s = SyncedToNI[c] /\ v1 = toNI'[c] /\ put = IntoNoc(c)
  OBVIOUS
<1>5. PICK w, t, w1, took : /\ w = toCore[c] /\ t = SyncedToCore[c] /\ w1 = toCore'[c] /\ took = ReadsFlit(c)
  OBVIOUS
<1>6. PICK b, b1, o, h : /\ b = noc[c] /\ b1 = noc'[c] /\ o = cycleNetworkInterface(c).toPlasma /\ h = Handled(c, irqs)
  OBVIOUS
<1>7. PICK e, e1 : e = End(NoFlit, got[c]) /\ e1 = End(NoFlit, h.got)
  OBVIOUS
<1>8. PICK x, y : x = Done(r).out[p] /\ y = SyncedOuts(r)[p]
  OBVIOUS
<1>9. /\ ReceiveInv(c) /\ b \in Seq(For(c)) /\ w \in Links /\ Offered(b, w) /\ Chain(e, Rest(b, w))
      /\ v \in Links /\ Sound(v) /\ Flow(End(e, Rest(b, w)), v, v.out)
  BY <1>4, <1>5, <1>6, <1>7 DEF PacketInv, ReceiveInv
<1>10. Crosses(v, s)
  BY <1>4, NICrosses
<1>11. Crosses(w, t)
  <2>1. t = synchronizePorts(w)
    BY <1>5 DEF SyncedToCore
  <2> QED BY <2>1, <1>9, Synced DEF Offered
<1>12. put \in BOOLEAN /\ took \in BOOLEAN /\ (put => s.in # NoFlit) /\ (took => t.in # NoFlit)
  BY <1>4, <1>5 DEF IntoNoc, ReadsFlit
<1>13. put => s.in \in For(c) /\ After(End(e, Rest(b, w)), s.in)
  <2> SUFFICES ASSUME put PROVE s.in \in For(c) /\ After(End(e, Rest(b, w)), s.in)
    OBVIOUS
  <2>1. s.in = v.out /\ v.out \in Flits /\ After(End(e, Rest(b, w)), v.out)
    BY <1>9, <1>10, <1>12, FlowArrives
  <2> QED BY <2>1, <1>4, ForTheCore
<1>14. t.in # NoFlit => t.in \in For(c) /\ After(e, t.in)
  <2> SUFFICES ASSUME t.in # NoFlit PROVE t.in \in For(c) /\ After(e, t.in)
    OBVIOUS
  <2>1. Waits(w) /\ t.in = w.out
    BY <1>11 DEF Crosses
  <2>2. b # << >> /\ w.out = Head(b) /\ Rest(b, w) = b
    BY <2>1, <1>9 DEF Waits, Offered, Rest
  <2> HIDE DEF For
  <2>3. Head(b) \in For(c) /\ After(e, Head(b))
    BY <2>2, <1>9, ChainTail
  <2> QED BY <2>1, <2>2, <2>3
<1>15. b1 = o.buffer /\ w1 = Wire(t, took, o)
  BY <1>1, <1>5, <1>6, CycleParts
<1>16. o = Offer(IF put THEN Append(b, s.in) ELSE b, t)
  BY <1>4, <1>5, <1>6 DEF cycleNetworkInterface
<1>17. Same(IF took THEN t.in ELSE e, e1)
  <2>1. PICK n \in Nat : n >= Len(Rest(b, w)) - (IF took THEN 1 ELSE 0)
    <3>1. Len(Rest(b, w)) \in Nat
      <4>1. w.in_ack => b # << >>
        BY <1>9 DEF Offered, Sound
      <4>2. Rest(b, w) \in Seq(For(c))
        <5> HIDE DEF For
        <5> QED BY <4>1, <1>9, HeadTailProperties DEF Rest
      <4> HIDE DEF For
      <4> QED BY <4>2, LenProperties
    <3> QED BY <3>1
  <2>2. n >= Len(Rest(noc[c], toCore[c])) - (IF ReadsFlit(c) THEN 1 ELSE 0)
    BY <2>1, <1>5, <1>6
  <2>3. Crosses(toCore[c], t) /\ (t.in \in For(c) \/ t.in = NoFlit) /\ (t.in # NoFlit => After(End(NoFlit, got[c]), t.in))
    BY <1>5, <1>7, <1>11, <1>14
  <2>4. Same(IF ReadsFlit(c) THEN t.in ELSE End(NoFlit, got[c]), End(NoFlit, h.got))
    <3> HIDE NoCAssumption
    <3> QED BY <2>2, <2>3, <1>5, <1>6, HandlerReads
  <2> QED BY <2>4, <1>5, <1>7
<1>18. For(c) \subseteq Flits
  BY DEF For
<1>19. Buffers(For(c), b, w, e, t, put, s.in, took, e1, o, w1)
  BY <1>9, <1>11, <1>12, <1>13, <1>15, <1>16, <1>17 DEF Buffers
<1>20. /\ b1 \in Seq(For(c)) /\ w1 \in Links /\ Offered(b1, w1) /\ Chain(e1, Rest(b1, w1)) /\ w1.in_ack = took
       /\ Same(IF put THEN s.in ELSE End(e, Rest(b, w)), End(e1, Rest(b1, w1)))
       /\ Len(Rest(b, w)) \in Nat /\ Len(Rest(b1, w1)) \in Nat
       /\ Len(Rest(b1, w1)) >= Len(Rest(b, w)) - (IF took THEN 1 ELSE 0)
  <2> HIDE NoCAssumption
  <2> HIDE DEF For
  <2>1. PICK S : S = For(c)
    OBVIOUS
  <2>2. S \subseteq Flits /\ Buffers(S, b, w, e, t, put, s.in, took, e1, o, w1)
    BY <2>1, <1>18, <1>19
  <2>3. /\ o.buffer \in Seq(S) /\ w1 \in Links /\ Offered(o.buffer, w1) /\ Chain(e1, Rest(o.buffer, w1)) /\ w1.in_ack = took
        /\ Same(IF put THEN s.in ELSE End(e, Rest(b, w)), End(e1, Rest(o.buffer, w1)))
        /\ Len(Rest(b, w)) \in Nat /\ Len(Rest(o.buffer, w1)) \in Nat
        /\ Len(Rest(o.buffer, w1)) >= Len(Rest(b, w)) - (IF took THEN 1 ELSE 0)
    BY <2>2, BufferStep
  <2> QED BY <2>1, <2>3, <1>15
<1>21. PICK n \in Nat : n = Len(Rest(b1, w1))
  BY <1>20
<1>22. /\ h.got \in Seq(For(c)) /\ Chain(NoFlit, h.got)
       /\ h.reads \in 0 .. NI_BUFFER_LENGTH + 1 /\ h.gap \in 0 .. READ_GAP - 1
       /\ h.remaining = h.reads
       /\ h.reads = NI_BUFFER_LENGTH + 1 => h.got = << >>
       /\ h.reads \in 1 .. NI_BUFFER_LENGTH => Len(h.got) = NI_BUFFER_LENGTH - h.reads
       /\ h.reads = 0 => Len(h.got) \in {0, NI_BUFFER_LENGTH}
       /\ h.reads > 0 => n >= NI_BUFFER_LENGTH - Len(h.got)
       /\ took => h.gap >= 1
  <2>1. n >= Len(Rest(noc[c], toCore[c])) - (IF ReadsFlit(c) THEN 1 ELSE 0)
    BY <1>5, <1>6, <1>20, <1>21
  <2>2. Crosses(toCore[c], t) /\ (t.in \in For(c) \/ t.in = NoFlit) /\ (t.in # NoFlit => After(End(NoFlit, got[c]), t.in))
    BY <1>5, <1>7, <1>11, <1>14
  <2> HIDE NoCAssumption
  <2> QED BY <2>1, <2>2, <1>5, <1>6, HandlerReads
<1>23. /\ got'[c] = h.got /\ reads'[c] = h.reads /\ gap'[c] = h.gap /\ flits_remaining'[c] = h.remaining
  <2>1. got'[c] = Handled(c, irqs).got
    BY <1>1, CycleParts
  <2>2. reads'[c] = Handled(c, irqs).reads
    BY <1>1, CycleParts
  <2>3. gap'[c] = Handled(c, irqs).gap
    BY <1>1, CycleParts
  <2>4. flits_remaining'[c] = Handled(c, irqs).remaining
    BY <1>1, CycleParts
  <2> QED BY <2>1, <2>2, <2>3, <2>4, <1>6
<1>24. HandlerInv(c)'
  BY <1>5, <1>6, <1>20, <1>21, <1>22, <1>23 DEF HandlerInv, Rest
<1>25. v1 = Wire(s, put, x)
  BY <1>1, <1>2, <1>4, <1>8, CycleParts
<1>26. s \in Links /\ s.out = v.out
  BY <1>10 DEF Crosses
<1>27. Writer(s, x, v.out, x.flit)
  <2>1. y = [flit |-> s.out, ack |-> s.out_ack]
    BY <1>3, <1>4, <1>8 DEF SyncedOuts, OutputsOf, WireOut
  <2>2. x \in Outputs
    BY <1>3, <1>8, OutsNext
  <2>3. Turned(r, SyncedOuts(r), SyncedIns(r), Done(r))
    BY <1>3, RouterDone
  <2>4. x = y \/ Replaces(y, x)
    BY <2>3, <1>3, <1>8 DEF Turned
  <2> QED BY <2>1, <2>2, <2>4, <1>26, RouterWrites
<1>28. v1 \in Links /\ Sound(v1) /\ Flow(End(e1, Rest(b1, w1)), v1, x.flit)
  BY <1>9, <1>10, <1>12, <1>20, <1>25, <1>27, FlowStep
<1>29. v1.out = x.flit
  BY <1>25, <1>26, WireEnds
<1>30. For(c)' = For(c)
  BY DEF For, Flits, Target
<1> QED BY <1>4, <1>5, <1>6, <1>7, <1>20, <1>22, <1>23, <1>24, <1>28, <1>29, <1>30 DEF ReceiveInv

-----------------------------------------------------------------------------
(* Every packet arrives whole *)

LEMMA InitPacket == Init => PacketInv
<1> SUFFICES ASSUME Init PROVE PacketInv
  OBVIOUS
<1>1. build \in {"BUS", "MESH"}
  BY DEF Init
<1>2. PICK w : w = cleanPort
  OBVIOUS
<1>3. /\ w \in Links /\ Sound(w) /\ ~Waits(w) /\ w.out = NoFlit /\ w.out_ack = FALSE /\ w.in_ack = FALSE
  BY <1>2 DEF cleanPort, Links, Shown, Sound, Waits
<1>4. /\ Chain(NoFlit, << >>) /\ End(NoFlit, << >>) = NoFlit /\ Same(NoFlit, NoFlit) /\ Flow(NoFlit, w, NoFlit)
      /\ Offered(<< >>, w) /\ Rest(<< >>, w) = << >> /\ Len(<< >>) = 0
  BY <1>3 DEF Chain, End, Same, Flow, Offered, Rest
<1>5. ASSUME NEW r \in Routers, NEW p \in Ports
      PROVE  toRouter[r][p] = w /\ queue[r][p] = << >> /\ connection[r][p] = Idle
  BY <1>2 DEF Init
<1>6. ASSUME NEW c \in Cores PROVE toNI[c] = w /\ toCore[c] = w /\ fromCore[c] = w
  BY <1>2 DEF Init
<1>7. ASSUME NEW r \in Routers, NEW o \in Connected(r) PROVE Outs(r)[o] = [flit |-> NoFlit, ack |-> FALSE]
  <2>1. o \in Ports
    BY <1>1, ConnectedPorts
  <2>2. PICK v : v = WireOut(r, o, toRouter, toNI)
    OBVIOUS
  <2>3. v = w
    <3>1. CASE ToInterface(o)
      <4>1. InterfaceAt(r, o) \in Cores
        BY <1>1, <2>1, <3>1, LocalPorts
      <4> QED BY <2>2, <3>1, <4>1, <1>6 DEF WireOut
    <3>2. CASE ~ToInterface(o)
      <4>1. Neighbour(r, o) \in Routers /\ Opposite(o) \in Ports
        BY <1>1, <3>2, Between
      <4> QED BY <2>2, <3>2, <4>1, <1>5 DEF WireOut
    <3> QED BY <3>1, <3>2
  <2> QED BY <2>2, <2>3, <1>3 DEF Outs, OutputsOf
<1>8. Idle.status = IDLE /\ Idle \in Conns
  BY DEF Idle, Conns, Statuses, NONE
<1>9. ASSUME NEW r \in Routers PROVE RouterInv(r)
  <2>1. queue[r] = [p \in Ports |-> << >>] /\ connection[r] = [p \in Ports |-> Idle]
    BY DEF Init
  <2>2. queue[r] \in [Ports -> Seq(Flits)] /\ connection[r] \in [Ports -> Conns]
    <3>1. << >> \in Seq(Flits)
      OBVIOUS
    <3> HIDE DEF Flits, Conns, Idle
    <3> QED BY <3>1, <2>1, <1>8
  <2>3. Outs(r) \in [Connected(r) -> Outputs]
    <3>1. [flit |-> NoFlit, ack |-> FALSE] \in Outputs
      BY DEF Outputs, Shown
    <3>2. Outs(r) = [o \in Connected(r) |-> Outs(r)[o]]
      BY DEF Outs, OutputsOf
    <3>3. \A o \in Connected(r) : Outs(r)[o] \in Outputs
      BY <3>1, <1>7
    <3> HIDE DEF Outputs, Outs
    <3> QED BY <3>2, <3>3
  <2>4. ASSUME NEW p \in Ports
        PROVE  /\ PortOK(r, queue[r][p], connection[r][p], OutOf(connection[r][p], Outs(r)))
               /\ Tip(r, p) = NoFlit
    <3>1. queue[r][p] = << >> /\ connection[r][p] = Idle
      BY <1>5
    <3>2. PICK c, x : c = connection[r][p] /\ x = OutOf(connection[r][p], Outs(r))
      OBVIOUS
    <3>3. c.status = IDLE
      BY <3>1, <3>2, <1>8
    <3>4. PortOK(r, << >>, c, x) /\ TipOf(<< >>, c, x) = NoFlit
      BY <3>3, <1>4, IdleOK
    <3> QED BY <3>1, <3>2, <3>4 DEF Tip
  <2>5. RouterOK(r, queue[r], connection[r], Outs(r))
    <3>1. \A p \in Ports : connection[r][p].status = IDLE
      BY <1>5, <1>8
    <3>2. \A o \in Connected(r) : Outs(r)[o].flit = NoFlit
      BY <1>7
    <3> HIDE DEF Outs
    <3> QED BY <2>4, <3>1, <3>2 DEF RouterOK
  <2>6. ASSUME NEW p \in Ports PROVE LinkInv(r, p)
    BY <1>2, <1>3, <1>4, <1>5, <2>4 DEF LinkInv
  <2> QED BY <2>2, <2>3, <2>5, <2>6 DEF RouterInv
<1>10. ASSUME NEW c \in Cores PROVE SendInv(c)
  <2>1. /\ plasma[c] = << >> /\ begun[c] = 0 /\ written[c] = 0
    BY DEF Init
  <2>2. RouterOf(c) \in Routers /\ PortOf(c) \in Ports
    BY <1>1, Local
  <2>3. LocalWire(c) = w /\ LocalTip(c) = NoFlit
    <3>1. PICK r, p : r = RouterOf(c) /\ p = PortOf(c)
      OBVIOUS
    <3>2. connection[r][p].status = IDLE /\ queue[r][p] = << >> /\ toRouter[r][p] = w
      BY <2>2, <3>1, <1>5, <1>8
    <3>3. Tip(r, p) = NoFlit
      BY <3>2, <1>4, IdleOK DEF Tip
    <3> QED BY <3>1, <3>2, <3>3 DEF LocalWire, LocalTip
  <2>4. Mark(c) = NoFlit
    BY <2>1 DEF Mark
  <2>5. << >> \in Seq(Flits) /\ 0 \in Nat /\ 0 \in 0 .. NI_BUFFER_LENGTH
    OBVIOUS
  <2> QED BY <2>1, <2>3, <2>4, <2>5, <1>3, <1>4, <1>6 DEF SendInv
<1>11. ASSUME NEW c \in Cores PROVE ReceiveInv(c)
  <2>1. /\ noc[c] = << >> /\ got[c] = << >> /\ reads[c] = 0 /\ gap[c] = 0 /\ flits_remaining[c] = 0
    BY DEF Init
  <2>2. HandlerInv(c)
    BY <2>1, <1>3, <1>4, <1>6 DEF HandlerInv
  <2>3. << >> \in Seq(For(c))
    OBVIOUS
  <2> QED BY <2>1, <2>2, <2>3, <1>3, <1>4, <1>6 DEF ReceiveInv
<1> QED BY <1>1, <1>9, <1>10, <1>11 DEF PacketInv

LEMMA SamePacket == PacketInv /\ UNCHANGED vars => PacketInv'
<1> SUFFICES ASSUME PacketInv, UNCHANGED vars PROVE PacketInv'
  OBVIOUS
<1>1. /\ build' = build /\ connection' = connection /\ queue' = queue /\ toRouter' = toRouter /\ toNI' = toNI
      /\ plasma' = plasma /\ noc' = noc /\ toCore' = toCore /\ fromCore' = fromCore
      /\ begun' = begun /\ written' = written /\ flits_remaining' = flits_remaining /\ reads' = reads
      /\ gap' = gap /\ got' = got
  BY DEF vars, routerVars, niVars, coreVars
<1>2. /\ Ports' = Ports /\ Routers' = Routers
      /\ \A r : Connected(r)' = Connected(r)
      /\ \A p : ToInterface(p)' = ToInterface(p)
      /\ \A c : RouterOf(c)' = RouterOf(c) /\ PortOf(c)' = PortOf(c)
  BY <1>1, SameBuild
<1>3. ASSUME NEW r PROVE Outs(r)' = Outs(r)
  <2>1. ASSUME NEW o PROVE WireOut(r, o, toRouter, toNI)' = WireOut(r, o, toRouter, toNI)
    BY <1>1, SameBuild DEF WireOut
  <2> QED BY <2>1, <1>2 DEF Outs, OutputsOf
<1>4. ASSUME NEW r, NEW p PROVE Tip(r, p)' = Tip(r, p)
  BY <1>1, <1>3 DEF Tip, TipOf, OutOf
<1>5. ASSUME NEW r \in Routers PROVE RouterInv(r)'
  <2>1. PICK q, conn, out : q = queue[r] /\ conn = connection[r] /\ out = Outs(r)
    OBVIOUS
  <2>2. /\ q \in [Ports -> Seq(Flits)] /\ conn \in [Ports -> Conns] /\ out \in [Connected(r) -> Outputs]
        /\ RouterOK(r, q, conn, out)
    BY <2>1 DEF PacketInv, RouterInv
  <2>3. queue'[r] = q /\ connection'[r] = conn /\ Outs(r)' = out
    BY <1>1, <1>3, <2>1
  <2>4. RouterOK(r, q, conn, out)'
    BY <1>1, <2>2, SameRouter
  <2>5. RouterOK(r, queue[r], connection[r], Outs(r))'
    BY <2>3, <2>4
  <2>6. ASSUME NEW p \in Ports PROVE LinkInv(r, p)'
    <3>1. LinkInv(r, p)
      BY DEF PacketInv, RouterInv
    <3> QED BY <3>1, <1>1, <1>2, <1>4 DEF LinkInv
  <2> QED BY <1>2, <2>2, <2>3, <2>5, <2>6 DEF RouterInv
<1>6. ASSUME NEW c \in Cores PROVE SendInv(c)'
  <2>1. SendInv(c)
    BY DEF PacketInv
  <2>2. LocalWire(c)' = LocalWire(c) /\ LocalTip(c)' = LocalTip(c)
    <3>1. PICK r, p : r = RouterOf(c) /\ p = PortOf(c)
      OBVIOUS
    <3>2. RouterOf(c)' = r /\ PortOf(c)' = p
      BY <1>2, <3>1
    <3> QED BY <3>1, <3>2, <1>1, <1>3 DEF LocalWire, LocalTip, Tip, TipOf, OutOf
  <2>3. Mark(c)' = Mark(c)
    BY <1>1 DEF Mark, Flit
  <2> QED BY <1>1, <2>1, <2>2, <2>3 DEF SendInv
<1>7. ASSUME NEW c \in Cores PROVE ReceiveInv(c)'
  <2>1. ReceiveInv(c)
    BY DEF PacketInv
  <2>2. HandlerInv(c)'
    BY <1>1, <2>1 DEF ReceiveInv, HandlerInv
  <2>3. For(c)' = For(c)
    BY DEF For, Flits, Target
  <2> QED BY <1>1, <2>1, <2>2, <2>3 DEF ReceiveInv
<1> QED BY <1>1, <1>2, <1>5, <1>6, <1>7 DEF PacketInv

LEMMA NextPacket == PacketInv /\ [Next]_vars => PacketInv'
<1> SUFFICES ASSUME PacketInv, [Next]_vars PROVE PacketInv'
  OBVIOUS
<1>1. CASE Next
  <2>1. PICK irqs \in SUBSET {c \in Cores : MayInterrupt(c)} :
          \E starters \in SUBSET {c \in Cores \ irqs : MayStart(c)} : Cycle(starters, irqs)
    BY <1>1 DEF Next
  <2>2. PICK starters \in SUBSET {c \in Cores \ irqs : MayStart(c)} : Cycle(starters, irqs)
    BY <2>1
  <2>3. \A c \in Cores : (c \in irqs => MayInterrupt(c)) /\ (c \in starters => MayStart(c))
    OBVIOUS
  <2>4. build \in {"BUS", "MESH"} /\ build' = build
    <3>1. build \in {"BUS", "MESH"}
      BY DEF PacketInv
    <3> QED BY <3>1, <2>2, CycleParts
  <2>5. Routers' = Routers
    BY <2>4, SameBuild
  <2>6. \A r \in Routers : RouterInv(r)'
    BY <2>2, <2>3, NextRouter
  <2>7. \A c \in Cores : SendInv(c)' /\ ReceiveInv(c)'
    BY <2>2, <2>3, NextSend, NextReceive
  <2> QED BY <2>4, <2>5, <2>6, <2>7 DEF PacketInv
<1>2. CASE UNCHANGED vars
  BY <1>2, SamePacket
<1> QED BY <1>1, <1>2

\* The interrupt handler reads the flits of one packet for its core, in their
\* order and without a gap.
THEOREM PacketsAlwaysIntact == Spec => []PacketsIntact
<1>1. PacketInv => PacketsIntact
  <2> SUFFICES ASSUME PacketInv, NEW c \in Cores, NEW k \in 1 .. Len(got[c])
               PROVE  /\ got[c][k] # NoFlit
                      /\ got[c][k] = [got[c][1] EXCEPT !.pos = k]
                      /\ Target(got[c][k]) = c
    BY DEF PacketsIntact
  <2>1. PICK q : q = got[c]
    OBVIOUS
  <2>2. ReceiveInv(c) /\ q \in Seq(For(c)) /\ Chain(NoFlit, q)
    BY <2>1 DEF PacketInv, ReceiveInv
  <2>3. q \in Seq(Flits) /\ Len(q) \in 0 .. NI_BUFFER_LENGTH
    BY <2>1, <2>2, GotLength
  <2>4. q[k] = [q[1] EXCEPT !.pos = k]
    <3>1. Len(q) <= NI_BUFFER_LENGTH /\ k \in 1 .. Len(q)
      BY <2>1, <2>3
    <3> HIDE NoCAssumption
    <3> HIDE DEF Flits, For
    <3> QED BY <2>2, <2>3, <3>1, Numbered
  <2>5. q[k] \in For(c)
    <3> HIDE DEF For
    <3> QED BY <2>1, <2>2, ElementOfSeq
  <2>6. q[k] # NoFlit /\ Target(q[k]) = c
    BY <2>5, FlitType DEF For
  <2> QED BY <2>1, <2>4, <2>6
<1> QED BY <1>1, InitPacket, NextPacket, PTL DEF Spec
=============================================================================
