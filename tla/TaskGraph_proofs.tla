--------------------------- MODULE TaskGraph_proofs ---------------------------
(***************************************************************************)
(* What the applications that are graphs of tasks promise, with the timer  *)
(* coming at any time.                                                     *)
(*                                                                         *)
(* A task is a text of statements that is done again and again             *)
(* (Applications), and the core goes only to tasks that do not sleep       *)
(* (TableInv).                                                             *)
(*                                                                         *)
(* MessagesAlwaysSafe: senders are answered, and what a receiver copies is *)
(* whole.  The texts of the task graphs are runs of statements in a fixed  *)
(* order (Follows, GraphTexts), so that the statement of a task says what  *)
(* it has done before (NextIs).  The lines of the semaphores hold the      *)
(* tasks that sleep (LineInv); with that every step of a call keeps the    *)
(* balance of a target and what its only sender has written (MsgInv).      *)
(*                                                                         *)
(* MailboxesAlwaysSafe: the statement of a task of mailbox_test says which *)
(* mailbox it is inside (Area).  A mailbox has one Token: a unit of one of *)
(* its two semaphores, or the one task inside.  task0 and task1 take turns *)
(* at the string (Turn): task0 waits while the string is in the mailbox or *)
(* with task1, or has been printed and the post is on its way (BoxInv).    *)
(*                                                                         *)
(* NeighboursAlways: philosophers side by side never eat at once, for any  *)
(* number of them.  Between its wait for mtx and its post a task is        *)
(* Within; there is one such task at most (OneHolder), and only such a     *)
(* task writes a state.  So what test has seen of the neighbours (Looked)  *)
(* is still true when it writes EATING (DinnerInv).                        *)
(***************************************************************************)
EXTENDS TaskGraph, ModLemmas, SequenceTheorems, FiniteSetTheorems

-----------------------------------------------------------------------------
(* Texts *)

\* A text of statements, one at least.
Text(p) == \E S : p \in Seq(S) /\ p # << >>

\* Texts follow each other.
LEMMA TextJoin ==
    ASSUME NEW p, NEW q, Text(p), Text(q)
    PROVE  Text(p \o q)
<1>1. PICK S : p \in Seq(S) /\ p # << >>
  BY DEF Text
<1>2. PICK T : q \in Seq(T) /\ q # << >>
  BY DEF Text
<1>3. PICK U : U = S \cup T
  OBVIOUS
<1>4. p \in Seq(U) /\ q \in Seq(U)
  <2>1. S \subseteq U /\ T \subseteq U
    BY <1>3
  <2> QED BY <2>1, <1>1, <1>2, SeqMonotonic
<1>5. p \o q \in Seq(U) /\ Len(p \o q) = Len(p) + Len(q)
  BY <1>4, ConcatProperties
<1>6. Len(p) \in Nat /\ Len(q) \in Nat /\ Len(p) # 0
  BY <1>1, <1>4, LenProperties, EmptySeq
<1>7. p \o q # << >>
  BY <1>5, <1>6
<1> QED BY <1>5, <1>7 DEF Text

\* A statement is a text.
LEMMA TextOne ==
    ASSUME NEW s
    PROVE  Text(<<s>>)
<1>1. <<s>> \in Seq({s}) /\ <<s>> # << >>
  OBVIOUS
<1> QED BY <1>1 DEF Text

\* What is put together from members of a set that is closed under \o is in it.
LEMMA FlattenIn ==
    ASSUME NEW T, \A p, q \in T : p \o q \in T,
           NEW n \in Nat \ {0}, NEW f, f = [k \in 1 .. n |-> f[k]], \A k \in 1 .. n : f[k] \in T
    PROVE  FlattenSeq(f) \in T
<1> DEFINE Body(g) == [i \in 1 .. n |-> IF i = 1 THEN f[i] ELSE g[i - 1] \o f[i]]
<1>2. Len(f) = n
  <2>1. f \in Seq({f[k] : k \in 1 .. n})
    BY IsASeq
  <2> QED BY <2>1, LenProperties
<1>3. FlattenSeq(f) = (CHOOSE g : g = Body(g))[n]
  BY <1>2 DEF FlattenSeq
<1> DEFINE States == Nat \X T
           step == [s \in States |-> <<s[1] + 1, IF s[1] + 1 \in 1 .. n THEN s[2] \o f[s[1] + 1] ELSE s[2]>>]
<1>8. <<1, f[1]>> \in States
  OBVIOUS
<1>9. ASSUME NEW s \in States
      PROVE  /\ step[s] \in States
             /\ step[s][1] = s[1] + 1
             /\ s[1] + 1 \in 1 .. n => step[s][2] = s[2] \o f[s[1] + 1]
  <2>1. PICK t : t = IF s[1] + 1 \in 1 .. n THEN s[2] \o f[s[1] + 1] ELSE s[2]
    OBVIOUS
  <2>2. s[1] \in Nat /\ s[2] \in T
    OBVIOUS
  <2>3. t \in T
    BY <2>1, <2>2
  <2>4. step[s] = <<s[1] + 1, t>>
    BY <2>1
  <2>5. step[s] \in States
    BY <2>2, <2>3, <2>4
  <2>6. step[s][1] = s[1] + 1 /\ step[s][2] = t
    BY <2>4
  <2> QED BY <2>1, <2>5, <2>6
<1>10. step \in [States -> States]
  <2>1. step = [s \in States |-> step[s]]
    OBVIOUS
  <2> HIDE DEF step
  <2> QED BY <2>1, <1>9
<1>11. \A s \in States : s[2] \in T
  OBVIOUS
<1> HIDE DEF States, step
<1>12. PICK F \in [Nat -> States] : F[0] = <<1, f[1]>> /\ \A m \in Nat : F[m + 1] = step[F[m]]
  <2>1. PICK S, base, turn : S = States /\ base = <<1, f[1]>> /\ turn = step
    OBVIOUS
  <2>2. base \in S /\ turn \in [S -> S]
    BY <2>1, <1>8, <1>10
  <2>3. \E F \in [Nat -> S] : F[0] = base /\ \A m \in Nat : F[m + 1] = turn[F[m]]
    BY <2>2, Iterated
  <2> QED BY <2>1, <2>3
<1>13. F[0] = <<1, f[1]>> /\ \A m \in Nat : F[m] \in States /\ F[m + 1] = step[F[m]]
  BY <1>12
<1>14. \A m \in Nat : F[m][1] = m + 1
  <2> DEFINE Numbered == {m \in Nat : F[m][1] = m + 1}
  <2>1. 0 \in Numbered
    BY <1>13
  <2>2. ASSUME NEW m \in Nat, m \in Numbered PROVE m + 1 \in Numbered
    <3>1. F[m + 1] = step[F[m]] /\ F[m] \in States
      BY <1>13
    <3>2. F[m + 1][1] = F[m][1] + 1
      BY <3>1, <1>9
    <3> QED BY <2>2, <3>2
  <2>3. Nat \subseteq Numbered
    <3> HIDE DEF Numbered
    <3> QED BY <2>1, <2>2, Induct
  <2> QED BY <2>3
<1>15. \E g : g = Body(g)
  <2>1. PICK g : g = [i \in 1 .. n |-> F[i - 1][2]]
    OBVIOUS
  <2>2. ASSUME NEW i \in 1 .. n PROVE g[i] = IF i = 1 THEN f[i] ELSE g[i - 1] \o f[i]
    <3>1. CASE i = 1
      BY <3>1, <2>1, <1>13
    <3>2. CASE i # 1
      <4>1. PICK m : m = i - 2
        OBVIOUS
      <4>2. m \in Nat /\ i = m + 2 /\ i - 1 \in 1 .. n /\ m + 1 = i - 1 /\ m = (i - 1) - 1
        <5>1. i \in Nat /\ i >= 2 /\ i <= n /\ n \in Nat
          BY <3>2
        <5> QED BY <5>1, <4>1
      <4>3. g[i] = F[m + 1][2] /\ g[i - 1] = F[m][2]
        BY <2>1, <4>2
      <4>4. F[m] \in States /\ F[m + 1] = step[F[m]] /\ F[m][1] + 1 = i
        BY <4>2, <1>13, <1>14
      <4>5. F[m + 1][2] = F[m][2] \o f[i]
        BY <4>4, <1>9
      <4> QED BY <3>2, <4>3, <4>5
    <3> QED BY <3>1, <3>2
  <2>3. g = [i \in 1 .. n |-> g[i]]
    BY <2>1
  <2>4. g = Body(g)
    BY <2>2, <2>3
  <2> QED BY <2>4
<1>16. PICK h : h = (CHOOSE g1 : g1 = Body(g1)) /\ h = Body(h)
  BY <1>15
<1>17. \A i \in 1 .. n : h[i] = IF i = 1 THEN f[i] ELSE h[i - 1] \o f[i]
  BY <1>16
<1>18. \A i \in 1 .. n : h[i] \in T
  <2> DEFINE Made == {m \in Nat : m + 1 \in 1 .. n => h[m + 1] \in T}
  <2>1. 0 \in Made
    BY <1>17
  <2>2. ASSUME NEW m \in Nat, m \in Made PROVE m + 1 \in Made
    <3>1. CASE (m + 1) + 1 \in 1 .. n
      <4>1. m + 1 \in 1 .. n /\ (m + 1) + 1 # 1 /\ ((m + 1) + 1) - 1 = m + 1
        BY <3>1
      <4>2. h[m + 1] \in T /\ h[(m + 1) + 1] = h[m + 1] \o f[(m + 1) + 1]
        BY <4>1, <3>1, <2>2, <1>17
      <4>3. f[(m + 1) + 1] \in T
        BY <3>1
      <4>4. h[(m + 1) + 1] \in T
        BY <4>2, <4>3
      <4> QED BY <4>4
    <3> QED BY <3>1
  <2>3. Nat \subseteq Made
    <3> HIDE DEF Made
    <3> QED BY <2>1, <2>2, Induct
  <2>4. ASSUME NEW i \in 1 .. n PROVE h[i] \in T
    <3>1. i - 1 \in Nat /\ (i - 1) + 1 = i
      OBVIOUS
    <3> QED BY <3>1, <2>3
  <2> QED BY <2>4
<1> QED
  <2>1. FlattenSeq(f) = h[n] /\ n \in 1 .. n
    BY <1>3, <1>16
  <2> QED BY <2>1, <1>18

\* Services and applications repeat texts.
LEMMA TextFlatten ==
    ASSUME NEW n \in Nat \ {0}, NEW f, f = [k \in 1 .. n |-> f[k]], \A k \in 1 .. n : Text(f[k])
    PROVE  Text(FlattenSeq(f))
<1> DEFINE Of(k) == CHOOSE S : f[k] \in Seq(S) /\ f[k] # << >>
           All == UNION {Of(k) : k \in 1 .. n}
<1>1. ASSUME NEW k \in 1 .. n PROVE f[k] \in Seq(Of(k)) /\ f[k] # << >>
  <2>1. \E S : f[k] \in Seq(S) /\ f[k] # << >>
    BY DEF Text
  <2> QED BY <2>1, Zenon
<1> HIDE DEF Of
<1>4. ASSUME NEW k \in 1 .. n PROVE f[k] \in Seq(All) /\ f[k] # << >>
  <2>1. Of(k) \subseteq All
    OBVIOUS
  <2> QED BY <2>1, <1>1, SeqMonotonic
<1> HIDE DEF All
<1> DEFINE Texts == {p \in Seq(All) : p # << >>}
<1>6. \A p, q \in Texts : p \o q \in Texts
  <2>1. ASSUME NEW p \in Texts, NEW q \in Texts PROVE p \o q \in Texts
    <3>1. p \o q \in Seq(All) /\ Len(p \o q) = Len(p) + Len(q)
      BY ConcatProperties
    <3>2. Len(p) \in Nat /\ Len(q) \in Nat /\ Len(p) # 0
      BY LenProperties, EmptySeq
    <3>3. p \o q # << >>
      BY <3>1, <3>2
    <3> QED BY <3>1, <3>3
  <2> QED BY <2>1
<1>7. \A k \in 1 .. n : f[k] \in Texts
  BY <1>4
<1>8. FlattenSeq(f) \in Texts
  <2> HIDE DEF Texts
  <2> QED BY <1>6, <1>7, FlattenIn
<1> QED BY <1>8 DEF Text

-----------------------------------------------------------------------------
(* The applications are texts *)

\* The statements that the services are made of.
LEMMA Pieces ==
    ASSUME NEW k, NEW n
    PROVE  /\ Text(Wait(k, n)) /\ Text(Post(k, n))
           /\ Text(Do(k, n))
           /\ \A v : Text(Set(k, n, v))
BY TextOne DEF Wait, Post, Do, Set

\* The services are texts.
LEMMA Messages ==
    ASSUME NEW me, NEW k, NEW to
    PROVE  Text(HF_MsgSend(me, k, to)) /\ Text(HF_MsgRecv(me))
<1>1. \A v : Text(Set("source", to, v)) /\ Text(Set("size", to, v)) /\ Text(Set("ptr", to, v))
  BY Pieces
<1>2. Text(HF_MsgSend(me, k, to))
  <2>1. PICK p1, p2, p3, p4, p5 :
            /\ p1 = Set("source", to, <<me, k>>) /\ p2 = Set("size", to, <<me, k>>) /\ p3 = Set("ptr", to, <<me, k>>)
            /\ p4 = Post("send", to) /\ p5 = Wait("recv", to)
    OBVIOUS
  <2>2. Text(p1) /\ Text(p2) /\ Text(p3) /\ Text(p4) /\ Text(p5)
    BY <2>1, <1>1, Pieces
  <2>3. Text(p1 \o p2 \o p3 \o p4 \o p5)
    BY <2>2, TextJoin
  <2> QED BY <2>1, <2>3 DEF HF_MsgSend
<1>3. Text(HF_MsgRecv(me))
  <2>1. PICK p1, p2, p3 : p1 = Wait("send", me) /\ p2 = Do("copy", me) /\ p3 = Post("recv", me)
    OBVIOUS
  <2>2. Text(p1) /\ Text(p2) /\ Text(p3)
    BY <2>1, Pieces
  <2>3. Text(p1 \o p2 \o p3)
    BY <2>2, TextJoin
  <2> QED BY <2>1, <2>3 DEF HF_MsgRecv
<1> QED BY <1>2, <1>3

\* A mailbox is sent to, received from, and asked without waiting.
LEMMA MailboxServices ==
    ASSUME NEW m, NEW msg, NEW waiting \in Nat \ {0}
    PROVE  Text(HF_MboxSend(m, msg, waiting)) /\ Text(HF_MboxRecv(m)) /\ Text(HF_MboxAccept(m))
<1>1. Text(HF_MboxSend(m, msg, waiting))
  <2>1. PICK p1, p2, p3 : p1 = Wait("msend", m) /\ p2 = Set("put", m, msg) /\ p3 = Post("mrecv", m)
    OBVIOUS
  <2>2. Text(p1) /\ Text(p2) /\ Text(p3)
    BY <2>1, Pieces
  <2>3. Text(p1 \o p2 \o p3)
    BY <2>2, TextJoin
  <2>4. PICK f : f = [k \in 1 .. waiting |-> p1 \o p2 \o p3]
    OBVIOUS
  <2>5. f = [k \in 1 .. waiting |-> f[k]] /\ \A k \in 1 .. waiting : Text(f[k])
    BY <2>3, <2>4
  <2>6. Text(FlattenSeq(f))
    BY <2>5, TextFlatten
  <2> QED BY <2>1, <2>4, <2>6 DEF HF_MboxSend
<1>2. Text(HF_MboxRecv(m))
  <2>1. PICK p1, p2, p3, p4, p5 :
            /\ p1 = Wait("mrecv", m) /\ p2 = Do("get", m) /\ p3 = Do("count", m) /\ p4 = Do("empty", m)
            /\ p5 = Post("msend", m)
    OBVIOUS
  <2>2. Text(p1) /\ Text(p2) /\ Text(p3) /\ Text(p4) /\ Text(p5)
    BY <2>1, Pieces
  <2>3. Text(p1 \o p2 \o p3 \o p4 \o p5)
    BY <2>2, TextJoin
  <2> QED BY <2>1, <2>3 DEF HF_MboxRecv
<1>3. Text(HF_MboxAccept(m))
  BY Pieces DEF HF_MboxAccept
<1> QED BY <1>1, <1>2, <1>3

\* A task of a graph does its services in turn.
LEMMA ServicesAreTexts ==
    ASSUME NEW me, NEW graph \in Seq(Nat), graph # << >>
    PROVE  Text(Services(me, graph))
<1>1. Len(graph) \in Nat \ {0}
  BY LenProperties, EmptySeq
<1>2. PICK f : f = [k \in 1 .. Len(graph) |-> IF graph[k] = 0 THEN HF_MsgRecv(me) ELSE HF_MsgSend(me, k, graph[k])]
  OBVIOUS
<1>3. f = [k \in 1 .. Len(graph) |-> f[k]] /\ \A k \in 1 .. Len(graph) : Text(f[k])
  BY <1>2, Messages
<1>4. Text(FlattenSeq(f))
  BY <1>1, <1>3, TextFlatten
<1> QED BY <1>2, <1>4 DEF Services

\* An application is a text for each of some tasks with consecutive numbers.
Application(p) == \E lo, hi \in Nat \ {0} : /\ lo <= hi
                                            /\ DOMAIN p = lo .. hi
                                            /\ \A t \in lo .. hi : Text(p[t])

Graphs == {g \in Seq(Nat) : g # << >>}

\* The tasks of a graph are numbered from 3.
LEMMA TaskGraphs ==
    ASSUME NEW graphs \in Seq(Graphs), graphs # << >>
    PROVE  Application(FromTask3(graphs))
<1>1. Len(graphs) \in Nat /\ Len(graphs) # 0
  BY LenProperties, EmptySeq
<1>2. PICK p, hi : p = FromTask3(graphs) /\ hi = Len(graphs) + 2
  OBVIOUS
<1>3. p = [t \in 3 .. hi |-> Services(t, graphs[t - 2])]
  BY <1>2 DEF FromTask3
<1>4. ASSUME NEW t \in 3 .. hi PROVE Text(p[t])
  <2>1. t - 2 \in 1 .. Len(graphs)
    BY <1>1, <1>2
  <2>2. graphs[t - 2] \in Graphs
    BY <2>1, ElementOfSeq
  <2>3. graphs[t - 2] \in Seq(Nat) /\ graphs[t - 2] # << >>
    BY <2>2 DEF Graphs
  <2>4. Text(Services(t, graphs[t - 2]))
    BY <2>3, ServicesAreTexts
  <2> QED BY <2>4, <1>3
<1>5. 3 \in Nat /\ hi \in Nat /\ 3 <= hi /\ DOMAIN p = 3 .. hi
  BY <1>1, <1>2, <1>3
<1> QED BY <1>2, <1>4, <1>5 DEF Application

\* The graphs of mpeg4_test.c and vopd_test.c have an edge for each task at least.
LEMMA TheGraphs ==
    /\ mpeg4_front \in Seq(Graphs) /\ mpeg4_back \in Seq(Graphs)
    /\ vopd_front \in Seq(Graphs) /\ vopd_back \in Seq(Graphs)
    /\ mpeg4_front # << >> /\ vopd_front # << >>
<1>1. \A n1, n2 \in Nat : <<n1, n2>> \in Graphs
  BY DEF Graphs
<1>2. \A n1, n2, n3 \in Nat : <<n1, n2, n3>> \in Graphs
  BY DEF Graphs
<1>3. \A n1, n2, n3, n4 \in Nat : <<n1, n2, n3, n4>> \in Graphs
  BY DEF Graphs
<1>4. <<0, 0, 10, 11, 0, 10>> \in Graphs
  BY DEF Graphs
<1>5. mpeg4_front \in Seq(Graphs) /\ mpeg4_front # << >>
  <2>1. PICK g1, g2, g3, g4, g5, g6, g7, g8, g9 :
            /\ g1 = <<4, 0>> /\ g2 = <<0, 5, 6>> /\ g3 = <<0, 9>> /\ g4 = <<0, 7>> /\ g5 = <<0, 8, 0>>
            /\ g6 = <<0, 9>> /\ g7 = <<0, 0, 10, 11, 0, 10>> /\ g8 = <<0, 12>> /\ g9 = <<0, 14>>
    OBVIOUS
  <2>2. {g1, g2, g3, g4, g5, g6, g7, g8, g9} \subseteq Graphs
    BY <2>1, <1>1, <1>2, <1>3, <1>4
  <2>3. mpeg4_front = << g1, g2, g3, g4, g5, g6, g7, g8, g9 >>
    BY <2>1 DEF mpeg4_front
  <2> QED BY <2>2, <2>3
<1>6. mpeg4_back \in Seq(Graphs) /\ mpeg4_back # << >>
  <2>1. PICK g1, g2, g3, g4, g5, g6, g7, g8, g9 :
            /\ g1 = <<0, 13, 0, 19>> /\ g2 = <<0, 14>> /\ g3 = <<0, 0, 15>> /\ g4 = <<0, 16>> /\ g5 = <<0, 17, 18, 0>>
            /\ g6 = <<0, 7>> /\ g7 = <<0, 16, 9>> /\ g8 = <<0, 20>> /\ g9 = <<0, 3>>
    OBVIOUS
  <2>2. {g1, g2, g3, g4, g5, g6, g7, g8, g9} \subseteq Graphs
    BY <2>1, <1>1, <1>2, <1>3, <1>4
  <2>3. mpeg4_back = << g1, g2, g3, g4, g5, g6, g7, g8, g9 >>
    BY <2>1 DEF mpeg4_back
  <2> QED BY <2>2, <2>3
<1>7. vopd_front \in Seq(Graphs) /\ vopd_front # << >>
  <2>1. PICK g1, g2, g3, g4, g5, g6, g7, g8 :
            /\ g1 = <<4, 17, 0>> /\ g2 = <<0, 5>> /\ g3 = <<0, 6>> /\ g4 = <<0, 7>> /\ g5 = <<0, 8, 0>>
            /\ g6 = <<0, 9, 19>> /\ g7 = <<0, 0, 10>> /\ g8 = <<0, 11>>
    OBVIOUS
  <2>2. {g1, g2, g3, g4, g5, g6, g7, g8} \subseteq Graphs
    BY <2>1, <1>1, <1>2, <1>3, <1>4
  <2>3. vopd_front = << g1, g2, g3, g4, g5, g6, g7, g8 >>
    BY <2>1 DEF vopd_front
  <2> QED BY <2>2, <2>3
<1>8. vopd_back \in Seq(Graphs) /\ vopd_back # << >>
  <2>1. PICK g1, g2, g3, g4, g5, g6, g7, g8, g9 :
            /\ g1 = <<0, 12, 0>> /\ g2 = <<0, 0, 13, 0>> /\ g3 = <<0, 11, 12, 3>> /\ g4 = <<0, 15>> /\ g5 = <<0, 9, 12, 16>>
            /\ g6 = <<0, 0, 17>> /\ g7 = <<0, 18, 0>> /\ g8 = <<0, 14, 16>> /\ g9 = <<0, 7>>
    OBVIOUS
  <2>2. {g1, g2, g3, g4, g5, g6, g7, g8, g9} \subseteq Graphs
    BY <2>1, <1>1, <1>2, <1>3, <1>4
  <2>3. vopd_back = << g1, g2, g3, g4, g5, g6, g7, g8, g9 >>
    BY <2>1 DEF vopd_back
  <2> QED BY <2>2, <2>3
<1> QED BY <1>5, <1>6, <1>7, <1>8

\* The application message_test.c.
LEMMA MessageTest == Application(message_test)
<1>1. PICK p : p = message_test
  OBVIOUS
<1>2. p = [t \in 1 .. 3 |-> Services(t, IF t = 1 THEN <<2, 3>> ELSE <<0>>)]
  BY <1>1 DEF message_test
<1>3. ASSUME NEW t \in 1 .. 3 PROVE Text(p[t])
  <2>1. PICK g : g = IF t = 1 THEN <<2, 3>> ELSE <<0>>
    OBVIOUS
  <2>2. g \in Seq(Nat) /\ g # << >>
    BY <2>1
  <2> QED BY <2>1, <2>2, <1>2, ServicesAreTexts
<1>4. 1 \in Nat /\ 3 \in Nat /\ 1 <= 3 /\ DOMAIN p = 1 .. 3
  BY <1>2
<1> QED BY <1>1, <1>3, <1>4 DEF Application

\* The application mailbox_test.c.
LEMMA MailboxTest == Application(mailbox_test)
<1>1. \A m \in {1, 2, 3, 4} : \A msg : Text(HF_MboxSend(m, msg, Waiting[m]))
  <2>1. \A m \in {1, 2, 3, 4} : Waiting[m] \in Nat \ {0}
    BY DEF Waiting
  <2> QED BY <2>1, MailboxServices
<1>2. \A m : Text(HF_MboxRecv(m)) /\ Text(HF_MboxAccept(m))
  <2>1. 1 \in Nat \ {0}
    OBVIOUS
  <2> QED BY <2>1, MailboxServices
<1>3. Rounds \in Nat \ {0}
  BY TaskGraphAssumption
<1>4. Text(task0)
  <2>1. PICK f : f = [i \in 1 .. Rounds |->
            Set("fill", 0, i - 1) \o HF_MboxSend(mail, buf, Waiting[mail]) \o Wait("wait", 0)]
    OBVIOUS
  <2>2. ASSUME NEW i \in 1 .. Rounds PROVE Text(f[i])
    <3>1. PICK p1, p2, p3 : p1 = Set("fill", 0, i - 1) /\ p2 = HF_MboxSend(mail, buf, Waiting[mail]) /\ p3 = Wait("wait", 0)
      OBVIOUS
    <3>2. Text(p1) /\ Text(p2) /\ Text(p3)
      BY <3>1, <1>1, Pieces DEF mail
    <3>3. Text(p1 \o p2 \o p3)
      BY <3>2, TextJoin
    <3> QED BY <3>1, <3>3, <2>1
  <2>3. f = [i \in 1 .. Rounds |-> f[i]]
    BY <2>1
  <2>4. Text(FlattenSeq(f))
    BY <2>2, <2>3, <1>3, TextFlatten
  <2>5. PICK g : g = [i \in 1 .. Rounds |-> HF_MboxSend(mail2, i - 1, Waiting[mail2])]
    OBVIOUS
  <2>6. g = [i \in 1 .. Rounds |-> g[i]] /\ \A i \in 1 .. Rounds : Text(g[i])
    BY <2>5, <1>1 DEF mail2
  <2>7. Text(FlattenSeq(g))
    BY <2>6, <1>3, TextFlatten
  <2>8. PICK q1, q2, q3, q4 :
            /\ q1 = FlattenSeq(f) /\ q2 = FlattenSeq(g)
            /\ q3 = HF_MboxSend(mail3, hello, Waiting[mail3]) /\ q4 = HF_MboxSend(mail4, number, Waiting[mail4])
    OBVIOUS
  <2>9. Text(q1) /\ Text(q2) /\ Text(q3) /\ Text(q4)
    BY <2>4, <2>7, <2>8, <1>1 DEF mail3, mail4
  <2>10. Text(q1 \o q2 \o q3 \o q4)
    BY <2>9, TextJoin
  <2> QED BY <2>1, <2>5, <2>8, <2>10 DEF task0
<1>5. Text(task1)
  <2>1. PICK p1, p2, p3 : p1 = HF_MboxRecv(mail) /\ p2 = Do("show", 0) /\ p3 = Post("wait", 0)
    OBVIOUS
  <2>2. Text(p1) /\ Text(p2) /\ Text(p3)
    BY <2>1, <1>2, Pieces
  <2>3. Text(p1 \o p2 \o p3)
    BY <2>2, TextJoin
  <2> QED BY <2>1, <2>3 DEF task1
<1>6. Text(task2) /\ Text(task3) /\ Text(task4) /\ Text(task5)
  BY <1>2 DEF task2, task3, task4, task5
<1>7. PICK p : p = mailbox_test
  OBVIOUS
<1>8. p = <<task0, task1, task2, task3, task4, task5>>
  BY <1>7 DEF mailbox_test
<1>9. DOMAIN p = 1 .. 6 /\ \A t \in 1 .. 6 : p[t] \in {task0, task1, task2, task3, task4, task5}
  BY <1>8
<1>10. \A t \in 1 .. 6 : Text(p[t])
  BY <1>4, <1>5, <1>6, <1>9
<1> QED BY <1>7, <1>9, <1>10 DEF Application

\* The application philosophers.c.
LEMMA Dinner == Application(philosophers)
<1>1. ASSUME NEW i PROVE Text(philosopher(i))
  <2>1. ASSUME NEW j PROVE Text(test(j))
    <3>1. PICK p1, p2, p3, p4, p5 :
              /\ p1 = Do("hungry", j) /\ p2 = Do("left", j) /\ p3 = Do("right", j)
              /\ p4 = Do("takes", j) /\ p5 = Do("tells", j)
      OBVIOUS
    <3>2. Text(p1) /\ Text(p2) /\ Text(p3) /\ Text(p4) /\ Text(p5)
      BY <3>1, Pieces
    <3>3. Text(p1 \o p2 \o p3 \o p4 \o p5)
      BY <3>2, TextJoin
    <3> QED BY <3>1, <3>3 DEF test
  <2>2. Text(take_forks(i))
    <3>1. PICK p1, p2, p3, p4, p5 :
              /\ p1 = Wait("mtx", 0) /\ p2 = Set("state", i, HUNGRY) /\ p3 = test(i)
              /\ p4 = Post("mtx", 0) /\ p5 = Wait("s", i)
      OBVIOUS
    <3>2. Text(p1) /\ Text(p2) /\ Text(p3) /\ Text(p4) /\ Text(p5)
      BY <3>1, <2>1, Pieces
    <3>3. Text(p1 \o p2 \o p3 \o p4 \o p5)
      BY <3>2, TextJoin
    <3> QED BY <3>1, <3>3 DEF take_forks
  <2>3. Text(put_forks(i))
    <3>1. PICK p1, p2, p3, p4, p5 :
              /\ p1 = Wait("mtx", 0) /\ p2 = Set("state", i, THINKING) /\ p3 = test(LEFT(i))
              /\ p4 = test(RIGHT(i)) /\ p5 = Post("mtx", 0)
      OBVIOUS
    <3>2. Text(p1) /\ Text(p2) /\ Text(p3) /\ Text(p4) /\ Text(p5)
      BY <3>1, <2>1, Pieces
    <3>3. Text(p1 \o p2 \o p3 \o p4 \o p5)
      BY <3>2, TextJoin
    <3> QED BY <3>1, <3>3 DEF put_forks
  <2>4. PICK p1, p2, p3 : p1 = take_forks(i) /\ p2 = Do("eat", i) /\ p3 = put_forks(i)
    OBVIOUS
  <2>5. Text(p1) /\ Text(p2) /\ Text(p3)
    BY <2>2, <2>3, <2>4, Pieces
  <2>6. Text(p1 \o p2 \o p3)
    BY <2>5, TextJoin
  <2> QED BY <2>4, <2>6 DEF philosopher
<1>2. PICK p : p = philosophers
  OBVIOUS
<1>3. p = [t \in 1 .. N |-> philosopher(t - 1)]
  BY <1>2 DEF philosophers
<1>4. 1 \in Nat /\ N \in Nat /\ 1 <= N /\ DOMAIN p = 1 .. N /\ \A t \in 1 .. N : Text(p[t])
  BY <1>1, <1>3, TaskGraphAssumption
<1> QED BY <1>2, <1>4 DEF Application

\* All applications are texts.
LEMMA Applications == \A a \in Apps : Application(Programs[a])
<1>1. ASSUME NEW a \in Apps PROVE Application(Programs[a])
  <2>1. a \in {"mpeg4_test", "vopd_test", "message_test", "mailbox_test", "philosophers"}
    BY TaskGraphAssumption
  <2>2. CASE a = "mpeg4_test"
    <3>1. PICK g, p, q : p = mpeg4_front /\ q = mpeg4_back /\ g = p \o q
      OBVIOUS
    <3>2. g \in Seq(Graphs) /\ g # << >>
      <4>1. p \in Seq(Graphs) /\ q \in Seq(Graphs) /\ p # << >>
        BY <3>1, TheGraphs
      <4>2. g \in Seq(Graphs) /\ Len(g) = Len(p) + Len(q)
        BY <4>1, <3>1, ConcatProperties
      <4>3. Len(p) \in Nat /\ Len(q) \in Nat /\ Len(p) # 0
        BY <4>1, LenProperties, EmptySeq
      <4> QED BY <4>2, <4>3
    <3>3. Programs[a] = FromTask3(g)
      BY <2>2, <3>1 DEF Programs
    <3> QED BY <3>2, <3>3, TaskGraphs
  <2>3. CASE a = "vopd_test"
    <3>1. PICK g, p, q : p = vopd_front /\ q = vopd_back /\ g = p \o q
      OBVIOUS
    <3>2. g \in Seq(Graphs) /\ g # << >>
      <4>1. p \in Seq(Graphs) /\ q \in Seq(Graphs) /\ p # << >>
        BY <3>1, TheGraphs
      <4>2. g \in Seq(Graphs) /\ Len(g) = Len(p) + Len(q)
        BY <4>1, <3>1, ConcatProperties
      <4>3. Len(p) \in Nat /\ Len(q) \in Nat /\ Len(p) # 0
        BY <4>1, LenProperties, EmptySeq
      <4> QED BY <4>2, <4>3
    <3>3. Programs[a] = FromTask3(g)
      BY <2>3, <3>1 DEF Programs
    <3> QED BY <3>2, <3>3, TaskGraphs
  <2>4. CASE a = "message_test"
    BY <2>4, MessageTest DEF Programs
  <2>5. CASE a = "mailbox_test"
    BY <2>5, MailboxTest DEF Programs
  <2>6. CASE a = "philosophers"
    BY <2>6, Dinner DEF Programs
  <2> QED BY <2>1, <2>2, <2>3, <2>4, <2>5, <2>6
<1> QED BY <1>1

-----------------------------------------------------------------------------
(* The table *)

\* A task or one that loops has the core, and every task is inside its text.
TableInv == /\ app \in Apps
            /\ current \in Slots
            /\ pc \in [Tasks -> Nat]
            /\ \A t \in Tasks : pc[t] \in 1 .. Len(Program[t])

\* The tasks of the application that runs.
LEMMA TaskTexts ==
    ASSUME app \in Apps
    PROVE  /\ \E lo, hi \in Nat \ {0} : lo <= hi /\ Tasks = lo .. hi
           /\ \A t \in Tasks : Text(Program[t]) /\ Len(Program[t]) \in Nat \ {0}
<1>1. PICK p : p = Program
  OBVIOUS
<1>2. Application(p)
  BY <1>1, Applications DEF Program
<1>3. PICK lo, hi \in Nat \ {0} : lo <= hi /\ DOMAIN p = lo .. hi /\ \A t \in lo .. hi : Text(p[t])
  BY <1>2 DEF Application
<1>4. Tasks = DOMAIN p
  BY <1>1 DEF Tasks
<1>5. ASSUME NEW t \in Tasks PROVE Text(p[t]) /\ Len(p[t]) \in Nat \ {0}
  <2>1. Text(p[t])
    BY <1>3, <1>4
  <2>2. PICK S : p[t] \in Seq(S) /\ p[t] # << >>
    BY <2>1 DEF Text
  <2> QED BY <2>1, <2>2, LenProperties, EmptySeq
<1> QED BY <1>1, <1>3, <1>4, <1>5

\* The tasks that loop are not those of the graph, which are numbered from 3 where
\* there are tasks 1 and 2 that loop.
LEMMA LoopsApart ==
    ASSUME app \in Apps
    PROVE  Loops \cap Tasks = {}
<1>1. CASE app \notin {"mpeg4_test", "vopd_test"}
  <2>1. Loops = {idletask}
    BY <1>1 DEF Loops, LoopsOf
  <2>2. PICK lo, hi \in Nat \ {0} : Tasks = lo .. hi
    BY TaskTexts
  <2> QED BY <2>1, <2>2 DEF idletask
<1>2. CASE app \in {"mpeg4_test", "vopd_test"}
  <2>1. Loops = {0, 1, 2}
    BY <1>2 DEF Loops, LoopsOf, idletask
  <2>2. \E g : Program = FromTask3(g) /\ Len(g) \in Nat
    <3>1. \A p, q \in Seq(Graphs) : p \o q \in Seq(Graphs)
      BY ConcatProperties
    <3>2. /\ mpeg4_front \o mpeg4_back \in Seq(Graphs)
          /\ vopd_front \o vopd_back \in Seq(Graphs)
      BY <3>1, TheGraphs
    <3>3. CASE app = "mpeg4_test"
      BY <3>2, <3>3, LenProperties DEF Program, Programs
    <3>4. CASE app = "vopd_test"
      BY <3>2, <3>4, LenProperties DEF Program, Programs
    <3> QED BY <1>2, <3>3, <3>4
  <2>3. PICK n \in Nat : Tasks = 3 .. n + 2
    BY <2>2 DEF Tasks, FromTask3
  <2> QED BY <2>1, <2>3
<1> QED BY <1>1, <1>2

\* A task that goes on, or back to its first statement, stays inside its text.
LEMMA AdvanceKeeps ==
    ASSUME TableInv, NEW ts, Advance(ts), app' = app
    PROVE  /\ pc' \in [Tasks -> Nat] /\ Tasks' = Tasks /\ Program' = Program
           /\ \A t \in Tasks : pc'[t] \in 1 .. Len(Program[t])
<1>1. Tasks' = Tasks /\ Program' = Program
  BY DEF Tasks, Program
<1>2. pc' = [t \in Tasks |-> IF t \in ts THEN After(t) ELSE pc[t]]
  BY DEF Advance
<1>3. ASSUME NEW t \in Tasks PROVE After(t) \in 1 .. Len(Program[t])
  <2>1. PICK n, k : n = Len(Program[t]) /\ k = pc[t]
    OBVIOUS
  <2>2. n \in Nat \ {0} /\ k \in Nat
    BY <2>1, TaskTexts DEF TableInv
  <2>3. k % n \in 0 .. n - 1
    BY <2>2, ModRange
  <2>4. (k % n) + 1 \in 1 .. n
    BY <2>2, <2>3
  <2> QED BY <2>1, <2>4 DEF After
<1>4. ASSUME NEW t \in Tasks PROVE pc'[t] \in 1 .. Len(Program[t])
  BY <1>2, <1>3 DEF TableInv
<1>5. ASSUME NEW t \in Tasks PROVE pc'[t] \in Nat
  BY <1>4, TaskTexts DEF TableInv
<1>6. pc' = [t \in Tasks |-> pc'[t]]
  BY <1>2
<1> QED BY <1>1, <1>4, <1>5, <1>6

\* A step keeps it that gives the core to one of the table.
LEMMA OthersKeep ==
    ASSUME TableInv, app' = app, current' \in Slots,
           pc' = pc \/ \E ts : Advance(ts)
    PROVE  TableInv'
<1>1. Tasks' = Tasks /\ Program' = Program
  BY DEF Tasks, Program
<1>2. /\ pc' \in [Tasks -> Nat]
      /\ \A t \in Tasks : pc'[t] \in 1 .. Len(Program[t])
  <2>1. CASE pc' = pc
    BY <2>1 DEF TableInv
  <2>2. CASE \E ts : Advance(ts)
    BY <2>2, AdvanceKeeps
  <2> QED BY <2>1, <2>2
<1>3. Slots' = Slots
  BY DEF Slots, Tasks, Program, Loops
<1> QED BY <1>1, <1>2, <1>3 DEF TableInv

\* The dispatcher gives the core to a ready task, or to one that loops.
LEMMA Dispatched ==
    ASSUME NEW ready, Dispatch(ready)
    PROVE  app' = app /\ current' \in ready
BY DEF Dispatch, HF_TaskBestEffortReschedule

\* Who is ready is in the table and does not sleep.
LEMMA ReadyAwake ==
    ASSUME NEW u \in Ready
    PROVE  u \in Slots /\ (u \in Loops \/ (u \in Tasks /\ ~Sleeping(u)))
BY DEF Ready, Slots

\* A post wakes a task or none.
LEMMA PostsAdvances ==
    ASSUME NEW s, Posts(s)
    PROVE  \E ts : Advance(ts)
BY DEF Posts

\* The running task does its statement.
LEMMA StepKeeps ==
    ASSUME TableInv, Step
    PROVE  TableInv'
<1>1. current \in Tasks /\ current \in Slots
  BY DEF Step, Slots
<1>2. CASE SemWait
  <2>1. CASE Advance({current}) /\ UNCHANGED core
    BY <2>1, <1>1, OthersKeep DEF core
  <2>2. CASE Dispatch(Ready \ {current}) /\ pc' = pc
    <3>1. app' = app /\ current' \in Slots
      BY <2>2, Dispatched, ReadyAwake
    <3> QED BY <2>2, <3>1, OthersKeep
  <2> QED BY <1>2, <2>1, <2>2 DEF SemWait
<1>3. CASE UNCHANGED core /\ \E ts : Advance(ts)
  BY <1>1, <1>3, OthersKeep DEF core
<1>4. CASE Plain
  BY <1>3, <1>4 DEF Plain
<1>5. CASE SemPost
  BY <1>3, <1>5, PostsAdvances DEF SemPost
<1>6. CASE MboxAccept
  BY <1>3, <1>6, PostsAdvances DEF MboxAccept
<1>7. CASE Tells
  BY <1>3, <1>7, PostsAdvances DEF Tells
<1>8. CASE \/ \E field \in {"source", "size", "ptr"} : Write(field)
           \/ Copy \/ MboxPut \/ MboxGet \/ MboxCount \/ MboxEmpty \/ Fill \/ Show
           \/ SetState \/ Hungry \/ Left \/ Right \/ Takes \/ Eat
  <2>1. Plain
    BY <1>8 DEF Write, Copy, MboxPut, MboxGet, MboxCount, MboxEmpty, Fill, Show, SetState, Hungry, Left, Right, Finds, Takes, Eat
  <2> QED BY <2>1, <1>4
<1> QED BY <1>2, <1>5, <1>6, <1>7, <1>8 DEF Step

\* The tick gives the processor away, at any statement.
LEMMA TickKeeps ==
    ASSUME TableInv, Tick
    PROVE  TableInv'
<1>1. Dispatch(Ready) /\ pc' = pc
  BY DEF Tick
<1>2. app' = app /\ current' \in Slots
  BY <1>1, Dispatched, ReadyAwake
<1> QED BY <1>1, <1>2, OthersKeep

\* The idle task has the core at first, and the others are at their first statement.
LEMMA InitTable == Init => TableInv
<1> SUFFICES ASSUME Init PROVE TableInv
  OBVIOUS
<1>1. app \in Apps /\ pc = [t \in Tasks |-> 1] /\ current = idletask
  BY DEF Init
<1>2. current \in Slots
  BY <1>1 DEF Slots, Loops, LoopsOf
<1>3. \A t \in Tasks : 1 \in 1 .. Len(Program[t])
  <2>1. ASSUME NEW t \in Tasks PROVE 1 \in 1 .. Len(Program[t])
    <3>1. Len(Program[t]) \in Nat \ {0}
      BY <1>1, TaskTexts
    <3> QED BY <3>1
  <2> QED BY <2>1
<1> QED BY <1>1, <1>2, <1>3 DEF TableInv

\* Every step keeps the invariant.
LEMMA TableInductive == TableInv /\ [Next]_vars => TableInv'
<1> SUFFICES ASSUME TableInv, [Next]_vars
             PROVE  TableInv'
  OBVIOUS
<1>1. CASE Step
  BY <1>1, StepKeeps
<1>2. CASE Tick
  BY <1>2, TickKeeps
<1>3. CASE UNCHANGED vars
  <2>1. app' = app /\ current' = current /\ pc' = pc
    BY <1>3 DEF vars, core
  <2>2. current' \in Slots
    BY <2>1 DEF TableInv
  <2> QED BY <2>1, <2>2, OthersKeep
<1> QED BY <1>1, <1>2, <1>3 DEF Next

-----------------------------------------------------------------------------
(* How statements follow each other *)

\* A text of statements of S from x to y, each followed by one that R lets follow.
Run(S, R, p, x, y) == /\ p \in Seq(S) /\ p # << >> /\ p[1] = x /\ p[Len(p)] = y
                      /\ \A k \in 1 .. Len(p) - 1 : <<p[k], p[k + 1]>> \in R

\* The texts from one of B to one of E.
Runs(S, R, B, E) == {p \in Seq(S) : \E x \in B, y \in E : Run(S, R, p, x, y)}

\* A statement, two runs, and many runs one after the other.
LEMMA RunOne ==
    ASSUME NEW S, NEW R, NEW x \in S
    PROVE  Run(S, R, <<x>>, x, x)
<1>1. PICK p : p = <<x>>
  OBVIOUS
<1>2. p \in Seq(S) /\ Len(p) = 1 /\ p[1] = x /\ p # << >>
  BY <1>1
<1>3. \A k \in 1 .. Len(p) - 1 : <<p[k], p[k + 1]>> \in R
  BY <1>2
<1> QED BY <1>1, <1>2, <1>3 DEF Run

\* One run after another.
LEMMA RunJoin ==
    ASSUME NEW S, NEW R, NEW p, NEW q, NEW x, NEW y, NEW u, NEW v,
           Run(S, R, p, x, y), Run(S, R, q, u, v), <<y, u>> \in R
    PROVE  Run(S, R, p \o q, x, v)
<1>2. /\ p \in Seq(S) /\ p # << >> /\ p[1] = x /\ p[Len(p)] = y
      /\ \A k \in 1 .. Len(p) - 1 : <<p[k], p[k + 1]>> \in R
  BY DEF Run
<1>3. /\ q \in Seq(S) /\ q # << >> /\ q[1] = u /\ q[Len(q)] = v
      /\ \A k \in 1 .. Len(q) - 1 : <<q[k], q[k + 1]>> \in R
  BY DEF Run
<1>4. PICK m, n : m = Len(p) /\ n = Len(q)
  OBVIOUS
<1>5. m \in Nat \ {0} /\ n \in Nat \ {0}
  BY <1>2, <1>3, <1>4, LenProperties, EmptySeq
<1>6. PICK r : r = p \o q
  OBVIOUS
<1>7. /\ r \in Seq(S) /\ Len(r) = m + n
      /\ \A i \in 1 .. m + n : r[i] = IF i <= m THEN p[i] ELSE q[i - m]
  BY <1>2, <1>3, <1>4, <1>6, ConcatProperties
<1>8. r # << >>
  BY <1>5, <1>7
<1>9. r[1] = x
  BY <1>2, <1>5, <1>7
<1>10. r[Len(r)] = v
  BY <1>3, <1>4, <1>5, <1>7
<1>11. ASSUME NEW k \in 1 .. Len(r) - 1 PROVE <<r[k], r[k + 1]>> \in R
  <2>1. k \in Nat /\ k >= 1 /\ k <= m + n - 1
    BY <1>5, <1>7
  <2>2. CASE k < m
    <3>1. r[k] = p[k] /\ r[k + 1] = p[k + 1] /\ k \in 1 .. Len(p) - 1
      BY <2>1, <2>2, <1>4, <1>5, <1>7
    <3> QED BY <3>1, <1>2
  <2>3. CASE k = m
    <3>1. r[k] = p[m] /\ r[k + 1] = q[1]
      BY <2>1, <2>3, <1>5, <1>7
    <3> QED BY <3>1, <1>2, <1>3, <1>4
  <2>4. CASE k > m
    <3>1. PICK j : j = k - m
      OBVIOUS
    <3>2. r[k] = q[j] /\ r[k + 1] = q[j + 1] /\ j \in 1 .. Len(q) - 1
      BY <2>1, <2>4, <3>1, <1>4, <1>5, <1>7
    <3> QED BY <3>2, <1>3
  <2> QED BY <2>1, <2>2, <2>3, <2>4, <1>5
<1> QED BY <1>6, <1>7, <1>8, <1>9, <1>10, <1>11 DEF Run

\* Runs follow each other.
LEMMA RunsJoin ==
    ASSUME NEW S, NEW R, NEW B, NEW E, \A y \in E, u \in B : <<y, u>> \in R,
           NEW p \in Runs(S, R, B, E), NEW q \in Runs(S, R, B, E)
    PROVE  p \o q \in Runs(S, R, B, E)
<1>1. PICK x \in B, y \in E : Run(S, R, p, x, y)
  BY DEF Runs
<1>2. PICK u \in B, v \in E : Run(S, R, q, u, v)
  BY DEF Runs
<1>3. Run(S, R, p \o q, x, v)
  BY <1>1, <1>2, RunJoin
<1>4. p \o q \in Seq(S)
  BY <1>3 DEF Run
<1> QED BY <1>3, <1>4 DEF Runs

\* A list of runs is a run.
LEMMA RunsFlatten ==
    ASSUME NEW S, NEW R, NEW B, NEW E, \A y \in E, u \in B : <<y, u>> \in R,
           NEW n \in Nat \ {0}, NEW f, f = [k \in 1 .. n |-> f[k]], \A k \in 1 .. n : f[k] \in Runs(S, R, B, E)
    PROVE  FlattenSeq(f) \in Runs(S, R, B, E)
<1>1. PICK T : T = Runs(S, R, B, E)
  OBVIOUS
<1>2. \A p, q \in T : p \o q \in T
  BY <1>1, RunsJoin
<1>3. \A k \in 1 .. n : f[k] \in T
  BY <1>1
<1> QED BY <1>1, <1>2, <1>3, FlattenIn

\* Round the text: after the last statement comes the first.
LEMMA RunsRound ==
    ASSUME NEW S, NEW R, NEW B, NEW E, \A y \in E, u \in B : <<y, u>> \in R,
           NEW p \in Runs(S, R, B, E), NEW k \in 1 .. Len(p)
    PROVE  /\ (k % Len(p)) + 1 \in 1 .. Len(p)
           /\ <<p[k], p[(k % Len(p)) + 1]>> \in R
           /\ p[k] \in S
<1>1. PICK x \in B, y \in E : Run(S, R, p, x, y)
  BY DEF Runs
<1>2. /\ p \in Seq(S) /\ p # << >> /\ p[1] = x /\ p[Len(p)] = y
      /\ \A j \in 1 .. Len(p) - 1 : <<p[j], p[j + 1]>> \in R
  BY <1>1 DEF Run
<1>3. PICK n : n = Len(p)
  OBVIOUS
<1>4. n \in Nat \ {0} /\ k \in Nat /\ k <= n
  BY <1>2, <1>3, LenProperties, EmptySeq
<1>5. p[k] \in S
  BY <1>2, ElementOfSeq
<1>6. CASE k = n
  <2>1. k % n = 0
    BY <1>4, <1>6
  <2> QED BY <2>1, <1>2, <1>3, <1>4, <1>5, <1>6
<1>7. CASE k < n
  <2>1. k % n = k
    BY <1>4, <1>7
  <2>2. k \in 1 .. Len(p) - 1 /\ k + 1 \in 1 .. Len(p)
    BY <1>3, <1>4, <1>7
  <2> QED BY <2>1, <2>2, <1>2, <1>3, <1>5
<1> QED BY <1>4, <1>6, <1>7

-----------------------------------------------------------------------------
(* The statements of the message services *)

WaitOn(kind, n) == [do |-> "wait", on |-> <<kind, n>>]
PostOn(kind, n) == [do |-> "post", on |-> <<kind, n>>]
Store(field, to, me, k) == [do |-> field, at |-> to, value |-> <<me, k>>]
CopyOf(me) == [do |-> "copy", at |-> me]

\* The statements of HF_MsgSend and HF_MsgRecv, called by task me.
Statements(me) ==
    {Store(field, to, me, k) : field \in {"source", "size", "ptr"}, to \in Nat, k \in Nat}
    \cup {WaitOn("send", me), CopyOf(me), PostOn("recv", me)}
    \cup {PostOn("send", to) : to \in Nat} \cup {WaitOn("recv", to) : to \in Nat}

\* The first statements of a service of task me, and the last ones.
Begins(me) == {WaitOn("send", me)} \cup {Store("source", to, me, k) : to \in Nat, k \in Nat}
Ends(me) == {PostOn("recv", me)} \cup {WaitOn("recv", to) : to \in Nat}

\* Statement y comes after x in the text of task me.
Follows(me, x, y) ==
    \/ \E to, k \in Nat : \/ x = Store("source", to, me, k) /\ y = Store("size", to, me, k)
                          \/ x = Store("size", to, me, k) /\ y = Store("ptr", to, me, k)
                          \/ x = Store("ptr", to, me, k) /\ y = PostOn("send", to)
    \/ \E to \in Nat : x = PostOn("send", to) /\ y = WaitOn("recv", to)
    \/ x = WaitOn("send", me) /\ y = CopyOf(me)
    \/ x = CopyOf(me) /\ y = PostOn("recv", me)
    \/ x \in Ends(me) /\ y \in Begins(me)

Order(me) == {z \in Statements(me) \X Statements(me) : Follows(me, z[1], z[2])}

\* The texts made of HF_MsgSend and HF_MsgRecv.
MsgTexts(me) == Runs(Statements(me), Order(me), Begins(me), Ends(me))

\* The order as a relation, for the lemmas on runs.
LEMMA MsgOrder ==
    ASSUME NEW me
    PROVE  /\ Begins(me) \subseteq Statements(me) /\ Ends(me) \subseteq Statements(me)
           /\ \A y \in Ends(me), u \in Begins(me) : <<y, u>> \in Order(me)
           /\ \A x, y \in Statements(me) : Follows(me, x, y) <=> <<x, y>> \in Order(me)
<1>1. Begins(me) \subseteq Statements(me) /\ Ends(me) \subseteq Statements(me)
  BY DEF Begins, Ends, Statements
<1>2. \A x, y \in Statements(me) : Follows(me, x, y) <=> <<x, y>> \in Order(me)
  <2> HIDE DEF Statements, Follows
  <2> QED BY DEF Order
<1>3. \A y \in Ends(me), u \in Begins(me) : Follows(me, y, u)
  BY DEF Follows
<1> QED BY <1>1, <1>2, <1>3

\* The calls of ipc.c.
LEMMA MsgCalls ==
    ASSUME NEW me \in Nat, NEW k \in Nat, NEW to \in Nat
    PROVE  HF_MsgSend(me, k, to) \in MsgTexts(me) /\ HF_MsgRecv(me) \in MsgTexts(me)
<1>1. PICK S, R : S = Statements(me) /\ R = Order(me)
  OBVIOUS
<1>2. HF_MsgSend(me, k, to) \in MsgTexts(me)
  <2>1. PICK x1, x2, x3, x4, x5 :
            /\ x1 = Store("source", to, me, k) /\ x2 = Store("size", to, me, k) /\ x3 = Store("ptr", to, me, k)
            /\ x4 = PostOn("send", to) /\ x5 = WaitOn("recv", to)
    OBVIOUS
  <2>2. x1 \in S /\ x2 \in S /\ x3 \in S /\ x4 \in S /\ x5 \in S
    BY <2>1, <1>1 DEF Statements
  <2>3. Follows(me, x1, x2) /\ Follows(me, x2, x3) /\ Follows(me, x3, x4) /\ Follows(me, x4, x5)
    BY <2>1 DEF Follows
  <2>4. <<x1, x2>> \in R /\ <<x2, x3>> \in R /\ <<x3, x4>> \in R /\ <<x4, x5>> \in R
    BY <2>2, <2>3, <1>1, MsgOrder
  <2>5. /\ Run(S, R, <<x1>>, x1, x1) /\ Run(S, R, <<x2>>, x2, x2) /\ Run(S, R, <<x3>>, x3, x3)
        /\ Run(S, R, <<x4>>, x4, x4) /\ Run(S, R, <<x5>>, x5, x5)
    BY <2>2, RunOne
  <2>6. Run(S, R, <<x1>> \o <<x2>>, x1, x2)
    BY <2>4, <2>5, RunJoin
  <2>7. Run(S, R, <<x1>> \o <<x2>> \o <<x3>>, x1, x3)
    BY <2>4, <2>5, <2>6, RunJoin
  <2>8. Run(S, R, <<x1>> \o <<x2>> \o <<x3>> \o <<x4>>, x1, x4)
    BY <2>4, <2>5, <2>7, RunJoin
  <2>9. Run(S, R, <<x1>> \o <<x2>> \o <<x3>> \o <<x4>> \o <<x5>>, x1, x5)
    BY <2>4, <2>5, <2>8, RunJoin
  <2>10. HF_MsgSend(me, k, to) = <<x1>> \o <<x2>> \o <<x3>> \o <<x4>> \o <<x5>>
    BY <2>1 DEF HF_MsgSend, Set, Wait, Post, Store, PostOn, WaitOn
  <2>11. x1 \in Begins(me) /\ x5 \in Ends(me)
    BY <2>1 DEF Begins, Ends
  <2>12. Run(S, R, HF_MsgSend(me, k, to), x1, x5)
    BY <2>9, <2>10
  <2>13. HF_MsgSend(me, k, to) \in Seq(S)
    BY <2>12 DEF Run
  <2> QED BY <2>11, <2>12, <2>13, <1>1 DEF MsgTexts, Runs
<1>3. HF_MsgRecv(me) \in MsgTexts(me)
  <2>1. PICK x1, x2, x3 : x1 = WaitOn("send", me) /\ x2 = CopyOf(me) /\ x3 = PostOn("recv", me)
    OBVIOUS
  <2>2. x1 \in S /\ x2 \in S /\ x3 \in S
    BY <2>1, <1>1 DEF Statements
  <2>3. Follows(me, x1, x2) /\ Follows(me, x2, x3)
    BY <2>1 DEF Follows
  <2>4. <<x1, x2>> \in R /\ <<x2, x3>> \in R
    BY <2>2, <2>3, <1>1, MsgOrder
  <2>5. Run(S, R, <<x1>>, x1, x1) /\ Run(S, R, <<x2>>, x2, x2) /\ Run(S, R, <<x3>>, x3, x3)
    BY <2>2, RunOne
  <2>6. Run(S, R, <<x1>> \o <<x2>>, x1, x2)
    BY <2>4, <2>5, RunJoin
  <2>7. Run(S, R, <<x1>> \o <<x2>> \o <<x3>>, x1, x3)
    BY <2>4, <2>5, <2>6, RunJoin
  <2>8. HF_MsgRecv(me) = <<x1>> \o <<x2>> \o <<x3>>
    BY <2>1 DEF HF_MsgRecv, Wait, Do, Post, CopyOf, PostOn, WaitOn
  <2>9. x1 \in Begins(me) /\ x3 \in Ends(me)
    BY <2>1 DEF Begins, Ends
  <2>10. Run(S, R, HF_MsgRecv(me), x1, x3)
    BY <2>7, <2>8
  <2>11. HF_MsgRecv(me) \in Seq(S)
    BY <2>10 DEF Run
  <2> QED BY <2>9, <2>10, <2>11, <1>1 DEF MsgTexts, Runs
<1> QED BY <1>2, <1>3

\* What a task of a graph does.
LEMMA MsgServices ==
    ASSUME NEW me \in Nat, NEW graph \in Graphs
    PROVE  Services(me, graph) \in MsgTexts(me)
<1>1. graph \in Seq(Nat) /\ Len(graph) \in Nat \ {0}
  <2>1. graph \in Seq(Nat) /\ graph # << >>
    BY DEF Graphs
  <2> QED BY <2>1, LenProperties, EmptySeq
<1>2. PICK f : f = [k \in 1 .. Len(graph) |-> IF graph[k] = 0 THEN HF_MsgRecv(me) ELSE HF_MsgSend(me, k, graph[k])]
  OBVIOUS
<1>3. PICK T : T = MsgTexts(me)
  OBVIOUS
<1>4. ASSUME NEW k \in 1 .. Len(graph) PROVE f[k] \in T
  <2>1. k \in Nat /\ graph[k] \in Nat
    BY <1>1, ElementOfSeq
  <2>2. HF_MsgRecv(me) \in T /\ HF_MsgSend(me, k, graph[k]) \in T
    BY <2>1, <1>3, MsgCalls
  <2> QED BY <2>2, <1>2
<1>6. f = [k \in 1 .. Len(graph) |-> f[k]]
  BY <1>2
<1>7. FlattenSeq(f) \in T
  <2>1. PICK S, R, B, E : S = Statements(me) /\ R = Order(me) /\ B = Begins(me) /\ E = Ends(me)
    OBVIOUS
  <2>2. T = Runs(S, R, B, E) /\ \A y \in E, u \in B : <<y, u>> \in R
    BY <2>1, <1>3, MsgOrder DEF MsgTexts
  <2> QED BY <2>2, <1>1, <1>4, <1>6, RunsFlatten
<1> QED BY <1>2, <1>3, <1>7 DEF Services

\* The task graphs are made of these calls.
LEMMA GraphTexts ==
    ASSUME NEW a \in Apps, a \in Graph, NEW t \in DOMAIN Programs[a]
    PROVE  t \in Nat /\ Programs[a][t] \in MsgTexts(t)
<1>1. ASSUME NEW front \in Seq(Graphs), NEW back \in Seq(Graphs), Programs[a] = FromTask3(front \o back)
      PROVE  t \in Nat /\ Programs[a][t] \in MsgTexts(t)
  <2>1. PICK g : g = front \o back
    OBVIOUS
  <2>2. g \in Seq(Graphs) /\ Len(g) \in Nat
    BY <2>1, ConcatProperties, LenProperties
  <2>3. PICK p : p = Programs[a]
    OBVIOUS
  <2>4. p = [u \in 3 .. Len(g) + 2 |-> Services(u, g[u - 2])]
    BY <2>1, <2>3, <1>1 DEF FromTask3
  <2>5. t \in 3 .. Len(g) + 2 /\ p[t] = Services(t, g[t - 2])
    BY <2>3, <2>4
  <2>6. t - 2 \in 1 .. Len(g) /\ t \in Nat
    BY <2>2, <2>5
  <2>7. g[t - 2] \in Graphs
    BY <2>2, <2>6, ElementOfSeq
  <2>8. Services(t, g[t - 2]) \in MsgTexts(t)
    BY <2>6, <2>7, MsgServices
  <2> QED BY <2>3, <2>5, <2>6, <2>8
<1>2. CASE a = "mpeg4_test"
  <2>1. Programs[a] = FromTask3(mpeg4_front \o mpeg4_back)
    BY <1>2 DEF Programs
  <2> QED BY <2>1, <1>1, TheGraphs
<1>3. CASE a = "vopd_test"
  <2>1. Programs[a] = FromTask3(vopd_front \o vopd_back)
    BY <1>3 DEF Programs
  <2> QED BY <2>1, <1>1, TheGraphs
<1>4. CASE a = "message_test"
  <2>1. PICK p : p = Programs[a]
    OBVIOUS
  <2>2. p = [u \in 1 .. 3 |-> Services(u, IF u = 1 THEN <<2, 3>> ELSE <<0>>)]
    BY <2>1, <1>4 DEF Programs, message_test
  <2>3. PICK g : g = IF t = 1 THEN <<2, 3>> ELSE <<0>>
    OBVIOUS
  <2>4. g \in Graphs
    BY <2>3 DEF Graphs
  <2>5. t \in 1 .. 3 /\ p[t] = Services(t, g)
    BY <2>1, <2>2, <2>3
  <2>6. t \in Nat
    BY <2>5
  <2> QED BY <2>1, <2>4, <2>5, <2>6, MsgServices
<1> QED BY <1>2, <1>3, <1>4 DEF Graph

\* What comes next in such a text, round its end too.
LEMMA MsgNext ==
    ASSUME NEW me, NEW p \in MsgTexts(me), NEW k \in 1 .. Len(p)
    PROVE  /\ (k % Len(p)) + 1 \in 1 .. Len(p)
           /\ Follows(me, p[k], p[(k % Len(p)) + 1])
           /\ p[k] \in Statements(me)
<1>1. PICK S, R, B, E : S = Statements(me) /\ R = Order(me) /\ B = Begins(me) /\ E = Ends(me)
  OBVIOUS
<1>2. p \in Runs(S, R, B, E) /\ \A y \in E, u \in B : <<y, u>> \in R
  BY <1>1, MsgOrder DEF MsgTexts
<1>3. (k % Len(p)) + 1 \in 1 .. Len(p) /\ <<p[k], p[(k % Len(p)) + 1]>> \in R /\ p[k] \in S
  BY <1>2, RunsRound
<1>4. p[(k % Len(p)) + 1] \in S
  BY <1>2, <1>3, RunsRound
<1> QED BY <1>1, <1>3, <1>4, MsgOrder
-----------------------------------------------------------------------------
(* The lines of the semaphores *)

\* The statement after the one of t.
NextOf(t) == Program[t][After(t)]

\* The tasks that sleep on semaphore s wait there, each once, and none has the core.
LineOK(s) ==
    /\ line[s] \in Seq(Tasks)
    /\ \A j \in 1 .. Len(line[s]) : /\ line[s][j] # current
                                    /\ Statement(line[s][j]).do = "wait" /\ Statement(line[s][j]).on = s
    /\ \A i, j \in 1 .. Len(line[s]) : i # j => line[s][i] # line[s][j]

LineInv == /\ TableInv
           /\ count \in [Semaphores -> Nat]
           /\ line = [s \in Semaphores |-> line[s]]
           /\ \A s \in Semaphores : LineOK(s)

\* A task that waits or posts does so with a semaphore of the application.
LEMMA OnSemaphore ==
    ASSUME TableInv, NEW t \in Tasks, Statement(t).do \in {"wait", "post"}
    PROVE  Statement(t).on \in Semaphores
<1>1. PICK P, x : P = Programs[app] /\ x = Statement(t)
  OBVIOUS
<1>2. x = P[t][pc[t]] /\ t \in DOMAIN P
  BY <1>1 DEF Statement, Program, Tasks
<1>3. pc[t] \in DOMAIN P[t]
  <2>1. PICK S : P[t] \in Seq(S)
    BY <1>1, TaskTexts DEF TableInv, Text, Program
  <2>2. pc[t] \in 1 .. Len(P[t])
    BY <1>1 DEF TableInv, Program
  <2> QED BY <2>1, <2>2, LenProperties
<1>4. x \in ToSet(P[t])
  BY <1>2, <1>3 DEF ToSet
<1>5. x \in UNION {ToSet(P[u]) : u \in DOMAIN P}
  BY <1>2, <1>4
<1>6. x.on \in {y.on : y \in {z \in UNION {ToSet(P[u]) : u \in DOMAIN P} : z.do \in {"wait", "post"}}}
  BY <1>1, <1>5
<1>7. app \in Apps
  BY DEF TableInv
<1> QED BY <1>1, <1>6, <1>7 DEF Semaphores, SemaphoresOf

\* Tasks that go on go on by a statement.
LEMMA Advanced ==
    ASSUME TableInv, NEW ts, Advance(ts), app' = app
    PROVE  /\ Tasks' = Tasks /\ Program' = Program /\ Semaphores' = Semaphores
           /\ \A t \in Tasks : Statement(t)' = IF t \in ts THEN NextOf(t) ELSE Statement(t)
<1>1. Tasks' = Tasks /\ Program' = Program /\ Semaphores' = Semaphores
  BY DEF Tasks, Program, Semaphores
<1>2. \A t \in Tasks : pc'[t] = IF t \in ts THEN After(t) ELSE pc[t]
  BY DEF Advance
<1>3. ASSUME NEW t \in Tasks PROVE Statement(t)' = IF t \in ts THEN NextOf(t) ELSE Statement(t)
  <2>1. Statement(t)' = Program[t][pc'[t]]
    BY <1>1 DEF Statement
  <2> QED BY <2>1, <1>2 DEF NextOf, Statement
<1> QED BY <1>1, <1>3

\* Tasks that stay are where they were.
LEMMA Unmoved ==
    ASSUME app' = app, pc' = pc
    PROVE  Tasks' = Tasks /\ Program' = Program /\ Semaphores' = Semaphores /\ \A t \in Tasks : Statement(t)' = Statement(t)
BY DEF Tasks, Program, Semaphores, Statement

\* The running task goes on and the lines stay.
LEMMA PlainLine ==
    ASSUME LineInv, TableInv', app' = app, current' = current, line' = line, count' \in [Semaphores -> Nat],
           Advance({current})
    PROVE  LineInv'
<1>1. /\ Tasks' = Tasks /\ Semaphores' = Semaphores
      /\ \A t \in Tasks : t # current => Statement(t)' = Statement(t)
  BY Advanced DEF LineInv
<1>2. ASSUME NEW s \in Semaphores PROVE LineOK(s)'
  <2>1. PICK q : q = line[s]
    OBVIOUS
  <2>2. /\ q \in Seq(Tasks)
        /\ \A j \in 1 .. Len(q) : q[j] # current /\ Statement(q[j]).do = "wait" /\ Statement(q[j]).on = s
        /\ \A i, j \in 1 .. Len(q) : i # j => q[i] # q[j]
    BY <2>1 DEF LineInv, LineOK
  <2>3. \A j \in 1 .. Len(q) : q[j] \in Tasks
    BY <2>2, ElementOfSeq
  <2>4. \A j \in 1 .. Len(q) : Statement(q[j])' = Statement(q[j])
    BY <1>1, <2>2, <2>3
  <2>5. line'[s] = q
    BY <2>1
  <2> QED BY <1>1, <2>2, <2>4, <2>5 DEF LineOK
<1>3. line' = [s \in Semaphores' |-> line'[s]]
  BY <1>1 DEF LineInv
<1> QED BY <1>1, <1>2, <1>3 DEF LineInv

\* A post wakes the first of the line, or leaves a unit.
LEMMA PostLine ==
    ASSUME LineInv, TableInv', app' = app, current' = current, current \in Tasks, Statement(current).do # "wait",
           NEW s \in Semaphores, Posts(s)
    PROVE  /\ LineInv'
           /\ \/ /\ count' = [count EXCEPT ![s] = Least(@ + 1, MaxCount)]
                 /\ line[s] = << >>
                 /\ \A t \in Tasks : Statement(t)' = IF t = current THEN NextOf(t) ELSE Statement(t)
              \/ /\ count' = count
                 /\ \E h \in Tasks : /\ h # current /\ Statement(h).do = "wait" /\ Statement(h).on = s
                                     /\ \A t \in Tasks : Statement(t)' = IF t \in {current, h} THEN NextOf(t) ELSE Statement(t)
<1>1. CASE line[s] = << >>
  <2>1. count' = [count EXCEPT ![s] = Least(@ + 1, MaxCount)] /\ line' = line /\ Advance({current})
    BY <1>1 DEF Posts
  <2>2. count \in [Semaphores -> Nat] /\ count[s] \in Nat
    BY DEF LineInv
  <2>3. Least(count[s] + 1, MaxCount) \in Nat
    BY <2>2, TaskGraphAssumption DEF Least
  <2>4. count' \in [Semaphores -> Nat]
    BY <2>1, <2>2, <2>3
  <2>5. LineInv'
    BY <2>1, <2>4, PlainLine
  <2>6. \A t \in Tasks : Statement(t)' = IF t = current THEN NextOf(t) ELSE Statement(t)
    BY <2>1, Advanced DEF LineInv
  <2> QED BY <1>1, <2>1, <2>5, <2>6
<1>2. CASE line[s] # << >>
  <2>1. PICK q, h : q = line[s] /\ h = Head(q)
    OBVIOUS
  <2>2. line' = [line EXCEPT ![s] = Tail(@)] /\ count' = count /\ Advance({current, h})
    BY <1>2, <2>1 DEF Posts
  <2>3. /\ q \in Seq(Tasks) /\ q # << >>
        /\ \A j \in 1 .. Len(q) : q[j] # current /\ Statement(q[j]).do = "wait" /\ Statement(q[j]).on = s
        /\ \A i, j \in 1 .. Len(q) : i # j => q[i] # q[j]
    BY <1>2, <2>1 DEF LineInv, LineOK
  <2>4. Len(q) \in Nat \ {0}
    BY <2>3, LenProperties, EmptySeq
  <2>5. PICK r : r = Tail(q)
    OBVIOUS
  <2>6. h = q[1] /\ r \in Seq(Tasks) /\ Len(r) = Len(q) - 1 /\ \A j \in 1 .. Len(r) : r[j] = q[j + 1]
    BY <2>1, <2>3, <2>5, HeadTailProperties
  <2>7. h \in Tasks /\ h # current /\ Statement(h).do = "wait" /\ Statement(h).on = s
    <3>1. 1 \in 1 .. Len(q)
      BY <2>4
    <3> QED BY <3>1, <2>3, <2>6, ElementOfSeq
  <2>8. /\ Tasks' = Tasks /\ Semaphores' = Semaphores
        /\ \A t \in Tasks : Statement(t)' = IF t \in {current, h} THEN NextOf(t) ELSE Statement(t)
    BY <2>2, Advanced DEF LineInv
  <2>9. line = [z \in Semaphores |-> line[z]]
    BY DEF LineInv
  <2>10. line'[s] = r /\ (\A z \in Semaphores : z # s => line'[z] = line[z]) /\ line' = [z \in Semaphores |-> line'[z]]
    BY <2>1, <2>2, <2>5, <2>9
  <2>11. ASSUME NEW z \in Semaphores, z # s PROVE LineOK(z)'
    <3>1. PICK w : w = line[z]
      OBVIOUS
    <3>2. /\ w \in Seq(Tasks)
          /\ \A j \in 1 .. Len(w) : w[j] # current /\ Statement(w[j]).do = "wait" /\ Statement(w[j]).on = z
          /\ \A i, j \in 1 .. Len(w) : i # j => w[i] # w[j]
      BY <3>1 DEF LineInv, LineOK
    <3>3. \A j \in 1 .. Len(w) : w[j] \in Tasks
      BY <3>2, ElementOfSeq
    <3>4. \A j \in 1 .. Len(w) : w[j] # h
      BY <3>2, <2>7, <2>11
    <3>5. \A j \in 1 .. Len(w) : Statement(w[j])' = Statement(w[j])
      BY <3>2, <3>3, <3>4, <2>8
    <3>6. line'[z] = w
      BY <3>1, <2>10, <2>11
    <3> QED BY <3>2, <3>5, <3>6, <2>8 DEF LineOK
  <2>12. LineOK(s)'
    <3>1. \A j \in 1 .. Len(r) : j \in Nat /\ j + 1 \in 1 .. Len(q) /\ j + 1 # 1 /\ 1 \in 1 .. Len(q)
      BY <2>4, <2>6
    <3>2. \A j \in 1 .. Len(r) : r[j] # h /\ r[j] # current /\ Statement(r[j]).do = "wait" /\ Statement(r[j]).on = s
      BY <3>1, <2>3, <2>6
    <3>3. \A i, j \in 1 .. Len(r) : i # j => r[i] # r[j]
      <4>1. \A i, j \in 1 .. Len(r) : i # j => i + 1 # j + 1
        BY <3>1
      <4> QED BY <4>1, <3>1, <2>3, <2>6
    <3>4. \A j \in 1 .. Len(r) : r[j] \in Tasks
      BY <2>6, ElementOfSeq
    <3>5. \A j \in 1 .. Len(r) : Statement(r[j])' = Statement(r[j])
      BY <3>2, <3>4, <2>8
    <3> QED BY <3>2, <3>3, <3>5, <2>6, <2>8, <2>10 DEF LineOK
  <2>13. LineInv'
    <3>1. count' \in [Semaphores' -> Nat]
      BY <2>2, <2>8 DEF LineInv
    <3>2. \A z \in Semaphores' : LineOK(z)'
      BY <2>8, <2>11, <2>12
    <3> QED BY <3>1, <3>2, <2>8, <2>10 DEF LineInv
  <2> QED BY <2>2, <2>7, <2>8, <2>13
<1> QED BY <1>1, <1>2

\* Who does not sleep is in no line.
LEMMA AwakeNotInLine ==
    ASSUME LineInv, NEW u \in Tasks, ~Sleeping(u), NEW s \in Semaphores, NEW j \in 1 .. Len(line[s])
    PROVE  line[s][j] # u
<1>1. PICK q : q = line[s]
  OBVIOUS
<1>2. q \in Seq(Tasks) /\ Statement(q[j]).do = "wait" /\ Statement(q[j]).on = s
  BY <1>1 DEF LineInv, LineOK
<1>3. DOMAIN q = 1 .. Len(q)
  BY <1>2, LenProperties
<1>4. q[j] \in ToSet(q)
  BY <1>1, <1>3 DEF ToSet
<1> QED BY <1>1, <1>2, <1>4 DEF Sleeping, At

\* Nor is who is ready.
LEMMA NotInLine ==
    ASSUME LineInv, NEW u \in Ready, NEW s \in Semaphores, NEW j \in 1 .. Len(line[s])
    PROVE  line[s][j] # u
<1>1. line[s][j] \in Tasks
  <2>1. line[s] \in Seq(Tasks)
    BY DEF LineInv, LineOK
  <2> QED BY <2>1, ElementOfSeq
<1>2. Loops \cap Tasks = {}
  BY LoopsApart DEF LineInv, TableInv
<1>3. u \in Loops \/ (u \in Tasks /\ ~Sleeping(u))
  BY ReadyAwake
<1> QED BY <1>1, <1>2, <1>3, AwakeNotInLine

\* A task gets the core that does not sleep.
LEMMA TickLine ==
    ASSUME LineInv, TableInv', Tick
    PROVE  LineInv'
<1>1. app' = app /\ pc' = pc /\ count' = count /\ line' = line /\ current' \in Ready
  BY Dispatched DEF Tick, semaphores
<1>2. Tasks' = Tasks /\ Semaphores' = Semaphores /\ \A t \in Tasks : Statement(t)' = Statement(t)
  BY <1>1, Unmoved
<1>3. PICK u : u = current'
  OBVIOUS
<1>4. ASSUME NEW s \in Semaphores PROVE LineOK(s)'
  <2>1. PICK q : q = line[s]
    OBVIOUS
  <2>2. /\ q \in Seq(Tasks)
        /\ \A j \in 1 .. Len(q) : Statement(q[j]).do = "wait" /\ Statement(q[j]).on = s
        /\ \A i, j \in 1 .. Len(q) : i # j => q[i] # q[j]
    BY <2>1 DEF LineInv, LineOK
  <2>3. \A j \in 1 .. Len(q) : q[j] \in Tasks
    BY <2>2, ElementOfSeq
  <2>4. \A j \in 1 .. Len(q) : q[j] # u
    BY <2>1, <1>1, <1>3, NotInLine
  <2>5. \A j \in 1 .. Len(q) : Statement(q[j])' = Statement(q[j])
    BY <1>2, <2>3
  <2>6. line'[s] = q /\ current' = u
    BY <2>1, <1>1, <1>3
  <2> QED BY <1>2, <2>2, <2>4, <2>5, <2>6 DEF LineOK
<1>5. count' \in [Semaphores' -> Nat] /\ line' = [s \in Semaphores' |-> line'[s]]
  BY <1>1, <1>2 DEF LineInv
<1> QED BY <1>2, <1>4, <1>5 DEF LineInv

\* A wait takes a unit, or puts the task to sleep.
LEMMA WaitLine ==
    ASSUME LineInv, TableInv', current \in Tasks, SemWait
    PROVE  /\ LineInv'
           /\ \/ /\ count[Now.on] > 0 /\ count' = [count EXCEPT ![Now.on] = @ - 1]
                 /\ \A t \in Tasks : Statement(t)' = IF t = current THEN NextOf(t) ELSE Statement(t)
              \/ count' = count /\ \A t \in Tasks : Statement(t)' = Statement(t)
<1>1. PICK s : s = Now.on
  OBVIOUS
<1>2. Statement(current).do = "wait" /\ Statement(current).on = s /\ app' = app
  BY <1>1 DEF SemWait, Dispatch, Now, core
<1>3. s \in Semaphores
  BY <1>2, OnSemaphore DEF LineInv
<1>4. count \in [Semaphores -> Nat]
  BY DEF LineInv
<1>5. CASE count[s] > 0
  <2>1. count' = [count EXCEPT ![s] = @ - 1] /\ line' = line /\ current' = current /\ Advance({current})
    BY <1>1, <1>5 DEF SemWait, core
  <2>2. count' \in [Semaphores -> Nat]
    BY <2>1, <1>3, <1>4, <1>5
  <2>3. LineInv'
    BY <2>1, <2>2, <1>2, PlainLine
  <2>4. \A t \in Tasks : Statement(t)' = IF t = current THEN NextOf(t) ELSE Statement(t)
    BY <2>1, <1>2, Advanced DEF LineInv
  <2> QED BY <2>1, <2>3, <2>4, <1>1, <1>5
<1>6. CASE ~(count[s] > 0)
  <2>1. line' = [line EXCEPT ![s] = Append(@, current)] /\ current' \in Ready \ {current} /\ pc' = pc /\ count' = count
    BY <1>1, <1>6, Dispatched DEF SemWait
  <2>2. Tasks' = Tasks /\ Semaphores' = Semaphores /\ \A t \in Tasks : Statement(t)' = Statement(t)
    BY <2>1, <1>2, Unmoved
  <2>3. line = [z \in Semaphores |-> line[z]]
    BY DEF LineInv
  <2>4. PICK q, c, u : q = line[s] /\ c = current /\ u = current'
    OBVIOUS
  <2>5. PICK r : r = Append(q, c)
    OBVIOUS
  <2>6. line'[s] = r /\ (\A z \in Semaphores : z # s => line'[z] = line[z]) /\ line' = [z \in Semaphores |-> line'[z]]
    <3>1. line' = [line EXCEPT ![s] = r]
      BY <2>1, <2>4, <2>5
    <3> QED BY <3>1, <2>3, <1>3
  <2>7. /\ q \in Seq(Tasks)
        /\ \A j \in 1 .. Len(q) : q[j] # c /\ Statement(q[j]).do = "wait" /\ Statement(q[j]).on = s
        /\ \A i, j \in 1 .. Len(q) : i # j => q[i] # q[j]
    BY <2>4, <1>3 DEF LineInv, LineOK
  <2>8. Len(q) \in Nat /\ r \in Seq(Tasks) /\ Len(r) = Len(q) + 1 /\ \A j \in 1 .. Len(r) : r[j] = IF j <= Len(q) THEN q[j] ELSE c
    BY <2>4, <2>5, <2>7, AppendProperties, LenProperties
  <2>9. u # c /\ \A z \in Semaphores : \A j \in 1 .. Len(line[z]) : line[z][j] # u
    BY <2>1, <2>4, NotInLine
  <2>11. ASSUME NEW z \in Semaphores, z # s PROVE LineOK(z)'
    <3>1. PICK w : w = line[z]
      OBVIOUS
    <3>2. /\ w \in Seq(Tasks)
          /\ \A j \in 1 .. Len(w) : Statement(w[j]).do = "wait" /\ Statement(w[j]).on = z
          /\ \A i, j \in 1 .. Len(w) : i # j => w[i] # w[j]
      BY <3>1 DEF LineInv, LineOK
    <3>3. \A j \in 1 .. Len(w) : w[j] \in Tasks
      BY <3>2, ElementOfSeq
    <3>4. \A j \in 1 .. Len(w) : w[j] # u
      BY <3>1, <2>9
    <3>5. \A j \in 1 .. Len(w) : Statement(w[j])' = Statement(w[j])
      BY <3>3, <2>2
    <3>6. line'[z] = w /\ current' = u
      BY <3>1, <2>1, <2>4, <2>6, <2>11
    <3> QED BY <3>2, <3>4, <3>5, <3>6, <2>2 DEF LineOK
  <2>12. LineOK(s)'
    <3>1. \A j \in 1 .. Len(r) : r[j] \in Tasks
      BY <2>8, ElementOfSeq
    <3>2. \A j \in 1 .. Len(r) : Statement(r[j]).do = "wait" /\ Statement(r[j]).on = s
      BY <2>4, <2>7, <2>8, <1>2
    <3>3. \A j \in 1 .. Len(r) : r[j] # u
      <4>1. \A j \in 1 .. Len(q) : q[j] # u
        BY <2>4, <2>9, <1>3
      <4> QED BY <4>1, <2>8, <2>9
    <3>4. \A i, j \in 1 .. Len(r) : i # j => r[i] # r[j]
      BY <2>7, <2>8
    <3>5. \A j \in 1 .. Len(r) : Statement(r[j])' = Statement(r[j])
      BY <3>1, <2>2
    <3>6. line'[s] = r /\ current' = u
      BY <2>1, <2>4, <2>6
    <3> QED BY <3>2, <3>3, <3>4, <3>5, <3>6, <2>2, <2>8 DEF LineOK
  <2>13. count' \in [Semaphores' -> Nat]
    BY <2>1, <2>2, <1>4
  <2>14. \A z \in Semaphores' : LineOK(z)'
    BY <2>2, <2>11, <2>12
  <2> QED BY <2>1, <2>2, <2>6, <2>13, <2>14 DEF LineInv
<1> QED BY <1>5, <1>6
-----------------------------------------------------------------------------
(* Statements of the task graphs *)

\* What comes after a statement, and before it.
LEMMA NextIs ==
    ASSUME NEW me \in Nat, NEW x, NEW y, Follows(me, x, y)
    PROVE  /\ \A to, k \in Nat : /\ x = Store("source", to, me, k) => y = Store("size", to, me, k)
                                 /\ x = Store("size", to, me, k) => y = Store("ptr", to, me, k)
                                 /\ x = Store("ptr", to, me, k) => y = PostOn("send", to)
           /\ \A to \in Nat : x = PostOn("send", to) => y = WaitOn("recv", to)
           /\ x = WaitOn("send", me) => y = CopyOf(me)
           /\ x = CopyOf(me) => y = PostOn("recv", me)
           /\ \A to, k \in Nat : y = Store("size", to, me, k) => x = Store("source", to, me, k)
           /\ \A to, k \in Nat : y = Store("ptr", to, me, k) => x = Store("size", to, me, k)
           /\ \A to \in Nat : y = PostOn("send", to) => \E k \in Nat : x = Store("ptr", to, me, k)
           /\ \A to \in Nat : y = WaitOn("recv", to) => x = PostOn("send", to)
           /\ y = CopyOf(me) => x = WaitOn("send", me)
           /\ y = PostOn("recv", me) => x = CopyOf(me)
<1>1. CASE \E to, k \in Nat : \/ x = Store("source", to, me, k) /\ y = Store("size", to, me, k)
                              \/ x = Store("size", to, me, k) /\ y = Store("ptr", to, me, k)
                              \/ x = Store("ptr", to, me, k) /\ y = PostOn("send", to)
  BY <1>1 DEF Store, PostOn, WaitOn, CopyOf
<1>2. CASE \E to \in Nat : x = PostOn("send", to) /\ y = WaitOn("recv", to)
  BY <1>2 DEF Store, PostOn, WaitOn, CopyOf
<1>3. CASE x = WaitOn("send", me) /\ y = CopyOf(me)
  BY <1>3 DEF Store, PostOn, WaitOn, CopyOf
<1>4. CASE x = CopyOf(me) /\ y = PostOn("recv", me)
  BY <1>4 DEF Store, PostOn, WaitOn, CopyOf
<1>5. CASE x \in Ends(me) /\ y \in Begins(me)
  BY <1>5 DEF Ends, Begins, Store, PostOn, WaitOn, CopyOf
<1> QED BY <1>1, <1>2, <1>3, <1>4, <1>5 DEF Follows

\* The statement of a task of a graph and the next one.
LEMMA MsgStatement ==
    ASSUME TableInv, app \in Graph, NEW t \in Tasks
    PROVE  /\ t \in Nat
           /\ Statement(t) \in Statements(t) /\ NextOf(t) \in Statements(t)
           /\ Follows(t, Statement(t), NextOf(t))
<1>1. PICK p, k : p = Program[t] /\ k = pc[t]
  OBVIOUS
<1>2. t \in Nat /\ p \in MsgTexts(t)
  <2>1. app \in Apps /\ t \in DOMAIN Programs[app]
    BY DEF TableInv, Tasks, Program
  <2> QED BY <2>1, <1>1, GraphTexts DEF Program
<1>3. k \in 1 .. Len(p)
  BY <1>1 DEF TableInv
<1>4. (k % Len(p)) + 1 \in 1 .. Len(p) /\ Follows(t, p[k], p[(k % Len(p)) + 1]) /\ p[k] \in Statements(t)
  BY <1>2, <1>3, MsgNext
<1>5. p[(k % Len(p)) + 1] \in Statements(t)
  BY <1>2, <1>4, MsgNext
<1>6. Statement(t) = p[k] /\ NextOf(t) = p[(k % Len(p)) + 1]
  BY <1>1 DEF Statement, NextOf, After
<1> QED BY <1>2, <1>4, <1>5, <1>6

\* The kinds of statements.
LEMMA Kinds ==
    ASSUME NEW me \in Nat, NEW x \in Statements(me)
    PROVE  /\ x.do \in {"source", "size", "ptr", "wait", "post", "copy"}
           /\ x.do \in {"source", "size", "ptr"} => \E to, k \in Nat : x = Store(x.do, to, me, k)
           /\ x.do = "wait" => x = WaitOn("send", me) \/ \E to \in Nat : x = WaitOn("recv", to)
           /\ x.do = "post" => x = PostOn("recv", me) \/ \E to \in Nat : x = PostOn("send", to)
           /\ x.do = "copy" => x = CopyOf(me)
BY DEF Statements, Store, PostOn, WaitOn, CopyOf

\* Who writes to a task, posts to it or waits for its answer is a sender of it.
LEMMA SenderOf ==
    ASSUME TableInv, app \in Graph, NEW t \in Tasks, NEW u \in Tasks,
           \/ \E k \in Nat : Statement(t) \in {Store("source", u, t, k), Store("size", u, t, k), Store("ptr", u, t, k)}
           \/ Statement(t) \in {PostOn("send", u), WaitOn("recv", u)}
    PROVE  t \in Senders[app][u]
<1>1. PICK p, k : p = Program[t] /\ k = pc[t]
  OBVIOUS
<1>2. app \in Apps /\ t \in DOMAIN Programs[app] /\ u \in DOMAIN Programs[app]
  BY DEF TableInv, Tasks, Program
<1>3. t \in Nat /\ u \in Nat /\ p \in MsgTexts(t)
  BY <1>1, <1>2, GraphTexts DEF Program
<1>4. k \in 1 .. Len(p) /\ Statement(t) = p[k]
  BY <1>1 DEF TableInv, Statement
<1>5. \A j \in 1 .. Len(p) : \E i \in 1 .. Len(p) : Follows(t, p[j], p[i])
  BY <1>3, MsgNext
<1> DEFINE Has(x) == \E j \in 1 .. Len(p) : p[j] = x
<1>6. ASSUME NEW x, Has(x)
      PROVE  \E y : Follows(t, x, y) /\ Has(y)
  BY <1>5, <1>6
<1>7. Has(Statement(t))
  BY <1>4
<1>8. WaitOn("recv", u) = Statement(t) \/ \E x : x = PostOn("send", u) /\ Has(x)
  <2> HIDE DEF Has
  <2>1. ASSUME NEW m \in Nat, Has(Store("ptr", u, t, m)) PROVE Has(PostOn("send", u))
    <3>1. PICK y : Follows(t, Store("ptr", u, t, m), y) /\ Has(y)
      BY <1>6, <2>1
    <3>2. y = PostOn("send", u)
      BY <3>1, <1>3, NextIs
    <3> QED BY <3>1, <3>2
  <2>2. ASSUME NEW m \in Nat, Has(Store("size", u, t, m)) PROVE Has(PostOn("send", u))
    <3>1. PICK y : Follows(t, Store("size", u, t, m), y) /\ Has(y)
      BY <1>6, <2>2
    <3>2. y = Store("ptr", u, t, m)
      BY <3>1, <1>3, NextIs
    <3> QED BY <3>1, <3>2, <2>1
  <2>3. ASSUME NEW m \in Nat, Has(Store("source", u, t, m)) PROVE Has(PostOn("send", u))
    <3>1. PICK y : Follows(t, Store("source", u, t, m), y) /\ Has(y)
      BY <1>6, <2>3
    <3>2. y = Store("size", u, t, m)
      BY <3>1, <1>3, NextIs
    <3> QED BY <3>1, <3>2, <2>2
  <2> QED BY <2>1, <2>2, <2>3, <1>7
<1>9. Has(WaitOn("recv", u))
  <2> HIDE DEF Has
  <2>1. ASSUME Has(PostOn("send", u)) PROVE Has(WaitOn("recv", u))
    <3>1. PICK y : Follows(t, PostOn("send", u), y) /\ Has(y)
      BY <1>6, <2>1
    <3>2. y = WaitOn("recv", u)
      BY <3>1, <1>3, NextIs
    <3> QED BY <3>1, <3>2
  <2> QED BY <2>1, <1>7, <1>8
<1>10. [do |-> "wait", on |-> <<"recv", u>>] \in ToSet(Programs[app][t])
  <2>1. PICK j \in 1 .. Len(p) : p[j] = WaitOn("recv", u)
    BY <1>9
  <2>2. DOMAIN p = 1 .. Len(p)
    <3>1. PICK S : p \in Seq(S)
      BY <1>3 DEF MsgTexts, Runs
    <3> QED BY <3>1, LenProperties
  <2> QED BY <2>1, <2>2, <1>1 DEF ToSet, WaitOn, Program
<1> QED BY <1>2, <1>10 DEF Senders

\* A task that can be sent to can be waited for.
LEMMA BothSemaphores ==
    ASSUME TableInv, app \in Graph, NEW u \in Tasks, <<"send", u>> \in Semaphores
    PROVE  <<"recv", u>> \in Semaphores
<1>1. PICK P : P = Programs[app]
  OBVIOUS
<1>2. app \in Apps /\ app # "mailbox_test"
  BY DEF TableInv, Graph
<1>3. Semaphores = {y.on : y \in {z \in UNION {ToSet(P[t]) : t \in DOMAIN P} : z.do \in {"wait", "post"}}}
  BY <1>1, <1>2 DEF Semaphores, SemaphoresOf
<1>4. PICK t \in DOMAIN P : \E x \in ToSet(P[t]) : x.do \in {"wait", "post"} /\ x.on = <<"send", u>>
  BY <1>3
<1>4a. PICK x \in ToSet(P[t]) : x.do \in {"wait", "post"} /\ x.on = <<"send", u>>
  BY <1>4
<1>5. PICK p : p = P[t]
  OBVIOUS
<1>6. t \in Nat /\ p \in MsgTexts(t) /\ u \in Nat
  BY <1>1, <1>2, <1>5, GraphTexts DEF Tasks, Program
<1>7. DOMAIN p = 1 .. Len(p)
  <2>1. PICK S : p \in Seq(S)
    BY <1>6 DEF MsgTexts, Runs
  <2> QED BY <2>1, LenProperties
<1>8. PICK k \in 1 .. Len(p) : x = p[k]
  BY <1>4a, <1>5, <1>7 DEF ToSet
<1>9. \A j \in 1 .. Len(p) : (j % Len(p)) + 1 \in 1 .. Len(p) /\ Follows(t, p[j], p[(j % Len(p)) + 1]) /\ p[j] \in Statements(t)
  BY <1>6, MsgNext
<1> DEFINE Has(z) == \E j \in 1 .. Len(p) : p[j] = z
<1>10. ASSUME NEW z, Has(z) PROVE z \in Statements(t) /\ \E y : Follows(t, z, y) /\ Has(y)
  BY <1>9, <1>10
<1>10a. Has(x)
  BY <1>8
<1>10b. \E z : Has(z) /\ z.do \in {"wait", "post"} /\ z.on = <<"recv", u>>
  <2> HIDE DEF Has
  <2>1. x \in Statements(t)
    BY <1>10, <1>10a
  <2>2. CASE x.do = "post"
    <3>1. x = PostOn("recv", t) \/ \E to \in Nat : x = PostOn("send", to)
      BY <2>1, <2>2, <1>6, Kinds
    <3>2. x = PostOn("send", u)
      BY <3>1, <1>4a, <1>6 DEF PostOn
    <3>3. PICK y : Follows(t, x, y) /\ Has(y)
      BY <1>10, <1>10a
    <3>4. y = WaitOn("recv", u)
      BY <3>2, <3>3, <1>6, NextIs
    <3>5. y.do = "wait" /\ y.on = <<"recv", u>>
      BY <3>4 DEF WaitOn
    <3> QED BY <3>3, <3>5
  <2>3. CASE x.do = "wait"
    <3>1. x = WaitOn("send", t) \/ \E to \in Nat : x = WaitOn("recv", to)
      BY <2>1, <2>3, <1>6, Kinds
    <3>2. x = WaitOn("send", t) /\ t = u
      BY <3>1, <1>4a, <1>6 DEF WaitOn
    <3>3. PICK y : Follows(t, x, y) /\ Has(y)
      BY <1>10, <1>10a
    <3>4. y = CopyOf(t)
      BY <3>2, <3>3, <1>6, NextIs
    <3>5. PICK z : Follows(t, y, z) /\ Has(z)
      BY <1>10, <3>3
    <3>6. z = PostOn("recv", t)
      BY <3>4, <3>5, <1>6, NextIs
    <3>7. z.do = "post" /\ z.on = <<"recv", u>>
      BY <3>2, <3>6 DEF PostOn
    <3> QED BY <3>5, <3>7
  <2> QED BY <2>2, <2>3, <1>4a
<1>11. PICK j \in 1 .. Len(p) : p[j].do \in {"wait", "post"} /\ p[j].on = <<"recv", u>>
  BY <1>10b
<1>12. p[j] \in UNION {ToSet(P[v]) : v \in DOMAIN P}
  BY <1>4, <1>5, <1>7 DEF ToSet
<1> QED BY <1>3, <1>11, <1>12

\* What a step of a task graph does is decided by the statement.
LEMMA MsgStep ==
    ASSUME TableInv, app \in Graph, Step
    PROVE  /\ current \in Tasks
           /\ \/ Statement(current).do = "post" /\ SemPost
              \/ Statement(current).do = "wait" /\ SemWait
              \/ \E field \in {"source", "size", "ptr"} : Statement(current).do = field /\ Write(field)
              \/ Statement(current).do = "copy" /\ Copy
<1>1. current \in Tasks
  BY DEF Step, TableInv
<1>2. Statement(current).do \in {"source", "size", "ptr", "wait", "post", "copy"}
  BY <1>1, MsgStatement, Kinds
<1>3. Now = Statement(current)
  BY DEF Now
<1> QED BY <1>1, <1>2, <1>3 DEF Step, SemPost, SemWait, Write, Copy, MboxPut, MboxGet, MboxCount, MboxEmpty, MboxAccept,
             Fill, Show, SetState, Hungry, Left, Right, Finds, Takes, Tells, Eat
-----------------------------------------------------------------------------
(* The messages *)

\* The senders that wait for an answer of u, and whether u has a message in its hands.
OffersTo(u) == {t \in Senders[app][u] : Offers(t, u)}
Busy(u) == Copies(u) \/ Replies(u)

Balanced(u) ==
    <<"send", u>> \in Semaphores =>
        Cardinality(OffersTo(u)) = count[<<"send", u>>] + Unit(Busy(u)) + count[<<"recv", u>>]

\* What the only sender of u has written to its fields.
Written(u) ==
    \A t \in Tasks : Senders[app][u] = {t} =>
        /\ \A k \in Nat : Statement(t) = Store("size", u, t, k) => message[u].source = <<t, k>>
        /\ \A k \in Nat : Statement(t) = Store("ptr", u, t, k) => message[u].source = <<t, k>> /\ message[u].size = <<t, k>>
        /\ Statement(t) \in {PostOn("send", u), WaitOn("recv", u)} =>
               \E k \in Nat : message[u].source = <<t, k>> /\ message[u].size = <<t, k>> /\ message[u].ptr = <<t, k>>

Fields == [source : Nat \X Nat, size : Nat \X Nat, ptr : Nat \X Nat]

MsgInv == /\ LineInv
          /\ app \in Graph
          /\ message \in [Tasks -> Fields]
          /\ \A u \in Tasks : Balanced(u) /\ Written(u)

\* There are finitely many senders.
LEMMA SendersFinite ==
    ASSUME TableInv, NEW u \in Tasks
    PROVE  /\ Senders[app][u] \subseteq Tasks /\ IsFiniteSet(Senders[app][u])
           /\ OffersTo(u) \subseteq Senders[app][u] /\ IsFiniteSet(OffersTo(u))
           /\ Cardinality(OffersTo(u)) \in Nat
<1>1. PICK lo, hi \in Nat : Tasks = lo .. hi
  BY TaskTexts DEF TableInv
<1>2. IsFiniteSet(Tasks)
  BY <1>1, FS_Interval
<1>3. app \in Apps /\ u \in DOMAIN Programs[app] /\ Tasks = DOMAIN Programs[app]
  BY DEF TableInv, Tasks, Program
<1>4. Senders[app][u] \subseteq Tasks
  BY <1>3 DEF Senders
<1>5. OffersTo(u) \subseteq Senders[app][u]
  BY DEF OffersTo
<1>6. IsFiniteSet(Senders[app][u]) /\ IsFiniteSet(OffersTo(u))
  BY <1>2, <1>4, <1>5, FS_Subset
<1> QED BY <1>4, <1>5, <1>6, FS_CardinalityType

\* Waiting for an answer, copying and answering, by the statement.
LEMMA KindsFor ==
    ASSUME NEW me \in Nat, NEW x \in Statements(me), NEW u \in Nat
    PROVE  /\ (x.do = "wait" /\ x.on = <<"recv", u>>) <=> x = WaitOn("recv", u)
           /\ (x.do = "copy" \/ (x.do = "post" /\ x.on = <<"recv", me>>)) <=> x \in {CopyOf(me), PostOn("recv", me)}
<1>1. x.do = "wait" => x = WaitOn("send", me) \/ \E to \in Nat : x = WaitOn("recv", to)
  BY Kinds
<1>2. /\ x.do = "post" => x = PostOn("recv", me) \/ \E to \in Nat : x = PostOn("send", to)
      /\ x.do = "copy" => x = CopyOf(me)
  BY Kinds
<1>3. (x.do = "wait" /\ x.on = <<"recv", u>>) <=> x = WaitOn("recv", u)
  BY <1>1 DEF WaitOn
<1>4. (x.do = "post" /\ x.on = <<"recv", me>>) <=> x = PostOn("recv", me)
  BY <1>2 DEF PostOn
<1>5. x.do = "copy" <=> x = CopyOf(me)
  BY <1>2 DEF CopyOf
<1> QED BY <1>3, <1>4, <1>5

\* Who offers, copies and answers.
LEMMA ByStatement ==
    ASSUME TableInv, app \in Graph, NEW u \in Tasks
    PROVE  /\ \A t \in Tasks : t \in OffersTo(u) <=> Statement(t) = WaitOn("recv", u)
           /\ Busy(u) <=> Statement(u) \in {CopyOf(u), PostOn("recv", u)}
<1>1. ASSUME NEW t \in Tasks PROVE t \in Nat /\ Statement(t) \in Statements(t)
  BY MsgStatement
<1>2. ASSUME NEW t \in Tasks PROVE t \in OffersTo(u) <=> Statement(t) = WaitOn("recv", u)
  <2>1. Offers(t, u) <=> Statement(t) = WaitOn("recv", u)
    BY <1>1, KindsFor DEF Offers, At
  <2>2. Statement(t) = WaitOn("recv", u) => t \in Senders[app][u]
    BY SenderOf
  <2> QED BY <2>1, <2>2 DEF OffersTo
<1>3. Busy(u) <=> Statement(u) \in {CopyOf(u), PostOn("recv", u)}
  BY <1>1, KindsFor DEF Busy, Copies, Replies, At
<1> QED BY <1>2, <1>3

\* A step moves the tasks in ts to their next statements.
Moves(ts) == /\ ts \subseteq Tasks
             /\ \A t \in Tasks : Statement(t)' = IF t \in ts THEN NextOf(t) ELSE Statement(t)

\* What it does to those who offer and to who is busy.
LEMMA Moved ==
    ASSUME TableInv, TableInv', app \in Graph, app' = app, NEW ts, Moves(ts), NEW u \in Tasks
    PROVE  /\ OffersTo(u)' = (OffersTo(u) \ {t \in ts : Statement(t) = WaitOn("recv", u)})
                             \cup {t \in ts : Statement(t) = PostOn("send", u)}
           /\ Busy(u)' <=> IF u \in ts THEN Statement(u) \in {WaitOn("send", u), CopyOf(u)} ELSE Busy(u)
<1>1. Tasks' = Tasks /\ Senders[app][u]' = Senders[app][u] /\ u \in Nat
  <2>1. u \in Nat
    BY MsgStatement
  <2> QED BY <2>1 DEF Tasks, Program, Senders
<1>2. /\ \A t \in Tasks : t \in OffersTo(u)' <=> Statement(t)' = WaitOn("recv", u)
      /\ Busy(u)' <=> Statement(u)' \in {CopyOf(u), PostOn("recv", u)}
  <2>1. ASSUME NEW t \in Tasks
        PROVE  /\ t \in Nat /\ Statement(t)' \in Statements(t)
               /\ Statement(t)' = WaitOn("recv", u) => t \in Senders[app][u]
    <3>1. t \in Nat /\ Statement(t) \in Statements(t) /\ NextOf(t) \in Statements(t) /\ Follows(t, Statement(t), NextOf(t))
      BY MsgStatement
    <3>2. NextOf(t) = WaitOn("recv", u) => Statement(t) = PostOn("send", u)
      BY <3>1, <1>1, NextIs
    <3>3. Statement(t) \in {PostOn("send", u), WaitOn("recv", u)} => t \in Senders[app][u]
      BY SenderOf
    <3> QED BY <3>1, <3>2, <3>3 DEF Moves
  <2>2. ASSUME NEW t \in Tasks PROVE t \in OffersTo(u)' <=> Statement(t)' = WaitOn("recv", u)
    <3>1. Offers(t, u)' <=> Statement(t)' = WaitOn("recv", u)
      BY <2>1, <1>1, KindsFor DEF Offers, At
    <3> QED BY <3>1, <2>1, <1>1 DEF OffersTo
  <2>3. Busy(u)' <=> Statement(u)' \in {CopyOf(u), PostOn("recv", u)}
    <3>1. PICK x : x = Statement(u)'
      OBVIOUS
    <3>2. x \in Statements(u)
      BY <2>1, <3>1
    <3> QED BY <3>1, <3>2, <1>1, KindsFor DEF Busy, Copies, Replies, At
  <2> QED BY <2>2, <2>3
<1>3. /\ \A t \in Tasks : t \in OffersTo(u) <=> Statement(t) = WaitOn("recv", u)
      /\ Busy(u) <=> Statement(u) \in {CopyOf(u), PostOn("recv", u)}
  BY ByStatement
<1>4. OffersTo(u) \subseteq Tasks /\ OffersTo(u)' \subseteq Tasks
  <2>1. OffersTo(u) \subseteq Tasks
    BY SendersFinite
  <2>2. Senders[app][u] \subseteq Tasks
    BY SendersFinite
  <2> QED BY <2>1, <2>2, <1>1 DEF OffersTo
<1>5. ASSUME NEW t \in Tasks
      PROVE  /\ NextOf(t) = WaitOn("recv", u) <=> Statement(t) = PostOn("send", u)
             /\ NextOf(u) \in {CopyOf(u), PostOn("recv", u)} <=> Statement(u) \in {WaitOn("send", u), CopyOf(u)}
  <2>1. t \in Nat /\ Follows(t, Statement(t), NextOf(t)) /\ Follows(u, Statement(u), NextOf(u))
    BY MsgStatement
  <2> QED BY <2>1, <1>1, NextIs
<1>6. ASSUME NEW t \in Tasks
      PROVE  t \in OffersTo(u)' <=> IF t \in ts THEN Statement(t) = PostOn("send", u) ELSE t \in OffersTo(u)
  BY <1>2, <1>3, <1>5 DEF Moves
<1>7. ASSUME NEW t \in ts, Statement(t) = PostOn("send", u) PROVE t \notin OffersTo(u)
  BY <1>3, <1>7 DEF PostOn, WaitOn, Moves
<1>8. OffersTo(u)' = (OffersTo(u) \ {t \in ts : Statement(t) = WaitOn("recv", u)}) \cup {t \in ts : Statement(t) = PostOn("send", u)}
  <2>1. ASSUME NEW t \in Tasks
        PROVE  t \in OffersTo(u)' <=> \/ t \in OffersTo(u) /\ ~(t \in ts /\ Statement(t) = WaitOn("recv", u))
                                      \/ t \in ts /\ Statement(t) = PostOn("send", u)
    BY <1>3, <1>6
  <2>2. ts \subseteq Tasks
    BY DEF Moves
  <2> QED BY <2>1, <2>2, <1>4
<1>9. Busy(u)' <=> IF u \in ts THEN Statement(u) \in {WaitOn("send", u), CopyOf(u)} ELSE Busy(u)
  BY <1>2, <1>3, <1>5 DEF Moves
<1> QED BY <1>8, <1>9
-----------------------------------------------------------------------------
(* The balance *)

\* A task that writes or copies changes nothing in it.
LEMMA BalancedPlain ==
    ASSUME MsgInv, TableInv', app' = app, count' = count, current \in Tasks, Moves({current}),
           Statement(current).do \in {"source", "size", "ptr", "copy"}, NEW u \in Tasks
    PROVE  Balanced(u)'
<1>1. PICK c, x : c = current /\ x = Statement(c)
  OBVIOUS
<1>2. TableInv /\ app \in Graph /\ Balanced(u) /\ Semaphores' = Semaphores
  BY DEF MsgInv, LineInv, Semaphores
<1>3. \A n : x # WaitOn("recv", n) /\ x # PostOn("send", n) /\ x # WaitOn("send", n) /\ x # PostOn("recv", n)
  BY <1>1 DEF WaitOn, PostOn
<1>4. /\ OffersTo(u)' = (OffersTo(u) \ {t \in {c} : Statement(t) = WaitOn("recv", u)})
                         \cup {t \in {c} : Statement(t) = PostOn("send", u)}
      /\ Busy(u)' <=> IF u \in {c} THEN Statement(u) \in {WaitOn("send", u), CopyOf(u)} ELSE Busy(u)
  BY <1>1, <1>2, Moved
<1>5. OffersTo(u)' = OffersTo(u)
  BY <1>1, <1>3, <1>4
<1>6. Busy(u)' <=> Busy(u)
  <2>1. Busy(u) <=> Statement(u) \in {CopyOf(u), PostOn("recv", u)}
    BY <1>2, ByStatement
  <2> QED BY <2>1, <1>1, <1>3, <1>4
<1>7. Unit(Busy(u)') = Unit(Busy(u))
  BY <1>6 DEF Unit
<1> QED BY <1>2, <1>5, <1>7 DEF Balanced

\* The counts of a task that can be sent to.
LEMMA CountsOf ==
    ASSUME MsgInv, NEW u \in Tasks, <<"send", u>> \in Semaphores
    PROVE  /\ count[<<"send", u>>] \in Nat /\ count[<<"recv", u>>] \in Nat /\ <<"recv", u>> \in Semaphores
           /\ Cardinality(OffersTo(u)) \in Nat /\ IsFiniteSet(OffersTo(u))
           /\ Cardinality(OffersTo(u)) = count[<<"send", u>>] + Unit(Busy(u)) + count[<<"recv", u>>]
<1>1. TableInv /\ app \in Graph /\ Balanced(u) /\ count \in [Semaphores -> Nat]
  BY DEF MsgInv, LineInv
<1>2. <<"recv", u>> \in Semaphores
  BY <1>1, BothSemaphores
<1>3. Cardinality(OffersTo(u)) \in Nat /\ IsFiniteSet(OffersTo(u))
  BY <1>1, SendersFinite
<1> QED BY <1>1, <1>2, <1>3 DEF Balanced

\* A sender, the statement of which is the post, wakes its target or leaves it a unit.
LEMMA BalancedSend ==
    ASSUME MsgInv, TableInv', app' = app, current \in Tasks,
           NEW to \in Nat, Statement(current) = PostOn("send", to),
           \/ count' = [count EXCEPT ![<<"send", to>>] = Least(@ + 1, MaxCount)] /\ Moves({current})
           \/ /\ count' = count
              /\ \E h \in Tasks : /\ h # current /\ Statement(h).do = "wait" /\ Statement(h).on = <<"send", to>>
                                  /\ Moves({current, h}),
           NEW u \in Tasks
    PROVE  Balanced(u)'
<1>1. PICK c : c = current
  OBVIOUS
<1>2. TableInv /\ app \in Graph /\ Balanced(u) /\ Semaphores' = Semaphores /\ count \in [Semaphores -> Nat]
  BY DEF MsgInv, LineInv, Semaphores
<1>3. ASSUME NEW t \in Tasks PROVE t \in Nat
  BY <1>2, MsgStatement
<1>4. /\ \A t \in Tasks : t \in OffersTo(u) <=> Statement(t) = WaitOn("recv", u)
      /\ Busy(u) <=> Statement(u) \in {CopyOf(u), PostOn("recv", u)}
  BY <1>2, ByStatement
<1>5. c \notin OffersTo(u) /\ Statement(c) \notin {CopyOf(c), PostOn("recv", c), WaitOn("send", c), WaitOn("recv", u)}
  BY <1>1, <1>4 DEF PostOn, WaitOn, CopyOf
<1>6. Statement(c) = PostOn("send", u) <=> u = to
  BY <1>1, <1>3 DEF PostOn
<1>7. SUFFICES ASSUME <<"send", u>> \in Semaphores
               PROVE  Cardinality(OffersTo(u)') = count'[<<"send", u>>] + Unit(Busy(u)') + count'[<<"recv", u>>]
  BY <1>2 DEF Balanced
<1>8. PICK n, s, r : n = Cardinality(OffersTo(u)) /\ s = count[<<"send", u>>] /\ r = count[<<"recv", u>>]
  OBVIOUS
<1>9. n \in Nat /\ s \in Nat /\ r \in Nat /\ IsFiniteSet(OffersTo(u)) /\ n = s + Unit(Busy(u)) + r /\ <<"recv", u>> \in Semaphores
  BY <1>7, <1>8, CountsOf
<1>10. CASE u # to
  <2>1. ASSUME NEW ts, Moves(ts), c \in ts,
               \A h \in ts : h # c => Statement(h).do = "wait" /\ Statement(h).on = <<"send", to>>
        PROVE  OffersTo(u)' = OffersTo(u) /\ (Busy(u)' <=> Busy(u))
    <3>1. /\ OffersTo(u)' = (OffersTo(u) \ {t \in ts : Statement(t) = WaitOn("recv", u)}) \cup {t \in ts : Statement(t) = PostOn("send", u)}
          /\ Busy(u)' <=> IF u \in ts THEN Statement(u) \in {WaitOn("send", u), CopyOf(u)} ELSE Busy(u)
      BY <2>1, <1>2, Moved
    <3>2. \A t \in ts : Statement(t) # WaitOn("recv", u) /\ Statement(t) # PostOn("send", u)
      <4>1. \A h \in ts : h # c => Statement(h) # WaitOn("recv", u) /\ Statement(h) # PostOn("send", u)
        BY <2>1 DEF WaitOn, PostOn
      <4> QED BY <4>1, <1>5, <1>6, <1>10
    <3>3. u \in ts => Statement(u) \notin {WaitOn("send", u), CopyOf(u), PostOn("recv", u)}
      <4>1. CASE u = c
        BY <4>1, <1>5
      <4>2. CASE u # c /\ u \in ts
        <5>1. Statement(u).do = "wait" /\ Statement(u).on = <<"send", to>>
          BY <4>2, <2>1
        <5> QED BY <5>1, <1>10 DEF WaitOn, CopyOf, PostOn
      <4> QED BY <4>1, <4>2
    <3> QED BY <3>1, <3>2, <3>3, <1>4
  <2>2. OffersTo(u)' = OffersTo(u) /\ (Busy(u)' <=> Busy(u))
    <3>1. CASE Moves({c})
      BY <3>1, <2>1
    <3>2. CASE \E h \in Tasks : /\ h # c /\ Statement(h).do = "wait" /\ Statement(h).on = <<"send", to>>
                                /\ Moves({c, h})
      <4>1. PICK h \in Tasks : h # c /\ Statement(h).do = "wait" /\ Statement(h).on = <<"send", to>> /\ Moves({c, h})
        BY <3>2
      <4> QED BY <4>1, <2>1
    <3> QED BY <3>1, <3>2, <1>1
  <2>3. count'[<<"send", u>>] = s /\ count'[<<"recv", u>>] = r
    <3>1. <<"send", u>> # <<"send", to>> /\ <<"recv", u>> # <<"send", to>>
      BY <1>10
    <3> QED BY <3>1, <1>2, <1>7, <1>8, <1>9
  <2>4. Unit(Busy(u)') = Unit(Busy(u))
    BY <2>2 DEF Unit
  <2> QED BY <2>2, <2>3, <2>4, <1>8, <1>9
<1>11. CASE u = to
  <2>1. Cardinality(OffersTo(u) \cup {c}) = n + 1 /\ IsFiniteSet(OffersTo(u) \cup {c})
    BY <1>5, <1>8, <1>9, FS_AddElement
  <2>2. CASE count' = [count EXCEPT ![<<"send", to>>] = Least(@ + 1, MaxCount)] /\ Moves({c})
    <3>1. /\ OffersTo(u)' = (OffersTo(u) \ {t \in {c} : Statement(t) = WaitOn("recv", u)}) \cup {t \in {c} : Statement(t) = PostOn("send", u)}
          /\ Busy(u)' <=> IF u \in {c} THEN Statement(u) \in {WaitOn("send", u), CopyOf(u)} ELSE Busy(u)
      BY <2>2, <1>2, Moved
    <3>2. OffersTo(u)' = OffersTo(u) \cup {c}
      BY <3>1, <1>5, <1>6, <1>11
    <3>3. Busy(u)' <=> Busy(u)
      BY <3>1, <1>4, <1>5
    <3>4. n + 1 <= MaxCount
      <4>1. Senders[app][u] \subseteq Tasks /\ IsFiniteSet(Senders[app][u]) /\ OffersTo(u) \subseteq Senders[app][u]
        BY <1>2, SendersFinite
      <4>2. c \in Senders[app][u]
        BY <1>1, <1>2, <1>6, <1>11, SenderOf
      <4>3. Cardinality(OffersTo(u) \cup {c}) <= Cardinality(Senders[app][u])
        <5>1. OffersTo(u) \cup {c} \subseteq Senders[app][u]
          BY <4>1, <4>2
        <5> QED BY <5>1, <4>1, FS_Subset
      <4>4. Cardinality(Senders[app][u]) <= MaxCount
        BY <1>2, CountsExact DEF TableInv, Tasks, Program
      <4>5. Cardinality(Senders[app][u]) \in Nat
        BY <4>1, FS_CardinalityType
      <4> QED BY <4>3, <4>4, <4>5, <2>1, <1>9, TaskGraphAssumption
    <3>5. count'[<<"send", u>>] = s + 1
      <4>1. count'[<<"send", u>>] = Least(s + 1, MaxCount)
        BY <2>2, <1>2, <1>7, <1>8, <1>11
      <4>2. s + 1 <= MaxCount /\ MaxCount \in Nat
        BY <3>4, <1>9, TaskGraphAssumption DEF Unit
      <4> QED BY <4>1, <4>2 DEF Least
    <3>6. count'[<<"recv", u>>] = r
      BY <2>2, <1>2, <1>8, <1>9
    <3>7. Unit(Busy(u)') = Unit(Busy(u)) /\ Unit(Busy(u)) \in Nat
      BY <3>3 DEF Unit
    <3> QED BY <2>1, <3>2, <3>5, <3>6, <3>7, <1>9
  <2>3. CASE /\ count' = count
             /\ \E h \in Tasks : /\ h # c /\ Statement(h).do = "wait" /\ Statement(h).on = <<"send", to>>
                                 /\ Moves({c, h})
    <3>1. PICK h \in Tasks : h # c /\ Statement(h).do = "wait" /\ Statement(h).on = <<"send", to>> /\ Moves({c, h})
      BY <2>3
    <3>2. Statement(h) = WaitOn("send", h) /\ h = u
      <4>1. h \in Nat /\ Statement(h) \in Statements(h)
        BY <1>2, MsgStatement
      <4>2. Statement(h) = WaitOn("send", h) \/ \E n1 \in Nat : Statement(h) = WaitOn("recv", n1)
        BY <4>1, <3>1, Kinds
      <4> QED BY <4>1, <4>2, <3>1, <1>11 DEF WaitOn
    <3>3. /\ OffersTo(u)' = (OffersTo(u) \ {t \in {c, h} : Statement(t) = WaitOn("recv", u)}) \cup {t \in {c, h} : Statement(t) = PostOn("send", u)}
          /\ Busy(u)' <=> IF u \in {c, h} THEN Statement(u) \in {WaitOn("send", u), CopyOf(u)} ELSE Busy(u)
      BY <3>1, <1>2, Moved
    <3>4. Statement(h) # WaitOn("recv", u) /\ Statement(h) # PostOn("send", u) /\ Statement(h) \notin {CopyOf(u), PostOn("recv", u)}
      BY <3>2 DEF WaitOn, PostOn, CopyOf
    <3>5. OffersTo(u)' = OffersTo(u) \cup {c}
      BY <3>3, <3>4, <1>5, <1>6, <1>11
    <3>6. Busy(u)' /\ ~Busy(u)
      BY <3>2, <3>3, <3>4, <1>4
    <3>7. Unit(Busy(u)') = 1 /\ Unit(Busy(u)) = 0
      BY <3>6 DEF Unit
    <3> QED BY <2>1, <2>3, <3>5, <3>7, <1>8, <1>9
  <2> QED BY <2>2, <2>3, <1>1
<1> QED BY <1>10, <1>11

\* A receiver answers: it wakes a sender or leaves it a unit.
LEMMA BalancedReply ==
    ASSUME MsgInv, TableInv', app' = app, current \in Tasks,
           Statement(current) = PostOn("recv", current),
           \/ count' = [count EXCEPT ![<<"recv", current>>] = Least(@ + 1, MaxCount)] /\ Moves({current})
           \/ /\ count' = count
              /\ \E h \in Tasks : /\ h # current /\ Statement(h).do = "wait" /\ Statement(h).on = <<"recv", current>>
                                  /\ Moves({current, h}),
           NEW u \in Tasks
    PROVE  Balanced(u)'
<1>1. PICK c : c = current
  OBVIOUS
<1>2. TableInv /\ app \in Graph /\ Balanced(u) /\ Semaphores' = Semaphores /\ count \in [Semaphores -> Nat]
  BY DEF MsgInv, LineInv, Semaphores
<1>3. ASSUME NEW t \in Tasks PROVE t \in Nat
  BY <1>2, MsgStatement
<1>4. /\ \A t \in Tasks : t \in OffersTo(u) <=> Statement(t) = WaitOn("recv", u)
      /\ Busy(u) <=> Statement(u) \in {CopyOf(u), PostOn("recv", u)}
  BY <1>2, ByStatement
<1>5. Statement(c) \notin {CopyOf(c), WaitOn("send", c), WaitOn("recv", u), PostOn("send", u)}
  BY <1>1 DEF PostOn, WaitOn, CopyOf
<1>7. SUFFICES ASSUME <<"send", u>> \in Semaphores
               PROVE  Cardinality(OffersTo(u)') = count'[<<"send", u>>] + Unit(Busy(u)') + count'[<<"recv", u>>]
  BY <1>2 DEF Balanced
<1>8. PICK n, s, r : n = Cardinality(OffersTo(u)) /\ s = count[<<"send", u>>] /\ r = count[<<"recv", u>>]
  OBVIOUS
<1>9. n \in Nat /\ s \in Nat /\ r \in Nat /\ IsFiniteSet(OffersTo(u)) /\ n = s + Unit(Busy(u)) + r /\ <<"recv", u>> \in Semaphores
  BY <1>7, <1>8, CountsOf
<1>10. CASE Moves({c}) /\ count' = [count EXCEPT ![<<"recv", c>>] = Least(@ + 1, MaxCount)]
  <2>1. /\ OffersTo(u)' = (OffersTo(u) \ {t \in {c} : Statement(t) = WaitOn("recv", u)}) \cup {t \in {c} : Statement(t) = PostOn("send", u)}
        /\ Busy(u)' <=> IF u \in {c} THEN Statement(u) \in {WaitOn("send", u), CopyOf(u)} ELSE Busy(u)
    BY <1>2, <1>10, Moved
  <2>2. OffersTo(u)' = OffersTo(u)
    BY <2>1, <1>5
  <2>3. count'[<<"send", u>>] = s
    BY <1>2, <1>7, <1>8, <1>10
  <2>4. CASE u # c
    <3>1. Busy(u)' <=> Busy(u)
      BY <2>1, <2>4
    <3>2. Unit(Busy(u)') = Unit(Busy(u))
      BY <3>1 DEF Unit
    <3>3. count'[<<"recv", u>>] = r
      BY <2>4, <1>2, <1>8, <1>9, <1>10
    <3> QED BY <2>2, <2>3, <3>2, <3>3, <1>8, <1>9
  <2>5. CASE u = c
    <3>1. Busy(u) /\ ~Busy(u)'
      BY <2>1, <2>5, <1>1, <1>4, <1>5
    <3>2. Unit(Busy(u)') = 0 /\ Unit(Busy(u)) = 1
      BY <3>1 DEF Unit
    <3>3. n <= MaxCount
      <4>1. IsFiniteSet(Senders[app][u]) /\ OffersTo(u) \subseteq Senders[app][u]
        BY <1>2, SendersFinite
      <4>2. n <= Cardinality(Senders[app][u]) /\ Cardinality(Senders[app][u]) \in Nat
        BY <4>1, <1>8, FS_Subset, FS_CardinalityType
      <4>3. Cardinality(Senders[app][u]) <= MaxCount
        BY <1>2, CountsExact DEF TableInv, Tasks, Program
      <4> QED BY <4>2, <4>3, <1>9, TaskGraphAssumption
    <3>4. count'[<<"recv", u>>] = Least(r + 1, MaxCount)
      BY <2>5, <1>2, <1>8, <1>9, <1>10
    <3>5. r + 1 <= MaxCount /\ MaxCount \in Nat
      BY <3>2, <3>3, <1>9, TaskGraphAssumption
    <3>6. count'[<<"recv", u>>] = r + 1
      BY <3>4, <3>5 DEF Least
    <3> QED BY <2>2, <2>3, <3>2, <3>6, <1>8, <1>9
  <2> QED BY <2>4, <2>5
<1>11. CASE /\ count' = count
            /\ \E h \in Tasks : /\ h # c /\ Statement(h).do = "wait" /\ Statement(h).on = <<"recv", c>>
                                /\ Moves({c, h})
  <2>1. PICK h \in Tasks : h # c /\ Statement(h).do = "wait" /\ Statement(h).on = <<"recv", c>> /\ Moves({c, h})
    BY <1>11
  <2>2. Statement(h) = WaitOn("recv", c)
    <3>1. h \in Nat /\ c \in Nat /\ Statement(h) \in Statements(h)
      BY <1>1, <1>2, MsgStatement
    <3> QED BY <3>1, <2>1, KindsFor
  <2>3. /\ OffersTo(u)' = (OffersTo(u) \ {t \in {c, h} : Statement(t) = WaitOn("recv", u)}) \cup {t \in {c, h} : Statement(t) = PostOn("send", u)}
        /\ Busy(u)' <=> IF u \in {c, h} THEN Statement(u) \in {WaitOn("send", u), CopyOf(u)} ELSE Busy(u)
    BY <2>1, <1>2, Moved
  <2>4. Statement(h) \notin {WaitOn("send", u), CopyOf(u), PostOn("recv", u), PostOn("send", u)}
    BY <2>2 DEF WaitOn, PostOn, CopyOf
  <2>5. CASE u # c
    <3>1. Statement(h) # WaitOn("recv", u)
      BY <2>2, <2>5 DEF WaitOn
    <3>2. OffersTo(u)' = OffersTo(u)
      BY <2>3, <2>4, <3>1, <1>5
    <3>3. Busy(u)' <=> Busy(u)
      BY <2>3, <2>4, <2>5, <1>4
    <3>4. Unit(Busy(u)') = Unit(Busy(u))
      BY <3>3 DEF Unit
    <3> QED BY <3>2, <3>4, <1>8, <1>9, <1>11
  <2>6. CASE u = c
    <3>1. h \in OffersTo(u)
      BY <2>2, <2>6, <1>4
    <3>2. OffersTo(u)' = OffersTo(u) \ {h}
      BY <2>2, <2>3, <2>4, <2>6, <1>5
    <3>3. Cardinality(OffersTo(u) \ {h}) = n - 1
      BY <3>1, <1>8, <1>9, FS_RemoveElement
    <3>4. Busy(u) /\ ~Busy(u)'
      BY <2>3, <2>6, <1>1, <1>4, <1>5
    <3>5. Unit(Busy(u)') = 0 /\ Unit(Busy(u)) = 1
      BY <3>4 DEF Unit
    <3> QED BY <3>2, <3>3, <3>5, <1>8, <1>9, <1>11
  <2> QED BY <2>5, <2>6
<1> QED BY <1>1, <1>10, <1>11

\* A receiver takes a message, or a sender the answer.
LEMMA BalancedWait ==
    ASSUME MsgInv, TableInv', app' = app, current \in Tasks, Statement(current).do = "wait",
           Statement(current).on \in Semaphores,
           count[Statement(current).on] > 0, count' = [count EXCEPT ![Statement(current).on] = @ - 1], Moves({current}),
           NEW u \in Tasks
    PROVE  Balanced(u)'
<1>1. PICK c, x : c = current /\ x = Statement(c)
  OBVIOUS
<1>2. TableInv /\ app \in Graph /\ Balanced(u) /\ Semaphores' = Semaphores /\ count \in [Semaphores -> Nat]
  BY DEF MsgInv, LineInv, Semaphores
<1>3. c \in Nat /\ u \in Nat /\ x \in Statements(c)
  BY <1>1, <1>2, MsgStatement
<1>4. /\ \A t \in Tasks : t \in OffersTo(u) <=> Statement(t) = WaitOn("recv", u)
      /\ Busy(u) <=> Statement(u) \in {CopyOf(u), PostOn("recv", u)}
  BY <1>2, ByStatement
<1>5. /\ OffersTo(u)' = (OffersTo(u) \ {t \in {c} : Statement(t) = WaitOn("recv", u)}) \cup {t \in {c} : Statement(t) = PostOn("send", u)}
      /\ Busy(u)' <=> IF u \in {c} THEN Statement(u) \in {WaitOn("send", u), CopyOf(u)} ELSE Busy(u)
  BY <1>1, <1>2, Moved
<1>6. x \notin {PostOn("send", u), CopyOf(u), PostOn("recv", u)}
  BY <1>1 DEF PostOn, CopyOf
<1>7. SUFFICES ASSUME <<"send", u>> \in Semaphores
               PROVE  Cardinality(OffersTo(u)') = count'[<<"send", u>>] + Unit(Busy(u)') + count'[<<"recv", u>>]
  BY <1>2 DEF Balanced
<1>8. PICK n, s, r : n = Cardinality(OffersTo(u)) /\ s = count[<<"send", u>>] /\ r = count[<<"recv", u>>]
  OBVIOUS
<1>9. n \in Nat /\ s \in Nat /\ r \in Nat /\ IsFiniteSet(OffersTo(u)) /\ n = s + Unit(Busy(u)) + r /\ <<"recv", u>> \in Semaphores
  BY <1>7, <1>8, CountsOf
<1>10. x = WaitOn("send", c) \/ \E to \in Nat : x = WaitOn("recv", to)
  BY <1>1, <1>3, Kinds
<1>11. CASE x = WaitOn("send", c)
  <2>1. x.on = <<"send", c>> /\ x # WaitOn("recv", u)
    BY <1>11 DEF WaitOn
  <2>2. OffersTo(u)' = OffersTo(u)
    BY <2>1, <1>1, <1>5, <1>6
  <2>3. count' = [count EXCEPT ![<<"send", c>>] = @ - 1] /\ count[<<"send", c>>] > 0
    BY <2>1, <1>1
  <2>4. count'[<<"recv", u>>] = r
    BY <2>3, <1>2, <1>8, <1>9
  <2>5. CASE u = c
    <3>1. Busy(u)' /\ ~Busy(u)
      BY <2>5, <1>1, <1>4, <1>5, <1>6, <1>11
    <3>2. Unit(Busy(u)') = 1 /\ Unit(Busy(u)) = 0
      BY <3>1 DEF Unit
    <3>3. count'[<<"send", u>>] = s - 1
      BY <2>3, <2>5, <1>2, <1>7, <1>8
    <3> QED BY <2>2, <2>4, <3>2, <3>3, <1>8, <1>9
  <2>6. CASE u # c
    <3>1. Busy(u)' <=> Busy(u)
      BY <2>6, <1>5
    <3>2. Unit(Busy(u)') = Unit(Busy(u))
      BY <3>1 DEF Unit
    <3>3. count'[<<"send", u>>] = s
      BY <2>3, <2>6, <1>2, <1>7, <1>8
    <3> QED BY <2>2, <2>4, <3>2, <3>3, <1>8, <1>9
  <2> QED BY <2>5, <2>6
<1>12. CASE \E to \in Nat : x = WaitOn("recv", to)
  <2>1. PICK to \in Nat : x = WaitOn("recv", to)
    BY <1>12
  <2>2. x.on = <<"recv", to>> /\ x # WaitOn("send", u)
    BY <2>1 DEF WaitOn
  <2>3. count' = [count EXCEPT ![<<"recv", to>>] = @ - 1] /\ count[<<"recv", to>>] > 0
    BY <2>2, <1>1
  <2>4. count'[<<"send", u>>] = s
    BY <2>3, <1>2, <1>7, <1>8
  <2>5. Busy(u)' <=> Busy(u)
    BY <2>2, <1>1, <1>4, <1>5, <1>6
  <2>6. Unit(Busy(u)') = Unit(Busy(u)) /\ Unit(Busy(u)) \in Nat
    BY <2>5 DEF Unit
  <2>7. x = WaitOn("recv", u) <=> u = to
    BY <2>1 DEF WaitOn
  <2>8. CASE u = to
    <3>1. c \in OffersTo(u)
      BY <2>7, <2>8, <1>1, <1>4
    <3>2. OffersTo(u)' = OffersTo(u) \ {c}
      BY <2>7, <2>8, <1>1, <1>5, <1>6
    <3>3. Cardinality(OffersTo(u) \ {c}) = n - 1
      BY <3>1, <1>8, <1>9, FS_RemoveElement
    <3>4. count'[<<"recv", u>>] = r - 1
      BY <2>3, <2>8, <1>2, <1>8, <1>9
    <3> QED BY <2>4, <2>6, <3>2, <3>3, <3>4, <1>9
  <2>9. CASE u # to
    <3>1. OffersTo(u)' = OffersTo(u)
      BY <2>7, <2>9, <1>1, <1>5, <1>6
    <3>2. count'[<<"recv", u>>] = r
      BY <2>3, <2>9, <1>2, <1>8, <1>9
    <3> QED BY <2>4, <2>6, <3>1, <3>2, <1>8, <1>9
  <2> QED BY <2>8, <2>9
<1> QED BY <1>10, <1>11, <1>12
-----------------------------------------------------------------------------
(* What is written *)

\* A task writes a field of the message of another one.
LEMMA WrittenStore ==
    ASSUME MsgInv, TableInv', app' = app, current \in Tasks, Moves({current}),
           NEW field \in {"source", "size", "ptr"}, Statement(current).do = field,
           message' = [message EXCEPT ![Statement(current).at][field] = Statement(current).value],
           NEW u \in Tasks
    PROVE  Written(u)' /\ message' \in [Tasks -> Fields]
<1>1. PICK c, x : c = current /\ x = Statement(c)
  OBVIOUS
<1>2. TableInv /\ app \in Graph /\ Written(u) /\ message \in [Tasks -> Fields] /\ Tasks' = Tasks
  BY DEF MsgInv, LineInv, Tasks, Program
<1>3. c \in Nat /\ u \in Nat /\ x \in Statements(c) /\ Follows(c, x, NextOf(c))
  BY <1>1, <1>2, MsgStatement
<1>4. PICK to \in Nat : \E k \in Nat : x = Store(field, to, c, k)
  BY <1>1, <1>3, Kinds
<1>5. PICK k \in Nat : x = Store(field, to, c, k)
  BY <1>4
<1>6. x.at = to /\ x.value = <<c, k>>
  BY <1>5 DEF Store
<1>7. message' = [message EXCEPT ![to][field] = <<c, k>>]
  BY <1>1, <1>6
<1>8. ASSUME NEW z \in Tasks
      PROVE  message'[z] = IF z = to THEN [message[z] EXCEPT ![field] = <<c, k>>] ELSE message[z]
  BY <1>2, <1>7
<1>9. message' \in [Tasks -> Fields]
  <2>1. ASSUME NEW z \in Tasks PROVE message'[z] \in Fields
    <3>1. message[z] \in Fields /\ <<c, k>> \in Nat \X Nat
      BY <1>2, <1>3
    <3>2. [message[z] EXCEPT ![field] = <<c, k>>] \in Fields
      BY <3>1 DEF Fields
    <3> QED BY <3>1, <3>2, <1>8
  <2>2. message' = [z \in Tasks |-> message'[z]]
    BY <1>2, <1>7
  <2> QED BY <2>1, <2>2
<1>10. ASSUME NEW t \in Tasks, Senders[app][u] = {t}
       PROVE  /\ \A m \in Nat : Statement(t)' = Store("size", u, t, m) => message'[u].source = <<t, m>>
              /\ \A m \in Nat : Statement(t)' = Store("ptr", u, t, m) => message'[u].source = <<t, m>> /\ message'[u].size = <<t, m>>
              /\ Statement(t)' \in {PostOn("send", u), WaitOn("recv", u)} =>
                     \E m \in Nat : message'[u].source = <<t, m>> /\ message'[u].size = <<t, m>> /\ message'[u].ptr = <<t, m>>
  <2>1. /\ \A m \in Nat : Statement(t) = Store("size", u, t, m) => message[u].source = <<t, m>>
        /\ \A m \in Nat : Statement(t) = Store("ptr", u, t, m) => message[u].source = <<t, m>> /\ message[u].size = <<t, m>>
        /\ Statement(t) \in {PostOn("send", u), WaitOn("recv", u)} =>
               \E m \in Nat : message[u].source = <<t, m>> /\ message[u].size = <<t, m>> /\ message[u].ptr = <<t, m>>
    BY <1>2, <1>10 DEF Written
  <2>2. CASE t # c
    <3>1. Statement(t)' = Statement(t)
      BY <2>2, <1>1 DEF Moves
    <3>2. u # to
      <4>1. u = to => c \in Senders[app][u]
        BY <1>1, <1>2, <1>5, SenderOf
      <4> QED BY <4>1, <2>2, <1>10
    <3>3. message'[u] = message[u]
      BY <3>2, <1>8
    <3> QED BY <2>1, <3>1, <3>3
  <2>3. CASE t = c
    <3>1. PICK y : y = NextOf(t)
      OBVIOUS
    <3>2. Statement(t)' = y /\ Follows(t, x, y) /\ t \in Nat
      BY <2>3, <3>1, <1>1, <1>3 DEF Moves
    <3>3. message[u] \in Fields
      BY <1>2
    <3>4. ASSUME to = u
          PROVE  /\ field = "source" => message'[u].source = <<t, k>>
                 /\ field = "size" => message'[u].source = message[u].source /\ message'[u].size = <<t, k>>
                 /\ field = "ptr" => /\ message'[u].source = message[u].source /\ message'[u].size = message[u].size
                                     /\ message'[u].ptr = <<t, k>>
      <4>1. PICK r, q, v : r = message[u] /\ q = message'[u] /\ v = <<t, k>>
        OBVIOUS
      <4>2. r \in Fields /\ q = [r EXCEPT ![field] = v]
        BY <4>1, <3>3, <3>4, <2>3, <1>8
      <4>3. /\ field = "source" => q.source = v
            /\ field = "size" => q.source = r.source /\ q.size = v
            /\ field = "ptr" => q.source = r.source /\ q.size = r.size /\ q.ptr = v
        <5>1. DOMAIN r = {"source", "size", "ptr"}
          BY <4>2 DEF Fields
        <5>2. CASE field = "source"
          BY <4>2, <5>1, <5>2
        <5>3. CASE field = "size"
          BY <4>2, <5>1, <5>3
        <5>4. CASE field = "ptr"
          BY <4>2, <5>1, <5>4
        <5> QED BY <5>2, <5>3, <5>4
      <4> QED BY <4>1, <4>3
    <3>5. ASSUME NEW m \in Nat, y = Store("size", u, t, m) PROVE message'[u].source = <<t, m>>
      <4>1. x = Store("source", u, t, m)
        BY <3>2, <3>5, <1>3, NextIs
      <4>2. to = u /\ k = m /\ field = "source"
        BY <4>1, <1>5 DEF Store
      <4> QED BY <4>2, <3>4
    <3>6. ASSUME NEW m \in Nat, y = Store("ptr", u, t, m) PROVE message'[u].source = <<t, m>> /\ message'[u].size = <<t, m>>
      <4>1. x = Store("size", u, t, m)
        BY <3>2, <3>6, <1>3, NextIs
      <4>2. to = u /\ k = m /\ field = "size"
        BY <4>1, <1>5 DEF Store
      <4>3. message[u].source = <<t, m>>
        BY <4>1, <2>1, <2>3, <1>1
      <4> QED BY <4>2, <4>3, <3>4
    <3>7. ASSUME y \in {PostOn("send", u), WaitOn("recv", u)}
          PROVE  \E m \in Nat : message'[u].source = <<t, m>> /\ message'[u].size = <<t, m>> /\ message'[u].ptr = <<t, m>>
      <4>1. y = WaitOn("recv", u) => x = PostOn("send", u)
        BY <3>2, <1>3, NextIs
      <4>2. x # PostOn("send", u)
        BY <1>5 DEF Store, PostOn
      <4>3. PICK m \in Nat : x = Store("ptr", u, t, m)
        BY <4>1, <4>2, <3>2, <3>7, <1>3, NextIs
      <4>4. to = u /\ k = m /\ field = "ptr"
        BY <4>3, <1>5 DEF Store
      <4>5. message[u].source = <<t, m>> /\ message[u].size = <<t, m>>
        BY <4>3, <2>1, <2>3, <1>1
      <4> QED BY <4>4, <4>5, <3>4
    <3> QED BY <3>2, <3>5, <3>6, <3>7
  <2> QED BY <2>2, <2>3
<1>11. Senders' = Senders
  BY DEF Senders
<1>12. Written(u)'
  BY <1>2, <1>10, <1>11 DEF Written
<1> QED BY <1>9, <1>12

\* Nobody writes.
LEMMA WrittenKept ==
    ASSUME MsgInv, TableInv', app' = app, message' = message,
           NEW ts, Moves(ts), \A t \in ts : Statement(t).do \in {"wait", "post", "copy"},
           NEW u \in Tasks
    PROVE  Written(u)'
<1>1. TableInv /\ app \in Graph /\ Written(u) /\ Tasks' = Tasks /\ Senders' = Senders
  BY DEF MsgInv, LineInv, Tasks, Program, Senders
<1>2. ASSUME NEW t \in Tasks, Senders[app][u] = {t}
      PROVE  /\ \A m \in Nat : Statement(t)' = Store("size", u, t, m) => message[u].source = <<t, m>>
             /\ \A m \in Nat : Statement(t)' = Store("ptr", u, t, m) => message[u].source = <<t, m>> /\ message[u].size = <<t, m>>
             /\ Statement(t)' \in {PostOn("send", u), WaitOn("recv", u)} =>
                    \E m \in Nat : message[u].source = <<t, m>> /\ message[u].size = <<t, m>> /\ message[u].ptr = <<t, m>>
  <2>1. /\ \A m \in Nat : Statement(t) = Store("size", u, t, m) => message[u].source = <<t, m>>
        /\ \A m \in Nat : Statement(t) = Store("ptr", u, t, m) => message[u].source = <<t, m>> /\ message[u].size = <<t, m>>
        /\ Statement(t) \in {PostOn("send", u), WaitOn("recv", u)} =>
               \E m \in Nat : message[u].source = <<t, m>> /\ message[u].size = <<t, m>> /\ message[u].ptr = <<t, m>>
    BY <1>1, <1>2 DEF Written
  <2>2. CASE t \notin ts
    <3>1. Statement(t)' = Statement(t)
      BY <2>2 DEF Moves
    <3> QED BY <2>1, <3>1
  <2>3. CASE t \in ts
    <3>1. PICK x, y : x = Statement(t) /\ y = NextOf(t)
      OBVIOUS
    <3>2. Statement(t)' = y /\ Follows(t, x, y) /\ t \in Nat /\ u \in Nat
      BY <2>3, <3>1, <1>1, MsgStatement DEF Moves
    <3>3. \A field \in {"source", "size", "ptr"}, m \in Nat : x # Store(field, u, t, m)
      BY <2>3, <3>1 DEF Store
    <3>4. \A m \in Nat : y # Store("size", u, t, m) /\ y # Store("ptr", u, t, m)
      BY <3>2, <3>3, NextIs
    <3>5. y # PostOn("send", u)
      BY <3>2, <3>3, NextIs
    <3>6. y = WaitOn("recv", u) => x = PostOn("send", u)
      BY <3>2, NextIs
    <3> QED BY <2>1, <3>1, <3>2, <3>4, <3>5, <3>6
  <2> QED BY <2>2, <2>3
<1> QED BY <1>1, <1>2 DEF Written

\* No task goes on.
LEMMA BalancedStill ==
    ASSUME MsgInv, TableInv', app' = app, count' = count, Moves({}), NEW u \in Tasks
    PROVE  Balanced(u)'
<1>1. TableInv /\ app \in Graph /\ Balanced(u) /\ Semaphores' = Semaphores
  BY DEF MsgInv, LineInv, Semaphores
<1>2. /\ OffersTo(u)' = (OffersTo(u) \ {t \in {} : Statement(t) = WaitOn("recv", u)})
                         \cup {t \in {} : Statement(t) = PostOn("send", u)}
      /\ Busy(u)' <=> IF u \in {} THEN Statement(u) \in {WaitOn("send", u), CopyOf(u)} ELSE Busy(u)
  BY <1>1, Moved
<1>3. OffersTo(u)' = OffersTo(u) /\ Unit(Busy(u)') = Unit(Busy(u))
  BY <1>2 DEF Unit
<1> QED BY <1>1, <1>3 DEF Balanced
-----------------------------------------------------------------------------
(* The invariant *)

\* Nobody waits at first, and every semaphore has its first count.
LEMMA LineInit == Init => LineInv
<1> SUFFICES ASSUME Init PROVE LineInv
  OBVIOUS
<1>1. count = [s \in Semaphores |-> InitialCount(s)] /\ line = [s \in Semaphores |-> << >>]
  BY DEF Init
<1>2. count \in [Semaphores -> Nat]
  BY <1>1 DEF InitialCount
<1>3. ASSUME NEW s \in Semaphores PROVE LineOK(s)
  <2>1. line[s] = << >>
    BY <1>1
  <2>2. << >> \in Seq(Tasks) /\ Len(<< >>) = 0
    OBVIOUS
  <2> QED BY <2>1, <2>2 DEF LineOK
<1>4. line = [s \in Semaphores |-> line[s]]
  BY <1>1
<1> QED BY <1>2, <1>3, <1>4, InitTable DEF LineInv

\* A task of a graph begins with a service.
LEMMA FirstStatement ==
    ASSUME Init, app \in Graph, NEW t \in Tasks
    PROVE  Statement(t) \in Begins(t)
<1>1. PICK p : p = Program[t]
  OBVIOUS
<1>2. p \in MsgTexts(t)
  BY <1>1, GraphTexts DEF Init, Tasks, Program
<1>3. PICK x \in Begins(t) : p[1] = x
  BY <1>2 DEF MsgTexts, Runs, Run
<1>4. pc[t] = 1
  BY DEF Init
<1> QED BY <1>1, <1>3, <1>4 DEF Statement

\* No message is on its way at first.
LEMMA MsgInit == Init /\ app \in Graph => MsgInv
<1> SUFFICES ASSUME Init, app \in Graph PROVE MsgInv
  OBVIOUS
<1>1. LineInv /\ TableInv
  BY LineInit DEF LineInv
<1>2. message \in [Tasks -> Fields]
  <2>1. message = [t \in Tasks |-> [source |-> <<NULL, NULL>>, size |-> <<NULL, NULL>>, ptr |-> <<NULL, NULL>>]]
    BY DEF Init
  <2>2. [source |-> <<NULL, NULL>>, size |-> <<NULL, NULL>>, ptr |-> <<NULL, NULL>>] \in Fields
    BY DEF Fields, NULL
  <2> QED BY <2>1, <2>2
<1>3. ASSUME NEW u \in Tasks PROVE Balanced(u)
  <2>1. SUFFICES ASSUME <<"send", u>> \in Semaphores
                 PROVE  Cardinality(OffersTo(u)) = count[<<"send", u>>] + Unit(Busy(u)) + count[<<"recv", u>>]
    BY DEF Balanced
  <2>2. count[<<"send", u>>] = 0 /\ count[<<"recv", u>>] = 0
    <3>1. <<"recv", u>> \in Semaphores
      BY <2>1, <1>1, BothSemaphores
    <3>2. \A s \in Semaphores : count[s] = InitialCount(s)
      BY DEF Init
    <3> QED BY <2>1, <3>1, <3>2 DEF InitialCount
  <2>3. \A t \in Tasks : Statement(t) # WaitOn("recv", u) /\ Statement(t) \notin {CopyOf(t), PostOn("recv", t)}
    <3>1. \A t \in Tasks : Statement(t) \in Begins(t)
      BY FirstStatement
    <3> QED BY <3>1 DEF Begins, Store, WaitOn, PostOn, CopyOf
  <2>4. OffersTo(u) = {} /\ ~Busy(u)
    <3>1. /\ \A t \in Tasks : t \in OffersTo(u) <=> Statement(t) = WaitOn("recv", u)
          /\ Busy(u) <=> Statement(u) \in {CopyOf(u), PostOn("recv", u)}
      BY <1>1, ByStatement
    <3>2. OffersTo(u) \subseteq Tasks
      BY <1>1, SendersFinite
    <3> QED BY <2>3, <3>1, <3>2
  <2> QED BY <2>2, <2>4, FS_EmptySet DEF Unit
<1>4. ASSUME NEW u \in Tasks PROVE Written(u)
  <2>1. ASSUME NEW t \in Tasks
        PROVE  /\ \A k \in Nat : Statement(t) # Store("size", u, t, k) /\ Statement(t) # Store("ptr", u, t, k)
               /\ Statement(t) \notin {PostOn("send", u), WaitOn("recv", u)}
    <3>1. Statement(t) \in Begins(t)
      BY FirstStatement
    <3> QED BY <3>1 DEF Begins, Store, WaitOn, PostOn
  <2> QED BY <2>1 DEF Written
<1> QED BY <1>1, <1>2, <1>3, <1>4 DEF MsgInv

\* Nothing happens.
LEMMA StillLine ==
    ASSUME LineInv, TableInv', app' = app, pc' = pc, current' = current, count' = count, line' = line
    PROVE  LineInv'
<1>1. Tasks' = Tasks /\ Semaphores' = Semaphores /\ \A t \in Tasks : Statement(t)' = Statement(t)
  BY Unmoved
<1>2. ASSUME NEW s \in Semaphores PROVE LineOK(s)'
  <2>1. PICK q : q = line[s]
    OBVIOUS
  <2>2. /\ q \in Seq(Tasks)
        /\ \A j \in 1 .. Len(q) : q[j] # current /\ Statement(q[j]).do = "wait" /\ Statement(q[j]).on = s
        /\ \A i, j \in 1 .. Len(q) : i # j => q[i] # q[j]
    BY <2>1 DEF LineInv, LineOK
  <2>3. \A j \in 1 .. Len(q) : q[j] \in Tasks
    BY <2>2, ElementOfSeq
  <2>4. \A j \in 1 .. Len(q) : Statement(q[j])' = Statement(q[j])
    BY <1>1, <2>3
  <2> QED BY <1>1, <2>1, <2>2, <2>4 DEF LineOK
<1> QED BY <1>1, <1>2 DEF LineInv

\* The tasks stay where they are.
LEMMA MsgStill ==
    ASSUME MsgInv, LineInv', app' = app, count' = count, message' = message,
           \A t \in Tasks : Statement(t)' = Statement(t)
    PROVE  MsgInv'
<1>1. TableInv' /\ Tasks' = Tasks
  BY DEF LineInv, Tasks, Program
<1>2. Moves({})
  BY DEF Moves
<1>3. ASSUME NEW u \in Tasks PROVE Balanced(u)' /\ Written(u)'
  <2>1. Balanced(u)'
    BY <1>1, <1>2, BalancedStill
  <2>2. \A t \in {} : Statement(t).do \in {"wait", "post", "copy"}
    OBVIOUS
  <2>3. Written(u)'
    BY <1>1, <1>2, <2>2, WrittenKept
  <2> QED BY <2>1, <2>3
<1>4. app' \in Graph' /\ message' \in [Tasks' -> Fields']
  BY <1>1 DEF MsgInv, Graph, Fields
<1> QED BY <1>1, <1>3, <1>4 DEF MsgInv

\* A post sends a message or answers one.
LEMMA MsgPost ==
    ASSUME MsgInv, TableInv', current \in Tasks, Statement(current).do = "post", SemPost
    PROVE  MsgInv'
<1>1. PICK c, x : c = current /\ x = Statement(c)
  OBVIOUS
<1>2. LineInv /\ TableInv /\ app \in Graph /\ Tasks' = Tasks /\ app' = app /\ current' = current /\ message' = message
  BY DEF MsgInv, LineInv, Tasks, Program, SemPost, core, data
<1>3. c \in Nat /\ x \in Statements(c)
  BY <1>1, <1>2, MsgStatement
<1>4. x = PostOn("recv", c) \/ \E to \in Nat : x = PostOn("send", to)
  BY <1>1, <1>3, Kinds
<1>5. PICK s : s = x.on
  OBVIOUS
<1>6. s \in Semaphores /\ Posts(s)
  BY <1>1, <1>2, <1>5, OnSemaphore DEF SemPost, Now
<1>7. /\ LineInv'
      /\ \/ /\ count' = [count EXCEPT ![s] = Least(@ + 1, MaxCount)]
            /\ line[s] = << >>
            /\ \A t \in Tasks : Statement(t)' = IF t = current THEN NextOf(t) ELSE Statement(t)
         \/ /\ count' = count
            /\ \E h \in Tasks : /\ h # current /\ Statement(h).do = "wait" /\ Statement(h).on = s
                                /\ \A t \in Tasks : Statement(t)' = IF t \in {current, h} THEN NextOf(t) ELSE Statement(t)
  BY <1>1, <1>2, <1>6, PostLine
<1>8. \/ count' = [count EXCEPT ![s] = Least(@ + 1, MaxCount)] /\ Moves({current})
      \/ /\ count' = count
         /\ \E h \in Tasks : /\ h # current /\ Statement(h).do = "wait" /\ Statement(h).on = s
                             /\ Moves({current, h})
  <2>1. CASE /\ count' = [count EXCEPT ![s] = Least(@ + 1, MaxCount)]
             /\ \A t \in Tasks : Statement(t)' = IF t = current THEN NextOf(t) ELSE Statement(t)
    BY <2>1 DEF Moves
  <2>2. CASE /\ count' = count
             /\ \E h \in Tasks : /\ h # current /\ Statement(h).do = "wait" /\ Statement(h).on = s
                                 /\ \A t \in Tasks : Statement(t)' = IF t \in {current, h} THEN NextOf(t) ELSE Statement(t)
    BY <2>2 DEF Moves
  <2> QED BY <2>1, <2>2, <1>7
<1>9. ASSUME NEW u \in Tasks PROVE Balanced(u)'
  <2>1. CASE x = PostOn("recv", c)
    <3>1. s = <<"recv", current>> /\ Statement(current) = PostOn("recv", current)
      BY <2>1, <1>1, <1>5 DEF PostOn
    <3> QED BY <3>1, <1>2, <1>8, BalancedReply
  <2>2. ASSUME NEW to \in Nat, x = PostOn("send", to) PROVE Balanced(u)'
    <3>1. s = <<"send", to>> /\ Statement(current) = PostOn("send", to)
      BY <2>2, <1>1, <1>5 DEF PostOn
    <3> QED BY <3>1, <1>2, <1>8, BalancedSend
  <2> QED BY <2>1, <2>2, <1>4
<1>10. ASSUME NEW u \in Tasks PROVE Written(u)'
  <2>1. PICK ts : Moves(ts) /\ \A t \in ts : Statement(t).do \in {"wait", "post", "copy"}
    <3>1. CASE Moves({current})
      BY <3>1
    <3>2. CASE \E h \in Tasks : Statement(h).do = "wait" /\ Moves({current, h})
      <4>1. PICK h \in Tasks : Statement(h).do = "wait" /\ Moves({current, h})
        BY <3>2
      <4>2. \A t \in {current, h} : Statement(t).do \in {"wait", "post", "copy"}
        BY <4>1
      <4> QED BY <4>1, <4>2
    <3> QED BY <3>1, <3>2, <1>8
  <2> QED BY <2>1, <1>2, WrittenKept
<1>11. app' \in Graph' /\ message' \in [Tasks' -> Fields']
  BY <1>2 DEF MsgInv, Graph, Fields
<1> QED BY <1>2, <1>7, <1>9, <1>10, <1>11 DEF MsgInv

\* A wait takes a message or an answer, or sleeps.
LEMMA MsgWait ==
    ASSUME MsgInv, TableInv', current \in Tasks, Statement(current).do = "wait", SemWait
    PROVE  MsgInv'
<1>1. LineInv /\ TableInv /\ app \in Graph /\ Tasks' = Tasks /\ app' = app /\ message' = message
  BY DEF MsgInv, LineInv, Tasks, Program, SemWait, Dispatch, core, data
<1>2. Now = Statement(current) /\ Statement(current).on \in Semaphores
  BY <1>1, OnSemaphore DEF Now
<1>3. /\ LineInv'
      /\ \/ /\ count[Now.on] > 0 /\ count' = [count EXCEPT ![Now.on] = @ - 1]
            /\ \A t \in Tasks : Statement(t)' = IF t = current THEN NextOf(t) ELSE Statement(t)
         \/ count' = count /\ \A t \in Tasks : Statement(t)' = Statement(t)
  BY <1>1, WaitLine
<1>4. CASE /\ count[Now.on] > 0 /\ count' = [count EXCEPT ![Now.on] = @ - 1]
           /\ \A t \in Tasks : Statement(t)' = IF t = current THEN NextOf(t) ELSE Statement(t)
  <2>1. Moves({current})
    BY <1>4 DEF Moves
  <2>2. ASSUME NEW u \in Tasks PROVE Balanced(u)' /\ Written(u)'
    <3>1. /\ count[Statement(current).on] > 0
          /\ count' = [count EXCEPT ![Statement(current).on] = @ - 1]
      BY <1>2, <1>4
    <3>2. Balanced(u)'
      BY <3>1, <2>1, <1>1, <1>2, BalancedWait
    <3>3. \A t \in {current} : Statement(t).do \in {"wait", "post", "copy"}
      OBVIOUS
    <3>4. Written(u)'
      BY <3>3, <2>1, <1>1, WrittenKept
    <3> QED BY <3>2, <3>4
  <2>3. app' \in Graph' /\ message' \in [Tasks' -> Fields']
    BY <1>1 DEF MsgInv, Graph, Fields
  <2> QED BY <1>1, <1>3, <2>2, <2>3 DEF MsgInv
<1>5. CASE count' = count /\ \A t \in Tasks : Statement(t)' = Statement(t)
  BY <1>1, <1>3, <1>5, MsgStill
<1> QED BY <1>3, <1>4, <1>5

\* A write to a message, or the copy of it.
LEMMA MsgPlain ==
    ASSUME MsgInv, TableInv', current \in Tasks, Plain,
           \/ \E field \in {"source", "size", "ptr"} : Statement(current).do = field /\ Write(field)
           \/ Statement(current).do = "copy" /\ Copy
    PROVE  MsgInv'
<1>1. /\ LineInv /\ TableInv /\ app \in Graph /\ Tasks' = Tasks /\ Semaphores' = Semaphores /\ app' = app
      /\ current' = current /\ count' = count /\ line' = line /\ Advance({current})
  BY DEF MsgInv, LineInv, Tasks, Program, Semaphores, Plain, core, semaphores
<1>2. Statement(current).do # "wait" /\ Statement(current).do \in {"source", "size", "ptr", "copy"}
  OBVIOUS
<1>3. count' \in [Semaphores -> Nat]
  BY <1>1 DEF LineInv
<1>4. LineInv'
  BY <1>1, <1>3, PlainLine
<1>5. \A t \in Tasks : Statement(t)' = IF t \in {current} THEN NextOf(t) ELSE Statement(t)
  BY <1>1, Advanced
<1>6. Moves({current})
  BY <1>5 DEF Moves
<1>7. \A u \in Tasks : Balanced(u)'
  BY <1>1, <1>2, <1>6, BalancedPlain
<1>8. (\A u \in Tasks : Written(u)') /\ message' \in [Tasks -> Fields]
  <2>1. CASE Statement(current).do = "copy" /\ Copy
    <3>1. message' = message /\ message \in [Tasks -> Fields]
      BY <2>1 DEF Copy, data, MsgInv
    <3>2. \A t \in {current} : Statement(t).do \in {"wait", "post", "copy"}
      BY <2>1
    <3>3. \A u \in Tasks : Written(u)'
      BY <3>1, <3>2, <1>1, <1>6, WrittenKept
    <3> QED BY <3>1, <3>3
  <2>2. ASSUME NEW field \in {"source", "size", "ptr"}, Statement(current).do = field, Write(field)
        PROVE  (\A u \in Tasks : Written(u)') /\ message' \in [Tasks -> Fields]
    <3>1. message' = [message EXCEPT ![Statement(current).at][field] = Statement(current).value]
      BY <2>2 DEF Write, Now
    <3>2. \A u \in Tasks : Written(u)' /\ message' \in [Tasks -> Fields]
      BY <3>1, <2>2, <1>1, <1>6, WrittenStore
    <3> QED BY <3>2
  <2> QED BY <2>1, <2>2
<1>9. app' \in Graph' /\ message' \in [Tasks' -> Fields']
  BY <1>1, <1>8 DEF Graph, Fields
<1> QED BY <1>1, <1>4, <1>7, <1>8, <1>9 DEF MsgInv

\* Every step keeps it.
LEMMA MsgNextInv ==
    ASSUME MsgInv, [Next]_vars
    PROVE  MsgInv'
<1>1. LineInv /\ TableInv /\ app \in Graph
  BY DEF MsgInv, LineInv
<1>2. TableInv'
  BY <1>1, TableInductive
<1>3. CASE Step
  <2>1. /\ current \in Tasks
        /\ \/ Statement(current).do = "post" /\ SemPost
           \/ Statement(current).do = "wait" /\ SemWait
           \/ \E field \in {"source", "size", "ptr"} : Statement(current).do = field /\ Write(field)
           \/ Statement(current).do = "copy" /\ Copy
    BY <1>1, <1>3, MsgStep
  <2>2. CASE Statement(current).do = "post" /\ SemPost
    BY <2>1, <2>2, <1>2, MsgPost
  <2>3. CASE Statement(current).do = "wait" /\ SemWait
    BY <2>1, <2>3, <1>2, MsgWait
  <2>4. CASE \/ \E field \in {"source", "size", "ptr"} : Statement(current).do = field /\ Write(field)
             \/ Statement(current).do = "copy" /\ Copy
    <3>1. Plain
      BY <2>4 DEF Write, Copy
    <3> QED BY <2>1, <2>4, <3>1, <1>2, MsgPlain
  <2> QED BY <2>1, <2>2, <2>3, <2>4
<1>4. CASE Tick
  <2>1. app' = app /\ count' = count /\ message' = message /\ pc' = pc
    BY <1>4 DEF Tick, Dispatch, semaphores, data
  <2>2. LineInv'
    BY <1>1, <1>2, <1>4, TickLine
  <2>3. \A t \in Tasks : Statement(t)' = Statement(t)
    BY <2>1, Unmoved
  <2> QED BY <2>1, <2>2, <2>3, MsgStill
<1>5. CASE UNCHANGED vars
  <2>1. app' = app /\ pc' = pc /\ current' = current /\ count' = count /\ line' = line /\ message' = message
    BY <1>5 DEF vars, core, semaphores, data
  <2>2. LineInv'
    BY <2>1, <1>1, <1>2, StillLine
  <2>3. \A t \in Tasks : Statement(t)' = Statement(t)
    BY <2>1, Unmoved
  <2> QED BY <2>1, <2>2, <2>3, MsgStill
<1> QED BY <1>3, <1>4, <1>5 DEF Next

\* What a task copies was sent to it.
LEMMA CopiesSent ==
    ASSUME MsgInv, NEW u \in Tasks, Copies(u)
    PROVE  <<"send", u>> \in Semaphores
<1>1. TableInv /\ app \in Graph
  BY DEF MsgInv, LineInv
<1>2. PICK P, p, k : P = Programs[app] /\ p = P[u] /\ k = pc[u]
  OBVIOUS
<1>3. app \in Apps /\ u \in DOMAIN P /\ k \in 1 .. Len(p) /\ Statement(u) = p[k]
  BY <1>1, <1>2 DEF TableInv, Tasks, Program, Statement
<1>4. u \in Nat /\ p \in MsgTexts(u)
  BY <1>1, <1>2, <1>3, GraphTexts
<1>5. Statement(u) = CopyOf(u)
  BY <1>1, <1>4, MsgStatement, Kinds DEF Copies, At
<1>6. PICK S, R, B, E : S = Statements(u) /\ R = Order(u) /\ B = Begins(u) /\ E = Ends(u)
  OBVIOUS
<1>7. PICK x \in B : p \in Seq(S) /\ p[1] = x /\ \A j \in 1 .. Len(p) - 1 : <<p[j], p[j + 1]>> \in R
  BY <1>4, <1>6 DEF MsgTexts, Runs, Run
<1>8. k # 1
  <2>1. x # CopyOf(u)
    BY <1>6, <1>7 DEF Begins, Store, WaitOn, CopyOf
  <2> QED BY <2>1, <1>3, <1>5, <1>7
<1>9. Len(p) \in Nat /\ DOMAIN p = 1 .. Len(p)
  BY <1>7, LenProperties
<1>10. k - 1 \in 1 .. Len(p) - 1 /\ (k - 1) + 1 = k /\ k - 1 \in 1 .. Len(p)
  BY <1>3, <1>8, <1>9
<1>11. PICK j \in 1 .. Len(p) - 1 : j = k - 1 /\ j + 1 = k /\ j \in 1 .. Len(p)
  BY <1>10
<1>12. p[j] \in S /\ p[k] \in S
  BY <1>3, <1>7, <1>11, ElementOfSeq
<1>13. Follows(u, p[j], p[k])
  <2>1. <<p[j], p[k]>> \in R
    BY <1>7, <1>11
  <2> QED BY <2>1, <1>6, <1>12, MsgOrder
<1>14. p[j] = WaitOn("send", u)
  BY <1>3, <1>4, <1>5, <1>13, NextIs
<1>15. p[j] \in UNION {ToSet(P[t]) : t \in DOMAIN P}
  BY <1>2, <1>3, <1>9, <1>11 DEF ToSet
<1>16. p[j].do = "wait" /\ p[j].on = <<"send", u>>
  BY <1>14 DEF WaitOn
<1>17. <<"send", u>> \in {y.on : y \in {z \in UNION {ToSet(P[t]) : t \in DOMAIN P} : z.do \in {"wait", "post"}}}
  BY <1>15, <1>16
<1> QED BY <1>2, <1>3, <1>17 DEF Semaphores, SemaphoresOf

\* A message that is copied is whole, and its sender waits.
LEMMA MsgSafe == MsgInv => MessagesSafe
<1> SUFFICES ASSUME MsgInv PROVE MessagesSafe
  OBVIOUS
<1>1. TableInv /\ app \in Graph
  BY DEF MsgInv, LineInv
<1>2. ASSUME NEW u \in Tasks, <<"send", u>> \in Semaphores
      PROVE  Cardinality({t \in Senders[app][u] : Offers(t, u)})
                 = count[<<"send", u>>] + Unit(Copies(u) \/ Replies(u)) + count[<<"recv", u>>]
  BY <1>2 DEF MsgInv, Balanced, OffersTo, Busy
<1>3. ASSUME NEW u \in Tasks, Copies(u), Cardinality(Senders[app][u]) = 1
      PROVE  /\ message[u].source = message[u].size /\ message[u].size = message[u].ptr
             /\ message[u].source[1] \in Senders[app][u]
             /\ Offers(message[u].source[1], u)
  <2>1. <<"send", u>> \in Semaphores
    BY <1>3, CopiesSent
  <2>2. Cardinality(OffersTo(u)) # 0
    <3>1. /\ count[<<"send", u>>] \in Nat /\ count[<<"recv", u>>] \in Nat
          /\ Cardinality(OffersTo(u)) = count[<<"send", u>>] + Unit(Busy(u)) + count[<<"recv", u>>]
      BY <2>1, CountsOf
    <3>2. Unit(Busy(u)) = 1
      BY <1>3 DEF Busy, Unit
    <3> QED BY <3>1, <3>2
  <2>3. /\ Senders[app][u] \subseteq Tasks /\ IsFiniteSet(Senders[app][u])
        /\ OffersTo(u) \subseteq Senders[app][u] /\ IsFiniteSet(OffersTo(u))
    BY <1>1, SendersFinite
  <2>4. PICK t : Senders[app][u] = {t}
    BY <2>3, <1>3, FS_Singleton
  <2>5. OffersTo(u) # {}
    BY <2>2, FS_EmptySet
  <2>6. t \in Tasks /\ t \in OffersTo(u)
    BY <2>3, <2>4, <2>5
  <2>7. Statement(t) = WaitOn("recv", u)
    BY <2>6, <1>1, ByStatement
  <2>8. PICK k \in Nat : message[u].source = <<t, k>> /\ message[u].size = <<t, k>> /\ message[u].ptr = <<t, k>>
    BY <2>4, <2>6, <2>7 DEF MsgInv, Written
  <2>9. message[u].source[1] = t
    BY <2>8
  <2>10. Offers(t, u)
    BY <2>6 DEF OffersTo
  <2> QED BY <2>4, <2>8, <2>9, <2>10
<1> QED BY <1>2, <1>3 DEF MessagesSafe, RendezvousBalanced, CopiesALiveMessage

\* Other applications do not send.
LEMMA NoGraph == app \notin Graph => MessagesSafe
BY DEF MessagesSafe, RendezvousBalanced, CopiesALiveMessage

\* The application stays.
LEMMA AppStays ==
    ASSUME [Next]_vars
    PROVE  app' = app /\ (app' \in Graph' <=> app \in Graph)
BY DEF Next, Step, Tick, SemPost, SemWait, Write, Copy, MboxPut, MboxGet, MboxCount, MboxEmpty, MboxAccept, Fill, Show,
       SetState, Hungry, Left, Right, Finds, Takes, Tells, Eat, Plain, Dispatch, vars, core, Graph

\* Whatever the task graph and whenever the timer comes: each sender that waits
\* in HF_MsgSend stands for one message not taken, copied or not yet answered, and
\* what HF_MsgRecv copies from the only sender of a task is one message, the
\* sender of which is still in its call.
THEOREM MessagesAlwaysSafe == Spec => []MessagesSafe
<1> DEFINE Inv == TableInv /\ (app \in Graph => MsgInv)
<1>1. Init => Inv
  BY InitTable, MsgInit
<1>2. Inv /\ [Next]_vars => Inv'
  <2> SUFFICES ASSUME Inv, [Next]_vars PROVE Inv'
    OBVIOUS
  <2>1. TableInv'
    BY TableInductive
  <2>2. app' \in Graph' <=> app \in Graph
    BY AppStays
  <2>3. CASE app \in Graph
    BY <2>1, <2>3, MsgNextInv
  <2>4. CASE app \notin Graph
    BY <2>1, <2>2, <2>4
  <2> QED BY <2>3, <2>4
<1>3. Inv => MessagesSafe
  BY MsgSafe, NoGraph
<1> QED BY <1>1, <1>2, <1>3, PTL DEF Spec

-----------------------------------------------------------------------------
(* The texts of mailbox_test *)

BoxPut(m, v) == [do |-> "put", at |-> m, value |-> v]
BoxDo(what, n) == [do |-> what, at |-> n]
Filling(v) == [do |-> "fill", at |-> 0, value |-> v]

\* The statements of HF_MboxSend and HF_MboxRecv, and those of each task.
Sending(m) == {WaitOn("msend", m), PostOn("mrecv", m)} \cup {BoxPut(m, v) : v \in Nat}
Receiving(m) == {WaitOn("mrecv", m), BoxDo("get", m), BoxDo("count", m), BoxDo("empty", m), PostOn("msend", m)}

Sendings == UNION {Sending(m) : m \in Mailboxes}
Fillings == {Filling(v) : v \in Nat}

BoxStatements(t) ==
    CASE t = 1 -> Sendings \cup Fillings \cup {WaitOn("wait", 0)}
      [] t = 2 -> Receiving(mail) \cup {BoxDo("show", 0), PostOn("wait", 0)}
      [] t \in {3, 5} -> Receiving(mail2)
      [] t = 4 -> Receiving(mail3)
      [] t = 6 -> {BoxDo("accept", mail4)}

\* The mailbox a task is inside at statement x, and after it; 0 for none.
Area(x) == IF x.do \in {"put", "get", "count", "empty"} THEN x.at
           ELSE IF x.do = "post" /\ x.on[1] \in {"msend", "mrecv"} THEN x.on[2] ELSE 0
Leaves(x) == IF x.do = "wait" /\ x.on[1] \in {"msend", "mrecv"} THEN x.on[2]
             ELSE IF x.do = "post" THEN 0 ELSE Area(x)

\* What is known of statement y that comes after x in the text of task t: task0
\* waits for "wait" after it has sent its string, and then only; task1 takes the
\* next string after it has posted "wait", and then only.
BoxFollows(t, x, y) ==
    /\ Area(y) = Leaves(x)
    /\ t = 1 => (y = WaitOn("wait", 0) <=> x = PostOn("mrecv", mail))
    /\ t = 2 => (y = WaitOn("mrecv", mail) <=> x = PostOn("wait", 0))
BoxOrder(t) == {z \in BoxStatements(t) \X BoxStatements(t) : BoxFollows(t, z[1], z[2])}
BoxBegins(t) == {x \in BoxStatements(t) : /\ Area(x) = 0
                                          /\ t = 1 => x # WaitOn("wait", 0)
                                          /\ t = 2 => x = WaitOn("mrecv", mail)}
BoxEnds(t) == {x \in BoxStatements(t) : /\ Leaves(x) = 0
                                        /\ t = 1 => x # PostOn("mrecv", mail)
                                        /\ t = 2 => x = PostOn("wait", 0)}
BoxTexts(t) == Runs(BoxStatements(t), BoxOrder(t), BoxBegins(t), BoxEnds(t))

\* The order as a relation.
LEMMA BoxRelation ==
    ASSUME NEW t
    PROVE  /\ BoxBegins(t) \subseteq BoxStatements(t) /\ BoxEnds(t) \subseteq BoxStatements(t)
           /\ \A y \in BoxEnds(t), u \in BoxBegins(t) : <<y, u>> \in BoxOrder(t)
           /\ \A x, y \in BoxStatements(t) : BoxFollows(t, x, y) <=> <<x, y>> \in BoxOrder(t)
<1>1. BoxBegins(t) \subseteq BoxStatements(t) /\ BoxEnds(t) \subseteq BoxStatements(t)
  BY DEF BoxBegins, BoxEnds
<1>2. \A x, y \in BoxStatements(t) : BoxFollows(t, x, y) <=> <<x, y>> \in BoxOrder(t)
  <2> HIDE DEF BoxStatements, BoxFollows
  <2> QED BY DEF BoxOrder
<1>3. \A y \in BoxEnds(t), u \in BoxBegins(t) : BoxFollows(t, y, u)
  BY DEF BoxFollows, BoxBegins, BoxEnds
<1> QED BY <1>1, <1>2, <1>3

\* Where the statements stand.
LEMMA Areas ==
    ASSUME NEW m
    PROVE  /\ \A kind \in {"msend", "mrecv"} : /\ Area(WaitOn(kind, m)) = 0 /\ Leaves(WaitOn(kind, m)) = m
                                               /\ Area(PostOn(kind, m)) = m /\ Leaves(PostOn(kind, m)) = 0
           /\ \A v : Area(BoxPut(m, v)) = m /\ Leaves(BoxPut(m, v)) = m
           /\ \A what \in {"get", "count", "empty"} : Area(BoxDo(what, m)) = m /\ Leaves(BoxDo(what, m)) = m
           /\ \A what \in {"show", "accept"} : Area(BoxDo(what, m)) = 0 /\ Leaves(BoxDo(what, m)) = 0
           /\ \A v : Area(Filling(v)) = 0 /\ Leaves(Filling(v)) = 0
           /\ Area(WaitOn("wait", 0)) = 0 /\ Leaves(WaitOn("wait", 0)) = 0
           /\ Area(PostOn("wait", 0)) = 0 /\ Leaves(PostOn("wait", 0)) = 0
BY DEF Area, Leaves, WaitOn, PostOn, BoxPut, BoxDo, Filling

\* A list of one text is that text.
LEMMA FlattenOne ==
    ASSUME NEW p
    PROVE  FlattenSeq([k \in 1 .. 1 |-> p]) = p
<1>1. PICK f : f = [k \in 1 .. 1 |-> p]
  OBVIOUS
<1> DEFINE Body(g) == [i \in 1 .. 1 |-> IF i = 1 THEN f[i] ELSE g[i - 1] \o f[i]]
<1>2. Len(f) = 1 /\ f[1] = p
  <2>1. f = <<p>>
    BY <1>1
  <2> QED BY <2>1
<1>3. FlattenSeq(f) = (CHOOSE g : g = Body(g))[1]
  BY <1>2 DEF FlattenSeq
<1>4. f = Body(f)
  BY <1>1, <1>2
<1>5. ASSUME NEW g, g = Body(g) PROVE g[1] = p
  <2>1. g[1] = Body(g)[1]
    BY <1>5
  <2>2. Body(g)[1] = f[1]
    OBVIOUS
  <2> QED BY <2>1, <2>2, <1>2
<1>6. (CHOOSE g : g = Body(g)) = Body(CHOOSE g : g = Body(g))
  <2> HIDE DEF Body
  <2> QED BY <1>4
<1>7. (CHOOSE g : g = Body(g))[1] = p
  <2> HIDE DEF Body
  <2> QED BY <1>5, <1>6
<1> QED BY <1>1, <1>3, <1>7

\* A message in a mailbox, by task0.
LEMMA SendRun ==
    ASSUME NEW m \in Mailboxes, NEW v \in Nat
    PROVE  Run(BoxStatements(1), BoxOrder(1), Wait("msend", m) \o Set("put", m, v) \o Post("mrecv", m),
               WaitOn("msend", m), PostOn("mrecv", m))
<1>1. PICK S, R : S = BoxStatements(1) /\ R = BoxOrder(1)
  OBVIOUS
<1>2. PICK x1, x2, x3 : x1 = WaitOn("msend", m) /\ x2 = BoxPut(m, v) /\ x3 = PostOn("mrecv", m)
  OBVIOUS
<1>3. x1 \in S /\ x2 \in S /\ x3 \in S
  <2>1. x1 \in Sending(m) /\ x2 \in Sending(m) /\ x3 \in Sending(m)
    BY <1>2 DEF Sending
  <2> QED BY <2>1, <1>1 DEF BoxStatements, Sendings
<1>4. BoxFollows(1, x1, x2) /\ BoxFollows(1, x2, x3)
  <2>1. Area(x2) = Leaves(x1) /\ Area(x3) = Leaves(x2)
    BY <1>2, Areas
  <2>2. x2 # WaitOn("wait", 0) /\ x1 # PostOn("mrecv", mail) /\ x3 # WaitOn("wait", 0) /\ x2 # PostOn("mrecv", mail)
    BY <1>2 DEF WaitOn, PostOn, BoxPut
  <2> QED BY <2>1, <2>2 DEF BoxFollows
<1>5. <<x1, x2>> \in R /\ <<x2, x3>> \in R
  BY <1>1, <1>3, <1>4, BoxRelation
<1>6. Run(S, R, <<x1>>, x1, x1) /\ Run(S, R, <<x2>>, x2, x2) /\ Run(S, R, <<x3>>, x3, x3)
  BY <1>3, RunOne
<1>7. Run(S, R, <<x1>> \o <<x2>>, x1, x2)
  BY <1>5, <1>6, RunJoin
<1>8. Run(S, R, <<x1>> \o <<x2>> \o <<x3>>, x1, x3)
  BY <1>5, <1>6, <1>7, RunJoin
<1>9. Wait("msend", m) \o Set("put", m, v) \o Post("mrecv", m) = <<x1>> \o <<x2>> \o <<x3>>
  BY <1>2 DEF Wait, Set, Post, WaitOn, BoxPut, PostOn
<1> QED BY <1>1, <1>2, <1>8, <1>9

\* All of task0.
LEMMA SenderText == task0 \in BoxTexts(1)
<1>1. PICK S, R, B, E : S = BoxStatements(1) /\ R = BoxOrder(1) /\ B = BoxBegins(1) /\ E = BoxEnds(1)
  OBVIOUS
<1>2. BoxTexts(1) = Runs(S, R, B, E) /\ \A y \in E, u \in B : <<y, u>> \in R
  BY <1>1, BoxRelation DEF BoxTexts
<1>3. Rounds \in Nat \ {0}
  BY TaskGraphAssumption
<1>4. ASSUME NEW m \in {2, 3, 4}, NEW v \in Nat PROVE HF_MboxSend(m, v, Waiting[m]) \in Runs(S, R, B, E)
  <2>1. PICK p, x, y : p = Wait("msend", m) \o Set("put", m, v) \o Post("mrecv", m)
                       /\ x = WaitOn("msend", m) /\ y = PostOn("mrecv", m)
    OBVIOUS
  <2>2. Run(S, R, p, x, y)
    BY <2>1, <1>1, SendRun DEF Mailboxes
  <2>3. x \in B /\ y \in E
    <3>1. x \in Sending(m) /\ y \in Sending(m)
      BY <2>1 DEF Sending
    <3>2. x \in S /\ y \in S
      BY <3>1, <1>1 DEF BoxStatements, Sendings, Mailboxes
    <3>3. Area(x) = 0 /\ Leaves(y) = 0
      BY <2>1, Areas
    <3>4. x # WaitOn("wait", 0) /\ y # PostOn("mrecv", mail)
      BY <2>1 DEF WaitOn, PostOn, mail
    <3> QED BY <3>2, <3>3, <3>4, <1>1 DEF BoxBegins, BoxEnds
  <2>4. p \in Runs(S, R, B, E)
    BY <2>2, <2>3 DEF Runs, Run
  <2>5. PICK n : n = Waiting[m]
    OBVIOUS
  <2>6. n \in Nat \ {0}
    BY <2>5 DEF Waiting
  <2>7. PICK f : f = [k \in 1 .. n |-> p]
    OBVIOUS
  <2>8. f = [k \in 1 .. n |-> f[k]] /\ \A k \in 1 .. n : f[k] \in Runs(S, R, B, E)
    BY <2>4, <2>7
  <2>9. FlattenSeq(f) \in Runs(S, R, B, E)
    BY <2>6, <2>8, <1>2, RunsFlatten
  <2> QED BY <2>1, <2>5, <2>7, <2>9 DEF HF_MboxSend
<1>5. PICK f : f = [i \in 1 .. Rounds |-> Set("fill", 0, i - 1) \o HF_MboxSend(mail, buf, Waiting[mail]) \o Wait("wait", 0)]
  OBVIOUS
<1>6. ASSUME NEW i \in 1 .. Rounds PROVE f[i] \in Runs(S, R, B, E)
  <2>1. PICK q : q = Wait("msend", mail) \o Set("put", mail, buf) \o Post("mrecv", mail)
    OBVIOUS
  <2>2. HF_MboxSend(mail, buf, Waiting[mail]) = q
    <3>1. Waiting[mail] = 1
      BY DEF Waiting, mail
    <3> QED BY <2>1, <3>1, FlattenOne DEF HF_MboxSend
  <2>3. PICK x, y, a, b : x = Filling(i - 1) /\ y = WaitOn("wait", 0) /\ a = WaitOn("msend", mail) /\ b = PostOn("mrecv", mail)
    OBVIOUS
  <2>4. Run(S, R, q, a, b)
    <3>1. mail \in Mailboxes /\ buf \in Nat
      BY DEF mail, Mailboxes, buf
    <3> QED BY <2>1, <2>3, <3>1, <1>1, SendRun
  <2>5. x \in S /\ y \in S /\ a \in S /\ b \in S
    <3>1. PICK v : v = i - 1 /\ v \in Nat
      BY <1>3
    <3>2. x \in S /\ y \in S
      <4>1. x \in Fillings
        BY <2>3, <3>1 DEF Fillings
      <4>2. BoxStatements(1) = Sendings \cup Fillings \cup {WaitOn("wait", 0)}
        BY DEF BoxStatements
      <4>3. x \in BoxStatements(1)
        BY <4>1, <4>2
      <4>4. WaitOn("wait", 0) \in BoxStatements(1)
        BY <4>2
      <4> QED BY <4>3, <4>4, <2>3, <1>1
    <3>3. a \in Sending(mail) /\ b \in Sending(mail)
      BY <2>3 DEF Sending
    <3> QED BY <3>2, <3>3, <1>1 DEF BoxStatements, Sendings, Mailboxes, mail
  <2>6. BoxFollows(1, x, a) /\ BoxFollows(1, b, y)
    <3>1. Area(a) = 0 /\ Leaves(x) = 0 /\ Area(y) = 0 /\ Leaves(b) = 0
      BY <2>3, Areas
    <3>2. a # WaitOn("wait", 0) /\ x # PostOn("mrecv", mail)
      BY <2>3 DEF WaitOn, PostOn, Filling
    <3> QED BY <2>3, <3>1, <3>2 DEF BoxFollows
  <2>7. <<x, a>> \in R /\ <<b, y>> \in R
    BY <2>5, <2>6, <1>1, BoxRelation
  <2>8. Run(S, R, <<x>>, x, x) /\ Run(S, R, <<y>>, y, y)
    BY <2>5, RunOne
  <2>9. Run(S, R, <<x>> \o q, x, b)
    BY <2>4, <2>7, <2>8, RunJoin
  <2>10. Run(S, R, <<x>> \o q \o <<y>>, x, y)
    BY <2>7, <2>8, <2>9, RunJoin
  <2>11. x \in B /\ y \in E
    <3>1. Area(x) = 0 /\ Leaves(y) = 0
      BY <2>3, Areas
    <3>2. x # WaitOn("wait", 0) /\ y # PostOn("mrecv", mail)
      BY <2>3 DEF WaitOn, PostOn, Filling
    <3> QED BY <2>5, <3>1, <3>2, <1>1 DEF BoxBegins, BoxEnds
  <2>12. f[i] = <<x>> \o q \o <<y>>
    BY <2>2, <2>3, <1>5 DEF Set, Wait, Filling, WaitOn
  <2> QED BY <2>10, <2>11, <2>12 DEF Runs, Run
<1>7. FlattenSeq(f) \in Runs(S, R, B, E)
  <2>1. f = [i \in 1 .. Rounds |-> f[i]]
    BY <1>5
  <2> QED BY <2>1, <1>2, <1>3, <1>6, RunsFlatten
<1>8. PICK g : g = [i \in 1 .. Rounds |-> HF_MboxSend(mail2, i - 1, Waiting[mail2])]
  OBVIOUS
<1>9. FlattenSeq(g) \in Runs(S, R, B, E)
  <2>1. ASSUME NEW i \in 1 .. Rounds PROVE g[i] \in Runs(S, R, B, E)
    <3>1. i - 1 \in Nat
      BY <1>3
    <3> QED BY <3>1, <1>4, <1>8 DEF mail2
  <2>2. g = [i \in 1 .. Rounds |-> g[i]]
    BY <1>8
  <2> QED BY <2>1, <2>2, <1>2, <1>3, RunsFlatten
<1>10. PICK q1, q2, q3, q4 : /\ q1 = FlattenSeq(f) /\ q2 = FlattenSeq(g)
                             /\ q3 = HF_MboxSend(mail3, hello, Waiting[mail3])
                             /\ q4 = HF_MboxSend(mail4, number, Waiting[mail4])
  OBVIOUS
<1>11. q1 \in Runs(S, R, B, E) /\ q2 \in Runs(S, R, B, E) /\ q3 \in Runs(S, R, B, E) /\ q4 \in Runs(S, R, B, E)
  BY <1>4, <1>7, <1>9, <1>10 DEF mail3, mail4, hello, number
<1>12. q1 \o q2 \in Runs(S, R, B, E)
  BY <1>2, <1>11, RunsJoin
<1>13. q1 \o q2 \o q3 \in Runs(S, R, B, E)
  BY <1>2, <1>11, <1>12, RunsJoin
<1>14. q1 \o q2 \o q3 \o q4 \in Runs(S, R, B, E)
  BY <1>2, <1>11, <1>13, RunsJoin
<1> QED BY <1>2, <1>5, <1>8, <1>10, <1>14 DEF task0

\* A message out of a mailbox.
LEMMA ReceiveRun ==
    ASSUME NEW t \in {2, 3, 4, 5}, NEW m \in Mailboxes, Receiving(m) \subseteq BoxStatements(t)
    PROVE  Run(BoxStatements(t), BoxOrder(t), HF_MboxRecv(m), WaitOn("mrecv", m), PostOn("msend", m))
<1>1. PICK S, R : S = BoxStatements(t) /\ R = BoxOrder(t)
  OBVIOUS
<1>2. PICK x1, x2, x3, x4, x5 :
          /\ x1 = WaitOn("mrecv", m) /\ x2 = BoxDo("get", m) /\ x3 = BoxDo("count", m) /\ x4 = BoxDo("empty", m)
          /\ x5 = PostOn("msend", m)
  OBVIOUS
<1>3. x1 \in S /\ x2 \in S /\ x3 \in S /\ x4 \in S /\ x5 \in S
  BY <1>1, <1>2 DEF Receiving
<1>4. BoxFollows(t, x1, x2) /\ BoxFollows(t, x2, x3) /\ BoxFollows(t, x3, x4) /\ BoxFollows(t, x4, x5)
  <2>1. Area(x2) = Leaves(x1) /\ Area(x3) = Leaves(x2) /\ Area(x4) = Leaves(x3) /\ Area(x5) = Leaves(x4)
    BY <1>2, Areas
  <2>2. \A x \in {x1, x2, x3, x4} : x # PostOn("wait", 0)
    BY <1>2 DEF WaitOn, PostOn, BoxDo
  <2>3. \A y \in {x2, x3, x4, x5} : y # WaitOn("mrecv", mail)
    BY <1>2 DEF WaitOn, PostOn, BoxDo
  <2> QED BY <2>1, <2>2, <2>3 DEF BoxFollows
<1>5. <<x1, x2>> \in R /\ <<x2, x3>> \in R /\ <<x3, x4>> \in R /\ <<x4, x5>> \in R
  BY <1>1, <1>3, <1>4, BoxRelation
<1>6. /\ Run(S, R, <<x1>>, x1, x1) /\ Run(S, R, <<x2>>, x2, x2) /\ Run(S, R, <<x3>>, x3, x3)
      /\ Run(S, R, <<x4>>, x4, x4) /\ Run(S, R, <<x5>>, x5, x5)
  BY <1>3, RunOne
<1>7. Run(S, R, <<x1>> \o <<x2>>, x1, x2)
  BY <1>5, <1>6, RunJoin
<1>8. Run(S, R, <<x1>> \o <<x2>> \o <<x3>>, x1, x3)
  BY <1>5, <1>6, <1>7, RunJoin
<1>9. Run(S, R, <<x1>> \o <<x2>> \o <<x3>> \o <<x4>>, x1, x4)
  BY <1>5, <1>6, <1>8, RunJoin
<1>10. Run(S, R, <<x1>> \o <<x2>> \o <<x3>> \o <<x4>> \o <<x5>>, x1, x5)
  BY <1>5, <1>6, <1>9, RunJoin
<1>11. HF_MboxRecv(m) = <<x1>> \o <<x2>> \o <<x3>> \o <<x4>> \o <<x5>>
  BY <1>2 DEF HF_MboxRecv, Wait, Do, Post, WaitOn, BoxDo, PostOn
<1> QED BY <1>1, <1>2, <1>10, <1>11

\* All of task1.
LEMMA PrinterRun ==
    Run(BoxStatements(2), BoxOrder(2), HF_MboxRecv(mail) \o Do("show", 0) \o Post("wait", 0),
        WaitOn("mrecv", mail), PostOn("wait", 0))
<1>1. PICK S, R, q : S = BoxStatements(2) /\ R = BoxOrder(2) /\ q = HF_MboxRecv(mail)
  OBVIOUS
<1>2. PICK x, b, y, z : x = WaitOn("mrecv", mail) /\ b = PostOn("msend", mail) /\ y = BoxDo("show", 0) /\ z = PostOn("wait", 0)
  OBVIOUS
<1>3. Run(S, R, q, x, b)
  <2>1. Receiving(mail) \subseteq BoxStatements(2)
    BY DEF BoxStatements
  <2>2. mail \in Mailboxes
    BY DEF mail, Mailboxes
  <2> QED BY <2>1, <2>2, <1>1, <1>2, ReceiveRun
<1>4. b \in S /\ y \in S /\ z \in S
  <2>1. b \in Receiving(mail)
    BY <1>2 DEF Receiving
  <2> QED BY <2>1, <1>1, <1>2 DEF BoxStatements
<1>5. BoxFollows(2, b, y) /\ BoxFollows(2, y, z)
  <2>1. Area(y) = 0 /\ Leaves(b) = 0 /\ Leaves(y) = 0 /\ Area(z) = 0
    BY <1>2, Areas
  <2>2. /\ b # PostOn("wait", 0) /\ y # PostOn("wait", 0)
        /\ y # WaitOn("mrecv", mail) /\ z # WaitOn("mrecv", mail)
    BY <1>2 DEF WaitOn, PostOn, BoxDo
  <2> QED BY <2>1, <2>2 DEF BoxFollows
<1>6. <<b, y>> \in R /\ <<y, z>> \in R
  BY <1>1, <1>4, <1>5, BoxRelation
<1>7. Run(S, R, <<y>>, y, y) /\ Run(S, R, <<z>>, z, z)
  BY <1>4, RunOne
<1>8. Run(S, R, q \o <<y>>, x, y)
  BY <1>3, <1>6, <1>7, RunJoin
<1>9. Run(S, R, q \o <<y>> \o <<z>>, x, z)
  BY <1>6, <1>7, <1>8, RunJoin
<1>10. Do("show", 0) = <<y>> /\ Post("wait", 0) = <<z>>
  BY <1>2 DEF Do, Post, BoxDo, PostOn
<1> QED BY <1>1, <1>2, <1>9, <1>10

\* The tasks that only receive.
LEMMA ReaderText ==
    ASSUME NEW t \in {3, 4, 5}, NEW m \in {mail2, mail3}, Receiving(m) \subseteq BoxStatements(t)
    PROVE  HF_MboxRecv(m) \in BoxTexts(t)
<1>1. PICK S, R, B, E : S = BoxStatements(t) /\ R = BoxOrder(t) /\ B = BoxBegins(t) /\ E = BoxEnds(t)
  OBVIOUS
<1>2. PICK p, x, y : p = HF_MboxRecv(m) /\ x = WaitOn("mrecv", m) /\ y = PostOn("msend", m)
  OBVIOUS
<1>3. Run(S, R, p, x, y)
  BY <1>1, <1>2, ReceiveRun DEF mail2, mail3, Mailboxes
<1>4. x \in S /\ y \in S
  BY <1>1, <1>2 DEF Receiving
<1>5. Area(x) = 0 /\ Leaves(y) = 0
  BY <1>2, Areas
<1>6. x \in B /\ y \in E
  BY <1>1, <1>4, <1>5 DEF BoxBegins, BoxEnds
<1> QED BY <1>1, <1>2, <1>3, <1>6 DEF BoxTexts, Runs, Run

\* The six tasks.
LEMMA BoxText ==
    ASSUME NEW t \in DOMAIN mailbox_test
    PROVE  t \in 1 .. 6 /\ mailbox_test[t] \in BoxTexts(t)
<1>1. PICK p : p = mailbox_test
  OBVIOUS
<1>2. p = <<task0, task1, task2, task3, task4, task5>>
  BY <1>1 DEF mailbox_test
<1>3. DOMAIN p = 1 .. 6 /\ p[1] = task0 /\ p[2] = task1 /\ p[3] = task2 /\ p[4] = task3 /\ p[5] = task4 /\ p[6] = task5
  BY <1>2
<1>4. task0 \in BoxTexts(1)
  BY SenderText
<1>5. task1 \in BoxTexts(2)
  <2>1. PICK S, R, B, E : S = BoxStatements(2) /\ R = BoxOrder(2) /\ B = BoxBegins(2) /\ E = BoxEnds(2)
    OBVIOUS
  <2>2. PICK x, y : x = WaitOn("mrecv", mail) /\ y = PostOn("wait", 0)
    OBVIOUS
  <2>3. Run(S, R, task1, x, y)
    BY <2>1, <2>2, PrinterRun DEF task1
  <2>4. x \in S /\ y \in S
    <3>1. x \in Receiving(mail)
      BY <2>2 DEF Receiving
    <3> QED BY <3>1, <2>1, <2>2 DEF BoxStatements
  <2>5. Area(x) = 0 /\ Leaves(y) = 0
    BY <2>2, Areas
  <2>6. x \in B /\ y \in E
    BY <2>1, <2>2, <2>4, <2>5 DEF BoxBegins, BoxEnds
  <2> QED BY <2>1, <2>3, <2>6 DEF BoxTexts, Runs, Run
<1>6. task2 \in BoxTexts(3) /\ task3 \in BoxTexts(4) /\ task4 \in BoxTexts(5)
  <2>1. Receiving(mail2) \subseteq BoxStatements(3) /\ Receiving(mail3) \subseteq BoxStatements(4) /\ Receiving(mail2) \subseteq BoxStatements(5)
    BY DEF BoxStatements
  <2> QED BY <2>1, ReaderText DEF task2, task3, task4
<1>7. task5 \in BoxTexts(6)
  <2>1. PICK S, R, B, E : S = BoxStatements(6) /\ R = BoxOrder(6) /\ B = BoxBegins(6) /\ E = BoxEnds(6)
    OBVIOUS
  <2>2. PICK x : x = BoxDo("accept", mail4)
    OBVIOUS
  <2>3. x \in S
    BY <2>1, <2>2 DEF BoxStatements
  <2>4. Area(x) = 0 /\ Leaves(x) = 0
    BY <2>2, Areas
  <2>5. x \in B /\ x \in E
    BY <2>1, <2>3, <2>4 DEF BoxBegins, BoxEnds
  <2>6. Run(S, R, <<x>>, x, x)
    BY <2>3, RunOne
  <2>7. task5 = <<x>>
    BY <2>2 DEF task5, HF_MboxAccept, Do, BoxDo
  <2> QED BY <2>1, <2>5, <2>6, <2>7 DEF BoxTexts, Runs, Run
<1> QED BY <1>1, <1>3, <1>4, <1>5, <1>6, <1>7

\* What comes next in such a text, round its end too.
LEMMA BoxNext ==
    ASSUME NEW t, NEW p \in BoxTexts(t), NEW k \in 1 .. Len(p)
    PROVE  /\ (k % Len(p)) + 1 \in 1 .. Len(p)
           /\ BoxFollows(t, p[k], p[(k % Len(p)) + 1])
           /\ p[k] \in BoxStatements(t)
<1>1. PICK S, R, B, E : S = BoxStatements(t) /\ R = BoxOrder(t) /\ B = BoxBegins(t) /\ E = BoxEnds(t)
  OBVIOUS
<1>2. p \in Runs(S, R, B, E) /\ \A y \in E, u \in B : <<y, u>> \in R
  BY <1>1, BoxRelation DEF BoxTexts
<1>3. (k % Len(p)) + 1 \in 1 .. Len(p) /\ <<p[k], p[(k % Len(p)) + 1]>> \in R /\ p[k] \in S
  BY <1>2, RunsRound
<1>4. p[(k % Len(p)) + 1] \in S
  BY <1>2, <1>3, RunsRound
<1> QED BY <1>1, <1>3, <1>4, BoxRelation

\* What is in the texts.
LEMMA RunHas ==
    ASSUME NEW S, NEW R, NEW p, NEW x, NEW y, Run(S, R, p, x, y)
    PROVE  p \in Seq(S) /\ x \in ToSet(p) /\ y \in ToSet(p)
<1>1. p \in Seq(S) /\ p # << >> /\ p[1] = x /\ p[Len(p)] = y
  BY DEF Run
<1>2. Len(p) \in Nat \ {0} /\ DOMAIN p = 1 .. Len(p)
  BY <1>1, LenProperties, EmptySeq
<1>3. 1 \in DOMAIN p /\ Len(p) \in DOMAIN p
  BY <1>2
<1> QED BY <1>1, <1>3 DEF ToSet

\* What is in a text of runs is in one of them.
LEMMA JoinHas ==
    ASSUME NEW S, NEW p \in Seq(S), NEW q \in Seq(S)
    PROVE  ToSet(p) \subseteq ToSet(p \o q)
<1>1. PICK r : r = p \o q
  OBVIOUS
<1>2. Len(p) \in Nat /\ Len(q) \in Nat /\ r \in Seq(S) /\ Len(r) = Len(p) + Len(q) /\ \A k \in 1 .. Len(p) : r[k] = p[k]
  BY <1>1, ConcatProperties, LenProperties
<1>3. DOMAIN p = 1 .. Len(p) /\ DOMAIN r = 1 .. Len(r)
  BY <1>2, LenProperties
<1>4. ASSUME NEW k \in DOMAIN p PROVE p[k] \in ToSet(r)
  <2>1. k \in DOMAIN r /\ r[k] = p[k]
    BY <1>2, <1>3
  <2> QED BY <2>1 DEF ToSet
<1> QED BY <1>1, <1>4 DEF ToSet

\* The semaphores the invariant is about.
LEMMA BoxSemaphores ==
    ASSUME app = "mailbox_test", app \in Apps
    PROVE  /\ \A m \in {1, 2, 3} : <<"msend", m>> \in Semaphores /\ <<"mrecv", m>> \in Semaphores
           /\ <<"wait", 0>> \in Semaphores /\ <<"msend", 4>> \in Semaphores
<1>1. PICK P : P = Programs[app]
  OBVIOUS
<1>2. P = mailbox_test
  BY <1>1 DEF Programs
<1>3. Semaphores = {y.on : y \in {z \in UNION {ToSet(P[t]) : t \in DOMAIN P} : z.do \in {"wait", "post"}}} \cup {<<"msend", mail4>>}
  BY <1>1 DEF Semaphores, SemaphoresOf
<1>4. DOMAIN P = 1 .. 6 /\ P[2] = task1 /\ P[3] = task2 /\ P[4] = task3
  <2>1. P = <<task0, task1, task2, task3, task4, task5>>
    BY <1>2 DEF mailbox_test
  <2> QED BY <2>1
<1>5. ASSUME NEW t \in {2, 3, 4}, NEW x, x \in ToSet(P[t]), x.do \in {"wait", "post"}
      PROVE  x.on \in Semaphores
  <2>1. t \in DOMAIN P
    BY <1>4
  <2>2. x \in UNION {ToSet(P[u]) : u \in DOMAIN P}
    BY <2>1, <1>5
  <2> QED BY <2>2, <1>3, <1>5
<1>6. ASSUME NEW t \in {2, 3, 4}, NEW kind, NEW n, WaitOn(kind, n) \in ToSet(P[t]) \/ PostOn(kind, n) \in ToSet(P[t])
      PROVE  <<kind, n>> \in Semaphores
  <2>1. CASE WaitOn(kind, n) \in ToSet(P[t])
    <3>1. WaitOn(kind, n).do = "wait" /\ WaitOn(kind, n).on = <<kind, n>>
      BY DEF WaitOn
    <3> QED BY <2>1, <3>1, <1>5
  <2>2. CASE PostOn(kind, n) \in ToSet(P[t])
    <3>1. PostOn(kind, n).do = "post" /\ PostOn(kind, n).on = <<kind, n>>
      BY DEF PostOn
    <3> QED BY <2>2, <3>1, <1>5
  <2> QED BY <2>1, <2>2, <1>6
<1>7. ASSUME NEW t \in {2, 3, 4}, NEW m \in Mailboxes, Receiving(m) \subseteq BoxStatements(t)
      PROVE  /\ HF_MboxRecv(m) \in Seq(BoxStatements(t))
             /\ WaitOn("mrecv", m) \in ToSet(HF_MboxRecv(m)) /\ PostOn("msend", m) \in ToSet(HF_MboxRecv(m))
  BY <1>7, ReceiveRun, RunHas
<1>8. <<"msend", 2>> \in Semaphores /\ <<"mrecv", 2>> \in Semaphores
  <2>1. Receiving(2) \subseteq BoxStatements(3)
    BY DEF BoxStatements, mail2
  <2>2. P[3] = HF_MboxRecv(2)
    BY <1>4 DEF task2, mail2
  <2>3. 2 \in Mailboxes
    BY DEF Mailboxes
  <2>4. WaitOn("mrecv", 2) \in ToSet(P[3]) /\ PostOn("msend", 2) \in ToSet(P[3])
    BY <2>1, <2>2, <2>3, <1>7
  <2> QED BY <2>4, <1>6
<1>9. <<"msend", 3>> \in Semaphores /\ <<"mrecv", 3>> \in Semaphores
  <2>1. Receiving(3) \subseteq BoxStatements(4)
    BY DEF BoxStatements, mail3
  <2>2. P[4] = HF_MboxRecv(3)
    BY <1>4 DEF task3, mail3
  <2>3. 3 \in Mailboxes
    BY DEF Mailboxes
  <2>4. WaitOn("mrecv", 3) \in ToSet(P[4]) /\ PostOn("msend", 3) \in ToSet(P[4])
    BY <2>1, <2>2, <2>3, <1>7
  <2> QED BY <2>4, <1>6
<1>10. <<"msend", 1>> \in Semaphores /\ <<"mrecv", 1>> \in Semaphores /\ <<"wait", 0>> \in Semaphores
  <2>1. PICK S, q, y, z : S = BoxStatements(2) /\ q = HF_MboxRecv(1) /\ y = BoxDo("show", 0) /\ z = PostOn("wait", 0)
    OBVIOUS
  <2>2. Receiving(1) \subseteq S
    BY <2>1 DEF BoxStatements, mail
  <2>3. 1 \in Mailboxes
    BY DEF Mailboxes
  <2>4. q \in Seq(S) /\ WaitOn("mrecv", 1) \in ToSet(q) /\ PostOn("msend", 1) \in ToSet(q)
    BY <2>1, <2>2, <2>3, <1>7
  <2>5. y \in S /\ z \in S
    BY <2>1 DEF BoxStatements
  <2>6. <<y>> \in Seq(S) /\ <<z>> \in Seq(S)
    BY <2>5
  <2>7. q \o <<y>> \in Seq(S)
    BY <2>4, <2>6, ConcatProperties
  <2>8. ToSet(q) \subseteq ToSet(q \o <<y>> \o <<z>>)
    BY <2>4, <2>6, <2>7, JoinHas
  <2>9. P[2] = q \o <<y>> \o <<z>>
    BY <2>1, <1>4 DEF task1, Do, Post, BoxDo, PostOn, mail
  <2>10. PostOn("wait", 0) \in ToSet(P[2])
    BY <1>4, PrinterRun, RunHas DEF task1
  <2>11. WaitOn("mrecv", 1) \in ToSet(P[2]) /\ PostOn("msend", 1) \in ToSet(P[2])
    BY <2>4, <2>8, <2>9
  <2> QED BY <2>10, <2>11, <1>6
<1>11. <<"msend", 4>> \in Semaphores
  BY <1>3 DEF mail4
<1> QED BY <1>8, <1>9, <1>10, <1>11

-----------------------------------------------------------------------------
(* Statements of mailbox_test *)

\* The kinds of statements, and who has them.
LEMMA BoxKinds ==
    ASSUME NEW t \in 1 .. 6, NEW x \in BoxStatements(t)
    PROVE  /\ x.do \in {"put", "get", "count", "empty", "wait", "post", "accept", "fill", "show"}
           /\ x.do = "wait" => \/ x = WaitOn("wait", 0) /\ t = 1
                               \/ x = WaitOn("mrecv", mail) /\ t = 2
                               \/ \E m \in Mailboxes : x = WaitOn("msend", m) /\ t = 1
                               \/ \E m \in {mail2, mail3} : x = WaitOn("mrecv", m)
           /\ x.do = "post" => \/ x = PostOn("wait", 0) /\ t = 2
                               \/ x = PostOn("mrecv", mail) /\ t = 1
                               \/ \E m \in Mailboxes \ {mail} : x = PostOn("mrecv", m)
                               \/ \E m \in Mailboxes : x = PostOn("msend", m)
           /\ x.do = "accept" => x.at = mail4 /\ t = 6
           /\ x.do = "fill" => t = 1
           /\ x.do = "show" => t = 2
<1>1. CASE t = 1 /\ x \in Sendings
  <2>1. PICK m \in Mailboxes : x \in Sending(m)
    BY <1>1 DEF Sendings
  <2>2. CASE x = WaitOn("msend", m)
    BY <2>2, <1>1 DEF WaitOn
  <2>3. CASE x = PostOn("mrecv", m)
    BY <2>3, <1>1 DEF PostOn
  <2>4. CASE \E v \in Nat : x = BoxPut(m, v)
    BY <2>4, <1>1 DEF BoxPut
  <2> QED BY <2>1, <2>2, <2>3, <2>4 DEF Sending
<1>2. CASE t = 1 /\ (x = WaitOn("wait", 0) \/ x \in Fillings)
  BY <1>2 DEF WaitOn, Fillings, Filling
<1>3. CASE t = 2 /\ x \in Receiving(mail) \cup {BoxDo("show", 0), PostOn("wait", 0)}
  BY <1>3 DEF Receiving, WaitOn, PostOn, BoxDo, mail, Mailboxes
<1>4. CASE x \in Receiving(mail2) \cup Receiving(mail3)
  BY <1>4 DEF Receiving, WaitOn, PostOn, BoxDo, mail2, mail3, Mailboxes
<1>5. CASE t = 6 /\ x = BoxDo("accept", mail4)
  BY <1>5 DEF BoxDo
<1>6. \/ t = 1 /\ x \in Sendings
      \/ t = 1 /\ (x = WaitOn("wait", 0) \/ x \in Fillings)
      \/ t = 2 /\ x \in Receiving(mail) \cup {BoxDo("show", 0), PostOn("wait", 0)}
      \/ x \in Receiving(mail2) \cup Receiving(mail3)
      \/ t = 6 /\ x = BoxDo("accept", mail4)
  <2>1. /\ BoxStatements(1) = Sendings \cup Fillings \cup {WaitOn("wait", 0)}
        /\ BoxStatements(2) = Receiving(mail) \cup {BoxDo("show", 0), PostOn("wait", 0)}
        /\ BoxStatements(3) = Receiving(mail2) /\ BoxStatements(5) = Receiving(mail2)
        /\ BoxStatements(4) = Receiving(mail3)
        /\ BoxStatements(6) = {BoxDo("accept", mail4)}
    BY DEF BoxStatements
  <2>2. t = 1 \/ t = 2 \/ t = 3 \/ t = 4 \/ t = 5 \/ t = 6
    OBVIOUS
  <2> QED BY <2>1, <2>2
<1> QED BY <1>1, <1>2, <1>3, <1>4, <1>5, <1>6

\* What such a task does and what comes next.
LEMMA BoxStatement ==
    ASSUME TableInv, app = "mailbox_test", NEW t \in Tasks
    PROVE  /\ t \in 1 .. 6
           /\ Statement(t) \in BoxStatements(t) /\ NextOf(t) \in BoxStatements(t)
           /\ BoxFollows(t, Statement(t), NextOf(t))
<1>1. PICK p, k : p = Program[t] /\ k = pc[t]
  OBVIOUS
<1>2. t \in 1 .. 6 /\ p \in BoxTexts(t)
  <2>1. Program = mailbox_test
    BY DEF TableInv, Program, Programs
  <2> QED BY <2>1, <1>1, BoxText DEF Tasks
<1>3. k \in 1 .. Len(p)
  BY <1>1 DEF TableInv
<1>4. (k % Len(p)) + 1 \in 1 .. Len(p) /\ BoxFollows(t, p[k], p[(k % Len(p)) + 1]) /\ p[k] \in BoxStatements(t)
  BY <1>2, <1>3, BoxNext
<1>5. p[(k % Len(p)) + 1] \in BoxStatements(t)
  BY <1>2, <1>4, BoxNext
<1>6. Statement(t) = p[k] /\ NextOf(t) = p[(k % Len(p)) + 1]
  BY <1>1 DEF Statement, NextOf, After
<1> QED BY <1>2, <1>4, <1>5, <1>6

\* The tasks are six, each at a number.
LEMMA SixTasks ==
    ASSUME app = "mailbox_test", app \in Apps
    PROVE  Tasks = 1 .. 6
<1>1. PICK p : p = mailbox_test
  OBVIOUS
<1>2. p = <<task0, task1, task2, task3, task4, task5>>
  BY <1>1 DEF mailbox_test
<1>3. DOMAIN p = 1 .. 6
  BY <1>2
<1>4. Program = p
  BY <1>1 DEF Program, Programs
<1> QED BY <1>3, <1>4 DEF Tasks

\* What a step of mailbox_test does is decided by the statement.
LEMMA BoxStep ==
    ASSUME TableInv, app = "mailbox_test", Step
    PROVE  /\ current \in Tasks
           /\ \/ Statement(current).do = "post" /\ SemPost
              \/ Statement(current).do = "wait" /\ SemWait
              \/ Statement(current).do = "accept" /\ MboxAccept
              \/ Statement(current).do \notin {"wait", "post"} /\ Plain
<1>1. current \in Tasks
  BY DEF Step, TableInv
<1>2. Statement(current).do \in {"put", "get", "count", "empty", "wait", "post", "accept", "fill", "show"}
  BY <1>1, BoxStatement, BoxKinds
<1>3. Now = Statement(current)
  BY DEF Now
<1> QED BY <1>1, <1>2, <1>3 DEF Step, SemPost, SemWait, Write, Copy, MboxPut, MboxGet, MboxCount, MboxEmpty, MboxAccept,
             Fill, Show, SetState, Hungry, Left, Right, Finds, Takes, Tells, Eat
-----------------------------------------------------------------------------
(* The mailboxes *)

\* The tasks inside a mailbox, and its one token.
Insiders(m) == {t \in Tasks : Area(Statement(t)) = m}
Token(m) == count[<<"msend", m>>] + count[<<"mrecv", m>>] + Cardinality(Insiders(m)) = 1

\* task0 waits for "wait" while its string is in the mailbox, with task1 or read.
Turn == Unit(Statement(1) = WaitOn("wait", 0))
            = count[<<"mrecv", mail>>] + Unit(Statement(2) # WaitOn("mrecv", mail)) + count[<<"wait", 0>>]

BoxInv == /\ LineInv
          /\ app = "mailbox_test"
          /\ \A m \in {mail, mail2, mail3} : Token(m)
          /\ Turn

\* The properties are about these.
LEMMA InsideArea ==
    ASSUME NEW t \in 1 .. 6, NEW x \in BoxStatements(t), NEW m \in {1, 2, 3}
    PROVE  Area(x) = m <=> \/ x.do \in {"put", "get", "count", "empty"} /\ x.at = m
                           \/ x.do = "post" /\ x.on \in {<<"msend", m>>, <<"mrecv", m>>}
<1>1. CASE x.do = "post"
  <2>1. \/ x = PostOn("wait", 0)
        \/ \E n \in Mailboxes : x = PostOn("mrecv", n)
        \/ \E n \in Mailboxes : x = PostOn("msend", n)
    BY <1>1, BoxKinds DEF mail, Mailboxes
  <2> QED BY <2>1 DEF Area, PostOn
<1>2. CASE x.do # "post"
  BY <1>2 DEF Area
<1> QED BY <1>1, <1>2

\* A step moves tasks in and out.
LEMMA InsidersMoved ==
    ASSUME TableInv, app = "mailbox_test", app' = app, NEW ts, Moves(ts), NEW m \in {1, 2, 3}
    PROVE  Insiders(m)' = (Insiders(m) \ {t \in ts : Statement(t).do = "post"})
                          \cup {t \in ts : Statement(t) \in {WaitOn("msend", m), WaitOn("mrecv", m)}}
<1>1. Tasks' = Tasks /\ ts \subseteq Tasks
  BY DEF Tasks, Program, Moves
<1>2. ASSUME NEW t \in ts PROVE Area(Statement(t)') = Leaves(Statement(t))
  <2>1. t \in Tasks /\ Statement(t)' = NextOf(t)
    BY <1>1, <1>2 DEF Moves
  <2> QED BY <2>1, BoxStatement DEF BoxFollows
<1>3. ASSUME NEW t \in ts
      PROVE  Leaves(Statement(t)) = m <=> \/ Area(Statement(t)) = m /\ Statement(t).do # "post"
                                          \/ Statement(t) \in {WaitOn("msend", m), WaitOn("mrecv", m)}
  <2>1. PICK x : x = Statement(t)
    OBVIOUS
  <2>2. t \in 1 .. 6 /\ x \in BoxStatements(t)
    BY <2>1, <1>1, BoxStatement
  <2>3. CASE x.do = "wait"
    <3>1. \/ x = WaitOn("wait", 0)
          \/ \E n \in Mailboxes : x = WaitOn("mrecv", n)
          \/ \E n \in Mailboxes : x = WaitOn("msend", n)
      BY <2>2, <2>3, BoxKinds DEF mail, mail2, mail3, Mailboxes
    <3> QED BY <2>1, <3>1 DEF Leaves, Area, WaitOn
  <2>4. CASE x.do # "wait"
    <3>1. x \notin {WaitOn("msend", m), WaitOn("mrecv", m)}
      BY <2>4 DEF WaitOn
    <3>2. Leaves(x) = IF x.do = "post" THEN 0 ELSE Area(x)
      BY <2>4 DEF Leaves
    <3> QED BY <2>1, <3>1, <3>2
  <2> QED BY <2>3, <2>4
<1>4. ASSUME NEW t \in Tasks \ ts PROVE Statement(t)' = Statement(t)
  BY <1>4 DEF Moves
<1>5. Insiders(m)' = {t \in Tasks : Area(Statement(t)') = m}
  BY <1>1 DEF Insiders
<1>6. ASSUME NEW t \in ts, Statement(t) \in {WaitOn("msend", m), WaitOn("mrecv", m)} PROVE Statement(t).do # "post"
  BY <1>6 DEF WaitOn
<1> QED BY <1>1, <1>2, <1>3, <1>4, <1>5, <1>6 DEF Insiders

\* task0 and task1 come to their waits.
LEMMA TurnMoved ==
    ASSUME TableInv, app = "mailbox_test", app' = app, NEW ts, Moves(ts)
    PROVE  /\ Statement(1)' = WaitOn("wait", 0) <=>
                  IF 1 \in ts THEN Statement(1) = PostOn("mrecv", mail) ELSE Statement(1) = WaitOn("wait", 0)
           /\ Statement(2)' = WaitOn("mrecv", mail) <=>
                  IF 2 \in ts THEN Statement(2) = PostOn("wait", 0) ELSE Statement(2) = WaitOn("mrecv", mail)
<1>1. 1 \in Tasks /\ 2 \in Tasks
  BY SixTasks DEF TableInv
<1> QED BY <1>1, BoxStatement DEF Moves, BoxFollows

\* There are finitely many insiders, and the counts are numbers.
LEMMA TokenParts ==
    ASSUME LineInv, app = "mailbox_test"
    PROVE  /\ \A m \in {1, 2, 3} : /\ IsFiniteSet(Insiders(m)) /\ Cardinality(Insiders(m)) \in Nat
                                   /\ count[<<"msend", m>>] \in Nat /\ count[<<"mrecv", m>>] \in Nat
                                   /\ <<"msend", m>> \in Semaphores /\ <<"mrecv", m>> \in Semaphores
           /\ count[<<"wait", 0>>] \in Nat /\ <<"wait", 0>> \in Semaphores
<1>1. app \in Apps /\ count \in [Semaphores -> Nat]
  BY DEF LineInv, TableInv
<1>2. IsFiniteSet(Tasks)
  <2>1. PICK n \in Nat : Tasks = 1 .. n
    BY <1>1, SixTasks
  <2> QED BY <2>1, FS_Interval
<1>3. ASSUME NEW m PROVE IsFiniteSet(Insiders(m)) /\ Cardinality(Insiders(m)) \in Nat
  BY <1>2, FS_Subset, FS_CardinalityType DEF Insiders
<1> QED BY <1>1, <1>3, BoxSemaphores

\* Who posts to task1 and to task0, and who waits for these posts.
LEMMA WhoseStatement ==
    ASSUME NEW t \in 1 .. 6, NEW x \in BoxStatements(t)
    PROVE  /\ x.do = "post" /\ x.on = <<"mrecv", 1>> => t = 1 /\ x = PostOn("mrecv", 1)
           /\ x.do = "post" /\ x.on = <<"wait", 0>> => t = 2 /\ x = PostOn("wait", 0)
           /\ x.do = "wait" /\ x.on = <<"mrecv", 1>> => t = 2 /\ x = WaitOn("mrecv", 1)
           /\ x.do = "wait" /\ x.on = <<"wait", 0>> => t = 1 /\ x = WaitOn("wait", 0)
<1>1. CASE x.do = "post"
  <2>1. \/ x = PostOn("wait", 0) /\ t = 2
        \/ x = PostOn("mrecv", mail) /\ t = 1
        \/ \E m \in Mailboxes \ {mail} : x = PostOn("mrecv", m)
        \/ \E m \in Mailboxes : x = PostOn("msend", m)
    BY <1>1, BoxKinds
  <2> QED BY <2>1, <1>1 DEF PostOn, mail
<1>2. CASE x.do = "wait"
  <2>1. \/ x = WaitOn("wait", 0) /\ t = 1
        \/ x = WaitOn("mrecv", mail) /\ t = 2
        \/ \E m \in Mailboxes : x = WaitOn("msend", m) /\ t = 1
        \/ \E m \in {mail2, mail3} : x = WaitOn("mrecv", m)
    BY <1>2, BoxKinds
  <2> QED BY <2>1, <1>2 DEF WaitOn, mail, mail2, mail3
<1> QED BY <1>1, <1>2

\* Waits by what they wait for.
LEMMA WaitIs ==
    ASSUME NEW t \in 1 .. 6, NEW x \in BoxStatements(t), x.do = "wait"
    PROVE  \A kind \in {"msend", "mrecv"}, m \in {1, 2, 3} : x = WaitOn(kind, m) <=> x.on = <<kind, m>>
<1>1. \/ x = WaitOn("wait", 0)
      \/ \E n \in Mailboxes : x = WaitOn("mrecv", n)
      \/ \E n \in Mailboxes : x = WaitOn("msend", n)
  BY BoxKinds DEF mail, mail2, mail3, Mailboxes
<1> QED BY <1>1 DEF WaitOn

\* Nobody comes or goes and no unit does.
LEMMA TokenSame ==
    ASSUME BoxInv, app' = app, NEW ts, Moves(ts), NEW m \in {1, 2, 3},
           count'[<<"msend", m>>] = count[<<"msend", m>>], count'[<<"mrecv", m>>] = count[<<"mrecv", m>>],
           \A t \in ts : /\ Statement(t).do = "post" => Statement(t).on \notin {<<"msend", m>>, <<"mrecv", m>>}
                         /\ Statement(t).do = "wait" => Statement(t).on \notin {<<"msend", m>>, <<"mrecv", m>>}
    PROVE  Token(m)'
<1>1. TableInv /\ app = "mailbox_test" /\ Token(m)
  BY DEF BoxInv, LineInv, mail, mail2, mail3
<1>2. Insiders(m)' = (Insiders(m) \ {t \in ts : Statement(t).do = "post"})
                     \cup {t \in ts : Statement(t) \in {WaitOn("msend", m), WaitOn("mrecv", m)}}
  BY <1>1, InsidersMoved
<1>3. ASSUME NEW t \in ts
      PROVE  /\ Statement(t).do = "post" => t \notin Insiders(m)
             /\ Statement(t) \notin {WaitOn("msend", m), WaitOn("mrecv", m)}
  <2>1. t \in 1 .. 6 /\ Statement(t) \in BoxStatements(t)
    BY <1>1, BoxStatement DEF Moves
  <2>2. Statement(t).do = "post" => Area(Statement(t)) # m
    BY <2>1, InsideArea
  <2>3. Statement(t) \notin {WaitOn("msend", m), WaitOn("mrecv", m)}
    BY DEF WaitOn
  <2> QED BY <2>2, <2>3 DEF Insiders
<1>4. Insiders(m)' = Insiders(m)
  BY <1>2, <1>3
<1> QED BY <1>1, <1>4 DEF Token

\* Nobody comes to or leaves the waits of task0 and task1.
LEMMA TurnSame ==
    ASSUME BoxInv, app' = app, NEW ts, Moves(ts),
           count'[<<"mrecv", 1>>] = count[<<"mrecv", 1>>], count'[<<"wait", 0>>] = count[<<"wait", 0>>],
           \A t \in ts : Statement(t).do \in {"post", "wait"} => Statement(t).on \notin {<<"mrecv", 1>>, <<"wait", 0>>}
    PROVE  Turn'
<1>1. TableInv /\ app = "mailbox_test" /\ Turn
  BY DEF BoxInv, LineInv
<1>2. ASSUME NEW t \in ts
      PROVE  Statement(t) \notin {WaitOn("wait", 0), PostOn("mrecv", mail), WaitOn("mrecv", mail), PostOn("wait", 0)}
  BY DEF WaitOn, PostOn, mail
<1>3. /\ Statement(1)' = WaitOn("wait", 0) <=> Statement(1) = WaitOn("wait", 0)
      /\ Statement(2)' = WaitOn("mrecv", mail) <=> Statement(2) = WaitOn("mrecv", mail)
  BY <1>1, <1>2, TurnMoved
<1>4. (WaitOn("wait", 0))' = WaitOn("wait", 0) /\ (WaitOn("mrecv", mail))' = WaitOn("mrecv", mail)
  OBVIOUS
<1>5. /\ Unit(Statement(1)' = WaitOn("wait", 0)) = Unit(Statement(1) = WaitOn("wait", 0))
      /\ Unit(Statement(2)' # WaitOn("mrecv", mail)) = Unit(Statement(2) # WaitOn("mrecv", mail))
  BY <1>3 DEF Unit
<1> QED BY <1>1, <1>5 DEF Turn, mail

\* A unit of mailbox m is taken.
LEMMA TokenTaken ==
    ASSUME BoxInv, app' = app, current \in Tasks, Moves({current}), NEW m \in {1, 2, 3}, NEW kind \in {"msend", "mrecv"},
           Statement(current) = WaitOn(kind, m), count[<<kind, m>>] > 0, count' = [count EXCEPT ![<<kind, m>>] = @ - 1]
    PROVE  Token(m)'
<1>1. PICK c : c = current
  OBVIOUS
<1>2. LineInv /\ TableInv /\ app = "mailbox_test" /\ Token(m) /\ count \in [Semaphores -> Nat]
  BY DEF BoxInv, LineInv, mail, mail2, mail3
<1>3. /\ IsFiniteSet(Insiders(m)) /\ Cardinality(Insiders(m)) \in Nat
      /\ count[<<"msend", m>>] \in Nat /\ count[<<"mrecv", m>>] \in Nat
      /\ <<"msend", m>> \in Semaphores /\ <<"mrecv", m>> \in Semaphores
  BY <1>2, TokenParts
<1>4. Insiders(m)' = (Insiders(m) \ {t \in {c} : Statement(t).do = "post"})
                     \cup {t \in {c} : Statement(t) \in {WaitOn("msend", m), WaitOn("mrecv", m)}}
  BY <1>1, <1>2, InsidersMoved
<1>5. Statement(c).do = "wait" /\ Area(Statement(c)) = 0
  <2>1. Area(WaitOn(kind, m)) = 0
    BY Areas
  <2> QED BY <2>1, <1>1 DEF WaitOn
<1>6. Insiders(m)' = Insiders(m) \cup {c} /\ c \notin Insiders(m)
  BY <1>1, <1>4, <1>5 DEF Insiders
<1>7. Cardinality(Insiders(m) \cup {c}) = Cardinality(Insiders(m)) + 1
  BY <1>3, <1>6, FS_AddElement
<1>8. count'[<<"msend", m>>] + count'[<<"mrecv", m>>] = count[<<"msend", m>>] + count[<<"mrecv", m>>] - 1
  <2>1. CASE kind = "msend"
    BY <2>1, <1>2, <1>3
  <2>2. CASE kind = "mrecv"
    BY <2>2, <1>2, <1>3
  <2> QED BY <2>1, <2>2
<1>9. PICK a, b : a = count'[<<"msend", m>>] /\ b = count'[<<"mrecv", m>>]
  OBVIOUS
<1>10. a \in Int /\ b \in Int
  BY <1>2, <1>3, <1>9
<1> QED BY <1>2, <1>3, <1>6, <1>7, <1>8, <1>9, <1>10 DEF Token

\* A unit of mailbox m is left, or goes to who waits.
LEMMA TokenGiven ==
    ASSUME BoxInv, app' = app, current \in Tasks, NEW m \in {1, 2, 3}, NEW kind \in {"msend", "mrecv"},
           Statement(current).do = "post", Statement(current).on = <<kind, m>>,
           \/ count' = [count EXCEPT ![<<kind, m>>] = Least(@ + 1, MaxCount)] /\ Moves({current})
           \/ /\ count' = count
              /\ \E h \in Tasks : /\ h # current /\ Statement(h).do = "wait" /\ Statement(h).on = <<kind, m>>
                                  /\ Moves({current, h})
    PROVE  Token(m)'
<1>1. PICK c, n : c = current /\ n = Cardinality(Insiders(m))
  OBVIOUS
<1>2. LineInv /\ TableInv /\ app = "mailbox_test" /\ Token(m) /\ count \in [Semaphores -> Nat]
  BY DEF BoxInv, LineInv, mail, mail2, mail3
<1>3. /\ IsFiniteSet(Insiders(m)) /\ n \in Nat
      /\ count[<<"msend", m>>] \in Nat /\ count[<<"mrecv", m>>] \in Nat
      /\ <<"msend", m>> \in Semaphores /\ <<"mrecv", m>> \in Semaphores
  BY <1>1, <1>2, TokenParts
<1>4. c \in Insiders(m)
  <2>1. c \in 1 .. 6 /\ Statement(c) \in BoxStatements(c)
    BY <1>1, <1>2, BoxStatement
  <2>2. Area(Statement(c)) = m
    BY <2>1, <1>1, InsideArea
  <2> QED BY <2>2, <1>1 DEF Insiders
<1>5. IsFiniteSet(Insiders(m) \ {c}) /\ Cardinality(Insiders(m) \ {c}) = n - 1 /\ n # 0
  <2>1. Cardinality(Insiders(m) \ {c}) = n - 1 /\ IsFiniteSet(Insiders(m) \ {c})
    BY <1>1, <1>3, <1>4, FS_RemoveElement
  <2>2. n # 0
    BY <1>1, <1>3, <1>4, FS_EmptySet
  <2> QED BY <2>1, <2>2
<1>6. n = 1 /\ count[<<"msend", m>>] = 0 /\ count[<<"mrecv", m>>] = 0
  BY <1>1, <1>2, <1>3, <1>5 DEF Token
<1>7. Statement(c) \notin {WaitOn("msend", m), WaitOn("mrecv", m)}
  BY <1>1 DEF WaitOn
<1>8. CASE count' = [count EXCEPT ![<<kind, m>>] = Least(@ + 1, MaxCount)] /\ Moves({c})
  <2>1. Insiders(m)' = (Insiders(m) \ {t \in {c} : Statement(t).do = "post"})
                       \cup {t \in {c} : Statement(t) \in {WaitOn("msend", m), WaitOn("mrecv", m)}}
    BY <1>2, <1>8, InsidersMoved
  <2>2. Insiders(m)' = Insiders(m) \ {c}
    BY <2>1, <1>1, <1>7
  <2>3. Least(0 + 1, MaxCount) = 1
    BY TaskGraphAssumption DEF Least
  <2>4. count'[<<"msend", m>>] + count'[<<"mrecv", m>>] = 1
    <3>1. CASE kind = "msend"
      BY <3>1, <2>3, <1>2, <1>3, <1>6, <1>8
    <3>2. CASE kind = "mrecv"
      BY <3>2, <2>3, <1>2, <1>3, <1>6, <1>8
    <3> QED BY <3>1, <3>2
  <2> QED BY <2>2, <2>4, <1>5, <1>6 DEF Token
<1>9. CASE /\ count' = count
           /\ \E h \in Tasks : /\ h # c /\ Statement(h).do = "wait" /\ Statement(h).on = <<kind, m>>
                               /\ Moves({c, h})
  <2>1. PICK h \in Tasks : h # c /\ Statement(h).do = "wait" /\ Statement(h).on = <<kind, m>> /\ Moves({c, h})
    BY <1>9
  <2>2. Insiders(m)' = (Insiders(m) \ {t \in {c, h} : Statement(t).do = "post"})
                       \cup {t \in {c, h} : Statement(t) \in {WaitOn("msend", m), WaitOn("mrecv", m)}}
    BY <2>1, <1>2, InsidersMoved
  <2>3. Statement(h) = WaitOn(kind, m)
    <3>1. h \in 1 .. 6 /\ Statement(h) \in BoxStatements(h)
      BY <1>2, BoxStatement
    <3> QED BY <3>1, <2>1, WaitIs
  <2>4. h \notin Insiders(m)
    BY <2>3, Areas DEF Insiders
  <2>5. Insiders(m)' = (Insiders(m) \ {c}) \cup {h}
    BY <2>1, <2>2, <2>3, <1>1, <1>7
  <2>6. Cardinality((Insiders(m) \ {c}) \cup {h}) = n
    <3>1. PICK S : S = Insiders(m) \ {c}
      OBVIOUS
    <3>2. h \notin S /\ IsFiniteSet(S) /\ Cardinality(S) = n - 1
      BY <3>1, <2>4, <1>5
    <3>3. Cardinality(S \cup {h}) = Cardinality(S) + 1
      BY <3>2, FS_AddElement
    <3> QED BY <3>1, <3>2, <3>3, <1>3
  <2> QED BY <2>5, <2>6, <1>6, <1>9 DEF Token
<1> QED BY <1>1, <1>8, <1>9

\* task0 takes its turn, or task1 the next string.
LEMMA TurnTaken ==
    ASSUME BoxInv, app' = app, current \in Tasks, Moves({current}), NEW s \in {<<"mrecv", 1>>, <<"wait", 0>>},
           Statement(current).do = "wait", Statement(current).on = s, count' = [count EXCEPT ![s] = @ - 1]
    PROVE  Turn'
<1>1. PICK c : c = current
  OBVIOUS
<1>2. LineInv /\ TableInv /\ app = "mailbox_test" /\ Turn /\ count \in [Semaphores -> Nat]
  BY DEF BoxInv, LineInv
<1>3. count[<<"mrecv", 1>>] \in Nat /\ count[<<"wait", 0>>] \in Nat /\ <<"mrecv", 1>> \in Semaphores /\ <<"wait", 0>> \in Semaphores
  BY <1>2, TokenParts
<1>4. /\ Statement(1)' = WaitOn("wait", 0) <=>
             IF 1 \in {c} THEN Statement(1) = PostOn("mrecv", mail) ELSE Statement(1) = WaitOn("wait", 0)
      /\ Statement(2)' = WaitOn("mrecv", mail) <=>
             IF 2 \in {c} THEN Statement(2) = PostOn("wait", 0) ELSE Statement(2) = WaitOn("mrecv", mail)
  BY <1>1, <1>2, TurnMoved
<1>5. PICK a, b, p, q : /\ a = Unit(Statement(1) = WaitOn("wait", 0)) /\ b = Unit(Statement(2) # WaitOn("mrecv", mail))
                        /\ p = Unit(Statement(1)' = WaitOn("wait", 0)) /\ q = Unit(Statement(2)' # WaitOn("mrecv", mail))
  OBVIOUS
<1>6. a = count[<<"mrecv", 1>>] + b + count[<<"wait", 0>>]
  BY <1>2, <1>5 DEF Turn, mail
<1>7. SUFFICES p = count'[<<"mrecv", 1>>] + q + count'[<<"wait", 0>>]
  BY <1>5 DEF Turn, mail
<1>8. c \in 1 .. 6 /\ Statement(c) \in BoxStatements(c)
  BY <1>1, <1>2, BoxStatement
<1>9. CASE s = <<"mrecv", 1>>
  <2>1. c = 2 /\ Statement(c) = WaitOn("mrecv", 1)
    BY <1>1, <1>8, <1>9, WhoseStatement
  <2>2. Statement(2) # PostOn("wait", 0)
    BY <2>1 DEF WaitOn, PostOn
  <2>3. p = a /\ b = 0 /\ q = 1
    BY <2>1, <2>2, <1>4, <1>5 DEF Unit, mail
  <2>4. count'[<<"mrecv", 1>>] = count[<<"mrecv", 1>>] - 1 /\ count'[<<"wait", 0>>] = count[<<"wait", 0>>]
    BY <1>2, <1>3, <1>9
  <2> QED BY <2>3, <2>4, <1>3, <1>6
<1>10. CASE s = <<"wait", 0>>
  <2>1. c = 1 /\ Statement(c) = WaitOn("wait", 0)
    BY <1>1, <1>8, <1>10, WhoseStatement
  <2>2. Statement(1) # PostOn("mrecv", mail)
    BY <2>1 DEF WaitOn, PostOn
  <2>3. p = 0 /\ a = 1 /\ q = b /\ b \in {0, 1}
    BY <2>1, <2>2, <1>4, <1>5 DEF Unit
  <2>4. count'[<<"mrecv", 1>>] = count[<<"mrecv", 1>>] /\ count'[<<"wait", 0>>] = count[<<"wait", 0>>] - 1
    BY <1>2, <1>3, <1>10
  <2> QED BY <2>3, <2>4, <1>3, <1>6
<1> QED BY <1>9, <1>10

\* task0 has put its string into the mailbox, or task1 has printed it.
LEMMA TurnGiven ==
    ASSUME BoxInv, app' = app, current \in Tasks, NEW s \in {<<"mrecv", 1>>, <<"wait", 0>>},
           Statement(current).do = "post", Statement(current).on = s,
           \/ count' = [count EXCEPT ![s] = Least(@ + 1, MaxCount)] /\ Moves({current})
           \/ /\ count' = count
              /\ \E h \in Tasks : /\ h # current /\ Statement(h).do = "wait" /\ Statement(h).on = s
                                  /\ Moves({current, h})
    PROVE  Turn'
<1>1. PICK c : c = current
  OBVIOUS
<1>2. LineInv /\ TableInv /\ app = "mailbox_test" /\ Turn /\ count \in [Semaphores -> Nat]
  BY DEF BoxInv, LineInv
<1>3. count[<<"mrecv", 1>>] \in Nat /\ count[<<"wait", 0>>] \in Nat /\ <<"mrecv", 1>> \in Semaphores /\ <<"wait", 0>> \in Semaphores
  BY <1>2, TokenParts
<1>4. ASSUME NEW ts, Moves(ts)
      PROVE  /\ Statement(1)' = WaitOn("wait", 0) <=>
                    IF 1 \in ts THEN Statement(1) = PostOn("mrecv", mail) ELSE Statement(1) = WaitOn("wait", 0)
             /\ Statement(2)' = WaitOn("mrecv", mail) <=>
                    IF 2 \in ts THEN Statement(2) = PostOn("wait", 0) ELSE Statement(2) = WaitOn("mrecv", mail)
  BY <1>2, <1>4, TurnMoved
<1>5. PICK a, b, p, q : /\ a = Unit(Statement(1) = WaitOn("wait", 0)) /\ b = Unit(Statement(2) # WaitOn("mrecv", mail))
                        /\ p = Unit(Statement(1)' = WaitOn("wait", 0)) /\ q = Unit(Statement(2)' # WaitOn("mrecv", mail))
  OBVIOUS
<1>6. a = count[<<"mrecv", 1>>] + b + count[<<"wait", 0>>] /\ a \in {0, 1} /\ b \in {0, 1}
  BY <1>2, <1>5 DEF Turn, mail, Unit
<1>7. SUFFICES p = count'[<<"mrecv", 1>>] + q + count'[<<"wait", 0>>]
  BY <1>5 DEF Turn, mail
<1>8. ASSUME NEW t \in Tasks PROVE t \in 1 .. 6 /\ Statement(t) \in BoxStatements(t)
  BY <1>2, BoxStatement
<1>9. Least(0 + 1, MaxCount) = 1
  BY TaskGraphAssumption DEF Least
<1>10. CASE s = <<"mrecv", 1>>
  <2>1. c = 1 /\ Statement(c) = PostOn("mrecv", 1)
    BY <1>1, <1>8, <1>10, WhoseStatement
  <2>2. Statement(1) # WaitOn("wait", 0)
    BY <2>1 DEF WaitOn, PostOn
  <2>3. a = 0 /\ count[<<"mrecv", 1>>] = 0 /\ b = 0 /\ count[<<"wait", 0>>] = 0
    <3>1. a = 0
      BY <2>2, <1>5 DEF Unit
    <3> QED BY <3>1, <1>3, <1>6
  <2>4. CASE count' = [count EXCEPT ![s] = Least(@ + 1, MaxCount)] /\ Moves({c})
    <3>1. p = 1 /\ q = b
      BY <2>1, <2>4, <1>4, <1>5 DEF Unit, mail
    <3>2. count'[<<"mrecv", 1>>] = 1 /\ count'[<<"wait", 0>>] = 0
      BY <2>3, <2>4, <1>2, <1>3, <1>9, <1>10
    <3> QED BY <3>1, <3>2, <2>3
  <2>5. CASE /\ count' = count
             /\ \E h \in Tasks : h # c /\ Statement(h).do = "wait" /\ Statement(h).on = s /\ Moves({c, h})
    <3>1. PICK h \in Tasks : Statement(h).do = "wait" /\ Statement(h).on = s /\ Moves({c, h})
      BY <2>5
    <3>2. h = 2 /\ Statement(h) = WaitOn("mrecv", 1)
      BY <3>1, <1>8, <1>10, WhoseStatement
    <3>3. Statement(2) # PostOn("wait", 0)
      BY <3>2 DEF WaitOn, PostOn
    <3>4. p = 1 /\ q = 1
      BY <2>1, <3>1, <3>2, <3>3, <1>4, <1>5 DEF Unit, mail
    <3> QED BY <3>4, <2>3, <2>5
  <2> QED BY <2>4, <2>5, <1>1
<1>11. CASE s = <<"wait", 0>>
  <2>1. c = 2 /\ Statement(c) = PostOn("wait", 0)
    BY <1>1, <1>8, <1>11, WhoseStatement
  <2>2. Statement(2) # WaitOn("mrecv", mail)
    BY <2>1 DEF WaitOn, PostOn
  <2>3. b = 1 /\ a = 1 /\ count[<<"mrecv", 1>>] = 0 /\ count[<<"wait", 0>>] = 0
    <3>1. b = 1
      BY <2>2, <1>5 DEF Unit
    <3> QED BY <3>1, <1>3, <1>6
  <2>4. CASE count' = [count EXCEPT ![s] = Least(@ + 1, MaxCount)] /\ Moves({c})
    <3>1. p = a /\ q = 0
      BY <2>1, <2>4, <1>4, <1>5 DEF Unit
    <3>2. count'[<<"mrecv", 1>>] = 0 /\ count'[<<"wait", 0>>] = 1
      BY <2>3, <2>4, <1>2, <1>3, <1>9, <1>11
    <3> QED BY <3>1, <3>2, <2>3
  <2>5. CASE /\ count' = count
             /\ \E h \in Tasks : h # c /\ Statement(h).do = "wait" /\ Statement(h).on = s /\ Moves({c, h})
    <3>1. PICK h \in Tasks : Statement(h).do = "wait" /\ Statement(h).on = s /\ Moves({c, h})
      BY <2>5
    <3>2. h = 1 /\ Statement(h) = WaitOn("wait", 0)
      BY <3>1, <1>8, <1>11, WhoseStatement
    <3>3. Statement(1) # PostOn("mrecv", mail)
      BY <3>2 DEF WaitOn, PostOn
    <3>4. p = 0 /\ q = 0
      BY <2>1, <3>1, <3>2, <3>3, <1>4, <1>5 DEF Unit
    <3> QED BY <3>4, <2>3, <2>5
  <2> QED BY <2>4, <2>5, <1>1
<1> QED BY <1>10, <1>11

\* A post, or the one of HF_MboxAccept.
LEMMA BoxGiven ==
    ASSUME BoxInv, app' = app, current \in Tasks, NEW s \in Semaphores,
           \/ Statement(current).do = "post" /\ Statement(current).on = s
           \/ Statement(current).do = "accept" /\ s = <<"msend", mail4>>,
           \/ count' = [count EXCEPT ![s] = Least(@ + 1, MaxCount)] /\ Moves({current})
           \/ /\ count' = count
              /\ \E h \in Tasks : /\ h # current /\ Statement(h).do = "wait" /\ Statement(h).on = s
                                  /\ Moves({current, h})
    PROVE  (\A m \in {1, 2, 3} : Token(m)') /\ Turn'
<1>1. LineInv /\ TableInv /\ app = "mailbox_test" /\ count \in [Semaphores -> Nat]
  BY DEF BoxInv, LineInv
<1>2. PICK ts : /\ Moves(ts)
                /\ \A t \in ts : Statement(t).do \in {"post", "wait"} => Statement(t).on = s
  <2>1. CASE Moves({current})
    <3>1. \A t \in {current} : Statement(t).do \in {"post", "wait"} => Statement(t).on = s
      OBVIOUS
    <3> QED BY <2>1, <3>1
  <2>2. CASE \E h \in Tasks : Statement(h).do = "wait" /\ Statement(h).on = s /\ Moves({current, h})
    <3>1. PICK h \in Tasks : Statement(h).do = "wait" /\ Statement(h).on = s /\ Moves({current, h})
      BY <2>2
    <3>2. \A t \in {current, h} : Statement(t).do \in {"post", "wait"} => Statement(t).on = s
      BY <3>1
    <3> QED BY <3>1, <3>2
  <2> QED BY <2>1, <2>2
<1>3. \A z \in Semaphores : z # s => count'[z] = count[z]
  BY <1>1
<1>4. ASSUME NEW m \in {1, 2, 3} PROVE Token(m)'
  <2>1. CASE s \notin {<<"msend", m>>, <<"mrecv", m>>}
    <3>1. count'[<<"msend", m>>] = count[<<"msend", m>>] /\ count'[<<"mrecv", m>>] = count[<<"mrecv", m>>]
      BY <2>1, <1>1, <1>3, TokenParts
    <3>2. \A t \in ts : /\ Statement(t).do = "post" => Statement(t).on \notin {<<"msend", m>>, <<"mrecv", m>>}
                        /\ Statement(t).do = "wait" => Statement(t).on \notin {<<"msend", m>>, <<"mrecv", m>>}
      BY <2>1, <1>2
    <3> QED BY <3>1, <3>2, <1>2, TokenSame
  <2>2. CASE s \in {<<"msend", m>>, <<"mrecv", m>>}
    <3>1. PICK kind \in {"msend", "mrecv"} : s = <<kind, m>>
      BY <2>2
    <3>2. Statement(current).do = "post" /\ Statement(current).on = <<kind, m>>
      BY <3>1 DEF mail4
    <3> QED BY <3>1, <3>2, TokenGiven
  <2> QED BY <2>1, <2>2
<1>5. Turn'
  <2>1. CASE s \notin {<<"mrecv", 1>>, <<"wait", 0>>}
    <3>1. count'[<<"mrecv", 1>>] = count[<<"mrecv", 1>>] /\ count'[<<"wait", 0>>] = count[<<"wait", 0>>]
      BY <2>1, <1>1, <1>3, TokenParts
    <3>2. \A t \in ts : Statement(t).do \in {"post", "wait"} => Statement(t).on \notin {<<"mrecv", 1>>, <<"wait", 0>>}
      BY <2>1, <1>2
    <3> QED BY <3>1, <3>2, <1>2, TurnSame
  <2>2. CASE s \in {<<"mrecv", 1>>, <<"wait", 0>>}
    <3>1. Statement(current).do = "post" /\ Statement(current).on = s
      BY <2>2 DEF mail4
    <3> QED BY <2>2, <3>1, TurnGiven
  <2> QED BY <2>1, <2>2
<1> QED BY <1>4, <1>5

\* A wait that finds a unit.
LEMMA BoxTaken ==
    ASSUME BoxInv, app' = app, current \in Tasks, NEW s \in Semaphores, Moves({current}),
           Statement(current).do = "wait", Statement(current).on = s, count[s] > 0, count' = [count EXCEPT ![s] = @ - 1]
    PROVE  (\A m \in {1, 2, 3} : Token(m)') /\ Turn'
<1>1. LineInv /\ TableInv /\ app = "mailbox_test" /\ count \in [Semaphores -> Nat]
  BY DEF BoxInv, LineInv
<1>2. \A z \in Semaphores : z # s => count'[z] = count[z]
  BY <1>1
<1>3. ASSUME NEW m \in {1, 2, 3} PROVE Token(m)'
  <2>1. CASE s \notin {<<"msend", m>>, <<"mrecv", m>>}
    <3>1. count'[<<"msend", m>>] = count[<<"msend", m>>] /\ count'[<<"mrecv", m>>] = count[<<"mrecv", m>>]
      BY <2>1, <1>1, <1>2, TokenParts
    <3>2. \A t \in {current} : /\ Statement(t).do = "post" => Statement(t).on \notin {<<"msend", m>>, <<"mrecv", m>>}
                               /\ Statement(t).do = "wait" => Statement(t).on \notin {<<"msend", m>>, <<"mrecv", m>>}
      BY <2>1
    <3> QED BY <3>1, <3>2, TokenSame
  <2>2. CASE s \in {<<"msend", m>>, <<"mrecv", m>>}
    <3>1. PICK kind \in {"msend", "mrecv"} : s = <<kind, m>>
      BY <2>2
    <3>2. current \in 1 .. 6 /\ Statement(current) \in BoxStatements(current)
      BY <1>1, BoxStatement
    <3>3. Statement(current) = WaitOn(kind, m)
      BY <3>1, <3>2, WaitIs
    <3> QED BY <3>1, <3>3, TokenTaken
  <2> QED BY <2>1, <2>2
<1>4. Turn'
  <2>1. CASE s \notin {<<"mrecv", 1>>, <<"wait", 0>>}
    <3>1. count'[<<"mrecv", 1>>] = count[<<"mrecv", 1>>] /\ count'[<<"wait", 0>>] = count[<<"wait", 0>>]
      BY <2>1, <1>1, <1>2, TokenParts
    <3>2. \A t \in {current} : Statement(t).do \in {"post", "wait"} => Statement(t).on \notin {<<"mrecv", 1>>, <<"wait", 0>>}
      BY <2>1
    <3> QED BY <3>1, <3>2, TurnSame
  <2>2. CASE s \in {<<"mrecv", 1>>, <<"wait", 0>>}
    BY <2>2, TurnTaken
  <2> QED BY <2>1, <2>2
<1> QED BY <1>3, <1>4

\* Nobody takes or leaves a unit.
LEMMA BoxKept ==
    ASSUME BoxInv, app' = app, count' = count, NEW ts, Moves(ts), \A t \in ts : Statement(t).do \notin {"wait", "post"}
    PROVE  (\A m \in {1, 2, 3} : Token(m)') /\ Turn'
<1>1. ASSUME NEW m \in {1, 2, 3} PROVE Token(m)'
  BY TokenSame
<1>2. \A t \in ts : Statement(t).do \in {"post", "wait"} => Statement(t).on \notin {<<"mrecv", 1>>, <<"wait", 0>>}
  OBVIOUS
<1>3. Turn'
  BY <1>2, TurnSame
<1> QED BY <1>1, <1>3

\* A task of mailbox_test begins outside all mailboxes.
LEMMA BoxFirst ==
    ASSUME Init, app = "mailbox_test", NEW t \in Tasks
    PROVE  Statement(t) \in BoxBegins(t)
<1>1. PICK p : p = Program[t]
  OBVIOUS
<1>2. p \in BoxTexts(t)
  <2>1. Program = mailbox_test
    BY DEF Init, Program, Programs
  <2> QED BY <2>1, <1>1, BoxText DEF Tasks
<1>3. PICK x \in BoxBegins(t) : p[1] = x
  BY <1>2 DEF BoxTexts, Runs, Run
<1>4. pc[t] = 1
  BY DEF Init
<1> QED BY <1>1, <1>3, <1>4 DEF Statement

\* It holds at first.
LEMMA BoxInit == Init /\ app = "mailbox_test" => BoxInv
<1> SUFFICES ASSUME Init, app = "mailbox_test" PROVE BoxInv
  OBVIOUS
<1>1. LineInv /\ app \in Apps
  BY LineInit DEF Init
<1>2. \A s \in Semaphores : count[s] = InitialCount(s)
  BY DEF Init
<1>3. \A t \in Tasks : Statement(t) \in BoxBegins(t)
  BY BoxFirst
<1>4. ASSUME NEW m \in {1, 2, 3} PROVE Token(m)
  <2>1. count[<<"msend", m>>] = 1 /\ count[<<"mrecv", m>>] = 0
    <3>1. <<"msend", m>> \in Semaphores /\ <<"mrecv", m>> \in Semaphores
      BY <1>1, TokenParts
    <3>2. InitialCount(<<"msend", m>>) = 1 /\ InitialCount(<<"mrecv", m>>) = 0
      BY DEF InitialCount
    <3> QED BY <3>1, <3>2, <1>2
  <2>2. Insiders(m) = {}
    <3>1. \A t \in Tasks : Area(Statement(t)) = 0
      BY <1>3 DEF BoxBegins
    <3> QED BY <3>1 DEF Insiders
  <2> QED BY <2>1, <2>2, FS_EmptySet DEF Token
<1>5. Turn
  <2>1. 1 \in Tasks /\ 2 \in Tasks
    BY <1>1, SixTasks
  <2>2. Statement(1) # WaitOn("wait", 0) /\ Statement(2) = WaitOn("mrecv", mail)
    BY <2>1, <1>3 DEF BoxBegins
  <2>3. Unit(Statement(1) = WaitOn("wait", 0)) = 0 /\ Unit(Statement(2) # WaitOn("mrecv", mail)) = 0
    BY <2>2 DEF Unit
  <2>4. count[<<"mrecv", mail>>] = 0 /\ count[<<"wait", 0>>] = 0
    <3>1. <<"mrecv", mail>> \in Semaphores /\ <<"wait", 0>> \in Semaphores
      BY <1>1, TokenParts DEF mail
    <3>2. InitialCount(<<"mrecv", mail>>) = 0 /\ InitialCount(<<"wait", 0>>) = 0
      BY DEF InitialCount
    <3> QED BY <3>1, <3>2, <1>2
  <2> QED BY <2>3, <2>4 DEF Turn
<1> QED BY <1>1, <1>4, <1>5 DEF BoxInv, mail, mail2, mail3

\* What a post does to the tasks, as a set that moves.
LEMMA PostMoves ==
    ASSUME LineInv, TableInv', app' = app, current' = current, current \in Tasks, Statement(current).do # "wait",
           NEW s \in Semaphores, Posts(s)
    PROVE  /\ LineInv'
           /\ \/ count' = [count EXCEPT ![s] = Least(@ + 1, MaxCount)] /\ Moves({current})
              \/ /\ count' = count
                 /\ \E h \in Tasks : /\ h # current /\ Statement(h).do = "wait" /\ Statement(h).on = s
                                     /\ Moves({current, h})
<1>1. /\ LineInv'
      /\ \/ /\ count' = [count EXCEPT ![s] = Least(@ + 1, MaxCount)]
            /\ line[s] = << >>
            /\ \A t \in Tasks : Statement(t)' = IF t = current THEN NextOf(t) ELSE Statement(t)
         \/ /\ count' = count
            /\ \E h \in Tasks : /\ h # current /\ Statement(h).do = "wait" /\ Statement(h).on = s
                                /\ \A t \in Tasks : Statement(t)' = IF t \in {current, h} THEN NextOf(t) ELSE Statement(t)
  BY PostLine
<1>2. CASE /\ count' = [count EXCEPT ![s] = Least(@ + 1, MaxCount)]
           /\ \A t \in Tasks : Statement(t)' = IF t = current THEN NextOf(t) ELSE Statement(t)
  BY <1>1, <1>2 DEF Moves
<1>3. CASE /\ count' = count
           /\ \E h \in Tasks : /\ h # current /\ Statement(h).do = "wait" /\ Statement(h).on = s
                               /\ \A t \in Tasks : Statement(t)' = IF t \in {current, h} THEN NextOf(t) ELSE Statement(t)
  BY <1>1, <1>3 DEF Moves
<1> QED BY <1>1, <1>2, <1>3

\* Every step keeps the tokens and the turn.
LEMMA BoxNextInv ==
    ASSUME BoxInv, [Next]_vars
    PROVE  BoxInv'
<1>1. LineInv /\ TableInv /\ app = "mailbox_test"
  BY DEF BoxInv, LineInv
<1>2. TableInv'
  BY <1>1, TableInductive
<1>3. SUFFICES LineInv' /\ app' = app /\ (\A m \in {1, 2, 3} : Token(m)') /\ Turn'
  BY <1>1 DEF BoxInv, mail, mail2, mail3
<1>4. CASE Step
  <2>1. /\ current \in Tasks
        /\ \/ Statement(current).do = "post" /\ SemPost
           \/ Statement(current).do = "wait" /\ SemWait
           \/ Statement(current).do = "accept" /\ MboxAccept
           \/ Statement(current).do \notin {"wait", "post"} /\ Plain
    BY <1>1, <1>4, BoxStep
  <2>2. Now = Statement(current)
    BY DEF Now
  <2>3. ASSUME Statement(current).do \notin {"wait", "post"}, app' = app, current' = current, count' = count, line' = line, Advance({current})
        PROVE  LineInv' /\ app' = app /\ (\A m \in {1, 2, 3} : Token(m)') /\ Turn'
    <3>1. count' \in [Semaphores -> Nat]
      BY <2>3, <1>1 DEF LineInv
    <3>2. LineInv'
      BY <2>3, <3>1, <1>1, <1>2, PlainLine
    <3>3. \A t \in Tasks : Statement(t)' = IF t \in {current} THEN NextOf(t) ELSE Statement(t)
      BY <2>3, <1>1, Advanced
    <3>4. Moves({current})
      BY <3>3, <2>1 DEF Moves
    <3>5. \A t \in {current} : Statement(t).do \notin {"wait", "post"}
      BY <2>3
    <3>6. (\A m \in {1, 2, 3} : Token(m)') /\ Turn'
      BY <2>3, <3>4, <3>5, BoxKept
    <3> QED BY <2>3, <3>2, <3>6
  <2>4. CASE Statement(current).do = "post" /\ SemPost
    <3>1. PICK s : s = Statement(current).on
      OBVIOUS
    <3>2. s \in Semaphores /\ Posts(s) /\ app' = app /\ current' = current
      BY <3>1, <2>1, <2>2, <2>4, <1>1, OnSemaphore DEF SemPost, core
    <3>3. /\ LineInv'
          /\ \/ count' = [count EXCEPT ![s] = Least(@ + 1, MaxCount)] /\ Moves({current})
             \/ /\ count' = count
                /\ \E h \in Tasks : /\ h # current /\ Statement(h).do = "wait" /\ Statement(h).on = s
                                    /\ Moves({current, h})
      BY <3>2, <2>1, <2>4, <1>1, <1>2, PostMoves
    <3>4. (\A m \in {1, 2, 3} : Token(m)') /\ Turn'
      BY <3>1, <3>2, <3>3, <2>1, <2>4, BoxGiven
    <3> QED BY <3>2, <3>3, <3>4
  <2>5. CASE Statement(current).do = "accept" /\ MboxAccept
    <3>1. Statement(current).at = mail4
      BY <2>1, <2>5, <1>1, BoxStatement, BoxKinds
    <3>2. app' = app /\ current' = current
      BY <2>5 DEF MboxAccept, core
    <3>3. CASE Advance({current}) /\ UNCHANGED semaphores
      BY <2>3, <2>5, <3>2, <3>3 DEF semaphores
    <3>4. CASE Posts(<<"msend", mail4>>)
      <4>1. PICK s : s = <<"msend", mail4>>
        OBVIOUS
      <4>2. s \in Semaphores
        BY <4>1, <1>1, BoxSemaphores DEF mail4, TableInv
      <4>3. /\ LineInv'
            /\ \/ count' = [count EXCEPT ![s] = Least(@ + 1, MaxCount)] /\ Moves({current})
               \/ /\ count' = count
                  /\ \E h \in Tasks : /\ h # current /\ Statement(h).do = "wait" /\ Statement(h).on = s
                                      /\ Moves({current, h})
        BY <4>1, <4>2, <3>2, <3>4, <2>1, <2>5, <1>1, <1>2, PostMoves
      <4>4. (\A m \in {1, 2, 3} : Token(m)') /\ Turn'
        BY <4>1, <4>2, <4>3, <3>2, <2>1, <2>5, BoxGiven
      <4> QED BY <3>2, <4>3, <4>4
    <3> QED BY <3>1, <3>3, <3>4, <2>2, <2>5 DEF MboxAccept
  <2>6. CASE Statement(current).do \notin {"wait", "post"} /\ Plain
    BY <2>3, <2>6 DEF Plain, core, semaphores
  <2>7. CASE Statement(current).do = "wait" /\ SemWait
    <3>1. PICK s : s = Statement(current).on
      OBVIOUS
    <3>2. s \in Semaphores /\ app' = app
      BY <3>1, <2>1, <2>7, <1>1, OnSemaphore DEF SemWait, Dispatch, core
    <3>3. /\ LineInv'
          /\ \/ /\ count[s] > 0 /\ count' = [count EXCEPT ![s] = @ - 1]
                /\ \A t \in Tasks : Statement(t)' = IF t = current THEN NextOf(t) ELSE Statement(t)
             \/ count' = count /\ \A t \in Tasks : Statement(t)' = Statement(t)
      BY <3>1, <2>1, <2>2, <2>7, <1>1, <1>2, WaitLine
    <3>4. CASE /\ count[s] > 0 /\ count' = [count EXCEPT ![s] = @ - 1]
               /\ \A t \in Tasks : Statement(t)' = IF t = current THEN NextOf(t) ELSE Statement(t)
      <4>1. Moves({current})
        BY <2>1, <3>4 DEF Moves
      <4>2. (\A m \in {1, 2, 3} : Token(m)') /\ Turn'
        BY <4>1, <3>1, <3>2, <3>4, <2>1, <2>7, BoxTaken
      <4> QED BY <4>2, <3>2, <3>3
    <3>5. CASE count' = count /\ \A t \in Tasks : Statement(t)' = Statement(t)
      <4>1. Moves({}) /\ \A t \in {} : Statement(t).do \notin {"wait", "post"}
        BY <3>5 DEF Moves
      <4> QED BY <4>1, <3>2, <3>3, <3>5, BoxKept
    <3> QED BY <3>3, <3>4, <3>5
  <2> QED BY <2>1, <2>4, <2>5, <2>6, <2>7
<1>5. CASE Tick
  <2>1. app' = app /\ count' = count /\ pc' = pc
    BY <1>5 DEF Tick, Dispatch, semaphores
  <2>2. LineInv'
    BY <1>1, <1>2, <1>5, TickLine
  <2>3. Moves({}) /\ \A t \in {} : Statement(t).do \notin {"wait", "post"}
    BY <2>1, Unmoved DEF Moves
  <2> QED BY <2>1, <2>2, <2>3, BoxKept
<1>6. CASE UNCHANGED vars
  <2>1. app' = app /\ pc' = pc /\ current' = current /\ count' = count /\ line' = line
    BY <1>6 DEF vars, core, semaphores
  <2>2. LineInv'
    BY <2>1, <1>1, <1>2, StillLine
  <2>3. Moves({}) /\ \A t \in {} : Statement(t).do \notin {"wait", "post"}
    BY <2>1, Unmoved DEF Moves
  <2> QED BY <2>1, <2>2, <2>3, BoxKept
<1> QED BY <1>4, <1>5, <1>6 DEF Next

\* The invariant is what the mailboxes promise.
LEMMA BoxSafe == BoxInv => MailboxesSafe
<1> SUFFICES ASSUME BoxInv PROVE MailboxesSafe
  OBVIOUS
<1>1. LineInv /\ TableInv /\ app = "mailbox_test" /\ app \in Apps
  BY DEF BoxInv, LineInv, TableInv
<1>2. ASSUME NEW t \in Tasks PROVE t \in 1 .. 6 /\ Statement(t) \in BoxStatements(t)
  BY <1>1, BoxStatement
<1>3. ASSUME NEW m \in {mail, mail2, mail3}
      PROVE  count[<<"msend", m>>] + count[<<"mrecv", m>>] + Cardinality({t \in Tasks : Inside(t, m)}) = 1
  <2>1. m \in {1, 2, 3}
    BY DEF mail, mail2, mail3
  <2>2. ASSUME NEW t \in Tasks PROVE Inside(t, m) <=> Area(Statement(t)) = m
    <3>1. PICK x : x = Statement(t)
      OBVIOUS
    <3>2. Area(x) = m <=> \/ x.do \in {"put", "get", "count", "empty"} /\ x.at = m
                          \/ x.do = "post" /\ x.on \in {<<"msend", m>>, <<"mrecv", m>>}
      BY <2>1, <3>1, <1>2, InsideArea
    <3> QED BY <3>1, <3>2 DEF Inside, At
  <2>3. {t \in Tasks : Inside(t, m)} = Insiders(m)
    BY <2>2 DEF Insiders
  <2> QED BY <2>3 DEF BoxInv, Token
<1>4. ~(At(2, "show") /\ At(1, "fill"))
  <2>1. SUFFICES ASSUME Statement(2).do = "show", Statement(1).do = "fill" PROVE FALSE
    BY DEF At
  <2>2. Statement(1) # WaitOn("wait", 0) /\ Statement(2) # WaitOn("mrecv", mail)
    BY <2>1 DEF WaitOn
  <2>3. Unit(Statement(1) = WaitOn("wait", 0)) = 0 /\ Unit(Statement(2) # WaitOn("mrecv", mail)) = 1
    BY <2>2 DEF Unit
  <2>4. count[<<"mrecv", mail>>] \in Nat /\ count[<<"wait", 0>>] \in Nat
    BY <1>1, TokenParts DEF mail
  <2> QED BY <2>3, <2>4 DEF BoxInv, Turn
<1> QED BY <1>3, <1>4 DEF MailboxesSafe, MailboxToken, BufferUntouched

\* Other applications have no mailboxes.
LEMMA NoMailbox == app # "mailbox_test" => MailboxesSafe
BY DEF MailboxesSafe, MailboxToken, BufferUntouched

\* For any number of rounds and ticks at any time: a mailbox of mailbox_test that
\* is not asked with HF_MboxAccept has one token, so that HF_MboxSend and
\* HF_MboxRecv have it to themselves, and task0 does not write its string while
\* task1 prints it.
THEOREM MailboxesAlwaysSafe == Spec => []MailboxesSafe
<1> DEFINE Inv == TableInv /\ (app = "mailbox_test" => BoxInv)
<1>1. Init => Inv
  BY InitTable, BoxInit
<1>2. Inv /\ [Next]_vars => Inv'
  <2> SUFFICES ASSUME Inv, [Next]_vars PROVE Inv'
    OBVIOUS
  <2>1. TableInv'
    BY TableInductive
  <2>2. app' = app
    BY AppStays
  <2> QED BY <2>1, <2>2, BoxNextInv
<1>3. Inv => MailboxesSafe
  BY BoxSafe, NoMailbox
<1> QED BY <1>1, <1>2, <1>3, PTL DEF Spec
-----------------------------------------------------------------------------
(* The texts of philosophers *)

Look(what, j) == [do |-> what, at |-> j]
Becomes(i, v) == [do |-> "state", at |-> i, value |-> v]

\* The statements of the philosophers.  LEFT(0) is -1.
Seats == -1 .. N - 1
DinnerStatements ==
    {WaitOn("mtx", 0), PostOn("mtx", 0)}
    \cup {WaitOn("s", i) : i \in Philosophers} \cup {Look("eat", i) : i \in Philosophers}
    \cup {Becomes(i, v) : i \in Philosophers, v \in {THINKING, HUNGRY}}
    \cup {Look(what, j) : what \in {"hungry", "left", "right", "takes", "tells"}, j \in Seats}

\* A task holds mtx, before such a statement.
Within(x) == x.do \in {"state", "hungry", "left", "right", "takes", "tells", "post"}

\* What is known of statement y that comes after x: mtx is taken by a wait and
\* given up by a post, and the parts of test come one after the other.
DinnerFollows(x, y) ==
    /\ Within(y) <=> (x = WaitOn("mtx", 0) \/ (Within(x) /\ x.do # "post"))
    /\ y.do = "left" => x = Look("hungry", y.at)
    /\ y.do = "right" => x = Look("left", y.at)
    /\ y.do = "takes" => x = Look("right", y.at)
    /\ y.do = "tells" => x = Look("takes", y.at)
DinnerOrder == {z \in DinnerStatements \X DinnerStatements : DinnerFollows(z[1], z[2])}

\* The neighbours have a seat.
LEMMA SeatsOf ==
    ASSUME NEW i \in Philosophers
    PROVE  i \in Seats /\ LEFT(i) \in Seats /\ RIGHT(i) \in Philosophers /\ RIGHT(i) \in Seats
<1>1. N \in Nat \ {0} /\ i \in 0 .. N - 1 /\ i + 1 \in Nat
  BY TaskGraphAssumption DEF Philosophers
<1>2. (i + 1) % N \in 0 .. N - 1
  BY <1>1, ModRange
<1> QED BY <1>1, <1>2 DEF Seats, LEFT, RIGHT, Philosophers

\* The test of a state.
LEMMA TestRun ==
    ASSUME NEW j \in Seats
    PROVE  Run(DinnerStatements, DinnerOrder, test(j), Look("hungry", j), Look("tells", j))
<1>1. PICK S, R : S = DinnerStatements /\ R = DinnerOrder
  OBVIOUS
<1>2. PICK x1, x2, x3, x4, x5 :
          /\ x1 = Look("hungry", j) /\ x2 = Look("left", j) /\ x3 = Look("right", j)
          /\ x4 = Look("takes", j) /\ x5 = Look("tells", j)
  OBVIOUS
<1>3. x1 \in S /\ x2 \in S /\ x3 \in S /\ x4 \in S /\ x5 \in S
  BY <1>1, <1>2 DEF DinnerStatements
<1>4. DinnerFollows(x1, x2) /\ DinnerFollows(x2, x3) /\ DinnerFollows(x3, x4) /\ DinnerFollows(x4, x5)
  BY <1>2 DEF DinnerFollows, Within, Look
<1>5. <<x1, x2>> \in R /\ <<x2, x3>> \in R /\ <<x3, x4>> \in R /\ <<x4, x5>> \in R
  <2> HIDE DEF DinnerStatements, DinnerFollows
  <2> QED BY <1>1, <1>3, <1>4 DEF DinnerOrder
<1>6. /\ Run(S, R, <<x1>>, x1, x1) /\ Run(S, R, <<x2>>, x2, x2) /\ Run(S, R, <<x3>>, x3, x3)
      /\ Run(S, R, <<x4>>, x4, x4) /\ Run(S, R, <<x5>>, x5, x5)
  BY <1>3, RunOne
<1>7. Run(S, R, <<x1>> \o <<x2>>, x1, x2)
  BY <1>5, <1>6, RunJoin
<1>8. Run(S, R, <<x1>> \o <<x2>> \o <<x3>>, x1, x3)
  BY <1>5, <1>6, <1>7, RunJoin
<1>9. Run(S, R, <<x1>> \o <<x2>> \o <<x3>> \o <<x4>>, x1, x4)
  BY <1>5, <1>6, <1>8, RunJoin
<1>10. Run(S, R, <<x1>> \o <<x2>> \o <<x3>> \o <<x4>> \o <<x5>>, x1, x5)
  BY <1>5, <1>6, <1>9, RunJoin
<1>11. test(j) = <<x1>> \o <<x2>> \o <<x3>> \o <<x4>> \o <<x5>>
  BY <1>2 DEF test, Do, Look
<1> QED BY <1>1, <1>2, <1>10, <1>11

\* Which statements may come one after the other between the parts.
LEMMA DinnerPairs ==
    ASSUME NEW i \in Philosophers, NEW v \in {THINKING, HUNGRY}, NEW j \in Seats, NEW k \in Seats
    PROVE  /\ <<WaitOn("mtx", 0), Becomes(i, v)>> \in DinnerOrder
           /\ <<Becomes(i, v), Look("hungry", j)>> \in DinnerOrder
           /\ <<Look("tells", j), Look("hungry", k)>> \in DinnerOrder
           /\ <<Look("tells", j), PostOn("mtx", 0)>> \in DinnerOrder
           /\ <<PostOn("mtx", 0), WaitOn("s", i)>> \in DinnerOrder
           /\ <<WaitOn("s", i), Look("eat", i)>> \in DinnerOrder
           /\ <<Look("eat", i), WaitOn("mtx", 0)>> \in DinnerOrder
           /\ <<PostOn("mtx", 0), WaitOn("mtx", 0)>> \in DinnerOrder
           /\ {WaitOn("mtx", 0), PostOn("mtx", 0), Becomes(i, v), WaitOn("s", i), Look("eat", i)} \subseteq DinnerStatements
<1>1. {WaitOn("mtx", 0), PostOn("mtx", 0), Becomes(i, v), WaitOn("s", i), Look("eat", i)} \subseteq DinnerStatements
  BY DEF DinnerStatements
<1>2. {Look("tells", j), Look("hungry", j), Look("hungry", k)} \subseteq DinnerStatements
  BY DEF DinnerStatements
<1>3. /\ DinnerFollows(WaitOn("mtx", 0), Becomes(i, v))
      /\ DinnerFollows(Becomes(i, v), Look("hungry", j))
      /\ DinnerFollows(Look("tells", j), Look("hungry", k))
      /\ DinnerFollows(Look("tells", j), PostOn("mtx", 0))
  BY DEF DinnerFollows, Within, Look, Becomes, WaitOn, PostOn
<1>4. /\ DinnerFollows(PostOn("mtx", 0), WaitOn("s", i))
      /\ DinnerFollows(WaitOn("s", i), Look("eat", i))
      /\ DinnerFollows(Look("eat", i), WaitOn("mtx", 0))
      /\ DinnerFollows(PostOn("mtx", 0), WaitOn("mtx", 0))
  <2>1. WaitOn("s", i) # WaitOn("mtx", 0)
    <3>1. WaitOn("s", i).on[1] = "s" /\ WaitOn("mtx", 0).on[1] = "mtx"
      BY DEF WaitOn
    <3> QED BY <3>1
  <2> QED BY <2>1 DEF DinnerFollows, Within, Look, WaitOn, PostOn
<1> HIDE DEF DinnerStatements, DinnerFollows
<1> QED BY <1>1, <1>2, <1>3, <1>4 DEF DinnerOrder

\* A philosopher takes the forks, eats and puts them down.
LEMMA PhilosopherRun ==
    ASSUME NEW i \in Philosophers
    PROVE  /\ Run(DinnerStatements, DinnerOrder, take_forks(i), WaitOn("mtx", 0), WaitOn("s", i))
           /\ Run(DinnerStatements, DinnerOrder, put_forks(i), WaitOn("mtx", 0), PostOn("mtx", 0))
           /\ Run(DinnerStatements, DinnerOrder, philosopher(i), WaitOn("mtx", 0), PostOn("mtx", 0))
<1>1. PICK S, R : S = DinnerStatements /\ R = DinnerOrder
  OBVIOUS
<1>2. PICK w, p, h, t, s, e :
          /\ w = WaitOn("mtx", 0) /\ p = PostOn("mtx", 0) /\ h = Becomes(i, HUNGRY) /\ t = Becomes(i, THINKING)
          /\ s = WaitOn("s", i) /\ e = Look("eat", i)
  OBVIOUS
<1>3. PICK l, r : l = LEFT(i) /\ r = RIGHT(i)
  OBVIOUS
<1>4. i \in Seats /\ l \in Seats /\ r \in Seats
  BY <1>3, SeatsOf
<1>5. /\ w \in S /\ p \in S /\ h \in S /\ t \in S /\ s \in S /\ e \in S
      /\ <<w, h>> \in R /\ <<h, Look("hungry", i)>> \in R /\ <<Look("tells", i), p>> \in R /\ <<p, s>> \in R
      /\ <<s, e>> \in R /\ <<e, w>> \in R
      /\ <<w, t>> \in R /\ <<t, Look("hungry", l)>> \in R /\ <<Look("tells", l), Look("hungry", r)>> \in R
      /\ <<Look("tells", r), p>> \in R
  BY <1>1, <1>2, <1>4, DinnerPairs
<1>6. /\ Run(S, R, <<w>>, w, w) /\ Run(S, R, <<p>>, p, p) /\ Run(S, R, <<h>>, h, h) /\ Run(S, R, <<t>>, t, t)
      /\ Run(S, R, <<s>>, s, s) /\ Run(S, R, <<e>>, e, e)
  BY <1>5, RunOne
<1>7. \A j \in {i, l, r} : Run(S, R, test(j), Look("hungry", j), Look("tells", j))
  BY <1>1, <1>4, TestRun
<1>8. Run(S, R, take_forks(i), w, s)
  <2>1. Run(S, R, <<w>> \o <<h>>, w, h)
    BY <1>5, <1>6, RunJoin
  <2>2. Run(S, R, <<w>> \o <<h>> \o test(i), w, Look("tells", i))
    BY <2>1, <1>5, <1>7, RunJoin
  <2>3. Run(S, R, <<w>> \o <<h>> \o test(i) \o <<p>>, w, p)
    BY <2>2, <1>5, <1>6, RunJoin
  <2>4. Run(S, R, <<w>> \o <<h>> \o test(i) \o <<p>> \o <<s>>, w, s)
    BY <2>3, <1>5, <1>6, RunJoin
  <2>5. take_forks(i) = <<w>> \o <<h>> \o test(i) \o <<p>> \o <<s>>
    BY <1>2 DEF take_forks, Wait, Set, Post, WaitOn, PostOn, Becomes
  <2> QED BY <2>4, <2>5
<1>9. Run(S, R, put_forks(i), w, p)
  <2>1. Run(S, R, <<w>> \o <<t>>, w, t)
    BY <1>5, <1>6, RunJoin
  <2>2. Run(S, R, <<w>> \o <<t>> \o test(l), w, Look("tells", l))
    BY <2>1, <1>5, <1>7, RunJoin
  <2>3. Run(S, R, <<w>> \o <<t>> \o test(l) \o test(r), w, Look("tells", r))
    BY <2>2, <1>5, <1>7, RunJoin
  <2>4. Run(S, R, <<w>> \o <<t>> \o test(l) \o test(r) \o <<p>>, w, p)
    BY <2>3, <1>5, <1>6, RunJoin
  <2>5. put_forks(i) = <<w>> \o <<t>> \o test(l) \o test(r) \o <<p>>
    BY <1>2, <1>3 DEF put_forks, Wait, Set, Post, WaitOn, PostOn, Becomes
  <2> QED BY <2>4, <2>5
<1>10. Run(S, R, take_forks(i) \o <<e>>, w, e)
  BY <1>5, <1>6, <1>8, RunJoin
<1>11. Run(S, R, take_forks(i) \o <<e>> \o put_forks(i), w, p)
  BY <1>5, <1>9, <1>10, RunJoin
<1>12. philosopher(i) = take_forks(i) \o <<e>> \o put_forks(i)
  BY <1>2 DEF philosopher, Do, Look
<1> QED BY <1>1, <1>2, <1>8, <1>9, <1>11, <1>12

\* The tasks are the philosophers, and what a task does and what comes next.
LEMMA DinnerStatement ==
    ASSUME TableInv, app = "philosophers"
    PROVE  /\ Tasks = 1 .. N
           /\ \A t \in Tasks : /\ Statement(t) \in DinnerStatements /\ NextOf(t) \in DinnerStatements
                               /\ DinnerFollows(Statement(t), NextOf(t))
<1>1. PICK P : P = Program
  OBVIOUS
<1>2. P = [t \in 1 .. N |-> philosopher(t - 1)]
  BY <1>1 DEF TableInv, Program, Programs, philosophers
<1>3. Tasks = 1 .. N
  BY <1>1, <1>2 DEF Tasks
<1>4. ASSUME NEW t \in Tasks
      PROVE  /\ Statement(t) \in DinnerStatements /\ NextOf(t) \in DinnerStatements
             /\ DinnerFollows(Statement(t), NextOf(t))
  <2>1. PICK S, R, B, E, p, k :
            /\ S = DinnerStatements /\ R = DinnerOrder /\ B = {WaitOn("mtx", 0)} /\ E = {PostOn("mtx", 0)}
            /\ p = Program[t] /\ k = pc[t]
    OBVIOUS
  <2>2. t - 1 \in Philosophers /\ p = philosopher(t - 1)
    BY <2>1, <1>1, <1>2, <1>3, TaskGraphAssumption DEF Philosophers
  <2>3. Run(S, R, p, WaitOn("mtx", 0), PostOn("mtx", 0))
    BY <2>1, <2>2, PhilosopherRun
  <2>4. p \in Runs(S, R, B, E)
    BY <2>1, <2>3 DEF Runs, Run
  <2>5. \A y \in E, u \in B : <<y, u>> \in R
    BY <2>1, <2>2, SeatsOf, DinnerPairs
  <2>6. k \in 1 .. Len(p)
    BY <2>1 DEF TableInv
  <2>7. (k % Len(p)) + 1 \in 1 .. Len(p) /\ <<p[k], p[(k % Len(p)) + 1]>> \in R
    BY <2>4, <2>5, <2>6, RunsRound
  <2>8. Statement(t) = p[k] /\ NextOf(t) = p[(k % Len(p)) + 1]
    BY <2>1 DEF Statement, NextOf, After
  <2>9. <<Statement(t), NextOf(t)>> \in DinnerOrder
    BY <2>1, <2>7, <2>8
  <2> HIDE DEF DinnerStatements, DinnerFollows
  <2> QED BY <2>9 DEF DinnerOrder
<1> QED BY <1>3, <1>4

\* The kinds of statements.
LEMMA DinnerKinds ==
    ASSUME NEW x \in DinnerStatements
    PROVE  /\ x.do \in {"wait", "post", "eat", "state", "hungry", "left", "right", "takes", "tells"}
           /\ x.do = "wait" => x = WaitOn("mtx", 0) \/ \E i \in Philosophers : x = WaitOn("s", i)
           /\ x.do = "post" => x = PostOn("mtx", 0)
           /\ x.do = "state" => x.at \in Philosophers /\ x.value \in {THINKING, HUNGRY}
           /\ x.do \in {"hungry", "left", "right", "takes", "tells"} => x.at \in Seats
<1>1. CASE x \in {WaitOn("mtx", 0), PostOn("mtx", 0)}
  BY <1>1 DEF WaitOn, PostOn
<1>2. CASE \E i \in Philosophers : x = WaitOn("s", i)
  BY <1>2 DEF WaitOn
<1>3. CASE \E i \in Philosophers : x = Look("eat", i)
  BY <1>3 DEF Look
<1>4. CASE \E i \in Philosophers, v \in {THINKING, HUNGRY} : x = Becomes(i, v)
  BY <1>4 DEF Becomes
<1>5. CASE \E what \in {"hungry", "left", "right", "takes", "tells"}, j \in Seats : x = Look(what, j)
  BY <1>5 DEF Look
<1> QED BY <1>1, <1>2, <1>3, <1>4, <1>5 DEF DinnerStatements

\* The semaphores of the philosophers.
LEMMA DinnerSemaphores ==
    ASSUME app = "philosophers", app \in Apps
    PROVE  <<"mtx", 0>> \in Semaphores /\ \A i \in Philosophers : <<"s", i>> \in Semaphores
<1>1. PICK P : P = Programs[app]
  OBVIOUS
<1>2. P = [t \in 1 .. N |-> philosopher(t - 1)]
  BY <1>1 DEF Programs, philosophers
<1>3. Semaphores = {y.on : y \in {z \in UNION {ToSet(P[t]) : t \in DOMAIN P} : z.do \in {"wait", "post"}}}
  BY <1>1 DEF Semaphores, SemaphoresOf
<1>4. ASSUME NEW i \in Philosophers PROVE <<"mtx", 0>> \in Semaphores /\ <<"s", i>> \in Semaphores
  <2>1. PICK S, p, e, q : S = DinnerStatements /\ p = take_forks(i) /\ e = <<Look("eat", i)>> /\ q = put_forks(i)
    OBVIOUS
  <2>2. p \in Seq(S) /\ WaitOn("mtx", 0) \in ToSet(p) /\ WaitOn("s", i) \in ToSet(p)
    BY <2>1, PhilosopherRun, RunHas
  <2>3. q \in Seq(S)
    BY <2>1, PhilosopherRun, RunHas
  <2>4. e \in Seq(S)
    <3>1. Look("eat", i) \in S
      BY <2>1 DEF DinnerStatements
    <3> QED BY <2>1, <3>1
  <2>5. p \o e \in Seq(S)
    BY <2>2, <2>4, ConcatProperties
  <2>6. ToSet(p) \subseteq ToSet(p \o e \o q)
    BY <2>2, <2>3, <2>4, <2>5, JoinHas
  <2>7. i + 1 \in 1 .. N /\ (i + 1) - 1 = i
    BY TaskGraphAssumption DEF Philosophers
  <2>8. i + 1 \in DOMAIN P /\ P[i + 1] = p \o e \o q
    BY <2>1, <2>7, <1>2 DEF philosopher, Do, Look
  <2>9. \A x \in ToSet(p) : x.do = "wait" => x.on \in Semaphores
    BY <2>6, <2>8, <1>3
  <2>10. /\ WaitOn("mtx", 0).do = "wait" /\ WaitOn("mtx", 0).on = <<"mtx", 0>>
         /\ WaitOn("s", i).do = "wait" /\ WaitOn("s", i).on = <<"s", i>>
    BY DEF WaitOn
  <2> QED BY <2>2, <2>9, <2>10
<1>5. 0 \in Philosophers
  BY TaskGraphAssumption DEF Philosophers
<1> QED BY <1>4, <1>5

\* What a step of philosophers does is decided by the statement.
LEMMA DinnerStep ==
    ASSUME TableInv, app = "philosophers", Step
    PROVE  /\ current \in Tasks
           /\ \/ Statement(current).do = "post" /\ SemPost
              \/ Statement(current).do = "wait" /\ SemWait
              \/ Statement(current).do = "state" /\ SetState
              \/ Statement(current).do = "hungry" /\ Hungry
              \/ Statement(current).do = "left" /\ Left
              \/ Statement(current).do = "right" /\ Right
              \/ Statement(current).do = "takes" /\ Takes
              \/ Statement(current).do = "tells" /\ Tells
              \/ Statement(current).do = "eat" /\ Eat
<1>1. current \in Tasks
  BY DEF Step
<1>2. Statement(current).do \in {"wait", "post", "eat", "state", "hungry", "left", "right", "takes", "tells"}
  BY <1>1, DinnerStatement, DinnerKinds
<1>3. Now = Statement(current)
  BY DEF Now
<1> QED BY <1>1, <1>2, <1>3 DEF Step, SemPost, SemWait, Write, Copy, MboxPut, MboxGet, MboxCount, MboxEmpty, MboxAccept,
             Fill, Show, SetState, Hungry, Left, Right, Takes, Tells, Eat
-----------------------------------------------------------------------------
(* The philosophers *)

\* The tasks that hold mtx: one at most, for a unit is gone with each.
Holders == {t \in Tasks : Within(Statement(t))}
OneHolder == count[<<"mtx", 0>>] + Cardinality(Holders) = 1

\* What task t has seen, until it writes the state: its philosopher is one of the
\* table, and the neighbours it has looked at do not eat.
Looked(t) ==
    found[t] =>
        /\ Statement(t).do \in {"left", "right", "takes", "tells"} => Statement(t).at \in Philosophers
        /\ Statement(t).do \in {"right", "takes"} => StateAt(LEFT(Statement(t).at)) # EATING
        /\ Statement(t).do = "takes" => StateAt(RIGHT(Statement(t).at)) # EATING

DinnerInv == /\ LineInv
             /\ app = "philosophers"
             /\ state = [i \in Philosophers |-> state[i]]
             /\ found = [t \in Tasks |-> found[t]]
             /\ OneHolder
             /\ \A t \in Tasks : Looked(t)
             /\ NeighboursExclude

\* Who comes to hold mtx, and who does no more.
LEMMA HoldersMoved ==
    ASSUME TableInv, app = "philosophers", app' = app, NEW ts, Moves(ts)
    PROVE  Holders' = (Holders \ {t \in ts : Statement(t).do = "post"}) \cup {t \in ts : Statement(t) = WaitOn("mtx", 0)}
<1>1. Tasks' = Tasks /\ ts \subseteq Tasks
  BY DEF Tasks, Program, Moves
<1>2. ASSUME NEW t \in ts
      PROVE  Within(Statement(t)') <=> (Statement(t) = WaitOn("mtx", 0) \/ (Within(Statement(t)) /\ Statement(t).do # "post"))
  <2>1. t \in Tasks /\ Statement(t)' = NextOf(t)
    BY <1>1, <1>2 DEF Moves
  <2> QED BY <2>1, DinnerStatement DEF DinnerFollows
<1>3. ASSUME NEW t \in Tasks \ ts PROVE Statement(t)' = Statement(t)
  BY <1>3 DEF Moves
<1>4. Holders' = {t \in Tasks : Within(Statement(t)')}
  BY <1>1 DEF Holders, Within
<1>5. WaitOn("mtx", 0).do # "post"
  BY DEF WaitOn
<1> QED BY <1>1, <1>2, <1>3, <1>4, <1>5 DEF Holders

\* The holders are finitely many, and the count is a number.
LEMMA HolderParts ==
    ASSUME LineInv, app = "philosophers"
    PROVE  /\ IsFiniteSet(Holders) /\ Cardinality(Holders) \in Nat
           /\ count[<<"mtx", 0>>] \in Nat /\ <<"mtx", 0>> \in Semaphores
<1>1. app \in Apps /\ count \in [Semaphores -> Nat] /\ TableInv
  BY DEF LineInv, TableInv
<1>2. IsFiniteSet(Tasks)
  BY <1>1, DinnerStatement, FS_Interval, TaskGraphAssumption
<1> QED BY <1>1, <1>2, DinnerSemaphores, FS_Subset, FS_CardinalityType DEF Holders

\* There is no other than t.
LEMMA OnlyHolder ==
    ASSUME DinnerInv, NEW t \in Tasks, Within(Statement(t))
    PROVE  Holders = {t} /\ count[<<"mtx", 0>>] = 0
<1>1. PICK H, n, k : H = Holders /\ n = count[<<"mtx", 0>>] /\ k = Cardinality(H)
  OBVIOUS
<1>2. IsFiniteSet(H) /\ k \in Nat /\ n \in Nat /\ n + k = 1 /\ t \in H
  BY <1>1, HolderParts DEF DinnerInv, OneHolder, Holders
<1>3. Cardinality(H \ {t}) = k - 1 /\ IsFiniteSet(H \ {t})
  BY <1>1, <1>2, FS_RemoveElement
<1>4. Cardinality(H \ {t}) \in Nat
  BY <1>3, FS_CardinalityType
<1>5. k = 1 /\ n = 0
  BY <1>2, <1>3, <1>4
<1>6. H \ {t} = {}
  BY <1>3, <1>5, FS_EmptySet
<1> QED BY <1>1, <1>2, <1>5, <1>6

\* Tasks go on without mtx.
LEMMA HolderSame ==
    ASSUME DinnerInv, app' = app, NEW ts, Moves(ts), count'[<<"mtx", 0>>] = count[<<"mtx", 0>>],
           \A t \in ts : Statement(t).do # "post" /\ Statement(t) # WaitOn("mtx", 0)
    PROVE  OneHolder'
<1>1. Holders' = Holders
  BY HoldersMoved DEF DinnerInv, LineInv
<1> QED BY <1>1 DEF DinnerInv, OneHolder

\* The unit of mtx is taken.
LEMMA HolderTakes ==
    ASSUME DinnerInv, app' = app, Moves({current}), Statement(current) = WaitOn("mtx", 0),
           count[<<"mtx", 0>>] > 0, count' = [count EXCEPT ![<<"mtx", 0>>] = @ - 1]
    PROVE  OneHolder'
<1>1. PICK c, H, n : c = current /\ H = Holders /\ n = count[<<"mtx", 0>>]
  OBVIOUS
<1>2. IsFiniteSet(H) /\ Cardinality(H) \in Nat /\ n \in Nat /\ n + Cardinality(H) = 1 /\ <<"mtx", 0>> \in Semaphores
  BY <1>1, HolderParts DEF DinnerInv, OneHolder
<1>3. c \notin H /\ Statement(c).do # "post"
  BY <1>1 DEF Holders, Within, WaitOn
<1>4. Holders' = H \cup {c}
  BY <1>1, <1>3, HoldersMoved DEF DinnerInv, LineInv
<1>5. Cardinality(H \cup {c}) = Cardinality(H) + 1
  BY <1>2, <1>3, FS_AddElement
<1>6. count'[<<"mtx", 0>>] = n - 1
  BY <1>1, <1>2 DEF DinnerInv, LineInv
<1> QED BY <1>2, <1>4, <1>5, <1>6 DEF OneHolder

\* It is given up, or to who waits for it.
LEMMA HolderGives ==
    ASSUME DinnerInv, app' = app, current \in Tasks, Statement(current) = PostOn("mtx", 0),
           \/ count' = [count EXCEPT ![<<"mtx", 0>>] = Least(@ + 1, MaxCount)] /\ Moves({current})
           \/ /\ count' = count
              /\ \E h \in Tasks : h # current /\ Statement(h) = WaitOn("mtx", 0) /\ Moves({current, h})
    PROVE  OneHolder'
<1>1. PICK c : c = current
  OBVIOUS
<1>2. Statement(c).do = "post" /\ Statement(c) # WaitOn("mtx", 0) /\ Within(Statement(c))
  BY <1>1 DEF PostOn, WaitOn, Within
<1>3. Holders = {c} /\ count[<<"mtx", 0>>] = 0
  BY <1>1, <1>2, OnlyHolder
<1>4. TableInv /\ app = "philosophers" /\ count \in [Semaphores -> Nat] /\ <<"mtx", 0>> \in Semaphores
  BY HolderParts DEF DinnerInv, LineInv
<1>5. CASE count' = [count EXCEPT ![<<"mtx", 0>>] = Least(@ + 1, MaxCount)] /\ Moves({c})
  <2>1. Holders' = {}
    BY <1>2, <1>3, <1>4, <1>5, HoldersMoved
  <2>2. Least(0 + 1, MaxCount) = 1
    BY TaskGraphAssumption DEF Least
  <2>3. count'[<<"mtx", 0>>] = 1
    BY <2>2, <1>3, <1>4, <1>5
  <2> QED BY <2>1, <2>3, FS_EmptySet DEF OneHolder
<1>6. CASE count' = count /\ \E h \in Tasks : h # c /\ Statement(h) = WaitOn("mtx", 0) /\ Moves({c, h})
  <2>1. PICK h \in Tasks : h # c /\ Statement(h) = WaitOn("mtx", 0) /\ Moves({c, h})
    BY <1>6
  <2>2. Holders' = {h}
    <3>1. Statement(h).do # "post"
      BY <2>1 DEF WaitOn
    <3> QED BY <3>1, <2>1, <1>2, <1>3, <1>4, HoldersMoved
  <2> QED BY <2>2, <1>3, <1>6, FS_Singleton DEF OneHolder
<1> QED BY <1>1, <1>5, <1>6

\* What the others have seen stays true when nobody begins to eat, and who goes on
\* with another part of the text has yet to look.
LEMMA LookedKept ==
    ASSUME DinnerInv, app' = app, NEW ts, Moves(ts), NEW t \in Tasks,
           t \in ts => Statement(t).do \in {"wait", "post", "eat", "state", "tells"},
           t \notin ts => found'[t] = found[t],
           \A i \in Philosophers : state'[i] = EATING => state[i] = EATING
    PROVE  Looked(t)'
<1>1. PICK x, y : x = Statement(t) /\ y = Statement(t)'
  OBVIOUS
<1>2. TableInv /\ app = "philosophers"
  BY DEF DinnerInv, LineInv
<1>3. CASE t \in ts
  <2>1. x \in DinnerStatements /\ DinnerFollows(x, y)
    BY <1>1, <1>2, <1>3, DinnerStatement DEF Moves
  <2>2. y.do \notin {"left", "right", "takes", "tells"}
    BY <2>1, <1>1, <1>3 DEF DinnerFollows, Look
  <2> QED BY <2>2, <1>1 DEF Looked
<1>4. CASE t \notin ts
  <2>1. y = x
    BY <1>1, <1>4 DEF Moves
  <2>2. Looked(t) /\ found'[t] = found[t]
    BY <1>4 DEF DinnerInv
  <2>3. ASSUME x.at \in Philosophers
        PROVE  /\ StateAt(LEFT(x.at)) # EATING => StateAt(LEFT(x.at))' # EATING
               /\ StateAt(RIGHT(x.at)) # EATING => StateAt(RIGHT(x.at))' # EATING
    <3>1. LEFT(x.at) \in Seats /\ RIGHT(x.at) \in Philosophers
      BY <2>3, SeatsOf
    <3>2. \A j \in Seats : StateAt(j) # EATING => StateAt(j)' # EATING
      <4>1. \A j \in Seats : j < 0 \/ j \in Philosophers
        BY TaskGraphAssumption DEF Seats, Philosophers
      <4> QED BY <4>1 DEF StateAt, THINKING, EATING
    <3>3. RIGHT(x.at) \in Seats
      BY <3>1, SeatsOf
    <3>4. PICK l, r : l = LEFT(x.at) /\ r = RIGHT(x.at)
      OBVIOUS
    <3>5. StateAt(LEFT(x.at))' = StateAt(l)' /\ StateAt(RIGHT(x.at))' = StateAt(r)'
      BY <1>1, <2>1, <3>4 DEF StateAt, LEFT, RIGHT
    <3> QED BY <3>1, <3>2, <3>3, <3>4, <3>5
  <2>4. y.at = x.at /\ y.do = x.do
    BY <2>1
  <2>5. Looked(t)' = (found'[t] =>
             /\ y.do \in {"left", "right", "takes", "tells"} => y.at \in Philosophers
             /\ y.do \in {"right", "takes"} => StateAt(LEFT(x.at))' # EATING
             /\ y.do = "takes" => StateAt(RIGHT(x.at))' # EATING)
    BY <1>1, <2>4 DEF Looked, Philosophers, StateAt, LEFT, RIGHT, EATING
  <2> QED BY <2>2, <2>3, <2>4, <2>5, <1>1 DEF Looked
<1> QED BY <1>3, <1>4

\* Nobody begins to eat.
LEMMA NobodyEats ==
    ASSUME DinnerInv, \A i \in Philosophers : state'[i] = EATING => state[i] = EATING
    PROVE  NeighboursExclude'
<1>1. \A i \in Philosophers : i < N - 1 => RIGHT(i) \in Philosophers
  BY SeatsOf
<1>2. \A i \in Philosophers : i < N - 1 => ~(state'[i] = EATING /\ state'[RIGHT(i)] = EATING)
  BY <1>1 DEF DinnerInv, NeighboursExclude
<1> QED BY <1>2 DEF NeighboursExclude, Philosophers, RIGHT, EATING

\* It holds at first: mtx is free and all think.
LEMMA DinnerInit == Init /\ app = "philosophers" => DinnerInv
<1> SUFFICES ASSUME Init, app = "philosophers" PROVE DinnerInv
  OBVIOUS
<1>1. LineInv /\ TableInv /\ app \in Apps
  BY LineInit, InitTable DEF Init
<1>2. state = [i \in Philosophers |-> THINKING] /\ found = [t \in Tasks |-> FALSE] /\ \A s \in Semaphores : count[s] = InitialCount(s)
  BY DEF Init
<1>3. state = [i \in Philosophers |-> state[i]] /\ found = [t \in Tasks |-> found[t]]
  BY <1>2
<1>4. \A t \in Tasks : Looked(t)
  BY <1>2 DEF Looked
<1>5. NeighboursExclude
  <2>1. \A i \in Philosophers : state[i] # EATING
    BY <1>2 DEF THINKING, EATING
  <2> QED BY <2>1 DEF NeighboursExclude
<1>6. OneHolder
  <2>1. count[<<"mtx", 0>>] = 1
    BY <1>1, <1>2, HolderParts DEF InitialCount
  <2>2. ASSUME NEW t \in Tasks PROVE ~Within(Statement(t))
    <3>1. Tasks = 1 .. N
      BY <1>1, DinnerStatement
    <3>2. t - 1 \in Philosophers /\ Program[t] = philosopher(t - 1)
      BY <3>1, <1>1, TaskGraphAssumption DEF Philosophers, Program, Programs, philosophers
    <3>3. philosopher(t - 1)[1] = WaitOn("mtx", 0)
      BY <3>2, PhilosopherRun DEF Run
    <3>4. Statement(t) = WaitOn("mtx", 0)
      BY <3>2, <3>3 DEF Statement, Init
    <3> QED BY <3>4 DEF Within, WaitOn
  <2>3. Holders = {}
    BY <2>2 DEF Holders
  <2> QED BY <2>1, <2>3, FS_EmptySet DEF OneHolder
<1> QED BY <1>1, <1>3, <1>4, <1>5, <1>6 DEF DinnerInv

\* A step with the states and what was seen as they were.
LEMMA DinnerStill ==
    ASSUME DinnerInv, LineInv', app' = app, state' = state, found' = found, OneHolder', NEW ts, Moves(ts),
           \A t \in ts : Statement(t).do \in {"wait", "post", "eat", "state", "tells"}
    PROVE  DinnerInv'
<1>1. \A t \in Tasks : Looked(t)'
  BY LookedKept
<1>2. NeighboursExclude'
  BY NobodyEats
<1>3. Tasks' = Tasks /\ Philosophers' = Philosophers
  BY DEF Tasks, Program, Philosophers
<1> QED BY <1>1, <1>2, <1>3 DEF DinnerInv

\* A post, of mtx or to a philosopher that may eat.
LEMMA DinnerPost ==
    ASSUME DinnerInv, TableInv', current \in Tasks, UNCHANGED <<core, data>>,
           NEW s \in Semaphores, Posts(s),
           \/ Statement(current).do = "post" /\ Statement(current).on = s
           \/ Statement(current).do = "tells" /\ s # <<"mtx", 0>>
    PROVE  DinnerInv'
<1>1. /\ LineInv /\ TableInv /\ app = "philosophers" /\ app' = app /\ current' = current
      /\ state' = state /\ found' = found /\ count \in [Semaphores -> Nat]
  BY DEF DinnerInv, LineInv, core, data
<1>2. /\ LineInv'
      /\ \/ count' = [count EXCEPT ![s] = Least(@ + 1, MaxCount)] /\ Moves({current})
         \/ /\ count' = count
            /\ \E h \in Tasks : /\ h # current /\ Statement(h).do = "wait" /\ Statement(h).on = s
                                /\ Moves({current, h})
  BY <1>1, PostMoves
<1>3. ASSUME NEW h \in Tasks, Statement(h).do = "wait"
      PROVE  Statement(h) = WaitOn("mtx", 0) <=> Statement(h).on = <<"mtx", 0>>
  <2>1. Statement(h) = WaitOn("mtx", 0) \/ \E i \in Philosophers : Statement(h) = WaitOn("s", i)
    BY <1>1, <1>3, DinnerStatement, DinnerKinds
  <2> QED BY <2>1 DEF WaitOn
<1>4. Statement(current) # WaitOn("mtx", 0)
  BY DEF WaitOn
<1>5. OneHolder'
  <2>1. CASE Statement(current).do = "post" /\ Statement(current).on = s
    <3>1. Statement(current) = PostOn("mtx", 0)
      BY <2>1, <1>1, DinnerStatement, DinnerKinds
    <3>2. s = <<"mtx", 0>>
      BY <2>1, <3>1 DEF PostOn
    <3> QED BY <3>1, <3>2, <1>1, <1>2, <1>3, HolderGives
  <2>2. CASE Statement(current).do = "tells" /\ s # <<"mtx", 0>>
    <3>1. count'[<<"mtx", 0>>] = count[<<"mtx", 0>>]
      BY <2>2, <1>1, <1>2, HolderParts
    <3>2. CASE Moves({current})
      BY <3>1, <3>2, <2>2, <1>1, <1>4, HolderSame
    <3>3. ASSUME NEW h \in Tasks, Statement(h).do = "wait", Statement(h).on = s, Moves({current, h}) PROVE OneHolder'
      <4>1. \A t \in {current, h} : Statement(t).do # "post" /\ Statement(t) # WaitOn("mtx", 0)
        BY <3>3, <2>2, <1>3, <1>4
      <4> QED BY <4>1, <3>1, <3>3, <1>1, HolderSame
    <3> QED BY <3>2, <3>3, <1>2
  <2> QED BY <2>1, <2>2
<1>6. PICK ts : Moves(ts) /\ \A t \in ts : Statement(t).do \in {"wait", "post", "tells"}
  <2>1. CASE Moves({current})
    BY <2>1
  <2>2. ASSUME NEW h \in Tasks, Statement(h).do = "wait", Moves({current, h})
        PROVE  \E ts : Moves(ts) /\ \A t \in ts : Statement(t).do \in {"wait", "post", "tells"}
    <3>1. \A t \in {current, h} : Statement(t).do \in {"wait", "post", "tells"}
      BY <2>2
    <3> QED BY <3>1, <2>2
  <2> QED BY <2>1, <2>2, <1>2
<1> QED BY <1>1, <1>2, <1>5, <1>6, DinnerStill

\* A wait, which takes a unit or sleeps.
LEMMA DinnerWait ==
    ASSUME DinnerInv, TableInv', current \in Tasks, Statement(current).do = "wait", SemWait
    PROVE  DinnerInv'
<1>1. LineInv /\ TableInv /\ app = "philosophers" /\ app' = app /\ state' = state /\ found' = found /\ count \in [Semaphores -> Nat]
  BY DEF DinnerInv, LineInv, SemWait, Dispatch, core, data
<1>2. PICK s : s = Statement(current).on /\ s = Now.on
  BY DEF Now
<1>3. /\ LineInv'
      /\ \/ /\ count[s] > 0 /\ count' = [count EXCEPT ![s] = @ - 1]
            /\ \A t \in Tasks : Statement(t)' = IF t = current THEN NextOf(t) ELSE Statement(t)
         \/ count' = count /\ \A t \in Tasks : Statement(t)' = Statement(t)
  BY <1>1, <1>2, WaitLine
<1>4. CASE count' = count /\ \A t \in Tasks : Statement(t)' = Statement(t)
  <2>1. Moves({}) /\ \A t \in {} : Statement(t).do \in {"wait", "post", "eat", "state", "tells"}
    BY <1>4 DEF Moves
  <2>2. OneHolder'
    BY <2>1, <1>1, <1>4, HolderSame
  <2> QED BY <2>1, <2>2, <1>1, <1>3, DinnerStill
<1>5. CASE /\ count[s] > 0 /\ count' = [count EXCEPT ![s] = @ - 1]
           /\ \A t \in Tasks : Statement(t)' = IF t = current THEN NextOf(t) ELSE Statement(t)
  <2>1. Moves({current}) /\ \A t \in {current} : Statement(t).do \in {"wait", "post", "eat", "state", "tells"}
    BY <1>5 DEF Moves
  <2>2. CASE Statement(current) = WaitOn("mtx", 0)
    <3>1. s = <<"mtx", 0>>
      BY <2>2, <1>2 DEF WaitOn
    <3>2. OneHolder'
      BY <3>1, <2>1, <2>2, <1>1, <1>5, HolderTakes
    <3> QED BY <3>2, <2>1, <1>1, <1>3, DinnerStill
  <2>3. CASE Statement(current) # WaitOn("mtx", 0)
    <3>1. PICK i \in Philosophers : s = <<"s", i>>
      <4>1. PICK i \in Philosophers : Statement(current) = WaitOn("s", i)
        BY <2>3, <1>1, DinnerStatement, DinnerKinds
      <4> QED BY <4>1, <1>2 DEF WaitOn
    <3>2. count'[<<"mtx", 0>>] = count[<<"mtx", 0>>]
      BY <3>1, <1>1, <1>5, HolderParts
    <3>3. OneHolder'
      BY <3>2, <2>1, <2>3, <1>1, HolderSame
    <3> QED BY <3>3, <2>1, <1>1, <1>3, DinnerStill
  <2> QED BY <2>2, <2>3
<1> QED BY <1>3, <1>4, <1>5

\* The running task goes on, and the lines and the counts stay.
LEMMA DinnerPlain ==
    ASSUME DinnerInv, TableInv', current \in Tasks, Plain, Statement(current).do \notin {"wait", "post"}
    PROVE  LineInv' /\ Moves({current}) /\ OneHolder' /\ app' = app
<1>1. /\ LineInv /\ TableInv /\ app' = app /\ current' = current /\ count' = count /\ line' = line /\ Advance({current})
      /\ count' \in [Semaphores -> Nat]
  BY DEF DinnerInv, LineInv, Plain, core, semaphores
<1>2. LineInv'
  BY <1>1, PlainLine
<1>3. Moves({current})
  <2>1. \A t \in Tasks : Statement(t)' = IF t \in {current} THEN NextOf(t) ELSE Statement(t)
    BY <1>1, Advanced
  <2> QED BY <2>1 DEF Moves
<1>4. \A t \in {current} : Statement(t).do # "post" /\ Statement(t) # WaitOn("mtx", 0)
  BY DEF WaitOn
<1> QED BY <1>1, <1>2, <1>3, <1>4, HolderSame

\* A philosopher is hungry, or thinks.
LEMMA DinnerSet ==
    ASSUME DinnerInv, TableInv', current \in Tasks, Statement(current).do = "state", SetState
    PROVE  DinnerInv'
<1>1. PICK c, x : c = current /\ x = Statement(c)
  OBVIOUS
<1>2. state' = [state EXCEPT ![x.at] = x.value] /\ found' = found /\ Plain
  BY <1>1 DEF SetState, Now
<1>3. LineInv' /\ Moves({current}) /\ OneHolder' /\ app' = app
  BY <1>2, DinnerPlain
<1>4. x.value \in {THINKING, HUNGRY}
  BY <1>1, DinnerStatement, DinnerKinds DEF DinnerInv, LineInv
<1>5. state = [i \in Philosophers |-> state[i]] /\ found = [t \in Tasks |-> found[t]]
  BY DEF DinnerInv
<1>6. state' = [i \in Philosophers |-> state'[i]] /\ \A i \in Philosophers : state'[i] = IF i = x.at THEN x.value ELSE state[i]
  BY <1>2, <1>5
<1>7. \A i \in Philosophers : state'[i] = EATING => state[i] = EATING
  BY <1>4, <1>6 DEF THINKING, HUNGRY, EATING
<1>8. \A t \in Tasks : Looked(t)'
  BY <1>2, <1>3, <1>7, LookedKept
<1>9. NeighboursExclude'
  BY <1>7, NobodyEats
<1>10. Tasks' = Tasks /\ Philosophers' = Philosophers
  BY <1>3 DEF Tasks, Program, Philosophers
<1> QED BY <1>2, <1>3, <1>5, <1>6, <1>8, <1>9, <1>10 DEF DinnerInv

\* A philosopher looks at a state: its own, the left one or the right one.
LEMMA DinnerLook ==
    ASSUME DinnerInv, TableInv', current \in Tasks,
           \/ Statement(current).do = "hungry" /\ Hungry
           \/ Statement(current).do = "left" /\ Left
           \/ Statement(current).do = "right" /\ Right
    PROVE  DinnerInv'
<1>1. PICK c, x, y : c = current /\ x = Statement(c) /\ y = NextOf(c)
  OBVIOUS
<1>2. Plain /\ state' = state
  BY DEF Hungry, Left, Right, Finds
<1>3. LineInv' /\ Moves({current}) /\ OneHolder' /\ app' = app
  BY <1>2, DinnerPlain
<1>4. x \in DinnerStatements /\ DinnerFollows(x, y) /\ Statement(c)' = y
  BY <1>1, <1>3, DinnerStatement DEF DinnerInv, LineInv, Moves
<1>5. found = [t \in Tasks |-> found[t]] /\ Looked(c)
  BY <1>1 DEF DinnerInv
<1>6. PICK b : /\ found' = [found EXCEPT ![c] = b]
               /\ \/ x.do = "hungry" /\ b = (StateAt(x.at) = HUNGRY)
                  \/ x.do = "left" /\ b = (found[c] /\ StateAt(LEFT(x.at)) # EATING)
                  \/ x.do = "right" /\ b = (found[c] /\ StateAt(RIGHT(x.at)) # EATING)
  BY <1>1 DEF Hungry, Left, Right, Finds, Now
<1>7. found'[c] = b /\ (\A t \in Tasks \ {c} : found'[t] = found[t]) /\ found' = [t \in Tasks |-> found'[t]]
  BY <1>1, <1>5, <1>6
<1>8. ASSUME NEW t \in Tasks, t # c PROVE Looked(t)'
  BY <1>1, <1>2, <1>3, <1>7, <1>8, LookedKept
<1>9. Looked(c)'
  <2>1. x.at \in Seats
    BY <1>4, <1>6, DinnerKinds
  <2>2. ASSUME b, x.do = "hungry" PROVE x.at \in Philosophers
    <3>1. StateAt(x.at) = HUNGRY
      BY <1>6, <2>2
    <3> QED BY <2>1, <3>1, TaskGraphAssumption DEF StateAt, THINKING, HUNGRY, Seats, Philosophers
  <2>3. ASSUME b, y.do \in {"left", "right", "takes", "tells"}
        PROVE  /\ y.at \in Philosophers
               /\ y.do \in {"right", "takes"} => StateAt(LEFT(y.at)) # EATING
               /\ y.do = "takes" => StateAt(RIGHT(y.at)) # EATING
    <3>1. CASE y.do = "left"
      <4>1. x = Look("hungry", y.at)
        BY <3>1, <1>4 DEF DinnerFollows
      <4>2. x.do = "hungry" /\ x.at = y.at
        BY <4>1 DEF Look
      <4> QED BY <4>2, <3>1, <2>2, <2>3
    <3>2. CASE y.do = "right"
      <4>1. x = Look("left", y.at)
        BY <3>2, <1>4 DEF DinnerFollows
      <4>2. x.do = "left" /\ x.at = y.at
        BY <4>1 DEF Look
      <4> QED BY <4>2, <3>2, <2>3, <1>1, <1>5, <1>6 DEF Looked
    <3>3. CASE y.do = "takes"
      <4>1. x = Look("right", y.at)
        BY <3>3, <1>4 DEF DinnerFollows
      <4>2. x.do = "right" /\ x.at = y.at
        BY <4>1 DEF Look
      <4> QED BY <4>2, <3>3, <2>3, <1>1, <1>5, <1>6 DEF Looked
    <3>4. CASE y.do = "tells"
      <4>1. x = Look("takes", y.at)
        BY <3>4, <1>4 DEF DinnerFollows
      <4>2. x.do = "takes"
        BY <4>1 DEF Look
      <4> QED BY <4>2, <1>6
    <3> QED BY <2>3, <3>1, <3>2, <3>3, <3>4
  <2>4. \A j : StateAt(j)' = StateAt(j)
    BY <1>2 DEF StateAt
  <2>5. Looked(c)' = (b => /\ y.do \in {"left", "right", "takes", "tells"} => y.at \in Philosophers
                           /\ y.do \in {"right", "takes"} => StateAt(LEFT(y.at)) # EATING
                           /\ y.do = "takes" => StateAt(RIGHT(y.at)) # EATING)
    BY <1>2, <1>4, <1>7 DEF Looked, StateAt, LEFT, RIGHT, Philosophers, EATING
  <2> QED BY <2>3, <2>5
<1>10. \A t \in Tasks : Looked(t)'
  BY <1>8, <1>9
<1>11. NeighboursExclude'
  BY <1>2, NobodyEats
<1>12. Tasks' = Tasks /\ Philosophers' = Philosophers
  BY <1>3 DEF Tasks, Program, Philosophers
<1> QED BY <1>2, <1>3, <1>7, <1>10, <1>11, <1>12 DEF DinnerInv

\* A philosopher that may eat eats: nobody else is looking, and its neighbours do not eat.
LEMMA DinnerTakes ==
    ASSUME DinnerInv, TableInv', current \in Tasks, Statement(current).do = "takes", Takes
    PROVE  DinnerInv'
<1>1. PICK c, x, y, p : c = current /\ x = Statement(c) /\ y = NextOf(c) /\ p = x.at
  OBVIOUS
<1>2. Plain /\ found' = found /\ state' = IF found[c] THEN [state EXCEPT ![p] = EATING] ELSE state
  BY <1>1 DEF Takes, Now
<1>3. LineInv' /\ Moves({current}) /\ OneHolder' /\ app' = app
  BY <1>2, DinnerPlain
<1>4. x \in DinnerStatements /\ DinnerFollows(x, y) /\ Statement(c)' = y
  BY <1>1, <1>3, DinnerStatement DEF DinnerInv, LineInv, Moves
<1>5. state = [i \in Philosophers |-> state[i]] /\ found = [t \in Tasks |-> found[t]] /\ Looked(c)
  BY <1>1 DEF DinnerInv
<1>6. /\ state' = [i \in Philosophers |-> state'[i]]
      /\ \A i \in Philosophers : state'[i] = IF i = p /\ found[c] THEN EATING ELSE state[i]
  BY <1>2, <1>5
<1>7. Tasks' = Tasks /\ Philosophers' = Philosophers
  BY <1>3 DEF Tasks, Program, Philosophers
<1>8. ASSUME NEW t \in Tasks, t # c PROVE Looked(t)'
  <2>1. Statement(t)' = Statement(t)
    BY <1>1, <1>3, <1>8 DEF Moves
  <2>2. ~Within(Statement(t))
    <3>1. Within(Statement(c))
      BY <1>1 DEF Within
    <3>2. Holders = {c}
      BY <3>1, <1>1, OnlyHolder
    <3> QED BY <3>2, <1>8 DEF Holders
  <2>3. Statement(t)'.do \notin {"left", "right", "takes", "tells"}
    BY <2>1, <2>2 DEF Within
  <2> QED BY <2>3 DEF Looked
<1>9. Looked(c)'
  <2>1. y.do \notin {"left", "right", "takes"}
    BY <1>1, <1>4 DEF DinnerFollows, Look
  <2>2. ASSUME y.do = "tells", found[c] PROVE y.at \in Philosophers
    <3>1. x = Look("takes", y.at)
      BY <2>2, <1>4 DEF DinnerFollows
    <3>2. x.at = y.at
      BY <3>1 DEF Look
    <3> QED BY <3>2, <2>2, <1>1, <1>5 DEF Looked
  <2> QED BY <2>1, <2>2, <1>2, <1>4 DEF Looked, Philosophers
<1>10. NeighboursExclude'
  <2>1. CASE ~found[c]
    <3>1. \A i \in Philosophers : state'[i] = EATING => state[i] = EATING
      BY <2>1, <1>6
    <3> QED BY <3>1, NobodyEats
  <2>2. CASE found[c]
    <3>1. p \in Philosophers /\ StateAt(LEFT(p)) # EATING /\ StateAt(RIGHT(p)) # EATING
      BY <2>2, <1>1, <1>5 DEF Looked
    <3>2. N \in Nat /\ N >= 3 /\ Philosophers = 0 .. N - 1
      BY TaskGraphAssumption DEF Philosophers
    <3>3. ASSUME NEW i \in Philosophers, i < N - 1 PROVE RIGHT(i) = i + 1 /\ i + 1 \in Philosophers
      <4>1. i \in Nat /\ i + 1 \in Nat /\ i + 1 < N
        BY <3>2, <3>3
      <4>2. (i + 1) % N = i + 1
        BY <4>1, <3>2
      <4> QED BY <4>1, <4>2, <3>2 DEF RIGHT
    <3>4. ASSUME NEW i \in Philosophers, i < N - 1
          PROVE  ~(state'[i] = EATING /\ state'[i + 1] = EATING)
      <4>1. i + 1 \in Philosophers /\ i \in Nat
        BY <3>2, <3>3, <3>4
      <4>2. ~(state[i] = EATING /\ state[i + 1] = EATING)
        BY <3>3, <3>4 DEF DinnerInv, NeighboursExclude
      <4>3. CASE i = p
        <5>1. state[i + 1] # EATING
          BY <3>1, <3>3, <3>4, <4>1, <4>3 DEF StateAt
        <5> QED BY <5>1, <4>1, <4>3, <1>6
      <4>4. CASE i + 1 = p
        <5>1. p - 1 = i
          BY <4>1, <4>4
        <5>2. state[i] # EATING
          BY <5>1, <3>1, <4>1 DEF StateAt, LEFT
        <5> QED BY <5>2, <4>1, <4>4, <1>6
      <4>5. CASE i # p /\ i + 1 # p
        BY <4>1, <4>2, <4>5, <1>6
      <4> QED BY <4>3, <4>4, <4>5
    <3>5. \A i \in Philosophers : i < N - 1 => ~(state'[i] = EATING /\ state'[RIGHT(i)] = EATING)
      BY <3>3, <3>4
    <3> QED BY <3>5 DEF NeighboursExclude, Philosophers, RIGHT, EATING
  <2> QED BY <2>1, <2>2
<1>11. \A t \in Tasks : Looked(t)'
  BY <1>8, <1>9
<1> QED BY <1>2, <1>3, <1>5, <1>6, <1>7, <1>10, <1>11 DEF DinnerInv

\* And is told so.
LEMMA DinnerTells ==
    ASSUME DinnerInv, TableInv', current \in Tasks, Statement(current).do = "tells", Tells
    PROVE  DinnerInv'
<1>1. Now = Statement(current) /\ TableInv /\ app = "philosophers" /\ app \in Apps
  BY DEF Now, DinnerInv, LineInv, TableInv
<1>2. CASE found[current]
  <2>1. PICK i : i = Statement(current).at
    OBVIOUS
  <2>2. i \in Philosophers
    BY <1>2, <2>1 DEF DinnerInv, Looked
  <2>3. Posts(<<"s", i>>) /\ UNCHANGED <<core, data>>
    BY <1>1, <1>2, <2>1 DEF Tells
  <2>4. <<"s", i>> \in Semaphores /\ <<"s", i>> # <<"mtx", 0>>
    BY <1>1, <2>2, DinnerSemaphores
  <2> QED BY <2>3, <2>4, DinnerPost
<1>3. CASE ~found[current]
  <2>1. Plain /\ state' = state /\ found' = found
    BY <1>3 DEF Tells, Plain, data
  <2>2. LineInv' /\ Moves({current}) /\ OneHolder' /\ app' = app
    BY <2>1, DinnerPlain
  <2>3. \A t \in {current} : Statement(t).do \in {"wait", "post", "eat", "state", "tells"}
    OBVIOUS
  <2> QED BY <2>1, <2>2, <2>3, DinnerStill
<1> QED BY <1>2, <1>3

\* Every step keeps the invariant.
LEMMA DinnerNext ==
    ASSUME DinnerInv, [Next]_vars
    PROVE  DinnerInv'
<1>1. LineInv /\ TableInv /\ app = "philosophers"
  BY DEF DinnerInv, LineInv
<1>2. TableInv'
  BY <1>1, TableInductive
<1>3. CASE Step
  <2>1. /\ current \in Tasks
        /\ \/ Statement(current).do = "post" /\ SemPost
           \/ Statement(current).do = "wait" /\ SemWait
           \/ Statement(current).do = "state" /\ SetState
           \/ Statement(current).do = "hungry" /\ Hungry
           \/ Statement(current).do = "left" /\ Left
           \/ Statement(current).do = "right" /\ Right
           \/ Statement(current).do = "takes" /\ Takes
           \/ Statement(current).do = "tells" /\ Tells
           \/ Statement(current).do = "eat" /\ Eat
    BY <1>1, <1>3, DinnerStep
  <2>2. CASE Statement(current).do = "post" /\ SemPost
    <3>1. PICK s : s = Statement(current).on
      OBVIOUS
    <3>2. s \in Semaphores /\ Posts(s) /\ UNCHANGED <<core, data>>
      BY <3>1, <2>1, <2>2, <1>1, OnSemaphore DEF SemPost, Now
    <3> QED BY <3>1, <3>2, <2>1, <2>2, <1>2, DinnerPost
  <2>3. CASE Statement(current).do = "eat" /\ Eat
    <3>1. Plain /\ state' = state /\ found' = found
      BY <2>3 DEF Eat, data
    <3>2. LineInv' /\ Moves({current}) /\ OneHolder' /\ app' = app
      BY <3>1, <2>1, <2>3, <1>2, DinnerPlain
    <3>3. \A t \in {current} : Statement(t).do \in {"wait", "post", "eat", "state", "tells"}
      BY <2>3
    <3> QED BY <3>1, <3>2, <3>3, DinnerStill
  <2> QED BY <2>1, <2>2, <2>3, <1>2, DinnerWait, DinnerSet, DinnerLook, DinnerTakes, DinnerTells
<1>4. CASE app' = app /\ count' = count /\ state' = state /\ found' = found /\ pc' = pc /\ LineInv'
  <2>1. Moves({}) /\ \A t \in {} : Statement(t).do \in {"wait", "post", "eat", "state", "tells"}
    BY <1>4, Unmoved DEF Moves
  <2>2. OneHolder'
    BY <2>1, <1>4, HolderSame
  <2> QED BY <2>1, <2>2, <1>4, DinnerStill
<1>5. CASE Tick
  BY <1>1, <1>2, <1>4, <1>5, TickLine DEF Tick, Dispatch, semaphores, data
<1>6. CASE UNCHANGED vars
  BY <1>1, <1>2, <1>4, <1>6, StillLine DEF vars, core, semaphores, data
<1> QED BY <1>3, <1>5, <1>6 DEF Next

\* For any number of philosophers, three at least, and ticks at any time, within
\* take_forks and put_forks too: of two philosophers side by side of philosophers.c
\* one eats at most, but for the last and the first.  test reads the states of the
\* neighbours before it writes one, and mtx keeps the others from writing meanwhile.
THEOREM NeighboursAlways == Spec => []NeighboursExclude
<1> DEFINE Inv == TableInv /\ (app = "philosophers" => DinnerInv)
<1>1. Init => Inv
  BY InitTable, DinnerInit
<1>2. Inv /\ [Next]_vars => Inv'
  <2> SUFFICES ASSUME Inv, [Next]_vars PROVE Inv'
    OBVIOUS
  <2>1. TableInv'
    BY TableInductive
  <2>2. app' = app
    BY AppStays
  <2> QED BY <2>1, <2>2, DinnerNext
<1>3. Inv => NeighboursExclude
  BY DEF DinnerInv, NeighboursExclude
<1> QED BY <1>1, <1>2, <1>3, PTL DEF Spec
=============================================================================
