----------------------------- MODULE TaskGraph -----------------------------
(***************************************************************************)
(* The local communication services of ukernel/ipc.c (HF_MsgSend,          *)
(* HF_MsgRecv and the mailboxes) and the applications of app/ that are     *)
(* graphs of tasks built on them or on semaphores: mpeg4_test, vopd_test,  *)
(* message_test, mailbox_test and philosophers.                            *)
(*                                                                         *)
(* A task is a loop over statements, and a step executes one statement of  *)
(* the task that has the core.  A task that sleeps on a semaphore gives    *)
(* the core away, and so does the timer, to the task that the best effort  *)
(* scheduler of ukernel/ukernel.c chooses.  Services are sequences of      *)
(* statements, applications are sequences of services.  Semaphores are     *)
(* those that HFKernel is shown to implement (module Semaphore).           *)
(*                                                                         *)
(* Left out: the contents of the messages beyond who wrote them, what the  *)
(* tasks print, and their computations.                                    *)
(***************************************************************************)
EXTENDS Integers, Sequences, SequencesExt

CONSTANTS Apps,         \* the applications looked at
          Rounds,       \* messages task0 of mailbox_test sends in a loop (5 in the source)
          N,            \* philosophers (5 in the source)
          MaxCount,     \* larger counts of a semaphore are not told apart
          Preempted,    \* applications in which the timer comes at any time and gives
                        \* the core to any ready task
          Quanta        \* in the others it comes after so many statements, again and again

ASSUME TaskGraphAssumption == /\ Apps \subseteq {"mpeg4_test", "vopd_test", "message_test", "mailbox_test", "philosophers"}
                              /\ Rounds \in Nat \ {0}
                              /\ N \in Nat /\ N >= 3
                              /\ MaxCount \in Nat \ {0}
                              /\ Quanta \subseteq Nat \ {0}

NULL == 0
idletask == 0       \* it has HF_Start call it, and its turns like any other task
-----------------------------------------------------------------------------
(* Statements *)

\* A semaphore has a kind and the number of the task, mailbox or philosopher
\* it belongs to.
Wait(kind, n) == << [do |-> "wait", on |-> <<kind, n>>] >>
Post(kind, n) == << [do |-> "post", on |-> <<kind, n>>] >>
Set(field, n, value) == << [do |-> field, at |-> n, value |-> value] >>
Do(what, n) == << [do |-> what, at |-> n] >>

\* Mutant: the target is woken before the pointer is there.
HF_MsgSendPostFirst(me, k, to) ==
    Set("source", to, <<me, k>>) \o Set("size", to, <<me, k>>) \o Post("send", to)
    \o Set("ptr", to, <<me, k>>) \o Wait("recv", to)

\* ipc.c.  The k-th message of task "me" stands for its address and size too.
HF_MsgSend(me, k, to) ==
    Set("source", to, <<me, k>>) \o Set("size", to, <<me, k>>) \o Set("ptr", to, <<me, k>>)
    \o Post("send", to) \o Wait("recv", to)

\* Mutant: the answer wakes nobody.
HF_MsgRecvSilent(me) == Wait("send", me) \o Do("copy", me)

HF_MsgRecv(me) == Wait("send", me) \o Do("copy", me) \o Post("recv", me)

\* Mutant: the sender of a mailbox does not wait for its turn.
HF_MboxSendAtOnce(m, msg, waiting) ==
    FlattenSeq([k \in 1 .. waiting |-> Set("put", m, msg) \o Post("mrecv", m)])

HF_MboxSend(m, msg, waiting) ==
    FlattenSeq([k \in 1 .. waiting |-> Wait("msend", m) \o Set("put", m, msg) \o Post("mrecv", m)])

HF_MboxRecv(m) == Wait("mrecv", m) \o Do("get", m) \o Do("count", m) \o Do("empty", m) \o Post("msend", m)

HF_MboxAccept(m) == Do("accept", m)
-----------------------------------------------------------------------------
(* Applications *)

\* A task graph as a sequence for each task: the task to send to, or 0 for a
\* receive.  The k-th statement sends the k-th message.
Services(me, graph) ==
    FlattenSeq([k \in 1 .. Len(graph) |-> IF graph[k] = 0 THEN HF_MsgRecv(me) ELSE HF_MsgSend(me, k, graph[k])])

mpeg4_front == << <<4, 0>>,                     \* task3
                  <<0, 5, 6>>,
                  <<0, 9>>,
                  <<0, 7>>,
                  <<0, 8, 0>>,
                  <<0, 9>>,
                  <<0, 0, 10, 11, 0, 10>>,
                  <<0, 12>>,
                  <<0, 14>> >>                  \* task11
mpeg4_back == << <<0, 13, 0, 19>>,              \* task12
                 <<0, 14>>,
                 <<0, 0, 15>>,
                 <<0, 16>>,
                 <<0, 17, 18, 0>>,
                 <<0, 7>>,
                 <<0, 16, 9>>,
                 <<0, 20>>,
                 <<0, 3>> >>                    \* task20

vopd_front == << <<4, 17, 0>>,                  \* task3
                 <<0, 5>>,
                 <<0, 6>>,
                 <<0, 7>>,
                 <<0, 8, 0>>,
                 <<0, 9, 19>>,
                 <<0, 0, 10>>,
                 <<0, 11>> >>                   \* task10
vopd_back == << <<0, 12, 0>>,                   \* task11
                <<0, 0, 13, 0>>,
                <<0, 11, 12, 3>>,
                <<0, 15>>,
                <<0, 9, 12, 16>>,
                <<0, 0, 17>>,
                <<0, 18, 0>>,
                <<0, 14, 16>>,
                <<0, 7>> >>                     \* task19

FromTask3(graphs) == [t \in 3 .. Len(graphs) + 2 |-> Services(t, graphs[t - 2])]

message_test == [t \in 1 .. 3 |-> Services(t, IF t = 1 THEN <<2, 3>> ELSE <<0>>)]

\* The strings and numbers that pass through the mailboxes.
buf == 100
hello == 101
number == 102
mail == 1
mail2 == 2
mail3 == 3
mail4 == 4
Waiting == <<1, 2, 1, 1>>       \* HF_MboxInit

task0 ==
    FlattenSeq([i \in 1 .. Rounds |->
        Set("fill", 0, i - 1) \o HF_MboxSend(mail, buf, Waiting[mail]) \o Wait("wait", 0)])
    \o FlattenSeq([i \in 1 .. Rounds |-> HF_MboxSend(mail2, i - 1, Waiting[mail2])])
    \o HF_MboxSend(mail3, hello, Waiting[mail3])
    \o HF_MboxSend(mail4, number, Waiting[mail4])
task1 == HF_MboxRecv(mail) \o Do("show", 0) \o Post("wait", 0)
task2 == HF_MboxRecv(mail2)
task3 == HF_MboxRecv(mail3)
task4 == HF_MboxRecv(mail2)
task5 == HF_MboxAccept(mail4)

mailbox_test == <<task0, task1, task2, task3, task4, task5>>

THINKING == 0
HUNGRY == 1
EATING == 2

\* The macro LEFT is (i-1) % N, and in C -1 % N is -1.
LEFT(i) == i - 1
RIGHT(i) == (i + 1) % N

\* The state of i and those of its neighbours are read one after the other, and
\* if all three allow it two statements follow.
test(i) == Do("hungry", i) \o Do("left", i) \o Do("right", i) \o Do("takes", i) \o Do("tells", i)

\* Mutant: the forks are taken without the mutex.
take_forksUnlocked(i) == Set("state", i, HUNGRY) \o test(i) \o Wait("s", i)

take_forks(i) == Wait("mtx", 0) \o Set("state", i, HUNGRY) \o test(i) \o Post("mtx", 0) \o Wait("s", i)

put_forks(i) == Wait("mtx", 0) \o Set("state", i, THINKING) \o test(LEFT(i)) \o test(RIGHT(i)) \o Post("mtx", 0)

philosopher(i) == take_forks(i) \o Do("eat", i) \o put_forks(i)

philosophers == [t \in 1 .. N |-> philosopher(t - 1)]

Programs == [a \in Apps |->
    CASE a = "mpeg4_test" -> FromTask3(mpeg4_front \o mpeg4_back)
      [] a = "vopd_test" -> FromTask3(vopd_front \o vopd_back)
      [] a = "message_test" -> message_test
      [] a = "mailbox_test" -> mailbox_test
      [] a = "philosophers" -> philosophers]

\* The tasks that only loop: the idle task and the first two of the two large graphs.
LoopsOf == [a \in Apps |-> IF a \in {"mpeg4_test", "vopd_test"} THEN {idletask, 1, 2} ELSE {idletask}]

\* The third argument of HF_AddTask; the tasks that loop have the default.
DEFAULT_NICENESS == 128
NicenessOf == [a \in Apps |-> CASE a = "vopd_test" -> 40 [] a = "philosophers" -> 30 [] OTHER -> 50]
-----------------------------------------------------------------------------
VARIABLES app,          \* the application that runs
          current,      \* the task that has the core
          counter,      \* task -> niceness_counter
          quantum,      \* statements from one tick to the next
          left,         \* and to the next one from now
          pc,           \* task -> statement it executes next
          count,        \* semaphore -> free units
          line,         \* semaphore -> tasks that sleep on it
          message,      \* task -> the message fields of its entry in HF_task
          mbox,         \* mailbox -> its message and how many still read it
          held,         \* task -> what it took from a mailbox last
          text,         \* what task0 of mailbox_test has written to buf
          state,        \* philosopher -> what it does
          found         \* task -> the state and the neighbours it has looked at allow it to eat

core == <<app, current, counter, quantum>>
semaphores == <<count, line>>
data == <<message, mbox, held, text, state, found>>
vars == <<core, left, pc, semaphores, data>>

Program == Programs[app]
Tasks == DOMAIN Program
Loops == LoopsOf[app]
Slots == Tasks \cup Loops
Niceness == [t \in Slots |-> IF t \in Loops THEN DEFAULT_NICENESS ELSE NicenessOf[app]]
Statement(t) == Program[t][pc[t]]
At(t, what) == Statement(t).do = what
Now == Statement(current)

\* application -> the semaphores it uses.
SemaphoresOf == [a \in Apps |->
    LET statements == UNION {ToSet(Programs[a][t]) : t \in DOMAIN Programs[a]}
    IN {s.on : s \in {x \in statements : x.do \in {"wait", "post"}}}
       \cup IF a = "mailbox_test" THEN {<<"msend", mail4>>} ELSE {}]
Semaphores == SemaphoresOf[app]

\* HF_SemInit of HF_AddTask, HF_MboxInit and the applications.
InitialCount(s) == IF s[1] \in {"msend", "mtx"} THEN 1 ELSE 0

Mailboxes == 1 .. 4
Philosophers == 0 .. N - 1

Init ==
    /\ app \in Apps
    /\ current = idletask
    /\ counter = Niceness
    /\ quantum \in IF app \in Preempted THEN {0} ELSE Quanta
    /\ left = 0
    /\ pc = [t \in Tasks |-> 1]
    /\ count = [s \in Semaphores |-> InitialCount(s)]
    /\ line = [s \in Semaphores |-> << >>]
    /\ message = [t \in Tasks |-> [source |-> <<NULL, NULL>>, size |-> <<NULL, NULL>>, ptr |-> <<NULL, NULL>>]]
    /\ mbox = [m \in Mailboxes |-> [msg |-> NULL, count |-> Waiting[m]]]
    /\ held = [t \in Tasks |-> NULL]
    /\ text = NULL
    /\ state = [i \in Philosophers |-> THINKING]
    /\ found = [t \in Tasks |-> FALSE]
-----------------------------------------------------------------------------
(* Tasks *)

Sleeping(t) == At(t, "wait") /\ t \in ToSet(line[Statement(t).on])

Ready == Loops \cup {t \in Tasks : ~Sleeping(t)}

\* The walk of HF_TaskBestEffortReschedule, which goes on behind the task that it
\* chose last: steps to the place of t, and until the counter of t is zero.
Round == Cardinality(Slots) + 1
Distance(t) == ((t - current - 1) % Round) + 1
StepsTo(t) == Distance(t) + (counter[t] - 1) * Round
Visits(t, steps) == IF Distance(t) > steps THEN 0 ELSE ((steps - Distance(t)) \div Round) + 1

HF_TaskBestEffortReschedule(ready) == {t \in ready : \A u \in ready : StepsTo(t) <= StepsTo(u)}

Counted(ready, chosen) ==
    [t \in Slots |-> CASE t = chosen -> Niceness[t]
                       [] t # chosen /\ t \in ready -> counter[t] - Visits(t, StepsTo(chosen))
                       [] OTHER -> counter[t]]

\* One of the ready tasks gets the core.
Dispatch(ready) ==
    /\ \/ app \in Preempted /\ current' \in ready /\ UNCHANGED counter
       \/ /\ app \notin Preempted
          /\ current' \in HF_TaskBestEffortReschedule(ready)
          /\ counter' = Counted(ready, current')
    /\ UNCHANGED <<app, quantum>>

\* The timer.  A task that loops has nothing to do but to wait for it.
Tick ==
    /\ app \in Preempted \/ current \in Loops \/ left = 0
    /\ Dispatch(Ready)
    /\ left' = quantum
    /\ UNCHANGED <<pc, semaphores, data>>

\* The time that a statement takes.
Elapses == \/ app \in Preempted /\ UNCHANGED left
           \/ app \notin Preempted /\ left > 0 /\ left' = left - 1

\* while(1): after the last statement comes the first.
After(t) == (pc[t] % Len(Program[t])) + 1
Advance(ts) == pc' = [t \in Tasks |-> IF t \in ts THEN After(t) ELSE pc[t]]

\* A statement that changes nothing but the data it names.
Plain == Advance({current}) /\ UNCHANGED <<core, semaphores>>
-----------------------------------------------------------------------------
(* Semaphores *)

Least(a, b) == IF a <= b THEN a ELSE b

\* HF_SemPost of semaphore s, which wakes the first of the line.
Posts(s) ==
    \/ /\ line[s] = << >>
       /\ count' = [count EXCEPT ![s] = Least(@ + 1, MaxCount)]
       /\ Advance({current})
       /\ UNCHANGED line
    \/ /\ line[s] # << >>
       /\ line' = [line EXCEPT ![s] = Tail(@)]
       /\ Advance({current, Head(line[s])})
       /\ UNCHANGED count

SemPost == /\ Now.do = "post"
           /\ Posts(Now.on)
           /\ UNCHANGED <<core, data>>

SemWait ==
    /\ Now.do = "wait"
    /\ \/ /\ count[Now.on] > 0
          /\ count' = [count EXCEPT ![Now.on] = @ - 1]
          /\ Advance({current})
          /\ UNCHANGED <<core, line>>
       \/ /\ count[Now.on] = 0
          /\ line' = [line EXCEPT ![Now.on] = Append(@, current)]
          /\ Dispatch(Ready \ {current})
          /\ UNCHANGED <<pc, count>>
    /\ UNCHANGED data
-----------------------------------------------------------------------------
(* Messages *)

Write(field) ==
    /\ Now.do = field
    /\ message' = [message EXCEPT ![Now.at][field] = Now.value]
    /\ Plain
    /\ UNCHANGED <<mbox, held, text, state, found>>

\* memcpy to the buffer of the receiver.
Copy == Now.do = "copy" /\ Plain /\ UNCHANGED data
-----------------------------------------------------------------------------
(* Mailboxes *)

MboxPut == /\ Now.do = "put"
           /\ mbox' = [mbox EXCEPT ![Now.at].msg = Now.value]
           /\ Plain
           /\ UNCHANGED <<message, held, text, state, found>>

MboxGet == /\ Now.do = "get"
           /\ held' = [held EXCEPT ![current] = mbox[Now.at].msg]
           /\ Plain
           /\ UNCHANGED <<message, mbox, text, state, found>>

MboxCount == /\ Now.do = "count"
             /\ mbox' = [mbox EXCEPT ![Now.at].count = @ - 1]
             /\ Plain
             /\ UNCHANGED <<message, held, text, state, found>>

Emptied(m, box) == IF box.count = 0 THEN [msg |-> NULL, count |-> Waiting[m]] ELSE box

MboxEmpty == /\ Now.do = "empty"
             /\ mbox' = [mbox EXCEPT ![Now.at] = Emptied(Now.at, @)]
             /\ Plain
             /\ UNCHANGED <<message, held, text, state, found>>

\* A critical section; it does not take a unit of mrecv.
MboxAccept ==
    /\ Now.do = "accept"
    /\ held' = [held EXCEPT ![current] = mbox[Now.at].msg]
    /\ \/ /\ mbox[Now.at].msg = NULL
          /\ Advance({current})
          /\ UNCHANGED <<semaphores, mbox>>
       \/ /\ mbox[Now.at].msg # NULL
          /\ mbox' = [mbox EXCEPT ![Now.at] = Emptied(Now.at, [@ EXCEPT !.count = @ - 1])]
          /\ Posts(<<"msend", Now.at>>)
    /\ UNCHANGED <<core, message, text, state, found>>

\* mailbox_test: task0 writes its string, task1 prints it through the pointer.
Fill == /\ Now.do = "fill"
        /\ text' = Now.value
        /\ Plain
        /\ UNCHANGED <<message, mbox, held, state, found>>

Show == Now.do = "show" /\ Plain /\ UNCHANGED data
-----------------------------------------------------------------------------
(* Philosophers *)

SetState == /\ Now.do = "state"
            /\ state' = [state EXCEPT ![Now.at] = Now.value]
            /\ Plain
            /\ UNCHANGED <<message, mbox, held, text, found>>

\* The word before the array state is neither HUNGRY nor EATING.
StateAt(i) == IF i < 0 THEN THINKING ELSE state[i]

Finds(b) == found' = [found EXCEPT ![current] = b] /\ Plain /\ UNCHANGED <<message, mbox, held, text, state>>

\* The three operands of && in test.
Hungry == Now.do = "hungry" /\ Finds(StateAt(Now.at) = HUNGRY)
Left   == Now.do = "left" /\ Finds(found[current] /\ StateAt(LEFT(Now.at)) # EATING)
Right  == Now.do = "right" /\ Finds(found[current] /\ StateAt(RIGHT(Now.at)) # EATING)

\* The two statements behind the condition.
Takes == /\ Now.do = "takes"
         /\ state' = IF found[current] THEN [state EXCEPT ![Now.at] = EATING] ELSE state
         /\ Plain
         /\ UNCHANGED <<message, mbox, held, text, found>>

Tells == /\ Now.do = "tells"
         /\ IF found[current] THEN Posts(<<"s", Now.at>>) ELSE Advance({current}) /\ UNCHANGED semaphores
         /\ UNCHANGED <<core, data>>

Eat == Now.do = "eat" /\ Plain /\ UNCHANGED data
-----------------------------------------------------------------------------
Step ==
    /\ current \in Tasks
    /\ Elapses
    /\ \/ SemPost \/ SemWait
       \/ \E field \in {"source", "size", "ptr"} : Write(field)
       \/ Copy
       \/ MboxPut \/ MboxGet \/ MboxCount \/ MboxEmpty \/ MboxAccept
       \/ Fill \/ Show
       \/ SetState \/ Hungry \/ Left \/ Right \/ Takes \/ Tells \/ Eat

Next == Step \/ Tick

Spec == Init /\ [][Next]_vars

\* The processor goes on, and so does the timer.
FairSpec == Spec /\ WF_vars(Next)
-----------------------------------------------------------------------------
(* Properties *)

\* Task t is inside a call of HF_MsgSend to task to: it has posted its message
\* and has not been told that it was copied.
Offers(t, to) == At(t, "wait") /\ Statement(t).on = <<"recv", to>>
Copies(t) == At(t, "copy")
Replies(t) == At(t, "post") /\ Statement(t).on = <<"recv", t>>
Graph == {"mpeg4_test", "vopd_test", "message_test"}
Unit(b) == IF b THEN 1 ELSE 0

\* application -> task -> the tasks that send to it.
Senders == [a \in Apps |-> [to \in DOMAIN Programs[a] |->
    {t \in DOMAIN Programs[a] : [do |-> "wait", on |-> <<"recv", to>>] \in ToSet(Programs[a][t])}]]

\* A count of the code is an int32_t.  It suffices that the counts of the model
\* go as far as there are senders to one task: three, to task9 of mpeg4_test.
ASSUME CountsExact == \A a \in Apps \cap Graph : \A to \in DOMAIN Programs[a] : Cardinality(Senders[a][to]) <= MaxCount

\* Each sender that waits is answered: it stands for one message not yet taken,
\* for the one the target is copying, or for an answer it has not yet seen
\* (HF_MsgSend and HF_MsgRecv).
RendezvousBalanced ==
    app \in Graph => \A to \in Tasks : <<"send", to>> \in Semaphores =>
        Cardinality({t \in Senders[app][to] : Offers(t, to)})
            = count[<<"send", to>>] + Unit(Copies(to) \/ Replies(to)) + count[<<"recv", to>>]

\* What a task copies is one message, not parts of two, and the task that wrote
\* it is still in the call whose buffer the pointer names.  With several senders
\* neither holds: they overwrite each other before the target has read
\* (HF_MsgSend does not look whether the fields are in use).
CopiesALiveMessage ==
    app \in Graph => \A t \in Tasks :
        Copies(t) /\ Cardinality(Senders[app][t]) = 1 =>
            /\ message[t].source = message[t].size /\ message[t].size = message[t].ptr
            /\ message[t].source[1] \in Senders[app][t]
            /\ Offers(message[t].source[1], t)

\* What HF_MsgSend and HF_MsgRecv promise to the task graphs: every sender is
\* answered, once, and a receiver copies what its sender still holds still.
MessagesSafe == RendezvousBalanced /\ CopiesALiveMessage

\* While task1 of mailbox_test prints the string, task0 does not write it.
BufferUntouched ==
    app = "mailbox_test" => ~(At(2, "show") /\ At(1, "fill"))

\* Task t has taken a unit of mailbox m and not yet given it on.
Inside(t, m) == \/ \E what \in {"put", "get", "count", "empty"} : At(t, what) /\ Statement(t).at = m
                \/ At(t, "post") /\ Statement(t).on \in {<<"msend", m>>, <<"mrecv", m>>}

\* Without HF_MboxAccept a mailbox has one token: a free place, a message to
\* read, or a task between the two (HF_MboxSend and HF_MboxRecv).
MailboxToken ==
    app = "mailbox_test" => \A m \in {mail, mail2, mail3} :
        count[<<"msend", m>>] + count[<<"mrecv", m>>]
        + Cardinality({t \in Tasks : Inside(t, m)}) = 1

\* What the mailboxes promise to mailbox_test, while ticks come at any time: a
\* mailbox is used by one task at a time, and a message that was sent by its
\* address stays until its reader is done with it.
MailboxesSafe == MailboxToken /\ BufferUntouched

\* Two philosophers side by side never eat at once, although each looks at the
\* states of its neighbours, and of theirs, before it writes one (test, under mtx).
\* The last and the first are left out: LEFT(0) is -1, so philosopher 0 does not
\* look at the last one.
NeighboursExclude ==
    app = "philosophers" =>
        \A i \in Philosophers : i < N - 1 => ~(state[i] = EATING /\ state[RIGHT(i)] = EATING)

\* Every task of a task graph gets the core again and again: the graph comes to no
\* set of tasks that wait for each other, and the scheduler, which counts the idle
\* task and the two that loop too, passes none by (HF_TaskBestEffortReschedule).
GetsTheCore == app \in Graph \ Preempted => \A t \in 1 .. 20 : []<>(t \in Tasks => current = t)
=============================================================================
