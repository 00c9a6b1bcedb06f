---------------------------- MODULE Heap_proofs ----------------------------
(***************************************************************************)
(* The filter lock, for any number of task slots and whatever happens to   *)
(* the entry of its last level, and the heap with its tasks, for any       *)
(* length and any requests.                                                *)
(*                                                                         *)
(* The calls of malloc and free use malloc_mutex as a filter lock, so what *)
(* is proved of FilterMutex holds here, those that call the allocator from *)
(* the kernel included.  The chunks tile the heap: seen as a set of header *)
(* words (Heads), each ends where another begins, or at the last word.     *)
(* Merging, cutting and freeing chunks keep that (Tiled), and the walk of  *)
(* the code, a recursive function, finds that set (HeadersAreHeads); with  *)
(* who owns which chunk (Owners), and what a task in the middle of a call  *)
(* still knows (Jobs), which needs the mutex, they are inductive.          *)
(***************************************************************************)
EXTENDS Heap, ModLemmas, FiniteSetTheorems

USE MutexAssumption

(***************************************************************************)
(* The filter lock.  A task is in level x when it has written waiting[x]   *)
(* and not yet left, and past it when its scan of that level is over too.  *)
(* The last task in a level has its id in waiting[x], and is past it only  *)
(* when it is alone there.  So each level holds one task back, unless one  *)
(* task has it for itself; the idle task never comes, and the level before *)
(* the last lets a single task through.                                    *)
(***************************************************************************)

\* The levels whose entry of waiting belongs to the mutex, and the entrance.
Guarded == 1 .. MAX_TASKS - 2
Passages == 0 .. MAX_TASKS - 2

Scanning(x) == {i \in Users : pc[i] = "scan" /\ l[i] = x}
Past(x) == {i \in Users : pc[i] = "inside" \/ (pc[i] # "outside" /\ l[i] > x)}
In(x) == Scanning(x) \cup Past(x)
-----------------------------------------------------------------------------
(* The inductive invariant *)

MutexType ==
    /\ level \in [Ids -> Ids]
    /\ waiting \in [Levels -> Ids]
    /\ pc \in [Users -> {"outside", "level", "waiting", "scan", "inside"}]
    /\ l \in [Users -> Levels]
    /\ k \in [Users -> Ids]

\* What others read in level[i] is where i is, one step late.
LevelShown ==
    \A i \in Users : /\ pc[i] = "outside" => level[i] = 0
                     /\ pc[i] = "level" => level[i] = l[i] - 1
                     /\ pc[i] \in {"waiting", "scan"} => level[i] = l[i]
                     /\ pc[i] = "inside" => level[i] = MAX_TASKS - 1

\* What a scan has seen stays true: no task seen below the level, or not yet
\* waiting there, comes in without taking waiting[x] over.
ScannedFree ==
    \A x \in Guarded : \A i \in Scanning(x) : \A j \in In(x) :
        j # i /\ j < k[i] => waiting[x] # i

LastIsIn == \A x \in Guarded : In(x) # {} => waiting[x] \in In(x)

LastPassesAlone == \A x \in Guarded : \A i \in Past(x) : waiting[x] = i => In(x) = {i}

\* Level x and those before it hold back x tasks, or all but one.
Thin(x) == Cardinality(Past(x)) <= 1 \/ Cardinality(Past(x)) <= Cardinality(Users) - x

Thinned == \A x \in Passages : Thin(x)

Levelled == MutexType /\ LevelShown /\ ScannedFree /\ LastIsIn /\ LastPassesAlone

MutexInv == Levelled /\ Thinned
-----------------------------------------------------------------------------
LEMMA Sizes == 0 \in Ids /\ Users \subseteq Ids /\ Levels \subseteq Ids
BY DEF Ids, Levels

(* Steps that change neither who is where nor an entry of a guarded level *)

LEMMA SameOccupants ==
    ASSUME LastIsIn, LastPassesAlone,
           \A x \in Guarded : In(x)' = In(x) /\ Past(x)' = Past(x) /\ waiting'[x] = waiting[x]
    PROVE  LastIsIn' /\ LastPassesAlone'
<1>1. LastIsIn'
  BY DEF LastIsIn, Guarded
<1>2. LastPassesAlone'
  BY DEF LastPassesAlone, Guarded
<1> QED BY <1>1, <1>2

LEMMA SameScans ==
    ASSUME ScannedFree, k' = k,
           \A x \in Guarded : In(x)' \subseteq In(x) /\ Scanning(x)' = Scanning(x) /\ waiting'[x] = waiting[x]
    PROVE  ScannedFree'
<1> SUFFICES ASSUME NEW x \in Guarded, NEW a \in Scanning(x)', NEW b \in In(x)',
                    b # a, b < k'[a]
             PROVE  waiting'[x] # a
  BY DEF ScannedFree, Guarded
<1>1. a \in Scanning(x) /\ b \in In(x) /\ b < k[a]
  OBVIOUS
<1> QED BY <1>1 DEF ScannedFree

LEMMA EnterKeeps ==
    ASSUME Levelled, NEW i \in Users, HF_EnterRegion(i)
    PROVE  Levelled'
<1> USE DEF Levelled, HF_EnterRegion
<1>1. 1 \in Levels
  BY DEF Levels
<1>2. MutexType'
  BY <1>1 DEF MutexType
<1>3. LevelShown'
  BY DEF LevelShown, MutexType
<1>4. \A x \in Guarded : /\ In(x)' = In(x) /\ Past(x)' = Past(x)
                          /\ Scanning(x)' = Scanning(x) /\ waiting'[x] = waiting[x]
  BY DEF In, Past, Scanning, Guarded, MutexType
<1>5. ScannedFree'
  BY <1>4, SameScans
<1> QED BY <1>2, <1>3, <1>4, <1>5, SameOccupants

LEMMA SetLevelKeeps ==
    ASSUME Levelled, NEW i \in Users, SetLevel(i)
    PROVE  Levelled'
<1> USE DEF Levelled, SetLevel
<1>1. MutexType'
  BY Sizes DEF MutexType
<1>2. LevelShown'
  BY DEF LevelShown, MutexType, Ids
<1>3. \A x \in Guarded : /\ In(x)' = In(x) /\ Past(x)' = Past(x)
                          /\ Scanning(x)' = Scanning(x) /\ waiting'[x] = waiting[x]
  BY DEF In, Past, Scanning, Guarded, MutexType
<1>4. ScannedFree'
  BY <1>3, SameScans
<1> QED BY <1>1, <1>2, <1>3, <1>4, SameOccupants

LEMMA ClobberKeeps ==
    ASSUME Levelled, Clobber
    PROVE  Levelled'
<1> USE DEF Levelled, Clobber
<1>1. MutexType'
  BY DEF MutexType
<1>2. LevelShown'
  BY DEF LevelShown
<1>3. \A x \in Guarded : /\ In(x)' = In(x) /\ Past(x)' = Past(x)
                          /\ Scanning(x)' = Scanning(x) /\ waiting'[x] = waiting[x]
  BY DEF In, Past, Scanning, Guarded, Levels, MutexType
<1>4. ScannedFree'
  BY <1>3, SameScans
<1> QED BY <1>1, <1>2, <1>3, <1>4, SameOccupants
-----------------------------------------------------------------------------
(* Steps into a level, past it and out of all levels *)

LEMMA SetWaitingKeeps ==
    ASSUME Levelled, NEW i \in Users, SetWaiting(i)
    PROVE  Levelled'
<1> USE DEF Levelled, SetWaiting
<1>0. i \in Ids /\ l[i] \in Levels
  BY DEF MutexType, Ids
<1>1. MutexType'
  BY <1>0, Sizes DEF MutexType
<1>2. LevelShown'
  BY DEF LevelShown, MutexType
<1>3. \A x \in Guarded : Past(x)' = Past(x)
  BY DEF Past, MutexType
<1>4. \A x \in Guarded : x # l[i] => In(x)' = In(x) /\ waiting'[x] = waiting[x]
  BY <1>3 DEF In, Scanning, MutexType
<1>5. i \notin Past(l[i]) /\ i \in In(l[i])' /\ waiting'[l[i]] = i
  BY <1>0 DEF In, Past, Scanning, MutexType, Levels
<1>6. ScannedFree'
  <2> SUFFICES ASSUME NEW x \in Guarded, NEW a \in Scanning(x)', NEW b \in In(x)',
                      b # a, b < k'[a]
               PROVE  waiting'[x] # a
    BY DEF ScannedFree, Guarded
  <2>1. a \in Users /\ b \in Users
    BY DEF In, Scanning, Past
  <2>2. CASE a = i
    BY <2>1, <2>2 DEF MutexType, Ids
  <2>3. CASE a # i /\ x = l[i]
    BY <1>5, <2>3
  <2>4. CASE a # i /\ x # l[i]
    <3>1. a \in Scanning(x) /\ k'[a] = k[a]
      BY <2>4 DEF Scanning, MutexType
    <3> QED BY <1>4, <2>4, <3>1 DEF ScannedFree
  <2> QED BY <2>2, <2>3, <2>4
<1>7. LastIsIn'
  <2> SUFFICES ASSUME NEW x \in Guarded, In(x)' # {}
               PROVE  waiting'[x] \in In(x)'
    BY DEF LastIsIn, Guarded
  <2>1. CASE x = l[i]
    BY <1>5, <2>1
  <2>2. CASE x # l[i]
    BY <1>4, <2>2 DEF LastIsIn
  <2> QED BY <2>1, <2>2
<1>8. LastPassesAlone'
  <2> SUFFICES ASSUME NEW x \in Guarded, NEW a \in Past(x)', waiting'[x] = a
               PROVE  In(x)' = {a}
    BY DEF LastPassesAlone, Guarded
  <2>1. CASE x = l[i]
    BY <1>3, <1>5, <2>1
  <2>2. CASE x # l[i]
    BY <1>3, <1>4, <2>2 DEF LastPassesAlone
  <2> QED BY <2>1, <2>2
<1> QED BY <1>1, <1>2, <1>6, <1>7, <1>8

\* A task with a level in common with others, whose id is in waiting, stays.
LEMMA SeesOthers ==
    ASSUME Levelled, NEW i \in Users, Scan(i), l[i] \in Guarded
    PROVE  \A j \in In(l[i]) : j # i /\ j <= k[i] => waiting[l[i]] # i
<1> SUFFICES ASSUME NEW j \in In(l[i]), j # i, j <= k[i], waiting[l[i]] = i
             PROVE  FALSE
  OBVIOUS
<1> USE DEF Levelled
<1>0. j \in Users /\ i \in Scanning(l[i])
  BY DEF Scan, In, Past, Scanning
<1>1. pc[i] = "scan" /\ l[i] \in 1 .. MAX_TASKS - 2
  BY DEF Scan, Guarded
<1>2. k[i] \in Int /\ j \in Int
  BY <1>0 DEF MutexType, Ids
<1>3. ~(j < k[i])
  BY <1>0 DEF ScannedFree
<1>4. j = k[i]
  BY <1>2, <1>3
<1>5. level[j] < l[i]
  BY <1>4 DEF Scan, Passed
<1>6. level[j] >= l[i]
  <2>1. l[i] \in Int /\ l[j] \in Int /\ l[j] \in Levels
    BY <1>0 DEF MutexType, Levels
  <2>2. CASE pc[j] = "scan" /\ l[j] = l[i]
    BY <1>0, <2>1, <2>2 DEF LevelShown
  <2>3. CASE pc[j] = "inside"
    BY <1>0, <1>1, <2>3 DEF LevelShown
  <2>4. CASE pc[j] # "outside" /\ l[j] > l[i]
    <3>1. level[j] \in {l[j], l[j] - 1, MAX_TASKS - 1}
      BY <1>0, <2>4 DEF LevelShown, MutexType
    <3> QED BY <1>1, <2>1, <2>4, <3>1
  <2> QED BY <2>2, <2>3, <2>4 DEF In, Past, Scanning
<1> QED BY <1>0, <1>1, <1>5, <1>6 DEF MutexType, Ids

LEMMA ScanKeeps ==
    ASSUME Levelled, NEW i \in Users, Scan(i)
    PROVE  Levelled'
<1> USE DEF Levelled
<1>0. /\ pc[i] = "scan" /\ l[i] \in Levels /\ k[i] \in Ids
      /\ level' = level /\ waiting' = waiting
  BY DEF Scan, MutexType
<1>1. CASE k[i] < LastTask /\ k' = [k EXCEPT ![i] = @ + 1] /\ UNCHANGED <<pc, l>>
  <2>1. k[i] + 1 \in Ids
    BY <1>0, <1>1 DEF Ids, LastTask
  <2> MutexType'
    BY <1>0, <1>1, <2>1 DEF MutexType
  <2>2. LevelShown'
    BY <1>0, <1>1 DEF LevelShown
  <2>3. \A x \in Guarded : In(x)' = In(x) /\ Past(x)' = Past(x) /\ Scanning(x)' = Scanning(x)
    BY <1>1 DEF In, Past, Scanning
  <2>4. ScannedFree'
    <3> SUFFICES ASSUME NEW x \in Guarded, NEW a \in Scanning(x)', NEW b \in In(x)',
                        b # a, b < k'[a]
                 PROVE  waiting'[x] # a
      BY DEF ScannedFree, Guarded
    <3>1. a \in Scanning(x) /\ b \in In(x)
      BY <2>3
    <3>2. CASE a = i
      <4>1. l[i] = x
        BY <3>1, <3>2 DEF Scanning
      <4>2. b \in Ids
        BY <3>1, Sizes DEF In, Past, Scanning
      <4>3. b <= k[i]
        BY <1>0, <1>1, <3>2, <4>2 DEF MutexType, Ids
      <4> QED BY <1>0, <3>1, <3>2, <4>1, <4>3, SeesOthers
    <3>3. CASE a # i
      <4>1. k'[a] = k[a]
        BY <1>1, <3>1, <3>3 DEF Scanning, MutexType
      <4> QED BY <1>0, <3>1, <4>1 DEF ScannedFree
    <3> QED BY <3>2, <3>3
  <2> QED BY <1>0, <2>2, <2>3, <2>4, SameOccupants
<1>2. CASE ~(k[i] < LastTask) /\ l[i] + 1 \notin Levels /\ UNCHANGED <<k, l>> /\ pc' = [pc EXCEPT ![i] = "inside"]
  <2>1. MutexType'
    BY <1>0, <1>2 DEF MutexType
  <2>2. l[i] = MAX_TASKS - 1
    BY <1>0, <1>2 DEF Levels
  <2>3. LevelShown'
    BY <1>0, <1>2, <2>2 DEF LevelShown, MutexType
  <2>4. \A x \in Guarded : In(x)' = In(x) /\ Past(x)' = Past(x) /\ Scanning(x)' = Scanning(x)
    BY <1>0, <1>2, <2>2 DEF In, Past, Scanning, Guarded, MutexType
  <2>5. ScannedFree'
    BY <1>0, <1>2, <2>4 DEF ScannedFree, Guarded
  <2> QED BY <1>0, <2>1, <2>3, <2>4, <2>5, SameOccupants
<1>3. CASE ~(k[i] < LastTask) /\ l[i] + 1 \in Levels /\ UNCHANGED k
           /\ pc' = [pc EXCEPT ![i] = "level"] /\ l' = [l EXCEPT ![i] = @ + 1]
  <2>1. MutexType'
    BY <1>0, <1>3 DEF MutexType
  <2>2. l[i] \in Guarded /\ l[i] \in Int
    BY <1>0, <1>3 DEF Levels, Guarded
  <2>3. LevelShown'
    BY <1>0, <1>3, <2>2 DEF LevelShown, MutexType
  <2>4. \A x \in Guarded : Scanning(x)' = Scanning(x) \ {i}
    BY <1>0, <1>3 DEF Scanning, MutexType
  <2>5. \A x \in Guarded : Past(x)' = IF x = l[i] THEN Past(x) \cup {i} ELSE Past(x)
    BY <1>0, <1>3, <2>2 DEF Past, Guarded, MutexType
  <2>6. \A x \in Guarded : i \in Scanning(x) <=> x = l[i]
    BY <1>0 DEF Scanning
  <2>7. \A x \in Guarded : In(x)' = In(x)
    BY <2>4, <2>5, <2>6 DEF In
  <2>8. ScannedFree'
    BY <1>0, <1>3, <2>4, <2>7 DEF ScannedFree, Guarded
  <2>9. LastIsIn'
    BY <1>0, <2>7 DEF LastIsIn, Guarded
  <2>10. LastPassesAlone'
    <3> SUFFICES ASSUME NEW x \in Guarded, NEW a \in Past(x)', waiting'[x] = a
                 PROVE  In(x)' = {a}
      BY DEF LastPassesAlone, Guarded
    <3>1. CASE a \in Past(x)
      BY <1>0, <2>7, <3>1 DEF LastPassesAlone
    <3>2. CASE a \notin Past(x)
      <4>1. a = i /\ x = l[i] /\ i \in In(x)
        BY <2>5, <2>6, <3>2 DEF In
      <4>2. \A j \in In(x) : j \in Ids
        BY Sizes DEF In, Past, Scanning
      <4>3. \A j \in In(x) : j <= k[i]
        BY <1>0, <1>3, <4>2 DEF Ids, LastTask
      <4>4. \A j \in In(x) : j = i
        BY <1>0, <2>2, <4>1, <4>3, SeesOthers
      <4> QED BY <2>7, <4>1, <4>4
    <3> QED BY <3>1, <3>2
  <2> QED BY <2>1, <2>3, <2>8, <2>9, <2>10
<1> QED BY <1>1, <1>2, <1>3 DEF Scan

LEMMA LeaveKeeps ==
    ASSUME Levelled, NEW i \in Users, HF_LeaveRegion(i)
    PROVE  Levelled'
<1> USE DEF Levelled, HF_LeaveRegion
<1>1. MutexType'
  BY Sizes DEF MutexType
<1>2. LevelShown'
  BY DEF LevelShown, MutexType, Ids
<1>3. \A x \in Guarded : /\ In(x)' = In(x) \ {i} /\ Past(x)' = Past(x) \ {i}
                          /\ i \in Past(x) /\ waiting'[x] = waiting[x]
                          /\ Scanning(x)' = Scanning(x)
  BY DEF In, Past, Scanning, MutexType
<1>4. ScannedFree'
  BY <1>3, SameScans
<1>5. LastIsIn'
  BY <1>3 DEF LastIsIn, LastPassesAlone, Guarded
<1>6. LastPassesAlone'
  BY <1>3 DEF LastPassesAlone, Guarded
<1> QED BY <1>1, <1>2, <1>4, <1>5, <1>6
-----------------------------------------------------------------------------
(* How many tasks a level lets through *)

LEMMA Few ==
    ASSUME NEW x
    PROVE  /\ IsFiniteSet(Users) /\ Cardinality(Users) \in Nat /\ Cardinality(Users) <= MAX_TASKS - 1
           /\ IsFiniteSet(In(x)) /\ Cardinality(In(x)) \in Nat
           /\ IsFiniteSet(Past(x)) /\ Cardinality(Past(x)) \in Nat
           /\ Cardinality(Past(x)) <= Cardinality(Users)
<1>1. IsFiniteSet(1 .. MAX_TASKS - 1) /\ Cardinality(1 .. MAX_TASKS - 1) = MAX_TASKS - 1
  BY FS_Interval
<1>2. IsFiniteSet(Users) /\ Cardinality(Users) <= MAX_TASKS - 1
  BY <1>1, FS_Subset
<1>3. In(x) \subseteq Users /\ Past(x) \subseteq Users
  BY DEF In, Past, Scanning
<1>4. IsFiniteSet(In(x)) /\ IsFiniteSet(Past(x)) /\ Cardinality(Past(x)) <= Cardinality(Users)
  BY <1>2, <1>3, FS_Subset
<1> QED BY <1>2, <1>4, FS_CardinalityType

\* Who is in a level has passed the one before it; if two are there, one of them
\* has not passed.
LEMMA HoldsBack ==
    ASSUME Levelled, NEW x \in Guarded, Thin(x - 1)
    PROVE  Thin(x)
<1> USE DEF Levelled, Thin
<1>0. x \in Int /\ \A i \in Users : l[i] \in Int
  BY DEF Guarded, MutexType, Levels
<1>1. In(x) \subseteq Past(x - 1) /\ Past(x) \subseteq In(x)
  <2>1. \A i \in Users : l[i] >= x => l[i] > x - 1
    BY <1>0
  <2>2. Scanning(x) \subseteq Past(x - 1)
    BY <1>0, <2>1 DEF Past, Scanning
  <2>3. \A i \in Users : l[i] > x => l[i] > x - 1
    BY <1>0
  <2>4. Past(x) \subseteq Past(x - 1)
    BY <2>3 DEF Past
  <2> QED BY <2>2, <2>4 DEF In
<1>2. Cardinality(In(x)) <= Cardinality(Past(x - 1)) /\ Cardinality(Past(x)) <= Cardinality(In(x))
  BY <1>1, Few, FS_Subset
<1>3. CASE Cardinality(In(x)) <= 1
  BY <1>2, <1>3, Few
<1>4. CASE Cardinality(In(x)) > 1
  <2>1. In(x) # {}
    BY <1>4, FS_EmptySet
  <2>2. waiting[x] \in In(x)
    BY <2>1 DEF LastIsIn
  <2>3. waiting[x] \notin Past(x)
    <3> SUFFICES ASSUME waiting[x] \in Past(x)
                 PROVE  FALSE
      OBVIOUS
    <3>1. In(x) = {waiting[x]}
      BY DEF LastPassesAlone
    <3>2. Cardinality(In(x)) = 1
      BY <3>1, FS_Singleton
    <3> QED BY <1>4, <3>2
  <2>4. Past(x) \subseteq In(x) \ {waiting[x]}
    BY <1>1, <2>3
  <2>5. IsFiniteSet(In(x) \ {waiting[x]}) /\ Cardinality(In(x) \ {waiting[x]}) = Cardinality(In(x)) - 1
    BY <2>2, Few, FS_RemoveElement
  <2>6. Cardinality(Past(x)) <= Cardinality(In(x)) - 1
    BY <2>4, <2>5, FS_Subset
  <2>7. x \in Int
    BY DEF Guarded
  <2> QED BY <1>2, <1>4, <2>6, <2>7, Few
<1> QED BY <1>3, <1>4, Few

\* Only a scan that is over makes one more task pass, and only one level.
LEMMA NextPast ==
    ASSUME Levelled, [Next]_vars
    PROVE  \E y \in Levels \cup {0} : \A x \in Guarded : x # y => Past(x)' \subseteq Past(x)
<1> USE DEF Levelled
<1>1. CASE UNCHANGED vars
  BY <1>1 DEF vars, Past
<1>2. CASE Clobber
  BY <1>2 DEF Clobber, Past
<1>3. ASSUME NEW i \in Users, HF_EnterRegion(i) \/ SetLevel(i) \/ SetWaiting(i) \/ HF_LeaveRegion(i)
      PROVE  \A x \in Guarded : Past(x)' \subseteq Past(x)
  <2>1. CASE HF_EnterRegion(i)
    BY <2>1 DEF HF_EnterRegion, Past, Guarded, MutexType
  <2>2. CASE SetLevel(i)
    BY <2>2 DEF SetLevel, Past, MutexType
  <2>3. CASE SetWaiting(i)
    BY <2>3 DEF SetWaiting, Past, MutexType
  <2>4. CASE HF_LeaveRegion(i)
    BY <2>4 DEF HF_LeaveRegion, Past, MutexType
  <2> QED BY <1>3, <2>1, <2>2, <2>3, <2>4
<1>4. ASSUME NEW i \in Users, Scan(i)
      PROVE  \A x \in Guarded : x # l[i] => Past(x)' \subseteq Past(x)
  <2> SUFFICES ASSUME NEW x \in Guarded, x # l[i], NEW a \in Past(x)'
               PROVE  a \in Past(x)
    OBVIOUS
  <2>1. a \in Users /\ x \in 1 .. MAX_TASKS - 2 /\ l[i] \in 1 .. MAX_TASKS - 1 /\ pc[i] = "scan"
    BY <1>4 DEF Scan, Past, Guarded, MutexType, Levels
  <2>2. CASE a # i
    BY <1>4, <2>1, <2>2 DEF Scan, Past, MutexType
  <2>3. CASE a = i
    <3>1. CASE UNCHANGED <<pc, l>>
      BY <2>3, <3>1 DEF Past
    <3>2. CASE l[i] + 1 \in Levels /\ pc' = [pc EXCEPT ![i] = "level"] /\ l' = [l EXCEPT ![i] = @ + 1]
      <4>1. pc'[i] = "level" /\ l'[i] = l[i] + 1
        BY <3>2 DEF MutexType
      <4>2. l[i] + 1 > x
        BY <2>3, <4>1 DEF Past
      <4>3. l[i] > x
        BY <2>1, <4>2
      <4> QED BY <2>1, <2>3, <4>3 DEF Past
    <3>3. CASE l[i] + 1 \notin Levels
      <4>1. l[i] > x
        BY <2>1, <3>3 DEF Levels
      <4> QED BY <2>1, <2>3, <4>1 DEF Past
    <3> QED BY <1>4, <3>1, <3>2, <3>3 DEF Scan
  <2> QED BY <2>2, <2>3
<1>5. \A i \in Users : l[i] \in Levels
  BY DEF MutexType
<1> QED BY <1>1, <1>2, <1>3, <1>4, <1>5 DEF Next, Steps

\* What a level holds back, stated as a formula without assumptions.
Holding == /\ Thin(0)
           /\ \A x \in Guarded : Thin(x - 1) => Thin(x)
           /\ \A x \in Guarded : IsFiniteSet(Past(x)) /\ Cardinality(Past(x)) \in Nat

LEMMA LevelledHolds == Levelled => Holding
<1> SUFFICES ASSUME Levelled
             PROVE  Holding
  OBVIOUS
<1>1. Thin(0)
  BY Few DEF Thin
<1>2. \A x \in Guarded : Thin(x - 1) => Thin(x)
  BY HoldsBack
<1> QED BY <1>1, <1>2, Few DEF Holding

LEMMA LevelledHoldsNext == Levelled' => Holding'
BY LevelledHolds, PTL

LEMMA NextThinned ==
    ASSUME Levelled, Thinned, [Next]_vars, Levelled'
    PROVE  Thinned'
<1>1. Thin(0)' /\ \A x \in Guarded : Thin(x - 1)' => Thin(x)'
  BY LevelledHoldsNext DEF Holding, Guarded
<1>2. PICK y \in Levels \cup {0} : \A x \in Guarded : x # y => Past(x)' \subseteq Past(x)
  BY NextPast
<1>3. ASSUME NEW x \in Guarded, x # y
      PROVE  Thin(x)'
  <2>1. Cardinality(Past(x)') <= Cardinality(Past(x))
    BY <1>2, <1>3, Few, FS_Subset
  <2>2. x \in Passages /\ x \in Int
    BY DEF Passages, Guarded
  <2>3. IsFiniteSet(Past(x)') /\ Cardinality(Past(x)') \in Nat
    BY LevelledHoldsNext DEF Holding, Guarded
  <2> QED BY <2>1, <2>2, <2>3, Few DEF Thinned, Thin
<1>4. ASSUME NEW x \in Guarded, x = y
      PROVE  Thin(x)'
  <2>1. CASE x = 1
    BY <1>1, <2>1
  <2>2. CASE x # 1
    <3>1. x - 1 \in Guarded /\ x - 1 # y
      BY <1>4, <2>2 DEF Guarded
    <3>2. Thin(x - 1)'
      BY <1>3, <3>1
    <3> QED BY <1>1, <3>2
  <2> QED BY <2>1, <2>2
<1>5. \A x \in Passages : x = 0 \/ x \in Guarded
  BY DEF Passages, Guarded
<1> QED BY <1>1, <1>3, <1>4, <1>5 DEF Thinned, Passages
-----------------------------------------------------------------------------
(* The theorems *)

LEMMA InitInv == Init => MutexInv
<1> SUFFICES ASSUME Init
             PROVE  MutexInv
  OBVIOUS
<1>1. MutexType
  BY Sizes DEF Init, MutexType, Levels
<1>2. LevelShown
  BY Sizes DEF Init, LevelShown
<1>3. \A x : Past(x) \subseteq {} /\ Scanning(x) \subseteq {}
  BY DEF Init, Past, Scanning
<1>4. \A x : Past(x) = {} /\ In(x) = {} /\ Scanning(x) = {}
  BY <1>3 DEF In
<1>5. ScannedFree /\ LastIsIn /\ LastPassesAlone
  BY <1>4 DEF ScannedFree, LastIsIn, LastPassesAlone
<1>6. Thinned
  BY <1>4, FS_EmptySet DEF Thinned, Thin
<1> QED BY <1>1, <1>2, <1>5, <1>6 DEF MutexInv, Levelled

LEMMA NextLevelled ==
    ASSUME Levelled, [Next]_vars
    PROVE  Levelled'
<1>1. CASE UNCHANGED vars
  BY <1>1 DEF vars, Levelled, MutexType, LevelShown, ScannedFree, LastIsIn, LastPassesAlone, In, Past, Scanning
<1>2. CASE Next
  BY <1>2, ClobberKeeps, EnterKeeps, SetLevelKeeps, SetWaitingKeeps, ScanKeeps, LeaveKeeps DEF Next, Steps
<1> QED BY <1>1, <1>2

\* Two tasks that are inside have both passed the level before the last, which
\* lets one through.
LEMMA InvExcludes == MutexInv => Exclusion
<1> SUFFICES ASSUME MutexInv, NEW i \in Users, NEW j \in Users, pc[i] = "inside", pc[j] = "inside"
             PROVE  i = j
  BY DEF Exclusion
<1> DEFINE P == Past(MAX_TASKS - 2)
<1>1. CASE MAX_TASKS = 2
  <2>1. i \in 1 .. 1 /\ j \in 1 .. 1
    BY <1>1
  <2> QED BY <2>1
<1>2. CASE MAX_TASKS # 2
  <2>1. MAX_TASKS - 2 \in Passages /\ MAX_TASKS - 2 \in Int
    BY <1>2 DEF Passages
  <2>2. Thin(MAX_TASKS - 2)
    BY <2>1 DEF MutexInv, Thinned
  <2>3. Cardinality(P) <= 1
    BY <2>1, <2>2, Few DEF Thin
  <2>4. IsFiniteSet(P) /\ i \in P /\ j \in P
    BY Few DEF Past
  <2>5. Cardinality(P) = 1
    BY <2>3, <2>4, Few, FS_EmptySet
  <2>6. \E x : P = {x}
    BY <2>4, <2>5, FS_Singleton
  <2> QED BY <2>4, <2>6
<1> QED BY <1>1, <1>2

\* Every reachable state of the filter lock satisfies the inductive invariant.
THEOREM FilterInvariant == Spec => []MutexInv
<1>1. MutexInv /\ [Next]_vars => MutexInv'
  BY NextLevelled, NextThinned DEF MutexInv
<1> QED BY InitInv, <1>1, PTL DEF Spec

\* Two tasks are never both between HF_EnterRegion and HF_LeaveRegion, for any
\* MAX_TASKS and any set of tasks without the idle task, although anything may
\* be written to the entry of the last level at any time.
THEOREM FilterExcludes == Spec => []Exclusion
BY FilterInvariant, InvExcludes, PTL
-----------------------------------------------------------------------------
(* The mutex of the heap *)

\* Apart from steps that leave the mutex alone, a step of the heap is one of it.
LEMMA HeapStepIsMutexStep == [HeapNext]_all => [Next]_vars
<1> SUFFICES ASSUME [HeapNext]_all
             PROVE  [Next]_vars
  OBVIOUS
<1>1. CASE UNCHANGED all
  BY <1>1 DEF all, malloc_mutex
<1>2. CASE Other
  BY <1>2 DEF Other, Next
<1>3. ASSUME NEW i \in Users, Malloc(i) \/ Realloc(i) \/ Free(i)
      PROVE  HF_EnterRegion(i)
  BY <1>3 DEF Malloc, Realloc, Free, Calls
<1>4. ASSUME NEW i \in Users, Continue(i)
      PROVE  HF_EnterRegion(i) \/ Steps(i) \/ UNCHANGED vars
  BY <1>4 DEF Continue, Find, Split, Release, Leave, Enter, Climb, Steps, malloc_mutex
<1> QED BY <1>1, <1>2, <1>3, <1>4 DEF HeapNext, Next

\* No two tasks are in malloc or free between HF_EnterRegion and HF_LeaveRegion of
\* malloc_mutex, for any heap, any number of tasks and any requests, the calls
\* made with interrupts off included.
THEOREM HeapExcludes == HeapSpec => []Exclusion
<1>1. HeapInit => Init
  BY DEF HeapInit
<1>2. MutexInv /\ [HeapNext]_all => MutexInv'
  BY HeapStepIsMutexStep, NextLevelled, NextThinned DEF MutexInv
<1> QED BY InitInv, <1>1, <1>2, InvExcludes, PTL DEF HeapSpec
-----------------------------------------------------------------------------
(* The headers *)

\* What the provers may know of the length; of the rest they cannot read 2 ^ 30.
LEMMA HeapLength == LENGTH \in Nat /\ LENGTH >= 2
BY HeapAssumption, Zenon

USE HeapLength

\* The chunks as a set of header words: where they are, not how to walk there.
Heads == {a \in Words : word[a].size # 0}
Used == {a \in Heads : word[a].used}

Tiled ==
    /\ word \in [Words -> [size : Nat, used : BOOLEAN]]
    /\ 0 \in Heads
    /\ word[Last] = Chunk(0, FALSE)
    /\ \A a \in Heads : a + word[a].size \in Heads \cup {Last}
    /\ \A a \in Heads : \A b \in a + 1 .. a + word[a].size - 1 : word[b] = Data

\* After a header the next one is where its chunk ends.
LEMMA NextHead ==
    ASSUME Tiled, NEW a \in Heads
    PROVE  /\ a \in Nat /\ a < Last /\ a + word[a].size \in Words
           /\ word[a].size \in Nat \ {0}
           /\ a + word[a].size # Last => a + word[a].size \in Heads
           /\ \A b \in Heads : b > a => b >= a + word[a].size
<1>1. /\ LENGTH \in Nat /\ LENGTH >= 2 /\ Last = LENGTH - 1 /\ Words = 0 .. LENGTH - 1
  BY DEF Last, Words
<1>2. a \in Words /\ word[a].size # 0 /\ word[a] \in [size : Nat, used : BOOLEAN]
  BY DEF Tiled, Heads
<1>3. a # Last
  BY <1>2 DEF Tiled, Chunk
<1>4. a + word[a].size \in Heads \cup {Last}
  BY DEF Tiled
<1>5. Heads \subseteq Words
  BY DEF Heads
<1>6. ASSUME NEW b \in Heads, b > a, ~(b >= a + word[a].size)
      PROVE  FALSE
  <2>1. b \in a + 1 .. a + word[a].size - 1
    BY <1>6, <1>5, <1>1, <1>2
  <2>2. word[b] = Data
    BY <2>1 DEF Tiled
  <2>3. Data.size = 0 /\ word[b].size # 0
    BY DEF Data, Chunk, Heads
  <2> QED BY <2>2, <2>3
<1>7. word[a].size \in Nat \ {0}
  BY <1>2
<1> QED BY <1>1, <1>2, <1>3, <1>4, <1>5, <1>6, <1>7

\* Data and the last word are no headers, so a walk meets headers alone.
LEMMA WalkStep ==
    ASSUME Tiled
    PROVE  Walk = [a \in Words |->
              IF word[a].size = 0 THEN {}
              ELSE {a} \cup IF a + word[a].size \in Words THEN Walk[a + word[a].size] ELSE {}]
<1> DEFINE Body(W) == [a \in Words |->
              IF word[a].size = 0 THEN {}
              ELSE {a} \cup IF a + word[a].size \in Words THEN W[a + word[a].size] ELSE {}]
           F == [a \in Words |-> {b \in Heads : word[a].size # 0 /\ b >= a}]
<1>1. Walk = CHOOSE W : W = Body(W)
  BY DEF Walk
<1>2. F = Body(F)
  <2>1. SUFFICES ASSUME NEW a \in Words
        PROVE  F[a] = IF word[a].size = 0 THEN {}
              ELSE {a} \cup IF a + word[a].size \in Words THEN F[a + word[a].size] ELSE {}
    BY Zenon
  <2>2. CASE word[a].size = 0
    BY <2>2
  <2>3. CASE word[a].size # 0
    <3> DEFINE n == a + word[a].size
    <3>1. a \in Heads
      BY <2>3 DEF Heads
    <3>2. /\ a \in Nat /\ a < Last /\ n \in Words /\ word[a].size \in Nat \ {0}
          /\ n # Last => n \in Heads
          /\ \A b \in Heads : b > a => b >= n
      BY <3>1, NextHead
    <3>3. \A b \in Heads : b \in Nat /\ b < Last
      BY NextHead
    <3>4. Last \in Nat /\ n \in Nat /\ n > a
      BY <3>2 DEF Words, Last
    <3>5. F[a] = {b \in Heads : b >= a} /\ F[n] = {b \in Heads : word[n].size # 0 /\ b >= n}
      BY <2>3, <3>2
    <3>6. n = Last => F[n] = {} /\ F[a] = {a}
      <4>1. SUFFICES ASSUME n = Last PROVE F[n] = {} /\ F[a] = {a}
        OBVIOUS
      <4>2. word[n].size = 0
        BY <4>1 DEF Tiled, Chunk
      <4>3. \A b \in Heads : b >= a <=> b = a
        BY <3>1, <3>2, <3>3, <3>4, <4>1
      <4> HIDE DEF n, F
      <4> QED BY <3>1, <3>5, <4>2, <4>3
    <3>7. n # Last => F[a] = {a} \cup F[n]
      <4>1. SUFFICES ASSUME n # Last PROVE F[a] = {a} \cup F[n]
        OBVIOUS
      <4>2. n \in Heads /\ word[n].size # 0
        BY <4>1, <3>2 DEF Heads
      <4>3. \A b \in Heads : b >= a <=> b = a \/ b >= n
        BY <3>1, <3>2, <3>3, <3>4
      <4> HIDE DEF n, F
      <4> QED BY <3>1, <3>5, <4>2, <4>3
    <3> HIDE DEF F
    <3> QED BY <2>3, <3>2, <3>6, <3>7
  <2> QED BY <2>2, <2>3
<1> HIDE DEF F, Body
<1>3. Walk = Body(Walk)
  BY <1>1, <1>2
<1> QED BY <1>3 DEF Body

\* A walk from the first word finds every header.
LEMMA HeadersAreHeads ==
    ASSUME Tiled
    PROVE  Headers = Heads
<1> DEFINE From(a) == {b \in Heads : b >= a}
           Bad == {a \in Heads : Walk[a] # From(a)}
           Left == {Last - a : a \in Bad}
<1>1. \A b \in Heads : b \in Nat /\ b < Last
  BY NextHead
<1>2. Last \in Nat
  BY DEF Last
<1>3. Bad = {}
  <2> SUFFICES ASSUME Bad # {} PROVE FALSE
    OBVIOUS
  <2>1. Left \in SUBSET Nat /\ Left # {}
    BY <1>1, <1>2
  <2>2. PICK d \in Left : \A e \in Left : d <= e
    BY <2>1, LeastNumber
  <2>3. PICK a \in Bad : d = Last - a
    OBVIOUS
  <2>4. \A b \in Bad : b <= a
    <3>1. \A b \in Bad : b \in Nat /\ Last - b \in Left
      BY <1>1
    <3> HIDE DEF Bad, Left
    <3>2. ASSUME NEW b \in Bad PROVE b <= a
      <4>1. Last - a <= Last - b
        BY <2>2, <2>3, <3>1
      <4> QED BY <4>1, <3>1, <2>3, <1>2
    <3> QED BY <3>2
  <2> DEFINE n == a + word[a].size
  <2>5. /\ a \in Heads /\ a \in Words /\ word[a].size # 0
        /\ a \in Nat /\ a < Last /\ n \in Words /\ word[a].size \in Nat \ {0}
        /\ n # Last => n \in Heads
        /\ \A b \in Heads : b > a => b >= n
    BY NextHead DEF Heads
  <2>6. Walk[a] = {a} \cup Walk[n]
    BY <2>5, WalkStep
  <2>7. n \in Nat /\ n > a
    BY <2>5 DEF Words
  <2>8. CASE n = Last
    <3>1. Walk[n] = {}
      <4>1. word[n].size = 0 /\ n \in Words
        BY <2>5, <2>8 DEF Tiled, Chunk
      <4> HIDE DEF n
      <4> QED BY <4>1, WalkStep
    <3>2. \A b \in Heads : b >= a <=> b = a
      BY <2>5, <2>8, <1>1, <1>2
    <3> HIDE DEF n
    <3> QED BY <2>5, <2>6, <3>1, <3>2
  <2>9. CASE n # Last
    <3>1. n \in Heads /\ n \notin Bad
      BY <2>4, <2>5, <2>7, <2>9
    <3>2. Walk[n] = From(n)
      BY <3>1
    <3>3. \A b \in Heads : b >= a <=> b = a \/ b >= n
      BY <2>5, <2>7, <1>1
    <3> HIDE DEF n
    <3> QED BY <2>5, <2>6, <3>2, <3>3
  <2> QED BY <2>8, <2>9
<1>4. 0 \in Heads
  BY DEF Tiled
<1>5. Walk[0] = From(0)
  BY <1>3, <1>4
<1>6. From(0) = Heads
  BY <1>1
<1> QED BY <1>5, <1>6 DEF Headers

-----------------------------------------------------------------------------
(* Merging *)

\* Min of the library is what its name says.
LEMMA MinIsLeast ==
    ASSUME NEW S \in SUBSET Nat, S # {}
    PROVE  Min(S) \in S /\ \A m \in S : Min(S) <= m
BY LeastNumber DEF Min

HeadTypes == \A a \in Heads : a \in Nat /\ a < Last /\ a \in Words

\* Headers are addresses before the last word.
LEMMA HeadsTyped == ASSUME Tiled PROVE HeadTypes /\ Last \in Nat /\ Last \in Words /\ Used \subseteq Heads
BY NextHead DEF HeadTypes, Heads, Used, Last, Words

\* Header a begins, and address e ends, a run: the headers from a on are unused
\* up to e, which is used or the last word.
IsRun(r) ==
    /\ r = <<r[1], r[2]>>
    /\ r[1] \in Heads \ Used
    /\ r[2] \in Used \cup {Last}
    /\ r[1] < r[2]
    /\ \A b \in Used : ~(r[1] < b /\ b < r[2])

\* A run has no unused header before it, and there is one for every end.
LEMMA RunsAreRuns ==
    ASSUME Tiled
    PROVE  /\ \A r \in Runs(Heads) : IsRun(r)
           /\ \A r, q \in Runs(Heads) : r = q \/ r[2] < q[1] \/ q[2] < r[1]
<1> DEFINE Ends == {b \in Heads : word[b].used} \cup {Last}
           All == {<<a, Min({b \in Ends : b > a})>> : a \in Heads \ Ends}
<1>1. Ends = Used \cup {Last} /\ Ends \subseteq Nat /\ Heads \ Ends = Heads \ Used
  BY HeadsTyped DEF HeadTypes, Used
<1>2. Runs(Heads) = {r \in All : \A q \in All : q[2] = r[2] => r[1] <= q[1]}
  BY DEF Runs
<1>3. ASSUME NEW a \in Heads \ Ends
      PROVE  /\ Min({b \in Ends : b > a}) \in Ends
             /\ Min({b \in Ends : b > a}) > a
             /\ \A e \in Ends : e > a => Min({b \in Ends : b > a}) <= e
  <2> DEFINE S == {b \in Ends : b > a}
  <2>1. Last \in S /\ S \in SUBSET Nat
    BY <1>1, HeadsTyped DEF HeadTypes
  <2> HIDE DEF S
  <2>2. Min(S) \in S /\ \A m \in S : Min(S) <= m
    BY <2>1, MinIsLeast
  <2> QED BY <2>2 DEF S
<1> HIDE DEF Ends
<1>4. \A r \in All : /\ r = <<r[1], r[2]>> /\ r[1] \in Heads \ Ends /\ r[2] \in Ends /\ r[1] < r[2]
                     /\ \A b \in Ends : b > r[1] => r[2] <= b
  <2> TAKE r \in All
  <2>1. PICK a \in Heads \ Ends : r = <<a, Min({b \in Ends : b > a})>>
    OBVIOUS
  <2>2. a \in Nat /\ Min({b \in Ends : b > a}) \in Nat
    BY <1>1, <1>3, HeadsTyped DEF HeadTypes
  <2> QED BY <1>3, <2>1, <2>2
<1> HIDE DEF All
<1>5. \A r \in All : r[1] \in Nat /\ r[2] \in Nat /\ IsRun(r)
  <2> TAKE r \in All
  <2>1. r[1] \in Nat /\ r[2] \in Nat
    BY <1>1, <1>4, HeadsTyped DEF HeadTypes
  <2>2. \A b \in Used : ~(r[1] < b /\ b < r[2])
    BY <1>1, <1>4, <2>1
  <2> QED BY <2>1, <2>2, <1>1, <1>4 DEF IsRun
<1>6. ASSUME NEW r \in Runs(Heads), NEW q \in Runs(Heads)
      PROVE  r = q \/ r[2] < q[1] \/ q[2] < r[1]
  <2>1. r \in All /\ q \in All /\ (q[2] = r[2] => r[1] <= q[1]) /\ (r[2] = q[2] => q[1] <= r[1])
    BY <1>2
  <2>2. /\ r[1] \in Nat /\ r[2] \in Nat /\ q[1] \in Nat /\ q[2] \in Nat
        /\ r[1] # q[2] /\ q[1] # r[2]
    BY <2>1, <1>4, <1>5
  <2>3. r[2] > q[1] => q[2] <= r[2]
    BY <1>4, <2>1
  <2>4. q[2] > r[1] => r[2] <= q[2]
    BY <1>4, <2>1
  <2>5. r[2] = q[2] => r = q
    <3>1. r[2] = q[2] => r[1] = q[1]
      BY <2>1, <2>2
    <3> QED BY <3>1, <1>4, <2>1
  <2> QED BY <2>2, <2>3, <2>4, <2>5
<1> QED BY <1>2, <1>5, <1>6

\* To merge some runs leaves the used chunks and the first words of the runs.
LEMMA MergingKeeps ==
    ASSUME Tiled, NEW sel \in SUBSET Runs(Heads), word' = Merged(sel)
    PROVE  /\ Tiled'
           /\ Used' = Used
           /\ \A a \in Used : word'[a] = word[a]
           /\ \A r \in sel : r[1] \in Heads' /\ word'[r[1]] = Chunk(r[2] - r[1], FALSE)
<1> DEFINE Starts(a) == \E r \in sel : a = r[1]
           Inside(a) == \E r \in sel : a \in r[1] + 1 .. r[2] - 1
<1>1. \A r \in sel : /\ IsRun(r)
                     /\ r[1] \in Nat /\ r[2] \in Nat /\ r[1] < r[2] /\ r[2] <= Last
                     /\ r[1] \in Heads
  <2> TAKE r \in sel
  <2>1. IsRun(r)
    BY RunsAreRuns
  <2> QED BY <2>1, HeadsTyped DEF IsRun, HeadTypes
<1>2. \A r, q \in sel : r = q \/ r[2] < q[1] \/ q[2] < r[1]
  BY RunsAreRuns
<1>3. /\ \A a \in Heads : a \in Nat /\ a < Last /\ a \in Words
      /\ Last \in Nat /\ Last \in Words /\ Used \subseteq Heads
      /\ Words = 0 .. Last
  BY HeadsTyped DEF HeadTypes, Words, Last
<1>4. ASSUME NEW r \in sel
      PROVE  word'[r[1]] = Chunk(r[2] - r[1], FALSE)
  <2>1. r[1] \in Words /\ Starts(r[1])
    BY <1>1, <1>3
  <2>2. word'[r[1]] = Chunk(Size(CHOOSE q \in sel : q[1] = r[1]), FALSE)
    BY <2>1 DEF Merged
  <2>3. (CHOOSE q \in sel : q[1] = r[1]) = r
    <3>1. \A q \in sel : q[1] = r[1] => q = r
      BY <1>1, <1>2
    <3> QED BY <3>1
  <2> QED BY <2>2, <2>3 DEF Size
<1>a. \A r \in sel : /\ word'[r[1]].size = r[2] - r[1] /\ r[2] - r[1] \in Nat \ {0}
                     /\ word'[r[1]].used = FALSE
                     /\ word'[r[1]] \in [size : Nat, used : BOOLEAN]
  <2> TAKE r \in sel
  <2>1. word'[r[1]] = [size |-> r[2] - r[1], used |-> FALSE] /\ r[2] - r[1] \in Nat \ {0}
    BY <1>4, <1>1 DEF Chunk
  <2> QED BY <2>1
<1>5. ASSUME NEW a \in Words, Inside(a)
      PROVE  ~Starts(a) /\ word'[a] = Data
  <2>1. ~Starts(a)
    <3> SUFFICES ASSUME NEW r \in sel, a \in r[1] + 1 .. r[2] - 1, NEW q \in sel, a = q[1]
                 PROVE FALSE
      BY <1>5
    <3> QED BY <1>1, <1>2
  <2> QED BY <2>1, <1>5 DEF Merged
<1>6. ASSUME NEW a \in Words, ~Starts(a), ~Inside(a)
      PROVE  word'[a] = word[a]
  BY <1>6 DEF Merged
<1>7. word' = [a \in Words |-> word'[a]]
  BY DEF Merged
<1>8. Heads' = {a \in Heads : ~Inside(a)}
  <2>1. Heads' = {a \in Words : word'[a].size # 0}
    BY DEF Heads
  <2>2. ASSUME NEW a \in Words
        PROVE  word'[a].size # 0 <=> a \in Heads /\ ~Inside(a)
    <3>1. CASE Inside(a)
      BY <3>1, <1>5 DEF Data, Chunk
    <3>2. CASE Starts(a) /\ ~Inside(a)
      <4>1. PICK r \in sel : a = r[1]
        BY <3>2
      <4>2. word'[a].size = r[2] - r[1] /\ r[2] - r[1] # 0
        BY <4>1, <1>a
      <4>3. a \in Heads
        BY <4>1, <1>1
      <4> HIDE DEF Inside
      <4> QED BY <4>2, <4>3, <3>2
    <3>3. CASE ~Starts(a) /\ ~Inside(a)
      <4> HIDE DEF Inside, Starts
      <4> QED BY <3>3, <1>6 DEF Heads
    <3> QED BY <3>1, <3>2, <3>3
  <2> HIDE DEF Inside
  <2> QED BY <2>1, <2>2, <1>3
<1>9. \A a \in Used : ~Starts(a) /\ ~Inside(a)
  <2> SUFFICES ASSUME NEW a \in Used, NEW r \in sel
               PROVE  a # r[1] /\ a \notin r[1] + 1 .. r[2] - 1
    OBVIOUS
  <2>1. IsRun(r)
    BY <1>1
  <2> QED BY <2>1, <1>1, <1>3 DEF IsRun
<1>10. \A a \in Used : word'[a] = word[a]
  BY <1>6, <1>9, <1>3
<1>11. Used' = Used
  <2>1. Used' = {a \in Heads' : word'[a].used}
    BY DEF Used
  <2>2. ASSUME NEW a \in Heads', a \notin Used
        PROVE  ~word'[a].used
    <3>1. a \in Heads /\ ~Inside(a) /\ a \in Words
      BY <1>8, <1>3
    <3>2. CASE Starts(a)
      <4>1. word'[a].used = FALSE
        BY <3>2, <1>a
      <4> QED BY <4>1
    <3>3. CASE ~Starts(a)
      <4>1. word'[a] = word[a]
        BY <3>1, <3>3, <1>6
      <4>2. ~word[a].used
        BY <3>1, <2>2 DEF Used
      <4> QED BY <4>1, <4>2
    <3> QED BY <3>2, <3>3
  <2>3. \A a \in Used : a \in Heads' /\ word[a].used
    BY <1>8, <1>9, <1>3 DEF Used
  <2> QED BY <2>1, <2>2, <2>3, <1>10
<1>12. word' \in [Words -> [size : Nat, used : BOOLEAN]]
  <2>1. \A a \in Words : word'[a] \in [size : Nat, used : BOOLEAN]
    <3> TAKE a \in Words
    <3>1. CASE Starts(a)
      <4>1. PICK r \in sel : a = r[1]
        BY <3>1
      <4> QED BY <4>1, <1>a
    <3>2. CASE Inside(a)
      <4>1. Data \in [size : Nat, used : BOOLEAN]
        BY DEF Data, Chunk
      <4> QED BY <3>2, <1>5, <4>1
    <3>3. CASE ~Starts(a) /\ ~Inside(a)
      BY <3>3, <1>6 DEF Tiled
    <3> QED BY <3>1, <3>2, <3>3
  <2> QED BY <2>1, <1>7
<1>13. 0 \in Heads'
  <2>1. ~Inside(0)
    BY <1>1
  <2>2. 0 \in Heads
    BY DEF Tiled
  <2> QED BY <2>1, <2>2, <1>8
<1>14. word'[Last] = Chunk(0, FALSE)
  <2>1. ~Starts(Last) /\ ~Inside(Last)
    BY <1>1, <1>3
  <2>2. word[Last] = Chunk(0, FALSE)
    BY DEF Tiled
  <2> QED BY <2>1, <2>2, <1>3, <1>6
<1>15. ASSUME NEW a \in Heads'
       PROVE  /\ a + word'[a].size \in Heads' \cup {Last}
              /\ \A b \in a + 1 .. a + word'[a].size - 1 : word'[b] = Data
  <2>1. a \in Heads /\ a \in Words /\ ~Inside(a) /\ a \in Nat /\ a < Last
    BY <1>8, <1>3
  <2>2. CASE Starts(a)
    <3>1. PICK r \in sel : a = r[1]
      BY <2>2
    <3>2. /\ r[1] \in Nat /\ r[2] \in Nat /\ r[1] < r[2] /\ r[2] <= Last
          /\ r[2] \in Used \cup {Last}
      BY <1>1 DEF IsRun
    <3>3. word'[a].size = r[2] - r[1] /\ a + word'[a].size = r[2]
      BY <3>1, <3>2, <1>a
    <3>4. r[2] \in Heads' \cup {Last}
      BY <3>2, <1>8, <1>9, <1>3
    <3>5. \A b \in a + 1 .. r[2] - 1 : b \in Words /\ Inside(b)
      BY <3>1, <3>2, <1>3
    <3>6. \A b \in a + 1 .. a + word'[a].size - 1 : word'[b] = Data
      <4> HIDE DEF Inside
      <4>1. \A b \in a + 1 .. r[2] - 1 : word'[b] = Data
        BY <3>5, <1>5
      <4> SUFFICES ASSUME NEW b \in Int, a + 1 <= b, b <= a + word'[a].size - 1
                   PROVE  word'[b] = Data
        OBVIOUS
      <4>2. b \in a + 1 .. r[2] - 1
        BY <3>3, <3>2, <2>1
      <4> QED BY <4>1, <4>2
    <3> QED BY <3>3, <3>4, <3>6
  <2>3. CASE ~Starts(a)
    <3> DEFINE n == a + word[a].size
    <3>1. word'[a] = word[a]
      BY <2>1, <2>3, <1>6
    <3>2. /\ n \in Words /\ word[a].size \in Nat \ {0}
          /\ n # Last => n \in Heads
          /\ \A b \in Heads : b > a => b >= n
      BY <2>1, NextHead
    <3>3. n \in Nat /\ n > a /\ n <= Last
      BY <3>2, <1>3, <2>1
    <3>4. ~Inside(n)
      <4> SUFFICES ASSUME NEW q \in sel, n \in q[1] + 1 .. q[2] - 1
                   PROVE  FALSE
        OBVIOUS
      <4>1. q[1] \in Nat /\ q[2] \in Nat /\ q[1] \in Heads /\ q[1] < n /\ n < q[2]
        BY <1>1, <3>3
      <4>2. ~(q[1] > a)
        BY <4>1, <3>2, <3>3
      <4>3. q[1] # a
        BY <2>3
      <4>4. a \in q[1] + 1 .. q[2] - 1
        BY <4>1, <4>2, <4>3, <3>3, <2>1
      <4> QED BY <4>4, <2>1
    <3>5. n \in Heads' \cup {Last}
      BY <3>2, <3>4, <1>8
    <3>6. ASSUME NEW b \in a + 1 .. n - 1
          PROVE  word'[b] = Data
      <4>1. b \in Words /\ word[b] = Data
        BY <3>3, <2>1, <1>3 DEF Tiled
      <4>2. b \notin Heads
        BY <4>1 DEF Heads, Data, Chunk
      <4>3. ~Starts(b)
        BY <4>2, <1>1
      <4> QED BY <4>1, <4>3, <1>5, <1>6
    <3> HIDE DEF n
    <3>7. n = a + word'[a].size
      BY <3>1 DEF n
    <3>8. \A b \in a + 1 .. n - 1 : word'[b] = Data
      BY <3>6
    <3>9. ASSUME NEW b \in Int, a + 1 <= b, b <= a + word'[a].size - 1
          PROVE  word'[b] = Data
      <4>1. b \in a + 1 .. n - 1
        BY <3>9, <3>7, <3>3, <3>1, <3>2, <2>1
      <4> QED BY <4>1, <3>8
    <3>10. a + word'[a].size \in Heads' \cup {Last}
      BY <3>5, <3>7
    <3> QED BY <3>9, <3>10
  <2> QED BY <2>2, <2>3
<1>16. Tiled'
  BY <1>12, <1>13, <1>14, <1>15 DEF Tiled
<1>17. \A r \in sel : r[1] \in Heads'
  <2> TAKE r \in sel
  <2>1. ~Inside(r[1])
    BY <1>5, <1>1, <1>3
  <2> QED BY <2>1, <1>1, <1>8
<1> QED BY <1>4, <1>10, <1>11, <1>16, <1>17
-----------------------------------------------------------------------------
(* One step of malloc, or of free, on the chunks *)

\* A block cut from an unused chunk is a new used chunk; the rest is an unused one.
LEMMA CutKeeps ==
    ASSUME Tiled, NEW p \in Heads \ Used, NEW n \in Nat \ {0}, NEW size, size = word[p].size, n <= size,
           word' = Cut(p, n, size)
    PROVE  /\ Tiled'
           /\ Used' = Used \cup {p}
           /\ \A a \in Used : word'[a] = word[a]
           /\ word'[p].size = n
           /\ n < size => p + n \in Heads' \ Used'
<1> DEFINE e == p + size
           q == p + n
<1>1. /\ p \in Nat /\ p < Last /\ e \in Words /\ size \in Nat \ {0}
      /\ e # Last => e \in Heads
      /\ \A b \in Heads : b > p => b >= e
  BY NextHead
<1>2. /\ \A a \in Heads : a \in Nat /\ a < Last /\ a \in Words
      /\ Last \in Nat /\ Last \in Words /\ Used \subseteq Heads
      /\ Words = 0 .. Last
  BY HeadsTyped DEF HeadTypes, Words, Last
<1>3. e \in Nat /\ e <= Last /\ q \in Nat /\ q <= e /\ p < q
  BY <1>1, <1>2
<1>4. /\ word' = [a \in Words |-> word'[a]]
      /\ word'[p] = Chunk(n, TRUE)
      /\ q < e => word'[q] = Chunk(size - n, FALSE)
      /\ \A a \in Words : a \in p + 1 .. q - 1 => word'[a] = Data
      /\ \A a \in Words : a # p /\ a # q /\ a \notin p + 1 .. q - 1 => word'[a] = word[a]
      /\ n = size => word'[q] = word[q]
  <2>1. word' = [a \in Words |-> CASE a = p -> Chunk(n, TRUE)
                       [] a = q /\ n < size -> Chunk(size - n, FALSE)
                       [] a \in p + 1 .. q - 1 -> Data
                       [] OTHER -> word[a]]
    BY DEF Cut
  <2>2. p \in Words /\ q \in Words /\ p # q /\ p \notin p + 1 .. q - 1 /\ q \notin p + 1 .. q - 1
    BY <1>1, <1>2, <1>3
  <2>3. (q < e <=> n < size) /\ (n = size => ~(n < size))
    BY <1>1
  <2> HIDE DEF q, e
  <2> QED BY <2>1, <2>2, <2>3
<1>5. /\ word'[p].size = n /\ word'[p].used = TRUE /\ word'[p] \in [size : Nat, used : BOOLEAN]
      /\ q < e => /\ word'[q].size = size - n /\ word'[q].used = FALSE /\ size - n \in Nat \ {0}
                  /\ word'[q] \in [size : Nat, used : BOOLEAN]
      /\ Data \in [size : Nat, used : BOOLEAN] /\ Data.size = 0
  <2>1. word'[p] = [size |-> n, used |-> TRUE] /\ (q < e => word'[q] = [size |-> size - n, used |-> FALSE])
    BY <1>4 DEF Chunk
  <2>2. q < e => size - n \in Nat \ {0}
    BY <1>1
  <2>3. Data = [size |-> 0, used |-> TRUE]
    BY DEF Data, Chunk
  <2>4. /\ word'[p].size = n /\ word'[p].used = TRUE /\ word'[p] \in [size : Nat, used : BOOLEAN]
    BY <2>1
  <2>5. ASSUME q < e
        PROVE  /\ word'[q].size = size - n /\ word'[q].used = FALSE
               /\ word'[q] \in [size : Nat, used : BOOLEAN]
    <3> DEFINE d == size - n
    <3>1. word'[q] = [size |-> d, used |-> FALSE] /\ d \in Nat
      BY <2>1, <2>2, <2>5
    <3> HIDE DEF d
    <3>2. word'[q].size = d /\ word'[q].used = FALSE /\ word'[q] \in [size : Nat, used : BOOLEAN]
      BY <3>1
    <3> QED BY <3>2 DEF d
  <2> QED BY <2>2, <2>3, <2>4, <2>5
<1>6. \A b \in Words : b \in p + 1 .. e - 1 => b \notin Heads /\ word[b] = Data
  BY <1>1, <1>2
    DEF Tiled
<1> HIDE DEF q, e
<1>q. q = p + n /\ e = p + size
  BY DEF q, e
<1>7. Heads' = Heads \cup (IF q < e THEN {q} ELSE {})
  <2>1. Heads' = {a \in Words : word'[a].size # 0}
    BY DEF Heads
  <2>2. ASSUME NEW a \in Words
        PROVE  word'[a].size # 0 <=> a \in Heads \/ (q < e /\ a = q)
    <3>1. CASE a = p
      BY <3>1, <1>5
    <3>2. CASE a = q /\ q < e
      BY <3>2, <1>5
    <3>3. CASE a \in p + 1 .. q - 1
      <4>1. a \in p + 1 .. e - 1 /\ a # q
        BY <3>3, <1>3, <1>1
      <4> QED BY <3>3, <4>1, <1>4, <1>5, <1>6
    <3>4. CASE a # p /\ ~(a = q /\ q < e) /\ a \notin p + 1 .. q - 1
      <4>1. a = q => n = size
        BY <3>4, <1>q, <1>1, <1>3
      <4>2. word'[a] = word[a]
        BY <3>4, <4>1, <1>4
      <4> QED BY <4>2, <3>4 DEF Heads
    <3> QED BY <3>1, <3>2, <3>3, <3>4
  <2>3. q \in Words
    BY <1>2, <1>3
  <2> QED BY <2>1, <2>2, <2>3, <1>2
<1>8. \A a \in Heads : a # p => word'[a] = word[a]
  <2> SUFFICES ASSUME NEW a \in Heads, a # p PROVE word'[a] = word[a]
    OBVIOUS
  <2>1. a \notin p + 1 .. e - 1 /\ a \in Nat
    BY <1>2, <1>6
  <2>2. a \notin p + 1 .. q - 1 /\ (a = q => n = size)
    BY <2>1, <1>1, <1>3, <1>q
  <2> QED BY <2>2, <1>2, <1>4
<1>9. q < e => q \notin Heads
  BY <1>1, <1>3
<1>10. Used' = Used \cup {p}
  <2>1. Used' = {a \in Heads' : word'[a].used}
    BY DEF Used
  <2>2. p \in Heads' /\ word'[p].used = TRUE /\ (q < e => word'[q].used = FALSE)
    BY <1>5, <1>7
  <2>3. \A a \in Heads : a # p => (word'[a].used <=> a \in Used)
    BY <1>8 DEF Used
  <2> QED BY <2>1, <2>2, <2>3, <1>7, <1>2
<1>11. word' \in [Words -> [size : Nat, used : BOOLEAN]]
  <2>1. ASSUME NEW a \in Words
        PROVE  word'[a] \in [size : Nat, used : BOOLEAN]
    <3>1. word[a] \in [size : Nat, used : BOOLEAN]
      BY DEF Tiled
    <3>2. a = q => q < e \/ n = size
      BY <1>q, <1>1, <1>3
    <3> QED BY <3>1, <3>2, <1>4, <1>5
  <2> QED BY <2>1, <1>4
<1>12. 0 \in Heads' /\ word'[Last] = Chunk(0, FALSE)
  <2>1. 0 \in Heads /\ word[Last] = Chunk(0, FALSE)
    BY DEF Tiled
  <2>2. Last # p /\ Last \notin p + 1 .. q - 1 /\ (Last = q => n = size)
    BY <1>1, <1>2, <1>3, <1>q
  <2> QED BY <2>1, <2>2, <1>2, <1>4, <1>7
<1>13. ASSUME NEW a \in Heads'
       PROVE  /\ a + word'[a].size \in Heads' \cup {Last}
              /\ \A b \in a + 1 .. a + word'[a].size - 1 : word'[b] = Data
  <2>1. CASE a = p
    <3>1. a + word'[a].size = q
      BY <2>1, <1>5, <1>q
    <3>2. q = e \/ q < e
      BY <1>3
    <3>3. q \in Heads' \cup {Last}
      BY <3>2, <1>1, <1>7
    <3>4. ASSUME NEW b \in Int, a + 1 <= b, b <= q - 1
          PROVE  word'[b] = Data
      <4>1. b \in p + 1 .. q - 1 /\ b \in Words
        BY <3>1, <3>4, <2>1, <1>1, <1>2, <1>3
      <4> QED BY <4>1, <1>4
    <3>5. word'[a].size \in Int /\ a \in Int /\ q \in Int
      BY <2>1, <1>1, <1>3, <1>5
    <3> QED BY <3>1, <3>3, <3>4, <3>5
  <2>2. CASE q < e /\ a = q
    <3>1. a + word'[a].size = e
      BY <2>2, <1>5, <1>q, <1>1
    <3>3. e \in Heads' \cup {Last}
      BY <1>1, <1>7
    <3>4. ASSUME NEW b \in Int, a + 1 <= b, b <= e - 1
          PROVE  word'[b] = Data
      <4>1. b \in p + 1 .. e - 1 /\ b \in Words /\ b \notin p + 1 .. q - 1 /\ b # p /\ b # q
        BY <3>1, <3>4, <2>2, <1>1, <1>2, <1>3
      <4> QED BY <4>1, <1>4, <1>6
    <3>5. word'[a].size \in Int /\ a \in Int /\ e \in Int
      BY <2>2, <1>1, <1>3, <1>5
    <3> QED BY <3>1, <3>3, <3>4, <3>5
  <2>3. CASE a \in Heads /\ a # p
    <3> DEFINE m == a + word[a].size
    <3>1. word'[a] = word[a]
      BY <2>3, <1>8
    <3>2. /\ m \in Words /\ word[a].size \in Nat \ {0}
          /\ m # Last => m \in Heads
          /\ \A b \in Heads : b > a => b >= m
      BY <2>3, NextHead
    <3>3. ASSUME NEW b \in a + 1 .. m - 1
          PROVE  word[b] = Data
      BY <2>3, <3>2, <1>2 DEF Tiled
    <3> HIDE DEF m
    <3>4. m = a + word'[a].size /\ m \in Nat /\ m <= Last /\ a \in Nat
      BY <3>1, <3>2, <2>3, <1>2 DEF m
    <3>5. m \in Heads' \cup {Last}
      BY <3>2, <1>7
    <3>6. ASSUME NEW b \in Int, a + 1 <= b, b <= m - 1
          PROVE  word'[b] = Data
      <4>1. word[b] = Data /\ b \in Words /\ b # p
        BY <3>2, <3>3, <3>4, <3>6, <1>1, <1>2
      <4>2. q < e => b # q
        <5> SUFFICES ASSUME q < e, b = q PROVE FALSE
          OBVIOUS
        <5>1. a < q /\ q < m
          BY <3>4, <3>6
        <5>2. a > p => a >= e
          BY <1>1, <2>3
        <5>3. p > a => p >= m
          BY <3>2
        <5> QED BY <5>1, <5>2, <5>3, <2>3, <3>4, <1>1, <1>3
      <4>3. b = q => n = size
        BY <4>2, <1>1, <1>3, <1>q
      <4> QED BY <4>1, <4>3, <1>4
    <3>7. \A b \in a + 1 .. m - 1 : word'[b] = Data
      BY <3>6
    <3>8. a + word'[a].size \in Heads' \cup {Last}
      BY <3>4, <3>5
    <3>9. word'[a].size \in Int
      BY <3>1, <3>2
    <3> QED BY <3>4, <3>6, <3>8, <3>9
  <2> QED BY <2>1, <2>2, <2>3, <1>7
<1>14. Tiled'
  BY <1>11, <1>12, <1>13 DEF Tiled
<1>15. n < size => q \in Heads' \ Used'
  <2>1. n < size => q < e
    BY <1>1, <1>q
  <2>2. q # p
    BY <1>3
  <2> QED BY <2>1, <2>2, <1>7, <1>9, <1>10, <1>2
<1>16. \A a \in Used : word'[a] = word[a]
  BY <1>8, <1>2
<1> QED BY <1>5, <1>10, <1>14, <1>15, <1>16, <1>q

\* free marks one used chunk as unused and moves no header.
LEMMA ReleaseKeeps ==
    ASSUME Tiled, NEW p \in Used, word' = [word EXCEPT ![p].used = FALSE]
    PROVE  Tiled' /\ Heads' = Heads /\ Used' = Used \ {p} /\ (\A a \in Used : word'[a].size = word[a].size)
<1>1. /\ \A a \in Heads : a \in Nat /\ a < Last /\ a \in Words
      /\ Last \in Nat /\ Last \in Words /\ Used \subseteq Heads
  BY HeadsTyped DEF HeadTypes
<1>2. p \in Words /\ p \in Heads /\ p < Last /\ word \in [Words -> [size : Nat, used : BOOLEAN]]
  BY <1>1 DEF Tiled
<1>3. /\ word' \in [Words -> [size : Nat, used : BOOLEAN]]
      /\ \A a \in Words : word'[a].size = word[a].size
      /\ \A a \in Words : a # p => word'[a] = word[a]
      /\ word'[p].used = FALSE
  BY <1>2
<1>4. Heads' = Heads
  BY <1>3 DEF Heads
<1>5. Used' = Used \ {p}
  BY <1>3, <1>4, <1>1 DEF Used
<1>6. 0 \in Heads' /\ word'[Last] = Chunk(0, FALSE)
  <2>1. 0 \in Heads /\ word[Last] = Chunk(0, FALSE) /\ Last # p
    BY <1>1, <1>2 DEF Tiled
  <2> QED BY <2>1, <1>1, <1>3, <1>4
<1>7. \A a \in Heads' : a + word'[a].size \in Heads' \cup {Last}
  <2> SUFFICES ASSUME NEW a \in Heads PROVE a + word'[a].size \in Heads \cup {Last}
    BY <1>4, Zenon
  <2>1. word'[a].size = word[a].size
    BY <1>1, <1>3
  <2>2. a + word[a].size \in Heads \cup {Last}
    BY DEF Tiled
  <2> QED BY <2>1, <2>2, Zenon
<1>8. ASSUME NEW a \in Heads', NEW b \in Int, a + 1 <= b, b <= a + word'[a].size - 1
      PROVE  word'[b] = Data
  <2>1. /\ a \in Heads /\ word'[a].size = word[a].size
        /\ a \in Nat /\ a + word[a].size \in Words /\ word[a].size \in Nat
    BY <1>1, <1>3, <1>4, NextHead
  <2>2. word[b] = Data
    BY <1>8, <2>1 DEF Tiled
  <2>3. b # p
    BY <2>2, <1>2 DEF Heads, Data, Chunk
  <2>4. b \in Words
    <3> DEFINE d == a + word'[a].size
    <3>1. d \in 0 .. LENGTH - 1 /\ b <= d - 1
      BY <1>8, <2>1 DEF Words
    <3> HIDE DEF d
    <3> QED BY <1>8, <2>1, <3>1 DEF Words
  <2> QED BY <2>2, <2>3, <2>4, <1>3
<1>9. \A a \in Heads' : word'[a].size \in Int /\ a \in Int
  BY <1>1, <1>3, <1>4
<1>10. \A a \in Heads' : \A b \in a + 1 .. a + word'[a].size - 1 : word'[b] = Data
  BY <1>8, <1>9
<1> QED BY <1>1, <1>3, <1>4, <1>5, <1>6, <1>7, <1>10 DEF Tiled

\* compact keeps the used chunks and finds an unused one that is large enough.
LEMMA CompactKeeps ==
    ASSUME Tiled, NEW n \in Nat \ {0}, compact(n)
    PROVE  /\ Tiled' /\ Used' = Used
           /\ \A a \in Used : word'[a] = word[a]
           /\ free' = Fit(n, Runs(Heads))
           /\ free' # NULL => free' \in Heads' \ Used' /\ word'[free'].size >= n
<1> DEFINE runs == Runs(Heads)
           sel == {r \in runs : r[1] <= free'}
           fits == {r[1] : r \in {q \in runs : Size(q) >= n}}
<1>1. free' = Fit(n, runs) /\ word' = Merged(sel)
  BY HeadersAreHeads DEF compact
<1>2. sel \in SUBSET Runs(Heads)
  OBVIOUS
<1>3. /\ Tiled' /\ Used' = Used
      /\ \A a \in Used : word'[a] = word[a]
      /\ \A r \in sel : r[1] \in Heads' /\ word'[r[1]] = Chunk(r[2] - r[1], FALSE)
  <2> HIDE DEF sel
  <2> QED BY <1>1, <1>2, MergingKeeps
<1>4. \A r \in runs : r[1] \in Nat /\ r[2] \in Nat /\ r[1] \in Heads \ Used /\ r[1] < r[2]
  <2> TAKE r \in runs
  <2>1. IsRun(r)
    BY RunsAreRuns
  <2> QED BY <2>1, HeadsTyped DEF IsRun, HeadTypes
<1>5. ASSUME free' # NULL
      PROVE  free' \in Heads' \ Used' /\ word'[free'].size >= n
  <2>1. free' = IF fits = {} THEN NULL ELSE Min(fits)
    BY <1>1 DEF Fit
  <2>2. fits # {} /\ free' = Min(fits)
    BY <2>1, <1>5
  <2>3. fits \in SUBSET Nat
    BY <1>4
  <2>4. free' \in fits
    <3> HIDE DEF fits
    <3> QED BY <2>2, <2>3, MinIsLeast
  <2>5. PICK r \in runs : free' = r[1] /\ Size(r) >= n
    BY <2>4
  <2>6. r \in sel /\ r[1] \in Nat /\ r[2] \in Nat /\ r[1] \in Heads \ Used
    BY <2>5, <1>4
  <2>7. word'[r[1]] = Chunk(r[2] - r[1], FALSE) /\ r[1] \in Heads'
    <3> HIDE DEF sel
    <3> QED BY <2>6, <1>3
  <2>8. word'[r[1]].size = r[2] - r[1]
    BY <2>7 DEF Chunk
  <2>9. r[1] \notin Used'
    BY <2>6, <1>3
  <2> QED BY <2>5, <2>7, <2>8, <2>9 DEF Size
<1> QED BY <1>1, <1>3, <1>5
-----------------------------------------------------------------------------
(* The inductive invariant *)

\* Every used chunk is a block of one task, and malloc cuts from an unused one.
Owners ==
    /\ owned \in [Users -> SUBSET Words]
    /\ Used = UNION {owned[i] : i \in Users}
    /\ \A i, j \in Users : i # j => owned[i] \cap owned[j] = {}
    /\ free \in (Heads \ Used) \cup {NULL}

\* What is true of task i in the middle of a call: its chunk to split is still
\* the one that Find left in free, since no other task is inside the mutex.
Call == [do : {"nothing", "find", "split", "leave", "free"}, size : Nat,
         old : Words \cup {NULL}, p : Words \cup {NULL}, fsize : Nat]

Sound(i, call) ==
    /\ call \in Call
    /\ call.do \in {"find", "split"} => call.size >= 2
    /\ call.old # NULL => call.old \in owned[i]
    /\ call.do = "free" => call.old # NULL
    /\ call.do = "split" =>
          /\ pc[i] = "inside" /\ free # NULL
          /\ call.p = free /\ call.fsize = word[free].size /\ call.size <= call.fsize

Jobs == job = [i \in Users |-> job[i]] /\ \A i \in Users : Sound(i, job[i])

HeapInv == MutexInv /\ Tiled /\ Owners /\ Jobs

\* A request is a header and at least one word.
LEMMA RequestSizes ==
    ASSUME NEW i \in Users, NEW bytes \in Requests[i]
    PROVE  SizeOf(bytes) \in Nat /\ SizeOf(bytes) >= 2
<1>1. bytes \in Nat \ {0}
  <2>1. \A x : 1 .. x \subseteq Nat \ {0}
    OBVIOUS
  <2>2. bytes \in 1 .. 2 ^ 30
    BY HeapAssumption, Zenon
  <2> QED BY <2>1, <2>2, Zenon
<1> QED BY <1>1 DEF SizeOf

(* Steps that do not touch the heap *)

LEMMA UnchangedHeap ==
    ASSUME Tiled, UNCHANGED heap
    PROVE  Tiled' /\ Heads' = Heads /\ Used' = Used
BY DEF heap, Tiled, Heads, Used

LEMMA QuietOwners ==
    ASSUME Owners, UNCHANGED heap, UNCHANGED owned
    PROVE  Owners'
BY DEF Owners, heap, Heads, Used

\* A call that begins or goes on without touching the heap.
LEMMA QuietJobs ==
    ASSUME Jobs, UNCHANGED heap, UNCHANGED owned, NEW i \in Users, NEW call,
           job' = [job EXCEPT ![i] = call],
           call.do # "split", Sound(i, call),
           \A j \in Users : j # i => pc'[j] = pc[j]
    PROVE  Jobs'
<1>1. job' = [j \in Users |-> job'[j]] /\ job'[i] = call /\ \A j \in Users : j # i => job'[j] = job[j]
  BY DEF Jobs
<1>2. Sound(i, call)'
  BY DEF Sound, heap
<1>3. ASSUME NEW j \in Users, j # i PROVE Sound(j, job[j])'
  BY <1>3 DEF Jobs, Sound, heap
<1> QED BY <1>1, <1>2, <1>3 DEF Jobs

\* A step of the mutex by a task that is not inside, or a write to its memory.
LEMMA SameJobs ==
    ASSUME Jobs, UNCHANGED <<heap, job, owned>>,
           \A j \in Users : pc[j] = "inside" => pc'[j] = pc[j]
    PROVE  Jobs'
<1>1. ASSUME NEW j \in Users PROVE Sound(j, job[j])'
  BY DEF Jobs, Sound, heap
<1> QED BY <1>1 DEF Jobs

LEMMA NoJobSound == \A i \in Users : Sound(i, NoJob)
BY DEF Sound, NoJob, Call, NULL

LEMMA CallsKeeps ==
    ASSUME HeapInv, NEW i \in Users, Malloc(i) \/ Realloc(i) \/ Free(i)
    PROVE  Tiled' /\ Owners' /\ Jobs' 
<1>1. ASSUME NEW call, Calls(i, call), call.do # "split", Sound(i, call)
      PROVE  Tiled' /\ Owners' /\ Jobs'
  <2>1. UNCHANGED heap /\ UNCHANGED owned /\ job' = [job EXCEPT ![i] = call]
    BY <1>1 DEF Calls, Becomes
  <2>2. \A j \in Users : j # i => pc'[j] = pc[j]
    BY <1>1 DEF Calls, HF_EnterRegion, HeapInv, MutexInv, Levelled, MutexType
  <2> QED BY <1>1, <2>1, <2>2, UnchangedHeap, QuietOwners, QuietJobs DEF HeapInv
<1>2. ASSUME NEW a \in owned[i] PROVE a \in Words /\ a # NULL
  BY DEF HeapInv, Owners, Words, NULL
<1>3. CASE Malloc(i)
  <2>1. PICK bytes \in Requests[i] : Calls(i, [NoJob EXCEPT !.do = "find", !.size = SizeOf(bytes)])
    BY <1>3 DEF Malloc
  <2> DEFINE call == [NoJob EXCEPT !.do = "find", !.size = SizeOf(bytes)]
  <2>2. call.do = "find" /\ Sound(i, call)
    BY RequestSizes DEF Sound, NoJob, Call, NULL
  <2> HIDE DEF call
  <2> QED BY <2>1, <2>2, <1>1 DEF call
<1>4. CASE Realloc(i)
  <2>1. PICK a \in owned[i], bytes \in Requests[i] :
            Calls(i, [NoJob EXCEPT !.do = "find", !.size = SizeOf(bytes), !.old = a])
    BY <1>4 DEF Realloc
  <2> DEFINE call == [NoJob EXCEPT !.do = "find", !.size = SizeOf(bytes), !.old = a]
  <2>2. call.do = "find" /\ Sound(i, call)
    BY RequestSizes, <1>2 DEF Sound, NoJob, Call, NULL
  <2> HIDE DEF call
  <2> QED BY <2>1, <2>2, <1>1 DEF call
<1>5. CASE Free(i)
  <2>1. PICK a \in owned[i] : Calls(i, [NoJob EXCEPT !.do = "free", !.old = a])
    BY <1>5 DEF Free
  <2> DEFINE call == [NoJob EXCEPT !.do = "free", !.old = a]
  <2>2. call.do = "free" /\ Sound(i, call)
    BY <1>2 DEF Sound, NoJob, Call
  <2> HIDE DEF call
  <2> QED BY <2>1, <2>2, <1>1 DEF call
<1> QED BY <1>3, <1>4, <1>5

\* The mutex: while a task is inside, no other is in the middle of a malloc.
LEMMA OthersSound ==
    ASSUME HeapInv, NEW i \in Users, pc[i] = "inside", NEW j \in Users, j # i
    PROVE  job[j].do # "split" /\ Sound(j, job[j]) /\ job[j].old \notin owned[i]
<1>1. pc[j] # "inside"
  BY InvExcludes DEF HeapInv, Exclusion
<1>2. Sound(j, job[j])
  BY DEF HeapInv, Jobs
<1>3. job[j].old \notin owned[i]
  BY <1>2 DEF HeapInv, Owners, Sound, NULL, Words
<1> QED BY <1>1, <1>2, <1>3 DEF Sound

(* Steps inside the mutex *)

LEMMA FindKeeps ==
    ASSUME HeapInv, NEW i \in Users, Find(i)
    PROVE  Tiled' /\ Owners' /\ Jobs'
<1> DEFINE n == job[i].size
<1>1. /\ pc[i] = "inside" /\ job[i].do = "find" /\ Sound(i, job[i])
      /\ n \in Nat \ {0} /\ n >= 2 /\ pc' = pc /\ owned' = owned
      /\ job = [j \in Users |-> job[j]]
  <2>1. pc[i] = "inside" /\ job[i].do = "find" /\ Sound(i, job[i]) /\ job = [j \in Users |-> job[j]]
    BY DEF Find, At, HeapInv, Jobs
  <2>2. pc' = pc /\ owned' = owned
    BY DEF Find, malloc_mutex, vars
  <2>3. n \in Nat \ {0} /\ n >= 2
    BY <2>1 DEF Sound, Call
  <2> QED BY <2>1, <2>2, <2>3
<1> HIDE DEF n
<1>2. /\ Tiled' /\ Used' = Used
      /\ free' # NULL => free' \in Heads' \ Used' /\ word'[free'].size >= n
  <2>1. CASE Short(n)
    <3>1. compact(n)
      BY <2>1 DEF Find, n
    <3> QED BY <3>1, <1>1, CompactKeeps DEF HeapInv
  <2>2. CASE ~Short(n)
    <3>1. UNCHANGED heap
      BY <2>2 DEF Find, n
    <3>2. Tiled' /\ Heads' = Heads /\ Used' = Used /\ word' = word /\ free' = free
      BY <3>1, UnchangedHeap DEF HeapInv, heap
    <3>3. free # NULL /\ ~(n > word[free].size)
      BY <2>2 DEF Short
    <3>4. free \in Heads \ Used
      BY <3>3 DEF HeapInv, Owners
    <3>5. word[free].size \in Nat
      BY <3>4, NextHead DEF HeapInv
    <3> QED BY <3>2, <3>3, <3>4, <3>5, <1>1
  <2> QED BY <2>1, <2>2
<1>3. Owners'
  BY <1>1, <1>2 DEF HeapInv, Owners
<1>4. ASSUME NEW j \in Users, j # i
      PROVE  Sound(j, job[j])'
  <2>1. job[j].do # "split" /\ Sound(j, job[j]) /\ job'[j] = job[j]
    BY <1>1, <1>4, OthersSound DEF Find, Becomes
  <2> QED BY <2>1, <1>1 DEF Sound
<1>5. Sound(i, job[i])'
  <2>1. CASE free' = NULL
    <3>1. job'[i] = [NoJob EXCEPT !.do = "leave"]
      BY <2>1, <1>1 DEF Find, Becomes
    <3> QED BY <3>1 DEF Sound, NoJob, Call
  <2>2. CASE free' # NULL
    <3> DEFINE s == word'[free'].size
    <3>1. job'[i] = [job[i] EXCEPT !.do = "split", !.p = free', !.fsize = s]
      BY <2>2, <1>1 DEF Find, Becomes
    <3>2. s \in Nat /\ n <= s /\ free' \in Words
      <4>1. Tiled' /\ free' \in Heads' /\ word'[free'].size >= n
        BY <2>2, <1>2
      <4>2. free' \in Words
        BY <4>1 DEF Heads
      <4>3. s \in Nat
        BY <4>1, <4>2 DEF Tiled
      <4> QED BY <4>1, <4>2, <4>3, <1>1
    <3>3. job[i] \in Call /\ (job[i].old # NULL => job[i].old \in owned[i])
      BY <1>1 DEF Sound
    <3> HIDE DEF s
    <3>4. /\ job'[i] \in Call /\ job'[i].do = "split" /\ job'[i].size = n /\ job'[i].old = job[i].old
          /\ job'[i].p = free' /\ job'[i].fsize = s
      BY <3>1, <3>2, <3>3 DEF Call, n
    <3> QED BY <3>2, <3>3, <3>4, <2>2, <1>1 DEF Sound, s
  <2> QED BY <2>1, <2>2
<1>6. job' = [j \in Users |-> job'[j]]
  BY <1>1 DEF Find, Becomes
<1> QED BY <1>2, <1>3, <1>4, <1>5, <1>6 DEF Jobs

LEMMA InUnion == \A S, f : \A x : x \in UNION {f[j] : j \in S} <=> \E j \in S : x \in f[j]
OBVIOUS

LEMMA SplitKeeps ==
    ASSUME HeapInv, NEW i \in Users, Split(i)
    PROVE  Tiled' /\ Owners' /\ Jobs'
<1> DEFINE p == job[i].p
           n == job[i].size
           fsize == job[i].fsize
<1>1. /\ pc[i] = "inside" /\ job[i].do = "split" /\ Sound(i, job[i])
      /\ job = [j \in Users |-> job[j]]
      /\ n \in Nat \ {0} /\ fsize \in Nat \ {0} /\ n <= fsize
      /\ p = free /\ p \in Heads \ Used /\ fsize = word[p].size
  <2>1. /\ pc[i] = "inside" /\ job[i].do = "split" /\ Sound(i, job[i])
        /\ job = [j \in Users |-> job[j]]
    BY DEF Split, At, HeapInv, Jobs
  <2>2. p = free /\ free # NULL /\ fsize = word[free].size /\ n \in Nat /\ n >= 2 /\ fsize \in Nat /\ n <= fsize
    BY <2>1 DEF Sound, Call
  <2>3. p \in Heads \ Used
    BY <2>2 DEF HeapInv, Owners
  <2> QED BY <2>1, <2>2, <2>3
<1>2. /\ pc' = pc
      /\ owned' = [owned EXCEPT ![i] = @ \cup {p}]
      /\ job' = [job EXCEPT ![i] = [NoJob EXCEPT !.do = "leave", !.old = job[i].old]]
  BY DEF Split, Becomes, malloc_mutex, vars
<1>3. \/ fsize >= n + 1 /\ word' = Cut(p, n, fsize) /\ free' = p + n
      \/ fsize < n + 1 /\ word' = Cut(p, fsize, fsize) /\ free' = NULL
  BY DEF Split
<1> HIDE DEF n, fsize, p
<1>4. /\ Tiled' /\ Used' = Used \cup {p}
      /\ free' # NULL => free' \in Heads' \ Used'
  <2>1. CASE fsize >= n + 1 /\ word' = Cut(p, n, fsize) /\ free' = p + n
    <3>1. n < fsize
      BY <2>1, <1>1
    <3> QED BY <2>1, <3>1, <1>1, CutKeeps DEF HeapInv
  <2>2. CASE fsize < n + 1 /\ word' = Cut(p, fsize, fsize) /\ free' = NULL
    <3>1. fsize <= fsize
      BY <1>1
    <3> QED BY <2>2, <3>1, <1>1, CutKeeps DEF HeapInv
  <2> QED BY <2>1, <2>2, <1>3
<1>5. Owners'
  <2>1. /\ owned \in [Users -> SUBSET Words]
        /\ Used = UNION {owned[j] : j \in Users}
        /\ \A j, k2 \in Users : j # k2 => owned[j] \cap owned[k2] = {}
        /\ p \in Words /\ p \notin Used
    BY <1>1 DEF HeapInv, Owners, Heads
  <2>2. owned' \in [Users -> SUBSET Words]
    BY <2>1, <1>2
  <2>3. /\ owned'[i] = owned[i] \cup {p}
        /\ \A j \in Users : j # i => owned'[j] = owned[j]
    BY <2>1, <1>2
  <2>4. Used' = UNION {owned'[j] : j \in Users}
    <3>1. \A x : (\E j \in Users : x \in owned'[j]) <=> (\E j \in Users : x \in owned[j]) \/ x = p
      BY <2>3
    <3>2. \A x : x \in Used' <=> x \in Used \/ x = p
      BY <2>1, <1>4
    <3>3. \A x : x \in Used <=> \E j \in Users : x \in owned[j]
      BY <2>1
    <3>4. \A x : x \in Used' <=> \E j \in Users : x \in owned'[j]
      BY <3>1, <3>2, <3>3, Zenon
    <3> HIDE DEF Used
    <3> QED BY <3>4
  <2>5. \A j \in Users : p \notin owned[j]
    BY <2>1
  <2>6. \A j, k2 \in Users : j # k2 => owned'[j] \cap owned'[k2] = {}
    BY <2>1, <2>3, <2>5
  <2>7. free' \in (Heads' \ Used') \cup {NULL}
    BY <1>4
  <2> QED BY <2>2, <2>4, <2>6, <2>7 DEF Owners
<1>6. /\ owned'[i] = owned[i] \cup {p}
      /\ \A j \in Users : j # i => owned'[j] = owned[j]
  BY <1>2 DEF HeapInv, Owners
<1>7. ASSUME NEW j \in Users, j # i
      PROVE  Sound(j, job[j])'
  <2>1. job[j].do # "split" /\ Sound(j, job[j]) /\ job'[j] = job[j]
    BY <1>1, <1>2, <1>7, OthersSound
  <2> QED BY <2>1, <1>6, <1>7 DEF Sound
<1>8. Sound(i, job[i])'
  <2>1. job'[i] = [do |-> "leave", size |-> 0, old |-> job[i].old, p |-> NULL, fsize |-> 0]
    BY <1>1, <1>2 DEF NoJob
  <2>2. job[i].old \in Words \cup {NULL} /\ (job[i].old # NULL => job[i].old \in owned'[i])
    BY <1>1, <1>6 DEF Sound, Call
  <2> HIDE DEF NULL
  <2> QED BY <2>1, <2>2 DEF Sound, Call
<1>9. job' = [j \in Users |-> job'[j]]
  BY <1>1, <1>2
<1> QED BY <1>4, <1>5, <1>7, <1>8, <1>9 DEF Jobs

LEMMA ReleasingKeeps ==
    ASSUME HeapInv, NEW i \in Users, Release(i)
    PROVE  Tiled' /\ Owners' /\ Jobs'
<1> DEFINE p == job[i].old
<1>1. /\ pc[i] = "inside" /\ job[i].do = "free" /\ Sound(i, job[i])
      /\ job = [j \in Users |-> job[j]] /\ p \in owned[i]
  <2>1. /\ pc[i] = "inside" /\ job[i].do = "free" /\ Sound(i, job[i])
        /\ job = [j \in Users |-> job[j]]
    BY DEF Release, At, HeapInv, Jobs
  <2>2. p \in owned[i]
    BY <2>1 DEF Sound
  <2> QED BY <2>1, <2>2
<1>2. /\ pc' = pc /\ free' = free
      /\ word' = [word EXCEPT ![p].used = FALSE]
      /\ owned' = [owned EXCEPT ![i] = @ \ {p}]
      /\ job' = [job EXCEPT ![i] = [NoJob EXCEPT !.do = "leave"]]
  BY DEF Release, Becomes, malloc_mutex, vars
<1> HIDE DEF p
<1>3. /\ owned \in [Users -> SUBSET Words]
      /\ Used = UNION {owned[j] : j \in Users}
      /\ \A j, k2 \in Users : j # k2 => owned[j] \cap owned[k2] = {}
      /\ free \in (Heads \ Used) \cup {NULL}
  BY DEF HeapInv, Owners
<1>4. p \in Used
  BY <1>1, <1>3
<1>5. Tiled' /\ Heads' = Heads /\ Used' = Used \ {p}
  BY <1>2, <1>4, ReleaseKeeps DEF HeapInv
<1>6. /\ owned'[i] = owned[i] \ {p}
      /\ \A j \in Users : j # i => owned'[j] = owned[j]
      /\ owned' \in [Users -> SUBSET Words]
  BY <1>2, <1>3
<1>7. Owners'
  <2>1. \A j \in Users : j # i => p \notin owned[j]
    BY <1>1, <1>3
  <2>2. Used' = UNION {owned'[j] : j \in Users}
    <3>1. \A x : (\E j \in Users : x \in owned'[j]) <=> (\E j \in Users : x \in owned[j]) /\ x # p
      BY <1>6, <2>1
    <3>2. \A x : x \in Used' <=> x \in Used /\ x # p
      BY <1>3, <1>5
    <3>3. \A x : x \in Used <=> \E j \in Users : x \in owned[j]
      BY <1>3
    <3>4. \A x : x \in Used' <=> \E j \in Users : x \in owned'[j]
      BY <3>1, <3>2, <3>3, Zenon
    <3> HIDE DEF Used
    <3> QED BY <3>4
  <2>3. \A j, k2 \in Users : j # k2 => owned'[j] \cap owned'[k2] = {}
    BY <1>3, <1>6
  <2>4. free' \in (Heads' \ Used') \cup {NULL}
    BY <1>2, <1>3, <1>5
  <2> QED BY <1>6, <2>2, <2>3, <2>4 DEF Owners
<1>8. ASSUME NEW j \in Users, j # i
      PROVE  Sound(j, job[j])'
  <2>1. job[j].do # "split" /\ Sound(j, job[j]) /\ job'[j] = job[j]
    BY <1>1, <1>2, <1>8, OthersSound
  <2> QED BY <2>1, <1>6, <1>8 DEF Sound
<1>9. Sound(i, job[i])'
  <2>1. job'[i] = [NoJob EXCEPT !.do = "leave"]
    BY <1>1, <1>2
  <2> QED BY <2>1 DEF Sound, NoJob, Call
<1>10. job' = [j \in Users |-> job'[j]]
  BY <1>1, <1>2
<1> QED BY <1>5, <1>7, <1>8, <1>9, <1>10 DEF Jobs

LEMMA LeaveRegionKeeps ==
    ASSUME HeapInv, NEW i \in Users, Leave(i)
    PROVE  Tiled' /\ Owners' /\ Jobs'
<1>1. /\ pc[i] = "inside" /\ job[i].do = "leave" /\ Sound(i, job[i])
      /\ UNCHANGED heap /\ UNCHANGED owned
      /\ \A j \in Users : j # i => pc'[j] = pc[j]
  BY DEF Leave, At, HeapInv, Jobs, HF_LeaveRegion, MutexInv, Levelled, MutexType
<1>2. CASE job[i].old = NULL
  <2>1. job' = [job EXCEPT ![i] = NoJob]
    BY <1>2 DEF Leave, Becomes
  <2>2. NoJob.do # "split"
    BY DEF NoJob
  <2> QED BY <1>1, <2>1, <2>2, NoJobSound, UnchangedHeap, QuietOwners, QuietJobs DEF HeapInv
<1>3. CASE job[i].old # NULL
  <2> DEFINE call == [NoJob EXCEPT !.do = "free", !.old = job[i].old]
  <2>1. job' = [job EXCEPT ![i] = call]
    BY <1>3 DEF Leave, Becomes
  <2>2. call.do = "free" /\ Sound(i, call)
    <3>1. job[i].old \in owned[i] /\ job[i].old \in Words \cup {NULL}
      BY <1>1, <1>3 DEF Sound, Call
    <3> QED BY <3>1, <1>3 DEF Sound, NoJob, Call
  <2> HIDE DEF call
  <2> QED BY <1>1, <2>1, <2>2, UnchangedHeap, QuietOwners, QuietJobs DEF HeapInv
<1> QED BY <1>2, <1>3

LEMMA MutexStepKeeps ==
    ASSUME HeapInv, NEW i \in Users, Enter(i) \/ Climb(i), UNCHANGED <<heap, job, owned>>
    PROVE  Tiled' /\ Owners' /\ Jobs'
<1>1. \A j \in Users : pc[j] = "inside" => pc'[j] = pc[j]
  BY DEF Enter, Climb, HF_EnterRegion, SetLevel, SetWaiting, Scan, HeapInv, MutexInv, Levelled, MutexType
<1> QED BY <1>1, UnchangedHeap, QuietOwners, SameJobs DEF HeapInv

LEMMA HeapNextKeeps ==
    ASSUME HeapInv, [HeapNext]_all
    PROVE  HeapInv'
<1>1. MutexInv'
  BY HeapStepIsMutexStep, NextLevelled, NextThinned DEF MutexInv, HeapInv
<1>2. Tiled' /\ Owners' /\ Jobs'
  <2>1. CASE UNCHANGED all
    <3>1. UNCHANGED <<heap, job, owned>> /\ pc' = pc
      BY <2>1 DEF all, malloc_mutex, vars
    <3> QED BY <3>1, UnchangedHeap, QuietOwners, SameJobs DEF HeapInv
  <2>2. CASE Other
    <3>1. UNCHANGED <<heap, job, owned>> /\ pc' = pc
      BY <2>2 DEF Other, Clobber
    <3> QED BY <3>1, UnchangedHeap, QuietOwners, SameJobs DEF HeapInv
  <2>3. ASSUME NEW i \in Users, Malloc(i) \/ Realloc(i) \/ Free(i)
        PROVE  Tiled' /\ Owners' /\ Jobs'
    BY <2>3, CallsKeeps
  <2>4. ASSUME NEW i \in Users, Continue(i)
        PROVE  Tiled' /\ Owners' /\ Jobs'
    BY <2>4, FindKeeps, SplitKeeps, ReleasingKeeps, LeaveRegionKeeps, MutexStepKeeps DEF Continue
  <2> QED BY <2>1, <2>2, <2>3, <2>4 DEF HeapNext
<1> QED BY <1>1, <1>2 DEF HeapInv

LEMMA HeapInitInv == HeapInit => HeapInv
<1> SUFFICES ASSUME HeapInit PROVE HeapInv
  OBVIOUS
<1>1. MutexInv
  BY InitInv DEF HeapInit
<1>2. Last \in Nat /\ Last # 0 /\ Words = 0 .. Last /\ NULL \notin Words
  BY DEF Last, Words, NULL
<1>3. /\ word = [a \in Words |-> CASE a = 0 -> Chunk(Last, FALSE) [] a = Last -> Chunk(0, FALSE) [] OTHER -> Data]
      /\ free = 0 /\ owned = [i \in Users |-> {}] /\ job = [i \in Users |-> NoJob]
  BY DEF HeapInit
<1>4. /\ word[0] = [size |-> Last, used |-> FALSE] /\ word[Last] = [size |-> 0, used |-> FALSE]
      /\ \A a \in Words : a # 0 /\ a # Last => word[a] = [size |-> 0, used |-> TRUE]
  BY <1>2, <1>3 DEF Chunk, Data
<1>5. Heads = {0}
  BY <1>2, <1>4 DEF Heads
<1>6. Tiled
  <2>1. word \in [Words -> [size : Nat, used : BOOLEAN]]
    <3>1. \A a \in Words : word[a] \in [size : Nat, used : BOOLEAN]
      <4> SUFFICES ASSUME NEW a \in Words PROVE word[a] \in [size : Nat, used : BOOLEAN]
        OBVIOUS
      <4>1. CASE a = 0
        BY <4>1, <1>2, <1>4
      <4>2. CASE a = Last
        BY <4>2, <1>2, <1>4
      <4>3. CASE a # 0 /\ a # Last
        <5>1. word[a] = [size |-> 0, used |-> TRUE]
          BY <4>3, <1>4
        <5> QED BY <5>1
      <4> QED BY <4>1, <4>2, <4>3
    <3> QED BY <3>1, <1>3
  <2>2. 0 + word[0].size = Last
    BY <1>2, <1>4
  <2>3. \A b \in 0 + 1 .. Last - 1 : word[b] = Data
    BY <1>2, <1>4 DEF Data, Chunk
  <2>4. word[Last] = Chunk(0, FALSE)
    BY <1>4 DEF Chunk
  <2>5. word[0].size = Last
    BY <1>4
  <2>6. \A b \in 0 + 1 .. 0 + word[0].size - 1 : word[b] = Data
    BY <2>3, <2>5, <1>2
  <2>7. \A a \in Heads : a + word[a].size \in Heads \cup {Last}
    BY <1>5, <2>2
  <2>8. \A a \in Heads : \A b \in a + 1 .. a + word[a].size - 1 : word[b] = Data
    BY <1>5, <2>6
  <2> QED BY <1>5, <2>1, <2>4, <2>7, <2>8 DEF Tiled
<1>7. Used = {}
  BY <1>4, <1>5 DEF Used
<1>8. Owners
  BY <1>3, <1>5, <1>7 DEF Owners
<1>9. Jobs
  BY <1>3, NoJobSound DEF Jobs
<1> QED BY <1>1, <1>6, <1>8, <1>9 DEF HeapInv

\* The last header of all leads to the last word.
LEMMA InvTiles == HeapInv => ChunksTile
<1> SUFFICES ASSUME HeapInv PROVE ChunksTile
  OBVIOUS
<1>1. Headers = Heads /\ Tiled /\ Owners
  BY HeadersAreHeads DEF HeapInv
<1>2. {a \in Headers : word[a].used} = Used
  BY <1>1 DEF Used
<1>3. \E a \in Heads : a + word[a].size = Last
  <2> DEFINE Left == {Last - a : a \in Heads}
  <2>1. \A a \in Heads : a \in Nat /\ a < Last
    BY <1>1, NextHead
  <2>2. 0 \in Heads /\ Last \in Nat
    BY <1>1 DEF Tiled, Last
  <2>3. Left \in SUBSET Nat /\ Left # {}
    BY <2>1, <2>2
  <2>4. PICK a \in Heads : \A b \in Heads : Last - a <= Last - b
    <3> HIDE DEF Left
    <3>1. PICK d \in Left : \A m \in Left : d <= m
      BY <2>3, LeastNumber
    <3> QED BY <3>1 DEF Left
  <2>5. /\ word[a].size \in Nat \ {0}
        /\ a + word[a].size # Last => a + word[a].size \in Heads
    BY <1>1, NextHead
  <2> DEFINE e == a + word[a].size
  <2>6. e \in Int /\ e > a
    BY <2>1, <2>5
  <2> HIDE DEF e
  <2>7. e \notin Heads
    BY <2>1, <2>2, <2>4, <2>6
  <2> QED BY <2>5, <2>7 DEF e
<1>4. word[Last] = Chunk(0, FALSE)
  BY <1>1 DEF Tiled
<1> QED BY <1>1, <1>2, <1>3, <1>4 DEF ChunksTile, Owners

\* In every reachable state the headers lead from the first word to the last, the
\* used chunks are the blocks of the tasks, each of one task, and malloc cuts
\* from an unused one: for any heap of two words or more, any tasks and requests.
THEOREM ChunksAlwaysTile == HeapSpec => []ChunksTile
BY HeapInitInv, HeapNextKeeps, InvTiles, PTL DEF HeapSpec

-----------------------------------------------------------------------------
(* The heap implements the allocator *)

\* Where the allocator has room, malloc finds a run.
LEMMA RoomIsFound ==
    ASSUME Tiled, NEW n \in Nat \ {0}, Fit(n, Runs(Heads)) = NULL, NEW a \in 0 .. Last - n,
           \A b \in Used : \A x \in a .. a + n - 1 : x \notin b .. b + word[b].size - 1
    PROVE  FALSE
<1> DEFINE Ends == {b \in Heads : word[b].used} \cup {Last}
           End(c) == Min({b \in Ends : b > c})
           All == {<<c, End(c)>> : c \in Heads \ Ends}
<1>1. /\ \A b \in Heads : b \in Nat /\ b < Last /\ b \in Words
      /\ Last \in Nat /\ Used \subseteq Heads /\ 0 \in Heads
      /\ Ends = Used \cup {Last} /\ Ends \in SUBSET Nat
      /\ a \in Nat /\ a + n <= Last
  BY HeadsTyped DEF HeadTypes, Tiled, Used
<1>2. \E h \in Heads : h <= a /\ \A b \in Heads : b <= a => b <= h
  <2> DEFINE Dists == {a - b : b \in {c \in Heads : c <= a}}
  <2>1. Dists \in SUBSET Nat /\ Dists # {}
    BY <1>1
  <2> HIDE DEF Dists
  <2>2. PICK d \in Dists : \A m \in Dists : d <= m
    BY <2>1, LeastNumber
  <2>3. PICK h \in Heads : h <= a /\ d = a - h
    BY DEF Dists
  <2>4. ASSUME NEW b \in Heads, b <= a PROVE b <= h
    <3>1. a - b \in Dists
      BY <2>4 DEF Dists
    <3>2. a - h <= a - b
      BY <3>1, <2>2, <2>3
    <3> QED BY <3>2, <1>1
  <2> QED BY <2>3, <2>4
<1>3. PICK h \in Heads : h <= a /\ \A b \in Heads : b <= a => b <= h
  BY <1>2
<1>4. /\ h \in Nat /\ word[h].size \in Nat \ {0}
      /\ h + word[h].size # Last => h + word[h].size \in Heads
  BY NextHead
<1>5. h \notin Used
  <2> DEFINE e == h + word[h].size
  <2>1. e \in Int /\ e > h
    BY <1>4
  <2> HIDE DEF e
  <2>2. e > a
    BY <1>1, <1>3, <1>4, <2>1 DEF e
  <2>3. a \in h .. h + word[h].size - 1 /\ a \in a .. a + n - 1
    BY <2>2, <1>1, <1>3, <1>4 DEF e
  <2> QED BY <2>3
<1> HIDE DEF Ends
<1>6. \A c \in Heads : /\ End(c) \in Ends /\ End(c) > c
                       /\ \A b \in Ends : b > c => End(c) <= b
  <2> TAKE c \in Heads
  <2> DEFINE S == {b \in Ends : b > c}
  <2>1. S \in SUBSET Nat /\ Last \in S
    BY <1>1
  <2> HIDE DEF S
  <2>2. Min(S) \in S /\ \A m \in S : Min(S) <= m
    BY <2>1, MinIsLeast
  <2> QED BY <2>2 DEF S
<1> HIDE DEF End
<1>7. End(h) \in Nat /\ End(h) >= a + n
  <2>1. End(h) \in Nat /\ End(h) \in Used \cup {Last} /\ End(h) > h
    BY <1>1, <1>6
  <2>2. ASSUME End(h) \in Used, End(h) < a + n PROVE FALSE
    <3> DEFINE e == End(h)
    <3>1. e > a /\ e \in Heads
      BY <2>1, <2>2, <1>1, <1>3
    <3>2. word[e].size \in Nat \ {0}
      BY <3>1, NextHead
    <3>3. e \in a .. a + n - 1 /\ e \in e .. e + word[e].size - 1 /\ e \in Used
      BY <3>1, <3>2, <2>1, <2>2, <1>1
    <3> QED BY <3>3
  <2> QED BY <2>1, <2>2, <1>1
<1> DEFINE S == {c \in Heads \ Ends : End(c) = End(h)}
<1>8. h \in S /\ S \in SUBSET Nat
  <2>1. h # Last /\ h \notin Used
    BY <1>1, <1>3, <1>5
  <2>2. h \in Heads \ Ends
    BY <2>1, <1>1
  <2>3. S \subseteq Heads
    OBVIOUS
  <2>4. S \in SUBSET Nat
    BY <2>3, <1>1
  <2> QED BY <2>2, <2>4
<1>9. PICK m \in S : \A c \in S : m <= c
  <2> HIDE DEF S
  <2> QED BY <1>8, LeastNumber
<1>10. m \in Heads \ Ends /\ End(m) = End(h) /\ m <= h /\ m \in Nat
  BY <1>8, <1>9
<1> DEFINE r == <<m, End(h)>>
<1>11. r \in Runs(Heads)
  <2>1. Runs(Heads) = {q \in All : \A q2 \in All : q2[2] = q[2] => q[1] <= q2[1]}
    BY DEF Runs, Ends, End
  <2>2. r \in All /\ r[1] = m /\ r[2] = End(h)
    BY <1>10
  <2>3. \A q \in All : q[2] = End(h) => m <= q[1]
    <3> SUFFICES ASSUME NEW c \in Heads \ Ends, End(c) = End(h)
                 PROVE  m <= c
      OBVIOUS
    <3> QED BY <1>9
  <2> HIDE DEF All, r
  <2> QED BY <2>1, <2>2, <2>3
<1>12. Size(r) >= n
  BY <1>1, <1>3, <1>4, <1>7, <1>10 DEF Size
<1> DEFINE fits == {q[1] : q \in {q \in Runs(Heads) : Size(q) >= n}}
<1> HIDE DEF r
<1>13. r[1] \in fits
  BY <1>11, <1>12
<1>14. \A x \in fits : x \in Heads
  BY RunsAreRuns DEF IsRun
<1>15. Fit(n, Runs(Heads)) = IF fits = {} THEN NULL ELSE Min(fits)
  BY DEF Fit
<1> HIDE DEF fits
<1>16. fits # {} /\ fits \in SUBSET Nat
  BY <1>13, <1>14, <1>1
<1>17. Min(fits) \in Heads
  BY <1>14, <1>16, MinIsLeast
<1>18. NULL \notin Heads
  BY <1>1 DEF NULL, Last
<1> QED BY <1>15, <1>16, <1>17, <1>18

\* The words of a block.
Block(a) == a .. a + word[a].size - 1

\* What the allocator has given away is in a used chunk.
LEMMA TakenIsUsed ==
    ASSUME Owners
    PROVE  \A x : x \in Promise!Taken <=> \E a \in Used : x \in Block(a)
<1> SUFFICES ASSUME NEW x
             PROVE  x \in Promise!Taken <=> \E a \in Used : x \in Block(a)
  OBVIOUS
<1>1. x \in Promise!Taken <=> \E i \in Users : \E a \in owned[i] : x \in Block(a)
  BY DEF Promise!Taken, Blocks, Block
<1>2. \A a : a \in Used <=> \E i \in Users : a \in owned[i]
  BY DEF Owners
<1> QED BY <1>1, <1>2

\* Blocks stay where they are when their owners and headers do.
LEMMA SameBlocks ==
    ASSUME Owners, UNCHANGED owned, \A a \in Used : word'[a].size = word[a].size
    PROVE  Blocks' = Blocks
<1>1. \A i \in Users : \A a \in owned[i] : word'[a].size = word[a].size
  BY DEF Owners
<1>2. \A i \in Users : {a .. a + word'[a].size - 1 : a \in owned[i]} = {a .. a + word[a].size - 1 : a \in owned[i]}
  BY <1>1
<1> QED BY <1>2 DEF Blocks

\* The size that a call in progress asks for.
Asks(call) == IF call.do \in {"find", "split"} THEN call.size ELSE 0

LEMMA RequestOf == Request = [i \in Users |-> Asks(job[i])]
BY DEF Request, Asks

LEMMA RequestNext ==
    ASSUME job' = [j \in Users |-> job'[j]], NEW i \in Users, \A j \in Users : j # i => job'[j] = job[j]
    PROVE  /\ Request' = [Request EXCEPT ![i] = Asks(job'[i])]
           /\ Asks(job'[i]) = Asks(job[i]) => Request' = Request
<1>1. Request' = [j \in Users |-> Asks(job'[j])]
  BY DEF Request, Asks
<1> HIDE DEF Asks
<1> QED BY <1>1, RequestOf

LEMMA CallsAsk ==
    ASSUME HeapInv, NEW i \in Users, Malloc(i) \/ Realloc(i) \/ Free(i)
    PROVE  Promise!Ask(i)
<1>1. ASSUME NEW call, Calls(i, call)
      PROVE  Promise!Ask(i)
  <2>1. job[i] = NoJob /\ job' = [job EXCEPT ![i] = call] /\ UNCHANGED heap /\ UNCHANGED owned
    BY <1>1 DEF Calls, Becomes
  <2>2. job' = [j \in Users |-> job'[j]] /\ \A j \in Users : j # i => job'[j] = job[j]
    BY <2>1 DEF HeapInv, Jobs
  <2>3. Request' = [Request EXCEPT ![i] = Asks(job'[i])]
    BY <2>2, RequestNext
  <2>4. Request'[i] = Asks(job'[i])
    BY <2>3 DEF Request
  <2>5. Request[i] = 0
    BY <2>1 DEF Request, NoJob
  <2>6. Blocks' = Blocks
    BY <2>1 DEF heap, Blocks
  <2> QED BY <2>3, <2>4, <2>5, <2>6 DEF Promise!Ask
<1> QED BY <1>1 DEF Malloc, Realloc, Free

LEMMA FindRefuses ==
    ASSUME HeapInv, NEW i \in Users, Find(i)
    PROVE  UNCHANGED <<Blocks, Request>> \/ Promise!Refuse(i)
<1> DEFINE n == job[i].size
<1>1. /\ job[i].do = "find" /\ n \in Nat \ {0} /\ owned' = owned
      /\ job = [j \in Users |-> job[j]] /\ job[i] \in Call
  <2>1. /\ job[i].do = "find" /\ owned' = owned /\ Sound(i, job[i])
        /\ job = [j \in Users |-> job[j]] /\ job[i] \in Call
    BY DEF Find, At, HeapInv, Jobs, Sound
  <2>2. n \in Nat /\ n >= 2
    BY <2>1 DEF Sound, Call
  <2> QED BY <2>1, <2>2
<1>2. job' = [j \in Users |-> job'[j]] /\ \A j \in Users : j # i => job'[j] = job[j]
  BY <1>1 DEF Find, Becomes
<1> HIDE DEF n
<1>3. Blocks' = Blocks
  <2>1. CASE Short(n)
    <3>1. compact(n)
      BY <2>1 DEF Find, n
    <3> QED BY <3>1, <1>1, CompactKeeps, SameBlocks DEF HeapInv
  <2>2. CASE ~Short(n)
    BY <2>2, <1>1, SameBlocks DEF Find, n, heap, HeapInv
  <2> QED BY <2>1, <2>2
<1>4. CASE free' # NULL
  <2>1. job'[i] = [job[i] EXCEPT !.do = "split", !.p = free', !.fsize = word'[free'].size]
    BY <1>1, <1>4 DEF Find, Becomes
  <2>2. Asks(job'[i]) = Asks(job[i])
    BY <2>1, <1>1 DEF Asks, Call
  <2> QED BY <2>2, <1>2, <1>3, RequestNext
<1>5. CASE free' = NULL
  <2>1. job'[i] = [NoJob EXCEPT !.do = "leave"]
    BY <1>1, <1>5 DEF Find, Becomes
  <2>2. Asks(job'[i]) = 0 /\ Request[i] = n
    BY <2>1, <1>1 DEF Asks, NoJob, Request, n
  <2>3. Promise!Answered(i)
    BY <2>2, <1>1, <1>2, RequestNext DEF Promise!Answered
  <2>4. compact(n)
    <3>1. Short(n)
      BY <1>5 DEF Find, Short, heap, n
    <3> QED BY <3>1 DEF Find, n
  <2>5. Fit(n, Runs(Heads)) = NULL /\ Tiled /\ Owners
    BY <2>4, <1>1, <1>5, CompactKeeps DEF HeapInv
  <2>6. Promise!Gaps(n) = {}
    <3> SUFFICES ASSUME NEW a \in 0 .. (LENGTH - 1) - n, Promise!Interval(a, n) \cap Promise!Taken = {}
                 PROVE  FALSE
      BY DEF Promise!Gaps
    <3>1. a \in 0 .. Last - n
      BY DEF Last
    <3>2. \A b \in Used : \A x \in a .. a + n - 1 : x \notin b .. b + word[b].size - 1
      BY <2>5, TakenIsUsed DEF Promise!Interval, Block
    <3> QED BY <3>1, <3>2, <2>5, <1>1, RoomIsFound
  <2> QED BY <2>2, <2>3, <2>6, <1>3 DEF Promise!Refuse
<1> QED BY <1>4, <1>5

LEMMA SplitAllocates ==
    ASSUME HeapInv, NEW i \in Users, Split(i)
    PROVE  Promise!Allocate(i)
<1> DEFINE p == job[i].p
           n == job[i].size
           fsize == job[i].fsize
<1>1. /\ job[i].do = "split"
      /\ job = [j \in Users |-> job[j]]
      /\ n \in Nat \ {0} /\ fsize \in Nat \ {0} /\ n <= fsize
      /\ p \in Heads \ Used /\ fsize = word[p].size
  <2>1. /\ job[i].do = "split" /\ Sound(i, job[i])
        /\ job = [j \in Users |-> job[j]]
    BY DEF Split, At, HeapInv, Jobs
  <2>2. p = free /\ free # NULL /\ fsize = word[free].size /\ n \in Nat /\ n >= 2 /\ fsize \in Nat /\ n <= fsize
    BY <2>1 DEF Sound, Call
  <2>3. p \in Heads \ Used
    BY <2>2 DEF HeapInv, Owners
  <2> QED BY <2>1, <2>2, <2>3
<1>2. /\ owned' = [owned EXCEPT ![i] = @ \cup {p}]
      /\ job' = [job EXCEPT ![i] = [NoJob EXCEPT !.do = "leave", !.old = job[i].old]]
  BY DEF Split, Becomes
<1>3. \/ fsize >= n + 1 /\ word' = Cut(p, n, fsize)
      \/ fsize < n + 1 /\ word' = Cut(p, fsize, fsize)
  BY DEF Split
<1> HIDE DEF p, fsize
<1>4. Promise!Answered(i)
  <2>1. job' = [j \in Users |-> job'[j]] /\ \A j \in Users : j # i => job'[j] = job[j]
    BY <1>1, <1>2
  <2>2. job'[i].do = "leave"
    BY <1>1, <1>2 DEF NoJob
  <2>3. Asks(job'[i]) = 0 /\ Request[i] = n
    BY <2>2, <1>1 DEF Asks, Request
  <2> QED BY <2>1, <2>3, <1>1, RequestNext DEF Promise!Answered
<1> HIDE DEF n
<1>5. PICK m \in Nat \ {0} : word' = Cut(p, m, fsize) /\ n <= m /\ m <= fsize
  BY <1>1, <1>3
<1>6. /\ \A a \in Used : word'[a] = word[a]
      /\ word'[p].size = m
  BY <1>1, <1>5, CutKeeps DEF HeapInv
<1>7. /\ p \in Nat /\ p < Last /\ p + fsize \in Words
      /\ \A b \in Heads : b > p => b >= p + fsize
  BY <1>1, NextHead DEF HeapInv
<1>8. p + fsize <= Last /\ Last \in Nat
  BY <1>1, <1>7 DEF Words, Last
<1>9. p \in Promise!Gaps(m)
  <2>1. p \in 0 .. (LENGTH - 1) - m
    BY <1>1, <1>5, <1>7, <1>8 DEF Last
  <2>2. ASSUME NEW x \in p .. p + m - 1, NEW a \in Used, x \in Block(a)
        PROVE  FALSE
    <3>1. /\ a \in Heads /\ a \in Nat /\ word[a].size \in Nat \ {0}
          /\ \A b \in Heads : b > a => b >= a + word[a].size
      BY NextHead DEF HeapInv, Used
    <3>2. a # p
      BY <1>1
    <3>3. x \in Int /\ p <= x /\ x < p + fsize /\ a <= x /\ x < a + word[a].size
      BY <2>2, <3>1, <1>1, <1>5, <1>7 DEF Block
    <3>4. CASE a > p
      BY <3>4, <3>1, <3>3, <1>1, <1>7
    <3>5. CASE a < p
      BY <3>5, <3>1, <3>3, <1>1, <1>7
    <3> QED BY <3>1, <3>2, <3>4, <3>5, <1>7
  <2>3. Promise!Interval(p, m) \cap Promise!Taken = {}
    BY <2>2, TakenIsUsed DEF HeapInv, Promise!Interval
  <2> QED BY <2>1, <2>3 DEF Promise!Gaps
<1>10. Blocks' = [Blocks EXCEPT ![i] = @ \cup {Promise!Interval(p, m)}]
  <2> DEFINE B(j) == {a .. a + word[a].size - 1 : a \in owned[j]}
             C(j) == {a .. a + word'[a].size - 1 : a \in owned'[j]}
  <2>1. \A j \in Users : \A a \in owned[j] : word'[a] = word[a]
    BY <1>6 DEF HeapInv, Owners
  <2>2. /\ owned'[i] = owned[i] \cup {p}
        /\ \A j \in Users : j # i => owned'[j] = owned[j]
    BY <1>2 DEF HeapInv, Owners
  <2>3. C(i) = B(i) \cup {Promise!Interval(p, m)}
    BY <2>1, <2>2, <1>6 DEF Promise!Interval
  <2>4. \A j \in Users : j # i => C(j) = B(j)
    BY <2>1, <2>2
  <2>5. Blocks = [j \in Users |-> B(j)] /\ Blocks' = [j \in Users |-> C(j)]
    BY DEF Blocks
  <2> HIDE DEF B, C
  <2> QED BY <2>3, <2>4, <2>5
<1>11. m \in 1 .. LENGTH - 1 /\ m >= Request[i]
  <2>1. Request[i] = n
    BY <1>1 DEF Request, n
  <2> QED BY <2>1, <1>1, <1>5, <1>7, <1>8 DEF Last
<1> QED BY <1>4, <1>9, <1>10, <1>11 DEF Promise!Allocate

LEMMA ReleaseReleases ==
    ASSUME HeapInv, NEW i \in Users, Release(i)
    PROVE  Promise!Release(i)
<1> DEFINE p == job[i].old
<1>1. /\ job[i].do = "free" /\ job = [j \in Users |-> job[j]] /\ p \in owned[i]
      /\ word' = [word EXCEPT ![p].used = FALSE]
      /\ owned' = [owned EXCEPT ![i] = @ \ {p}]
      /\ job' = [job EXCEPT ![i] = [NoJob EXCEPT !.do = "leave"]]
  <2>1. job[i].do = "free" /\ job = [j \in Users |-> job[j]] /\ Sound(i, job[i])
    BY DEF Release, At, HeapInv, Jobs
  <2>2. p \in owned[i]
    BY <2>1 DEF Sound
  <2> QED BY <2>1, <2>2 DEF Release, Becomes
<1>2. Request' = Request
  <2>1. job' = [j \in Users |-> job'[j]] /\ \A j \in Users : j # i => job'[j] = job[j]
    BY <1>1
  <2>2. Asks(job[i]) = 0 /\ Asks(job'[i]) = 0
    BY <1>1 DEF Asks, NoJob
  <2> QED BY <2>1, <2>2, RequestNext
<1> HIDE DEF p
<1>3. p \in Used /\ \A j \in Users : \A a \in owned[j] : a \in Used
  BY <1>1 DEF HeapInv, Owners
<1>4. \A a \in Used : word'[a].size = word[a].size
  BY <1>1, <1>3, ReleaseKeeps DEF HeapInv
<1>5. \A a \in Used : a \in Int /\ word[a].size \in Nat \ {0}
  BY NextHead DEF HeapInv, Used
<1>6. \A a \in Used : a # p => Block(a) # Block(p)
  <2> SUFFICES ASSUME NEW a \in Used, Block(a) = Block(p)
               PROVE  a = p
    OBVIOUS
  <2>1. a \in Block(a) /\ p \in Block(p)
    BY <1>3, <1>5 DEF Block
  <2>2. a \in Block(p) /\ p \in Block(a)
    BY <2>1
  <2> QED BY <2>2, <1>3, <1>5 DEF Block
<1>7. Blocks' = [Blocks EXCEPT ![i] = @ \ {Block(p)}]
  <2> DEFINE B(j) == {Block(a) : a \in owned[j]}
             C(j) == {Block(a) : a \in owned'[j]}
  <2>1. /\ owned'[i] = owned[i] \ {p}
        /\ \A j \in Users : j # i => owned'[j] = owned[j]
        /\ \A j \in Users : \A a \in owned'[j] : a \in Used
    BY <1>1, <1>3 DEF HeapInv, Owners
  <2>2. \A j \in Users : {a .. a + word'[a].size - 1 : a \in owned'[j]} = C(j)
    BY <2>1, <1>4 DEF Block
  <2>3. Blocks' = [j \in Users |-> C(j)] /\ Blocks = [j \in Users |-> B(j)]
    BY <2>2 DEF Blocks, Block
  <2>4. C(i) = B(i) \ {Block(p)}
    BY <2>1, <1>1, <1>3, <1>6
  <2>5. \A j \in Users : j # i => C(j) = B(j)
    BY <2>1
  <2> HIDE DEF B, C
  <2> QED BY <2>3, <2>4, <2>5
<1>8. Block(p) \in Blocks[i]
  BY <1>1 DEF Blocks, Block
<1> QED BY <1>2, <1>7, <1>8 DEF Promise!Release

LEMMA LeaveStutters ==
    ASSUME HeapInv, NEW i \in Users, Leave(i)
    PROVE  UNCHANGED <<Blocks, Request>>
<1>1. /\ job[i].do = "leave" /\ job = [j \in Users |-> job[j]]
      /\ UNCHANGED heap /\ UNCHANGED owned
      /\ \E call : job' = [job EXCEPT ![i] = call] /\ call.do \in {"nothing", "free"}
  <2>1. /\ job[i].do = "leave" /\ job = [j \in Users |-> job[j]]
        /\ UNCHANGED heap /\ UNCHANGED owned
    BY DEF Leave, At, HeapInv, Jobs
  <2> DEFINE next == IF job[i].old = NULL THEN NoJob ELSE [NoJob EXCEPT !.do = "free", !.old = job[i].old]
  <2>2. job' = [job EXCEPT ![i] = next]
    BY DEF Leave, Becomes
  <2>3. next.do \in {"nothing", "free"}
    BY DEF NoJob
  <2> HIDE DEF next
  <2> QED BY <2>1, <2>2, <2>3
<1>2. job' = [j \in Users |-> job'[j]] /\ \A j \in Users : j # i => job'[j] = job[j]
  BY <1>1
<1>3. Asks(job'[i]) = 0 /\ Asks(job[i]) = 0
  BY <1>1 DEF Asks
<1> QED BY <1>1, <1>2, <1>3, RequestNext DEF Blocks, heap

LEMMA HeapStepAllocates ==
    ASSUME HeapInv, [HeapNext]_all
    PROVE  Promise!Next \/ UNCHANGED <<Blocks, Request>>
<1>1. ASSUME UNCHANGED <<heap, job, owned>>
      PROVE  UNCHANGED <<Blocks, Request>>
  BY <1>1 DEF heap, Blocks, Request
<1>2. CASE UNCHANGED all
  BY <1>1, <1>2 DEF all
<1>3. CASE Other
  BY <1>1, <1>3 DEF Other
<1>4. ASSUME NEW i \in Users, Malloc(i) \/ Realloc(i) \/ Free(i)
      PROVE  Promise!Next
  BY <1>4, CallsAsk DEF Promise!Next
<1>5. ASSUME NEW i \in Users, Continue(i)
      PROVE  Promise!Next \/ UNCHANGED <<Blocks, Request>>
  <2>1. CASE UNCHANGED <<heap, job, owned>>
    BY <2>1, <1>1
  <2> QED BY <2>1, <1>5, FindRefuses, SplitAllocates, ReleaseReleases, LeaveStutters DEF Continue, Promise!Next
<1> QED BY <1>2, <1>3, <1>4, <1>5 DEF HeapNext

LEMMA HeapInitAllocates == HeapInit => Promise!Init
BY DEF HeapInit, Promise!Init, Blocks, Request, NoJob

\* malloc, realloc and free keep the promises of Allocator, at the steps where
\* they answer: blocks that overlap no other, as large as was asked for, and a
\* refusal only where no gap is large enough.
THEOREM HeapImplementsAllocator == HeapSpec => ImplementsAllocator
<1>1. HeapInv /\ [HeapNext]_all => [Promise!Next]_Promise!vars
  BY HeapStepAllocates DEF Promise!vars
<1> QED BY HeapInitInv, HeapNextKeeps, HeapInitAllocates, <1>1, PTL DEF HeapSpec, ImplementsAllocator, Promise!Spec
=============================================================================
