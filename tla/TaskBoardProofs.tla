------------------------------ MODULE TaskBoardProofs ---------------------------
(***************************************************************************)
(* Theorems about ThreadPool, for every set of clients and workers, every  *)
(* number of tasks and every choice of inputs: a task is in one place, no  *)
(* promise is lost, and the pool implements TaskBoard.                     *)
(***************************************************************************)
EXTENDS ThreadPoolProofs

(* The queues as a function T, apart from the variable: which slots hold    *)
(* which task.                                                              *)

Queues == [QueueIndex -> Seq(Ids)]

Distinct(T) ==
    \A p, q \in QueueIndex :
       \A j \in DOMAIN T[p], k \in DOMAIN T[q] :
          T[p][j] = T[q][k] => p = q /\ j = k

At(T, i, p) == \E j \in DOMAIN T[p] : T[p][j] = i

Within(T, i) == \E p \in QueueIndex : At(T, i, p)

(* What a push_back to a queue changes. *)
LEMMA AppendSlot ==
    ASSUME NEW T \in Queues, NEW p \in QueueIndex, NEW i \in Ids, Distinct(T), ~Within(T, i)
    PROVE  LET U == [T EXCEPT ![p] = Append(@, i)]
           IN  /\ U \in Queues /\ Distinct(U)
               /\ \A n \in Ids, x \in QueueIndex :
                     At(U, n, x) <=> At(T, n, x) \/ (n = i /\ x = p)
<1> DEFINE U == [T EXCEPT ![p] = Append(@, i)]
<1>1. U \in Queues
  BY AppendProperties DEF Queues
<1>2. /\ \A x \in QueueIndex : DOMAIN T[x] = 1..Len(T[x]) /\ Len(T[x]) \in Nat
      /\ DOMAIN U[p] = 1..(Len(T[p]) + 1)
      /\ U[p][Len(T[p]) + 1] = i
      /\ \A j \in DOMAIN T[p] : U[p][j] = T[p][j]
      /\ \A x \in QueueIndex : x # p => U[x] = T[x]
  BY AppendProperties DEF Queues
<1> HIDE DEF U
<1>3. ASSUME NEW x \in QueueIndex, NEW j \in DOMAIN U[x]
      PROVE  \/ j \in DOMAIN T[x] /\ U[x][j] = T[x][j]
             \/ x = p /\ j = Len(T[p]) + 1 /\ U[x][j] = i
  BY <1>2
<1>4. Distinct(U)
  <2> SUFFICES ASSUME NEW x \in QueueIndex, NEW y \in QueueIndex, NEW j \in DOMAIN U[x], NEW k \in DOMAIN U[y],
                      U[x][j] = U[y][k]
               PROVE  x = y /\ j = k
    BY DEF Distinct
  <2>1. \A z \in QueueIndex : \A l \in DOMAIN T[z] : T[z][l] # i
    BY DEF Within, At
  <2>2. CASE /\ j \in DOMAIN T[x] /\ U[x][j] = T[x][j]
             /\ k \in DOMAIN T[y] /\ U[y][k] = T[y][k]
    <3>1. T[x][j] = T[y][k]
      BY <2>2
    <3>2. \A v, w \in QueueIndex : \A a \in DOMAIN T[v], b \in DOMAIN T[w] :
             T[v][a] = T[w][b] => v = w /\ a = b
      BY Zenon DEF Distinct
    <3> QED BY <2>2, <3>1, <3>2
  <2>3. CASE /\ x = p /\ j = Len(T[p]) + 1 /\ U[x][j] = i
             /\ y = p /\ k = Len(T[p]) + 1
    BY <2>3
  <2> QED BY <2>1, <2>2, <2>3, <1>3
<1>5. ASSUME NEW n \in Ids, NEW x \in QueueIndex
      PROVE  At(U, n, x) <=> At(T, n, x) \/ (n = i /\ x = p)
  <2>1. At(U, n, x) => At(T, n, x) \/ (n = i /\ x = p)
    BY <1>3 DEF At
  <2>2. At(T, n, x) => At(U, n, x)
    <3> SUFFICES ASSUME NEW j \in DOMAIN T[x], T[x][j] = n PROVE At(U, n, x)
      BY DEF At
    <3>1. j \in DOMAIN U[x] /\ U[x][j] = n
      BY <1>2
    <3> QED BY <3>1 DEF At
  <2>3. At(U, i, p)
    <3>1. Len(T[p]) + 1 \in DOMAIN U[p]
      BY <1>2
    <3> QED BY <3>1, <1>2 DEF At
  <2> QED BY <2>1, <2>2, <2>3
<1> QED
  BY <1>1, <1>4, <1>5 DEF U

(* What erasing one position of a queue changes. *)
LEMMA RemoveSlot ==
    ASSUME NEW T \in Queues, NEW q \in QueueIndex, NEW m \in DOMAIN T[q], Distinct(T)
    PROVE  LET U == [T EXCEPT ![q] = RemoveAt(@, m)]
           IN  /\ U \in Queues /\ Distinct(U)
               /\ \A n \in Ids, x \in QueueIndex :
                     At(U, n, x) <=> At(T, n, x) /\ n # T[q][m]
<1> DEFINE U == [T EXCEPT ![q] = RemoveAt(@, m)]
<1> DEFINE Old(x, j) == IF x = q /\ j >= m THEN j + 1 ELSE j
<1>0. \A x \in QueueIndex : T[x] \in Seq(Ids) /\ DOMAIN T[x] = 1..Len(T[x]) /\ Len(T[x]) \in Nat
  BY DEF Queues
<1>1. U \in Queues
  BY <1>0, RemoveAtKeepsSeq DEF Queues
<1>2. /\ U[q] = RemoveAt(T[q], m)
      /\ \A x \in QueueIndex : x # q => U[x] = T[x]
  BY DEF Queues
<1>3. /\ DOMAIN U[q] = 1..(Len(T[q]) - 1)
      /\ \A k \in DOMAIN U[q] : U[q][k] = IF k < m THEN T[q][k] ELSE T[q][k + 1]
  <2>1. /\ RemoveAt(T[q], m) \in Seq(Ids)
        /\ Len(RemoveAt(T[q], m)) = Len(T[q]) - 1
        /\ \A k \in 1..(Len(T[q]) - 1) :
              RemoveAt(T[q], m)[k] = IF k < m THEN T[q][k] ELSE T[q][k + 1]
    BY <1>0, RemoveAtFacts
  <2>2. DOMAIN RemoveAt(T[q], m) = 1..(Len(T[q]) - 1)
    BY <2>1, LenProperties
  <2> QED BY <2>1, <2>2, <1>2
<1> HIDE DEF U
<1>4. ASSUME NEW x \in QueueIndex, NEW j \in DOMAIN U[x]
      PROVE  /\ Old(x, j) \in DOMAIN T[x]
             /\ U[x][j] = T[x][Old(x, j)]
             /\ ~(x = q /\ Old(x, j) = m)
  <2>1. CASE x # q
    BY <2>1, <1>2
  <2>2. CASE x = q
    <3>1. /\ j \in 1..(Len(T[q]) - 1) /\ m \in 1..Len(T[q]) /\ Len(T[q]) \in Nat
          /\ U[q][j] = IF j < m THEN T[q][j] ELSE T[q][j + 1]
          /\ DOMAIN T[q] = 1..Len(T[q])
      BY <2>2, <1>0, <1>3
    <3>2. j \in 1..Len(T[q]) /\ j + 1 \in 1..Len(T[q])
      BY <3>1
    <3> QED BY <2>2, <3>1, <3>2
  <2> QED BY <2>1, <2>2
<1>5. Distinct(U)
  <2> SUFFICES ASSUME NEW x \in QueueIndex, NEW y \in QueueIndex, NEW j \in DOMAIN U[x], NEW k \in DOMAIN U[y],
                      U[x][j] = U[y][k]
               PROVE  x = y /\ j = k
    BY DEF Distinct
  <2>1. x = y /\ Old(x, j) = Old(y, k)
    BY <1>4 DEF Distinct
  <2>2. j \in Int /\ k \in Int /\ m \in Int
    BY <1>0, <1>2, <1>3
  <2> QED BY <2>1, <2>2
<1>6. ASSUME NEW n \in Ids, NEW x \in QueueIndex
      PROVE  At(U, n, x) <=> At(T, n, x) /\ n # T[q][m]
  <2>1. ASSUME NEW j \in DOMAIN U[x], U[x][j] = n
        PROVE  At(T, n, x) /\ n # T[q][m]
    BY <2>1, <1>4 DEF At, Distinct
  <2>2. ASSUME NEW j \in DOMAIN T[x], T[x][j] = n, n # T[q][m]
        PROVE  At(U, n, x)
    <3>1. CASE x # q
      BY <2>2, <3>1, <1>2 DEF At
    <3>2. CASE x = q /\ j < m
      <4>1. j \in DOMAIN U[q] /\ U[q][j] = n
        BY <2>2, <3>2, <1>0, <1>3
      <4> QED BY <3>2, <4>1 DEF At
    <3>3. CASE x = q /\ j > m
      <4>1. j - 1 \in DOMAIN U[q] /\ ~(j - 1 < m) /\ (j - 1) + 1 = j
        BY <3>3, <1>0, <1>3
      <4>2. U[q][j - 1] = n
        BY <4>1, <2>2, <3>3, <1>3
      <4> QED BY <3>3, <4>1, <4>2 DEF At
    <3>4. j \in Int /\ m \in Int /\ (x = q => j # m)
      BY <2>2, <1>0
    <3> QED BY <3>1, <3>2, <3>3, <3>4
  <2> QED BY <2>1, <2>2 DEF At
<1> QED
  BY <1>1, <1>5, <1>6 DEF U

(* Appending to a queue and erasing from it commute, so change_priority may *)
(* be read as erase, then push_back. *)
LEMMA RemoveAppend ==
    ASSUME NEW s \in Seq(Ids), NEW i \in Ids, NEW m \in DOMAIN s
    PROVE  RemoveAt(Append(s, i), m) = Append(RemoveAt(s, m), i)
<1>1. /\ Append(s, i) \in Seq(Ids) /\ Len(Append(s, i)) = Len(s) + 1 /\ Len(s) \in Nat
      /\ Append(s, i)[Len(s) + 1] = i
      /\ \A k \in 1..Len(s) : Append(s, i)[k] = s[k]
      /\ m \in 1..Len(s) /\ m \in 1..(Len(s) + 1)
  BY AppendProperties
<1> DEFINE longer == Append(s, i)
           a == RemoveAt(longer, m)
           b == RemoveAt(s, m)
<1>2. /\ a \in Seq(Ids) /\ Len(a) = Len(s)
      /\ \A k \in 1..Len(s) : a[k] = IF k < m THEN Append(s, i)[k] ELSE Append(s, i)[k + 1]
  <2>1. longer \in Seq(Ids) /\ m \in 1..Len(longer) /\ Len(longer) - 1 = Len(s)
    BY <1>1
  <2> HIDE DEF longer
  <2>2. /\ RemoveAt(longer, m) \in Seq(Ids)
        /\ Len(RemoveAt(longer, m)) = Len(longer) - 1
        /\ \A k \in 1..(Len(longer) - 1) :
              RemoveAt(longer, m)[k] = IF k < m THEN longer[k] ELSE longer[k + 1]
    BY <2>1, RemoveAtFacts
  <2> QED BY <2>1, <2>2 DEF longer
<1>3. /\ b \in Seq(Ids) /\ Len(b) = Len(s) - 1
      /\ \A k \in 1..(Len(s) - 1) : b[k] = IF k < m THEN s[k] ELSE s[k + 1]
  BY <1>1, RemoveAtFacts
<1> HIDE DEF a, b
<1>4. /\ Append(b, i) \in Seq(Ids) /\ Len(Append(b, i)) = Len(s)
      /\ Append(b, i)[Len(s)] = i
      /\ \A k \in 1..(Len(s) - 1) : Append(b, i)[k] = b[k]
  BY <1>1, <1>3, AppendProperties
<1>5. ASSUME NEW k \in 1..Len(s) PROVE a[k] = Append(b, i)[k]
  <2>1. CASE k = Len(s)
    BY <2>1, <1>1, <1>2, <1>4
  <2>2. CASE k # Len(s)
    BY <2>2, <1>1, <1>2, <1>3, <1>4
  <2> QED BY <2>1, <2>2
<1>6. a = Append(b, i)
  BY <1>2, <1>4, <1>5, SeqEqual
<1> QED BY <1>6 DEF a, b

(* get_task takes the first position: pop_front. *)
LEMMA TailIsRemove ==
    ASSUME NEW s \in Seq(Ids), s # << >>
    PROVE  1 \in DOMAIN s /\ s[1] = Head(s) /\ Tail(s) = RemoveAt(s, 1)
<1>1. /\ Len(s) \in Nat \ {0} /\ 1 \in 1..Len(s) /\ s[1] = Head(s)
      /\ Tail(s) \in Seq(Ids) /\ Len(Tail(s)) = Len(s) - 1
      /\ \A k \in 1..(Len(s) - 1) : Tail(s)[k] = s[k + 1]
  BY HeadTailProperties, EmptySeq
<1>2. /\ RemoveAt(s, 1) \in Seq(Ids) /\ Len(RemoveAt(s, 1)) = Len(s) - 1
      /\ \A k \in 1..(Len(s) - 1) : RemoveAt(s, 1)[k] = IF k < 1 THEN s[k] ELSE s[k + 1]
  BY <1>1, RemoveAtFacts
<1>3. \A k \in 1..(Len(s) - 1) : Tail(s)[k] = RemoveAt(s, 1)[k]
  BY <1>1, <1>2
<1>4. Tail(s) = RemoveAt(s, 1)
  BY <1>1, <1>2, <1>3, SeqEqual
<1> QED BY <1>1, <1>4

------------------------------------------------------------------------------
(* What the operations do to the queues, in these terms. *)

LEMMA ScheduleEffect ==
    ASSUME ExecutorTypeOK, Distinct(mTasks), NEW p \in QueueIndex, ScheduleInternal(p),
           mID \in Ids => ~Within(mTasks, mID)
    PROVE  /\ mID \in Ids
           /\ Distinct(mTasks')
           /\ \A n \in Ids, x \in QueueIndex :
                 At(mTasks', n, x) <=> At(mTasks, n, x) \/ (n = mID /\ x = p)
           /\ \A n \in Ids : Within(mTasks', n) <=> Within(mTasks, n) \/ n = mID
<1>1. mID \in Ids
  BY MaxTasksAssumption DEF ScheduleInternal, ExecutorTypeOK, Ids
<1>2. mTasks \in Queues
  BY DEF ExecutorTypeOK, Queues
<1>3. mTasks' = [mTasks EXCEPT ![p] = Append(@, mID)]
  BY DEF ScheduleInternal
<1>4. /\ Distinct(mTasks')
      /\ \A n \in Ids, x \in QueueIndex :
            At(mTasks', n, x) <=> At(mTasks, n, x) \/ (n = mID /\ x = p)
  BY <1>1, <1>2, <1>3, AppendSlot
<1> QED
  BY <1>1, <1>4 DEF Within

LEMMA CancelEffect ==
    ASSUME ExecutorTypeOK, Distinct(mTasks), NEW i \in Ids, Cancel(i)
    PROVE  /\ Within(mTasks, i)
           /\ Distinct(mTasks')
           /\ \A n \in Ids, x \in QueueIndex :
                 At(mTasks', n, x) <=> At(mTasks, n, x) /\ n # i
           /\ \A n \in Ids : Within(mTasks', n) <=> Within(mTasks, n) /\ n # i
<1>1. PICK q \in QueueIndex : \E j \in DOMAIN mTasks[q] :
          mTasks[q][j] = i /\ mTasks' = [mTasks EXCEPT ![q] = RemoveAt(@, j)]
  BY DEF Cancel
<1>2. PICK j \in DOMAIN mTasks[q] :
          mTasks[q][j] = i /\ mTasks' = [mTasks EXCEPT ![q] = RemoveAt(@, j)]
  BY <1>1
<1>3. mTasks \in Queues
  BY DEF ExecutorTypeOK, Queues
<1>4. Within(mTasks, i)
  BY <1>2 DEF Within, At
<1>5. /\ Distinct(mTasks')
      /\ \A n \in Ids, x \in QueueIndex :
            At(mTasks', n, x) <=> At(mTasks, n, x) /\ n # mTasks[q][j]
  BY <1>2, <1>3, RemoveSlot
<1> QED
  BY <1>2, <1>4, <1>5 DEF Within

(* Erase, then push_back: while it is moved the task is nowhere, not twice. *)
LEMMA ChangeEffect ==
    ASSUME ExecutorTypeOK, Distinct(mTasks), NEW i \in Ids, NEW p \in QueueIndex,
           ChangePriority(i, p)
    PROVE  /\ Within(mTasks, i)
           /\ Distinct(mTasks')
           /\ \A n \in Ids, x \in QueueIndex :
                 At(mTasks', n, x) <=> IF n = i THEN x = p ELSE At(mTasks, n, x)
           /\ \A n \in Ids : Within(mTasks', n) <=> Within(mTasks, n)
<1>1. PICK q \in QueueIndex : \E j \in DOMAIN mTasks[q] :
          /\ mTasks[q][j] = i
          /\ mTasks' = [[mTasks EXCEPT ![p] = Append(@, i)] EXCEPT ![q] = RemoveAt(@, j)]
  BY DEF ChangePriority
<1>2. PICK j \in DOMAIN mTasks[q] :
          /\ mTasks[q][j] = i
          /\ mTasks' = [[mTasks EXCEPT ![p] = Append(@, i)] EXCEPT ![q] = RemoveAt(@, j)]
  BY <1>1
<1>3. mTasks \in Queues /\ \A x \in QueueIndex : mTasks[x] \in Seq(Ids)
  BY DEF ExecutorTypeOK, Queues
<1> DEFINE erased == [mTasks EXCEPT ![q] = RemoveAt(@, j)]
<1>4. mTasks' = [erased EXCEPT ![p] = Append(@, i)]
  <2>1. CASE p # q
    BY <2>1, <1>2, <1>3 DEF Queues
  <2>2. CASE p = q
    <3>1. RemoveAt(Append(mTasks[q], i), j) = Append(RemoveAt(mTasks[q], j), i)
      BY <1>3, RemoveAppend
    <3>2. mTasks' = [mTasks EXCEPT ![q] = RemoveAt(Append(mTasks[q], i), j)]
      BY <2>2, <1>2, <1>3 DEF Queues
    <3>3. [erased EXCEPT ![p] = Append(@, i)] = [mTasks EXCEPT ![q] = Append(RemoveAt(mTasks[q], j), i)]
      BY <2>2, <1>3 DEF Queues
    <3> QED BY <3>1, <3>2, <3>3
  <2> QED BY <2>1, <2>2
<1>5. /\ erased \in Queues /\ Distinct(erased)
      /\ \A n \in Ids, x \in QueueIndex : At(erased, n, x) <=> At(mTasks, n, x) /\ n # i
  BY <1>2, <1>3, RemoveSlot
<1> HIDE DEF erased
<1>6. ~Within(erased, i)
  BY <1>5 DEF Within
<1>7. Within(mTasks, i)
  BY <1>2 DEF Within, At
<1>8. /\ Distinct(mTasks')
      /\ \A n \in Ids, x \in QueueIndex :
            At(mTasks', n, x) <=> At(erased, n, x) \/ (n = i /\ x = p)
  BY <1>4, <1>5, <1>6, AppendSlot
<1>9. \A n \in Ids, x \in QueueIndex :
         At(mTasks', n, x) <=> IF n = i THEN x = p ELSE At(mTasks, n, x)
  BY <1>5, <1>8
<1> QED
  BY <1>7, <1>8, <1>9 DEF Within

LEMMA TakeEffect ==
    ASSUME TypeInv, Distinct(mTasks), NEW w \in Workers, NEW p \in QueueIndex, TakeFrom(w, p)
    PROVE  /\ task'[w] \in Ids
           /\ At(mTasks, task'[w], p)
           /\ Within(mTasks, task'[w])
           /\ Distinct(mTasks')
           /\ \A n \in Ids, x \in QueueIndex :
                 At(mTasks', n, x) <=> At(mTasks, n, x) /\ n # task'[w]
           /\ \A n \in Ids : Within(mTasks', n) <=> Within(mTasks, n) /\ n # task'[w]
<1>1. mTasks \in Queues /\ mTasks[p] \in Seq(Ids) /\ mTasks[p] # << >>
  BY DEF TypeInv, TypeOK, ExecutorTypeOK, Queues, TakeFrom
<1>2. task'[w] = Head(mTasks[p]) /\ Head(mTasks[p]) \in Ids
  BY <1>1, HeadTailProperties DEF TypeInv, TypeOK, ThreadTypeOK, TakeFrom
<1>3. 1 \in DOMAIN mTasks[p] /\ mTasks[p][1] = Head(mTasks[p])
      /\ Tail(mTasks[p]) = RemoveAt(mTasks[p], 1)
  BY <1>1, TailIsRemove
<1>4. mTasks' = [mTasks EXCEPT ![p] = RemoveAt(@, 1)]
  BY <1>3 DEF TakeFrom
<1>5. At(mTasks, task'[w], p)
  BY <1>2, <1>3 DEF At
<1>6. /\ Distinct(mTasks')
      /\ \A n \in Ids, x \in QueueIndex :
            At(mTasks', n, x) <=> At(mTasks, n, x) /\ n # mTasks[p][1]
  BY <1>1, <1>3, <1>4, RemoveSlot
<1>7. \A n \in Ids, x \in QueueIndex :
         At(mTasks', n, x) <=> At(mTasks, n, x) /\ n # task'[w]
  BY <1>2, <1>3, <1>6
<1> QED
  BY <1>2, <1>5, <1>6, <1>7 DEF Within

------------------------------------------------------------------------------
(* The places of a task, and its future.                                    *)

Apart(i) ==
    /\ \A v, w \in Workers : task[v] = i /\ task[w] = i => v = w
    /\ (\E w \in Workers : task[w] = i) => ~Within(mTasks, i) /\ i \notin mCompletedTasks
    /\ Within(mTasks, i) => i \notin mCompletedTasks

Kept(i) ==
    future[i] = "pending" <=>
        Within(mTasks, i) \/ \E w \in Workers : pc[w] = "run" /\ task[w] = i

(* What makes the two inductive: an identity that schedule has not given    *)
(* out is nowhere.                                                          *)
Unused(i) ==
    i >= mID => /\ ~Within(mTasks, i)
                /\ \A w \in Workers : task[w] # i
                /\ i \notin mCompletedTasks
                /\ future[i] = "none"

PlaceInv ==
    /\ Distinct(mTasks)
    /\ \A i \in Ids : Apart(i) /\ Kept(i) /\ Unused(i)

LEMMA PlaceInvInit == Init => PlaceInv
<1> SUFFICES ASSUME Init PROVE PlaceInv
  OBVIOUS
<1>1. \A p \in QueueIndex : DOMAIN mTasks[p] = {}
  BY DEF Init, ExecutorInit
<1>2. Distinct(mTasks) /\ \A i \in Ids : ~Within(mTasks, i)
  BY <1>1 DEF Distinct, Within, At
<1>3. NoTask \notin Ids
  BY DEF NoTask, Ids
<1> QED
  BY <1>2, <1>3 DEF Init, ExecutorInit, PlaceInv, Apart, Kept, Unused

LEMMA PlaceInvNext == TypeInv /\ PlaceInv /\ [Next]_vars => PlaceInv'
<1> SUFFICES ASSUME TypeInv, PlaceInv, [Next]_vars PROVE PlaceInv'
  OBVIOUS
<1>0. /\ ExecutorTypeOK /\ Distinct(mTasks) /\ NoTask \notin Ids
      /\ \A n \in Ids : n \in Int
      /\ mID \in Int
  BY DEF TypeInv, TypeOK, ExecutorTypeOK, PlaceInv, NoTask, Ids
<1>1. ASSUME NEW t \in Threads, NEW p \in Priorities, Schedule(t, p)
      PROVE  PlaceInv'
  <2>1. p \in QueueIndex /\ ScheduleInternal(p)
    BY <1>1, InputAssumption DEF Schedule
  <2>2. mID \in Ids => ~Within(mTasks, mID)
    BY <1>0 DEF PlaceInv, Unused
  <2>3. /\ mID \in Ids
        /\ Distinct(mTasks')
        /\ \A n \in Ids : Within(mTasks', n) <=> Within(mTasks, n) \/ n = mID
    BY <1>0, <2>1, <2>2, ScheduleEffect
  <2>4. /\ UNCHANGED <<pc, task, mCompletedTasks>> /\ mID' = mID + 1
        /\ \A n \in Ids : future'[n] = IF n = mID THEN "pending" ELSE future[n]
    BY <1>1, <2>1 DEF Schedule, ScheduleInternal, TypeInv, TypeOK, ExecutorTypeOK
  <2>5. ASSUME NEW i \in Ids PROVE Apart(i)' /\ Kept(i)' /\ Unused(i)'
    <3>1. CASE i = mID
      BY <3>1, <1>0, <2>3, <2>4 DEF PlaceInv, Apart, Kept, Unused
    <3>2. CASE i # mID
      BY <3>2, <1>0, <2>3, <2>4 DEF PlaceInv, Apart, Kept, Unused
    <3> QED BY <3>1, <3>2
  <2> QED BY <2>3, <2>5 DEF PlaceInv
<1>2. ASSUME NEW t \in Threads, NEW i \in Ids, NEW p \in Priorities, Reprioritise(t, i, p)
      PROVE  PlaceInv'
  <2>1. p \in QueueIndex /\ ChangePriority(i, p)
    BY <1>2, InputAssumption DEF Reprioritise
  <2>2. /\ Distinct(mTasks')
        /\ \A n \in Ids : Within(mTasks', n) <=> Within(mTasks, n)
    BY <1>0, <2>1, ChangeEffect
  <2>3. UNCHANGED <<pc, task, mCompletedTasks, mID, future>>
    BY <1>2, <2>1 DEF Reprioritise, ChangePriority
  <2> QED BY <2>2, <2>3 DEF PlaceInv, Apart, Kept, Unused
<1>3. ASSUME NEW t \in Threads, NEW i \in Ids, CancelTask(t, i)
      PROVE  PlaceInv'
  <2>1. /\ Within(mTasks, i)
        /\ Distinct(mTasks')
        /\ \A n \in Ids : Within(mTasks', n) <=> Within(mTasks, n) /\ n # i
    BY <1>0, <1>3, CancelEffect DEF CancelTask
  <2>2. /\ UNCHANGED <<pc, task, mCompletedTasks, mID>>
        /\ \A n \in Ids : future'[n] = IF n = i THEN "broken" ELSE future[n]
    BY <1>3 DEF CancelTask, Cancel, TypeInv, TypeOK, ExecutorTypeOK
  <2>3. ASSUME NEW n \in Ids PROVE Apart(n)' /\ Kept(n)' /\ Unused(n)'
    BY <2>1, <2>2 DEF PlaceInv, Apart, Kept, Unused
  <2> QED BY <2>1, <2>3 DEF PlaceInv
<1>4. ASSUME NEW t \in Threads, Clear(t)
      PROVE  PlaceInv'
  <2>1. mCompletedTasks' = {} /\ UNCHANGED <<mTasks, pc, task, mID, future>>
    BY <1>4 DEF Clear, ClearCompletedTasks
  <2> QED BY <2>1 DEF PlaceInv, Apart, Kept, Unused
<1>5. ASSUME NEW w \in Workers, pc[w] = "take", NEW p \in QueueIndex, TakeFrom(w, p)
      PROVE  PlaceInv'
  <2>1. /\ task'[w] \in Ids
        /\ Within(mTasks, task'[w])
        /\ Distinct(mTasks')
        /\ \A n \in Ids : Within(mTasks', n) <=> Within(mTasks, n) /\ n # task'[w]
    BY <1>0, <1>5, TakeEffect
  <2>2. /\ UNCHANGED <<mCompletedTasks, mID, future>>
        /\ pc'[w] = "run"
        /\ \A v \in Workers : v # w => task'[v] = task[v] /\ pc'[v] = pc[v]
        /\ task[w] = NoTask
    BY <1>5 DEF TakeFrom, Goto, TypeInv, TypeOK, ThreadTypeOK, HasTask
  <2>3. ASSUME NEW n \in Ids PROVE Apart(n)' /\ Kept(n)' /\ Unused(n)'
    <3>1. CASE n = task'[w]
      BY <3>1, <1>0, <2>1, <2>2 DEF PlaceInv, Apart, Kept, Unused
    <3>2. CASE n # task'[w]
      BY <3>2, <1>0, <1>5, <2>1, <2>2 DEF PlaceInv, Apart, Kept, Unused
    <3> QED BY <3>1, <3>2
  <2> QED BY <2>1, <2>3 DEF PlaceInv
<1>6. ASSUME NEW w \in Workers, Run(w)
      PROVE  PlaceInv'
  <2>1. CASE UNCHANGED <<future, pc>>
    BY <1>6, <2>1 DEF Run, PlaceInv, Apart, Kept, Unused
  <2>2. CASE ~UNCHANGED <<future, pc>>
    <3>1. PICK outcome \in {"value", "exception"} :
              future' = [future EXCEPT ![task[w]] = outcome] /\ pc' = [pc EXCEPT ![w] = "store"]
      BY <1>6, <2>2, InputAssumption DEF Run, Goto
    <3>2. /\ UNCHANGED <<mTasks, mCompletedTasks, mID, task>>
          /\ pc[w] = "run" /\ task[w] \in Ids
          /\ pc'[w] = "store" /\ future'[task[w]] = outcome
          /\ \A v \in Workers : v # w => pc'[v] = pc[v]
          /\ \A n \in Ids : n # task[w] => future'[n] = future[n]
      BY <1>6, <3>1 DEF Run, TypeInv, TypeOK, ThreadTypeOK, ExecutorTypeOK, HasTask
    <3>3. ASSUME NEW n \in Ids PROVE Apart(n)' /\ Kept(n)' /\ Unused(n)'
      <4>1. CASE n = task[w]
        BY <4>1, <3>1, <3>2 DEF PlaceInv, Apart, Kept, Unused
      <4>2. CASE n # task[w]
        BY <4>2, <3>2 DEF PlaceInv, Apart, Kept, Unused
      <4> QED BY <4>1, <4>2
    <3> QED BY <3>2, <3>3 DEF PlaceInv
  <2> QED BY <2>1, <2>2
<1>7. ASSUME NEW w \in Workers, Store(w)
      PROVE  PlaceInv'
  <2>1. /\ UNCHANGED <<mTasks, mID, future>>
        /\ mCompletedTasks' = mCompletedTasks \cup {task[w]}
        /\ pc[w] = "store" /\ pc'[w] = "check"
        /\ task[w] \in Ids /\ task'[w] = NoTask
        /\ \A v \in Workers : v # w => pc'[v] = pc[v] /\ task'[v] = task[v]
    BY <1>7 DEF Store, Goto, TypeInv, TypeOK, ThreadTypeOK, HasTask
  <2>2. ASSUME NEW n \in Ids PROVE Apart(n)' /\ Kept(n)' /\ Unused(n)'
    <3>1. CASE n = task[w]
      BY <3>1, <1>0, <2>1 DEF PlaceInv, Apart, Kept, Unused
    <3>2. CASE n # task[w]
      BY <3>2, <1>0, <2>1 DEF PlaceInv, Apart, Kept, Unused
    <3> QED BY <3>1, <3>2
  <2> QED BY <2>1, <2>2 DEF PlaceInv
<1>8. ASSUME Join
      PROVE  PlaceInv'
  <2>1. \A p \in QueueIndex : DOMAIN mTasks'[p] = {}
    BY <1>8 DEF Join, DestroyExecutor
  <2>2. Distinct(mTasks') /\ \A n \in Ids : ~Within(mTasks', n)
    BY <2>1 DEF Distinct, Within, At
  <2>3. /\ mCompletedTasks' = {} /\ UNCHANGED <<pc, task, mID>>
        /\ \A v \in Workers : pc[v] = "exited"
        /\ \A n \in Ids : future'[n] = IF future[n] = "pending" THEN "broken" ELSE future[n]
    BY <1>8 DEF Join, DestroyExecutor
  <2>4. ASSUME NEW n \in Ids PROVE Apart(n)' /\ Kept(n)' /\ Unused(n)'
    BY <2>2, <2>3 DEF PlaceInv, Apart, Kept, Unused
  <2> QED BY <2>2, <2>4 DEF PlaceInv
<1>9. ASSUME UNCHANGED <<mTasks, mCompletedTasks, mID, future, task>>,
             \A w \in Workers : pc[w] = "run" <=> pc'[w] = "run"
      PROVE  PlaceInv'
  BY <1>9 DEF PlaceInv, Apart, Kept, Unused
<1>10. ASSUME NEW t \in Threads, FindBegin(t) \/ FindEnd(t)
       PROVE  PlaceInv'
  BY <1>9, <1>10 DEF FindBegin, FindEnd, executorVars
<1>11. ASSUME NEW t \in Threads, NotifyOne(t)
       PROVE  PlaceInv'
  BY <1>9, <1>11 DEF NotifyOne, Goto, executorVars, TypeInv, TypeOK, ThreadTypeOK
<1>12. ASSUME NEW w \in Workers,
             \/ CheckExit(w) \/ Block(w) \/ SpuriousWakeup(w) \/ RecheckExit(w)
             \/ ReadHighPriority(w)
             \/ pc[w] = "take" /\ (TakeNothing(w) \/ TakeBeyondTheArray(w))
       PROVE  PlaceInv'
  BY <1>9, <1>12 DEF CheckExit, Block, SpuriousWakeup, RecheckExit, ReadHighPriority, TakeNothing,
                     TakeBeyondTheArray, Goto, executorVars, TypeInv, TypeOK, ThreadTypeOK
<1>13. ASSUME SetExit \/ NotifyAll
       PROVE  PlaceInv'
  BY <1>9, <1>13 DEF SetExit, NotifyAll, executorVars, TypeInv, TypeOK, ThreadTypeOK
<1>14. CASE UNCHANGED vars
  BY <1>9, <1>14 DEF vars, executorVars, threadVars
<1> QED
  BY <1>1, <1>2, <1>3, <1>4, <1>5, <1>6, <1>7, <1>8, <1>10, <1>11, <1>12, <1>13, <1>14
     DEF Next, Call, Return, Work, Take, Destroy

LEMMA PlaceInvAlways == Spec => []PlaceInv
<1>1. Spec => [](TypeInv /\ PlaceInv)
  BY TypeInvInit, TypeInvNext, PlaceInvInit, PlaceInvNext, PTL DEF Spec
<1> QED BY <1>1, PTL

(* No task is ever in two places: two positions of the queues, a queue and  *)
(* a worker, two workers, or one of these and the completed list.  So no    *)
(* task is started twice.                                                   *)
THEOREM TaskIsInOnePlace == Spec => []OnePlace
<1>1. PlaceInv => OnePlace
  BY DEF PlaceInv, Apart, Distinct, Within, At, OnePlace, Holds, Queued, QueuedAt
<1> QED BY <1>1, PlaceInvAlways, PTL

(* No operation loses a task somebody waits for: a future is unresolved     *)
(* exactly while its task is in a queue or runs.                            *)
THEOREM PromisesAreKept == Spec => []PromiseKept
<1>1. PlaceInv => PromiseKept
  BY DEF PlaceInv, Kept, Within, At, PromiseKept, Holds, Queued, QueuedAt
<1> QED BY <1>1, PlaceInvAlways, PTL

------------------------------------------------------------------------------
(* The refinement mapping, apart from the variables: the life of task i and *)
(* the priority it waits with, for queues T, next identity m, local tasks   *)
(* tk of the workers and completed tasks done.                              *)

StatusOf(T, m, tk, done, i) ==
    IF i >= m THEN "unborn"
    ELSE IF Within(T, i) THEN "waiting"
    ELSE IF \E w \in Workers : tk[w] = i THEN "running"
    ELSE IF i \in done THEN "done"
    ELSE "gone"

PrioOf(T, i) ==
    IF Within(T, i) THEN CHOOSE p \in QueueIndex : At(T, i, p) ELSE PRIORITY_INVALID

LEMMA BoardIs ==
    /\ boardStatus = [i \in Ids |-> StatusOf(mTasks, mID, task, mCompletedTasks, i)]
    /\ boardPrio = [i \in Ids |-> PrioOf(mTasks, i)]
    /\ boardStatus' = [i \in Ids |-> StatusOf(mTasks', mID', task', mCompletedTasks', i)]
    /\ boardPrio' = [i \in Ids |-> PrioOf(mTasks', i)]
BY Zenon DEF boardStatus, boardPrio, StatusOf, PrioOf, Within, At, Queued, QueuedAt, Holds

(* A task waits in one queue only, so the CHOOSE has one choice. *)
LEMMA PrioIs ==
    ASSUME NEW T, Distinct(T), NEW i \in Ids, NEW p \in QueueIndex, At(T, i, p)
    PROVE  PrioOf(T, i) = p
<1>1. \A x \in QueueIndex : At(T, i, x) => x = p
  BY DEF Distinct, At
<1>2. Within(T, i)
  BY DEF Within
<1>3. (CHOOSE x \in QueueIndex : At(T, i, x)) \in QueueIndex
      /\ At(T, i, CHOOSE x \in QueueIndex : At(T, i, x))
  OBVIOUS
<1> QED BY <1>1, <1>2, <1>3 DEF PrioOf

LEMMA PrioSame ==
    ASSUME NEW T, NEW U, Distinct(T), Distinct(U), NEW i \in Ids,
           \A x \in QueueIndex : At(U, i, x) <=> At(T, i, x)
    PROVE  PrioOf(U, i) = PrioOf(T, i)
<1>1. CASE Within(T, i)
  <2>1. PICK x \in QueueIndex : At(T, i, x)
    BY <1>1 DEF Within
  <2> QED BY <2>1, PrioIs
<1>2. CASE ~Within(T, i)
  BY <1>2 DEF Within, PrioOf
<1> QED BY <1>1, <1>2

(* After the join no worker can call the executor or finish a task. *)
JoinedInv == phase = "done" => \A w \in Workers : pc[w] = "exited"

LEMMA JoinedInvInit == Init => JoinedInv
BY DEF Init, JoinedInv

LEMMA JoinedInvNext == TypeInv /\ JoinedInv /\ [Next]_vars => JoinedInv'
<1> SUFFICES ASSUME TypeInv, JoinedInv, [Next]_vars PROVE JoinedInv'
  OBVIOUS
<1> USE DEF JoinedInv, TypeInv, TypeOK, ThreadTypeOK
<1>1. ASSUME NEW t \in Threads, Call(t) PROVE JoinedInv'
  BY <1>1 DEF Call, Schedule, Reprioritise, CancelTask, Clear, FindBegin
<1>2. ASSUME NEW t \in Threads, Return(t) PROVE JoinedInv'
  BY <1>2 DEF Return, NotifyOne, FindEnd, Goto
<1>3. ASSUME NEW w \in Workers, Work(w) \/ SpuriousWakeup(w) PROVE JoinedInv'
  BY <1>3 DEF Work, SpuriousWakeup, CheckExit, Block, RecheckExit, ReadHighPriority, Take, TakeFrom,
              TakeNothing, TakeBeyondTheArray, Run, Store, Goto
<1>4. ASSUME SetExit \/ Destroy PROVE JoinedInv'
  BY <1>4 DEF SetExit, Destroy, NotifyAll, Join
<1>5. CASE UNCHANGED vars
  BY <1>5 DEF vars, threadVars
<1> QED BY <1>1, <1>2, <1>3, <1>4, <1>5 DEF Next

RefinementInv == TypeInv /\ PlaceInv /\ HintCoversUrgentTasks /\ JoinedInv

LEMMA BoardInitial == Init => Board!BoardInit
<1> SUFFICES ASSUME Init PROVE Board!BoardInit
  OBVIOUS
<1>1. \A p \in QueueIndex : DOMAIN mTasks[p] = {}
  BY DEF Init, ExecutorInit
<1>2. \A i \in Ids : ~Within(mTasks, i)
  BY <1>1 DEF Within, At
<1>3. \A i \in Ids : i >= mID
  BY DEF Init, ExecutorInit, Ids
<1> QED
  BY <1>2, <1>3, BoardIs DEF Init, ExecutorInit, StatusOf, PrioOf, Board!BoardInit

LEMMA SubmitStep ==
    ASSUME RefinementInv, RefinementInv', NEW t \in Threads, NEW p \in Priorities, Schedule(t, p)
    PROVE  Board!Submit(mID, p) /\ mID \in Ids /\ p \in QueueIndex
<1>1. /\ ExecutorTypeOK /\ Distinct(mTasks) /\ Distinct(mTasks') /\ mID \in Int
      /\ \A n \in Ids : n \in Int
  BY DEF RefinementInv, TypeInv, TypeOK, ExecutorTypeOK, PlaceInv, Ids
<1>2. p \in QueueIndex /\ ScheduleInternal(p)
  BY InputAssumption DEF Schedule
<1>3. mID \in Ids => ~Within(mTasks, mID)
  BY <1>1 DEF RefinementInv, PlaceInv, Unused
<1>4. /\ mID \in Ids
      /\ \A n \in Ids, x \in QueueIndex :
            At(mTasks', n, x) <=> At(mTasks, n, x) \/ (n = mID /\ x = p)
      /\ \A n \in Ids : Within(mTasks', n) <=> Within(mTasks, n) \/ n = mID
  BY <1>1, <1>2, <1>3, ScheduleEffect
<1>5. UNCHANGED <<task, mCompletedTasks, phase>> /\ mID' = mID + 1
      /\ future' = [future EXCEPT ![mID] = "pending"]
  BY <1>2 DEF Schedule, ScheduleInternal
<1>6. \A n \in Ids : boardStatus[n] = "unborn" <=> n >= mID
  BY BoardIs DEF StatusOf
<1>7. boardStatus' = [boardStatus EXCEPT ![mID] = "waiting"]
  <2>1. ASSUME NEW n \in Ids
        PROVE  StatusOf(mTasks', mID', task', mCompletedTasks', n) =
               IF n = mID THEN "waiting" ELSE StatusOf(mTasks, mID, task, mCompletedTasks, n)
    BY <1>1, <1>4, <1>5 DEF StatusOf
  <2> QED BY <2>1, <1>4, BoardIs
<1>8. boardPrio' = [boardPrio EXCEPT ![mID] = p]
  <2>1. ASSUME NEW n \in Ids
        PROVE  PrioOf(mTasks', n) = IF n = mID THEN p ELSE PrioOf(mTasks, n)
    <3>1. CASE n = mID
      BY <3>1, <1>1, <1>2, <1>4, PrioIs
    <3>2. CASE n # mID
      BY <3>2, <1>1, <1>4, PrioSame
    <3> QED BY <3>1, <3>2
  <2> QED BY <2>1, <1>4, BoardIs
<1> QED
  BY <1>1, <1>2, <1>4, <1>5, <1>6, <1>7, <1>8 DEF Board!Submit

LEMMA ReprioritiseStep ==
    ASSUME RefinementInv, RefinementInv', NEW t \in Threads, NEW i \in Ids, NEW p \in Priorities,
           Reprioritise(t, i, p)
    PROVE  Board!Reprioritise(i, p) /\ p \in QueueIndex
<1>1. /\ ExecutorTypeOK /\ Distinct(mTasks) /\ Distinct(mTasks') /\ mID \in Int
      /\ \A n \in Ids : n \in Int
  BY DEF RefinementInv, TypeInv, TypeOK, ExecutorTypeOK, PlaceInv, Ids
<1>2. p \in QueueIndex /\ ChangePriority(i, p)
  BY InputAssumption DEF Reprioritise
<1>3. /\ Within(mTasks, i)
      /\ \A n \in Ids, x \in QueueIndex :
            At(mTasks', n, x) <=> IF n = i THEN x = p ELSE At(mTasks, n, x)
      /\ \A n \in Ids : Within(mTasks', n) <=> Within(mTasks, n)
  BY <1>1, <1>2, ChangeEffect
<1>4. UNCHANGED <<task, mCompletedTasks, mID, future, phase>>
  BY <1>2 DEF Reprioritise, ChangePriority
<1>5. boardStatus[i] = "waiting"
  BY <1>1, <1>3, BoardIs DEF StatusOf, RefinementInv, PlaceInv, Unused
<1>6. boardStatus' = boardStatus
  BY <1>3, <1>4, BoardIs DEF StatusOf
<1>7. boardPrio' = [boardPrio EXCEPT ![i] = p]
  <2>1. ASSUME NEW n \in Ids
        PROVE  PrioOf(mTasks', n) = IF n = i THEN p ELSE PrioOf(mTasks, n)
    <3>1. CASE n = i
      BY <3>1, <1>1, <1>2, <1>3, PrioIs
    <3>2. CASE n # i
      BY <3>2, <1>1, <1>3, PrioSame
    <3> QED BY <3>1, <3>2
  <2> QED BY <2>1, BoardIs
<1> QED
  BY <1>2, <1>4, <1>5, <1>6, <1>7 DEF Board!Reprioritise

LEMMA WithdrawStep ==
    ASSUME RefinementInv, RefinementInv', NEW t \in Threads, NEW i \in Ids, CancelTask(t, i)
    PROVE  Board!Withdraw(i)
<1>1. /\ ExecutorTypeOK /\ Distinct(mTasks) /\ Distinct(mTasks') /\ mID \in Int
      /\ \A n \in Ids : n \in Int
  BY DEF RefinementInv, TypeInv, TypeOK, ExecutorTypeOK, PlaceInv, Ids
<1>2. /\ Within(mTasks, i)
      /\ \A n \in Ids, x \in QueueIndex : At(mTasks', n, x) <=> At(mTasks, n, x) /\ n # i
      /\ \A n \in Ids : Within(mTasks', n) <=> Within(mTasks, n) /\ n # i
  BY <1>1, CancelEffect DEF CancelTask
<1>3. UNCHANGED <<task, mCompletedTasks, mID, phase>> /\ future' = [future EXCEPT ![i] = "broken"]
  BY DEF CancelTask, Cancel
<1>4. /\ ~(i >= mID) /\ i \notin mCompletedTasks
      /\ \A w \in Workers : task[w] # i
  BY <1>1, <1>2 DEF RefinementInv, PlaceInv, Unused, Apart
<1>5. boardStatus[i] = "waiting"
  BY <1>2, <1>4, BoardIs DEF StatusOf
<1>6. boardStatus' = [boardStatus EXCEPT ![i] = "gone"]
  <2>1. ASSUME NEW n \in Ids
        PROVE  StatusOf(mTasks', mID', task', mCompletedTasks', n) =
               IF n = i THEN "gone" ELSE StatusOf(mTasks, mID, task, mCompletedTasks, n)
    BY <1>2, <1>3, <1>4 DEF StatusOf
  <2> QED BY <2>1, BoardIs
<1>7. boardPrio' = [boardPrio EXCEPT ![i] = PRIORITY_INVALID]
  <2>1. ASSUME NEW n \in Ids
        PROVE  PrioOf(mTasks', n) = IF n = i THEN PRIORITY_INVALID ELSE PrioOf(mTasks, n)
    <3>1. CASE n = i
      BY <3>1, <1>2 DEF PrioOf
    <3>2. CASE n # i
      BY <3>2, <1>1, <1>2, PrioSame
    <3> QED BY <3>1, <3>2
  <2> QED BY <2>1, BoardIs
<1> QED
  BY <1>3, <1>5, <1>6, <1>7 DEF Board!Withdraw

(* get_task takes the oldest task of the most urgent queue that has one:    *)
(* queues before the hint are empty, or it is the last queue that is taken  *)
(* from and all others are.                                                 *)
LEMMA TakesMostUrgent ==
    ASSUME RefinementInv, NEW w \in Workers, NEW p \in QueueIndex, TakeFrom(w, p),
           NEW q \in QueueIndex, mTasks[q] # << >>
    PROVE  p <= q
<1>1. ExecutorTypeOK /\ HintCoversUrgentTasks
  BY DEF RefinementInv, TypeInv, TypeOK
<1>2. CASE q = PRIORITY_LOW
  BY <1>2 DEF QueueIndex, PRIORITY_HIGH, PRIORITY_LOW
<1>3. CASE q # PRIORITY_LOW
  <2>1. q \in Urgent /\ mHighPriority <= q
    BY <1>1, <1>3 DEF HintCoversUrgentTasks, Urgent
  <2>2. q \in Looked(mHighPriority)
    BY <1>1, <2>1, LookedIsEnough
  <2>3. ~(q < p)
    BY <2>2 DEF TakeFrom
  <2> QED BY <2>3 DEF QueueIndex, PRIORITY_HIGH, PRIORITY_LOW
<1> QED BY <1>2, <1>3

LEMMA StartStep ==
    ASSUME RefinementInv, RefinementInv', NEW w \in Workers, pc[w] = "take",
           NEW p \in QueueIndex, TakeFrom(w, p)
    PROVE  Board!Start(task'[w]) /\ task'[w] \in Ids
<1> DEFINE i == task'[w]
<1>1. /\ TypeInv /\ Distinct(mTasks) /\ Distinct(mTasks') /\ mID \in Int
      /\ \A n \in Ids : n \in Int
  BY DEF RefinementInv, TypeInv, TypeOK, ExecutorTypeOK, PlaceInv, Ids
<1>2. /\ i \in Ids
      /\ At(mTasks, i, p)
      /\ Within(mTasks, i)
      /\ \A n \in Ids, x \in QueueIndex : At(mTasks', n, x) <=> At(mTasks, n, x) /\ n # i
      /\ \A n \in Ids : Within(mTasks', n) <=> Within(mTasks, n) /\ n # i
  BY <1>1, TakeEffect
<1>3. /\ UNCHANGED <<mCompletedTasks, mID, future, phase>>
      /\ \A v \in Workers : v # w => task'[v] = task[v]
      /\ task[w] \notin Ids
  BY DEF TakeFrom, RefinementInv, TypeInv, TypeOK, ThreadTypeOK, HasTask, NoTask, Ids
<1>4. ~(i >= mID) /\ \A v \in Workers : task[v] # i
  BY <1>1, <1>2 DEF RefinementInv, PlaceInv, Unused, Apart
<1> HIDE DEF i
<1>5. \A n \in Ids : boardStatus[n] = "waiting" <=> ~(n >= mID) /\ Within(mTasks, n)
  BY BoardIs DEF StatusOf
<1>6. ASSUME NEW n \in Ids, boardStatus[n] = "waiting" PROVE boardPrio[i] <= boardPrio[n]
  <2>1. PICK q \in QueueIndex : At(mTasks, n, q)
    BY <1>5, <1>6 DEF Within
  <2>2. mTasks[q] # << >>
    BY <2>1 DEF At
  <2>3. p <= q
    BY <2>2, TakesMostUrgent
  <2>4. boardPrio[i] = p /\ boardPrio[n] = q
    BY <1>1, <1>2, <2>1, BoardIs, PrioIs
  <2> QED BY <2>3, <2>4
<1>7. boardStatus' = [boardStatus EXCEPT ![i] = "running"]
  <2>1. StatusOf(mTasks', mID', task', mCompletedTasks', i) = "running"
    BY <1>2, <1>3, <1>4 DEF StatusOf, i
  <2>2. ASSUME NEW n \in Ids, n # i
        PROVE  StatusOf(mTasks', mID', task', mCompletedTasks', n) =
               StatusOf(mTasks, mID, task, mCompletedTasks, n)
    <3>1. (\E v \in Workers : task'[v] = n) <=> \E v \in Workers : task[v] = n
      BY <1>3, <2>2 DEF i
    <3> QED BY <3>1, <1>2, <1>3, <2>2 DEF StatusOf
  <2> QED BY <2>1, <2>2, <1>2, BoardIs
<1>8. boardPrio' = [boardPrio EXCEPT ![i] = PRIORITY_INVALID]
  <2>1. ASSUME NEW n \in Ids
        PROVE  PrioOf(mTasks', n) = IF n = i THEN PRIORITY_INVALID ELSE PrioOf(mTasks, n)
    <3>1. CASE n = i
      BY <3>1, <1>2 DEF PrioOf
    <3>2. CASE n # i
      BY <3>2, <1>1, <1>2, PrioSame
    <3> QED BY <3>1, <3>2
  <2> QED BY <2>1, BoardIs
<1>9. boardStatus[i] = "waiting"
  BY <1>2, <1>4, <1>5
<1> QED
  BY <1>2, <1>3, <1>6, <1>7, <1>8, <1>9 DEF Board!Start, i

LEMMA ResolveStep ==
    ASSUME RefinementInv, NEW w \in Workers, Run(w),
           NEW outcome \in {"value", "exception"},
           future' = [future EXCEPT ![task[w]] = outcome]
    PROVE  Board!Resolve(task[w], outcome) /\ task[w] \in Ids
<1>1. task[w] \in Ids /\ pc[w] = "run" /\ mID \in Int /\ \A n \in Ids : n \in Int
  BY DEF Run, RefinementInv, TypeInv, TypeOK, ThreadTypeOK, ExecutorTypeOK, HasTask, Ids
<1>2. /\ ~(task[w] >= mID) /\ ~Within(mTasks, task[w])
      /\ future[task[w]] = "pending"
  BY <1>1 DEF RefinementInv, PlaceInv, Unused, Apart, Kept
<1>3. UNCHANGED <<mTasks, mCompletedTasks, mID, task, phase>>
  BY DEF Run
<1>4. boardStatus[task[w]] = "running"
  BY <1>1, <1>2, BoardIs DEF StatusOf
<1>5. boardStatus' = boardStatus /\ boardPrio' = boardPrio
  BY <1>3, BoardIs
<1> QED
  BY <1>1, <1>2, <1>3, <1>4, <1>5 DEF Board!Resolve

LEMMA RetireStep ==
    ASSUME RefinementInv, NEW w \in Workers, Store(w)
    PROVE  Board!Retire(task[w]) /\ task[w] \in Ids
<1>1. /\ task[w] \in Ids /\ pc[w] = "store" /\ mID \in Int /\ \A n \in Ids : n \in Int
      /\ task'[w] = NoTask /\ NoTask \notin Ids
      /\ \A v \in Workers : v # w => task'[v] = task[v]
  BY DEF Store, RefinementInv, TypeInv, TypeOK, ThreadTypeOK, ExecutorTypeOK, HasTask, Ids, NoTask
<1>2. /\ ~(task[w] >= mID) /\ ~Within(mTasks, task[w])
      /\ \A v \in Workers : v # w => task[v] # task[w]
  BY <1>1 DEF RefinementInv, PlaceInv, Unused, Apart
<1>3. future[task[w]] # "pending"
  BY <1>1, <1>2 DEF RefinementInv, PlaceInv, Kept
<1>4. /\ UNCHANGED <<mTasks, mID, future, phase>>
      /\ mCompletedTasks' = mCompletedTasks \cup {task[w]}
  BY DEF Store
<1>5. boardStatus[task[w]] = "running"
  BY <1>1, <1>2, BoardIs DEF StatusOf
<1>6. boardStatus' = [boardStatus EXCEPT ![task[w]] = "done"]
  <2>1. StatusOf(mTasks', mID', task', mCompletedTasks', task[w]) = "done"
    BY <1>1, <1>2, <1>4 DEF StatusOf
  <2>2. ASSUME NEW n \in Ids, n # task[w]
        PROVE  StatusOf(mTasks', mID', task', mCompletedTasks', n) =
               StatusOf(mTasks, mID, task, mCompletedTasks, n)
    <3>1. (\E v \in Workers : task'[v] = n) <=> \E v \in Workers : task[v] = n
      BY <1>1, <2>2
    <3> QED BY <3>1, <1>4, <2>2 DEF StatusOf
  <2> QED BY <2>1, <2>2, <1>1, BoardIs
<1>7. boardPrio' = boardPrio
  BY <1>4, BoardIs
<1> QED
  BY <1>1, <1>3, <1>4, <1>5, <1>6, <1>7 DEF Board!Retire

LEMMA ForgetStep ==
    ASSUME RefinementInv, NEW t \in Threads, Clear(t)
    PROVE  Board!Forget
<1>1. mCompletedTasks' = {} /\ UNCHANGED <<mTasks, mID, task, future, phase>>
  BY DEF Clear, ClearCompletedTasks
<1>2. \A n \in Ids : boardStatus'[n] = IF boardStatus[n] = "done" THEN "gone" ELSE boardStatus[n]
  BY <1>1, BoardIs DEF StatusOf
<1>3. boardStatus' = [i \in Ids |-> IF boardStatus[i] = "done" THEN "gone" ELSE boardStatus[i]]
  BY <1>2, BoardIs
<1>4. boardPrio' = boardPrio
  BY <1>1, BoardIs
<1> QED
  BY <1>1, <1>3, <1>4 DEF Board!Forget

LEMMA CloseStep ==
    ASSUME RefinementInv, Join
    PROVE  Board!Close
<1>1. /\ mCompletedTasks' = {} /\ UNCHANGED <<mID, task>> /\ phase' = "done"
      /\ \A p \in QueueIndex : DOMAIN mTasks'[p] = {}
      /\ future' = [i \in Ids |-> IF future[i] = "pending" THEN "broken" ELSE future[i]]
  BY DEF Join, DestroyExecutor
<1>2. \A v \in Workers : task[v] \notin Ids
  BY DEF Join, RefinementInv, TypeInv, HasTask, NoTask, Ids
<1>3. \A i \in Ids : ~Within(mTasks', i)
  BY <1>1 DEF Within, At
<1>4. \A i \in Ids : boardStatus[i] # "running"
  BY <1>2, BoardIs DEF StatusOf
<1>5. \A i \in Ids : boardStatus'[i] = IF boardStatus[i] = "unborn" THEN "unborn" ELSE "gone"
  BY <1>1, <1>2, <1>3, BoardIs DEF StatusOf
<1>6. boardStatus' = [i \in Ids |-> IF boardStatus[i] = "unborn" THEN "unborn" ELSE "gone"]
  BY <1>5, BoardIs
<1>7. boardPrio' = [i \in Ids |-> PRIORITY_INVALID]
  BY <1>3, BoardIs DEF PrioOf
<1> QED
  BY <1>1, <1>4, <1>6, <1>7 DEF Board!Close

(* A step that touches neither the executor nor a worker's local task is    *)
(* none of the board's, as long as the pool is not destroyed by it.         *)
LEMMA BoardStutter ==
    ASSUME UNCHANGED <<mTasks, mCompletedTasks, mID, future, task>>,
           phase' = "done" <=> phase = "done"
    PROVE  UNCHANGED Board!boardVars
BY BoardIs DEF Board!boardVars

LEMMA BoardStep ==
    RefinementInv /\ RefinementInv' /\ [Next]_vars => [Board!BoardNext]_(Board!boardVars)
<1> SUFFICES ASSUME RefinementInv, RefinementInv', [Next]_vars
             PROVE  Board!BoardNext \/ UNCHANGED Board!boardVars
  OBVIOUS
<1>0. phase = "done" => \A w \in Workers : pc[w] = "exited"
  BY DEF RefinementInv, JoinedInv
<1>1. ASSUME NEW t \in Threads, CanCall(t) PROVE phase # "done"
  BY <1>0, <1>1 DEF CanCall
<1>2. ASSUME NEW t \in Threads, NEW p \in Priorities, Schedule(t, p) PROVE Board!BoardNext
  BY <1>1, <1>2, SubmitStep DEF Schedule, Board!BoardNext
<1>3. ASSUME NEW t \in Threads, NEW i \in Ids, NEW p \in Priorities, Reprioritise(t, i, p)
      PROVE  Board!BoardNext
  BY <1>1, <1>3, ReprioritiseStep DEF Reprioritise, Board!BoardNext
<1>4. ASSUME NEW t \in Threads, NEW i \in Ids, CancelTask(t, i) PROVE Board!BoardNext
  BY <1>1, <1>4, WithdrawStep DEF CancelTask, Board!BoardNext
<1>5. ASSUME NEW t \in Threads, Clear(t) PROVE Board!BoardNext
  BY <1>1, <1>5, ForgetStep DEF Clear, Board!BoardNext
<1>6. ASSUME NEW w \in Workers, pc[w] = "take", NEW p \in QueueIndex, TakeFrom(w, p)
      PROVE  Board!BoardNext
  BY <1>0, <1>6, StartStep DEF Board!BoardNext
<1>7. ASSUME NEW w \in Workers, Run(w) PROVE Board!BoardNext \/ UNCHANGED Board!boardVars
  <2>1. CASE UNCHANGED future
    BY <1>7, <2>1, BoardStutter DEF Run
  <2>2. CASE ~UNCHANGED future
    <3>1. PICK outcome \in {"value", "exception"} : future' = [future EXCEPT ![task[w]] = outcome]
      BY <1>7, <2>2, InputAssumption DEF Run
    <3>2. Board!Resolve(task[w], outcome) /\ task[w] \in Ids
      BY <1>7, <3>1, ResolveStep
    <3>3. phase # "done"
      BY <1>0, <1>7 DEF Run
    <3> QED BY <3>2, <3>3 DEF Board!BoardNext
  <2> QED BY <2>1, <2>2
<1>8. ASSUME NEW w \in Workers, Store(w) PROVE Board!BoardNext
  <2>1. phase # "done"
    BY <1>0, <1>8 DEF Store
  <2> QED BY <1>8, <2>1, RetireStep DEF Board!BoardNext
<1>9. ASSUME Join PROVE Board!BoardNext
  <2>1. phase # "done"
    BY <1>9 DEF Join
  <2> QED BY <1>9, <2>1, CloseStep DEF Board!BoardNext
<1>10. ASSUME NEW t \in Threads, FindBegin(t) \/ Return(t) PROVE UNCHANGED Board!boardVars
  BY <1>10, BoardStutter DEF FindBegin, Return, NotifyOne, FindEnd, executorVars
<1>11. ASSUME NEW w \in Workers,
             \/ CheckExit(w) \/ Block(w) \/ SpuriousWakeup(w) \/ RecheckExit(w)
             \/ ReadHighPriority(w) \/ TakeNothing(w) \/ TakeBeyondTheArray(w)
       PROVE UNCHANGED Board!boardVars
  BY <1>11, BoardStutter DEF CheckExit, Block, SpuriousWakeup, RecheckExit, ReadHighPriority,
                             TakeNothing, TakeBeyondTheArray, executorVars
<1>12. ASSUME SetExit \/ NotifyAll PROVE UNCHANGED Board!boardVars
  BY <1>12, BoardStutter DEF SetExit, NotifyAll, executorVars
<1>13. CASE UNCHANGED vars
  BY <1>13, BoardStutter DEF vars, executorVars, threadVars
<1> QED
  BY <1>2, <1>3, <1>4, <1>5, <1>6, <1>7, <1>8, <1>9, <1>10, <1>11, <1>12, <1>13
     DEF Next, Call, Work, Take, Destroy

(* The pool implements the board, for all numbers of threads and tasks:     *)
(* tasks start in order of priority and once, withdrawn tasks never start,  *)
(* every future is resolved once.                                           *)
THEOREM PoolImplementsBoard == Spec => ImplementsTaskBoard
<1>1. Init => RefinementInv
  BY TypeInvInit, PlaceInvInit, HintInit, JoinedInvInit DEF RefinementInv
<1>2. RefinementInv /\ [Next]_vars => RefinementInv'
  BY TypeInvNext, PlaceInvNext, HintNext, JoinedInvNext DEF RefinementInv
<1> QED
  BY <1>1, <1>2, BoardInitial, BoardStep, PTL DEF Spec, ImplementsTaskBoard, Board!TaskBoardSpec

==============================================================================
