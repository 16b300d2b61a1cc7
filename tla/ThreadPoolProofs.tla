--------------------------- MODULE ThreadPoolProofs --------------------------
(***************************************************************************)
(* Theorems about ThreadPool, for every set of clients and workers, every  *)
(* number of tasks and every choice of inputs.                             *)
(***************************************************************************)
EXTENDS ThreadPool, SequenceTheorems, FiniteSetTheorems, TLAPS

(* A worker has a task exactly while it runs or stores one. *)
HasTask == \A w \in Workers : pc[w] \in {"run", "store"} <=> task[w] # NoTask

LEMMA RemoveAtFacts ==
    ASSUME NEW S, NEW s \in Seq(S), NEW i \in 1..Len(s)
    PROVE  /\ RemoveAt(s, i) \in Seq(S)
           /\ Len(RemoveAt(s, i)) = Len(s) - 1
           /\ \A k \in 1..(Len(s) - 1) :
                 RemoveAt(s, i)[k] = IF k < i THEN s[k] ELSE s[k + 1]
<1> DEFINE a == SubSeq(s, 1, i - 1)
           b == SubSeq(s, i + 1, Len(s))
<1>1. a \in Seq(S) /\ Len(a) = i - 1 /\ \A k \in 1..(i - 1) : a[k] = s[k]
  OBVIOUS
<1>2. b \in Seq(S) /\ Len(b) = Len(s) - i /\ \A k \in 1..(Len(s) - i) : b[k] = s[i + k]
  OBVIOUS
<1>3. RemoveAt(s, i) = a \o b
  BY DEF RemoveAt
<1> HIDE DEF a, b
<1>4. /\ a \o b \in Seq(S)
      /\ Len(a \o b) = Len(a) + Len(b)
      /\ \A k \in 1..(Len(a) + Len(b)) :
            (a \o b)[k] = IF k <= Len(a) THEN a[k] ELSE b[k - Len(a)]
  BY <1>1, <1>2, ConcatProperties
<1>5. Len(s) \in Nat
  OBVIOUS
<1>6. ASSUME NEW k \in 1..(Len(s) - 1)
      PROVE  (a \o b)[k] = IF k < i THEN s[k] ELSE s[k + 1]
  <2>1. CASE k < i
    BY <2>1, <1>1, <1>2, <1>4, <1>5
  <2>2. CASE ~(k < i)
    <3>1. (a \o b)[k] = b[k - (i - 1)]
      BY <2>2, <1>1, <1>2, <1>4, <1>5
    <3>2. k - (i - 1) \in 1..(Len(s) - i) /\ i + (k - (i - 1)) = k + 1
      BY <2>2, <1>5
    <3> QED
      BY <2>2, <3>1, <3>2, <1>2
  <2> QED
    BY <2>1, <2>2
<1>7. Len(a) + Len(b) = Len(s) - 1
  BY <1>1, <1>2, <1>5
<1> QED
  BY <1>3, <1>4, <1>6, <1>7

LEMMA RemoveAtKeepsSeq ==
    ASSUME NEW S, NEW s \in Seq(S), NEW i \in DOMAIN s
    PROVE  RemoveAt(s, i) \in Seq(S)
BY RemoveAtFacts, LenProperties

------------------------------------------------------------------------------
(* Type correctness. *)

TypeInv == TypeOK /\ HasTask

LEMMA TypeInvInit == Init => TypeInv
<1> SUFFICES ASSUME Init
             PROVE  TypeInv
  OBVIOUS
<1>1. ExecutorTypeOK
  <2>1. << >> \in Seq(Ids)
    OBVIOUS
  <2>2. mID \in 0..MaxTasks
    BY MaxTasksAssumption DEF Init, ExecutorInit
  <2> QED
    BY <2>1, <2>2 DEF Init, ExecutorInit, ExecutorTypeOK, FutureState
<1>2. ThreadTypeOK
  BY DEF Init, ThreadTypeOK
<1>3. HasTask
  BY DEF Init, HasTask
<1> QED
  BY <1>1, <1>2, <1>3 DEF TypeInv, TypeOK

(* The operations of the executor keep the types of its variables. *)
LEMMA ExecutorTypes ==
    ASSUME ExecutorTypeOK
    PROVE  /\ \A p \in QueueIndex : ScheduleInternal(p) => ExecutorTypeOK'
           /\ \A i \in Ids, p \in QueueIndex : ChangePriority(i, p) => ExecutorTypeOK'
           /\ \A i \in Ids : Cancel(i) => ExecutorTypeOK'
           /\ ClearCompletedTasks => ExecutorTypeOK'
           /\ DestroyExecutor => ExecutorTypeOK'
<1> USE DEF ExecutorTypeOK
<1>1. ASSUME NEW p \in QueueIndex, ScheduleInternal(p)
      PROVE  ExecutorTypeOK'
  <2>1. mID \in Ids /\ mID + 1 \in 0..MaxTasks
    BY <1>1, MaxTasksAssumption DEF ScheduleInternal, Ids
  <2>2. Append(mTasks[p], mID) \in Seq(Ids)
    BY <2>1, AppendProperties
  <2> QED
    BY <1>1, <2>1, <2>2 DEF ScheduleInternal, Lower, FutureState
<1>2. ASSUME NEW i \in Ids, NEW p \in QueueIndex, ChangePriority(i, p)
      PROVE  ExecutorTypeOK'
  <2>1. PICK q \in QueueIndex : \E j \in DOMAIN mTasks[q] :
            mTasks' = [[mTasks EXCEPT ![p] = Append(@, i)] EXCEPT ![q] = RemoveAt(@, j)]
    BY <1>2 DEF ChangePriority
  <2>j. PICK j \in DOMAIN mTasks[q] :
            mTasks' = [[mTasks EXCEPT ![p] = Append(@, i)] EXCEPT ![q] = RemoveAt(@, j)]
    BY <2>1
  <2> DEFINE pushed == [mTasks EXCEPT ![p] = Append(@, i)]
  <2>2. pushed \in [QueueIndex -> Seq(Ids)]
    BY AppendProperties
  <2>3. j \in DOMAIN pushed[q]
    BY AppendProperties, LenProperties
  <2>4. RemoveAt(pushed[q], j) \in Seq(Ids)
    BY <2>2, <2>3, RemoveAtKeepsSeq
  <2> QED
    BY <1>2, <2>j, <2>2, <2>4 DEF ChangePriority, Lower
<1>3. ASSUME NEW i \in Ids, Cancel(i)
      PROVE  ExecutorTypeOK'
  <2>1. PICK q \in QueueIndex : \E j \in DOMAIN mTasks[q] :
            mTasks' = [mTasks EXCEPT ![q] = RemoveAt(@, j)]
    BY <1>3 DEF Cancel
  <2>j. PICK j \in DOMAIN mTasks[q] : mTasks' = [mTasks EXCEPT ![q] = RemoveAt(@, j)]
    BY <2>1
  <2>2. RemoveAt(mTasks[q], j) \in Seq(Ids)
    BY RemoveAtKeepsSeq
  <2> QED
    BY <1>3, <2>j, <2>2 DEF Cancel, FutureState
<1>4. ClearCompletedTasks => ExecutorTypeOK'
  BY DEF ClearCompletedTasks
<1>5. DestroyExecutor => ExecutorTypeOK'
  BY DEF DestroyExecutor, FutureState
<1> QED
  BY <1>1, <1>2, <1>3, <1>4, <1>5

LEMMA TypeInvNext == TypeInv /\ [Next]_vars => TypeInv'
<1> SUFFICES ASSUME TypeInv, [Next]_vars
             PROVE  TypeInv'
  OBVIOUS
<1> USE DEF TypeInv, TypeOK, ThreadTypeOK, HasTask
<1>1. NoTask \notin Ids
  BY DEF NoTask, Ids
<1>2. ASSUME NEW t \in Threads, NEW p \in Priorities, Schedule(t, p)
      PROVE  TypeInv'
  BY <1>2, ExecutorTypes, InputAssumption DEF Schedule, MayCrashIf
<1>3. ASSUME NEW t \in Threads, NEW i \in Ids, NEW p \in Priorities, Reprioritise(t, i, p)
      PROVE  TypeInv'
  BY <1>3, ExecutorTypes, InputAssumption DEF Reprioritise, MayCrashIf
<1>4. ASSUME NEW t \in Threads, NEW i \in Ids, CancelTask(t, i)
      PROVE  TypeInv'
  BY <1>4, ExecutorTypes DEF CancelTask, MayCrashIf
<1>5. ASSUME NEW t \in Threads, Clear(t)
      PROVE  TypeInv'
  BY <1>5, ExecutorTypes DEF Clear, MayCrashIf
<1>6. ASSUME NEW t \in Threads, FindBegin(t) \/ FindEnd(t)
      PROVE  TypeInv'
  BY <1>6 DEF FindBegin, FindEnd, executorVars, ExecutorTypeOK
<1>7. ASSUME NEW t \in Threads, NotifyOne(t)
      PROVE  TypeInv'
  BY <1>7 DEF NotifyOne, Goto, executorVars, ExecutorTypeOK
<1>8. ASSUME NEW w \in Workers,
             CheckExit(w) \/ Block(w) \/ SpuriousWakeup(w) \/ RecheckExit(w) \/ ReadHighPriority(w)
      PROVE  TypeInv'
  BY <1>8 DEF CheckExit, Block, SpuriousWakeup, RecheckExit, ReadHighPriority, Goto,
              executorVars, ExecutorTypeOK
<1>9. ASSUME NEW w \in Workers, pc[w] = "take", NEW p \in QueueIndex, TakeFrom(w, p)
      PROVE  TypeInv'
  <2>1. mTasks[p] # << >> /\ mTasks[p] \in Seq(Ids)
    BY <1>9 DEF TakeFrom, ExecutorTypeOK
  <2>2. Head(mTasks[p]) \in Ids /\ Tail(mTasks[p]) \in Seq(Ids)
    BY <2>1, HeadTailProperties
  <2>3. ExecutorTypeOK'
    BY <1>9, <2>2 DEF TakeFrom, ExecutorTypeOK
  <2>4. ThreadTypeOK' /\ HasTask'
    BY <1>1, <1>9, <2>2 DEF TakeFrom, Goto, MayCrashIf
  <2> QED
    BY <2>3, <2>4
<1>10. ASSUME NEW w \in Workers, pc[w] = "take", TakeNothing(w) \/ TakeBeyondTheArray(w)
       PROVE  TypeInv'
  BY <1>10 DEF TakeNothing, TakeBeyondTheArray, Goto, MayCrashIf, executorVars, ExecutorTypeOK
<1>11. ASSUME NEW w \in Workers, Run(w)
       PROVE  TypeInv'
  <2>1. ExecutorTypeOK'
    BY <1>11, InputAssumption DEF Run, ExecutorTypeOK, FutureState
  <2>2. ThreadTypeOK' /\ HasTask'
    BY <1>11 DEF Run, Goto
  <2> QED
    BY <2>1, <2>2
<1>12. ASSUME NEW w \in Workers, Store(w)
       PROVE  TypeInv'
  <2>1. task[w] \in Ids
    BY <1>12 DEF Store
  <2> QED
    BY <1>12, <2>1 DEF Store, Goto, MayCrashIf, ExecutorTypeOK
<1>13. ASSUME SetExit \/ NotifyAll
       PROVE  TypeInv'
  BY <1>13 DEF SetExit, NotifyAll, executorVars, ExecutorTypeOK
<1>14. ASSUME Join
       PROVE  TypeInv'
  BY <1>14, ExecutorTypes DEF Join
<1>15. CASE UNCHANGED vars
  BY <1>15 DEF vars, executorVars, threadVars, ExecutorTypeOK
<1> QED
  BY <1>2, <1>3, <1>4, <1>5, <1>6, <1>7, <1>8, <1>9, <1>10, <1>11, <1>12, <1>13, <1>14, <1>15
     DEF Next, Call, Return, Work, Take, Destroy

(* Every variable of the pool keeps its type, and a worker holds a task     *)
(* exactly between get_task and the push to mCompletedTasks.                *)
THEOREM TypeCorrect == Spec => []TypeOK
<1>1. Spec => []TypeInv
  BY TypeInvInit, TypeInvNext, PTL DEF Spec
<1>2. TypeInv => TypeOK
  BY DEF TypeInv
<1> QED
  BY <1>1, <1>2, PTL

------------------------------------------------------------------------------
(* The hint. *)

Urgent == QueueIndex \ {PRIORITY_LOW}

(* The operations of the executor keep the hint below every urgent queue    *)
(* they leave non-empty: only the queue they append to can become so.       *)
LEMMA ExecutorHint ==
    ASSUME ExecutorTypeOK, HintCoversUrgentTasks
    PROVE  /\ \A p \in QueueIndex : ScheduleInternal(p) => HintCoversUrgentTasks'
           /\ \A i \in Ids, p \in QueueIndex : ChangePriority(i, p) => HintCoversUrgentTasks'
           /\ \A i \in Ids : Cancel(i) => HintCoversUrgentTasks'
<1> USE DEF ExecutorTypeOK, HintCoversUrgentTasks
<1>1. ASSUME NEW p \in QueueIndex,
             mHighPriority' = Lower(p, mHighPriority),
             \A x \in QueueIndex : mTasks'[x] # << >> => x = p \/ mTasks[x] # << >>
      PROVE  HintCoversUrgentTasks'
  <2>1. /\ mHighPriority' <= p
        /\ mHighPriority' <= mHighPriority
    BY <1>1 DEF Lower, QueueIndex, PRIORITY_HIGH, PRIORITY_LOW, PRIORITY_INVALID
  <2>2. /\ mHighPriority' \in Int
        /\ mHighPriority \in Int
    BY <1>1 DEF Lower, QueueIndex, PRIORITY_HIGH, PRIORITY_LOW, PRIORITY_INVALID
  <2>3. ASSUME NEW x \in Urgent, mTasks'[x] # << >>
        PROVE  mHighPriority' <= x
    BY <1>1, <2>1, <2>2, <2>3 DEF Urgent, QueueIndex, PRIORITY_HIGH, PRIORITY_LOW
  <2> QED
    BY <2>3 DEF Urgent
<1>2. ASSUME NEW p \in QueueIndex, ScheduleInternal(p)
      PROVE  HintCoversUrgentTasks'
  <2>1. mHighPriority' = Lower(p, mHighPriority)
    BY <1>2 DEF ScheduleInternal, Lower, QueueIndex, PRIORITY_HIGH, PRIORITY_LOW, PRIORITY_INVALID
  <2>2. \A x \in QueueIndex : mTasks'[x] # << >> => x = p \/ mTasks[x] # << >>
    BY <1>2 DEF ScheduleInternal
  <2> QED
    BY <1>1, <2>1, <2>2
<1>3. \A s \in Seq(Ids) : \A j \in DOMAIN s : s # << >>
  BY LenProperties, EmptySeq
<1>4. ASSUME NEW i \in Ids, NEW p \in QueueIndex, ChangePriority(i, p)
      PROVE  HintCoversUrgentTasks'
  <2>1. PICK q \in QueueIndex : \E j \in DOMAIN mTasks[q] :
            mTasks' = [[mTasks EXCEPT ![p] = Append(@, i)] EXCEPT ![q] = RemoveAt(@, j)]
    BY <1>4 DEF ChangePriority
  <2>2. mTasks[q] # << >>
    BY <1>3, <2>1
  <2>3. \A x \in QueueIndex : mTasks'[x] # << >> => x = p \/ mTasks[x] # << >>
    BY <2>1, <2>2
  <2>4. mHighPriority' = Lower(p, mHighPriority)
    BY <1>4 DEF ChangePriority
  <2> QED
    BY <1>1, <2>3, <2>4
<1>5. ASSUME NEW i \in Ids, Cancel(i)
      PROVE  HintCoversUrgentTasks'
  <2>1. PICK q \in QueueIndex : \E j \in DOMAIN mTasks[q] :
            mTasks' = [mTasks EXCEPT ![q] = RemoveAt(@, j)]
    BY <1>5 DEF Cancel
  <2>2. mTasks[q] # << >>
    BY <1>3, <2>1
  <2> QED
    BY <1>5, <2>1, <2>2 DEF Cancel
<1> QED
  BY <1>2, <1>4, <1>5

(* The do-while looks at every urgent queue from the hint on. *)
LEMMA LookedIsEnough ==
    ASSUME ExecutorTypeOK, NEW x \in Urgent, mHighPriority <= x
    PROVE  x \in Looked(mHighPriority)
BY DEF Looked, Urgent, ExecutorTypeOK, QueueIndex, PRIORITY_HIGH, PRIORITY_LOW, PRIORITY_INVALID

(* get_task gives up only when it has seen every urgent queue empty. *)
LEMMA NothingUrgentToTake ==
    ASSUME ExecutorTypeOK, HintCoversUrgentTasks, NEW w, TakeNothing(w)
    PROVE  \A x \in Urgent : mTasks[x] = << >>
<1> SUFFICES ASSUME NEW x \in Urgent, mTasks[x] # << >>
             PROVE  FALSE
  OBVIOUS
<1>1. mHighPriority <= x
  BY DEF HintCoversUrgentTasks, Urgent
<1> QED
  BY <1>1, LookedIsEnough DEF TakeNothing

LEMMA HintInit == Init => HintCoversUrgentTasks
BY DEF Init, ExecutorInit, HintCoversUrgentTasks

LEMMA HintNext ==
    TypeInv /\ HintCoversUrgentTasks /\ [Next]_vars => HintCoversUrgentTasks'
<1> SUFFICES ASSUME TypeInv, HintCoversUrgentTasks, [Next]_vars
             PROVE  HintCoversUrgentTasks'
  OBVIOUS
<1>1. ExecutorTypeOK
  BY DEF TypeInv, TypeOK
<1>2. ASSUME NEW t \in Threads, Call(t)
      PROVE  HintCoversUrgentTasks'
  <2>1. ASSUME NEW p \in Priorities, Schedule(t, p)
        PROVE  HintCoversUrgentTasks'
    BY <1>1, <2>1, ExecutorHint, InputAssumption DEF Schedule
  <2>2. ASSUME NEW i \in Ids, NEW p \in Priorities, Reprioritise(t, i, p)
        PROVE  HintCoversUrgentTasks'
    BY <1>1, <2>2, ExecutorHint, InputAssumption DEF Reprioritise
  <2>3. ASSUME NEW i \in Ids, CancelTask(t, i)
        PROVE  HintCoversUrgentTasks'
    BY <1>1, <2>3, ExecutorHint DEF CancelTask
  <2>4. CASE Clear(t)
    BY <2>4 DEF Clear, ClearCompletedTasks, HintCoversUrgentTasks
  <2>5. CASE FindBegin(t)
    BY <2>5 DEF FindBegin, executorVars, HintCoversUrgentTasks
  <2> QED
    BY <1>2, <2>1, <2>2, <2>3, <2>4, <2>5 DEF Call
<1>3. ASSUME NEW w \in Workers, NEW p \in QueueIndex, TakeFrom(w, p)
      PROVE  HintCoversUrgentTasks'
  <2>1. SUFFICES ASSUME NEW x \in Urgent, mTasks'[x] # << >>
                 PROVE  p <= x
    BY <1>3 DEF HintCoversUrgentTasks, Urgent, TakeFrom
  <2>2. mTasks[x] # << >>
    <3>1. CASE x = p
      BY <1>3, <3>1 DEF TakeFrom
    <3>2. CASE x # p
      BY <1>1, <1>3, <2>1, <3>2 DEF TakeFrom, ExecutorTypeOK, Urgent
    <3> QED
      BY <3>1, <3>2
  <2>3. mHighPriority <= x
    BY <2>1, <2>2 DEF HintCoversUrgentTasks, Urgent
  <2>4. x \in Looked(mHighPriority) /\ p \in Int /\ x \in Int
    BY <1>1, <2>1, <2>3, LookedIsEnough DEF Urgent, QueueIndex, PRIORITY_HIGH, PRIORITY_LOW
  <2> QED
    BY <1>3, <2>2, <2>4 DEF TakeFrom
<1>4. ASSUME NEW w \in Workers, TakeNothing(w)
      PROVE  HintCoversUrgentTasks'
  BY <1>1, <1>4, NothingUrgentToTake DEF TakeNothing, HintCoversUrgentTasks, Urgent
<1>5. CASE Join
  BY <1>5 DEF Join, DestroyExecutor, HintCoversUrgentTasks
<1>6. CASE UNCHANGED <<mTasks, mHighPriority>>
  BY <1>6 DEF HintCoversUrgentTasks
<1> QED
  BY <1>2, <1>3, <1>4, <1>5, <1>6
     DEF Next, Return, Work, Take, Destroy, NotifyOne, FindEnd, CheckExit, Block, SpuriousWakeup,
         RecheckExit, ReadHighPriority, TakeBeyondTheArray, Run, Store, SetExit, NotifyAll,
         vars, executorVars, threadVars

(* mHighPriority never points beyond a queue, other than the LOW one, that  *)
(* holds a task, whatever the callers and workers do.                       *)
THEOREM HintIsSafe == Spec => []HintCoversUrgentTasks
<1>1. Spec => [](TypeInv /\ HintCoversUrgentTasks)
  BY TypeInvInit, TypeInvNext, HintInit, HintNext, PTL DEF Spec
<1> QED
  BY <1>1, PTL

(* No worker goes back to wait for a notification while an urgent queue     *)
(* holds a task, although it reads the hint without the lock.               *)
THEOREM NoUrgentTaskIsOverlooked == Spec => SleepsOnlyWhenDrained
<1> DEFINE Drained == \A p \in Urgent : mTasks[p] = << >>
           GoesToSleep(w) == pc[w] \in {"check", "take"} /\ pc'[w] = "top" /\ ~crashed'
           A == \A w \in Workers : GoesToSleep(w) => Drained
<1>1. TypeInv /\ HintCoversUrgentTasks /\ [Next]_vars => [A]_vars
  <2> SUFFICES ASSUME TypeInv, HintCoversUrgentTasks, Next,
                      NEW w \in Workers, GoesToSleep(w)
               PROVE  Drained
    BY Zenon
  <2> USE DEF TypeInv, TypeOK, ThreadTypeOK
  <2>1. ASSUME mHighPriority = PRIORITY_INVALID
        PROVE  Drained
    BY <2>1 DEF HintCoversUrgentTasks, Urgent, QueueIndex,
                PRIORITY_HIGH, PRIORITY_LOW, PRIORITY_INVALID
  <2>2. CASE ReadHighPriority(w)
    BY <2>1, <2>2 DEF ReadHighPriority, Goto
  <2>3. CASE Take(w)
    <3>1. CASE \E p \in QueueIndex : TakeFrom(w, p)
      BY <3>1 DEF TakeFrom, Goto
    <3>2. CASE TakeNothing(w)
      BY <3>2, NothingUrgentToTake
    <3>3. CASE TakeBeyondTheArray(w)
      BY <2>1, <3>3 DEF TakeBeyondTheArray
    <3> QED
      BY <2>3, <3>1, <3>2, <3>3 DEF Take
  <2>4. ASSUME NEW v \in Workers, v # w, Work(v)
        PROVE  pc'[w] = pc[w]
    BY <2>4 DEF Work, CheckExit, Block, RecheckExit, ReadHighPriority, Take, TakeFrom,
                TakeNothing, TakeBeyondTheArray, Run, Store, Goto
  <2>5. ASSUME CheckExit(w) \/ Block(w) \/ RecheckExit(w) \/ Run(w) \/ Store(w)
        PROVE  FALSE
    BY <2>5 DEF CheckExit, Block, RecheckExit, Run, Store
  <2>6. ASSUME NEW v \in Workers, SpuriousWakeup(v)
        PROVE  FALSE
    BY <2>6 DEF SpuriousWakeup, Goto
  <2>7. ASSUME NEW t \in Threads, Call(t) \/ Return(t)
        PROVE  FALSE
    BY <2>7 DEF Call, Return, Schedule, Reprioritise, CancelTask, Clear, FindBegin, FindEnd,
                NotifyOne, Goto
  <2>8. ASSUME SetExit \/ Destroy
        PROVE  FALSE
    BY <2>8 DEF SetExit, Destroy, NotifyAll, Join
  <2> QED
    BY <2>2, <2>3, <2>4, <2>5, <2>6, <2>7, <2>8 DEF Next, Work
<1> QED
  BY <1>1, TypeInvInit, TypeInvNext, HintInit, HintNext, PTL
     DEF Spec, SleepsOnlyWhenDrained, Urgent

(* get_scheduled_count counts positions of queues; every queued task is at  *)
(* one, so with a valid hint the count is at least the number of them.      *)
LEMMA CountCoversQueued ==
    ASSUME ExecutorTypeOK, mHighPriority # PRIORITY_INVALID
    PROVE  /\ Cardinality({i \in Ids : Queued(i)}) <= ScheduledCount
           /\ ScheduledCount \in Nat
<1> DEFINE column(p) == {p} \X DOMAIN mTasks[p]
           columns   == {column(p) : p \in QueueIndex}
           positions == UNION columns
           queued    == {i \in Ids : Queued(i)}
           at        == [x \in positions |-> mTasks[x[1]][x[2]]]
<1>1. ASSUME NEW p \in QueueIndex
      PROVE  IsFiniteSet(column(p))
  <2>1. DOMAIN mTasks[p] = 1..Len(mTasks[p]) /\ Len(mTasks[p]) \in Nat
    BY LenProperties DEF ExecutorTypeOK
  <2>2. IsFiniteSet(DOMAIN mTasks[p])
    BY <2>1, FS_Interval
  <2> QED
    BY <2>2, FS_Singleton, FS_Product
<1>2. IsFiniteSet(columns)
  <2> DEFINE nth == [p \in QueueIndex |-> column(p)]
  <2>1. IsFiniteSet(QueueIndex)
    <3>1. ASSUME NEW n \in Nat
          PROVE  IsFiniteSet(0..n)
      BY FS_Interval
    <3> QED
      BY <3>1 DEF QueueIndex, PRIORITY_HIGH, PRIORITY_LOW
  <2>2. nth \in [QueueIndex -> columns] /\ \A c \in columns : \E p \in QueueIndex : nth[p] = c
    <3> HIDE DEF column
    <3> QED
      OBVIOUS
  <2>3. nth \in Surjection(QueueIndex, columns)
    BY <2>2, Zenon DEF Surjection
  <2> QED
    BY <2>1, <2>3, FS_Surjection
<1>3. IsFiniteSet(positions)
  BY <1>1, <1>2, FS_UNION
<1>4. \A p \in QueueIndex : \A j \in DOMAIN mTasks[p] :
         <<p, j>> \in positions /\ at[<<p, j>>] = mTasks[p][j]
  OBVIOUS
<1>5. \A x \in positions : \E p \in QueueIndex : \E j \in DOMAIN mTasks[p] : x = <<p, j>>
  OBVIOUS
<1>6. \A p \in QueueIndex : \A j \in DOMAIN mTasks[p] : mTasks[p][j] \in queued
  BY ElementOfSeq, LenProperties DEF ExecutorTypeOK, Queued, QueuedAt
<1> HIDE DEF positions
<1>7. at \in [positions -> queued]
  BY <1>4, <1>5, <1>6
<1>8. \A i \in queued : \E x \in positions : at[x] = i
  BY <1>4 DEF Queued, QueuedAt
<1>9. at \in Surjection(positions, queued)
  BY <1>7, <1>8, Zenon DEF Surjection
<1>10. Cardinality(queued) <= Cardinality(positions)
  BY <1>3, <1>9, FS_Surjection
<1>11. ScheduledCount = Cardinality(positions)
  BY DEF ScheduledCount, positions
<1> QED
  BY <1>3, <1>10, <1>11, FS_CardinalityType

(* get_scheduled_count never misses urgent work: it answers with less than  *)
(* the number of queued tasks only when nothing but LOW tasks is queued.    *)
THEOREM UrgentWorkIsCounted == Spec => []CountMissesOnlyLow
<1>1. TypeInv /\ HintCoversUrgentTasks => CountMissesOnlyLow
  <2> SUFFICES ASSUME TypeInv, HintCoversUrgentTasks,
                      ScheduledCount < Cardinality({i \in Ids : Queued(i)}),
                      NEW p \in QueueIndex \ {PRIORITY_LOW}
               PROVE  mTasks[p] = << >>
    BY DEF CountMissesOnlyLow
  <2>1. IsFiniteSet({i \in Ids : Queued(i)})
    <3>1. IsFiniteSet(Ids)
      BY FS_Interval, MaxTasksAssumption DEF Ids
    <3> QED
      BY <3>1, FS_Subset
  <2>2. Cardinality({i \in Ids : Queued(i)}) \in Nat
    BY <2>1, FS_CardinalityType
  <2>3. mHighPriority = PRIORITY_INVALID
    <3> SUFFICES ASSUME mHighPriority # PRIORITY_INVALID
                 PROVE  FALSE
      OBVIOUS
    <3>1. Cardinality({i \in Ids : Queued(i)}) <= ScheduledCount /\ ScheduledCount \in Nat
      BY CountCoversQueued DEF TypeInv, TypeOK
    <3> QED
      BY <2>2, <3>1
  <2> QED
    BY <2>3 DEF HintCoversUrgentTasks, QueueIndex, PRIORITY_HIGH, PRIORITY_LOW, PRIORITY_INVALID
<1>2. Spec => [](TypeInv /\ HintCoversUrgentTasks)
  BY TypeInvInit, TypeInvNext, HintInit, HintNext, PTL DEF Spec
<1> QED
  BY <1>1, <1>2, PTL
==============================================================================
