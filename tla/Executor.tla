------------------------------- MODULE Executor ------------------------------
(***************************************************************************)
(* solaire::executor (parallel/executor.hpp, parallel/executor.cpp): five  *)
(* queues of tasks, one per priority, the list of completed tasks, the     *)
(* hint mHighPriority of the most urgent queue worth looking at, and the   *)
(* promise behind every scheduled task.                                    *)
(*                                                                         *)
(* Every operation here is one critical section of mTasksLock and one      *)
(* step.  mHighPriority is also read without the lock, but only to compare *)
(* it with PRIORITY_INVALID, and no critical section crosses that value    *)
(* more than once: an unlocked reader sees the value of before or of after *)
(* the section.                                                            *)
(*                                                                         *)
(* A task is its identity.  The function and its arguments are abstracted; *)
(* the promise is kept as the state of the future it feeds.                *)
(***************************************************************************)
EXTENDS Integers, Sequences, FiniteSets, SequencesExt

CONSTANT
    MaxTasks      \* bound on mID: the number of tasks a behaviour schedules

ASSUME MaxTasksAssumption == MaxTasks \in Nat

PRIORITY_HIGH    == 0
PRIORITY_LOW     == 4
PRIORITY_MEDIUM  == PRIORITY_LOW \div 2
PRIORITY_INVALID == PRIORITY_LOW + 1

QueueIndex == PRIORITY_HIGH..PRIORITY_LOW      \* the indices of mTasks

Ids    == 0..(MaxTasks - 1)
NoTask == -1

VARIABLES
    mTasks,           \* the queues
    mHighPriority,    \* the hint
    mCompletedTasks,  \* the tasks that ran, until clear_completed_tasks
    mID,              \* the next identity
    future            \* state of the future of every task

executorVars == <<mTasks, mHighPriority, mCompletedTasks, mID, future>>

FutureState == {"none", "pending", "value", "exception", "broken"}

ExecutorTypeOK ==
    /\ mTasks \in [QueueIndex -> Seq(Ids)]
    /\ mHighPriority \in QueueIndex \cup {PRIORITY_INVALID}
    /\ mCompletedTasks \subseteq Ids
    /\ mID \in 0..MaxTasks
    /\ future \in [Ids -> FutureState]

ExecutorInit ==
    /\ mTasks = [p \in QueueIndex |-> << >>]
    /\ mHighPriority = PRIORITY_INVALID
    /\ mCompletedTasks = {}
    /\ mID = 0
    /\ future = [i \in Ids |-> "none"]

------------------------------------------------------------------------------
(* Reading the queues. *)

(* Mutant: std::max for std::min. *)
LowerAsMax(p, q) == IF p <= q THEN q ELSE p

Lower(p, q) == IF p <= q THEN p ELSE q

QueuedAt(i, p) == \E j \in DOMAIN mTasks[p] : mTasks[p][j] = i

Queued(i) == \E p \in QueueIndex : QueuedAt(i, p)

(* find: the queues in order, then the completed tasks, else it throws.     *)
(* The result is the set of priorities it may answer, {} when it throws.    *)
Find(i) ==
    LET queues == {p \in QueueIndex : QueuedAt(i, p)}
    IN  IF queues = {} /\ i \in mCompletedTasks THEN {PRIORITY_INVALID} ELSE queues

(* get_scheduled_count looks at the queues only when the hint is valid. *)
ScheduledCount ==
    IF mHighPriority = PRIORITY_INVALID THEN 0
    ELSE Cardinality(UNION {{p} \X DOMAIN mTasks[p] : p \in QueueIndex})

------------------------------------------------------------------------------
(* The operations of callers.  A definition named as a mutant is what a    *)
(* plausible mistake would make of the definition below it; no specification *)
(* uses it.                                                                 *)

(* Mutant: the hint becomes the priority of the latest task. *)
ScheduleInternalSetsHint(p) ==
    /\ mID < MaxTasks
    /\ mHighPriority' = p
    /\ mID' = mID + 1
    /\ future' = [future EXCEPT ![mID] = "pending"]
    /\ mTasks' = [mTasks EXCEPT ![p] = Append(@, mID)]
    /\ UNCHANGED mCompletedTasks

(* schedule and schedule_internal up to the unlock; the notification that   *)
(* follows belongs to the derived class.  A priority above PRIORITY_LOW     *)
(* throws before anything changes and is no step.                           *)
ScheduleInternal(p) ==
    /\ mID < MaxTasks
    /\ mHighPriority' = Lower(mHighPriority, p)
    /\ mID' = mID + 1
    /\ future' = [future EXCEPT ![mID] = "pending"]
    /\ mTasks' = [mTasks EXCEPT ![p] = Append(@, mID)]
    /\ UNCHANGED mCompletedTasks

(* Mutant: the front of the old queue is erased for the task that moved. *)
ChangePriorityErasesFront(i, p) ==
    \E q \in QueueIndex : \E j \in DOMAIN mTasks[q] :
        /\ mTasks[q][j] = i
        /\ mHighPriority' = Lower(p, mHighPriority)
        /\ mTasks' = [[mTasks EXCEPT ![p] = Append(@, i)] EXCEPT ![q] = Tail(@)]
        /\ UNCHANGED <<mCompletedTasks, mID, future>>

(* change_priority of a queued task: it is appended to its new queue before *)
(* it is erased from the old one, which may be the same.  The caller of     *)
(* this module decides what becomes of the iterator the push_back           *)
(* invalidated in that case.                                                *)
ChangePriority(i, p) ==
    \E q \in QueueIndex : \E j \in DOMAIN mTasks[q] :
        /\ mTasks[q][j] = i
        /\ mHighPriority' = Lower(p, mHighPriority)
        /\ mTasks' = [[mTasks EXCEPT ![p] = Append(@, i)]
                         EXCEPT ![q] = RemoveAt(@, j)]
        /\ UNCHANGED <<mCompletedTasks, mID, future>>

(* cancel = change_priority to PRIORITY_INVALID: the task is erased, and    *)
(* with it the last owner of the promise.                                   *)
Cancel(i) ==
    \E q \in QueueIndex : \E j \in DOMAIN mTasks[q] :
        /\ mTasks[q][j] = i
        /\ mTasks' = [mTasks EXCEPT ![q] = RemoveAt(@, j)]
        /\ future' = [future EXCEPT ![i] = "broken"]
        /\ UNCHANGED <<mHighPriority, mCompletedTasks, mID>>

ClearCompletedTasks ==
    /\ mCompletedTasks' = {}
    /\ UNCHANGED <<mTasks, mHighPriority, mID, future>>

(* Mutant: something else keeps the promises of waiting tasks alive. *)
DestroyExecutorKeepsPromises ==
    /\ mTasks' = [p \in QueueIndex |-> << >>]
    /\ mCompletedTasks' = {}
    /\ UNCHANGED <<mHighPriority, mID, future>>

(* ~executor: the queues and the completed tasks are cleared, and a promise *)
(* that was never set breaks.                                               *)
DestroyExecutor ==
    /\ mTasks' = [p \in QueueIndex |-> << >>]
    /\ mCompletedTasks' = {}
    /\ future' = [i \in Ids |-> IF future[i] = "pending" THEN "broken" ELSE future[i]]
    /\ UNCHANGED <<mHighPriority, mID>>
==============================================================================
