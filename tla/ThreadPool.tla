------------------------------ MODULE ThreadPool -----------------------------
(***************************************************************************)
(* solaire::thread_pool (parallel/thread_pool.hpp, parallel/thread_pool.cpp)*)
(* on top of Executor: the worker threads, the threads that call the       *)
(* executor, and the destructor.                                           *)
(*                                                                         *)
(* A worker goes round  top -> enter -> blocked -> woken -> check  in      *)
(* wait_for_notification, then  check -> take -> run -> store -> check  in *)
(* get_task and the loop around it, and back to top when get_task answers  *)
(* false.  Clients, and tasks while they run on a worker, call schedule,   *)
(* change_priority, cancel, clear_completed_tasks and get_priority.        *)
(*                                                                         *)
(* crashed stands for the end of the program: std::terminate, or undefined *)
(* behaviour that kills it.  Where the code has undefined behaviour the    *)
(* step may also go on as if nothing happened.                             *)
(***************************************************************************)
EXTENDS Executor

CONSTANTS
    Clients,       \* threads outside the pool that hold a reference to it
    Workers,       \* the threads of mWorkers
    Finders,       \* the clients that call get_priority
    Priorities,    \* the priorities callers pass, a bound on the inputs
    Outcomes       \* what a task may do: "value", "exception" or "terminate"

ASSUME ThreadAssumption ==
    /\ Clients \cap Workers = {}
    /\ Finders \subseteq Clients
ASSUME InputAssumption ==
    /\ Priorities \subseteq QueueIndex
    /\ Outcomes \subseteq {"value", "exception", "terminate"}

VARIABLES
    pc,        \* where each worker is
    task,      \* the worker's local task
    call,      \* what each thread has begun and not finished
    phase,     \* life of the pool; mExit is phase # "alive"
    crashed    \* the program is gone

threadVars == <<pc, task, call, phase, crashed>>
vars == <<executorVars, threadVars>>

Threads == Clients \cup Workers

mExit == phase # "alive"

ThreadTypeOK ==
    /\ pc \in [Workers -> {"top", "enter", "blocked", "woken", "check",
                           "take", "run", "store", "exited"}]
    /\ task \in [Workers -> Ids \cup {NoTask}]
    /\ call \in [Threads -> {"none", "notify", "find"}]
    /\ phase \in {"alive", "exiting", "joining", "done"}
    /\ crashed \in BOOLEAN

TypeOK == ExecutorTypeOK /\ ThreadTypeOK

Init ==
    /\ ExecutorInit
    /\ pc = [w \in Workers |-> "top"]
    /\ task = [w \in Workers |-> NoTask]
    /\ call = [t \in Threads |-> "none"]
    /\ phase = "alive"
    /\ crashed = FALSE

------------------------------------------------------------------------------
(* Helpers. *)

(* get_priority walks the deques without the lock; a section that changes   *)
(* them meanwhile is a data race, which may kill the program.               *)
RaceWithFind == \E t \in Threads : call[t] = "find"

MayCrashIf(undefined) ==
    \/ crashed' = FALSE
    \/ undefined /\ crashed' = TRUE

(* A thread that may call the executor: a client while the pool lives, or a *)
(* worker in the middle of a task's function.                               *)
CanCall(t) ==
    /\ call[t] = "none"
    /\ \/ t \in Clients /\ phase = "alive"
       \/ t \in Workers /\ pc[t] = "run"

Goto(w, there) == pc' = [pc EXCEPT ![w] = there]

------------------------------------------------------------------------------
(* Calls. *)

Schedule(t, p) ==
    /\ CanCall(t)
    /\ ScheduleInternal(p)
    /\ call' = [call EXCEPT ![t] = "notify"]
    /\ MayCrashIf(RaceWithFind)
    /\ UNCHANGED <<pc, task, phase>>

(* on_scheduled, after the unlock: wakes one blocked worker, or nobody. *)
NotifyOne(t) ==
    /\ call[t] = "notify"
    /\ call' = [call EXCEPT ![t] = "none"]
    /\ \/ \E w \in Workers : pc[w] = "blocked" /\ Goto(w, "woken")
       \/ (\A w \in Workers : pc[w] # "blocked") /\ UNCHANGED pc
    /\ UNCHANGED <<executorVars, task, phase, crashed>>

(* The iterator is used after a push_back to the deque it points into when  *)
(* a task is moved to the queue it is in.                                   *)
Reprioritise(t, i, p) ==
    /\ CanCall(t)
    /\ ChangePriority(i, p)
    /\ MayCrashIf(RaceWithFind \/ QueuedAt(i, p))
    /\ UNCHANGED <<pc, task, call, phase>>

CancelTask(t, i) ==
    /\ CanCall(t)
    /\ Cancel(i)
    /\ MayCrashIf(RaceWithFind)
    /\ UNCHANGED <<pc, task, call, phase>>

Clear(t) ==
    /\ CanCall(t)
    /\ ClearCompletedTasks
    /\ MayCrashIf(RaceWithFind)
    /\ UNCHANGED <<pc, task, call, phase>>

(* get_priority, which takes time; its answer, or its exception, changes    *)
(* nothing here.                                                            *)
FindBegin(t) ==
    /\ t \in Finders
    /\ CanCall(t)
    /\ call' = [call EXCEPT ![t] = "find"]
    /\ UNCHANGED <<executorVars, pc, task, phase, crashed>>

FindEnd(t) ==
    /\ call[t] = "find"
    /\ call' = [call EXCEPT ![t] = "none"]
    /\ UNCHANGED <<executorVars, pc, task, phase, crashed>>

------------------------------------------------------------------------------
(* wait_for_notification. *)

(* Mutant: mExit is tested after the wait only. *)
CheckExitNever(w) ==
    /\ pc[w] = "top"
    /\ Goto(w, "enter")
    /\ UNCHANGED <<executorVars, task, call, phase, crashed>>

CheckExit(w) ==
    /\ pc[w] = "top"
    /\ Goto(w, IF mExit THEN "exited" ELSE "enter")
    /\ UNCHANGED <<executorVars, task, call, phase, crashed>>

Block(w) ==
    /\ pc[w] = "enter"
    /\ Goto(w, "blocked")
    /\ UNCHANGED <<executorVars, task, call, phase, crashed>>

SpuriousWakeup(w) ==
    /\ pc[w] = "blocked"
    /\ Goto(w, "woken")
    /\ UNCHANGED <<executorVars, task, call, phase, crashed>>

RecheckExit(w) ==
    /\ pc[w] = "woken"
    /\ Goto(w, IF mExit THEN "exited" ELSE "check")
    /\ UNCHANGED <<executorVars, task, call, phase, crashed>>

------------------------------------------------------------------------------
(* get_task and the loop around it. *)

ReadHighPriority(w) ==
    /\ pc[w] = "check"
    /\ Goto(w, IF mHighPriority = PRIORITY_INVALID THEN "top" ELSE "take")
    /\ UNCHANGED <<executorVars, task, call, phase, crashed>>

(* Mutant: no loop, only the queue of the hint. *)
LookedOnce(h) == {h}

(* The queues the do-while looks at, from the hint h on: PRIORITY_LOW only  *)
(* when it starts there.                                                    *)
Looked(h) == IF h < PRIORITY_LOW THEN h..(PRIORITY_LOW - 1) ELSE {PRIORITY_LOW}

TakeFrom(w, p) ==
    /\ mHighPriority # PRIORITY_INVALID
    /\ p \in Looked(mHighPriority)
    /\ mTasks[p] # << >>
    /\ \A q \in Looked(mHighPriority) : q < p => mTasks[q] = << >>
    /\ mHighPriority' = p
    /\ task' = [task EXCEPT ![w] = Head(mTasks[p])]
    /\ mTasks' = [mTasks EXCEPT ![p] = Tail(@)]
    /\ Goto(w, "run")
    /\ MayCrashIf(RaceWithFind)
    /\ UNCHANGED <<mCompletedTasks, mID, future, call, phase>>

TakeNothing(w) ==
    /\ mHighPriority # PRIORITY_INVALID
    /\ \A q \in Looked(mHighPriority) : mTasks[q] = << >>
    /\ mHighPriority' = PRIORITY_INVALID
    /\ Goto(w, "top")
    /\ UNCHANGED <<mTasks, mCompletedTasks, mID, future, task, call, phase, crashed>>

(* Mutant: the empty queue's hint is incremented without a bound. *)
TakeBeyondTheArrayCounts(w) ==
    /\ mHighPriority = PRIORITY_INVALID
    /\ mHighPriority' = mHighPriority + 1
    /\ Goto(w, "top")
    /\ UNCHANGED <<mTasks, mCompletedTasks, mID, future, task, call, phase, crashed>>

(* The hint became invalid after it was read: mTasks[PRIORITY_INVALID] is   *)
(* beyond the array.  What lies there looks like an empty deque, or not.    *)
TakeBeyondTheArray(w) ==
    /\ mHighPriority = PRIORITY_INVALID
    /\ Goto(w, "top")
    /\ MayCrashIf(TRUE)
    /\ UNCHANGED <<executorVars, task, call, phase>>

Take(w) ==
    /\ pc[w] = "take"
    /\ \/ \E p \in QueueIndex : TakeFrom(w, p)
       \/ TakeNothing(w)
       \/ TakeBeyondTheArray(w)

(* task.function() ends, its own calls returned: it sets the promise, or an *)
(* exception that is no std::exception leaves the thread.                   *)
Run(w) ==
    /\ pc[w] = "run"
    /\ call[w] = "none"
    /\ \E outcome \in Outcomes :
          \/ /\ outcome = "terminate"
             /\ crashed' = TRUE
             /\ UNCHANGED <<future, pc>>
          \/ /\ outcome # "terminate"
             /\ future' = [future EXCEPT ![task[w]] = outcome]
             /\ Goto(w, "store")
             /\ UNCHANGED crashed
    /\ UNCHANGED <<mTasks, mHighPriority, mCompletedTasks, mID, task, call, phase>>

Store(w) ==
    /\ pc[w] = "store"
    /\ mCompletedTasks' = mCompletedTasks \cup {task[w]}
    /\ task' = [task EXCEPT ![w] = NoTask]
    /\ Goto(w, "check")
    /\ MayCrashIf(RaceWithFind)
    /\ UNCHANGED <<mTasks, mHighPriority, mID, future, call, phase>>

------------------------------------------------------------------------------
(* ~thread_pool, then ~executor.  The owner destroys the pool once no client *)
(* is inside a call; mExit is set without the lock.                          *)

SetExit ==
    /\ phase = "alive"
    /\ \A t \in Clients : call[t] = "none"
    /\ phase' = "exiting"
    /\ UNCHANGED <<executorVars, pc, task, call, crashed>>

NotifyAll ==
    /\ phase = "exiting"
    /\ phase' = "joining"
    /\ pc' = [w \in Workers |-> IF pc[w] = "blocked" THEN "woken" ELSE pc[w]]
    /\ UNCHANGED <<executorVars, task, call, crashed>>

Join ==
    /\ phase = "joining"
    /\ \A w \in Workers : pc[w] = "exited"
    /\ phase' = "done"
    /\ DestroyExecutor
    /\ UNCHANGED <<pc, task, call, crashed>>

------------------------------------------------------------------------------

Call(t) ==
    \/ \E p \in Priorities : Schedule(t, p)
    \/ \E i \in Ids, p \in Priorities : Reprioritise(t, i, p)
    \/ \E i \in Ids : CancelTask(t, i)
    \/ Clear(t)
    \/ FindBegin(t)

Return(t) == NotifyOne(t) \/ FindEnd(t)

Work(w) ==
    \/ CheckExit(w) \/ Block(w) \/ RecheckExit(w)
    \/ ReadHighPriority(w) \/ Take(w) \/ Run(w) \/ Store(w)

Destroy == NotifyAll \/ Join

Next ==
    /\ ~crashed
    /\ \/ \E t \in Threads : Call(t) \/ Return(t)
       \/ \E w \in Workers : Work(w) \/ SpuriousWakeup(w)
       \/ SetExit
       \/ Destroy

Spec == Init /\ [][Next]_vars

(* The threads the operating system runs make progress: a worker between    *)
(* two steps, a call that has begun, the destructor.  Nobody has to call    *)
(* the pool, and the condition variable has no obligation to wake a worker  *)
(* without a notification.                                                  *)
Fairness ==
    /\ \A w \in Workers : WF_vars(~crashed /\ Work(w))
    /\ \A t \in Threads : WF_vars(~crashed /\ Return(t))
    /\ WF_vars(~crashed /\ Destroy)

FairSpec == Spec /\ Fairness

------------------------------------------------------------------------------
(* Safety. *)

Holds(w, i) == task[w] = i

(* A task is in one place at most: one position of one queue, or the local  *)
(* variable of one worker, or the completed list.  schedule_internal,       *)
(* change_priority's push_back-then-erase, get_task and the push to         *)
(* mCompletedTasks together never duplicate it, so it runs once at most.    *)
OnePlace ==
    /\ \A p, q \in QueueIndex :
         \A j \in DOMAIN mTasks[p], k \in DOMAIN mTasks[q] :
            mTasks[p][j] = mTasks[q][k] => p = q /\ j = k
    /\ \A i \in Ids :
         /\ \A v, w \in Workers : Holds(v, i) /\ Holds(w, i) => v = w
         /\ (\E w \in Workers : Holds(w, i)) => ~Queued(i) /\ i \notin mCompletedTasks
         /\ Queued(i) => i \notin mCompletedTasks

(* A future is unresolved exactly while its task waits in a queue or runs:  *)
(* no operation loses a task whose caller still waits for the answer, and   *)
(* no task waits or runs whose future was already resolved or broken.       *)
PromiseKept ==
    \A i \in Ids :
        future[i] = "pending" <=>
            Queued(i) \/ \E w \in Workers : pc[w] = "run" /\ Holds(w, i)

(* The hint is never beyond a queue, other than the last one, that holds a  *)
(* task: schedule_internal and change_priority lower it in time, and the    *)
(* do-while of get_task raises it past empty queues only.                   *)
HintCoversUrgentTasks ==
    \A p \in QueueIndex \ {PRIORITY_LOW} :
        mTasks[p] # << >> => mHighPriority <= p

(* get_scheduled_count, which skips the queues when the hint is invalid,    *)
(* misses tasks of the last queue at most: urgent work is always counted.   *)
CountMissesOnlyLow ==
    ScheduledCount < Cardinality({i \in Ids : Queued(i)})
        => \A p \in QueueIndex \ {PRIORITY_LOW} : mTasks[p] = << >>

(* get_task answers false, and its worker goes back to wait for a           *)
(* notification, only when no queue but the last holds a task: reading the  *)
(* hint without the lock does not make a worker overlook urgent work.       *)
SleepsOnlyWhenDrained ==
    [][\A w \in Workers :
          pc[w] \in {"check", "take"} /\ pc'[w] = "top" /\ ~crashed'
             => \A p \in QueueIndex \ {PRIORITY_LOW} : mTasks[p] = << >>]_vars

------------------------------------------------------------------------------
(* The pool implements TaskBoard. *)

boardStatus ==
    [i \in Ids |->
        IF i >= mID THEN "unborn"
        ELSE IF Queued(i) THEN "waiting"
        ELSE IF \E w \in Workers : Holds(w, i) THEN "running"
        ELSE IF i \in mCompletedTasks THEN "done"
        ELSE "gone"]

boardPrio ==
    [i \in Ids |->
        IF Queued(i) THEN CHOOSE p \in QueueIndex : QueuedAt(i, p)
        ELSE PRIORITY_INVALID]

Board == INSTANCE TaskBoard WITH
            Priorities <- QueueIndex,
            NoPriority <- PRIORITY_INVALID,
            status     <- boardStatus,
            prio       <- boardPrio,
            open       <- (phase # "done")

(* Every behaviour of the pool is one of the board: tasks start in order of *)
(* priority and once, cancelled tasks never start, futures resolve once.    *)
ImplementsTaskBoard == Board!TaskBoardSpec

------------------------------------------------------------------------------
(* Liveness. *)

Busy(w) == pc[w] \in {"check", "take", "run", "store"}

QueuedUrgently(i) == \E p \in QueueIndex \ {PRIORITY_LOW} : QueuedAt(i, p)

(* While a worker is awake, an urgent task does not stay behind: it is      *)
(* taken, cancelled or demoted.  A worker a notification has woken counts   *)
(* as awake as long as the pool is not being destroyed.                     *)
AwakeWorkersDrain ==
    \A i \in Ids :
        /\ (QueuedUrgently(i) /\ \E w \in Workers : Busy(w))
              ~> (~QueuedUrgently(i) \/ crashed)
        /\ (QueuedUrgently(i) /\ \E w \in Workers : pc[w] = "woken")
              ~> (~QueuedUrgently(i) \/ crashed \/ mExit)

(* The destructor returns if, when notify_all has been called, no worker is *)
(* between its test of mExit and the wait: each worker finishes its tasks,  *)
(* sees mExit and ends.  (A worker caught in between is never woken again.) *)
ShutdownCompletes ==
    (phase = "joining" /\ \A w \in Workers : pc[w] \notin {"enter", "blocked"})
        ~> (phase = "done" \/ crashed)

------------------------------------------------------------------------------
(* What the code's own checks say of it, and is not so. *)

(* executor.cpp:42 rejects a priority above PRIORITY_LOW as invalid: no     *)
(* queue has such an index.  get_task indexes mTasks without that check.    *)
QueueIndexInRange ==
    \A w \in Workers : pc[w] = "take" => mHighPriority <= PRIORITY_LOW
==============================================================================
