------------------------------ MODULE TaskBoard ------------------------------
(***************************************************************************)
(* What an executor of solaire::parallel promises to the callers of        *)
(* schedule, change_priority and cancel, without queues, locks or threads: *)
(* the life of every task and of the future handed out for it.             *)
(*                                                                         *)
(*   - a task is started only while no task of a more urgent priority      *)
(*     waits, and at most once;                                            *)
(*   - a withdrawn task never starts, and its future breaks its promise;   *)
(*   - the future of a task is resolved exactly once, by the run of the    *)
(*     task or by its removal from the board.                              *)
(*                                                                         *)
(* ThreadPool implements this module (see the refinement mapping there).   *)
(***************************************************************************)
EXTENDS Integers

CONSTANTS
    Ids,          \* identities a task may get, in the order they are given
    Priorities,   \* the priorities a task may wait with, smaller = more urgent
    NoPriority    \* the priority of a task that is not waiting

VARIABLES
    status,       \* where a task is in its life
    prio,         \* the priority a waiting task waits with
    future,       \* what the future of a task says
    open          \* the board still exists

boardVars == <<status, prio, future, open>>

BoardTypeOK ==
    /\ status \in [Ids -> {"unborn", "waiting", "running", "done", "gone"}]
    /\ prio \in [Ids -> Priorities \cup {NoPriority}]
    /\ future \in [Ids -> {"none", "pending", "value", "exception", "broken"}]
    /\ open \in BOOLEAN

BoardInit ==
    /\ status = [i \in Ids |-> "unborn"]
    /\ prio = [i \in Ids |-> NoPriority]
    /\ future = [i \in Ids |-> "none"]
    /\ open = TRUE

(* A new task, with the smallest identity not yet given, starts to wait. *)
Submit(i, p) ==
    /\ status[i] = "unborn"
    /\ \A j \in Ids : status[j] = "unborn" => i <= j
    /\ status' = [status EXCEPT ![i] = "waiting"]
    /\ prio' = [prio EXCEPT ![i] = p]
    /\ future' = [future EXCEPT ![i] = "pending"]
    /\ UNCHANGED open

Reprioritise(i, p) ==
    /\ status[i] = "waiting"
    /\ prio' = [prio EXCEPT ![i] = p]
    /\ UNCHANGED <<status, future, open>>

Withdraw(i) ==
    /\ status[i] = "waiting"
    /\ status' = [status EXCEPT ![i] = "gone"]
    /\ prio' = [prio EXCEPT ![i] = NoPriority]
    /\ future' = [future EXCEPT ![i] = "broken"]
    /\ UNCHANGED open

Start(i) ==
    /\ status[i] = "waiting"
    /\ \A j \in Ids : status[j] = "waiting" => prio[i] <= prio[j]
    /\ status' = [status EXCEPT ![i] = "running"]
    /\ prio' = [prio EXCEPT ![i] = NoPriority]
    /\ UNCHANGED <<future, open>>

Resolve(i, outcome) ==
    /\ status[i] = "running"
    /\ future[i] = "pending"
    /\ future' = [future EXCEPT ![i] = outcome]
    /\ UNCHANGED <<status, prio, open>>

Retire(i) ==
    /\ status[i] = "running"
    /\ future[i] # "pending"
    /\ status' = [status EXCEPT ![i] = "done"]
    /\ UNCHANGED <<prio, future, open>>

Forget ==
    /\ status' = [i \in Ids |-> IF status[i] = "done" THEN "gone" ELSE status[i]]
    /\ UNCHANGED <<prio, future, open>>

(* The executor is destroyed: nothing runs, and what still waits is dropped. *)
Close ==
    /\ \A i \in Ids : status[i] # "running"
    /\ open' = FALSE
    /\ status' = [i \in Ids |-> IF status[i] = "unborn" THEN "unborn" ELSE "gone"]
    /\ prio' = [i \in Ids |-> NoPriority]
    /\ future' = [i \in Ids |-> IF future[i] = "pending" THEN "broken" ELSE future[i]]

BoardNext ==
    /\ open
    /\ \/ \E i \in Ids, p \in Priorities : Submit(i, p) \/ Reprioritise(i, p)
       \/ \E i \in Ids : Withdraw(i) \/ Start(i) \/ Retire(i)
       \/ \E i \in Ids, o \in {"value", "exception"} : Resolve(i, o)
       \/ Forget
       \/ Close

TaskBoardSpec == BoardInit /\ [][BoardNext]_boardVars
==============================================================================
