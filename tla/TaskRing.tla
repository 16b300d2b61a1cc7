------------------------------- MODULE TaskRing ------------------------------
(***************************************************************************)
(* solaire::task (parallel/task.hpp): cooperative tasks in a ring.         *)
(* setjmp and longjmp are commented out, so pause() does not switch        *)
(* stacks: it calls the next task on top of the one that pauses, and       *)
(* returns when that call does.  The program is one thread and its call    *)
(* stack, and a task is modelled by when it pauses and when run() ends.    *)
(*                                                                         *)
(* execute() is called once, with N > 0 different tasks (the loop bound    *)
(* size - 1 wraps on an empty vector).  TaskRing keeps the members mOther  *)
(* (fixed once execute has linked the ring) and mState.                    *)
(***************************************************************************)
EXTENDS Integers, Sequences

CONSTANTS
    N,           \* the size of aTasks
    MaxPauses    \* bound on the pauses of one run()

ASSUME RingAssumption == N \in Nat \ {0} /\ MaxPauses \in Nat

Tasks == 0..(N - 1)

mOther(t) == (t + 1) % N

VARIABLES
    mState,
    stack,     \* the frames, the innermost first
    pauses,    \* how often each task has paused
    runs       \* how often run() of each task was called

ringVars == <<mState, stack, pauses, runs>>

(* A frame is the run_internal of a task: its run() executes, or is inside  *)
(* pause() with a task called on top, or is over with the next task called  *)
(* from the end of run_internal, or with nothing left to do.                *)
Frame == [task : Tasks, at : {"run", "pause", "tail", "return"}]

RingTypeOK ==
    /\ mState \in [Tasks -> {"INITIALISED", "EXECUTING", "PAUSED", "COMPLETE"}]
    /\ stack \in Seq(Frame)
    /\ pauses \in [Tasks -> 0..MaxPauses]
    /\ runs \in [Tasks -> 0..1]

(* A definition named as a mutant is what a plausible mistake would make of *)
(* the definition below it; no specification uses it.                       *)

Running(t) == stack # << >> /\ Head(stack) = [task |-> t, at |-> "run"]

Leave(where) == <<[Head(stack) EXCEPT !.at = where]>> \o Tail(stack)

(* The innermost frame calls run_internal of task t. *)
Enter(t, from) ==
    /\ stack' = <<[task |-> t, at |-> "run"]>> \o Leave(from)
    /\ runs' = [runs EXCEPT ![t] = @ + 1]

(* execute: the front task is run. *)
RingInit ==
    /\ mState = [t \in Tasks |-> IF t = 0 THEN "EXECUTING" ELSE "INITIALISED"]
    /\ stack = <<[task |-> 0, at |-> "run"]>>
    /\ pauses = [t \in Tasks |-> 0]
    /\ runs = [t \in Tasks |-> IF t = 0 THEN 1 ELSE 0]

(* Mutant: resume runs a paused task from the start. *)
PauseRestarts(t) ==
    LET next   == mOther(t)
        paused == [mState EXCEPT ![t] = "PAUSED"]
    IN  /\ Running(t)
        /\ pauses[t] < MaxPauses
        /\ pauses' = [pauses EXCEPT ![t] = @ + 1]
        /\ \/ /\ paused[next] \in {"INITIALISED", "PAUSED"}
              /\ mState' = [paused EXCEPT ![next] = "EXECUTING"]
              /\ Enter(next, "pause")
           \/ /\ paused[next] \in {"EXECUTING", "COMPLETE"}
              /\ mState' = paused
              /\ UNCHANGED <<stack, runs>>

(* pause() and the resume() of the next task, in the three cases of its     *)
(* switch.  A ring of one task resumes itself.                              *)
Pause(t) ==
    LET next   == mOther(t)
        paused == [mState EXCEPT ![t] = "PAUSED"]
    IN  /\ Running(t)
        /\ pauses[t] < MaxPauses
        /\ pauses' = [pauses EXCEPT ![t] = @ + 1]
        /\ \/ /\ paused[next] = "INITIALISED"
              /\ mState' = [paused EXCEPT ![next] = "EXECUTING"]
              /\ Enter(next, "pause")
           \/ /\ paused[next] = "PAUSED"
              /\ mState' = [paused EXCEPT ![next] = "EXECUTING"]
              /\ UNCHANGED <<stack, runs>>
           \/ /\ paused[next] \in {"EXECUTING", "COMPLETE"}
              /\ mState' = paused
              /\ UNCHANGED <<stack, runs>>

(* Mutant: run_internal does not look at the next task. *)
CompleteOnly(t) ==
    /\ Running(t)
    /\ mState' = [mState EXCEPT ![t] = "COMPLETE"]
    /\ stack' = Leave("return")
    /\ UNCHANGED <<pauses, runs>>

(* The end of run() in run_internal: the next task is run if it has not     *)
(* been yet.                                                                *)
Complete(t) ==
    LET next == mOther(t)
        done == [mState EXCEPT ![t] = "COMPLETE"]
    IN  /\ Running(t)
        /\ UNCHANGED pauses
        /\ \/ /\ done[next] = "INITIALISED"
              /\ mState' = [done EXCEPT ![next] = "EXECUTING"]
              /\ Enter(next, "tail")
           \/ /\ done[next] # "INITIALISED"
              /\ mState' = done
              /\ stack' = Leave("return")
              /\ UNCHANGED runs

(* Mutant: the task that paused waits for another resume. *)
ReturnStaysPaused ==
    /\ stack # << >> /\ Head(stack).at = "return"
    /\ \/ Len(stack) = 1 /\ stack' = << >>
       \/ /\ Len(stack) > 1
          /\ stack' = [Tail(stack) EXCEPT ![1].at = IF @ = "pause" THEN "pause" ELSE "return"]
    /\ UNCHANGED <<mState, pauses, runs>>

(* run_internal returns: into a run() that paused, into the end of another  *)
(* run_internal, or out of execute.                                         *)
Return ==
    /\ stack # << >> /\ Head(stack).at = "return"
    /\ \/ Len(stack) = 1 /\ stack' = << >>
       \/ /\ Len(stack) > 1
          /\ stack' = [Tail(stack) EXCEPT ![1].at = IF @ = "pause" THEN "run" ELSE "return"]
    /\ UNCHANGED <<mState, pauses, runs>>

RingNext == (\E t \in Tasks : Pause(t) \/ Complete(t)) \/ Return

RingSpec == RingInit /\ [][RingNext]_ringVars

(* One thread that keeps running; every run() ends. *)
FairRingSpec == RingSpec /\ WF_ringVars(RingNext)

------------------------------------------------------------------------------

(* A task has a frame on the stack exactly while its run() is not over, and *)
(* only one: pause() never enters a run() again that is already below it.   *)
OneFrameEach ==
    /\ \A i, j \in DOMAIN stack : stack[i].task = stack[j].task => i = j
    /\ \A t \in Tasks :
          mState[t] \in {"EXECUTING", "PAUSED"} <=>
             \E i \in DOMAIN stack : stack[i].task = t /\ stack[i].at \in {"run", "pause"}

(* When execute returns, run() of every task was called once and is over,   *)
(* whichever of them paused and how often.                                  *)
AllRanOnce ==
    stack = << >> => \A t \in Tasks : mState[t] = "COMPLETE" /\ runs[t] = 1

(* Every task of the ring runs once, in one frame, until it is complete.    *)
RingRunsAll == OneFrameEach /\ AllRanOnce

(* execute returns. *)
ExecuteReturns == <>(stack = << >>)
==============================================================================
