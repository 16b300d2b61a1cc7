---------------------------- MODULE TaskRingProofs ---------------------------
(***************************************************************************)
(* Proofs about TaskRing, for a ring of any length: every task has one     *)
(* frame while it runs, and has run once when execute returns.             *)
(*                                                                         *)
(* The stack holds the tasks 0 to Len(stack) - 1, each on top of the one   *)
(* before it.  As long as one task has not been started, the innermost one *)
(* is running and the tasks not on the stack are those not started: a      *)
(* frame is only left when all have been started.                          *)
(***************************************************************************)
EXTENDS TaskRing, SequenceTheorems, TLAPS

Started(t) == mState[t] # "INITIALISED"

FramesInOrder == \A i \in 1..Len(stack) : stack[i].task = Len(stack) - i

InnermostRuns ==
    \A i \in 1..Len(stack) :
        IF i = 1 THEN stack[i].at \in {"run", "return"} ELSE stack[i].at \in {"pause", "tail"}

FramesMatchStates ==
    \A i \in 1..Len(stack) :
        mState[stack[i].task] \in IF stack[i].at \in {"run", "pause"}
                                  THEN {"EXECUTING", "PAUSED"} ELSE {"COMPLETE"}

OffTheStack == \A t \in Tasks : t >= Len(stack) => mState[t] \in {"INITIALISED", "COMPLETE"}

RunOnce == \A t \in Tasks : runs[t] = IF Started(t) THEN 1 ELSE 0

UnstartedAbove ==
    (\E t \in Tasks : ~Started(t)) =>
        /\ Len(stack) > 0 /\ stack[1].at = "run"
        /\ \A t \in Tasks : t >= Len(stack) => ~Started(t)

RingInv ==
    /\ RingTypeOK
    /\ FramesInOrder
    /\ InnermostRuns
    /\ FramesMatchStates
    /\ OffTheStack
    /\ RunOnce
    /\ UnstartedAbove

(* The next task is the one with the next number, but for the last.         *)
LEMMA NextTask ==
    ASSUME NEW t \in Tasks
    PROVE  /\ mOther(t) \in Tasks
           /\ t # N - 1 => mOther(t) = t + 1
           /\ t = N - 1 => mOther(t) = 0
<1>1. N \in Nat /\ N > 0 /\ t \in 0..(N - 1)  BY RingAssumption DEF Tasks
<1>2. \A n \in 0..(N - 1) : n % N = n  BY <1>1, SMTT(30)
<1>3. N % N = 0  BY <1>1, SMTT(30)
<1>4. CASE t # N - 1  BY <1>1, <1>2, <1>4 DEF mOther, Tasks
<1>5. CASE t = N - 1
  <2>1. t + 1 = N  BY <1>1, <1>5
  <2> QED  BY <1>1, <1>3, <1>5, <2>1 DEF mOther, Tasks
<1> QED  BY <1>4, <1>5

(* The frames of the stack, and the task of the innermost one. *)
LEMMA FramesOfStack ==
    ASSUME RingInv
    PROVE  /\ Len(stack) \in 0..N
           /\ \A i \in 1..Len(stack) : stack[i] \in Frame
           /\ \A i \in 1..Len(stack) : stack[i].task \in Tasks
           /\ stack # << >> <=> Len(stack) > 0
<1>1. stack \in Seq(Frame) /\ Len(stack) \in Nat  BY DEF RingInv, RingTypeOK
<1>2. \A i \in 1..Len(stack) : stack[i] \in Frame  BY <1>1
<1>3. \A i \in 1..Len(stack) : stack[i].task \in Tasks  BY <1>2 DEF Frame
<1>4. stack # << >> <=> Len(stack) > 0  BY <1>1
<1>5. Len(stack) <= N
  <2>1. CASE Len(stack) > 0
    <3>1. stack[1].task = Len(stack) - 1  BY <1>1, <2>1 DEF RingInv, FramesInOrder
    <3>2. stack[1].task \in Tasks  BY <1>1, <1>3, <2>1
    <3> QED  BY <1>1, <3>1, <3>2, RingAssumption DEF Tasks
  <2>2. CASE Len(stack) = 0  BY <2>2, RingAssumption
  <2> QED  BY <1>1, <2>1, <2>2
<1> QED  BY <1>1, <1>2, <1>3, <1>4, <1>5

(* What is running is the innermost frame, of the task with the largest     *)
(* number on the stack.                                                     *)
LEMMA RunningTask ==
    ASSUME RingInv, NEW t \in Tasks, Running(t)
    PROVE  /\ Len(stack) > 0 /\ t = Len(stack) - 1
           /\ stack[1] = [task |-> t, at |-> "run"]
           /\ mState[t] \in {"EXECUTING", "PAUSED"}
<1>1. stack # << >> /\ stack[1] = [task |-> t, at |-> "run"]
  BY FramesOfStack DEF Running
<1>2. Len(stack) > 0 /\ Len(stack) \in Nat  BY <1>1, FramesOfStack
<1>3. stack[1].task = Len(stack) - 1  BY <1>2 DEF RingInv, FramesInOrder
<1>4. mState[stack[1].task] \in {"EXECUTING", "PAUSED"}
  BY <1>1, <1>2 DEF RingInv, FramesMatchStates
<1> QED  BY <1>1, <1>2, <1>3, <1>4

(* The task after the running one has not been started if any has not.      *)
LEMMA NextUnstarted ==
    ASSUME RingInv, NEW t \in Tasks, Running(t)
    PROVE  /\ (\E u \in Tasks : ~Started(u)) =>
                mOther(t) = t + 1 /\ ~Started(mOther(t))
           /\ ~Started(mOther(t)) => mOther(t) = t + 1 /\ mOther(t) = Len(stack)
<1>1. Len(stack) > 0 /\ t = Len(stack) - 1 /\ Len(stack) \in 0..N
  BY RunningTask, FramesOfStack
<1>2. \A u \in Tasks : u < Len(stack) => Started(u)
  <2> SUFFICES ASSUME NEW u \in Tasks, u < Len(stack) PROVE Started(u)
    OBVIOUS
  <2>1. Len(stack) - u \in 1..Len(stack)  BY <1>1 DEF Tasks
  <2>2. stack[Len(stack) - u].task = u  BY <1>1, <2>1 DEF RingInv, FramesInOrder, Tasks
  <2>3. mState[u] \in {"EXECUTING", "PAUSED", "COMPLETE"}
    BY <2>1, <2>2 DEF RingInv, FramesMatchStates
  <2> QED  BY <2>3 DEF Started
<1>3. ASSUME NEW u \in Tasks, ~Started(u) PROVE mOther(t) = t + 1 /\ ~Started(mOther(t))
  <2>1. u >= Len(stack)  BY <1>1, <1>2, <1>3 DEF Tasks
  <2>2. t # N - 1  BY <1>1, <2>1, RingAssumption DEF Tasks
  <2>3. mOther(t) = t + 1 /\ mOther(t) \in Tasks  BY <2>2, NextTask
  <2>4. mOther(t) >= Len(stack)  BY <1>1, <2>3
  <2> QED  BY <1>3, <2>3, <2>4 DEF RingInv, UnstartedAbove
<1>4. ~Started(mOther(t)) => mOther(t) = t + 1 /\ mOther(t) = Len(stack)
  BY <1>1, <1>3, NextTask
<1> QED  BY <1>3, <1>4

(* A frame on top of others. *)
LEMMA FrameOnTop ==
    ASSUME NEW f \in Frame, NEW s \in Seq(Frame)
    PROVE  /\ <<f>> \o s \in Seq(Frame)
           /\ Len(<<f>> \o s) = Len(s) + 1
           /\ (<<f>> \o s)[1] = f
           /\ \A i \in 2..(Len(s) + 1) : (<<f>> \o s)[i] = s[i - 1]
<1>1. <<f>> \in Seq(Frame) /\ Len(<<f>>) = 1 /\ <<f>>[1] = f  OBVIOUS
<1>2. Len(s) \in Nat  OBVIOUS
<1>3. <<f>> \o s \in Seq(Frame) /\ Len(<<f>> \o s) = Len(s) + 1  OBVIOUS
<1>4. \A i \in 1..(1 + Len(s)) : (<<f>> \o s)[i] = IF i <= 1 THEN <<f>>[i] ELSE s[i - 1]
  BY <1>1, ConcatProperties
<1>5. (<<f>> \o s)[1] = f  BY <1>1, <1>2, <1>4
<1>6. ASSUME NEW i \in 2..(Len(s) + 1) PROVE (<<f>> \o s)[i] = s[i - 1]
  BY <1>2, <1>4
<1> QED  BY <1>3, <1>5, <1>6

(* The stack with the innermost frame moved on. *)
LEMMA LeaveFrames ==
    ASSUME RingInv, Len(stack) > 0, NEW where \in {"run", "pause", "tail", "return"}
    PROVE  /\ Leave(where) \in Seq(Frame)
           /\ Len(Leave(where)) = Len(stack)
           /\ Leave(where)[1] = [stack[1] EXCEPT !.at = where]
           /\ \A i \in 2..Len(stack) : Leave(where)[i] = stack[i]
<1>1. stack \in Seq(Frame) /\ Len(stack) \in Nat  BY DEF RingInv, RingTypeOK
<1>2. Head(stack) = stack[1] /\ stack[1] \in Frame  BY <1>1, FramesOfStack
<1>3. /\ Tail(stack) \in Seq(Frame) /\ Len(Tail(stack)) = Len(stack) - 1
      /\ \A i \in 1..(Len(stack) - 1) : Tail(stack)[i] = stack[i + 1]
  BY <1>1
<1>4. [stack[1] EXCEPT !.at = where] \in Frame  BY <1>2 DEF Frame
<1>5. Leave(where) = <<[stack[1] EXCEPT !.at = where]>> \o Tail(stack)  BY <1>2 DEF Leave
<1>6. /\ Leave(where) \in Seq(Frame) /\ Len(Leave(where)) = (Len(stack) - 1) + 1
      /\ Leave(where)[1] = [stack[1] EXCEPT !.at = where]
      /\ \A i \in 2..((Len(stack) - 1) + 1) : Leave(where)[i] = Tail(stack)[i - 1]
  BY <1>3, <1>4, <1>5, FrameOnTop
<1>7. (Len(stack) - 1) + 1 = Len(stack)  BY <1>1
<1>8. \A i \in 2..Len(stack) : Tail(stack)[i - 1] = stack[i]
  <2> SUFFICES ASSUME NEW i \in 2..Len(stack) PROVE Tail(stack)[i - 1] = stack[i]
    OBVIOUS
  <2>1. i - 1 \in 1..(Len(stack) - 1) /\ (i - 1) + 1 = i  BY <1>1
  <2> QED  BY <1>3, <2>1
<1> QED  BY <1>6, <1>7, <1>8

(* The stack with a task called on top. *)
LEMMA EnterFrames ==
    ASSUME RingInv, Len(stack) > 0, NEW t \in Tasks, NEW from \in {"pause", "tail"}, Enter(t, from)
    PROVE  /\ stack' \in Seq(Frame)
           /\ Len(stack') = Len(stack) + 1
           /\ stack'[1] = [task |-> t, at |-> "run"]
           /\ stack'[2] = [stack[1] EXCEPT !.at = from]
           /\ \A i \in 3..(Len(stack) + 1) : stack'[i] = stack[i - 1]
<1> DEFINE left == Leave(from)
<1>1. /\ left \in Seq(Frame) /\ Len(left) = Len(stack)
      /\ left[1] = [stack[1] EXCEPT !.at = from]
      /\ \A i \in 2..Len(stack) : left[i] = stack[i]
  BY LeaveFrames
<1>2. Len(stack) \in Nat  BY FramesOfStack
<1>3. [task |-> t, at |-> "run"] \in Frame  BY DEF Frame
<1>4. stack' = <<[task |-> t, at |-> "run"]>> \o left  BY DEF Enter
<1> HIDE DEF left
<1>5. /\ stack' \in Seq(Frame) /\ Len(stack') = Len(stack) + 1
      /\ stack'[1] = [task |-> t, at |-> "run"]
      /\ \A i \in 2..(Len(stack) + 1) : stack'[i] = left[i - 1]
  BY <1>1, <1>3, <1>4, FrameOnTop
<1>6. stack'[2] = left[1]  BY <1>2, <1>5
<1>7. \A i \in 3..(Len(stack) + 1) : left[i - 1] = stack[i - 1]  BY <1>1, <1>2
<1>8. \A i \in 3..(Len(stack) + 1) : stack'[i] = left[i - 1]  BY <1>2, <1>5
<1> QED  BY <1>1, <1>5, <1>6, <1>7, <1>8
LEMMA RingInvInit == RingInit => RingInv
<1> SUFFICES ASSUME RingInit PROVE RingInv
  OBVIOUS
<1>1. 0 \in Tasks  BY RingAssumption DEF Tasks
<1>2. /\ mState = [t \in Tasks |-> IF t = 0 THEN "EXECUTING" ELSE "INITIALISED"]
      /\ stack = <<[task |-> 0, at |-> "run"]>>
      /\ pauses = [t \in Tasks |-> 0]
      /\ runs = [t \in Tasks |-> IF t = 0 THEN 1 ELSE 0]
  BY DEF RingInit
<1>3. Len(stack) = 1 /\ stack[1] = [task |-> 0, at |-> "run"]  BY <1>2
<1>4. [task |-> 0, at |-> "run"] \in Frame  BY <1>1 DEF Frame
<1>5. stack \in Seq(Frame)  BY <1>2, <1>4
<1>6. RingTypeOK  BY <1>2, <1>5, RingAssumption DEF RingTypeOK
<1>7. \A i \in 1..Len(stack) : i = 1  BY <1>3
<1>8. FramesInOrder /\ InnermostRuns /\ FramesMatchStates
  BY <1>1, <1>2, <1>3, <1>7 DEF FramesInOrder, InnermostRuns, FramesMatchStates
<1>9. \A t \in Tasks : t >= 1 => mState[t] = "INITIALISED"  BY <1>2
<1>10. OffTheStack /\ UnstartedAbove
  BY <1>3, <1>9 DEF OffTheStack, UnstartedAbove, Started
<1>11. RunOnce  BY <1>2 DEF RunOnce, Started
<1> QED  BY <1>6, <1>8, <1>10, <1>11 DEF RingInv

(* A step that calls the next task, from a pause or from the end.           *)
LEMMA EnterStep ==
    ASSUME RingInv, NEW t \in Tasks, Running(t), ~Started(mOther(t)),
           NEW from, NEW state,
           \/ from = "pause" /\ state = "PAUSED"
           \/ from = "tail" /\ state = "COMPLETE",
           mState' = [mState EXCEPT ![t] = state, ![mOther(t)] = "EXECUTING"],
           Enter(mOther(t), from),
           pauses' \in [Tasks -> 0..MaxPauses]
    PROVE  RingInv'
<1> DEFINE next == mOther(t)
<1>1. next = t + 1 /\ next = Len(stack)  BY NextUnstarted
<1>2. next \in Tasks  BY NextTask
<1>3. /\ Len(stack) > 0 /\ t = Len(stack) - 1 /\ Len(stack) \in Nat
      /\ stack[1] = [task |-> t, at |-> "run"]
  BY RunningTask, FramesOfStack
<1>4. /\ stack' \in Seq(Frame)
      /\ Len(stack') = Len(stack) + 1
      /\ stack'[1] = [task |-> next, at |-> "run"]
      /\ stack'[2] = [stack[1] EXCEPT !.at = from]
      /\ \A i \in 3..(Len(stack) + 1) : stack'[i] = stack[i - 1]
  BY <1>2, <1>3, EnterFrames
<1>5. stack'[2] = [task |-> t, at |-> from]  BY <1>3, <1>4
<1>6. /\ mState \in [Tasks -> {"INITIALISED", "EXECUTING", "PAUSED", "COMPLETE"}]
      /\ runs \in [Tasks -> 0..1]
  BY DEF RingInv, RingTypeOK
<1>7. mState[next] = "INITIALISED"  BY DEF Started
<1>8. mState[t] \in {"EXECUTING", "PAUSED"}  BY RunningTask
<1>9. t # next  BY <1>7, <1>8
<1>10. /\ mState'[t] = state /\ mState'[next] = "EXECUTING"
       /\ \A u \in Tasks : u # t /\ u # next => mState'[u] = mState[u]
  BY <1>2, <1>6, <1>9
<1>11. runs' = [runs EXCEPT ![next] = @ + 1]  BY DEF Enter
<1>12. runs[next] = 0  BY <1>2, <1>7 DEF RingInv, RunOnce, Started
<1> HIDE DEF next
<1>13. RingTypeOK'
  <2>1. mState' \in [Tasks -> {"INITIALISED", "EXECUTING", "PAUSED", "COMPLETE"}]
    BY <1>6 DEF next
  <2>2. runs' \in [Tasks -> 0..1]  BY <1>2, <1>6, <1>11, <1>12 DEF next
  <2> QED  BY <1>4, <2>1, <2>2 DEF RingTypeOK
<1>grown. Len(stack') = Len(stack) + 1  BY <1>4
<1>14. \A i \in 3..Len(stack') : i - 1 \in 2..Len(stack) /\ stack'[i] = stack[i - 1]
  BY <1>3, <1>4
<1>15. \A i \in 1..Len(stack') : i = 1 \/ i = 2 \/ i \in 3..Len(stack')
  BY <1>3, <1>4
<1>16. FramesInOrder'
  <2>1. \A i \in 2..Len(stack) : stack[i].task = Len(stack) - i
    BY <1>3 DEF RingInv, FramesInOrder
  <2>2. ASSUME NEW i \in 3..Len(stack') PROVE stack'[i].task = Len(stack') - i
    <3>1. i - 1 \in 2..Len(stack) /\ stack'[i] = stack[i - 1]  BY <1>14
    <3>2. stack[i - 1].task = Len(stack) - (i - 1)  BY <2>1, <3>1
    <3>3. Len(stack) - (i - 1) = Len(stack') - i  BY <1>3, <1>grown
    <3> QED  BY <3>1, <3>2, <3>3
  <2>3. stack'[1].task = Len(stack') - 1  BY <1>1, <1>3, <1>4
  <2>4. stack'[2].task = Len(stack') - 2  BY <1>3, <1>4, <1>5
  <2> QED  BY <1>15, <2>2, <2>3, <2>4 DEF FramesInOrder
<1>17. InnermostRuns'
  <2>1. \A i \in 2..Len(stack) : stack[i].at \in {"pause", "tail"}
    BY <1>3 DEF RingInv, InnermostRuns
  <2>2. \A i \in 3..Len(stack') : stack'[i].at \in {"pause", "tail"}  BY <1>14, <2>1
  <2>3. stack'[1].at = "run" /\ stack'[2].at \in {"pause", "tail"}  BY <1>4, <1>5
  <2> QED  BY <1>15, <2>2, <2>3 DEF InnermostRuns
<1>18. FramesMatchStates'
  <2>1. ASSUME NEW i \in 3..Len(stack')
        PROVE  mState'[stack'[i].task] \in IF stack'[i].at \in {"run", "pause"}
                                            THEN {"EXECUTING", "PAUSED"} ELSE {"COMPLETE"}
    <3>1. i - 1 \in 2..Len(stack) /\ i - 1 \in 1..Len(stack) /\ stack'[i] = stack[i - 1]
      BY <1>3, <1>14
    <3>2. stack[i - 1].task = Len(stack) - (i - 1)  BY <3>1 DEF RingInv, FramesInOrder
    <3>3. stack[i - 1].task # t /\ stack[i - 1].task # next  BY <1>1, <1>3, <3>1, <3>2
    <3>4. stack[i - 1].task \in Tasks  BY <3>1, FramesOfStack
    <3>5. mState'[stack[i - 1].task] = mState[stack[i - 1].task]  BY <1>10, <3>3, <3>4
    <3> QED  BY <3>1, <3>5 DEF RingInv, FramesMatchStates
  <2>2. mState'[stack'[1].task] = "EXECUTING" /\ stack'[1].at = "run"  BY <1>4, <1>10
  <2>3. mState'[stack'[2].task] = state /\ stack'[2].at = from  BY <1>5, <1>10
  <2>4. state \in IF from \in {"run", "pause"} THEN {"EXECUTING", "PAUSED"} ELSE {"COMPLETE"}
    OBVIOUS
  <2>5. ASSUME NEW i \in 1..Len(stack')
        PROVE  mState'[stack'[i].task] \in IF stack'[i].at \in {"run", "pause"}
                                            THEN {"EXECUTING", "PAUSED"} ELSE {"COMPLETE"}
    <3>1. CASE i = 1  BY <2>2, <3>1
    <3>2. CASE i = 2  BY <2>3, <2>4, <3>2
    <3>3. CASE i \in 3..Len(stack')  BY <2>1, <3>3
    <3> QED  BY <1>15, <3>1, <3>2, <3>3
  <2> QED  BY <2>5 DEF FramesMatchStates
<1>19. OffTheStack'
  <2>1. ASSUME NEW u \in Tasks, u >= Len(stack')
        PROVE  mState'[u] = mState[u] /\ u >= Len(stack)
    <3>1. u >= Len(stack) /\ u # t /\ u # next  BY <1>1, <1>3, <1>grown, <2>1 DEF Tasks
    <3> QED  BY <1>10, <3>1
  <2> QED  BY <2>1 DEF RingInv, OffTheStack
<1>20. RunOnce'
  <2> SUFFICES ASSUME NEW u \in Tasks
               PROVE  runs'[u] = IF mState'[u] # "INITIALISED" THEN 1 ELSE 0
    BY DEF RunOnce, Started
  <2>1. runs[u] = IF mState[u] # "INITIALISED" THEN 1 ELSE 0
    BY DEF RingInv, RunOnce, Started
  <2>2. CASE u = next  BY <1>6, <1>2, <1>10, <1>11, <1>12, <2>2
  <2>3. CASE u = t  BY <1>6, <1>8, <1>9, <1>10, <1>11, <2>1, <2>3
  <2>4. CASE u # next /\ u # t  BY <1>6, <1>10, <1>11, <2>1, <2>4
  <2> QED  BY <2>2, <2>3, <2>4
<1>21. UnstartedAbove'
  <2>1. Len(stack') > 0 /\ stack'[1].at = "run"  BY <1>3, <1>4
  <2>2. \A u \in Tasks : u >= Len(stack) => mState[u] = "INITIALISED"
    BY <1>2, <1>7 DEF RingInv, UnstartedAbove, Started
  <2>3. ASSUME NEW u \in Tasks, u >= Len(stack') PROVE mState'[u] = "INITIALISED"
    <3>1. u >= Len(stack) /\ u # t /\ u # next  BY <1>1, <1>3, <1>grown, <2>3 DEF Tasks
    <3> QED  BY <1>10, <2>2, <3>1
  <2> QED  BY <2>1, <2>3 DEF UnstartedAbove, Started
<1> QED  BY <1>13, <1>16, <1>17, <1>18, <1>19, <1>20, <1>21 DEF RingInv

(* Once the next task of the running one has been started, all have.        *)
LEMMA AllStarted ==
    ASSUME RingInv, NEW t \in Tasks, Running(t), Started(mOther(t))
    PROVE  \A u \in Tasks : Started(u)
BY NextUnstarted

(* A pause that calls nothing changes states of tasks that are running or   *)
(* paused to states of such tasks.                                          *)
LEMMA PauseStays ==
    ASSUME RingInv, \A u \in Tasks : Started(u),
           UNCHANGED <<stack, runs>>,
           pauses' \in [Tasks -> 0..MaxPauses],
           mState' \in [Tasks -> {"INITIALISED", "EXECUTING", "PAUSED", "COMPLETE"}],
           \A u \in Tasks : mState'[u] = mState[u]
                            \/ {mState[u], mState'[u]} \subseteq {"EXECUTING", "PAUSED"}
    PROVE  RingInv'
<1>1. RingTypeOK'  BY DEF RingInv, RingTypeOK
<1>2. FramesInOrder' /\ InnermostRuns'  BY DEF RingInv, FramesInOrder, InnermostRuns
<1>3. FramesMatchStates'
  <2>1. \A i \in 1..Len(stack) : stack[i].task \in Tasks  BY FramesOfStack
  <2> QED  BY <2>1 DEF RingInv, FramesMatchStates
<1>4. OffTheStack'  BY DEF RingInv, OffTheStack
<1>5. RunOnce' /\ UnstartedAbove'
  <2>1. \A u \in Tasks : mState'[u] # "INITIALISED"  BY DEF Started
  <2> QED  BY <2>1 DEF RingInv, RunOnce, UnstartedAbove, Started
<1> QED  BY <1>1, <1>2, <1>3, <1>4, <1>5 DEF RingInv

LEMMA PauseStep ==
    ASSUME RingInv, NEW t \in Tasks, Pause(t)
    PROVE  RingInv'
<1> DEFINE next == mOther(t)
           paused == [mState EXCEPT ![t] = "PAUSED"]
<1>1. /\ mState \in [Tasks -> {"INITIALISED", "EXECUTING", "PAUSED", "COMPLETE"}]
      /\ pauses \in [Tasks -> 0..MaxPauses]
  BY DEF RingInv, RingTypeOK
<1>2. Running(t) /\ mState[t] \in {"EXECUTING", "PAUSED"} /\ next \in Tasks
  BY RunningTask, NextTask DEF Pause
<1>3. pauses' \in [Tasks -> 0..MaxPauses]  BY <1>1, RingAssumption DEF Pause
<1>4. CASE paused[next] = "INITIALISED"
  <2>1. next # t  BY <1>1, <1>4
  <2>2. ~Started(mOther(t))  BY <1>1, <1>4, <2>1 DEF Started
  <2>3. mState' = [paused EXCEPT ![next] = "EXECUTING"] /\ Enter(mOther(t), "pause")
    BY <1>4 DEF Pause
  <2>4. mState' = [mState EXCEPT ![t] = "PAUSED", ![mOther(t)] = "EXECUTING"]  BY <2>3
  <2> QED  BY <1>2, <1>3, <2>2, <2>3, <2>4, EnterStep
<1>5. CASE paused[next] # "INITIALISED"
  <2>1. Started(mOther(t))  BY <1>1, <1>2, <1>5 DEF Started
  <2>2. \A u \in Tasks : Started(u)  BY <1>2, <2>1, AllStarted
  <2>3. UNCHANGED <<stack, runs>>  BY <1>5 DEF Pause
  <2>4. CASE paused[next] = "PAUSED"
    <3>1. mState' = [paused EXCEPT ![next] = "EXECUTING"]  BY <2>4 DEF Pause
    <3>2. mState[next] \in {"EXECUTING", "PAUSED"}  BY <1>1, <1>2, <2>4
    <3>3. mState' \in [Tasks -> {"INITIALISED", "EXECUTING", "PAUSED", "COMPLETE"}]
      BY <1>1, <3>1
    <3>4. \A u \in Tasks : mState'[u] = mState[u]
                            \/ {mState[u], mState'[u]} \subseteq {"EXECUTING", "PAUSED"}
      BY <1>1, <1>2, <3>1, <3>2
    <3> QED  BY <1>3, <2>2, <2>3, <3>3, <3>4, PauseStays
  <2>5. CASE paused[next] # "PAUSED"
    <3>1. mState' = paused  BY <1>5, <2>5 DEF Pause
    <3>2. mState' \in [Tasks -> {"INITIALISED", "EXECUTING", "PAUSED", "COMPLETE"}]
      BY <1>1, <3>1
    <3>3. \A u \in Tasks : mState'[u] = mState[u]
                            \/ {mState[u], mState'[u]} \subseteq {"EXECUTING", "PAUSED"}
      BY <1>1, <1>2, <3>1
    <3> QED  BY <1>3, <2>2, <2>3, <3>2, <3>3, PauseStays
  <2> QED  BY <2>4, <2>5
<1> QED  BY <1>4, <1>5

LEMMA CompleteStep ==
    ASSUME RingInv, NEW t \in Tasks, Complete(t)
    PROVE  RingInv'
<1> DEFINE next == mOther(t)
           done == [mState EXCEPT ![t] = "COMPLETE"]
<1>1. /\ mState \in [Tasks -> {"INITIALISED", "EXECUTING", "PAUSED", "COMPLETE"}]
      /\ pauses \in [Tasks -> 0..MaxPauses]
      /\ runs \in [Tasks -> 0..1]
  BY DEF RingInv, RingTypeOK
<1>2. /\ Running(t) /\ next \in Tasks
      /\ mState[t] \in {"EXECUTING", "PAUSED"}
      /\ Len(stack) > 0 /\ t = Len(stack) - 1 /\ Len(stack) \in Nat
      /\ stack[1] = [task |-> t, at |-> "run"]
  BY RunningTask, NextTask, FramesOfStack DEF Complete
<1>3. pauses' = pauses  BY DEF Complete
<1>4. CASE done[next] = "INITIALISED"
  <2>1. next # t  BY <1>1, <1>4
  <2>2. ~Started(mOther(t))  BY <1>1, <1>4, <2>1 DEF Started
  <2>3. mState' = [done EXCEPT ![next] = "EXECUTING"] /\ Enter(mOther(t), "tail")
    BY <1>4 DEF Complete
  <2>4. mState' = [mState EXCEPT ![t] = "COMPLETE", ![mOther(t)] = "EXECUTING"]  BY <2>3
  <2> QED  BY <1>1, <1>2, <1>3, <2>2, <2>3, <2>4, EnterStep
<1>5. CASE done[next] # "INITIALISED"
  <2>1. Started(mOther(t))  BY <1>1, <1>2, <1>5 DEF Started
  <2>2. \A u \in Tasks : mState[u] # "INITIALISED"  BY <1>2, <2>1, AllStarted DEF Started
  <2>3. mState' = done /\ stack' = Leave("return") /\ runs' = runs  BY <1>5 DEF Complete
  <2>4. /\ stack' \in Seq(Frame) /\ Len(stack') = Len(stack)
        /\ stack'[1] = [stack[1] EXCEPT !.at = "return"]
        /\ \A i \in 2..Len(stack) : stack'[i] = stack[i]
    BY <1>2, <2>3, LeaveFrames
  <2>5. stack'[1] = [task |-> t, at |-> "return"]  BY <1>2, <2>4
  <2>6. /\ mState'[t] = "COMPLETE"
        /\ \A u \in Tasks : u # t => mState'[u] = mState[u]
    BY <1>1, <2>3
  <2>7. \A u \in Tasks : mState'[u] # "INITIALISED"  BY <2>2, <2>6
  <2>8. \A i \in 1..Len(stack') : i = 1 \/ i \in 2..Len(stack)  BY <1>2, <2>4
  <2>9. RingTypeOK'  BY <1>1, <1>3, <2>3, <2>4 DEF RingTypeOK
  <2>10. FramesInOrder'
    BY <1>2, <2>4, <2>5, <2>8 DEF RingInv, FramesInOrder
  <2>11. InnermostRuns'
    BY <2>4, <2>5, <2>8 DEF RingInv, InnermostRuns
  <2>12. FramesMatchStates'
    <3>1. ASSUME NEW i \in 2..Len(stack)
          PROVE  mState'[stack'[i].task] \in IF stack'[i].at \in {"run", "pause"}
                                              THEN {"EXECUTING", "PAUSED"} ELSE {"COMPLETE"}
      <4>1. i \in 1..Len(stack)  BY <1>2
      <4>2. stack[i].task = Len(stack) - i /\ stack[i].task \in Tasks
        BY <4>1, FramesOfStack DEF RingInv, FramesInOrder
      <4>3. stack[i].task # t  BY <1>2, <4>2
      <4>4. mState'[stack[i].task] = mState[stack[i].task]  BY <2>6, <4>2, <4>3
      <4> QED  BY <2>4, <4>1, <4>4 DEF RingInv, FramesMatchStates
    <3> QED  BY <2>5, <2>6, <2>8, <3>1 DEF FramesMatchStates
  <2>13. OffTheStack'
    BY <1>2, <2>4, <2>6 DEF RingInv, OffTheStack, Tasks
  <2>14. RunOnce' /\ UnstartedAbove'
    BY <2>2, <2>3, <2>7 DEF RingInv, RunOnce, UnstartedAbove, Started
  <2> QED  BY <2>9, <2>10, <2>11, <2>12, <2>13, <2>14 DEF RingInv
<1> QED  BY <1>4, <1>5

LEMMA ReturnStep ==
    ASSUME RingInv, Return
    PROVE  RingInv'
<1>1. /\ Len(stack) > 0 /\ Len(stack) \in Nat /\ stack \in Seq(Frame)
      /\ stack[1].at = "return"
  BY FramesOfStack DEF Return, RingInv, RingTypeOK
<1>2. UNCHANGED <<mState, pauses, runs>>  BY DEF Return
<1>3. \A u \in Tasks : Started(u)  BY <1>1 DEF RingInv, UnstartedAbove
<1>4. stack[1].task = Len(stack) - 1 /\ mState[stack[1].task] = "COMPLETE"
  BY <1>1 DEF RingInv, FramesInOrder, FramesMatchStates
<1>5. RunOnce' /\ UnstartedAbove'
  BY <1>2, <1>3 DEF RingInv, RunOnce, UnstartedAbove, Started
<1>6. CASE Len(stack) = 1
  <2>1. stack' = << >>  BY <1>6 DEF Return
  <2>2. RingTypeOK'  BY <1>2, <2>1 DEF RingInv, RingTypeOK
  <2>3. FramesInOrder' /\ InnermostRuns' /\ FramesMatchStates'
    BY <2>1 DEF FramesInOrder, InnermostRuns, FramesMatchStates
  <2>4. \A u \in Tasks : u = 0 \/ u >= 1  BY RingAssumption DEF Tasks
  <2>5. OffTheStack'
    BY <1>2, <1>4, <1>6, <2>4 DEF RingInv, OffTheStack
  <2> QED  BY <1>5, <2>2, <2>3, <2>5 DEF RingInv
<1>7. CASE Len(stack) > 1
  <2> DEFINE below == Tail(stack)
  <2>1. /\ below \in Seq(Frame) /\ Len(below) = Len(stack) - 1
        /\ \A i \in 1..(Len(stack) - 1) : below[i] = stack[i + 1]
    BY <1>1
  <2>2. stack' = [below EXCEPT ![1].at = IF @ = "pause" THEN "run" ELSE "return"]
    BY <1>7 DEF Return
  <2>3. 1 \in DOMAIN below  BY <1>1, <1>7, <2>1
  <2>4. below[1] \in Frame  BY <2>1, <2>3
  <2> HIDE DEF below
  <2>5. /\ stack' \in Seq(Frame) /\ Len(stack') = Len(stack) - 1
        /\ stack'[1] = [below[1] EXCEPT !.at = IF @ = "pause" THEN "run" ELSE "return"]
        /\ \A i \in 2..(Len(stack) - 1) : stack'[i] = below[i]
    <3> DEFINE top == [below[1] EXCEPT !.at = IF @ = "pause" THEN "run" ELSE "return"]
    <3>1. top \in Frame  BY <2>4 DEF Frame
    <3>2. stack' = [below EXCEPT ![1] = top]  BY <2>2
    <3> HIDE DEF top
    <3>3. stack' \in Seq(Frame) /\ Len(stack') = Len(below)  BY <2>1, <2>3, <3>1, <3>2
    <3>4. stack'[1] = top  BY <2>3, <3>2
    <3>5. \A i \in 2..(Len(stack) - 1) : stack'[i] = below[i]  BY <1>1, <2>1, <3>2
    <3> QED  BY <2>1, <3>3, <3>4, <3>5 DEF top
  <2>6. stack[2].at \in {"pause", "tail"}  BY <1>1, <1>7 DEF RingInv, InnermostRuns
  <2>7. /\ stack'[1].task = stack[2].task
        /\ stack'[1].at = IF stack[2].at = "pause" THEN "run" ELSE "return"
    <3>1. below[1] = stack[2]  BY <1>1, <1>7, <2>1
    <3> QED  BY <2>4, <2>5, <3>1 DEF Frame
  <2>8. \A i \in 2..(Len(stack) - 1) : stack'[i] = stack[i + 1] /\ i + 1 \in 2..Len(stack)
    BY <1>1, <2>1, <2>5
  <2>9. \A i \in 1..Len(stack') : i = 1 \/ i \in 2..(Len(stack) - 1)  BY <1>1, <2>5
  <2>10. RingTypeOK'  BY <1>2, <2>5 DEF RingInv, RingTypeOK
  <2>11. FramesInOrder'
    <3>1. \A i \in 2..Len(stack) : stack[i].task = Len(stack) - i
      BY <1>1 DEF RingInv, FramesInOrder
    <3>2. stack'[1].task = Len(stack') - 1
      <4>1. stack[2].task = Len(stack) - 2  BY <1>1, <1>7, <3>1
      <4> QED  BY <1>1, <2>5, <2>7, <4>1
    <3>3. \A i \in 2..(Len(stack) - 1) : stack'[i].task = Len(stack') - i
      BY <1>1, <2>5, <2>8, <3>1
    <3> QED  BY <2>9, <3>2, <3>3 DEF FramesInOrder
  <2>12. InnermostRuns'
    <3>1. \A i \in 2..Len(stack) : stack[i].at \in {"pause", "tail"}
      BY <1>1 DEF RingInv, InnermostRuns
    <3>2. \A i \in 2..(Len(stack) - 1) : stack'[i].at \in {"pause", "tail"}  BY <2>8, <3>1
    <3>3. stack'[1].at \in {"run", "return"}  BY <2>7
    <3> QED  BY <2>9, <3>2, <3>3 DEF InnermostRuns
  <2>13. FramesMatchStates'
    <3>1. \A i \in 2..Len(stack) :
            mState[stack[i].task] \in IF stack[i].at \in {"run", "pause"}
                                      THEN {"EXECUTING", "PAUSED"} ELSE {"COMPLETE"}
      BY <1>1 DEF RingInv, FramesMatchStates
    <3>2. \A i \in 2..(Len(stack) - 1) :
            mState'[stack'[i].task] \in IF stack'[i].at \in {"run", "pause"}
                                        THEN {"EXECUTING", "PAUSED"} ELSE {"COMPLETE"}
      BY <1>2, <2>8, <3>1
    <3>3. 2 \in 2..Len(stack)  BY <1>1, <1>7
    <3>4. mState'[stack'[1].task] \in IF stack'[1].at \in {"run", "pause"}
                                      THEN {"EXECUTING", "PAUSED"} ELSE {"COMPLETE"}
      BY <1>2, <2>6, <2>7, <3>1, <3>3
    <3> QED  BY <2>9, <3>2, <3>4 DEF FramesMatchStates
  <2>14. OffTheStack'
    <3>1. ASSUME NEW u \in Tasks, u >= Len(stack')
          PROVE  u = Len(stack) - 1 \/ u >= Len(stack)
      BY <1>1, <2>5, <3>1 DEF Tasks
    <3>2. ASSUME NEW u \in Tasks, u >= Len(stack') PROVE mState'[u] \in {"INITIALISED", "COMPLETE"}
      <4>1. CASE u = Len(stack) - 1  BY <1>2, <1>4, <4>1
      <4>2. CASE u >= Len(stack)  BY <1>2, <4>2 DEF RingInv, OffTheStack
      <4> QED  BY <3>1, <3>2, <4>1, <4>2
    <3> QED  BY <3>2 DEF OffTheStack
  <2> QED  BY <1>5, <2>10, <2>11, <2>12, <2>13, <2>14 DEF RingInv
<1>8. Len(stack) = 1 \/ Len(stack) > 1
  <2>1. \A n \in Nat : n > 0 => n = 1 \/ n > 1  OBVIOUS
  <2> QED  BY <1>1, <2>1
<1> QED  BY <1>6, <1>7, <1>8

(* OneFrameEach and AllRanOnce are in the invariant.                        *)
LEMMA RingInvRunsAll == RingInv => RingRunsAll
<1> SUFFICES ASSUME RingInv PROVE RingRunsAll
  OBVIOUS
<1>1. Len(stack) \in 0..N /\ DOMAIN stack = 1..Len(stack)
  BY FramesOfStack DEF RingInv, RingTypeOK
<1>2. \A i \in 1..Len(stack) : stack[i].task = Len(stack) - i /\ stack[i] \in Frame
  BY FramesOfStack DEF RingInv, FramesInOrder
<1>3. \A i, j \in DOMAIN stack : stack[i].task = stack[j].task => i = j
  BY <1>1, <1>2
<1>4. ASSUME NEW t \in Tasks
      PROVE  mState[t] \in {"EXECUTING", "PAUSED"} <=>
               \E i \in DOMAIN stack : stack[i].task = t /\ stack[i].at \in {"run", "pause"}
  <2>1. ASSUME mState[t] \in {"EXECUTING", "PAUSED"}
        PROVE  \E i \in DOMAIN stack : stack[i].task = t /\ stack[i].at \in {"run", "pause"}
    <3>1. t < Len(stack)  BY <1>1, <2>1 DEF RingInv, OffTheStack, Tasks
    <3>2. Len(stack) - t \in 1..Len(stack)  BY <1>1, <3>1 DEF Tasks
    <3>3. stack[Len(stack) - t].task = t  BY <1>1, <1>2, <3>2 DEF Tasks
    <3>4. stack[Len(stack) - t].at \in {"run", "pause"}
      BY <2>1, <3>2, <3>3 DEF RingInv, FramesMatchStates
    <3> QED  BY <1>1, <3>2, <3>3, <3>4
  <2>2. ASSUME NEW i \in DOMAIN stack, stack[i].task = t, stack[i].at \in {"run", "pause"}
        PROVE  mState[t] \in {"EXECUTING", "PAUSED"}
    BY <1>1, <2>2 DEF RingInv, FramesMatchStates
  <2> QED  BY <2>1, <2>2
<1>5. AllRanOnce
  <2> SUFFICES ASSUME stack = << >>, NEW t \in Tasks PROVE mState[t] = "COMPLETE" /\ runs[t] = 1
    BY DEF AllRanOnce
  <2>1. Len(stack) = 0  OBVIOUS
  <2>2. Started(t)  BY <2>1 DEF RingInv, UnstartedAbove
  <2>3. t >= Len(stack)  BY <2>1, RingAssumption DEF Tasks
  <2> QED  BY <2>2, <2>3 DEF RingInv, OffTheStack, RunOnce, Started
<1> QED  BY <1>3, <1>4, <1>5 DEF RingRunsAll, OneFrameEach

(* No task of the ring is run twice or left out, and none has two frames,   *)
(* whatever the length of the ring and however often its tasks pause.       *)
THEOREM RingAlwaysRunsAll == RingSpec => []RingRunsAll
<1>1. RingInit => RingInv  BY RingInvInit
<1>2. RingInv /\ [RingNext]_ringVars => RingInv'
  <2> SUFFICES ASSUME RingInv, [RingNext]_ringVars PROVE RingInv'
    OBVIOUS
  <2>1. CASE UNCHANGED ringVars
    BY <2>1 DEF ringVars, RingInv, RingTypeOK, FramesInOrder, InnermostRuns, FramesMatchStates,
       OffTheStack, RunOnce, UnstartedAbove, Started
  <2>2. CASE RingNext  BY <2>2, PauseStep, CompleteStep, ReturnStep DEF RingNext
  <2> QED  BY <2>1, <2>2
<1>3. RingInv => RingRunsAll  BY RingInvRunsAll
<1> QED  BY <1>1, <1>2, <1>3, PTL DEF RingSpec
==============================================================================
