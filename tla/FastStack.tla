------------------------------ MODULE FastStack ------------------------------
(***************************************************************************)
(* solaire::fast_stack (core/fast_stack.hpp): CAPACITY values in place and *)
(* an index of a narrow type, of which nothing checks the ends.  The index *)
(* has IndexLimit values, 256 for the uint8_t it is unless asked for       *)
(* another type.  erase() does not compile, it names a SIZE there is not.  *)
(***************************************************************************)
EXTENDS Integers, Sequences

CONSTANTS
    StackValues,    \* the values pushed
    CAPACITY,       \* the template parameter
    IndexLimit,     \* number of values of INDEX_TYPE
    Unset           \* what an element is before a value is put there

ASSUME StackAssumption ==
    /\ CAPACITY \in Nat \ {0}
    /\ IndexLimit \in Nat \ {0, 1}
    /\ Unset \notin StackValues

VARIABLES
    mValues,        \* the array
    mStackSize,     \* mSize
    outOfRange      \* a value outside of the array has been used

stackVars == <<mValues, mStackSize, outOfRange>>

StackSlots == 0..(CAPACITY - 1)
StackIndices == 0..(IndexLimit - 1)

StackTypeOK ==
    /\ mValues \in [StackSlots -> StackValues \cup {Unset}]
    /\ mStackSize \in StackIndices
    /\ outOfRange \in BOOLEAN

FastStackInit ==
    /\ mValues = [i \in StackSlots |-> Unset]
    /\ mStackSize = 0
    /\ outOfRange = FALSE

Push(v) ==
    /\ ~outOfRange
    /\ mStackSize < CAPACITY
    /\ mValues' = [mValues EXCEPT ![mStackSize] = v]
    /\ mStackSize' = (mStackSize + 1) % IndexLimit
    /\ UNCHANGED outOfRange

(* Mutant: an index that has a sign. *)
PopBelowZero ==
    /\ ~outOfRange
    /\ mStackSize' = mStackSize - 1
    /\ outOfRange' = (mStackSize - 1 \notin StackSlots)
    /\ UNCHANGED mValues

(* Below zero the index goes on from the top of its type. *)
Pop ==
    /\ ~outOfRange
    /\ mStackSize' = (mStackSize - 1) % IndexLimit
    /\ outOfRange' = ((mStackSize - 1) % IndexLimit \notin StackSlots)
    /\ UNCHANGED mValues

(* Mutant: the last element stays in its own place too. *)
FastEraseKeepsLast(offset) ==
    /\ ~outOfRange
    /\ offset % IndexLimit < mStackSize
    /\ mValues' = [mValues EXCEPT ![offset % IndexLimit] = mValues[mStackSize - 1]]
    /\ UNCHANGED <<mStackSize, outOfRange>>

(* fast_erase of the element at an offset, up to that of end(): the offset  *)
(* is narrowed first, so that it may be another element's.                  *)
FastErase(offset) ==
    /\ ~outOfRange
    /\ offset % IndexLimit < mStackSize
    /\ mValues' = [mValues EXCEPT ![offset % IndexLimit] = mValues[mStackSize - 1]]
    /\ mStackSize' = mStackSize - 1
    /\ UNCHANGED outOfRange

ClearStack == ~outOfRange /\ mStackSize' = 0 /\ UNCHANGED <<mValues, outOfRange>>

FastStackNext ==
    \/ \E v \in StackValues : Push(v)
    \/ Pop
    \/ \E offset \in 0..CAPACITY : FastErase(offset)
    \/ ClearStack

FastStackSpec == FastStackInit /\ [][FastStackNext]_stackVars

------------------------------------------------------------------------------

(* All below the index has been pushed, unless the index went below zero.   *)
StackHoldsPushed ==
    ~outOfRange => \A i \in StackSlots : i < mStackSize => mValues[i] \in StackValues

StackContent == [i \in 1..mStackSize |-> mValues[i - 1]]
Stack == INSTANCE BoundedStack WITH content <- StackContent, Depth <- CAPACITY

(* Each call is the one of the same name of a bounded stack, fast_erase for *)
(* the element it is given, as long as the index can count to CAPACITY and  *)
(* nothing is popped from an empty stack.                                   *)
StackStep ==
    /\ \A v \in StackValues : Push(v) => Stack!Pushed(v)
    /\ Pop => mStackSize = 0 \/ Stack!Popped
    /\ \A offset \in 0..CAPACITY : FastErase(offset) => Stack!Taken(offset + 1)
    /\ ClearStack => Stack!Cleared

ImplementsStack == [][StackStep]_stackVars
==============================================================================
