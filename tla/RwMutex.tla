-------------------------------- MODULE RwMutex ------------------------------
(***************************************************************************)
(* solaire::rw_mutex (parallel/rw_mutex.hpp) one atomic access at a time.  *)
(* mReaders and mWrite are atomics, but every operation tests them and     *)
(* acts on the answer later, so other threads come in between.  (The class *)
(* template is declared with a typo and does not compile as it stands; the *)
(* member functions are modelled as written.)                              *)
(*                                                                         *)
(* Threads use the mutex as its guards do: they unlock and demote what     *)
(* they locked, and promote only from a read lock.  The labels of pc are   *)
(* named for the next access; "idle", "reading" and "writing" are between  *)
(* two operations, and a thread at "threw" got std::runtime_error.         *)
(* MUTEX is external: a plain mutex.                                       *)
(***************************************************************************)
EXTENDS Integers, FiniteSets

CONSTANTS
    Threads,
    Programs,     \* what parts the threads may play: functions from threads to
                  \* the operations they begin
    CounterSize   \* 2^32 in the code: mReaders counts modulo this

ASSUME CounterAssumption == CounterSize \in Nat \ {0, 1}

ReadOperations == {"read_lock", "try_read_lock", "read_unlock"}
WriteOperations == {"write_lock", "try_write_lock", "write_unlock"}
AllOperations == ReadOperations \cup WriteOperations \cup {"write_promotion", "write_demotion"}

ASSUME OperationAssumption == Programs \subseteq [Threads -> SUBSET AllOperations]

VARIABLES
    Operations,\* the program, chosen at the start
    mReaders,
    mWrite,
    mLock,     \* the threads that hold the mutex
    pc,
    op         \* the operation a thread is in, or was in last

vars == <<Operations, mReaders, mWrite, mLock, pc, op>>

TypeOK ==
    /\ Operations \in [Threads -> SUBSET AllOperations]
    /\ mReaders \in 0..(CounterSize - 1)
    /\ mWrite \in {0, 1}
    /\ mLock \subseteq Threads
    /\ pc \in [Threads -> {"idle", "reading", "writing", "threw",
                          "r_test", "r_flag", "r_count", "r_lock", "r_set", "r_release",
                          "u_test", "u_count", "w_test", "w_lock", "w_flag",
                          "p_test", "p_wait", "p_count", "d_count", "x_flag", "x_release"}]
    /\ op \in [Threads -> AllOperations \cup {"none"}]

Init ==
    /\ Operations \in Programs
    /\ mReaders = 0
    /\ mWrite = 0
    /\ mLock = {}
    /\ pc = [t \in Threads |-> "idle"]
    /\ op = [t \in Threads |-> "none"]

------------------------------------------------------------------------------
(* Helpers: moving from one label to another, and the two kinds of access   *)
(* a step may make.                                                         *)

Step(t, from, to) ==
    /\ pc[t] = from
    /\ pc' = [pc EXCEPT ![t] = to]
    /\ UNCHANGED op

(* Mutant: a counter that does not wrap. *)
CountUnbounded(n) == mReaders' = mReaders + n /\ UNCHANGED <<mWrite, mLock>>

Count(n) == mReaders' = (mReaders + n) % CounterSize /\ UNCHANGED <<mWrite, mLock>>
Read == UNCHANGED <<mReaders, mWrite, mLock>>

Lock(t) == mLock = {} /\ mLock' = {t} /\ UNCHANGED <<mReaders, mWrite>>
Unlock(t) == mLock' = mLock \ {t} /\ UNCHANGED <<mReaders, mWrite>>

(* Where a thread may begin an operation, and with which access. *)
Entry ==
    [read_lock       |-> <<"idle", "r_test">>,
     try_read_lock   |-> <<"idle", "r_test">>,
     read_unlock     |-> <<"reading", "u_test">>,
     write_lock      |-> <<"idle", "w_test">>,
     try_write_lock  |-> <<"idle", "w_test">>,
     write_unlock    |-> <<"writing", "x_flag">>,
     write_promotion |-> <<"reading", "p_test">>,
     write_demotion  |-> <<"writing", "d_count">>]

Begin(t, o) ==
    /\ pc[t] = Entry[o][1]
    /\ pc' = [pc EXCEPT ![t] = Entry[o][2]]
    /\ op' = [op EXCEPT ![t] = o]
    /\ Read

------------------------------------------------------------------------------
(* read_lock and try_read_lock. *)

(* Mutant: && for ||, the fast path is for later readers only. *)
ReadLockTestAnd(t) ==
    \/ mReaders = 0 /\ Step(t, "r_test", "r_lock") /\ Read
    \/ mReaders > 0 /\ Step(t, "r_test", "r_flag") /\ Read
    \/ mWrite = 0 /\ Step(t, "r_flag", "r_count") /\ Read
    \/ mWrite = 1 /\ Step(t, "r_flag", "r_lock") /\ Read

ReadLockTest(t) ==
    \/ mReaders > 0 /\ Step(t, "r_test", "r_count") /\ Read
    \/ mReaders = 0 /\ Step(t, "r_test", "r_flag") /\ Read
    \/ mWrite = 0 /\ Step(t, "r_flag", "r_count") /\ Read
    \/ mWrite = 1 /\ Step(t, "r_flag", "r_lock") /\ Read

ReadLockCount(t) == Step(t, "r_count", "reading") /\ Count(1)

ReadLockBehindWriter(t) ==
    \/ Step(t, "r_lock", "r_set") /\ Lock(t)
    \/ mLock # {} /\ op[t] = "try_read_lock" /\ Step(t, "r_lock", "idle") /\ Read
    \/ Step(t, "r_set", "r_release") /\ mReaders' = 1 /\ UNCHANGED <<mWrite, mLock>>
    \/ Step(t, "r_release", "reading") /\ Unlock(t)

(* read_unlock, and the same test at the start of write_promotion. *)
ReadUnlock(t) ==
    \/ mReaders = 0 /\ (Step(t, "u_test", "threw") \/ Step(t, "p_test", "threw")) /\ Read
    \/ mReaders > 0 /\ Step(t, "u_test", "u_count") /\ Read
    \/ Step(t, "u_count", "idle") /\ Count(-1)

(* write_lock and try_write_lock.  The spin is a wait. *)
WriteLockTest(t) ==
    \/ mReaders = 0 /\ Step(t, "w_test", "w_lock") /\ Read
    \/ mReaders > 0 /\ op[t] = "try_write_lock" /\ Step(t, "w_test", "idle") /\ Read

(* Mutant: the result of try_lock is not looked at. *)
WriteLockTakeIgnoresFailure(t) ==
    \/ op[t] # "write_promotion" /\ Step(t, "w_lock", "w_flag") /\ Lock(t)
    \/ mLock # {} /\ op[t] = "try_write_lock" /\ Step(t, "w_lock", "w_flag") /\ Read
    \/ Step(t, "w_flag", "writing") /\ mWrite' = 1 /\ UNCHANGED <<mReaders, mLock>>

WriteLockTake(t) ==
    \/ op[t] # "write_promotion" /\ Step(t, "w_lock", "w_flag") /\ Lock(t)
    \/ mLock # {} /\ op[t] = "try_write_lock" /\ Step(t, "w_lock", "idle") /\ Read
    \/ Step(t, "w_flag", "writing") /\ mWrite' = 1 /\ UNCHANGED <<mReaders, mLock>>

(* Mutant: a reader that becomes a writer stays counted. *)
WritePromotionCounted(t) ==
    \/ mReaders > 0 /\ Step(t, "p_test", "p_wait") /\ Read
    \/ mReaders = 1 /\ Step(t, "p_wait", "w_lock") /\ Read
    \/ op[t] = "write_promotion" /\ Step(t, "w_lock", "p_count") /\ Lock(t)
    \/ Step(t, "p_count", "w_flag") /\ Read

(* write_promotion: waits to be the only reader counted, then locks. *)
WritePromotion(t) ==
    \/ mReaders > 0 /\ Step(t, "p_test", "p_wait") /\ Read
    \/ mReaders = 1 /\ Step(t, "p_wait", "w_lock") /\ Read
    \/ op[t] = "write_promotion" /\ Step(t, "w_lock", "p_count") /\ Lock(t)
    \/ Step(t, "p_count", "w_flag") /\ Count(-1)

(* Mutant: write_demotion does not count the reader. *)
WriteUnlockUncounted(t) ==
    \/ Step(t, "d_count", "x_flag") /\ Read
    \/ Step(t, "x_flag", "x_release") /\ mWrite' = 0 /\ UNCHANGED <<mReaders, mLock>>
    \/ op[t] = "write_unlock" /\ Step(t, "x_release", "idle") /\ Unlock(t)
    \/ op[t] = "write_demotion" /\ Step(t, "x_release", "reading") /\ Unlock(t)

(* Mutant: the mutex is released before the flag is cleared. *)
WriteUnlockReleasesFirst(t) ==
    \/ Step(t, "d_count", "x_flag") /\ Count(1)
    \/ Step(t, "x_flag", "x_release") /\ Unlock(t)
    \/ op[t] = "write_unlock" /\ Step(t, "x_release", "idle") /\ mWrite' = 0 /\ UNCHANGED <<mReaders, mLock>>
    \/ op[t] = "write_demotion" /\ Step(t, "x_release", "reading") /\ mWrite' = 0 /\ UNCHANGED <<mReaders, mLock>>

(* write_unlock; write_demotion counts itself as a reader first. *)
WriteUnlock(t) ==
    \/ Step(t, "d_count", "x_flag") /\ Count(1)
    \/ Step(t, "x_flag", "x_release") /\ mWrite' = 0 /\ UNCHANGED <<mReaders, mLock>>
    \/ op[t] = "write_unlock" /\ Step(t, "x_release", "idle") /\ Unlock(t)
    \/ op[t] = "write_demotion" /\ Step(t, "x_release", "reading") /\ Unlock(t)

Next ==
    /\ UNCHANGED Operations
    /\ \E t \in Threads :
         \/ \E o \in Operations[t] : Begin(t, o)
         \/ ReadLockTest(t) \/ ReadLockCount(t) \/ ReadLockBehindWriter(t) \/ ReadUnlock(t)
         \/ WriteLockTest(t) \/ WriteLockTake(t) \/ WritePromotion(t) \/ WriteUnlock(t)

Spec == Init /\ [][Next]_vars

------------------------------------------------------------------------------

(* The sections of the code between a lock and the unlock that ends it. *)
Inside(t) == pc[t] \in {"r_set", "r_release", "p_count", "w_flag", "writing",
                       "d_count", "x_flag", "x_release"}

(* At most one thread is between a lock of MUTEX and its unlock, on any of  *)
(* the paths of write_lock, promotion, demotion and the slow path of        *)
(* read_lock; so no two threads write at once.                              *)
WritersExclude == \A s, t \in Threads : Inside(s) /\ Inside(t) => s = t

(* mWrite says that some thread writes or is about to stop: no reader's     *)
(* lock and no other writer's unlock clears it under a writer.              *)
FlagIsWriter ==
    mWrite = 1 <=> \E t \in Threads : pc[t] \in {"writing", "d_count", "x_flag"}

(* The threads that mReaders should count: from the increment on until the  *)
(* decrement.                                                               *)
Readers ==
    {t \in Threads :
        \/ pc[t] \in {"reading", "u_test", "u_count", "p_test", "p_wait", "p_count", "r_release"}
        \/ op[t] = "write_promotion" /\ pc[t] = "w_lock"
        \/ op[t] = "write_demotion" /\ pc[t] \in {"x_flag", "x_release"}}

(* Programs in which the count is right: every thread reads, and mReaders   *)
(* can count them; or one thread uses all operations and the others only    *)
(* write.  (A second thread that reads beside a writer may be behind it in  *)
(* read_lock when the first one counts itself: it sets mReaders to 1.)      *)
OnlyReads == \A t \in Threads : Operations[t] \subseteq ReadOperations
ReadersFit == IsFiniteSet(Threads) /\ Cardinality(Threads) < CounterSize
OneReads == \E r \in Threads : \A t \in Threads \ {r} : Operations[t] \subseteq WriteOperations

Exact == mReaders = Cardinality(Readers)

(* In such a program mReaders is the number of threads with a read lock,    *)
(* through the fast and the slow path of read_lock, promotion and demotion. *)
CountIsExact == (OnlyReads /\ ReadersFit) \/ OneReads => Exact

(* "Mutex is not read locked" (rw_mutex.hpp:46 and 84) is thrown at no      *)
(* thread that holds a read lock; only such threads get there.              *)
HolderNeverThrows == \A t \in Threads : pc[t] # "threw"

(* It is not where the count is right.                                      *)
CountedNeverThrows == (OnlyReads /\ ReadersFit) \/ OneReads => HolderNeverThrows
==============================================================================
