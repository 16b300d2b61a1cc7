----------------------------- MODULE RwMutexProofs ---------------------------
(***************************************************************************)
(* Theorems about RwMutex, for every set of threads: writers exclude each  *)
(* other and mWrite stands for a writer, whatever operations are used; and *)
(* the count of readers is exact if no thread writes, and if one thread    *)
(* reads, writes, promotes and demotes and any number of others write.     *)
(***************************************************************************)
EXTENDS RwMutex, FiniteSetTheorems, TLAPS

(* Where the operations begin, spelled out: from "idle" or "reading" to a   *)
(* label outside the locked section, or from "writing" to one inside it.    *)
LEMMA EntryLabels ==
    ASSUME TypeOK, NEW t \in Threads, NEW o \in Operations[t]
    PROVE  /\ o \in AllOperations
           /\ \/ Entry[o][1] \in {"idle", "reading"}
                 /\ Entry[o][2] \in {"r_test", "u_test", "w_test", "p_test"}
              \/ Entry[o][1] = "writing" /\ Entry[o][2] \in {"x_flag", "d_count"}
  <1>1. o \in AllOperations
    BY DEF TypeOK
  <1> QED BY <1>1 DEF Entry, AllOperations, ReadOperations, WriteOperations

------------------------------------------------------------------------------

(* A step of one thread keeps pc and op what they are. *)
LEMMA StepTypes ==
    ASSUME TypeOK, NEW t \in Threads, NEW from, NEW to, Step(t, from, to),
           to \in {"idle", "reading", "writing", "threw",
                   "r_test", "r_flag", "r_count", "r_lock", "r_set", "r_release",
                   "u_test", "u_count", "w_test", "w_lock", "w_flag",
                   "p_test", "p_wait", "p_count", "d_count", "x_flag", "x_release"}
    PROVE  /\ pc' \in [Threads -> {"idle", "reading", "writing", "threw",
                          "r_test", "r_flag", "r_count", "r_lock", "r_set", "r_release",
                          "u_test", "u_count", "w_test", "w_lock", "w_flag",
                          "p_test", "p_wait", "p_count", "d_count", "x_flag", "x_release"}]
           /\ op' \in [Threads -> AllOperations \cup {"none"}]
  BY DEF TypeOK, Step

(* Counting keeps mReaders below CounterSize, also where it wraps. *)
LEMMA CountTypes ==
    ASSUME TypeOK, NEW n \in {-1, 1}, Count(n)
    PROVE  /\ mReaders' \in 0..(CounterSize - 1)
           /\ mWrite' \in {0, 1}
           /\ mLock' \subseteq Threads
  <1>1. mReaders + n \in Int /\ CounterSize \in Nat /\ CounterSize > 0
    BY CounterAssumption DEF TypeOK
  <1>2. (mReaders + n) % CounterSize \in 0..(CounterSize - 1)
    BY <1>1
  <1> QED BY <1>2 DEF TypeOK, Count

THEOREM TypeCorrect == Spec => []TypeOK
<1>1. Init => TypeOK
  BY CounterAssumption, OperationAssumption DEF Init, TypeOK
<1>2. TypeOK /\ [Next]_vars => TypeOK'
  <2> SUFFICES ASSUME TypeOK, [Next]_vars PROVE TypeOK'
    OBVIOUS
  <2>0. UNCHANGED Operations
    BY DEF Next, vars
  <2>1. CASE UNCHANGED vars
    BY <2>1 DEF vars, TypeOK
  <2>2. ASSUME NEW t \in Threads, NEW o \in Operations[t], Begin(t, o) PROVE TypeOK'
    BY <2>0, <2>2, EntryLabels DEF Begin, Read, TypeOK
  <2>3. ASSUME NEW t \in Threads, ReadLockTest(t) PROVE TypeOK'
    BY <2>0, <2>3, StepTypes DEF ReadLockTest, Read, TypeOK
  <2>4. ASSUME NEW t \in Threads, ReadLockCount(t) PROVE TypeOK'
    BY <2>0, <2>4, StepTypes, CountTypes DEF ReadLockCount, TypeOK
  <2>5. ASSUME NEW t \in Threads, ReadLockBehindWriter(t) PROVE TypeOK'
    BY <2>0, <2>5, StepTypes, CounterAssumption DEF ReadLockBehindWriter, Lock, Unlock, Read, TypeOK
  <2>6. ASSUME NEW t \in Threads, ReadUnlock(t) PROVE TypeOK'
    BY <2>0, <2>6, StepTypes, CountTypes DEF ReadUnlock, Read, TypeOK
  <2>7. ASSUME NEW t \in Threads, WriteLockTest(t) PROVE TypeOK'
    BY <2>0, <2>7, StepTypes DEF WriteLockTest, Read, TypeOK
  <2>8. ASSUME NEW t \in Threads, WriteLockTake(t) PROVE TypeOK'
    BY <2>0, <2>8, StepTypes DEF WriteLockTake, Lock, Read, TypeOK
  <2>9. ASSUME NEW t \in Threads, WritePromotion(t) PROVE TypeOK'
    BY <2>0, <2>9, StepTypes, CountTypes DEF WritePromotion, Lock, Read, TypeOK
  <2>10. ASSUME NEW t \in Threads, WriteUnlock(t) PROVE TypeOK'
    BY <2>0, <2>10, StepTypes, CountTypes DEF WriteUnlock, Unlock, TypeOK
  <2> QED
    BY <2>1, <2>2, <2>3, <2>4, <2>5, <2>6, <2>7, <2>8, <2>9, <2>10 DEF Next
<1> QED
  BY <1>1, <1>2, PTL DEF Spec

------------------------------------------------------------------------------

(* WritersExclude is not inductive: it has to be known that the thread in a *)
(* locked section holds the mutex, or a second one could lock it.  And      *)
(* FlagIsWriter needs that the thread that clears mWrite is the only one    *)
(* inside.                                                                  *)
InsideHolds == \A t \in Threads : Inside(t) => mLock = {t}

LockInv == TypeOK /\ InsideHolds /\ FlagIsWriter

(* A step that neither touches the mutex and the flag nor enters, leaves or *)
(* moves within the part of the section in which mWrite is set.             *)
LEMMA QuietStep ==
    ASSUME LockInv, NEW t \in Threads, UNCHANGED <<mWrite, mLock>>,
           NEW to, pc' = [pc EXCEPT ![t] = to],
           \/ ~Inside(t) /\ to \notin {"r_set", "r_release", "p_count", "w_flag", "writing",
                                      "d_count", "x_flag", "x_release"}
           \/ pc[t] \in {"r_set", "p_count"} /\ to \in {"r_release", "w_flag"}
           \/ pc[t] \in {"writing", "d_count"} /\ to \in {"d_count", "x_flag"}
    PROVE  InsideHolds' /\ FlagIsWriter'
  BY DEF LockInv, TypeOK, InsideHolds, FlagIsWriter, Inside

(* Locking: nobody was inside.  Unlocking: the thread was the only one.     *)
LEMMA LockStep ==
    ASSUME LockInv, NEW t \in Threads, Lock(t), ~Inside(t),
           NEW to \in {"r_set", "p_count", "w_flag"}, pc' = [pc EXCEPT ![t] = to]
    PROVE  InsideHolds' /\ FlagIsWriter'
  BY DEF LockInv, TypeOK, InsideHolds, FlagIsWriter, Inside, Lock

LEMMA UnlockStep ==
    ASSUME LockInv, NEW t \in Threads, Unlock(t), pc[t] \in {"r_release", "x_release"},
           NEW to \in {"idle", "reading"}, pc' = [pc EXCEPT ![t] = to]
    PROVE  InsideHolds' /\ FlagIsWriter'
  BY DEF LockInv, TypeOK, InsideHolds, FlagIsWriter, Inside, Unlock

LEMMA LockInvNext == LockInv /\ [Next]_vars /\ TypeOK' => LockInv'
<1> SUFFICES ASSUME LockInv, [Next]_vars, TypeOK' PROVE InsideHolds' /\ FlagIsWriter'
  BY DEF LockInv
<1>1. CASE UNCHANGED vars
  BY <1>1 DEF vars, LockInv, InsideHolds, FlagIsWriter, Inside
<1>2. ASSUME NEW t \in Threads, NEW o \in Operations[t], Begin(t, o)
      PROVE  InsideHolds' /\ FlagIsWriter'
  <2>1. CASE pc[t] = "writing"
    BY <1>2, <2>1, EntryLabels, QuietStep DEF LockInv, Begin, Read
  <2>2. CASE pc[t] # "writing"
    BY <1>2, <2>2, EntryLabels, QuietStep DEF LockInv, Begin, Read, Inside
  <2> QED BY <2>1, <2>2
<1>3. ASSUME NEW t \in Threads, ReadLockTest(t) PROVE InsideHolds' /\ FlagIsWriter'
  BY <1>3, QuietStep DEF ReadLockTest, Step, Read, Inside
<1>4. ASSUME NEW t \in Threads, ReadLockCount(t) PROVE InsideHolds' /\ FlagIsWriter'
  BY <1>4, QuietStep DEF ReadLockCount, Step, Count, Inside
<1>5. ASSUME NEW t \in Threads, ReadLockBehindWriter(t) PROVE InsideHolds' /\ FlagIsWriter'
  BY <1>5, QuietStep, LockStep, UnlockStep DEF ReadLockBehindWriter, Step, Read, Inside
<1>6. ASSUME NEW t \in Threads, ReadUnlock(t) PROVE InsideHolds' /\ FlagIsWriter'
  BY <1>6, QuietStep DEF ReadUnlock, Step, Count, Read, Inside
<1>7. ASSUME NEW t \in Threads, WriteLockTest(t) PROVE InsideHolds' /\ FlagIsWriter'
  BY <1>7, QuietStep DEF WriteLockTest, Step, Read, Inside
<1>8. ASSUME NEW t \in Threads, WriteLockTake(t) PROVE InsideHolds' /\ FlagIsWriter'
  <2>1. CASE Step(t, "w_flag", "writing") /\ mWrite' = 1 /\ UNCHANGED <<mReaders, mLock>>
    BY <2>1 DEF LockInv, TypeOK, InsideHolds, FlagIsWriter, Inside, Step
  <2>2. CASE ~(Step(t, "w_flag", "writing") /\ mWrite' = 1 /\ UNCHANGED <<mReaders, mLock>>)
    BY <1>8, <2>2, QuietStep, LockStep DEF WriteLockTake, Step, Read, Inside
  <2> QED BY <2>1, <2>2
<1>9. ASSUME NEW t \in Threads, WritePromotion(t) PROVE InsideHolds' /\ FlagIsWriter'
  BY <1>9, QuietStep, LockStep DEF WritePromotion, Step, Count, Read, Inside
<1>10. ASSUME NEW t \in Threads, WriteUnlock(t) PROVE InsideHolds' /\ FlagIsWriter'
  <2>1. CASE Step(t, "x_flag", "x_release") /\ mWrite' = 0 /\ UNCHANGED <<mReaders, mLock>>
    <3>1. \A u \in Threads : pc'[u] = IF u = t THEN "x_release" ELSE pc[u]
      BY <2>1 DEF LockInv, TypeOK, Step
    <3>2. Inside(t) /\ \A u \in Threads : Inside(u) => u = t
      BY <2>1 DEF LockInv, InsideHolds, Inside, Step
    <3>3. InsideHolds'
      BY <2>1, <3>1, <3>2 DEF LockInv, InsideHolds, Inside
    <3>4. FlagIsWriter'
      BY <2>1, <3>1, <3>2 DEF FlagIsWriter, Inside
    <3> QED BY <3>3, <3>4
  <2>2. CASE ~(Step(t, "x_flag", "x_release") /\ mWrite' = 0 /\ UNCHANGED <<mReaders, mLock>>)
    BY <1>10, <2>2, QuietStep, UnlockStep DEF WriteUnlock, Step, Count, Inside
  <2> QED BY <2>1, <2>2
<1> QED
  BY <1>1, <1>2, <1>3, <1>4, <1>5, <1>6, <1>7, <1>8, <1>9, <1>10 DEF Next

LEMMA LockInvAlways == Spec => []LockInv
<1>1. Init => LockInv
  BY CounterAssumption, OperationAssumption DEF Init, LockInv, TypeOK, InsideHolds, FlagIsWriter, Inside
<1> QED
  BY <1>1, LockInvNext, TypeCorrect, PTL DEF Spec

(* Two threads are never both between a lock of MUTEX and its unlock. *)
THEOREM WritersAreExclusive == Spec => []WritersExclude
<1>1. LockInv => WritersExclude
  BY DEF LockInv, InsideHolds, WritersExclude
<1> QED
  BY <1>1, LockInvAlways, PTL

(* The flag the fast path of read_lock looks at is set exactly while some   *)
(* thread writes or is about to clear it.                                   *)
THEOREM FlagStandsForWriter == Spec => []FlagIsWriter
<1>1. LockInv => FlagIsWriter
  BY DEF LockInv
<1> QED
  BY <1>1, LockInvAlways, PTL

------------------------------------------------------------------------------

(* While only readers use the mutex every one of them takes the fast path:  *)
(* the flag is never set and nobody is at a label of the slow path or of a  *)
(* writer, so every change of mReaders is an increment or a decrement of    *)
(* one thread.                                                              *)
ReadersInv ==
    /\ TypeOK
    /\ mWrite = 0
    /\ pc \in [Threads -> {"idle", "reading", "r_test", "r_flag", "r_count", "u_test", "u_count"}]
    /\ Exact

(* What Readers is under this invariant. *)
LEMMA ReadersOnly ==
    ASSUME ReadersInv
    PROVE  Readers = {t \in Threads : pc[t] \in {"reading", "u_test", "u_count"}}
  BY DEF ReadersInv, Readers

(* A step of one thread to a label on the same side of the count. *)
LEMMA SameReaders ==
    ASSUME ReadersInv, NEW t \in Threads,
           NEW to \in {"idle", "reading", "r_test", "r_flag", "r_count", "u_test", "u_count"},
           pc' = [pc EXCEPT ![t] = to],
           pc[t] \in {"reading", "u_test", "u_count"} <=> to \in {"reading", "u_test", "u_count"},
           mReaders' = mReaders
    PROVE  /\ Exact'
           /\ pc' \in [Threads -> {"idle", "reading", "r_test", "r_flag", "r_count", "u_test", "u_count"}]
  <1>1. Readers' = Readers
    BY DEF ReadersInv, Readers
  <1> QED BY <1>1 DEF ReadersInv, Exact

LEMMA ReaderCounted ==
    ASSUME ReadersFit, ReadersInv, NEW t \in Threads, Step(t, "r_count", "reading"), Count(1)
    PROVE  Exact'
  <1>1. t \notin Readers
    BY ReadersOnly DEF Step
  <1>2. Readers' = Readers \cup {t}
    BY DEF Readers, ReadersInv, TypeOK, Step
  <1>3. IsFiniteSet(Readers) /\ IsFiniteSet(Readers')
    BY <1>2, FS_Subset, FS_AddElement DEF ReadersFit, Readers
  <1>4. Cardinality(Readers') = Cardinality(Readers) + 1
    BY <1>1, <1>2, <1>3, FS_AddElement
  <1>5. Cardinality(Readers') <= Cardinality(Threads)
    BY FS_Subset DEF ReadersFit, Readers
  <1>6. Cardinality(Readers) \in Nat /\ Cardinality(Threads) \in Nat
    BY <1>3, FS_CardinalityType DEF ReadersFit
  <1>7. mReaders + 1 \in 0..(CounterSize - 1)
    BY <1>4, <1>5, <1>6, CounterAssumption DEF ReadersInv, Exact, ReadersFit
  <1>8. mReaders' = mReaders + 1
    <2>1. mReaders \in Int /\ CounterSize \in Nat \ {0}
      BY CounterAssumption DEF ReadersInv, TypeOK
    <2> QED BY <1>7, <2>1 DEF Count
  <1> QED BY <1>4, <1>6, <1>8 DEF ReadersInv, Exact

LEMMA ReaderGone ==
    ASSUME ReadersFit, ReadersInv, NEW t \in Threads, Step(t, "u_count", "idle"), Count(-1)
    PROVE  Exact'
  <1>1. t \in Readers
    BY ReadersOnly DEF Step
  <1>2. Readers' = Readers \ {t}
    BY DEF Readers, ReadersInv, TypeOK, Step
  <1>3. IsFiniteSet(Readers)
    BY FS_Subset DEF ReadersFit, Readers
  <1>4. Cardinality(Readers') = Cardinality(Readers) - 1
    BY <1>1, <1>2, <1>3, FS_RemoveElement
  <1>5. Cardinality(Readers) \in Nat /\ Cardinality(Readers) # 0
    BY <1>1, <1>3, FS_CardinalityType, FS_EmptySet
  <1>6. mReaders - 1 \in 0..(CounterSize - 1)
    BY <1>5, CounterAssumption DEF ReadersInv, Exact, TypeOK
  <1>7. mReaders' = mReaders - 1
    <2>1. mReaders \in Int /\ CounterSize \in Nat \ {0}
      BY CounterAssumption DEF ReadersInv, TypeOK
    <2>2. mReaders + (-1) = mReaders - 1
      BY <2>1
    <2> QED BY <1>6, <2>1, <2>2 DEF Count
  <1> QED BY <1>4, <1>7 DEF ReadersInv, Exact

(* A thread that is about to test the count is one the count counts. *)
LEMMA ReaderSeesCount ==
    ASSUME ReadersFit, ReadersInv, NEW t \in Threads, pc[t] = "u_test"
    PROVE  mReaders > 0
  <1>1. t \in Readers /\ IsFiniteSet(Readers)
    BY FS_Subset DEF ReadersFit, Readers
  <1>2. Cardinality(Readers) \in Nat /\ Cardinality(Readers) # 0
    BY <1>1, FS_CardinalityType, FS_EmptySet
  <1> QED BY <1>2 DEF ReadersInv, Exact

LEMMA ReadersInvInit == Init => ReadersInv
<1> SUFFICES ASSUME Init PROVE ReadersInv
  OBVIOUS
<1>1. Readers = {}
  BY DEF Init, Readers
<1>2. Exact
  BY <1>1, FS_EmptySet DEF Init, Exact
<1> QED BY <1>2, CounterAssumption, OperationAssumption DEF Init, TypeOK, ReadersInv

LEMMA ReadersInvNext ==
    OnlyReads /\ ReadersFit /\ ReadersInv /\ [Next]_vars /\ TypeOK' => ReadersInv'
<1> DEFINE Labels == {"idle", "reading", "r_test", "r_flag", "r_count", "u_test", "u_count"}
<1> DEFINE Goal == mWrite' = 0 /\ pc' \in [Threads -> Labels] /\ Exact'
<1> SUFFICES ASSUME OnlyReads, ReadersFit, ReadersInv, [Next]_vars, TypeOK' PROVE Goal
  BY DEF ReadersInv
<1>1. CASE UNCHANGED vars
  BY <1>1 DEF vars, ReadersInv, Exact, Readers
<1>2. ASSUME NEW t \in Threads, NEW o \in Operations[t], Begin(t, o) PROVE Goal
  <2>1. \/ Entry[o][1] = "idle" /\ Entry[o][2] = "r_test"
        \/ Entry[o][1] = "reading" /\ Entry[o][2] = "u_test"
    BY DEF OnlyReads, ReadOperations, Entry
  <2> QED BY <1>2, <2>1, SameReaders DEF Begin, Read, ReadersInv
<1>3. ASSUME NEW t \in Threads, ReadLockTest(t) PROVE Goal
  BY <1>3, SameReaders DEF ReadLockTest, Step, Read, ReadersInv
<1>4. ASSUME NEW t \in Threads, ReadLockCount(t) PROVE Goal
  <2>1. Exact'
    BY <1>4, ReaderCounted DEF ReadLockCount
  <2> QED BY <1>4, <2>1 DEF ReadLockCount, Step, Count, ReadersInv
<1>5. ASSUME NEW t \in Threads, ReadUnlock(t) PROVE Goal
  <2>1. CASE Step(t, "u_count", "idle") /\ Count(-1)
    <3>1. Exact'
      BY <2>1, ReaderGone
    <3> QED BY <2>1, <3>1 DEF Step, Count, ReadersInv
  <2>2. CASE ~(Step(t, "u_count", "idle") /\ Count(-1))
    BY <1>5, <2>2, SameReaders, ReaderSeesCount DEF ReadUnlock, Step, Read, ReadersInv
  <2> QED BY <2>1, <2>2
<1>6. ASSUME NEW t \in Threads,
             \/ ReadLockBehindWriter(t) \/ WriteLockTest(t) \/ WriteLockTake(t)
             \/ WritePromotion(t) \/ WriteUnlock(t)
      PROVE  Goal
  BY <1>6 DEF ReadLockBehindWriter, WriteLockTest, WriteLockTake, WritePromotion, WriteUnlock,
              Step, ReadersInv
<1> QED
  BY <1>1, <1>2, <1>3, <1>4, <1>5, <1>6 DEF Next

(* The program stays the one that was chosen.                               *)
LEMMA ProgramStays == [Next]_vars => UNCHANGED Operations
  BY DEF Next, vars

LEMMA OnlyReadersCounted == Spec => [](OnlyReads /\ ReadersFit => Exact /\ HolderNeverThrows)
<1> DEFINE Inv == OnlyReads /\ ReadersFit => ReadersInv
<1>1. Init => Inv
  BY ReadersInvInit
<1>2. Inv /\ [Next]_vars /\ TypeOK' => Inv'
  BY ReadersInvNext, ProgramStays DEF OnlyReads, ReadersFit
<1>3. Inv => (OnlyReads /\ ReadersFit => Exact /\ HolderNeverThrows)
  BY DEF ReadersInv, HolderNeverThrows
<1> QED
  BY <1>1, <1>2, <1>3, TypeCorrect, PTL DEF Spec

------------------------------------------------------------------------------

(* When r reads and the others only write, the count is r's alone: 1 while  *)
(* r is to be counted, 0 otherwise.  So the slow path, which sets it to 1,  *)
(* forgets nobody, and a promotion is never kept waiting by another reader. *)
(* That needs to be known of the operations r is in at the labels they have *)
(* in common.                                                               *)
OthersWrite(r) ==
    \A t \in Threads \ {r} :
        /\ pc[t] \in {"idle", "w_test", "w_lock", "w_flag", "writing", "x_flag", "x_release"}
        /\ op[t] \in WriteOperations \cup {"none"}

OperationAtLabel(r) ==
    /\ pc[r] \in {"p_test", "p_wait", "p_count"} => op[r] = "write_promotion"
    /\ pc[r] = "d_count" => op[r] = "write_demotion"
    /\ pc[r] = "w_test" => op[r] # "write_promotion"
    /\ pc[r] \in {"x_flag", "x_release"} => op[r] \in {"write_unlock", "write_demotion"}

SoleReader(r) ==
    /\ TypeOK
    /\ OthersWrite(r)
    /\ OperationAtLabel(r)
    /\ pc[r] # "threw"
    /\ mReaders = IF r \in Readers THEN 1 ELSE 0

OthersOnlyWrite(r) == \A t \in Threads \ {r} : Operations[t] \subseteq WriteOperations

(* A step of a writer is none of the reader's.                              *)
LEMMA WriterStep ==
    ASSUME NEW r \in Threads, SoleReader(r), NEW t \in Threads \ {r},
           NEW to \in {"idle", "w_test", "w_lock", "w_flag", "writing", "x_flag", "x_release"},
           pc' = [pc EXCEPT ![t] = to],
           NEW o \in WriteOperations \cup {"none"}, op' = [op EXCEPT ![t] = o],
           mReaders' = mReaders, TypeOK'
    PROVE  SoleReader(r)'
  <1>1. OthersWrite(r)'
    BY DEF SoleReader, OthersWrite, TypeOK
  <1>2. pc'[r] = pc[r] /\ op'[r] = op[r]
    BY DEF SoleReader, TypeOK
  <1>3. (r \in Readers)' <=> r \in Readers
    BY <1>2 DEF Readers
  <1> QED BY <1>1, <1>2, <1>3 DEF SoleReader, OperationAtLabel

(* A step of the reader, which is counted afterwards exactly if it should.  *)
LEMMA ReaderStep ==
    ASSUME NEW r \in Threads, SoleReader(r), TypeOK',
           \A t \in Threads \ {r} : pc'[t] = pc[t] /\ op'[t] = op[t],
           OperationAtLabel(r)', pc'[r] # "threw",
           mReaders' = IF (r \in Readers)' THEN 1 ELSE 0
    PROVE  SoleReader(r)'
  BY DEF SoleReader, OthersWrite

LEMMA SoleReaderNext ==
    ASSUME NEW r \in Threads, OthersOnlyWrite(r), SoleReader(r), [Next]_vars, TypeOK'
    PROVE  SoleReader(r)'
<1>1. CASE UNCHANGED vars
  BY <1>1 DEF vars, SoleReader, OthersWrite, OperationAtLabel, Readers
<1>2. ASSUME NEW t \in Threads \ {r}, NEW o \in Operations[t], Begin(t, o) PROVE SoleReader(r)'
  <2>1. o \in WriteOperations
    BY DEF OthersOnlyWrite
  <2>2. Entry[o][2] \in {"w_test", "x_flag"}
    BY <2>1 DEF Entry, WriteOperations
  <2> QED BY <1>2, <2>1, <2>2, WriterStep DEF Begin, Read
<1>3. ASSUME NEW t \in Threads \ {r},
             \/ ReadLockTest(t) \/ ReadLockCount(t) \/ ReadLockBehindWriter(t) \/ ReadUnlock(t)
             \/ WriteLockTest(t) \/ WriteLockTake(t) \/ WritePromotion(t) \/ WriteUnlock(t)
      PROVE  SoleReader(r)'
  <2>1. /\ pc[t] \in {"idle", "w_test", "w_lock", "w_flag", "writing", "x_flag", "x_release"}
        /\ op[t] \in WriteOperations \cup {"none"} /\ op[t] # "write_promotion" /\ op[t] # "write_demotion"
        /\ op = [op EXCEPT ![t] = op[t]]
    BY DEF SoleReader, OthersWrite, WriteOperations, TypeOK
  <2>2. \/ WriteLockTest(t) \/ WriteLockTake(t) \/ WriteUnlock(t)
    BY <1>3, <2>1 DEF ReadLockTest, ReadLockCount, ReadLockBehindWriter, ReadUnlock, WritePromotion, Step
  <2>3. \E to \in {"idle", "w_test", "w_lock", "w_flag", "writing", "x_flag", "x_release"} :
           pc' = [pc EXCEPT ![t] = to] /\ UNCHANGED <<op, mReaders>>
    BY <2>1, <2>2 DEF WriteLockTest, WriteLockTake, WriteUnlock, Step, Read, Lock, Unlock
  <2> QED BY <2>1, <2>3, WriterStep
<1>4. ASSUME NEW o \in Operations[r], Begin(r, o) PROVE SoleReader(r)'
  <2>1. o \in AllOperations
    BY EntryLabels DEF SoleReader
  <2>2. /\ pc'[r] = Entry[o][2] /\ op'[r] = o /\ pc[r] = Entry[o][1]
        /\ \A t \in Threads \ {r} : pc'[t] = pc[t] /\ op'[t] = op[t]
        /\ mReaders' = mReaders
    BY <1>4 DEF Begin, Read, SoleReader, TypeOK
  <2>3. OperationAtLabel(r)' /\ pc'[r] # "threw"
    BY <2>1, <2>2 DEF OperationAtLabel, Entry, AllOperations, ReadOperations, WriteOperations
  <2>4. (r \in Readers)' <=> r \in Readers
    BY <2>1, <2>2 DEF Readers, Entry, AllOperations, ReadOperations, WriteOperations
  <2> QED BY <2>2, <2>3, <2>4, ReaderStep DEF SoleReader
<1>5. ASSUME NEW from, NEW to, Step(r, from, to)
      PROVE  /\ pc[r] = from /\ pc'[r] = to /\ op'[r] = op[r]
             /\ \A t \in Threads \ {r} : pc'[t] = pc[t] /\ op'[t] = op[t]
  BY <1>5 DEF Step, SoleReader, TypeOK
<1>6. ASSUME ReadLockTest(r) PROVE SoleReader(r)'
  BY <1>5, <1>6, ReaderStep DEF ReadLockTest, Read, Readers, SoleReader, OperationAtLabel
<1>7. ASSUME ReadLockCount(r) PROVE SoleReader(r)'
  <2>1. mReaders = 0
    BY <1>5, <1>7 DEF ReadLockCount, SoleReader, Readers
  <2>2. mReaders' = 1
    BY <1>7, <2>1, CounterAssumption DEF ReadLockCount, Count
  <2> QED BY <1>5, <1>7, <2>2, ReaderStep DEF ReadLockCount, Readers, SoleReader, OperationAtLabel
<1>8. ASSUME ReadLockBehindWriter(r) PROVE SoleReader(r)'
  BY <1>5, <1>8, ReaderStep DEF ReadLockBehindWriter, Lock, Unlock, Read, Readers, SoleReader, OperationAtLabel
<1>9. ASSUME ReadUnlock(r) PROVE SoleReader(r)'
  <2>1. CASE Step(r, "u_count", "idle") /\ Count(-1)
    <3>1. mReaders = 1
      BY <1>5, <2>1 DEF SoleReader, Readers
    <3>2. mReaders' = 0
      BY <2>1, <3>1, CounterAssumption DEF Count
    <3> QED BY <1>5, <2>1, <3>2, ReaderStep DEF Readers, SoleReader, OperationAtLabel
  <2>2. CASE mReaders > 0 /\ Step(r, "u_test", "u_count") /\ Read
    BY <1>5, <2>2, ReaderStep DEF Read, Readers, SoleReader, OperationAtLabel
  <2>3. ~(mReaders = 0 /\ (Step(r, "u_test", "threw") \/ Step(r, "p_test", "threw")))
    BY <1>5 DEF SoleReader, Readers
  <2> QED BY <1>9, <2>1, <2>2, <2>3 DEF ReadUnlock
<1>10. ASSUME WriteLockTest(r) PROVE SoleReader(r)'
  BY <1>5, <1>10, ReaderStep DEF WriteLockTest, Read, Readers, SoleReader, OperationAtLabel
<1>11. ASSUME WriteLockTake(r) PROVE SoleReader(r)'
  BY <1>5, <1>11, ReaderStep DEF WriteLockTake, Lock, Read, Readers, SoleReader, OperationAtLabel
<1>12. ASSUME WritePromotion(r) PROVE SoleReader(r)'
  <2>1. CASE Step(r, "p_count", "w_flag") /\ Count(-1)
    <3>1. mReaders = 1
      BY <1>5, <2>1 DEF SoleReader, Readers
    <3>2. mReaders' = 0
      BY <2>1, <3>1, CounterAssumption DEF Count
    <3> QED BY <1>5, <2>1, <3>2, ReaderStep DEF Readers, SoleReader, OperationAtLabel
  <2>2. CASE ~(Step(r, "p_count", "w_flag") /\ Count(-1))
    BY <1>5, <1>12, <2>2, ReaderStep DEF WritePromotion, Lock, Read, Readers, SoleReader, OperationAtLabel
  <2> QED BY <2>1, <2>2
<1>13. ASSUME WriteUnlock(r) PROVE SoleReader(r)'
  <2>1. CASE Step(r, "d_count", "x_flag") /\ Count(1)
    <3>1. mReaders = 0 /\ op[r] = "write_demotion"
      BY <1>5, <2>1 DEF SoleReader, Readers, OperationAtLabel
    <3>2. mReaders' = 1
      BY <2>1, <3>1, CounterAssumption DEF Count
    <3> QED BY <1>5, <2>1, <3>1, <3>2, ReaderStep DEF Readers, SoleReader, OperationAtLabel
  <2>2. CASE ~(Step(r, "d_count", "x_flag") /\ Count(1))
    BY <1>5, <1>13, <2>2, ReaderStep DEF WriteUnlock, Unlock, Readers, SoleReader, OperationAtLabel
  <2> QED BY <2>1, <2>2
<1> QED
  BY <1>1, <1>2, <1>3, <1>4, <1>6, <1>7, <1>8, <1>9, <1>10, <1>11, <1>12, <1>13 DEF Next

LEMMA SoleReaderCounted ==
    ASSUME NEW r \in Threads, SoleReader(r)
    PROVE  Exact /\ HolderNeverThrows
  <1>1. Readers = IF r \in Readers THEN {r} ELSE {}
    BY DEF SoleReader, OthersWrite, Readers, WriteOperations
  <1>2. Exact
    BY <1>1, FS_Singleton, FS_EmptySet DEF SoleReader, Exact
  <1> QED BY <1>2 DEF SoleReader, OthersWrite, HolderNeverThrows

LEMMA OneReaderCounted == Spec => [](OneReads => Exact /\ HolderNeverThrows)
<1> DEFINE Inv == \A r \in Threads : OthersOnlyWrite(r) => SoleReader(r)
<1>1. Init => Inv
  BY CounterAssumption, OperationAssumption
     DEF Init, SoleReader, TypeOK, OthersWrite, OperationAtLabel, Readers
<1>2. Inv /\ [Next]_vars /\ TypeOK' => Inv'
  <2> SUFFICES ASSUME Inv, [Next]_vars, TypeOK', NEW r \in Threads, OthersOnlyWrite(r)'
               PROVE  SoleReader(r)'
    OBVIOUS
  <2>1. OthersOnlyWrite(r)
    BY ProgramStays DEF OthersOnlyWrite
  <2> QED BY <2>1, SoleReaderNext
<1>3. Inv => (OneReads => Exact /\ HolderNeverThrows)
  BY SoleReaderCounted DEF OneReads, OthersOnlyWrite
<1> QED
  BY <1>1, <1>2, <1>3, TypeCorrect, PTL DEF Spec

------------------------------------------------------------------------------

(* mReaders is the number of threads that hold a read lock, at every step   *)
(* of every operation, if all threads only read (fewer than mReaders can    *)
(* count), or if one uses all operations and the others write.  The run     *)
(* RwMutexThrow shows that two threads that do both are too many.           *)
THEOREM ReadersAreCounted == Spec => []CountIsExact
<1>1. (OnlyReads /\ ReadersFit => Exact /\ HolderNeverThrows) /\ (OneReads => Exact /\ HolderNeverThrows)
        => CountIsExact
  BY DEF CountIsExact
<1> QED
  BY <1>1, OnlyReadersCounted, OneReaderCounted, PTL

(* Nor does read_unlock or write_promotion throw at one of them.            *)
THEOREM ReadersNeverThrow == Spec => []CountedNeverThrows
<1>1. (OnlyReads /\ ReadersFit => Exact /\ HolderNeverThrows) /\ (OneReads => Exact /\ HolderNeverThrows)
        => CountedNeverThrows
  BY DEF CountedNeverThrows
<1> QED
  BY <1>1, OnlyReadersCounted, OneReaderCounted, PTL
==============================================================================
