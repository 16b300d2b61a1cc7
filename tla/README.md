# solaire_library: specification and proofs

TLA+ models of solaire_library (C++11, headers under `include/solaire`, sources under
`src/solaire`), the TLC configurations that check them, and theorems about them proved with
TLAPS. The code is the reference: it has no tests and next to no documentation. Parts of it
are drafts that no compiler accepts as they stand (`rw_mutex.hpp`, `task.hpp`, the missing
namespace in `executor.cpp`); there the statements are modelled as written and the slips of
syntax are ignored. Where it matters which template or expression compiles, the reference is
Microsoft's compiler, which the sources are written for: g++ refuses the friend templates of
`array_list`, `node_t& const` in `tree_node.hpp:85` and others. A template that no use of
could compile has no behaviour and is left out, each time with a note in the module.

Paths below are relative to the repository.

## 1. The system

| Component | State | Operations | Meets |
|---|---|---|---|
| `executor` (`parallel/executor.*`) | five queues `mTasks`, one per priority; hint `mHighPriority`; `mCompletedTasks`; `mID`; the promise of every task | `schedule`, `change_priority`, `cancel`, `clear_completed_tasks`, `get_priority`, `get_scheduled_count`, destructor | its callers on any thread; the derived class through `on_scheduled` |
| `thread_pool` (`parallel/thread_pool.*`) | worker threads, a condition variable, `mExit` | `on_scheduled`, the loop of a worker, destructor | takes from the executor's queues; runs tasks, which may call the executor |
| `rw_mutex` and guards (`parallel/rw_mutex.hpp`) | a mutex, the count `mReaders`, the flag `mWrite` | lock, try, unlock for readers and writers; promotion and demotion | threads of the application |
| `task` (`parallel/task.hpp`) | a ring of tasks with a state each, the call stack | `execute`, `pause`, `resume`, `run_internal` | the tasks call each other |
| `memory_pool` (`core/memory_pool.*`) | real, open and closed blocks | `allocate`, `deallocate`, move, destructor | `operator new`, and its users |
| `memory_pool_allocator`, `static_memory_pool_allocator` | pool pointer, address, size | `allocate`, `deallocate`, move, destructor | `memory_pool` |
| `allocator.hpp` | one block of memory | the same interface | `array_list` |
| `array_list`, `integer_map`, `fast_stack`, `tree_node` (`core`) | containers | insertion, removal, lookup, linking | allocators |
| `bin_utils`, `integer`, `constexpr_maths`, `kleene_logic` (`core`) | none | pure functions on words, ranges and truth values | |
| `value` (`serial/value.*`) | a variant over nine types | conversions, some of them in place; containers | everything in `serial` |
| `value_parser`, `value_to_parser`, `parser_to_value` | a stack of open containers | events of a document | the formats |
| `binary`, `json`, `xml` (`serial`) | a reader, a writer each | document to events and back | `value_parser` |
| `encoder`, `dispatcher`, `rpc_client`, `rpc_server` | table of functions, request number | call, request, notification, response | the application |
| `units`, `core.hpp`, compiler and OS headers, `taggable`, `main.cpp` | | constants, macros, a demonstration | |

What makes each one correct, in short:

- **executor and thread_pool.** A scheduled task is run at most once, in order of priority,
  unless it is cancelled; its future is resolved exactly once. A worker that is awake does
  not leave urgent work behind. Destruction ends every worker and breaks every promise that
  is left. The hard part is that the hint is read without the lock, that notifications are
  not remembered, that `mExit` is set without the lock, and that tasks call the executor
  while they run.
- **rw_mutex.** Writers exclude each other, and the count of readers is right. Every
  operation is several atomic accesses, with other threads between them.
- **task.** Each task of the ring is run once and to its end, though without stack switching
  the ring becomes a nest of calls.
- **memory_pool and its allocators.** Blocks tile what `operator new` gave; every closed
  block has one owner; what was allocated can be given back. The hard part is long sequences
  of reuse and merging, and moves of pools and allocators.
- **containers.** Contents and order agree with the sequence, function or tree they stand
  for; at their capacity too.
- **value.** Every payload has one owner through copies, moves and conversions in place,
  aliases included; a conversion keeps the number it converts.
- **serial.** Writing and reading a value gives the value again; a reader accepts what the
  writer produced; no order of events breaks a reader; a called function gets the arguments
  of the call and the caller its result. The hard part is the width of length fields and
  counters, state nobody initialises, and getters that throw half way through a document.

## 2. Modules

| Module | Models | Reads |
|---|---|---|
| `TaskBoard` | what an executor promises: the life of tasks and futures, without queues or threads | |
| `Executor` | `executor`: the queues, the hint, one action per critical section | |
| `ThreadPool` | `thread_pool` on top of `Executor`: workers, callers, destruction; the refinement mapping to `TaskBoard` | `Executor`, `TaskBoard` |
| `ThreadPoolProofs` | theorems about `ThreadPool` | `ThreadPool` |
| `TaskBoardProofs` | theorems: places of tasks, promises, the implementation of `TaskBoard` | `ThreadPoolProofs` |
| `RwMutex` | `rw_mutex`, one atomic access per step | |
| `RwMutexProofs` | theorems about `RwMutex` | `RwMutex` |
| `TaskRing` | the ring of cooperative tasks and its call stack | |
| `TaskRingProofs` | theorem: the ring runs every task once | `TaskRing` |
| `MemoryPool` | `memory_pool`: the operations on the block lists of several pools | |
| `PoolClient` | code that uses pools directly | `MemoryPool` |
| `PoolAllocators` | allocator objects over pools, and how they are moved | `MemoryPool` |
| `MemoryUsers` | either user on pools of its own | `PoolClient`, `PoolAllocators` |
| `MemoryProofs` | theorems about pools, client and allocators | `MemoryUsers` |
| `ArrayList` | `array_list` over either allocator of `allocator.hpp` | |
| `BoundedStack`, `AbstractMap` | what a stack and a map promise | |
| `FastStack` | `fast_stack`, and that it implements `BoundedStack` | `BoundedStack` |
| `IntegerMap` | `integer_map`, and that it implements `AbstractMap` | `AbstractMap` |
| `TreeNode`, `TreeWalks` | `tree_node`: linking; `size` and the two walks | `TreeNode` |
| `ContainerProofs` | theorems about lists, maps, stacks and trees | `ArrayList`, `IntegerMap`, `FastStack`, `TreeNode` |
| `Words` | `bin_utils`, `integer`, `constexpr_maths`, `kleene_logic` | |
| `Variant` | the union of `value` and its getters | |
| `ValueHeap` | `value` with what it owns: strings, arrays, objects | `Variant` |
| `ValueHeapProofs` | theorems about ownership, leaks, copies and conversions | `ValueHeap` |
| `Events` | documents as trees, the events of `value_parser`, the walk of `value_to_parser` | `Variant` |
| `ParserToValue` | `parser_to_value` | `Events` |
| `Binary`, `Json` | the writer and the reader of each format | `Events` |
| `EventSender` | a program that sends a `parser_to_value` any events | `ParserToValue` |
| `Serial` | a document sent along each route through the three | `EventSender`, `Binary`, `Json` |
| `Dispatcher` | `encoder`, `dispatcher`, `rpc_client`, `rpc_server` | `ParserToValue` |
| `SerialProofs` | theorems about `parser_to_value` and about calls | `EventSender`, `Dispatcher` |
| `MCThreadPool`, `MCRwMutex`, `MCMemory`, `MCWords`, `MCStructures` (with the pools of `MCMemory` and the calls of `MCWords`), `MCValueHeap`, `MCSerial` | instances for TLC: names, symmetry, inputs | |

Variables and actions keep the names of the members and functions they stand for. An
operation that C++ would spell the same in two classes has a prefix (`AllocatorDeallocate`).
A definition whose comment says *Mutant* is a mistake the definition below it might have
been written with; no specification uses it, but each property is known to fail for the
mistake listed with it in `PROJECT.json`.

### Executor and ThreadPool

A task is its id. Each critical section of `mTasksLock` is one step, because every other
access to what it protects is either inside such a section or one of the two unlocked reads:
the comparison of `mHighPriority` with `PRIORITY_INVALID`, a step of its own in a worker (a
section crosses that value once at most, so the reader sees the state before or after it),
and `get_priority`, which walks the deques without the lock and is modelled as an interval,
`FindBegin` to `FindEnd`.

| Worker at | Code (`thread_pool.cpp`) |
|---|---|
| `top` | 41, the first test of `mExit` |
| `enter`, `blocked`, `woken` | 42-43, before, in and after the wait; 44, the second test |
| `check` | 49, the unlocked test of the hint |
| `take` | 50-61, the locked search |
| `run`, `store` | 67, 68-69 |

`call[t] = "notify"` is a thread between the unlock in `schedule_internal` and the
`notify_one` of `on_scheduled`. `phase` follows the destructor; `mExit` is `phase #
"alive"`. The owner destroys the pool when no client is in a call; tasks on workers may go
on calling. The future of a task is broken by the step that destroys the last copy of its
promise (`cancel`, `~executor`); the copy the caller of `schedule` holds until it has its
future is not distinguished.

Undefined behaviour is a choice. Indexing `mTasks` with `PRIORITY_INVALID`, using an
iterator after `push_back` to its deque, and changing a deque somebody walks may end the
program (`crashed`) or do no harm. A task that throws something other than a
`std::exception` ends the program.

### MemoryPool, PoolClient, PoolAllocators

Blocks are intervals of a small heap. `mOpenBlocks` is a sequence, since the first block in
the vector that qualifies is taken; the other two lists are only searched by address and are
sets. `operator new` is external: any range free of real blocks. The branch that cuts a
larger block is in the model, though `Fits` (line 46) never selects a larger block.
`PoolClient` gives back what it holds to the pool the blocks are in. `PoolAllocators` adds
the objects: their constructor, move constructor (copies), move assignment (swaps),
`allocate`, `deallocate`, destructor, and moves of pools under them. `allocate` has no
return statement, so it may end the program. `deallocate` resets `mData` twice and `mSize`
never, so that an object without a block goes on answering a size.

### RwMutex

One label per atomic access. The two tests of `read_lock` (`r_test`, `r_flag`) and the
action on their answer (`r_count`, or `r_lock`, `r_set`, `r_release`) are separate steps,
and so on; spins are waits. `try_` variants share the labels and differ when the mutex is
taken. `CounterSize` stands for 2^32. `Operations` gives each thread the operations it
begins, the part it plays in the program; it is chosen among `Programs` at the start. The
count of readers is exact where every thread only reads (`OnlyReads`), and where one uses
all operations and the others only write (`OneReads`): that is `CountIsExact`, and that
nothing then throws at a holder `CountedNeverThrows`. Two threads that both read and write
are enough to get it wrong: one waits in the slow path of `read_lock` while the other, the
writer it waits for, demotes itself and is counted; then the first sets the count to 1,
and a holder's unlock throws (`HolderNeverThrows`, refuted by `RwMutexThrow`).

### TaskRing

The program is one thread; the state is its call stack and the members `mState`. With
`longjmp` commented out, `pause` calls `run_internal` of a task that has not begun, marks a
paused one as executing without switching to it, and ignores others.

### ArrayList, FastStack, TreeNode, IntegerMap

A list is the sequence of its slots, whose length is the capacity, and `mSize`; a slot where
no `T` was constructed is `Raw`. Only `resize` and the copy constructor construct a `T`;
`push_back`, `insert` and `erase` assign to one, and the destructor destroys one in every
slot. A static list never resizes, so its slots stay raw, and there the program goes on only
if `T` is trivial, as an `int` is: otherwise the assignment behind the last element is
undefined (`NoObjectAt`), and so is the destructor of a copy with a slot to spare. The
constructor with its `resize`, `insert` of a value or of an element of the list (`push_back`
is the one at the end), `erase` (`pop_front` is the one at 0), `pop_back`, `clear`, copy and
move construction and the destructor are actions. `ListKinds` says what the list stands on,
a heap allocator or a static one of so many slots, whether `T` is trivial, and how many
values the index type has, so that `mSize` and the requested capacity wrap. The element
inserted by reference is read after the others have been shifted, so that one inserted in
front of itself becomes its predecessor (`InsertsThePredecessor`), and it is gone when the
list grows. A static list that was not copied cannot be destroyed without ending the
program.

The stack has its array and its index; the index wraps at `IndexLimit`. `StackStep` says
operation by operation which one of `BoundedStack` it is.

A tree is the pair of functions `mChildren`, `mParent`. `append` and the forms of `prune`
are one action each: there is one thread, and an exception half way has its own alternative.
`append` of a child that has a parent looks for it among its own children and throws, unless
the child is its own parent. A root can be appended to a node below it, and on the cycle no
walk ends; `TreeWalksVisit` speaks of the rest. There is a cycle if the parents of some set
of nodes are all in the set (`Endless`), and a node is at or above another if every set that
holds the other and the parents of its members holds it too (`AtOrAbove`): both speak of
paths of any length without a recursive definition. `breadth_first` takes the front of an
`array_list`, which answers the last element: as soon as a node has two children it visits
one node twice and misses another.

A map is its sorted vector. The functions take their key as a `T` and turn it into a `K`;
`MapKinds` lets either type be the narrower one. The iterator `emplace` answers is computed
from the end of the vector: `EmplacedInTheMiddle` says exactly when it is the right one.

### Words

There is no state: a behaviour is one call, chosen by `WordsInit`, and the invariants
compare what the operators compute, translated from the code, with what the name of the
function promises (`PopcountCountsOnes`, `ReflectReverses`, ...). The code takes words apart
through `reinterpret_cast`, 8, 4, 2 and 1 bytes at a time; so do the operators. Four claims
of the documentation are false. `ReadBitsCopies` says that the copy takes bits from the
offset it was given; `IntegerIsAsDocumented` that the integer made for a range holds it
(`Holds`), and that its bytes and its largest value are what the comments call them
(`BytesTotalStores`, `MaxValueIsStored`). Each has a run that refutes it, the second with
one range for which all three are false. What is said instead among the properties of
`Structures` is exactly when they hold: `ReadBitsOnlyStraight`, `IntegerLimits`,
`RangeFitsButForPowers`.

### Variant and ValueHeap

`value` is a union with a type. A getter is the set of answers it may give: reading a member
that was not written, or falling through into the next case of a `switch`, can give whatever
that case makes of unknown bits. `ValueHeap` adds the payloads: memory is a function from
addresses to a string, array or object, and locations are the variables of the program and
the items in payloads. Every setter, copy, move, `push_back`, `add`, `operator[]` and
conversion in place is an action on any locations, so that source and destination may be the
same value or one inside the other; an exception half way is an outcome of its own.
`push_back` and `add` take a value and copy it once more into the container: a character,
whose copy is one nobody can copy, always throws. A `std::vector` that grows copies its
items, because the move constructor may throw. Operator `new` and the containers of the
standard library are external. What a value owns, directly or not, is the least set of
payloads that holds what the value owns and what the members own (`Closure`): the destructor
deletes it, a copy copies it. Words are as wide as `SignBit` says, the weight of the sign.

### Events, ParserToValue, EventSender, Binary, Json, Serial

A document is a tree: a function from paths to nodes. A path is the sequence of the keys
that lead to a node, a key the name of a member or `<<i>>` for the `i`-th item of an array;
both order the items as the code iterates over them (`Before`). The walk of
`value_to_parser` is a list of things still to do, and each event is one step, at which the
parser may throw. Texts and names go through `c_str()` and are cut at their first NUL
(`CString`, `Cut`); a member of an object is copied once more before it is named (`Member`),
so that a character in it throws before its name is sent. `ParserToValue` keeps the stack of
pointers to open containers as paths from the root. `EventSender` is a program that sends
one any events in any order, and `Serial` another. `Binary` is a stream of units with the
two bytes of a length; the reader ends a text by writing a NUL behind it and taking it back,
so it needs a byte there, and a string that is a whole document is an overrun (`FitsText`).
`Json` is the state the writer keeps for each container, with one bit nobody initialises and
a size that wraps at `SizeLimit`, and the reader as the recursive function it is. In
`Serial` a program sends a document along a route, `"direct"`, `"binary"` or `"json"`, or
reads the text of one with a blank in front (`"text"`), or sends any events to a parser
(`"events"`).

### Dispatcher

Registering a function, calling it by name with encoded arguments, a remote call, and a
notification at the server are actions. The transport of `rpc_client` is the user's, so any
response of `Responses` may arrive. A type is the name of its getter; `"narrow"` stands for
the integers shorter than a word. What a function returns is one of `Results`, or it throws.
`Implicit` is the conversion C++ makes of the third of three parameters, which is decoded by
the getter of the second (`dispatcher.hpp:63`): any number to any other, modulo its width; a
`double` beyond an integer's range may become any.

`CallsArriveAsMade` says which calls bring their arguments and results across whole, but for
what is behind a NUL in a text (`AsSent`): those of types without a character whose third
parameter, if it is the last one, has the type of the second (`Carried`). The function may
throw, and then so does the call. A function with a parameter that is decoded as a character
(`DecodedBy`) is never called. That is not every function with a character: `f(bool,
uint64_t, char)` is called for `'y'`, and gets what the getter of a `uint64_t` makes of it.

A request to the server that is no object, or whose id is not converted, throws; every other
one ends the program in the first line that adds to the response (`OnReceiveRequest`). A
notification that is no object throws out of the handler, one without a method or params is
undefined, and what is thrown later stays inside. The members of params that are an object
are looked for behind the first one, where there is none: all but the first are `Lost`,
which matters when a function of as many parameters has the name.

## 3. What is checked

| Run | Instance | Shows |
|---|---|---|
| `PoolSafety` | 1 client, which also walks the queues, 2 workers, 3 tasks, priorities HIGH, MEDIUM, LOW, tasks that terminate the program | types; `OnePlace`; `PromiseKept`; `HintCoversUrgentTasks`; `CountMissesOnlyLow`; `SleepsOnlyWhenDrained`; the refinement `ImplementsTaskBoard`, wherever undefined behaviour does not end the program |
| `PoolLive` | 1 client, which also walks the queues, 2 workers, 2 tasks that return or throw | `AwakeWorkersDrain`, `ShutdownCompletes` |
| `PoolQueueIndex` | 1 client, 2 workers, 2 tasks | finding: `mTasks[PRIORITY_INVALID]` |
| `PoolUndersized` | 1 pool, 6 bytes | finding: a block smaller than asked for |
| `RwMutex` | 4 threads: three that use all operations; or all read; or one uses all operations and three write | `WritersExclude`, `FlagIsWriter`; `CountIsExact`, `CountedNeverThrows`, through the slow path, promotion and demotion |
| `RwMutexThrow` | 2 threads, all operations | finding: a reader waits for a writer that demotes itself, and one of the two gets "Mutex is not read locked" while it holds a read lock |
| `Structures` | 2 pools, 4 bytes, with a client and requests of 0 to 2 bytes or with 2 allocator objects and requests of 1 and 2, moves and destructions; lists with an index of 4 values, of trivial and of other elements, a stack of 3, trees of 4 nodes, maps of 6 keys, words of up to 15 bytes, a ring of 4 tasks | `PoolsSound`, `ClientHoldsClosed`, `AllocatorsHoldClosed`, `OwnershipLostByMoves`; `ListLifetime`, `ListSteps`; `ImplementsStack`; `LinksAgree`, `TreeSteps`, `TreeWalksVisit`; `MapSteps`; `ArithmeticAgrees`; `RingRunsAll`, `RingExecuteReturns` |
| `WordsReadBits` | the calls of the arithmetic in `Structures` | finding: `read_bits` ignores the offset of its input |
| `WordsInteger` | integers made for ranges of -128 and 128 | findings: no integer of eight bits or more needs bytes; the largest signed value is one too large; a range up to a power of two gets too few bits |
| `Values` | five programs with 1 or 2 variables, up to 4 payloads of up to 2 items | `OwnersAreSound`, `LeaksAreCycles`, `CopyIsFaithful`, `ConversionKeepsNumber` |
| `Serial` | documents of depth up to three and any 5 events; calls of 12 signatures of up to four parameters, the conversions of a third one among them, functions that throw, texts with a NUL, 1 remote call | `ParserSound`, `DirectRoundTrip`, `BinaryRoundTrip`, `JsonRoundTrip`; `CallsArriveAsMade` |
| `JsonBlanks` | an unsigned number, a Boolean and a negative number as text, with a blank in front | finding: the loop that skips blanks takes a character of the value |

The subjects of `Structures` have nothing to do with each other, nor have the two users of
its pools or the two halves of `Serial`: a variable (`subject`, `user`) says which one a
behaviour is about, and the others keep their initial state. `Values` chooses one of five
programs in the same way, each generous in one respect: types, nesting, objects, aliases,
strings. Where names are alike (threads, pools, allocator objects) the runs use symmetry.
`Structures` has it beside a liveness property; that one speaks of the ring, in whose
behaviours the pools and allocator objects never leave their initial state, which no
exchange of names changes.

The bounds. `MaxTasks` bounds how often `schedule` is called, `Priorities` which priorities
are passed; the queues between them are never filled, but the search for the next one walks
over them. Two workers are what every race of `get_task` needs: one that reads and one that
changes the hint in between. Three tasks are enough for one that runs, one that waits and
one that is scheduled or moved meanwhile, in three different queues or in the same.
`HeapSize` and `Sizes` let a block be freed between two open ones, before one, after one,
and away from any, and let a freed block be reused for a larger request. Two threads are
enough for the miscount of `RwMutex`; where the count is exact there are four, so that the
reader can be behind a writer that is behind another. `CounterSize` only has to exceed the
number of threads, so that a wrapped count is seen as too many readers.

In `Structures` an index of 4 values makes a list wrap after its third element, and the
static lists are larger and smaller than that; the stack is as large as its index can count
to, one less than `IndexLimit`; 4 nodes with 2 children are the smallest trees in which a
full node, a cycle through a grandchild and a breadth-first walk that goes wrong exist; keys
up to 5 with types of 4 and 8 values are narrowed in either order; the words have lengths on
both sides of 1, 2, 4 and 8 bytes; 4 tasks with up to 2 pauses (`MaxPauses`) give nests of
every depth, and a first task that has been resumed by the last. In `Values` words of 5 bits
have a sign bit and two decimal digits. In `Serial` `ByteBase` and `HighBase` make 256 the
largest length, so that names and strings of 127, 128, 255 and 256 characters are on both
sides of each byte; `SizeLimit` of 8 lets a container overflow the writer's count;
`MaxEvents` of 5 opens two containers and closes one too many; `MaxRequests` bounds the
remote calls.

Deadlock is not checked where the system may stop: a crashed program, a destroyed pool,
promoters that wait for each other, a ring that is done, a list that is destroyed, a
document that was sent.

Fairness (`PoolLive`, `Structures`). A worker that can take a step takes one eventually, a
call that has begun returns, and the destructor goes on: that is the operating system's
scheduler. There is none for the calls of clients, and none for spurious wake-ups, which
nobody promises. Of the structures only the ring has fairness: its one thread keeps running.
`ExecuteReturns` needs that every `run()` ends; that is the bound on pauses.

Two liveness properties one would like are false and are stated in the weaker form that
holds. A notification that finds no waiting worker is lost, so a scheduled task may wait
while all workers sleep; `AwakeWorkersDrain` speaks of urgent tasks while some worker is
awake. A worker between its test of `mExit` and the wait misses `notify_all`, and `join`
hangs; `ShutdownCompletes` excludes exactly that worker. Tasks of priority LOW are left in
their queue whenever the search starts at a more urgent hint, which is why the safety
properties speak of the other queues. With unbounded scheduling of more urgent work a task
can also starve by design; the bound on tasks excludes that.

## 4. What is proved

`ThreadPoolProofs`, for all sets of clients and workers, all `MaxTasks`, all inputs, from
the assumptions that clients and workers differ and that inputs are legal:

- `TypeCorrect`: `Spec => []TypeOK`. Inductive with `HasTask`, that a worker has a task
  exactly from `get_task` to the push to `mCompletedTasks`; without it the list of completed
  tasks could get the value a worker has before its first task. `ExecutorTypes` collects
  what the operations do to the executor's variables; `RemoveAtFacts` says what erasing from
  a queue leaves.
- `HintIsSafe`: `Spec => []HintCoversUrgentTasks`. Inductive with the types. The operations
  of callers lower the hint to the only queue they can make non-empty (`ExecutorHint`); the
  search raises it past queues it saw empty, and by `LookedIsEnough` it looks at every
  urgent queue from the hint on.
- `NoUrgentTaskIsOverlooked`: `Spec => SleepsOnlyWhenDrained`, from the same invariant.
- `UrgentWorkIsCounted`: `Spec => []CountMissesOnlyLow`, from the same invariant. An invalid
  hint, for which `get_scheduled_count` answers 0, is a promise that the urgent queues are
  empty; with a valid one it answers the number of positions in all queues, and there is a
  position for every queued task (`FS_Surjection`).

`TaskBoardProofs`, from the same assumptions:

- `TaskIsInOnePlace` and `PromisesAreKept`: `Spec => []OnePlace`, `Spec => []PromiseKept`.
  Neither is inductive alone: that a task taken from a queue has a pending future is
  `PromiseKept`, that cancelling it leaves no second copy with a broken promise is
  `OnePlace`, and both need that an identity not yet given out is nowhere (`Unused`).
  `PlaceInv` is the conjunction. `AppendSlot` and `RemoveSlot` say once what `push_back` and
  `erase` do to the slots of the queues; by `RemoveAppend` the push-then-erase of
  `change_priority` is an erase and a push, so the task is never in the queues twice.
- `PoolImplementsBoard`: `Spec => ImplementsTaskBoard`. Under `RefinementInv` (the above,
  the hint, and that workers have ended after the join) every action is a step of
  `TaskBoard` or a stutter, one lemma for each. `TakesMostUrgent` is where the hint matters:
  `get_task` takes from a queue only if every more urgent one is empty, including when the
  search starts at `PRIORITY_LOW`.

`RwMutexProofs`, for all sets of threads:

- `TypeCorrect`; `WritersAreExclusive` and `FlagStandsForWriter`: `Spec =>
  []WritersExclude`, `Spec => []FlagIsWriter`, for every mixture of operations. The
  strengthening is `InsideHolds`: the thread in a locked section holds the mutex. All
  changes are of three kinds (`QuietStep`, `LockStep`, `UnlockStep`) and the two assignments
  of `mWrite`.
- `ReadersAreCounted` and `ReadersNeverThrow`: `Spec => []CountIsExact` and `Spec =>
  []CountedNeverThrows`. Both speak of the programs in which one thread uses all operations
  and any number of others write (`OneReads`), and of those in which all only read and there
  are fewer threads than `mReaders` can count; a program stays what it is (`ProgramStays`).
  For the first, `SoleReader` says that the count is 1 or 0, as the one thread is to be
  counted or not, so that the 1 the slow path assigns forgets nobody; it needs to know what
  operation the thread is in at the labels the operations share (`OperationAtLabel`), and
  that the others are at labels of writers (`OthersWrite`). One of the two conditions is
  needed: the run `RwMutexThrow` has two threads that both read and write.

`MemoryProofs`, for every heap, any number of pools and of allocator objects, and all sizes:

- `PoolsStaySound` and `MemoryTypesHold`: `MemorySpec => []PoolsSound`, `[]MemoryTypeOK`.
  `PoolInv` says that the open and closed blocks of a pool tile its real blocks (`Tiling`)
  and that the real blocks of two pools are apart; disjointness is of sets of bytes, so that
  nothing has to be added up. `TilingGrows` and `TilingMerges` are the two things that can
  happen to a tiling; the merges of `deallocate`, up to two of them, are `SoundMerge` twice.
- `ClientGetsWhatItHolds` and `AllocatorsKeepTheirBlocks`: `[]ClientHoldsClosed`,
  `[]AllocatorsHoldClosed`. `ClientInv` is both directions between what the client holds and
  the closed blocks, each address once. `AllocatorInv` has, for every closed block, an
  object that points to it and answers a size not below the block's: the size is what makes
  it an owner that can give the block back whole.
- `OnlyMovesLoseOwnership`: `MemorySpec => OwnershipLostByMoves`. Allocations keep other
  blocks closed, a `deallocate` opens only the block of its own object, and an exchange
  exchanges owners.

`ContainerProofs`, for any values, any capacities and every width of an index or key, and
trees of any set of nodes with any number of children:

- `ListsAreBuilt`: `ListSpec => [](ListTypeOK /\ ListLifetime)`. The invariant `ListInv`
  adds that the size of a living list is within its storage and its index type, that a list
  has nothing before its construction, and that a static list keeps the storage it came
  with. `ListLifetime` itself is inductive with these: every slot of a heap list and every
  element of any list holds what was constructed or written (`SlotsAreBuilt`), a static list
  of a non-trivial `T` holds nothing unless a copy made it (`OnlyCopiesHoldObjects`), and of
  the static lists only such copies come to an end that is no error
  (`OnlyCopiesAreDestroyed`).
- `ListsFollowSequences`: `ListSpec => ListSteps`, under `ListInv`. `RaisedSlots` and
  `ResizedSlots` say what growth keeps, `InsertedSlots` and `ErasedSlots` where the shifts
  put each slot, whether or not the list grew.
- `KeysStayInOrder`: `MapSpec => [](MapTypeOK /\ KeysAscend)`. That the vector is sorted is
  inductive only with the keys in the range of `K` (`MapInv`): a key a `T` holds and a `K`
  does not is above all of them (`KeysNarrowed`), and the place found for it is the end
  (`PlaceIs`).
- `EmplaceImplementsMap`: `MapSpec => MapSteps`, that is that `emplace` is a step of
  `AbstractMap`, for keys that fit, and where its iterator is right.
- `StackInvariant`, `StackImplementsBounded`: `FastStackSpec => ImplementsStack`, for every
  capacity the index can count to (`Countable`: `CAPACITY < IndexLimit`). The
  invariant `StackInv` has the types, that the index stays within the array until it goes
  below zero (`WithinArray`), and that what lies below the index was pushed. `PushCounts`,
  `PopCounts` and `EraseCounts` say what each operation does to index and content, and by
  `NarrowKeeps` an index that is within the array is not changed by narrowing. Without
  `Countable` a full stack would be empty again.
- `LinksAlwaysAgree`: `TreeSpec => []LinksAgree`. `Linked` states the property of any two
  functions, so that the state half way through an `append`, when the child has been pruned
  and not yet appended, can be spoken of: `AppendOwnLinked`, the case of a node that is its
  own child, is `PruneLinked` and then `AppendLinked`.
- `OnlyAppendsMakeCycles`: `TreeSpec => TreeSteps`. That no append takes a node from a
  parent other than itself is `NodesNeverMove`. A prune removes links and so cannot close a
  cycle (`PruneMakesNoCycle`). The endless nodes that an append makes hold the child and its
  new parent; were the child not above that parent, those of them above it would have been
  endless before (`AppendMakesCycleBelow`).

`ValueHeapProofs`, for any finite set of addresses, any programs (`Settings`) and a word of
any width that holds the ten digits as signed numbers:

- The invariant is `HeapInv`: the memory is `Sound`. That is, pages have the items of their
  kind (`Shaped`, `Kinds`), words the bits of their type (`Typed`), no word dangles
  (`NothingDangles`), none owns what another owns (`SingleOwners`), and each payload in use
  is owned (`AllOwned`). The last is the one that needs thought: circles of owners satisfy
  it, and they exist. But a circle has no owner outside of it, so nothing that the program
  can reach from its stack is below itself (`ReachableIsNoCircle`), and that is what every
  operation on a location relies on: its page survives the deletion of what hangs below it.
- Each operation is described by what it does to pages and words, independent of its
  expression in the model (`Written`, `Voided`, `WithOwner`, `Grafted`, `Appended`), and
  each description keeps a memory sound. `Grafted` covers the copies of whole values to free
  addresses, the root of which may replace an empty payload of its kind, also when a vector
  grew and copied its own items meanwhile; until the owner of the new root is written the
  memory is `SoundBut` for it.
- `PayloadsStayTyped`: `HeapSpec => []HeapTypeOK`. `OwnersStaySound`: `HeapSpec =>
  []OwnersAreSound`, the second half of which is that no payload is deleted twice.
- `OnlyCyclesLeak`: `HeapSpec => []LeaksAreCycles`. Going from a payload to its owner again
  and again either comes to the stack or stays in a finite set of payloads, of which one
  with the fewest payloads above it is on a cycle: finiteness of `Addresses` is used here
  only.
- `CopiesAreFaithful`: `HeapSpec => []CopyIsFaithful`. Nothing is both below the source and
  below the destination (`BelowApart`), so emptying the destination leaves the source what
  it was (`SourceIsKept`), the copies go where nothing of it is (`OthersStay`), and the
  addresses they get are the counterparts that `Same` asks for (`CopyIsSame`).
- `ConversionsKeepNumbers`: `HeapSpec => []ConversionKeepsNumber`, from the types alone
  (`ComputedIsNumber`): a cast that changes the number is not one `Computed` allows.

`TaskRingProofs`, for rings of any length and any bound on pauses:

- `RingAlwaysRunsAll`: `RingSpec => []RingRunsAll`. That all tasks are complete when the
  stack is empty is not inductive; the argument is that the tasks on the stack were begun in
  the order of the ring, each one called by the one before. `RingInv` has the frames in
  order (`FramesInOrder`), only the innermost one able to step (`InnermostRuns`), the states
  that go with a frame and with none (`FramesMatchStates`, `OffTheStack`), the count of runs
  (`RunOnce`), and that as long as a task has not begun the innermost one runs and none of
  those off the stack has begun (`UnstartedAbove`): a frame is left only when all have
  begun.

`SerialProofs`, for any events sent to a `parser_to_value`, and for any functions, callers,
notifications and remote ends of a call:

- `ParserNeverBroken`: `ParserSpec => []ParserSound`. The invariant is `IsParser`
  (`ParserOrder`). Its parts are a tree closed under parents, all of which are containers,
  with the keys of an array numbered (`IsTree`); the chain of open containers (`IsOpen`);
  and that its entries get deeper by one, the second perhaps not (`Deepens`). The last is
  the reason why the chain survives: whatever the code puts into a container takes the place
  of what is at one path and below it, and no open container is that deep (`PutStaysOpen`).
  `PutKeys` says which keys there are afterwards, and `CopiedIsTree` and `CopiedIsOpen` that
  an array which moves its items changes characters only. The specification is that of
  `EventSender`: `Serial` sends the events of its readers too, but it reaches their
  recursive operators.
- `CallsArrive`: `DispatcherSpec => []CallsArriveAsMade`. `EncodeCarries` says that an
  argument becomes a value cut at its first NUL (`CStringIs`, `AsSentIs`), `DecodeCarries`
  that a getter of the same type, characters excepted, leaves it alone; and `DecodeChar`
  that of a character encoding leaves nothing `get_char` would not throw at, so that with
  such a parameter (`ParameterIs`) no function runs. `ItemsInOrder` is needed for the
  arguments of notifications, which are found by walking an array in the order of its keys.
  The assumptions are what C++ guarantees: arguments and results have the types they are
  declared with, or are thrown (`CallerAssumption`), and a third parameter compiles, that is
  it has the type of the second or both are numbers (`DispatcherAssumption`).

Only model-checked:

- liveness (`AwakeWorkersDrain`, `ShutdownCompletes`, `RingExecuteReturns`): the provers do
  not treat fairness;
- `ArithmeticAgrees`, `TreeWalksVisit`, `DirectRoundTrip`, `BinaryRoundTrip`,
  `JsonRoundTrip`: what a walk or a reader, or a loop over bits, computes for every input is
  an induction over data, and most of these modules have recursive operators;
- `StructuresTypeOK` as a whole, since `MCStructures` also has the recursive modules; its
  parts for lists, maps, stacks, trees and the ring are proved one by one.

## 5. What is not modelled

Left out for good:

- `xml`: `xml.cpp` does not compile, and more is missing than syntax. `from_xml_tree` has a
  comment in the place where children are read and uses variables of another block; the
  functions that walk the elements take an `xml_conflict_mode` that is declared nowhere;
  `as_child` in `write_value` calls itself. What the file would do is not defined.
- `units` (floating-point factors), `taggable` (commented out), the compiler and OS headers
  and `core.hpp` (macros), `main.cpp` (a demonstration), `typelist` and `type_struct` (lists
  of types at compile time).
- `contiguous_iterator` and `iterator`: wrappers of pointers that the containers do not use.
- Operations that do not compile when they are used: `reserve` and the assignments of
  `array_list`, `fast_stack::erase`, pairs and vectors in `encoder` and in a call.

In part:

- `allocator.hpp` is modelled as `array_list` uses it.
- Of `integer`, `constexpr_maths` and `value_compare` the containers, limits and ranges up
  to 15 bits are modelled; square roots and bit masks are not.
- `json` reads only what the writer writes, and the same with a blank in front. What
  `from_json` makes of other texts is not modelled.
- A string is its first character in `ValueHeap`, and text is its characters only where a
  reader looks at them (`Json`, `Binary`).
- `std::thread`'s constructor and `operator new` do not fail.

What could be added: `DirectRoundTrip` for all values, by an invariant that relates what
`parser_to_value` has built to what the walk still has to visit.
