# A TLA+ model of myLeveldb

This directory specifies, model-checks and proves properties of myLeveldb, a
re-implementation in C++ of the lower layers of LevelDB for Windows: the skip
list and the arena that a memtable is made of, the condition variable and the
background thread of the port, the files, directories and locks of the
environment, the encodings and orders of keys, and the small classes around them
(status, iterator, random numbers, logger). There is no database on top of these yet, so every
part is specified against what its own header, comments and tests promise.

Contents: [inventory](#inventory-of-the-system), [modules](#modules-and-the-code-they-model),
[runs](#the-runs), [fairness](#fairness), [proofs](#what-is-proved),
[disagreements](#where-the-code-disagrees-with-its-text),
[what is left out](#what-is-not-modelled), [plan](#plan).

## Inventory of the system

| Component | Source | State | Operations | Hard behaviour | What makes it correct |
|---|---|---|---|---|---|
| Skip list | `skiplist.h` | nodes with up to 12 `next_` pointers, `curMaxHeight_`; `node_` of each iterator | `insert`, `contains`, iterator `seek`, `seekToFirst`, `seekToLast`, `next`, `prev` | one writer beside readers without a lock; towers linked level by level in memory that is not cleared; `prev` filled before the height is known | it acts as an ordered set; every level is an ordered chain; nobody follows an unwritten pointer |
| Atomic pointer | `port_win.*` | a pointer | loads and stores, with and without barriers | what a reader sees of a half-linked node | its uses in the skip list |
| Mutex, CondVar | `port_win.*` | `mu_`; `waiting_`, `sem1_`, `sem2_`, `wait_mtx_` | `Lock`, `Unlock`, `Wait`, `Signal`, `SignalAll` | a handshake over two semaphores; a waiter between counting itself and sleeping | a wake-up reaches a thread that waited before it; calls return |
| Background thread | `env_boost.cc` | `queue_`, `bgthread_`, `mu_`, `bgsignal_` | `Schedule`, `BGThread` | notification after the unlock, spurious wake-ups, functions that schedule others | every item runs once, in order, and none is forgotten |
| Arena | `arena.*` | `blocks_`, `alloc_ptr_`, `alloc_bytes_remaining_`, `blocks_memory_` | `allocate`, `allocateAligned`, `memoryUsage` | padding at the end of a block, abandoned blocks, failures of `new` and `push_back` | regions are disjoint, inside a block and aligned; the usage is honest |
| Files | `env_boost.cc`, `env.cc` | the file, the stream's buffer, the positions of each descriptor, `mu_` of a random access file | `WriteStringToFile`, `ReadFileToString`, `Read` | failures of every library call; a buffer that fails late; threads that share a descriptor; a reader beside a writer | nothing is lost while the stream is good; reads are whole, or at their own offset |
| Coding | `coding.*` | none: a string and a slice of it | `put…`, `get…`, `encode…`, `decode…`, `varintLength` | boundaries of 7 bits; input cut anywhere | what is put is got; a cut item fails; lengths agree |
| Comparators | `comparator.cpp`, `dbformat.*` | none: a key | `compare`, `findShortestSeparator`, `findShortSuccessor` | 0xff bytes, prefixes, a wrong length, a test on the wrong string | separators lie between their keys, successors above |
| MemTable | `memtable.*` | arena, skip list, `refs_` | `add`, `get`, `newIterator`, `ref`, `unref` | layout of an entry against its allocation; who deletes the table | an entry is what was added; the table is deleted once |
| LookupKey | `dbformat.*` | a buffer on the stack or the heap | constructor, three slices | the size at which it moves to the heap | the slices are those of an entry |
| Random | `random.h` | `seed_` | `next`, `uniform`, `oneIn`, `Skewed`; `randomHeight` of `skiplist.h` | a product that wraps in 32 bits | it never falls into 0 |
| Iterator | `iterator.*` | list of clean-up functions, the first in the object | `registerCleanup`, destructor | registration and calls in different orders, functions that delete other iterators | each function is called once |
| Directories and locks | `env_boost.cc` | the file system, the handles of each process | `CreateDir`, `DeleteDir`, `GetChildren`, `DeleteFile`, `RenameFile`, `NewLogger`, `LockFile`, `UnlockFile` | a test and an action with another process between; a process that ends with the lock | one holder of a lock, and none for ever; answers that were true during the call |
| Clock and threads | `env_boost.cc`, `env.cc` | table of threads | `NowMicros`, `SleepForMicroseconds`, `StartThread`, `Env::Default` | midnight | – |
| Logger | `win_logger.*` | a file, a buffer per call | `Logv` | lines that end at the end of a buffer | one whole line per call |
| Number formatting | `logging.*` | the rest of a slice | `ConsumeDecimalNumber`, `ConsumeChar`, printing | the largest number | the digits are the number, or it fails |
| Status, Slice | `status.*`, `slice.h` | an array with a code and a text; a pointer and a size | constructors, assignment, destructor; `compare`, `remove_prefix` | copies, `new` that throws in an assignment | every status owns one array |

How they interact. A memtable owns an arena and a skip list; the skip list
allocates its nodes, and the memtable the entries that are its keys, from the
arena; the skip list compares entries with the internal comparator, which takes
the length of an entry with the varints of `coding.cpp` and compares user keys
with the bytewise comparator. `insert()` is called by one writer at a time;
readers call the searches beside it, and the only synchronisation inside the
skip list is the barriers of the atomic pointer. The environment owns the
background thread, which shares `queue_` with its callers under `mu_` and runs
their functions without it. Files are called from any thread; a random access
file has a mutex of its own. Processes meet in a directory, through the file
system only. A client of a memtable holds references, and gives one to each
iterator as a clean-up function. CondVar is used together with a Mutex of its caller.

## Modules and the code they model

| Module | Models | Composes |
|---|---|---|
| `OrderedSet` | what the skip list promises (abstract) | |
| `SkipList` | `skiplist.h`, one load or store of a shared pointer per action | instantiates `OrderedSet` |
| `Monitor` | what Mutex and CondVar promise (abstract) | |
| `CondVar` | `port_win.cc`, one blocking call per action | instantiates `Monitor` |
| `TaskQueue` | what `Schedule` promises (abstract) | |
| `BackgroundQueue` | `Schedule` and `BGThread` of `env_boost.cc` | instantiates `TaskQueue` |
| `Arena` | `arena.cpp` | |
| `Files` | `WriteStringToFile`, `ReadFileToString`, random reads, with the files of `env_boost.cc` | writer, reader and threads on one file |
| `Powers` | nothing: the powers of a base, as a recursive function | |
| `Varint` | the numbers of `coding.cpp`, as operators | extends `Powers` |
| `Coding` | put and get on strings, `LookupKey` and `parseInternalKey` | extends `Varint` |
| `InternalKeys` | the comparators of `comparator.cpp` and `dbformat.cpp` | |
| `MemTable` | the layout that `add` writes | extends `Varint` |
| `ProcessLock` | what `LockFile` and `UnlockFile` promise (abstract) | |
| `Directories` | the directory and the lock file of `env_boost.cc`, one library call of one process per action | instantiates `ProcessLock` |
| `Iterators` | the reference counter of `memtable.h` with the clean-up list of `iterator.cpp` | |
| `Statuses` | the arrays of `status.cpp` | |
| `Random` | `random.h` and `randomHeight` | |
| `Logger` | `Logv` of `win_logger.cc` | |
| `Decimal` | the numbers that `logging.cc` reads | extends `Powers` |
| `Sequential` | nothing: the run of the components that one thread at a time uses | extends `Coding`, `InternalKeys`, `Arena`, `Iterators`, `Statuses`, `Random`, `Logger`, `Decimal` |
| `MC…` | the constants of a run that are not model values | |
| `…Proofs` | theorems and their proofs | extend the module they are about; `MemoryProofs` is about `Arena`, `Statuses`, `Logger` and `Iterators`, `NumbersProofs` about `Random`, `Decimal` and `Coding` |

**SkipList.** `next[n][l]` is `next_[l]` of the node of key `n`; a slot that no
constructor and no store wrote holds `Uninit`, and loading it yields a null
pointer or a wild one. `insert` is the writer's `InsertBegin` (the call, `prev`
empty), `InsertAdvance` and `InsertDescend` (the search), `InsertRaise` (the
random height, the new levels of `prev`, `curMaxHeight_`, the node),
`InsertOwn` and `InsertPublish` (the two stores per level, from the top level
down as in the code). A reader's search begins, advances, descends, returns, or
crashes on a pointer to no node. Iterator steps that load one pointer are one
action. `LockFreeOps` says which searches run beside `insert()`; the others
hold a lock of the client that excludes it.
The heights are chosen freely, so nothing depends on `Random`.

**CondVar.** `pc[t]` is where a thread is; `mu`, `wait_mtx`, `waiting`, `sem1`
and `sem2` are the fields. `wait_mtx_` is taken and released within an action,
except where the code waits on a semaphore under it (`SignalWake` …
`SignalDone`, `SignalAllWake` … `SignalAllDone`). `Wait` is `WaitEnlist`,
`WaitUnlock`, `WaitSleep`, `WaitAnswer`, `WaitRelock`.

**BackgroundQueue.** `Push` is `Schedule` up to the unlock, `Notify` the
`notify_one` behind it; `Sleep`, `WakeSpuriously`, `Take` and `Return` are
`BGThread`. A function that the thread runs may call `Schedule` itself.

**Arena.** A region is a block number, a first byte and a length; addresses are
offsets in a block (blocks come aligned from `new`). `Cut` is a request that fits,
`OwnBlock` and `NextBlock` the two fall-backs, `NewFails` and `PushFails` the two
failures; in the second the block is counted and leaked. `handed`, `padding` and
`leaked` are history variables.

**Files.** `disk` is the file, `buffer` what the stream has not passed on. The
stream may pass bytes on at any time (`Spill`) and fail at it (`SpillFails`), as
a library with a buffer of unknown size may. The sequential reader is a loop
of `Read` calls, and each thread's `Read` is call, lock, seek, read, return.
`rtorn` is a history variable: a writer truncated the file under the reader. What
is abstracted: a stream that fails drops the rest of its buffer; the process does
not crash between two calls; there is one writer; a file that somebody has open
cannot be deleted, as on Windows.

**Varint, Coding.** `Base` is 128 in the code. The widths are parameters with the
assumption that a number of "32 bits" has five groups of which the last is not
full, and one of "64 bits" ten, so that small numbers have all the lengths.
A client puts items, hands any first part of the string to a second one, which
gets them back with the matching functions. Internal keys with their length are
items too, made by `LookupKey` or by `encodeKey` and taken apart by
`parseInternalKey`; the tag has its eight bytes.

**InternalKeys.** Keys are strings of bytes; the tag has one byte for the type and
one (seven in the code) for the sequence number, the lowest first. `Separator`
has the length that `comparator.cpp:39` computes (the new value of the byte, not
its place), and `InternalSeparator` the test of `dbformat.cpp:72` as it is (on
`*start`, with its tag).

**MemTable.** An entry is the number of bytes allocated and the number written.

**Directories.** `dir` is what is under the directory's name, `files` the names in
it, `holder` the process whose handle has the lock of the file `LOCK`, `open[p]`
the handles that `p` has of it, `lock[p]` the `FileLock` that it was given. A
function is a chain of library calls: `LockFile`, `LockCreate`, `LockAssert`,
`LockOpen`, `LockTry`; `UnlockFile`, `UnlockDelete`; `CreateDir`,
`CreateDirIsDir`, `CreateDirMake`; `DeleteDir`, then one file after the other and
the directory itself; `ListOpen`, `ListNext`, `ListEnd`. Every one of them may
fail, and a process may end between any two (`Crash`), or at the assertion of
`LockFile` (`LockAbort`), which closes its handles and so gives the lock up. The
loser of `LockTry` keeps its handle, as `my_lock` is deleted nowhere. `been`,
`always` and `ever` are history variables: what was there since a call began.
`rest[p]` is what the `directory_iterator` of `GetChildren` has still to give out: it
begins with the files that are there, must give out those that stay until it comes to
them, and may give out, or not, those that go or come meanwhile (`Scan`), as systems
do; the code ends when nothing is left of it, or with an exception. `stuck` of
`ProcessLock` is the process that has the lock after its `unlock()` threw: it has no
`FileLock` any more, and nobody gets the lock until it ends.
External assumptions: a library call may fail, the iterator behaves as `Scan` says,
the system refuses to remove the files of a logger, as in `Files`, and nobody
removes or replaces a lock file that a process has open.

**Iterators.** `refs` is `refs_`, `held` the references that clients have; the
cell inside an iterator has its name, the others come from a heap that gives
freed cells out again. The destructor is `Delete`, then `Call` and `AfterFirst`
or `AfterNext` per function, with the steps of other iterators between, since a
function may delete one. Clients keep to the discipline that the code leaves to
them: `newIterator` takes no reference (`memtable.cpp:69-72`), so each iterator
gets an `unref` to call.

**Statuses.** `state[o]` is `state_`, `heap` what each array holds. `Assign`
deletes before it copies, as the code does; when the copy throws, the object is
in `thrown` and nobody touches it again. A client of the code could not avoid
its destructor: see [the disagreements](#where-the-code-disagrees-with-its-text).

**Random.** The product is cut to the word (`2 * Half`) before it is split, which
is what the code computes, and not what the generator with these constants is.

**Logger.** A message is a length and the places of its newlines; `KeptLength` is how
much of it lies before `p`, and `Line` what is given to `fwrite`. A newline that is the
last byte kept of a longer message is not followed by another one
(`win_logger.cc:67`). Nobody looks at the result of `fwrite`, so the line may come to
the file only in part (`complete`), and the call returns all the same. **Decimal.** A turn of the loop per character,
as a recursive function.

## The runs

| Run | Configuration | Bounds | What it shows |
|---|---|---|---|
| `skiplist` | `SkipList_sync` | 3 keys, height 3, one reader; `seek`, `contains` and `prev` exclude `insert` | no unwritten load, the assertion of `insert`, iterators, refinement of `OrderedSet`, termination |
| `skiplist_race` | `SkipList_race` | the same, every search beside `insert` | the inductive invariant, where unwritten pointers can be met, and what a search may miss |
| `skiplist_unlocked` | `SkipList_unlocked` | the same | violation: `LoadsInitialised` |
| `condvar` | `CondVar` | 3 waiters (one also signals), a signaller, a broadcaster | one token, exact counting until a broadcast is stuck, wake-ups for earlier waiters, refinement of `Monitor`, `Signal` returns |
| `condvar_signalAll` | `CondVar_signalAll` | 2 waiters, a broadcaster | violation: `SignalAllReturns` |
| `background` | `BackgroundQueue` | 2 callers, 4 items | no item is stranded or duplicated, refinement of `TaskQueue` with its fairness: every item is run |
| `files` | `Files` | two strings without a byte in common, buffer of 1 byte, 2 threads, 2 offsets | nothing lost, whole reads, atomic reads |
| `files_close` | `Files_close` | the writer alone | violation: `OkMeansWritten` |
| `memtable_add` | `MemTable_add` | sizes 0, 1, 3, 16 | violation: `EntriesFill` |
| `sequential` | `Sequential` | below | eight components without threads of their own, each alone: round trips of the coding, shortened keys, the arena, clean-ups and references, statuses, random numbers, log lines, decimal numbers |
| `directories` | `Directories` | 2 processes, the lock file and another one, 2 handles per process | the lock is a lock of processes that is free again after a release or an end (refinement of `ProcessLock`), honest answers of `CreateDir` and `GetChildren`, no call waits |
| `directories_delete` | `Directories_delete` | one process | violation: `DeleteDirDeletes` |

In `sequential` the first state chooses a component, and only its client takes
steps: the components share no state, and their products would show nothing more.

| Component | Bounds | What is checked |
|---|---|---|
| `Coding` | groups of 2 bits, numbers on both sides of the lengths 1 to 5 and 9 groups, slices and user keys whose lengths have one to three groups, the first and the last sequence number, pairs of items, every cut | `GotIsSent`, `OnlyCutItemsFail`, `LengthsAgree` |
| `InternalKeys` | bytes 0 to 4, user keys up to 2 bytes, two sequence numbers, both types | `TypeOK`, `ShortenedBetween`, `SuccessorAbove` |
| `Arena` | blocks of 24 bytes, sizes 5 to 7, 55 bytes in total | `Apart`, `PointersAligned`, `UsageBounds` |
| `Iterators` | 2 iterators, 3 cells of the heap, 3 functions each, 4 references | `TableOutlivesUsers`, `CleanupsRunOnce` |
| `Statuses` | 3 objects, 3 arrays, 2 texts | `TextsOwned` |
| `Random` | a word of 8 bits, every seed, height 3 | `SeedLives` |
| `Logger` | buffers of 6 and 9 bytes, a header of 3, messages around both ends, with and without newlines at the end and at the cut, 2 threads, 2 lines | `LinesWhole` |
| `Decimal` | base 3, the largest number 16, every string of up to 4 characters | `NumbersConsumed` |

Why the bounds are enough. Three keys let a key be inserted before, between and
after others while a reader stands on any of them; height 3 has a level above,
at and below the current height. A second reader would add nothing: readers
write no shared variable (and the theorems hold for any number). Three waiters
distinguish the thread a signal is meant for, one that waited before it and one
that comes later. Four items are enough for the queue to be filled while the
thread sleeps, checks and runs, by callers and by an item. In the arena 6 of 24 bytes is the
limit of a small request (7 is a large one, 5 leaves a pointer unaligned), a
block takes four of them to its last byte or is abandoned after some, and 55
bytes are two blocks and a large request. The strings in `files` have different lengths and share no byte, so
that mixtures of two versions show, and a buffer of one byte makes every read
a sequence of reads. In `Coding`, pairs show whatever an item does to the next
one. In `InternalKeys`, the byte values leave room for separators that are shorter
than, as long as, and longer than a client's key, and results are fed back. Two processes are enough for every order of two chains of
library calls (the theorems hold for any number); two handles let a process try
a lock again that it has, and lose. Two iterators with three cells let one be
deleted within the destructor of the other and cells be used again; three functions
are one in the iterator and two behind it, whose order differs from that of
registration. Three statuses are a copy, its original and another one. The factor of
`Random` is one for which the largest number of the generator is reached, as it
is in the code (from the seed 868985321); 16 is `121` in base 3, so the last
digit decides whether a number fits.

Deadlock is checked everywhere but in the runs in which something really stops: a
reader that crashed, a broadcast that is stuck, a table that is full, and a
client of `sequential` that has nothing left to ask for.

## Fairness

Every fairness condition is weak, and on a step of a thread that is inside a
call and can go on: the scheduler runs it in the end.

* `SkipList!Fairness`: the writer's and the searches' next step. Not the start
  of a call. Termination of `seekToLast` beside a writer relies on finitely many
  keys.
* `CondVar!Fairness`: the steps inside `Wait`, `Signal` and `SignalAll` that no
  lock of the caller is needed for. Not the relocking of `mu_`, which its holder
  may keep.
* `BackgroundQueue!FairSpec`: the notification that follows a push, and the
  thread's own steps, which includes that scheduled functions return. Not
  the spurious wake-up: an item runs although none ever happens.
* `Directories!FairSpec`: a process inside a function makes its next library call, or
  ends. Not the start of a function, and not that anybody gives the lock up:
  `LockFile` does not wait for it.

The other runs check safety only.

## What is proved

All theorems are about every value of the constants that satisfies the named
assumption of the module (`SkipListAssumption`, `CondVarAssumption`, …): any sets
of keys and readers, any height; any threads; any callers and items; any block
size and sizes; any strings, buffer size and threads; strings of bytes of any
length; any processes, names and handles. Where a type invariant is part of an
inductive invariant, it is proved and not checked again by a run of its own.

| Module | Theorems | Argument |
|---|---|---|
| `SkipListProofs` | `TypeCorrect`, `ListCorrect`, `InsertAssertsHold`, `NodesStay`, `UnwrittenOnlyInNewNode`, `LockedIterators`, `LockedLoads`, `RacingSearches`, `Refinement` | The inductive invariant `IInv` (in `SkipList`, checked by `skiplist_race`) adds to the order of the levels that `prev` is the place of the new key on every level (`PrevOK`), that slots of unlinked nodes are unwritten (`UnlinkedEmpty`), that the levels above the height are empty (`EmptyAbove`), and that a reader is on a linked node before its key or on the node being linked (`ReaderOK`). Without `PrevOK` the stores of `InsertOwn` could cut the list off; without `ReaderOK` a search could return a key that is too small. The steps on the list and those of the readers are separate lemmas. The theorems about clients with a lock assume that `LockFreeOps` is at most `seekToLast`. |
| `CondVarProofs` | `TokenIsUnique`, `NoLostWakeup`, `SignalIsForTheEarlier`, `MonitorRefinement` | `OneToken` is inductive with the types. The count of the sleepers follows from it by induction over the steps, with the cardinality of a finite set that gains or loses one member, and a stuck broadcast stays stuck. |
| `BackgroundQueueProofs` | `NobodyStranded`, `ItemsAreNotDuplicated`, `TasksRefinement` | The invariant adds when the thread exists and that it is inside a function while it notifies itself (`ThreadOK`). |
| `MemoryProofs` | `RegionsApart`, `AlignedPointers`, `UsageIsHonest` | The invariant adds that the end of the current block, from `alloc_ptr_` on, was given to nobody (`CurrentOK`). That the slop of `allocateAligned` makes up the next multiple is arithmetic, for pointers of 4 and of 8 bytes. |
| | `StatusesOwnTexts` | `StatusesInv`: no two live objects have the same array, each array says what its owner means, and what is not free is owned. `Deleted` and the filling of a new array keep this (`FillOwned`, `GoneOwned`), so an assignment is the one after the other. |
| | `LogIsWhole` | `LoggerInv`: a thread is in the second turn of the loop only with a message that does not fit into the first buffer, so that the buffer which a line came from does not matter. What fits is kept whole, and what is cut leaves one byte for the newline (`LineIsWhole`), for newlines anywhere in the message. |
| | `TableIsThere`, `CleanupsRun` | The pointers of the code say nothing of which cells are of one list. `IteratorsInv` says that there is a map from iterators and functions to cells along which the lists are linked (`Linked`) and at whose ends the heads are (`Heads`), that no two places of it are one cell, that the calls so far are a beginning of the order (`CallsInOrder`), and that `refs_` counts the clients and the functions not called yet (`ReferencesOK`). Each step changes the map in one place, or only its reading; the steps of other iterators leave it alone (`KeepsLists`). |
| `FilesProofs` | `Invariance`, `TypeCorrect`, `WriterLosesNothing`, `ReadsAreWhole`, `ReadsAreAtomic` | The invariant has a part per user of the file: what the writer appended is split between file and buffer; an untorn read holds a prefix of the file; the thread between seek and read owns the position of the descriptor. |
| `InternalKeysProofs` | `TypeCorrect`, `SeparatorCorrect`, `SuccessorCorrect`, `InternalOrder` | A separator that is not its string is below the limit, wherever it was cut or padded (`SeparatorBelowLimit`); a tag behind a user key cannot let a string pass the test on the wrong operand that the user key would not pass (`GuardOnUserKey`). `InternalLess` is a strict total order on strings that end with a tag, as a skip list needs of its comparator, whose keys `SkipList` has as integers: a string is decided by its first difference (`LessTotal`, `LessTransitive`), and a tag tells both of its parts (`TagIs`). |
| `DirectoriesProofs` | `LockIsKept`, `LockRefinement`, `CreateDirIsHonest`, `ListingIsHonest` | The invariant adds to `HeldLockStays` what a call in progress relies on: a process that opens the lock file has room for a handle, one that is closing it has the handle and not the lock (`HandlesOK`), the history of a call contains the present, and a file that was always there is in the listing or still to be given out (`HistoryOK`; `ListingStays` shows that steps of others keep this). Who holds the system's lock was given it or failed to give it up, which makes `ImplementsLock` say that the lock is free after a release or an end. The answers of `CreateDir` follow from the moments between its tests: one that goes on to create has met a moment without a directory. |
| `NumbersProofs` | `CodesNumbers`, `GeneratorLives` | A product that is not 0 in the word has two parts that are not both 0, and their sum is at most one above `M`. That 16807 and 2^31 make no such product 0 is shown by multiplying with the inverse of 16807. |
| | `DecimalsAreConsumed` | The value after `n` turns is the number of the first `n` digits (`LoopIs`), and a turn says that it overflows exactly when the next number is above the largest one (`OverflowsIf`). |
| | `GetsFindPuts`, `GetsFailOnCuts`, `CodesHaveLengths` | A number has one number of groups (`GroupsUnique`, `Size`); `encodeVarint32`, a cascade of comparisons, and `encodeVarint64`, a loop, both write that many (`Encode32Is`, `Encode64Is`), and `varintLength` counts them (`LengthIs`). Read back, they sum up to the number (`DigitSum`, `GetPtrWhole`), and no cut code is taken for one (`GetPtrCut`). `CodingInv` carries this through any sequence of calls: the string is the items one after the other (`ItemsLie`), and the input is what follows the items got so far, up to the cut (`GotOK`). |

Every invariant and every action property that a run checks is the statement of a
theorem. Only model-checked is liveness (`SearchesEnd`, `InsertsEnd`,
`SignalReturns`, `CallsReturn`, and the fairness part of `ImplementsTaskQueue`),
which the prover does not reach.

Recursion. `Powers`, `Varint` and `Decimal` are written with recursive functions. The
theorems of the library about them take operators as parameters and cannot be
used here, so `NumbersProofs` derives its own for functions and sets: a set of naturals that is
not empty has a least member (`LeastNatural`), hence induction (`Induction`,
`RangeInduction`), hence a function with given equations exists (`Recursion`,
`RecursionTo`), which the definitions then denote (`PowerIs`, `NumberIs`, `LoopIs`,
`CodeIs`, `GroupSumIs`).

The assumptions that a reader should know of: a `directory_iterator` gives out every file
that stays until it comes to it (`Scan`, for `ListingIsHonest`); no slice has 4 GB, since
`coding.cpp:114` cuts a length to 32 bits (`CodingAssumption`); sequence numbers have
56 bits, as `dbformat.cpp:8` asserts (there, too); a header of a line fits into the small
buffer (`LoggerAssumption`); a cell inside an iterator is not one of the heap
(`IteratorsAssumption`).

## Where the code disagrees with its text

Five runs show a statement of the repository that the code does not keep.

* `skiplist_unlocked`: `insert()` links the new node from the top level down
  (`skiplist.h:120-124`), so a search beside it can reach the node before its
  lower pointers are written, in spite of the "lock-free pointer"
  (`port_win.h:94`) that holds them. The proofs say what remains true: the node
  being linked is the only one (`UnwrittenOnlyInNewNode`), and a search finds no
  wrong key (`RacingSearches`).
* `condvar_signalAll`: with two waiters `SignalAll()` releases one and waits for
  two answers (`port_win.cc:112-117`), against the paper that
  `port_win.h:73-74` refers to.
* `files_close`: `Close()` drops the status of the last flush
  (`env_boost.cc:205-224`), and `WriteStringToFile` (`env.h:252`) says OK for data
  that are not in the file.
* `memtable_add`: `MemTable::add` computes the length of an entry from the value
  where it means the key (`memtable.cpp:77`), against its own assertion
  (`memtable.cpp:89`).
* `directories_delete`: `DeleteDir` tests the count of `remove_all` and not its error
  code (`env_boost.cc:359`), so it says OK for a directory that is still there
  (`env.h:87`).

Others that no run of its own shows:

* The separator that the test of `dbformat_test.cpp:82-83` expects to be one byte
  has 103 (proved harmless to the order).
* `LockFile` asserts that the file could be made (`env_boost.cc:404`), where
  `env.h:97-99` promises a status; and the `FileLock` of a lock that was not
  obtained is deleted nowhere (`env_boost.cc:407-412`), so the process keeps a
  handle of the file. The steps `LockAbort` and `LockTry` do this.
* `Status::operator=` deletes its array before it has a new one (`status.h:72-73`);
  if `new` throws, the destructor deletes it again. `TextsOwned` says that this
  is the only way.
* `Logv` ignores the result of `fwrite` (`win_logger.cc:72`): a line may be missing or cut
  in the file without anybody knowing.
* The comment of `random.h:19` gives the numbers as `[1, M - 1]`; `M` itself is one,
  and with a seed that is 0 in its low 31 bits 0 is the only one.
* `Skip()` passes the end of a file (`env_boost.cc:126`), where `env.h:173-174` stops;
  `NowMicros()` starts again at midnight (`env_boost.cc:486`), where
  `env.h:141-143` promises differences.

## What is not modelled

* Of `LookupKey`, the choice between the buffer on the stack and the heap; of
  `Random`, `uniform`, `oneIn` and `Skewed`, remainders that nothing calls; of
  `Status`, `toString`; of the environment, `FileExists` and `GetFileSize`, which
  change nothing.
* `MemTable::get` and its iterators: `add` stores no key or value
  (`memtable.cpp:82` and `:87` compare where they should copy), so what they
  return is up to memory nobody wrote.
* Clock, threads other than the background thread, printing of numbers and
  strings, Snappy: single calls of a library, without state of their own.
* Weak memory: loads and stores of shared pointers are sequentially consistent
  here. The barriers of `AtomicPointer` make them so for publication on x86
  with the compiler the code is written for; a model of reordering is not attempted.
* `Skip()`, and clients that use a writable file otherwise than
  `WriteStringToFile` does.
* Tests and the exercises around `main.cpp`.

## Plan

Done: skip list, condition variable, background thread, arena, files, directories
and locks, coding, comparators, the layout of memtable entries, iterators and
references, statuses, random numbers, logger, decimal numbers. What is left, in
the order of importance:

1. `Lookup`: `MemTable::get` over an ordered set of entries in the order of
   `InternalKeys`, once `add` stores what it is given; before that there is nothing
   to find.
2. `Files`: `Skip`, several writers, a crash of the process between two calls.
3. Proofs, for `Lookup`: an entry written by `encodeVarint32` and read by
   `getVarint32Ptr` is the same key to the skip list, from the lemmas of
   `NumbersProofs` and `InternalOrder`.
