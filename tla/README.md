# A verification project for EMS

EMS (Extended Memory Semantics) gives the threads or processes of a Node.js or
Python program shared arrays in a memory-mapped file. Every element has a tag
byte beside its data: full/empty bits, a reader count and the type of the value.
Loads, stores, read-modify-writes, stacks, queues, barriers, critical regions
and parallel loops synchronise through such tags and through words of a control
block, without any help from the operating system.

This directory holds TLA+ models of that machinery, TLC configurations that
check them on small instances and TLAPS proofs, for every size, of all
safety properties the instances satisfy. Paths such as `src/src/ems.cc:426` are relative to the directory that holds the
repository as `src/`. `PROJECT.json` maps every definition to the lines it models and lists the runs,
the hazards, the findings, the theorems and, for every property that holds, a
mutation of the code that breaks it.

## 1. The system

| Component | State | Operations | Hard because |
|---|---|---|---|
| Tagged elements (`ems.cc`, `rmw.cc`) | tag byte, data word of each element | read, readFE, readFF, readRW, releaseRW, write, writeXF, writeXE, writeEF, faa, cas, setTag | every operation is a sequence of loads, one compare-and-swap and plain stores; some wait, some can fail half way |
| Stacks and queues (`primitives.cc`) | `EMS_ARR_STACKTOP`, `EMS_ARR_Q_BOTTOM` and their tags, the elements | push, pop, enqueue, dequeue | two indices under two locks, each read under the other; plain stores the compiler may reorder; full arrays |
| Collectives (`collectives.cc`, `ems.js`, `ems.py`, `nodejs.cc`) | `EMS_CB_CRITICAL`, `EMS_CB_SINGLE`, two barrier counts and a phase | barrier, single, critical, master | counters that are reset while fast threads are already at the next collective; timeouts; exceptions |
| Parallel loops (`loops.cc`, `ems.js`, `ems.py`) | `EMS_LOOP_IDX`, `_END`, `_CHUNKSZ`, `_MINCHUNK`, `_SCHED` | EMSloopInit, EMSloopChunk, parForEach | a chunk size read and stored without a lock; 32-bit index arithmetic; reuse by the next loop |
| Key maps (`ems.cc`, `rmw.cc`) | an open-addressed map from keys to indices, with tags | EMSkey2index, EMSwriteIndexMap, EMSindex2key, mapped paths of the element operations | insertion races, tags freed by threads that do not hold them, partial failure, an insert by cas |
| Transactions (`ems.js`, `ems.py`) | the elements a transaction has taken, their old values | tmStart, tmEnd | deadlock by lock order, aborts |
| Heap (`ems_alloc.cc`, `ems.cc`) | a buddy tree in shared memory, one spin lock | emsMutexMem_alloc, emsMutexMem_free | lifetime of strings that are read after their tag is released |
| Arrays (`ems.cc`, `ems.js`, `ems.py`) | the mapped file and its control block, a table of slots per process | new, destroy, EMSinitialize, EMSdestroy | one process creates what the others open; a name is unlinked and created again; slots run out; a fill fails |
| Bindings, start-up | language objects, child processes | conversion, proxies, fork | mostly sequential data handling and I/O |

The element operations are the base. A stack or queue operation takes the tag
of its index with `EMStransitionFEtag`, the function with which faa and cas take
an element. A transaction is a sequence of readFE (or readRW) and write/setTag
calls. A loop is the iteration counter between two barriers; single is a counter
followed by a barrier. All of them use the heap for strings.

What makes each component correct:

- **element**: BUSY is an exclusive lock; the reader count is the number of
  readers; a result never pairs the type of one value with the data of another;
  nobody sleeps through the state it waits for; each operation is atomic;
- **stack and queue**: a linearizable LIFO or FIFO; nothing is lost; every call
  returns;
- **collectives**: nobody is past a barrier some thread has not reached; single
  runs once; critical regions exclude each other; the program ends;
- **loops**: every iteration is executed exactly once;
- **map**: one index per key, a key that was written is found;
- **transaction**: no deadlock, serializable, an abort restores everything;
- **heap**: live blocks are disjoint, an allocation fails only when there is no room;
  every block belongs to one element;
- **array**: nobody uses a control block before it is filled, and everybody uses
  the same file.

## 2. Modules

| Module | Models | Role |
|---|---|---|
| `EMSElement` | `ems.cc`, `rmw.cc`: one element and its callers | component |
| `TaggedCell` | what the documented element operations promise | abstract specification |
| `EMSElementRefinement` | the refinement mapping, property `Atomic` | composition |
| `EMSElementProofs` | theorems on `EMSElement`: BUSY is a lock; what it protects: the count of readers, the value, its type; `EMSElement` implements `TaggedCell` | proofs |
| `EMSStackQueue` | `primitives.cc` | component |
| `SharedSequence` | one LIFO or FIFO sequence with atomic operations | abstract specification |
| `EMSStackQueueRefinement` | the mapping, property `Linearizable` | composition |
| `EMSStackQueueProofs` | theorems on `EMSStackQueue`, which implements `SharedSequence` | proofs |
| `EMSCollectives` | `collectives.cc` and the binding functions around it | component |
| `EMSCollectivesProofs` | theorems on critical regions, barriers and single | proofs |
| `EMSLoops` | `loops.cc` and parForEach of both bindings | component |
| `EMSLoopsProofs` | theorem on `EMSLoops` | proofs |
| `EMSMap` | the key map of `ems.cc` under the element operations of `ems.cc` and `rmw.cc` | component |
| `KeyedCells` | one tagged cell per key | abstract specification |
| `EMSMapRefinement` | the mapping, property `Keyed` | composition |
| `EMSMapProofs` | theorems on `EMSMap`, which implements `KeyedCells` | proofs |
| `EMSTransaction` | tmStart and tmEnd of `ems.js` and `ems.py` | component |
| `AtomicCells` | transactions that happen in one step | abstract specification |
| `EMSTransactionRefinement` | the mapping, property `Serializable` | composition |
| `EMSTransactionProofs` | theorems on `EMSTransaction`, which implements `AtomicCells` | proofs |
| `EMSAlloc` | `ems_alloc.cc` and the mutex of `ems.cc` around it | component |
| `EMSAllocProofs` | the tree and what a round of the allocator makes of it | proofs |
| `EMSArray` | creation, use and destruction of an array over `EMSAlloc` | composition |
| `EMSArrayProofs` | theorems on `EMSArray`: one region, the heap and who owns its blocks | proofs |
| `MCElement`, `MCStackQueue`, `MCCollectives`, `MCLoops`, `MCMap`, `MCTransaction`, `MCArray` | values of the constants | model checking |

### EMSElement

`tag` and `data` are the tag byte and the data word of one element. `loc[t]` is
the program counter of thread `t` inside the C function it has called and the
locals that outlive a step: the tag byte last loaded (`mem`), the argument, the
result. An action is one access to shared memory, so that every interleaving of
two handlers is a behaviour: `ReadLoad`, `ReadCAS`, `ReadData` and `ReadStore`
are `EMSreadUsingTags`; `TransitionLoad` and `TransitionCAS` are
`EMStransitionFEtag`; `WriteLoad` to `WriteStore` are `EMSwriteUsingTags`;
`ReleaseLoad` and `ReleaseCAS` are `EMSreleaseRW`; `SetLoad` and `SetStore` are
`EMSsetTag`; `Faa...` and `Cas...` are `EMSfaa` and `EMScas`. The operators
`InitialFE` and `FinalFE` are the arguments with which the exported functions
call the common ones. `Call` and `Finish` are the program.

The local `newTag` of `EMSreadUsingTags` is read before it is assigned
(`ems.cc:426`). Its value matters only in the comparison with the reader limit,
so the local `full` says whether it equals the limit: any Boolean at the call,
the leftover of the failed swap afterwards.

A value is the data word together with the heap block it points to. `TypeOf`
gives its type and `Sum` what `EMSfaa` computes; both are constants because only
the type of the result reaches the control. Allocation fails whenever it likes
if `HeapFills`, and the early returns of the code then leave the tag BUSY: the
history variable `leaked` records such an abandoned tag. `holders` records the
granted readers-writer locks.

A write or cas frees the old string before it looks for room for the new one
(`ems.cc:621`, `rmw.cc:405`). When there is none it returns with the data word still
the offset of the freed block, and `freed` says so. What is found there afterwards is
the old text or what the block's next owner has put into it: any value of the type in
the tag (`Contents`). The next write frees the block a second time. Either it is
unused, and an assertion of `emsMem_free` aborts the process, which dies with the mutex
of the heap taken (`Abort`), so that all who need the heap wait for ever (`HeapOpen`);
or it has a new owner by then, or assertions are compiled out, and the operation goes on.
What the free does to that owner is not modelled. A process that has died ends no
serial section.

`Alone` is a set of operations the program calls only while no other call on
the element is in progress. Plain `read` and `write` and `setTag` do not honour
the tag, by documentation, and are meant for such sections.

`TaggedCell` has one step per operation on a cell (full/empty state, type,
value, number of readers). A reader is admitted if the readers `Fit` into `1..RWMax`, one
to a place, which says of any set of threads that there are at most `RWMax` of them. An operation that finds no
space has no result and leaves the cell BUSY (`Fail`); a write or cas also loses the string it
was to replace (`FailFreed`, `lost`), and who replaces a lost string may die of it
(`Die`). `EMSElementRefinement` maps each operation to the
instant at which it takes effect; the full/empty state of the cell while the
element is BUSY is what the owner will make of it.

### EMSStackQueue

`use` is the way the program uses the array, chosen once from `Uses`: as a stack or as a queue, for which
values, of which size, in which build, and whether the heap may be exhausted and `malloc` fail (`heapFills`). `top`, `bottom` and their tags are the two index words; `cell[i]`
is element `i`. Acquiring an index tag is one step, since `EMSElement` already
refines that acquisition; all other accesses are steps of their own.

`primitives.cc` reaches shared memory through plain pointers. Where an index and
its tag are stored one after the other the compiler may order them freely, and
the generated code differs: with gcc on x86-64 an unoptimised build (`"O0"`) loads
`STACKTOP` twice in an empty dequeue, an optimised one (`"O2"`, and `-O3`, which node-gyp
uses for release builds) stores the reset of an index after the tag that guards
it. `"O1"` stands for the order of the source text.

`MaxCalls` bounds the calls of a thread and `MaxLive` the values outstanding.
`Disciplined` says that a use never fills the array or the heap, in the order of
the source text: what holds only then is stated under that condition. A stack needs one element more than
there are values outstanding, because `EMSpush` refuses the last one (`primitives.cc:44`).

### EMSCollectives

`critical`, `single`, `nbar` and `phase` are the words of the control block.
`Program` is a sequence of collectives that every thread executes, as a
bulk-synchronous program does; `ip[t]` is the statement `t` has reached. An action
is one access to a counter. A wait polls; a timeout is a number of polls, or
`Forever` for a number that no wait uses up. `Binding` says which language
wraps `EMScriticalEnter`: Node.js throws after a timeout, Python ignores it. A barrier
or single whose time has run out lets the program go on: so it does in `ems.py`, and in
Node.js if the program catches the exception of `NodeJSbarrier`.

### EMSLoops

The `EMS_LOOP_` words, the locals of `EMSloopChunk` and a program of loops. The
words that other threads change while they are used, index and chunk size, are
read and stored in steps of their own. A barrier is taken for what
`EMSCollectives` shows of it: nobody passes before everybody has arrived. Indices are
two's complement numbers from `-HalfRange` to `HalfRange - 1`, as those of `int32_t` are.

### EMSMap

`mapFE[i]` and `mapKey[i]` are the full/empty bits of map entry `i` and the key
in it (its type and its data), `NoKey` while its type is UNDEFINED, `Torn` after
an allocation failed between the two. `data[i]` is the element itself. Every
access to a map tag is a step: `Probe` and `Compare` are one round of
`EMSkey2index`, `Search` and `Place` one of `EMSwriteIndexMap`. An operation on
the element is one step, `Try`, as `EMSElementRefinement` shows it to be; when
the element is not in the state it waits for it sets the map tag FULL, sleeps and
takes the tag again (`Again`), although it seldom held it to begin with. `Unmap`
is the store that ends every operation. `Prepare` is the store with which
`EMScas` overwrites the element of a key it has just allocated. A cas that finds no key
for an old value other than undefined stores the tag of the last element after that of
the map entry (`rmw.cc:430-433`): `MarksLast` makes both one step, which is exact where cas is kept to
serial sections, as in `map_mixed`; the violation that `map_cas` finds does not depend on it.

`tags.fe = EMS_TAG_FULL` is a load and a store of the whole byte in the
generated code. It is one step here because only the full/empty bits of a used
entry ever change, and no thread makes that store on an unused entry another
one examines: the invariant `Rooted` and `UnusedExclusive`, both proved.

`Hash` is a constant, so that keys may collide as they like. A use says which
operations the program calls, which of them in serial sections (`alone`), and
whether the heap may be exhausted. The operations differ in how they treat a missing
key: read returns undefined; the other reads, the writes and faa allocate it; cas
allocates it and prepares its element; releaseRW and setTag (`Lookups`) fail. The last two
act on the element (`Touch`) and leave the map tag alone.

`KeyedCells` gives every key a tagged cell and a flag whether it is known; only
an operation on an unknown key may fail.

### EMSTransaction

`tag[e]` and `data[e]` are the elements, `loc[t]` the locals of tmStart and tmEnd: the sorted
elements (`todo`) and the values read so far (`orig`, the handle). `Start` sorts with
the comparator of the binding (`Before`): ems.js subtracts numbers, which is no order
on keys that are strings; ems.py compares texts, so that index 10 comes before
index 9. `Take` is readFE or readRW of the next element, one step as `EMSElementRefinement` shows
it to be; a readRW may find the limit of readers in its uninitialised tag (`full`,
`Garbage`). The body writes with plain `write`, and a commit gives elements back with
`setTag`; neither acquires the element, so the load and the stores of each are
steps of their own. An abort uses writeEF. `Observe` is a readFF outside of any transaction.

A request that names no element is left out: it takes and stores nothing.

`AtomicCells` executes a transaction in one step. In the refinement that
step is the call of tmEnd; until then a cell shows the value its holder has saved.

### EMSAlloc and EMSArray

`tree` is the buddy tree, one state per node, and `mutex` the word that
`emsMutexMem_alloc` and `emsMutexMem_free` spin on. A round of a loop over the tree
is a step, so that a call without the mutex would be seen to interleave: `SeekTake`, `SeekDown` and `SeekOn` are the rounds of the
search at a node, `Climb` those of the inner loop of `emsMem_alloc` that walks back towards the root. Offsets are counted in
blocks. `live` is the history of what has been handed out. A heap and a string have less than `MaxBlocks` blocks, 8 GB with
those of the code; beyond that the exponents of `Bits` end, and the numbers TLC computes with.

`EMSArray` extends `EMSAlloc` with the program around it. Process 0 unlinks the name,
creates the file, fills the control block and comes to the barrier the others
began `new` with; all of them then open it, fill their share of the elements
and take a slot of `emsBufs`. From the second time on `new` may be called with useExisting (`Attach`): then
there is no first barrier, no control block and no fill, and values and tags stay what they were when the array was
destroyed without unlinking its file; a name without a file makes `new` return nothing. `file` is what the name stands for, `files` counts the
files created, and `loc[p].region` is the one process `p` has mapped. The operations
are a readFE, a copy of the string by the binding and a writeEF
(`"update"`), and a readRW, a copy and a releaseRW (`"inspect"`): the copy is made after the tag was
stored. `writeEF` frees the old string and allocates the new one through the
allocator, step by step. `Destroy` to `MeetEnd` are destroy, which unmaps only in process
0. The error paths are there: a heap that is too small for the fill, for the first or for a later string; no free
slot; an unlink that fails because the array is in shared memory and has no
file of its name.

## 3. Runs

Deadlock is checked in `element_rw`: some thread can always make a call or
move. Where the heap fails it is not: a process that died with the mutex of the heap
stops all who need it. In a mapped array everybody may wait for an entry whose allocation failed,
so there it is not; what waits otherwise is stated by `MapTagHeld`, and no liveness is claimed.
In the other models programs are finite, so their end is not an error,
and what must not stop is stated as a liveness property.

### Runs that hold

- **element_fe** (2 threads, a number and two strings, every full/empty operation,
  a heap that may fail; plain read, write and setTag in serial sections, and writeXF, whose code is that of
  writeXE, to keep the run small; fair).
  `ExclusiveBusy`: BUSY is held by exactly one thread, or was abandoned by an
  error return. `LockNeverLost`: the diagnostic "Lost tag lock while BUSY" cannot
  fire. `TypedResults`: type and data always belong together. `Atomic`: the
  element implements `TaggedCell`, lost strings and deaths included. `BusyReleased`: nobody
  keeps an element, unless its call fails or a process has died in the heap. `NoMissedTransition`: nobody
  sleeps through the state it waits for.
- **element_rw** (3 threads, at most 2 readers, readRW and releaseRW mixed with
  readFE and writeEF). `ReaderCount`: the rw bits count the holders.
  `ReleaseSucceeds`: a holder's release never reports an error.
  `StableUnderReaders`: data does not change under a held lock. `Atomic` again.
- **stackqueue_uses** (3 threads with 2 calls each; a stack of 3 and a queue of 2 elements that
  are never overfilled; a stack of 1 in an `"O2"` build and a queue of 1 in an `"O0"` build that
  are, with heap failures; fair). `Linearizable`: a disciplined use is an atomic LIFO or FIFO.
  `SlotExclusive`: no two threads use one data word at a time, although enqueue does
  not acquire the element it fills. `AllReturn`: every call returns. `IndexExclusive`: whatever
  fails, in any build, the index tags exclude the threads from one another.
- **collectives_program** (3 threads, seven collectives of every kind, critical
  timeouts of one and two polls, functions that throw; fair). `BarrierSeparates`,
  `NoBarrierRace` ("Race condition at barrier" is never reported), `SingleOnce`,
  `MutualExclusion`, `ExitSucceeds` (the lock is never "somehow lost"),
  `Termination`.
- **loops_loops** (3 threads, five successive loops: guided, dynamic, static, guided with a
  minimum chunk, empty; fair). `EachOnce`: every iteration exactly once and nothing else,
  before anybody leaves. `LoopsEnd`.
- **map_mixed** (3 threads, 2 elements, up to 3 colliding keys of two types, every operation, heap failures;
  write and setTag in serial sections, cas too and on elements that are never EMPTY). `UnusedExclusive`: an
  unused entry has one examiner. `OneIndex`: concurrent insertions give a key one
  element. `MapTagHeld`: an entry is BUSY only for a thread that will free it without
  waiting, or because its allocation failed. `Keyed`: the array implements
  `KeyedCells`, so that no operation misses a key that has a place or acts on
  the element of another.

- **transaction_atomic** (3 threads with a transaction or a read each, 2 elements of one array and 1 of
  another, both bindings, read-only and read-write items given in cyclic orders, commits and aborts;
  fair). `Isolated`: an element is EMPTY exactly while one transaction holds it
  read-write and its reader count is the number that hold it read-only, although
  write and setTag store stale tag bytes. `NoDeadlock`: transactions never all wait for one
  another. `Serializable`: they implement `AtomicCells`. `TransactionsEnd`.
- **array_life** (3 processes, 2 elements, a heap of 4 blocks, strings of 1, 2 and 4
  blocks and one that does not fit, 2 lives of the array, the second created afresh or attached to, 2 or 3 slots; fair). `TreeTrue`: no assertion of `emsMem_free` fails, and the tree tells
  the truth whenever the mutex is free. `FailsOnlyIfFull`: an allocation fails only if no aligned run is free.
  `OneRegion`: whoever uses the array has mapped the last file created and filled, all of whose elements are
  initialised unless an allocation has failed (`short`; a fill that runs out of heap leaves elements as they were in the new file, and
  a process that attaches to it later finds them so). `OneOwner`: every block in use belongs to one element or to
  the process about to store it. `CopyIntact`: a string copied while its element is held is the string that was read.
  `LivesEnd`: every process creates and destroys the array as often as it wants to, unless something
  failed.

### Runs that show a disagreement with a document, comment or docstring

- **element_rw_admission**: a reader may wait for ever under a lock with room,
  because `ems.cc:426` tests the uninitialised `newTag` in place of `memTag`.
- **stackqueue_lost_push**: in an optimised build an empty pop stores
  `STACKTOP` after it released the tag and erases a concurrent push.
- **map_cas**: two cas of undefined under a missing key both succeed; the one
  that allocates the key overwrites the element after the other has swapped.
- **transaction_text_keys**: two transactions of ems.js over the same two string keys, given in
  opposite orders, wait for each other; the comparator leaves the order as given.

### Bounds and why they are enough

*Elements* share nothing but the heap, so one is enough. Two threads meet in every
pair of program points; the third in the readers-writer run is needed for a
writer to wait while two readers come and go. `RWMax = 2` in place of 7 lets the
lock reach its limit with three threads. Two values tell old from new, one of
them on the heap; the second string of `element_fe` is what a read of a lost one may find. The tag
keeps its real alphabet.

*Stack and queue*: sizes 1 to 3 make the array full, empty and wrapping within the bounded
calls. A queue of 2 with two calls of each of three threads wraps round its end, and
one of 1 is overfilled.

*Collectives*: three threads let a fast one be two collectives ahead of what the
slowest has finished storing, the distance at which the two phases could be
confused. Timeouts of one and two polls expire before, during and after the
holder's stay.

*Loops*: 8 iterations and 3 threads give chunks of different sizes that are
claimed in different orders; `HalfRange = 16` keeps the sign and the wrap of a 32-bit
index with a range of -16 to 15.

*Map*: two elements and the hashes 0 and `N - 1` make chains that wrap round the
table; a third key finds it full, and `MaxSteps = 3` ends a lookup that has seen every
entry. The third thread is needed for one to free a tag by a late store that a second
holds while a third enters.

*Transactions*: three threads and three elements are needed for a cycle over
elements of two arrays; the indices 9 and 10 have opposite orders as numbers and as
texts. `RWMax = 2` lets a third reader find the lock full.

*Arrays*: four blocks make a tree of three levels, the smallest in which a node is split, full below and
combined twice and the search climbs from one half of the heap to the other; the theorems of section 4 hold for every size. Two lives let a name be unlinked and created again; with 2 slots an array that is destroyed in process 0 only
uses up the slots of the others. Three processes put one at an operation, one in the allocator
and one at a barrier.

### Fairness

Weak fairness of `Step(t)` for every thread: the operating system
eventually runs a thread that is inside an operation. Nothing is assumed of the
program: it need not make a further call (`Call` is not fair), and nothing makes
a compare-and-swap succeed. Hence a single thread may starve under
contention, and the liveness properties of elements speak of the element (the
state waited for is taken by somebody), not of one thread. In `EMSStackQueue`
the calls are bounded, which makes the stronger `AllReturn` meaningful. In
`EMSCollectives` and `EMSLoops` a program has an end, and `Begin` is part of
`Step`: every thread of a bulk-synchronous program goes on to its next
statement. In `EMSTransaction` nothing makes a thread begin a transaction
(`Start` and `Observe` are not fair), but one that has begun goes on to tmEnd. In
`EMSArray` no operation need begin (`ReadRW` and `ReadFE` are not fair);
new and destroy are collectives that every process comes to.

## 4. Proofs

The theorems hold for every number of threads, every set of values and every
limit of readers, every table, program or request. What a theorem needs beyond the
`ASSUME` of its module is a named hypothesis of the theorem; it is a rule for programs
that the documentation states or the code cannot do without, and the runs of
section 3 obey it.

**EMSElementProofs.** Failures of the heap, lost strings and processes that die of them are part of all the theorems. Hypothesis `Synchronised`: the program calls `write` and
`setTag` only while no other call on the element is in progress (they are in `Alone`); both store a tag byte
without acquiring it. All other operations, plain read included, failures of the heap and error
returns included, may be called in any mixture.

- `TypeCorrect`: `Spec => []TypeOK`.
- `BusyIsALock`: `Spec => []ExclusiveBusy`.
- `WritersKeepLock`: `Spec => []LockNeverLost`.
- `InvHolds`: the inductive invariant `Inv` they follow from.

`ExclusiveBusy` alone is not inductive, for two reasons. The final store of an
owner builds its tag from a byte loaded earlier, so a thread at a
compare-and-swap must hold a byte that is not BUSY: otherwise a successful
swap could take an element that is BUSY already. `LocalInv` says so for each
program counter, together with the operations that can be there. And the check
of `EMSwriteUsingTags` compares the tag with a byte loaded after the
acquisition by one path and before it by the other: `LockKept` says that the tag of
an owned element is the owner's byte under BUSY. `Serial` says what is left for a plain
write or setTag: the tag it loaded is still there. A step of one thread
either leaves tag and ownership alone, acquires an element nobody owns, or gives
up one it owns; `GoodStepInv` proves the invariant from that classification once,
and one lemma per function (`ReadSteps`, `TransitionSteps`, `WriteSteps`,
`ReleaseSteps`, `FaaSteps`, `CasSteps`) classifies the steps.

What the lock protects, under `Synchronised` and

- `Respected` (an element used with readRW is not also used with writeXF, writeXE or setTag, which reset its
  reader count, `ems.cc:612`): `ReadersCounted` (`ReaderCount`), `ReleasesSucceed` (`ReleaseSucceeds`) and
  `ReadersStable`, the action property `StableUnderReaders`. The invariant `ReaderInv` says that the count is that of the
  holders, that an element without a lock has none (`Counted`), and of each program point whether the thread is a holder,
  from which states it may take the element and that the byte an owner will store back has the present count (`ReadsFit`);
- `SerialReads` (plain `read`, which does not look at the tag, is kept to serial sections) and `FaaTyped` (faa of a string
  on an undefined element stores the string and keeps the type UNDEFINED): `ResultsTyped` (`TypedResults`). The invariant `TypedInv` says of
  every program point which of the type bits, the data word and the locals agree while the element is BUSY.

That each operation takes effect at once. Hypothesis `Disciplined`: all of the above and `FaaAddable` (faa of JSON returns
an error with the element BUSY, which no cell does). `OperationsAtomic`: `Spec => Atomic`, every behaviour of the element operations is
one of `TaggedCell` under the mapping of `EMSElementRefinement`. The steps are classified by function; most of them stutter, and
the one at which an operation takes effect is a step of the cell because of `FoundInv`: what the owner remembers
of the state it found is what the mapping shows of a BUSY element. The string of a cell is lost at the step at which the code has freed it and
finds no space (`FailReplacing`), and the caller that dies is one more step of the cell (`MapsAbort`).

**EMSStackQueueProofs.** No hypothesis: `Disciplined` is part of the properties.

- `IndicesLocked`: `Spec => []IndexExclusive`, in every build and with every failure (`IndexInv`).
- `SlotsExclusive`: `Spec => []SlotExclusive`. An enqueue puts its value into an element it does not acquire. Why no dequeue
  works on that element is an argument about positions, which grow, and not about elements: `QueueInv` says that the FULL elements
  are positions from the bottom to the top, less the one a dequeue has claimed and the one an enqueue is filling (`FullCells`), that none is
  claimed before it has been filled (`InOrder`), and that the values in the queue and in the calls under way are at most those a disciplined
  use has outstanding (`Balance`); fewer than `N` consecutive positions fall on different elements (`ModDistinct`). `OpInv` keeps the locals of each operation.
- `StackQueueLinearizable`: `Spec => Linearizable`. An operation takes effect where it reserves its position, or finds that there is
  none; the sequence shown is made of the elements and of the values that adds are about to put into theirs. For a stack the
  invariant is `StackInv`, the counterpart of `QueueInv`. What the mapping needs of either is `Tidy`: the values lie between the indices (`Spanned`), every thread
  works on a position it has reserved (`Handles`) and on an element no other works on (`Apart`). From it follows that all other steps leave the sequence alone.

**EMSCollectivesProofs.** For every program of collectives.

- Hypothesis `Honoured` (the binding is Node.js or no timeout is passed to critical; `critical` of `ems.py` ignores a timed-out enter
  and runs its function beside the holder, `ems.py:341`): `CriticalExcludes` (`MutualExclusion`) and
  `CriticalExitSucceeds` (`ExitSucceeds`). The inductive invariant `CriticalInv` adds `Patient`: where no timeout is
  passed the time left of a wait never becomes 0.
- Hypothesis `Untimed` (no wait at a barrier or single is given a timeout; a thread whose wait has run out goes on alone):
  `BarriersSeparate` (`BarrierSeparates`), `BarrierCounts` (`NoBarrierRace`), `SingleRunsOnce` (`SingleOnce`),
  `CollectivesTyped` (`TypeOK`). A barrier is two counters used in turn and a phase; `BarrierInv` says that all threads know the same barriers to have
  opened (`Together`), that the counter of the present phase is short by the threads waiting in it while the other
  one is full, and that a single thread completes the count (`Counts`), and where in its program a thread at each program point is (`Placed`). `SingleInv` rests on it: the counter of single is the number of threads in
  the present one, one of which resets it (`OneResets`) before the barrier lets anybody reach the next.

**EMSLoopsProofs.** Hypothesis `Fits`: a loop does not end before it starts and its length is an `int32_t`; the least chunk of
a guided loop is positive (the default is 1); the index of a shared loop, which every thread advances once past
the end of the loop by at most the first chunk, does not overflow; and a static loop of ems.js starts at 0 (`ems.js:113-117`).

- `IterationsOnce`: `Spec => []EachOnce`, for every sequence of loops of every schedule and any number of threads.

The invariant `LoopInv` has four parts. `Lockstep`: threads in one loop have arrived at equally many barriers before it, one that is
ahead of another is in the next loop and not inside it. `Words`, what the control block holds: the index and the end while nobody is inside
(`Bounds`); a chunk size between the least and the first, except while a thread is about to raise it (`Sizes`); and how far past the end the index can be,
which is bounded by the threads that have advanced it past the end (`Past`), whence the absence of a wrap (`Reach`). `Iterated`, the history: in a shared loop
what lies before the index was executed once or is pending in one thread (`Claimed`), in a static one the blocks of the threads
at its end were executed (`Blocks`; `StaticBlocks` shows them to be a partition). Chunk sizes are stored without a lock, and it is part of the proof that it
does not matter: any positive size will do.

**EMSMapProofs.** Hypothesis: there is a key. Every table size, hash function,
limit of steps and of readers, use of the operations and failure of the heap is allowed, except in the last theorem.

- `MapTypeCorrect`: `Spec => []TypeOK`; indices wrap, and lookups stay below the
  limit of steps.
- `UnusedEntriesExclusive`: `Spec => []UnusedExclusive`.
- `MapTagsHeld`: `Spec => []MapTagHeld`.
- `KeyHasOneIndex`: `Spec => []OneIndex`.
- `MappedArrayKeyed`: `Spec => Keyed`, under the hypothesis `CasDisciplined`: a program with cas calls it in serial sections, creates the
  elements FULL and does not call readFE, readRW, writeXE or setTag to EMPTY. The run `map_cas` shows what happens otherwise.

The map tags are no locks: threads that do not hold a tag set it FULL. What
saves insertions is that they do so only where an operation acts on an element,
and such an entry has a key (`Rooted`). Hence the tag of an *unused* entry is a
lock (`UnusedHeld`, and `UnusedExclusive` itself). The invariant `MapInv` is the
conjunction; `StepKeeps` states what a step may change for it to be kept, and
`AcquireKeeps`, `FreeKeeps` and `StayKeeps` apply it to the three kinds of
steps. `Frame`, `KeysKept` and `TagKept` say, once and for all, what a step that changes
the locals of one thread leaves to the others. For `OneIndex` the invariant `SearchInv` is added: between the hash of a
key and its entry all entries hold other keys (`Reached`), and so do those that an insertion has gone past (`Searched`); no
other thread can change that, as keys are never removed. For `Keyed` it is `KeyedInv`: the element of an entry without a key is as it was
created (`Unplaced`), so that the operation that inserts a key meets the cell an absent key has; and an operation on an element works on
the element of its own key (`OnKey`). An operation takes effect in `Try`, or where it learns that it fails; all other steps are stutters.

**EMSTransactionProofs.** Any sequence of transactions over any elements, from both bindings.

- Hypotheses `Distinct` (a request names an element once; two items that name the same one wait for each other,
  `ems.js:162`) and `Comparable` (the keys of a request of ems.js are all numbers or all texts; between a number and a text its
  comparator defines no order): `TransactionsTyped` (`TypeOK`) and `ElementsIsolated` (`Isolated`).
- The same hypotheses: `TransactionsSerializable` (`Spec => Serializable`).
- Hypotheses `Distinct`, `GlobalOrder` (the "global ordering" of `ems.js:159`: processes agree on the numbers of the arrays, which differ,
  no two elements of an array sort as equal, and keys are numbers below the factor of the comparator in ems.js) and a finite set of threads:
  `TransactionsNeverDeadlock` (`NoDeadlock`).

`TxInv` says of each thread that what it holds and what it still wants are its sorted request (`LocalOK`, `InOrder`), that a tag byte
it has loaded for a write or setTag is still the tag (`Fresh`), and of each element that its tag is
what its holders make it (`CellOK`). `SortedRequest` shows the sort to be a permutation in order, from
`Ranking`: in a finite set with a total order everyone has a different rank. Among the elements that are waited for one comes
last in the order; its holder waits for a later one (`HolderIsAhead`), a contradiction. The run `transaction_text_keys` shows the deadlock without
`GlobalOrder`. Serializability adds that nobody stores into an element that is held read-only (`ReadStable`), so that what a
transaction has read of such an element is still in it at the call of tmEnd, where the transaction takes effect; what it has read of the others is what
the mapping shows of them until then.

**EMSAllocProofs and EMSArrayProofs.** No hypothesis. The theorems are about `EMSArray`, since what the allocator guarantees depends on
what it is asked for: `emsMem_free` does not look whether the block it is given is in use.

- `UsersShareOneRegion`: `Spec => []OneRegion`.
- `TreeTells`: `Spec => []TreeTrue`.
- `AllocationExhausts`: `Spec => []FailsOnlyIfFull`.
- `BlocksOwned`: `Spec => []OneOwner`.
- `CopiesIntact`: `Spec => []CopyIntact`.

*The region.* Processes meet at barriers only, and the argument counts them: what a process has come to is determined by its
lives and its program point (`Counted`), and none has left more barriers than another has come to (`Lockstep`). Hence, when process 0 creates the file,
nobody else has an array (`Alone`), a process opens it only when it is there (`Opened`), and whoever uses the array has been at the last barrier of
new, to which everybody came after having filled its share (`Together`). The invariant is `RegionInv`.

*The tree.* `Ancestor(m, n)` is stated by the blocks the nodes stand for, of which two are apart or one lies in the other; that the children of a node are
its halves and that only its ancestors contain it are lemmas on powers of two. `HeapInv` says that at most
one call is inside the mutex, and of that call, by its program point, in which way the tree is unfinished (`Phase`): the search has a live block in every run of
its size it has left behind (`SeekInv`, `ClimbInv`), marking and combining leave one node to be corrected (`MarkInv`, `CombineInv`, `RefreshInv`),
and a free is on the path to a used node (`FindInv`). A tree nobody works on is `Quiet`. `AllocKeeps` shows that every round preserves this, if
calls are asked for a power of two and frees for a block in use (`Asks`), and that the blocks in use change in one round of a call only
(`HandsOut`, `TakesBack`).

*Who owns what.* `OneOwner` counts; its inductive form is a ledger. Elements and processes have titles to blocks (`Titles`): an element
to the string in it unless it is BUSY, a process to the block it was given, is about to give back or has stored. `Owned` says that every title has its block in
use and every block in use one title. The tag of an element says who may change it: one process works on an EMPTY or BUSY one
(`Working`, `Exclusive`), an element under a lock has as many readers as its count (`Sounds`), one not filled yet has no string (`Blank`). A step outside the allocator
leaves the titles or passes one on (`OwnedSwaps`, `StepOwns`); a round hands out a block together with a title or takes both back (`RoundOwned`).
Hence the allocator is asked rightly (`AsksRightly`), and a string that is written overlaps no string that another process has
read and still copies (`Spared`), because the title to that one is with an element its reader holds. The invariant `OwnInv`, with `RegionInv`, was checked
with TLC on the instance of `array_life` and on one with a heap of 8 blocks and longer searches.

The provers know nothing of exponents. The assumption `PowersOfTwo` gives them `2^0`, `2^(n+1)` and `2^(m+n)` for the exponents there are (`Bits`); it has
no free symbol, and TLC evaluates it in `array_life`.

**Only model-checked.** Liveness (`BusyReleased`, `NoMissedTransition`,
`AllReturn`, `Termination`, `LoopsEnd`, `TransactionsEnd`, `LivesEnd`): fairness and ENABLED are
beyond the prover. The properties of the four runs of section 3 that find a violation are not theorems, of course.

## 5. Left out, and behaviours known without a run

Within the modelled components:

- the data: string contents, JSON, floating-point addition, 64-bit overflow of
  `faa`, formatting of diagnostics;
- the nanosleep back-off: it has no effect on what can happen;
- the processor's memory model: x86-64 keeps the order of stores; the compiler's order is modelled where
  it was seen to differ (`EMSStackQueue`);
- key maps outside `EMSMap`: the other modules index arrays that are not mapped;
- in `EMSMap`: heap failures for values, `EMSindex2key` (it reads a map entry without its tag,
  `ems.cc:775`), the bit pattern whose `llabs` is negative (`ems.cc:249`);
- serial sections of fork-join programs, in which `EMSbarrier` has no effect
  (`ems.js:392`) while `EMSsingle` still counts one thread: of several singles in a
  serial section only one in as many as there are threads is executed.

The source shows these behaviours, which the properties above exclude by an
assumption stated with them, or allow:

- a write of a string, or a cas that swaps one in, frees the old string before it finds that there is no
  space for the new one (`ems.cc:620-622` before `ems.cc:641-642`, `rmw.cc:404-405` before `rmw.cc:418`) and
  returns with the offset of the freed block in the element. After a plain write the element is still FULL:
  reads return what the allocator puts into the block next, and the next write frees it again, which aborts in
  `emsMem_free` (`assert(0)`, `ems_alloc.cc:185`) or destroys a string of another element. `Atomic` and `OperationsAtomic` say so
  (`lost` in `TaggedCell`), except for the string of the other element, which no model shows. `EMSfaa` allocates first;
- a plain write that races readFE puts back the tag it loaded (`ems.cc:667`); a
  plain read that races a writer may pair the old type with the new data
  (`ems.cc:445`). Both are why `Alone` exists;
- `faa` of a string to an undefined element leaves the type UNDEFINED
  (`rmw.cc:278`); `faa` on a JSON value returns with the element BUSY
  (`rmw.cc:290`);
- a dequeued string is copied after its element was released (`primitives.cc:246`),
  so a concurrent enqueue may replace it even with room in the queue;
- in an unoptimised build an empty dequeue loads `STACKTOP` twice and may skip
  an element added in between (`primitives.cc:224`);
- an enter may acquire the critical region on its last poll and still report a
  timeout (`collectives.cc:65`); the region then stays taken and the others time
  out in turn. A timed-out barrier leaves its count decremented
  (`collectives.cc:112`), and `NodeJSbarrier` throws (`nodejs.cc:164-166`);
- the 32-bit loop index is advanced past the end by every thread
  (`loops.cc:68-76`) and wraps if the loop ends close to the largest index; with a
  minimum chunk of 0 a guided loop hands out an empty chunk and its threads leave early;
- an enqueue or push on a full array, or one that runs out of heap, returns with `STACKTOP` BUSY and
  incremented (`primitives.cc:48`, `primitives.cc:171`), after which no call on that index returns. A pop that
  finds no memory for the copy of a string returns with `STACKTOP` and the element BUSY (`primitives.cc:131-134`),
  a dequeue after it has released both, so that the string is lost (`primitives.cc:252-255`). For these reasons a
  `Disciplined` use does not run out of memory, one of a queue never has more values outstanding than elements, and one of a
  stack fewer (`EMSpush` compares the incremented index with the number of elements, `primitives.cc:44`);
- an enqueue fills its element without looking at the tag (`primitives.cc:174-175`): in a full array
  it may do so before the dequeue of the old value has taken it;
- a cas on a missing key with an old value other than undefined ends with stores at index -1
  (`rmw.cc:430-433`); the map tag there is the tag of the last element, which becomes FULL. A failed
  allocation in `EMSwriteIndexMap` leaves its entry BUSY (`ems.cc:334`), and lookups that reach it wait for ever;
- `EMSmaster` implies no barrier (`ems.js:376`);
- after a timeout `critical` of `ems.py` runs its function beside the holder (`ems.py:341`);
- a static loop of `ems.js` that does not start at 0 executes iterations past its end
  (`ems.js:113-117`);
- writeXF and writeXE take an element in any state but BUSY and reset the reader
  count of one under a lock (`ems.cc:612`); the program must not mix them with readRW, and the uses do not;
- readFE and readFF return a pointer that the binding copies after the element is released
  (`ems.cc:469`): a writer that comes in between frees the string (`ems.cc:621`). `CopyIntact` is
  for programs that hold the element until they have copied it;
- the index of the key whose hash is the smallest 64-bit number is negative (`ems.cc:249`);
- a process that dies between making an element BUSY and its last store leaves it BUSY in memory
  that outlives it (`ems.cc:215`); the code has no recovery;
- two items of one transaction that name the same element wait for each other (`ems.js:162`);
- any third entry of an item makes it read-only in `ems.py`, False included (`ems.py:300`); the model has both readings;
- destroy frees a slot in process 0 only, so that the numbers of arrays may come to differ between
  processes; ems.py sorts by them (`ems.py:286`), so the order of tmStart may then differ too. `NoDeadlock` is
  checked for processes that agree;
- a fill without doSetFEtags stores a tag whose full/empty bits were never assigned
  (`ems.cc:997-1003`);
- a string fill that runs out of heap makes new return slot 0, the control block of the program
  (`ems.cc:984`), and destroy(true) of an array in shared memory fails at the unlink (`ems.cc:742`):
  both are steps of `EMSArray`.

Not modelled:

- attaching to a region that another program is creating, where a process waits for the file to appear and not for its
  control block to be filled (`ems.cc:849`); useExisting with a fill; and the initialisation of a map (useMap):
  `EMSArray` creates plain arrays and attaches to those its own program has created;
- persistence: `EMSsync` is a stub that reports and returns;
- `emsMem_new`, `emsMem_delete`, `emsMem_size` and the dump functions of `ems_alloc.cc`: nothing calls
  them;
- the bindings' type conversion and index arithmetic (sequential), process start-up and
  task distribution (operating-system I/O), examples, tests and benchmarks.

## 6. Plan

In order of importance; elements, stacks and queues, collectives, loops, the
key map, transactions, the heap and the life of an array are in place.

1. Attachment by a second program and creation of a mapped array in `EMSArray`.
2. Fork-join sections in `EMSCollectives`; values on the heap in `EMSMap`.
