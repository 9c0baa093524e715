# HanaBase: a TLA+ verification project

HanaBase is the base library of an engine: logging, smart pointers, locks, a
plug-in manager, a dependency graph, JSON, strings, formatting and thin wrappers
of the operating system. This directory models the parts of it that are hard to
test. Some depend on *order*: which thread did what first, which handle was
released last, which module was loaded before which. Others take data structures
or texts apart and put them together again, in place and in pieces, with many
cases that meet: the containers, pools, reader and writer of yyjson (which is
part of the library, and all that stands between its archives and a file), the
JSON archive on top of it, strings, views and Unicode.

All source paths below are relative to the repository root. Short names:
`log.cpp` is `src/modules/private/log.cpp`, `rc.hpp` is
`src/modules/public/hana/memory/rc.hpp`, `shared_atomic_mutex.hpp` is
`src/modules/public/hana/utility/shared_atomic_mutex.hpp`, `graph.cpp` is
`src/modules/private/graph/graph.cpp`, `module_manager.cpp` is
`src/modules/private/dll/module_manager.cpp`, `json.cpp` is
`src/modules/private/archive/json.cpp`, `yyjson.c` and `yyjson.h` are in
`src/modules/private/archive/yyjson`, `string.cpp` is
`src/modules/private/container/string.cpp`, `string_view.hpp` is
`src/modules/public/hana/container/string_view.hpp`, `algorithm.hpp` and
`iterator.hpp` are in `src/modules/public/hana/unicode`.

Contents: 1 inventory, 2 plan, 3 the modules and the code, 4 the runs, 5
fairness, 6 the proofs, 7 findings, 8 what is not modelled.

## 1. Inventory

| Component | Source | State it keeps | Operations | Modules |
|---|---|---|---|---|
| Per-thread log queue `SPSCVarQueueOPT` | `log.cpp:82-157` | ring of blocks, `write_idx`, `free_write_cnt`, `read_idx` | `alloc`, `push`, `front`, `pop` | `SPSCVarQueue`, `FifoQueue`, `MCSPSCVarQueue`, `SPSCVarQueueProofs` |
| Log system `Logger`, `LogSystem` | `log.cpp:279-960` | `threadBuffers`, `bgThreadBuffers`, `membuf`, `outputFp`, `nextFlushTime`, the polling thread | `vlog`, `poll`, `flushLogFile`, `set_log_file`, `close_log_file`, start and stop of the polling thread, destructor | `LogSystem`, `MCLogSystem`, `LogSystemProofs` |
| Merge heap of `poll` | `log.cpp:694-706, 792-807` | `bgThreadBuffers` as a heap | build, sift, take the root | `BufferHeap`, `LogPartsProofs` |
| Timestamps `TSCNS` | `log.cpp:159-277` | calibration parameters under a sequence lock | `rdtsc`, `tsc2ns`, `calibrate` | `Tscns`, `LogPartsProofs` |
| Smart pointers `RC`, `RCUnique`, `RCWeak` | `rc.hpp` | a pointer per handle, a strong and a weak counter per object | create, copy, move, swap, reset, release, lock | `RefCount`, `MCRefCount`, `RefCountProofs` |
| Reader/writer spin lock | `shared_atomic_mutex.hpp` | one 32-bit word of three fields | `lock`, `unlock`, `lock_shared`, `unlock_shared`, `upgrade` | `SharedAtomicMutex`, `SharedAtomicMutexProofs` |
| Spin lock | `src/modules/public/hana/utility/spinlock.hpp` | one flag | `lock`, `try_lock`, `unlock` | planned |
| Dependency graph `Graph` | `graph.cpp` | `outgoings`, `incomings`, the `GraphEdgeID` objects | `add_edge`, `remove_edge`, `remove_vertex`, `clear`, traversals | `DependencyGraph`, `GraphEdges`, `GraphEdgesProofs` |
| Module manager | `module_manager.cpp` | `modules_map`, `roots`, `hotfixs`, `hotfix_contexts`, `destruction`, the graph | `load`, `unload`, `destroy`, `update`, `enable_hotfix_for_module` | `ModuleManager`, `MCModuleManager`, `ModuleManagerProofs` |
| JSON archive `JsonWriter`, `JsonReader` | `json.cpp` | a document, a stack of open scopes, the index in each array | start and end of objects and arrays, one value or an array of them, `check_scope`, `dump` | `JsonArchive` |
| yyjson reader | `yyjson.c:3291-8090` | the buffer, read in place; a growing array of cells; the saved label of the incremental reader | `read_opts`, `incr_new`, `incr_read`, `incr_free` | `YYReader`, `YYString`, `YYNumber`, `JsonText` |
| yyjson writer | `yyjson.c:8160-10812` | one buffer with the text at its head and a stack of contexts at its end | `write_opts`, `mut_write_opts`, `write_fp` and the single values | `YYWriter`, `YYString`, `YYNumber` |
| yyjson values and documents | `yyjson.h`, `yyjson.c:1265-3290` | a tag and a word per value; rows of cells, or circles of cells | getters and setters; arrays, objects, iterators, pointer contexts; copy, compare; pointer, patch, merge patch | `YYValue`, `YYMutDoc`, `JsonContainer`, `YYTree`, `JsonTree`, `YYPointer` |
| yyjson allocators and pools | `yyjson.c:960-1530` | a list of free chunks; a list of used ones; chunks of strings and of cells per document | `malloc`, `realloc`, `free`; document, string and value allocation | `YYMemory`, `YYMemoryProofs` |
| Strings `HString`, `HStringView` | `string.cpp`, `string.hpp`, `string_view.hpp` | small buffer or heap block; an interval of a text | assign, append, insert, erase, replace, reserve, resize, move, swap; subview, trim, partition, split | `HString`, `HStringView`, `MCViews` |
| Unicode | `algorithm.hpp`, `iterator.hpp` | a cursor over a text | walk both ways, index, decode, convert | `Unicode`, `UnicodeWalk`, `MCViews` |
| Shared libraries | `src/modules/private/dll/shared_library/` | a handle | `load`, `unload`, `get_symbol` | planned |
| Graphviz writer | `src/modules/private/graph/graphviz/` | registries of nodes and edges, indentation | define, group, dump | planned, low priority |
| Formatting | `archive/format.hpp` | none, but for the argument indexing mode | conversions | planned, low priority |
| Threads, processes, crash handler | `src/modules/private/platform` | a handle each; a lock in the crash handler | create, join, wait, dump | partly planned |

How they interact:

* A logging thread owns one `SPSCVarQueueOPT` inside a `ThreadBuffer`. The
  buffer is published to the logger under `bufferMutex`; after that the thread
  writes and the poller reads without a lock. When the thread ends,
  `ThreadBufferDestroyer` sets `shouldDeallocate` and the poller deletes it.
* `poll`, called by the user or by the polling thread, collects new buffers,
  looks at the front of each, builds the merge heap, and outputs messages up to
  the timestamp it took at its start. Output goes to `membuf`, and from there to
  the file by the flush rules.
* The module manager makes a module object, parses its JSON metadata with
  `JsonReader`, loads the dependencies recursively, and records them in the
  dependency graph. Unloading follows the graph back. Both recursions run through
  callbacks of user code (`get_meta_data`, `on_load`, `foreach_neighbors`).
* `JsonWriter` builds a mutable document of yyjson and writes it; `JsonReader`
  reads a text into an immutable one and walks it. Documents take their cells and
  strings from pools, and these from an allocator.
* `HString` builds and edits texts, `HStringView` looks at them, and both walk
  over characters with the cursors of the Unicode part.
* Handles (`RC`, ...) hold objects by an intrusive count in the object; the lock
  and the handles are used by client code.

The hard behaviours, and what correctness means for each component:

| Component | Hard behaviour | What must hold |
|---|---|---|
| Log queue | two threads meet in size words and `read_idx` without a lock; wrap-around; a stale terminator | messages come out once, whole, in order; nothing unread is overwritten; a full ring is left again |
| Log system | thread end beside a poll; buffers published in mid-poll; timestamps taken before the push; start, stop and exit | nothing vanishes but with a buffer, output is ordered within a poll and per thread, the end writes everything |
| Merge heap | index arithmetic of siblings at the last node | the oldest front is at the root |
| Smart pointers | two counters, each checked after an own decrement; moves between classes; `release` leaves a count of 0 | destroyed exactly once, when the last handle goes, never under a handle |
| Reader/writer lock | compare-exchange on a value read earlier; two upgrades at once | exclusion, exact counts, writer priority, progress |
| Graph | a vertex with entries in one map only; double edges; ids deleted in one map and held by the other | both maps agree, no deleted id is reached |
| Module manager | recursion through callbacks while the maps change; addresses of deleted modules in the graph | dependencies first in, last out; graph, map and roots agree |
| yyjson reader | the same automaton three times; strings unescaped in place and then met again after a pause; an array of cells that grows only at some labels; guesses about truncated input | it accepts the grammar and gives what the text denotes; pieces give what the whole gives |
| yyjson writer | two stacks in one buffer; wide stores; separators written ahead and taken back | the text of the value, and the stacks never meet |
| yyjson numbers and strings | three algorithms one after the other, each allowed to give up; surrogates and overlong sequences | what was written is read; rounding to nearest, once |
| yyjson documents | circles known by their last element, changed under iterators; conversions without recursion; failing calls that have already changed something | a sequence under any calls; copies keep the value; a failing call changes nothing |
| yyjson pools | neighbours merged and split by address | blocks apart, nothing lost |
| JSON archive | a place in each open array; refused starts; missing keys | what is read in the order of writing is what was written |
| Strings, views | the bytes of a short text are those of the long one's size; views of a text being changed; bad sequences at the ends | the text that the calls say; the parts are the whole |
| Unicode | cut and malformed text, backwards and forwards | inside the text, and in agreement with each other |

The complete list of hazards, each at its line, is in `PROJECT.json`.

## 2. Plan

Modules in the order in which they are written. An entry is *done* when its
runs pass and each of its properties is broken by a plausible bug in the code it
is about.

1. `SPSCVarQueue`, the ring at the level of single loads and stores; `FifoQueue`,
   the abstract queue it implements; `SPSCVarQueueProofs`. Done.
2. `LogSystem` over abstract queues (which 1 justifies), `BufferHeap` for the
   merge of `poll` (which lets `LogSystem` choose "a buffer with the oldest
   front"); `LogSystemProofs`, `LogPartsProofs`. Done.
3. `SharedAtomicMutex` with its inductive invariant and
   `SharedAtomicMutexProofs`. Done.
4. `RefCount`, `RefCountProofs`. Done.
5. `DependencyGraph` as a value, `GraphEdges` for its public interface,
   `GraphEdgesProofs`, `ModuleManager` on top of it, `ModuleManagerProofs`. Done.
6. `YYMutDoc` and the abstract `JsonContainer` it implements; `YYTree` for the two
   forms of a document; `YYPointer` on plain trees; `YYMemory`, `YYMemoryProofs`. Done.
7. `JsonText`, the grammar; `YYReader`, `YYWriter` over symbols, `YYString` over
   bytes, `YYNumber` over small words, `YYValue` over bits. Done.
8. `JsonArchive` over abstract documents, with round trip as the property. Done.
9. `Unicode`, `UnicodeWalk`, `HStringView`, `HString`. Done.
10. `Tscns`: the sequence lock of `tsc2ns` and `calibrate`, and the feedback of the
    latter; `LogPartsProofs`. Done.
11. `SharedLibrary`, `ThreadInit` (the hand-over of `Description` to a new
    thread), the crash handler's lock, the spin lock: small modules.
12. `Graphviz` ownership and indentation, format argument indexing, at low
    priority.

Theorems, in order of worth. Done (section 6): the lock; the ring, with
`ReaderFindsOldest` and the step simulation of `FifoQueue`; the log system's
`EachOnceInOrder`, `OldestFirst` and `ExitWritesAll`; `RootIsOldest` of the merge
heap, which with `OldestFirst` covers all of `poll`'s merge; `DestroyedOnce` and
`LifetimeIsHandles` of the handles; `MapsAgree` and `OnlyLiveReached` of the graph;
`MapAndGraphAreDeps` and `OrderFollowsDeps` of the module manager; `ReadsOneSave`
and `ErrorIsTakenBack` of the clock; `BlocksApart` of the allocators. What is left
needs inductions over data, or exponents: section 6 says which.

## 3. The modules and the code

**SPSCVarQueue.** `blk[i]` is the size word of block `i`; payload bytes are
abstracted to `data[i]`, the number of the message that last wrote the block, and
a size word overwritten by payload becomes `Junk`. `Blocks` and `Need` are the
code's rounding to 8-byte blocks. `EnterAlloc` to `Take` are the lines of
`alloc`, one action per access to a word the other thread uses; `Fill` is the
body of `vlog`, `Push` is `MsgHeader::push`. `FrontLoad`, `FrontWrap`,
`FrontFirst` are `front`; `Pop` is `pop`. `block` is the build option
`HANA_LOG_BLOCK`. `msgs`, `popped`, `mark` are history: no guard reads
them, but for the bound on the number of messages.

Accesses become visible in program order. That is what an x86 machine does with
the code's plain and volatile accesses once the compiler has kept their order;
on a weakly ordered machine the same code would need barriers it does not have.

**FifoQueue** is the promise: a queue, and the message handed to the reader.
`MCSPSCVarQueue` computes the abstract queue by walking the ring exactly as the
reader would, from `blk` and `read_idx` alone, and checks
`ImplementsFifo`.

**LogSystem.** Threads: `preallocate`, `allocMsg`, `push`, `threadExit`.
Poller: `ppc` walks `poll` (`collect`, `scan`, `output`, `flush`, `return`), with
the read of the queue's front and of `shouldDeallocate` as two steps
(`FrontOf`, then `CheckDeallocate`). The user's actions are the exported
functions. A message is the pair of its thread and its timestamp; `clock` is the
timestamp counter and advances with each message. Room in a ring is counted in
messages. `Exits` is a property of the build. The destructor that releases a buffer belongs
to the `thread_local` object `sbc` (`log.cpp:662, 876-883`), which nothing in the
file uses: MSVC constructs it with its thread, so ending threads release
their buffers (`Exits = TRUE`); GCC and Clang construct a `thread_local` only when it
is used, so there a buffer stays for the poller to drain (`Exits = FALSE`, the
finite part of a run in which no thread ends).
The level check, callbacks and header formatting change no state the properties
are about. `set_log_file` by name may fail, and then the old file stays; with a
`FILE*` the old file is closed first.

**BufferHeap.** `SiftDown` is `adjustHeap`; the run feeds it every array of
fronts and then takes the root repeatedly, as `poll` does.

**RefCount.** The threads are `Owners`. `ptr` is `ptr_` of each handle, `counter`
and `weak_counter` are those of each object. An operation of a handle is a list of
accesses (`todo`), each a step of its own, in the order of the code: `ResetTodo` is
`reset` (release the old object, then acquire the new one), `MoveUnique` is
`RCUnique::release` followed by an acquisition, `Lock` is `RCWeak::lock` with its
check and its increment apart. An access names the handle it is made for (`DoFor`),
except for what is decided about an object afterwards. `faults` collects accesses to
a deleted object. `Confined` is the condition on programs under which the handles
keep what they promise; section 6 says why each part of it is needed.

**Tscns.** `param` is the shared words of `TSCNS`, `now` the two clocks. `Calibrate`
is `calibrate` up to `saveParam`, with `syncTime` as an exact reading of both
clocks; `SetSystemClock` is somebody else who sets the system's clock, forward or
back; `OpenSave`, `Store`, `CloseSave` are `saveParam`, and `Enter`, `LoadSeq`,
`Load`, `LoadSeqAgain` are `rdns` with the loop of `tsc2ns`. Between the fences the
words are stored, and loaded, in any order. Doubles are integers, so a slope loses
less than 1. The reader stands for any thread beside the poller: `log.hpp:133`
forbids polling from two places, but the sequence number is there for such a thread,
and the crash handler of Windows polls whatever the polling thread does. `saved` is
history: only the bound on the number of calibrations reads more than its last line.

**SharedAtomicMutex.** The threads are `Lockers`. `bitfield` is the word, as the
three fields it is made of, with carries from one field into the next (`Plus`); the
limits of the fields are `SharedLimit` and `UniqueLimit`. Each access of the word is
one action.

**DependencyGraph** is `GraphImpl` as a value. A node may have an entry in
`outgoings` (`froms`) or in `incomings` (`tos`), possibly empty, and the
early returns of `remove_edge` and `remove_vertex` test exactly that.
**GraphEdges** adds the caller's `GraphEdge` objects and the life of the
`GraphEdgeID`s. A caller adds a `GraphEdge` that is in no graph, and removes by
one that was added and not removed.

**ModuleManager.** `stack` holds the activations of `LoadModule` and
`UnloadModule`, so that each step is the visit of one module and user callbacks
may be called between any two. A module object is known by its address, which
is what the graph stores: `life` and `name_of` describe what stands there.
`OnLoad` is the tail of `LoadModule`, `UnloadSelf` that of `UnloadModule`,
`DestroyNext` a turn of `DestroyModules`; `Replace` and `ReloadFinish` are the
two ends of a turn of `update`, which may reload a module that others depend on.
`file` is the copy of the library a module is loaded from, `version` and
`next_version` are the counters that name it. A new object gets any free address,
one that the graph still has for a deleted object too (finding 3): such addresses are
put down in `recycled`, a history that no guard reads. An object that `on_load` is
never called for, because a reload made it, has the life "quiet". Through arcs of
recycled addresses `UnloadModule` can come round to a module it is unloading already;
the call is "endless" then, as its recursion in the code. After a failed update it is
"broken".

**MCHandover, MCProgress, MCStructures, MCTexts.** Components that do not meet are
checked in one run: an initial state picks one component of `Parts`, and only that
one moves. The logger, the handles, the lock, the graph, the heap, the clock and the
allocators have their variables, and the properties are those of their modules, which
the proofs are about. The other components share `v1` ... `v6`, and a property of
`MCStructures` or `MCTexts` says its part of the component that moves.

**YYMutDoc** is one mutable container of yyjson as its circle of cells: `m.next`,
the last cell (`m.ptr`) and the count. Its actions are the functions of `yyjson.h`
that change an array or an object, the iterators and the contexts of a pointer; a
removed cell may come back with whatever `next` it had. **JsonContainer** is the
promise: a sequence and a position. The refinement reads the sequence by walking
the circle. A search by an iterator that goes round the end counts its position one
too low (`yyjson.h:6795`), and the iterator then gives an item twice: `JsonContainer`
allows that of a search, and of nothing else.

**YYTree** holds both forms of a document: `Flat` lays a tree out as the immutable
row of cells, `val_mut_copy`, `mut_val_mut_copy` and `imut_copy` are the copies,
`mut_stat` the measuring pass before the last one; `equals` and `mut_equals` are
the comparisons. **YYPointer** is JSON Pointer, Patch and Merge Patch on plain
trees (`JsonTree`), one action per call; tokens are read as `ptr_next_token` and
`ptr_token_to_idx` do, with the shortcut that compares tokens without escapes as
they stand.

**YYMemory.** `pool_malloc`, `pool_realloc` and `pool_free` over the headers of the
chunks, the dynamic allocator with its two lists, and the pools of documents on top
of either. libc may fail. A list of chunks is the sequence of their addresses:
`Passed` is where the walk of `pool_free` and `pool_realloc` ends, `Unlinked` is
`dyn_chunk_list_remove`. `spans` of a pool (history) is what a document took from it.
The end of a document gives its blocks back one by one: `DocFree` and `ImDocFree`
put them down in `freeing`, and `Release` is one turn of the loops. Sizes and
addresses are in units of 8 bytes, and those that the code fixes (`StrMax`,
`DocSize`, ...) are small numbers. `CopyFits` stops the model before a
`pool_realloc` that would copy beyond the new chunk (see section 7): the `memcpy`
writes over whatever lies there, and no list of chunks describes that. What is said of
the pool holds up to the first such call.

**JsonText** is the grammar and the meaning of a text over symbols: a symbol is a
character or a piece of one ("t" "rue" is `true`, cut where a read may be cut).
**YYReader** is the automaton of `read_root_minify`, `read_root_pretty` and
`yyjson_incr_read`: `Enter` is a jump to a label, with the label saved when the
incremental reader reads. `cells` is the array of values, `room` the number of
cells that were allocated, `alen` the number that the reader believes to have (which
is larger once an allocation was refused), `over` says that a cell was written behind
`room`. `lost` is history: the raw numbers that were the last ones of a call.
`INCR_NUM_MAX_LEN`, beyond which a number that might go on is called too long, is
left out: `yyjson_incr_read` takes the error at the end of what there is for an
unexpected end in either case. The code has
the automaton three times, which differ in the label saving and in the layout they
expect first; the module has it once, and the entries of the map point different
definitions to different copies. **YYWriter** likewise is the four writers (minified
and pretty, immutable and mutable) once: `hdr`, `cur` and `ctx` of the buffer are
widths, every symbol has the width of its bytes, and `incr_len` grows the buffer in
the code's steps.

**YYString** is the string writer and reader on bytes, with the masks and patterns
of UTF-8 as arithmetic, and `is_truncated_str`'s part for strings.
**YYNumber** is the number writer (shortest decimal, and a fixed number of
decimals) and the number reader with its three attempts: exact floating point,
a two-word product with an error bound, big integers. The words are smaller than
the code's (`W`, `P`, `SAFE_DIG`, ...), in the same relations, so that every float
and the middle between every two neighbours can be tried. **YYValue** is one cell:
a tag of type, subtype and length, and a word of `Bits` bits.

**JsonArchive.** A scope is the path to the open node. The writer's actions and the
reader's are the functions of `json.cpp`; `script` is the writer's successful calls,
and `mirror` counts how many of them the reader has repeated in order, which is
what a program does that reads what it wrote. No guard of the code reads them. A
`start_array` that cannot put its array into the document fails and opens a scope all
the same (`json.cpp:102`): what is written into it succeeds and goes nowhere. `None`
is the path of such a scope.

**Unicode, UnicodeWalk.** A text is a view into a larger store, as the code's
pointers are; index arithmetic that goes below zero wraps. `Forth` and `Adjusted`
are the steps of the cursor. `move_prev` goes on in front of its view, into the store,
as the code does; only in front of the store there is nothing (`InStore`).
**HStringView** uses the same cursor to trim; `split`
is a loop of rounds, one action each. **HString** is the cells of the object:
in a short string the long one's size lies in the middle of the text (`SizeCell`),
so that a read of the wrong member gives a letter, as in the code's union. `broken`
says that one of the three calls was made after which the string need not be what its
calls say (section 7), and no call follows.

## 4. The runs

| Run | Instance | What it shows |
|---|---|---|
| `ring` | 6 blocks, payloads of 0, 1 and 12 bytes (1, 2 and 3 blocks), 5 messages, both builds | `ReaderFindsOldest`: what the reader gets is the oldest message and whole, null means that there is none, and what is unread stays intact; `ThreadsProceed`: a message comes out, and a full ring is left; `ImplementsFifo`; `IInv`, which contains the type invariant and is proved |
| `handover` | log: two threads, one logs twice, rings of 2, a buffer of 2 messages, threads end; handles: 3 objects, 8 handles of two threads; `Confined`: objects with a weak counter stay with one thread (an `ASSUME` of `MCRefCount` checks that) | `EachOnceInOrder` (nothing vanishes but with a buffer, nothing twice, each thread's messages in order, no buffer deleted under its thread), `OldestFirst` (the output of a poll is sorted and nothing older is overtaken), `ExitWritesAll`; `DestroyedOnce`; `LifetimeIsHandles`: counters are the handles there are, and an object is gone exactly when they are |
| `progress` | lock: three threads, fields limited to 4; log: one thread that logs twice and may end | `MutualExclusion`, `UniquePriority`, `WaitersEnter`, and `MutexInv`, which contains the type invariant and `FieldsCount` and is proved; `LoggedIsWritten` (a message leaves memory in the end, unless its thread's buffer was the last one), `StopReturns` |
| `log_loss` | one thread, one message | finding 1 |
| `log_flush` | one thread that logs and ends | finding 5 |
| `rc_race` | one object, a strong and a weak handle of two threads | finding 2 |
| `mutex_upgrade` | two threads | finding 4 |
| `modules` | three modules, all 8 acyclic shapes, two hot reloadable (with users, in some shapes), 3 addresses that may be used again | `OrderFollowsDeps` (dependencies first in and last out, an unload takes nothing that does not need it, and no reload copies a library over a file that is mapped), `MapAndGraphAreDeps` (graph, map and roots agree between calls and `destroy` empties the manager), both with their exceptions at `recycled` addresses |
| `modules_stale` | the same, each module reloaded once | finding 3 |
| `structures` | graph: three nodes, an edge object, three ids; heap: 5 buffers, stamps with ties and empty queues; containers: 4 values or 3 pairs, 2 keys; trees: all shapes of a few nodes; pointers: documents of 3 nodes, indices of 2 digits; memory: 28 units, blocks of 1, 3 and 5, three at once; clock: 4 ticks, 3 calibrations, two first slopes, the system's clock set once | `MapsAgree`, `OnlyLiveReached`; `RootIsOldest`; `ImplementsContainer`; `CopiesKeepTree`; `PointerIsRfc6901`, `PutChangesOnlyThere`, `MergeIsRfc7386`; `BlocksApart`; `ReadsOneSave` (no time from a mixture of two calibrations), `ErrorIsTakenBack` (the error of the clock falls by what calibration believed of it) |
| `texts` | Unicode: all texts of up to 4 bytes of the classes told apart; strings: 2 letters, length 4; views: up to 4 characters; reader: 14 documents, every prefix and every edit of one symbol; writer: every kind of value, nested to 5 around runs that end near the buffer's end; string literals of up to 5 bytes, escapes whole and cut; numbers: every float; values: words of 4 bits; archive: 4 calls, one scope that the document does not hold | `WalksAgree`; `HoldsText`; `PartsOfText`; `ReadsGrammar`, `IncrIsWhole`, `CutIsUnfinished`; `WritesTree`; `StringIsRead`; `NumberIsRead` (what was written is read, and a decimal is read as the nearest float); `SaysWhatWasSet`; `DocumentIsScript`, `MirrorReads` |
| `string_reserve` | the strings of `texts` | finding 6 |

Why the bounds are enough. *ring*: 5 messages of up to 3 blocks through 6 blocks
wrap several times, at every alignment, with the reader at 0, behind, at and in
front of the writer. *log*: order across threads and within one needs two threads
of which one logs twice; a third thread adds no comparison of a new kind, and the
heap in `structures` covers up to five buffers. *handles*: each kind of handle occurs
twice, so that every pair of operations meets on one object. *mutex*: three
threads are two writers and a reader or the reverse; the proof covers every
number. *modules*: three names contain a chain, a diamond's half (two users of
one, two dependencies of one) and independent modules. With three addresses a second
load must soon take one that the graph still has for a deleted module, and with the
first reload of one of three loaded modules the deleted object gives its address to
the new one. Any number of reloads is checked: of the versions only the distances
matter, which is what the `VIEW` keeps, and `MaxVersion` of 30 is never met.

*structures*. Three nodes contain self edges, cycles and paths, three ids a
double edge beside another one, or a re-added edge. A circle of three is the
smallest in which first, last and an inner element differ; four values leave a
range of two inside one. Three nodes of a document are a container in a container,
and a pointer with two missing parents makes more. The buffer of 28 units is cut
into up to seven chunks, so that a freed block has a free neighbour on either side,
on both and on none, and the pool is full in some states.
Three calibrations are two intervals, the fewest that show the feedback; between
any two accesses of the reader one or both saves can happen, and both parities of
the sequence number are met. The two first slopes lie on either side of the true
rate, and the step of the clock is larger than the clamp.

*texts*. The edits of one symbol reach every error branch of the reader; the calls
of the incremental reader come with one, two or all further symbols, so that it
stops in every token. `MaxGrow` counts how often memory may be had: with 0 the
allocation fails. The widths of the runs in the writer's documents are those around
which the buffer of that nesting is full. The small words of `YYNumber` keep what
the algorithms rely on: a significand is shorter than half a product, the error
bound is a few units, the longest exact integer has fewer digits than the longest
middle between two floats. Strings of length 4 are one longer than the small
buffer, and 7 is a reserve beyond one growth. Four calls open a scope in a scope
and come back, or put a scalar between two elements.

Each property of a passing run has a `mutants` entry: a variant of one mapped
definition that a plausible bug in the code would produce (the operators with a
comment "variant:" in the modules), under which TLC finds the property
violated.

`CHECK_DEADLOCK FALSE` is in runs whose bounds end the behaviour (`MaxMsgs`,
`MaxCalls`, `MaxVersion`), where the program may stop (`handover`, `progress`), and
where a call is made once (`texts`). `modules` has a `VIEW` that leaves out what no
later step reads, and `SYMMETRY` over the addresses: they are told apart by what
stands there only, and the run has no liveness property. `structures` has a `VIEW`
that leaves out the arguments of the last call; the properties of states do not read
them, those of steps are evaluated on every step that TLC generates. Its `SYMMETRY` is
over the nodes of the graph and the keys of the containers, which nothing tells
apart; it has no liveness property either.

## 5. Fairness

* *ring*: writer and reader keep taking steps while they are inside a call, and
  the reader keeps polling. The log system's contract asks for that:
  `src/modules/public/hana/log.hpp:124` requires poll to be called regularly.
* *log* (`FairSpec` of `LogSystem`): weak fairness of a thread inside `vlog` and of
  the poller inside `poll`; strong fairness of the call of `poll` by the user (it is
  not enabled while a polling thread runs), weak fairness of the polling thread's
  loop. `FlushNow` is strongly fair: an armed flush delay is over at some later
  poll, as time passes. No fairness forces a thread to log or to end.
* *lock*: a thread in the middle of an operation goes on (weak fairness of `Proceeds`,
  whose steps nobody can disable, giving the lock back among them). The exchange that
  lets a thread enter does not fail for ever when it is enabled again and again
  (strong fairness of `Enters`): the code's loop gives no such promise, the
  compare-exchange of the machine and the scheduler do in practice. Nothing makes a
  thread ask for the lock. A reader's part of `WaitersEnter` holds only once writers
  stop coming: the lock favours writers on purpose.
* `progress` has the fairness of both modules for whichever part moves.
* The components of `structures` and `texts` are sequential: their calls return,
  and nothing is said about when they are made.

## 6. The proofs

`SharedAtomicMutexProofs` proves, for every finite set of threads that is smaller
than the fields' limits (the assumptions of `SharedAtomicMutex`):

* `TypeCorrect`, `CountsAreRight`: the word keeps its type, and its three fields
  are exactly the numbers of readers, announced writers and writers inside;
* `Exclusion`: a thread in the unique section is alone;
* `WritersFirst`: no step takes a thread into the shared section while a writer
  is announced.

None of these is inductive alone. A compare-exchange that succeeds says only that
the word equals a value read earlier; that nobody was in the way follows from
`OldvalMasked`, that in a retry loop the compared value was masked so that the
flag (and the readers, or the writers) are 0. `MutualExclusion` speaks of threads
and the exchange of fields, so the fields must count threads exactly
(`FieldsCount`), which in turn needs that no addition carries out of its field,
hence the bound in `MutexTypeInv`. `NoReaderUnderFlag` links flag and readers. `MutexInv`
is the conjunction of these, checked by TLC in the run `progress`, and proved:
`InitIInv`, `StepIInv` with one step per action, `Invariance`. The arithmetic of
the word is in `PlusInRange`, the effect of one thread's move on the three
cardinalities in `MoveThread`, `CountMoves`, `CountAfter`, and both together in
`FieldsAfter` and `WordAfter`.

`GraphEdgesProofs` proves `Agreement`: after any sequence of calls, for any set of
nodes, `outgoings` and `incomings` hold the same edges, one between two nodes.
`Agreeing` is the set of graphs of which that is true; one lemma for each function
of `GraphImpl` (`AddAgrees`, `RemoveEdgeAgrees`, `DropOutAgrees`,
`DropInAgrees`, `RemoveVertexAgrees`) says that it maps this set into itself,
on a graph of any content. `MapsAgree` needs one strengthening: `remove_edge` by a
`GraphEdge` reads two nodes through a pointer, and `EndsInv` says that they are
nodes.

`IdsAreAlive`, in the same module, is `OnlyLiveReached`: what a traversal follows is
never a deleted `GraphEdgeID`, and the `GraphEdge` behind it points back to it. A
traversal could reach a deleted id only if some other entry still held it, or if a
new id were the old one. `LiveInv` excludes both: the ids that were made are `1` to
some `k`, so the next one is fresh; an id lies between the two nodes it was made for,
so with `Agreeing` no two edges share one; `Rooted` says that every edge has an entry
at both its ends, without which the early returns of `remove_vertex` would skip it.

`SPSCVarQueueProofs` proves of the ring, for any number of blocks, any message
sizes, any number of messages and both builds of `HANA_LOG_BLOCK`: `ReaderIsRight`
(what `front` hands out is the oldest unread message, whole; null means that there
is none), and `RingIsQueue`: the ring's initial states are those of `FifoQueue`, and
every step is a step of `FifoQueue` or leaves it alone. Here the abstract queue is
the list of the messages pushed and not popped, and `UnreadIntact` says that the
blocks hold them; `MCSPSCVarQueue`, the other way round, walks through the blocks,
and TLC checks the refinement for what it finds. What the reader holds is read from
the blocks in both. The invariant is `IInv` of `SPSCVarQueue`, which the run `ring`
checks. It has one part for each way to be wrong: `RoomInv`, that the free blocks
the writer counts are free (`free_write_cnt` comes from an old `read_idx`, but is
wrong on the safe side only) and that it keeps one behind each message for the
terminator; `PlaceInv`, that unread messages lie one behind the other with at most
one gap, at the wrap mark; `ReaderInv`, that the reader stands at the oldest of them
or at the mark; `WordInv`, the values of the terminator and of the mark;
`UnreadIntact`, their headers and payloads. `TakeStep` is the longest proof: a new
message is apart from all the others. The simulation needs two facts more:
`SizeInv`, that sizes stay those the program asks for, and `HandInv`, that the
reader holds the head of the abstract queue.

`LogSystemProofs` proves, for any number of threads, rings of any capacity, text
buffers of any size and both builds: `MessagesInOrder` (`EachOnceInOrder`: a message
is in one place, once, and in the order of its thread; no buffer is deleted under
its thread), `EndWritesAll` (`ExitWritesAll`) and `PollMergesInOrder`
(`OldestFirst`, an action property). The rings are the queues that `RingIsQueue`
justifies. `StampInv` says that no two messages share a stamp, and that the one a
thread is about to push is younger than all it has sent; `ThreadOrder`, that a
thread's stamps ascend through the output and on through its queue.
`NothingVanishes` is a partition: a message that was sent is in exactly one of the
queues, the output and the lost ones. `ReadyInv` says what the merge still owes:
each message that was in a queue when the poll began is output, or its queue has a
cached front or is still to be scanned. `MergeInv` says that what this poll output
last is older than every cached front. So the root, the oldest cached front
(`RootOldest`), continues the order and overtakes nobody; that there is a root while
fronts are cached is `Least`, from the well-founded order of finite sets. `ExitInv`
links the phases of the destructor to what is empty by then. That the heap yields an
oldest front is the abstraction in `IsRoot`, and `LogPartsProofs` is about that.

`LogPartsProofs` proves of the heap `PollTakesOldest` (`RootIsOldest`): whenever
`poll` looks at node 0, no buffer has an older front, for any number of buffers, any
timestamps, and however many messages were taken before. `Ordered` is the invariant:
a node that the build loop has come to has no later front than its children, but for
the node being sifted; and that one's parent has none later than its children, so
that a child may take its place. `MinIsLeast` says that the loop over `ch` finds a
least child even when the node has only one, where `size / 2` and the index of a
missing sibling meet; `SiftKeeps`, `EndKeeps`, `BuildKeeps` and `TakeKeeps` are the
four steps. From parents to the root (`OrderedRoot`) there is no induction over the
tree: of all nodes with an older front than the root the one with the least index
(`LeastNode`) has a parent with one.

`RefCountProofs` proves, for any number of threads, objects and finitely many
handles that the counters can count (`CounterMod` larger than their number plus 1):
`DeletedOnce` (`DestroyedOnce`) and `CountsAreHandles` (`LifetimeIsHandles`), in
every interleaving of the single accesses, for a program that is `Confined`:

* no handle is assigned to itself: `reset` would release the object before it
  acquires it again;
* an object that has weak handles is used by one thread: otherwise finding 2;
* and no `RCUnique` owns it: a lock of the weak handle would make an `RC` beside the
  `RCUnique`, and `rc_set_unique` stores 1 whatever the count is (`rc.hpp:23`).

Objects without weak handles are shared by the threads at will. The handles' `ptr`
is not what the counters count: between the exchange of a pointer and the accesses
behind it the two differ. The invariant says that there is an assignment `held` of
objects to handles that the counters count exactly (`Counting`), that the accesses a
thread has still to make lead from `held` to `ptr` (`Scheduled`: `Releasing`,
`Detaching`, `Acquiring`, `Locking`, `Clearing`), and that whatever a thread knows
of is alive (`Living`). An access that acquires is safe because another handle of
the thread holds the object and stays, or because nobody else knows of it
(`Granted`); a decision to delete is safe because no handle holds the object and no
other thread knows of it (`Deciding`). Every operation is proved to set up such
accesses and every access to keep them; how the numbers of holders move is in
`CountMore`, `CountSwap` and `NoWrap`. `held` is only claimed to exist, so the model
has no variable that the code has not.

`ModuleManagerProofs` proves `MapAndGraph` (`MapAndGraphAreDeps`) and `Order`
(`OrderFollowsDeps`, an action property) for any set of modules, any of them
reloadable, any set of addresses, which are used again in any way, and all acyclic
dependencies between the modules (`AcyclicAssumption`: with a cycle the recursion
does not end). Nothing else is assumed. What the code gets wrong is said in the
properties, exactly:

* the graph keeps addresses of deleted modules (finding 3). Where a new object gets
  one of them, the old one's arcs become its own. `recycled` is the set of these
  addresses, and arcs that are not in the metadata, an unload that visits a module
  that does not need it, a name too many in `roots` and a recursion without an end
  are possible there, and nowhere else;
* `update` moves no arc to the new object, so that arcs of modules that somebody
  depends on may be missing, and an unload may leave their users, once such a module
  has been enabled for hot reload (`hotfix_contexts`), and for no other module.

So nothing is wrong in a program in which `recycled` stays empty and only modules without
users are reloaded, as in the sample; and where it is, the order of loads, the agreement
of `modules_map` with what is alive and the rest of the two properties hold still.

Between calls the graph has the arcs of the metadata; in mid-call it has others. An
unload goes after the users that the graph has of a module, so that it is right only
if no arc is missing; a load adds to the graph, so that it must not leave a wrong one
for a later unload. `GraphInv` holds at every step of the recursions: no arc is wrong but
at a recycled address, those of modules long gone included, none is missing between
loaded modules that no reload replaced, and what is loaded has its dependencies.
`NoArcTurnsWrong` is where an address is given out again: every arc of the
old object is excused from then on, since `recycled` never shrinks (`RecycledGrows`).
`StackInv` says what an activation on the stack still owes: in `LoadFrames`, a
dependency that is not in `todo` is loaded and has its arc; in `UnloadFrames`, a loaded
user of a module being unloaded is still in `todo` or is the next activation. `Apart`,
that no name is twice on the stack, is where acyclic dependencies come in: each
activation of a load is for a dependency of the one below it, and the names from one
of them to itself again would be a set without a first one (`LoadsNoCircle`). An unload
has no such luck along arcs of recycled addresses: `UnloadsNoCircle` says that a
circle has one of them, and `EndlessFrames` what is left of the invariant in it.
`DestructionInv` orders what waits for its destruction, users first; `LifeInv` says
which objects are alive while map and life differ, in mid-reload and in
mid-destruction; `RootsInv` and `HotfixInv` say the same of the other two sets;
`VersionsInv`, that a copy's version was never given out before. `MInv` is the
conjunction, kept by each of the handlers' steps; TLC has checked it on the instance
of the run `modules`.

`LogPartsProofs` proves of the clock `SingleLine`: for any rates, bounds and number of
calibrations, what `tsc2ns` returns lies on the line of one calibration. That is not
inductive: when the sequence number is met again, what was loaded long before must
still be of one line. `SeqCountsSaves` says what the words are by the number: an even
one, `2k`, that all of them are of line `k`; an odd one that each is of the last line
or of the one before, and which stores are still to come. `LoadedOneLine` says that
the reader began at some `2k`, that the number has not fallen below it, and that
while it is still `2k` all words loaded so far are of line `k`. A reader that began
at an odd number is covered by the same statement: with the last bit cleared it
expects the number before, and so retries. `ClockInv` is the conjunction, with the
type; `Inductive` has one step per action, and `CalibrationIsLine` says that a
calibration adds a line of integers behind the others, `ClocksAlone` that only the
types speak of the clocks.

`FeedbackSettles`, in the same module, is `ErrorIsTakenBack`, for any rate of the
system's clock, any slopes measured at the start, any clamp and intervals of any
length. It needs one invariant more, `Feedback`: each line starts where the one before
was found wrong, with that error in it, and its slope is bent by it and by what had
been taken back already. Over two steady intervals of length `dt` the equations of
three neighbouring lines leave of the error what the clamp cut off, and
the remainders of two divisions by `dt`, each below `dt` after it is multiplied again
(`FeedbackHolds`): hence the bound `2 * dt`.

`YYMemoryProofs` proves `Apart` (`BlocksApart`) for a buffer of any size, any sizes that
are asked for and any number of blocks, chunks, strings and values: whatever the
order of the calls, and whenever libc is out of memory, no block has two owners, none is
lost, each is as large as was asked for, free chunks of the pool allocator are in the
order of their addresses and never side by side, those of the dynamic one in the
order of their sizes, and what a document takes from its chunks does not overlap.
The proof has three layers. Lists are about positions: what `InsertAt` and
`RemoveAt` do to a list without repetitions that is in order (`InsertedInto`,
`RemovedFrom`, `ReplacedIn`), and where a walk along it ends (`WalkEnds`). Chunks are
about addresses: `Cover` says that they lie in the buffer without an overlap, each
ending at its end or where another begins; a split and a merge keep it
(`SplitCover`, `MergeCover`). Neither needs an induction over the list, because the
two allocators change it at one position. The free chunks being never side by side
(`Gaps`) is what makes the merging in `pool_free` complete: with a free neighbour at
one side, the other neighbour of that one is not free. `PoolInv` and `DynInv` are what
each allocator keeps for the blocks `O` that somebody owns; `MallocIs`, `FreeIs` and
`ReallocIs` say the same of both (`Sound`, `GaveOne`): a call gives nothing and changes
nothing, or a block outside of `O`, as large as asked for, and those of `O` keep their
sizes. Documents are proved with these three alone. `PoolOk` says of a pool of strings or
values that what is used ends at `cur`, inside of the block that the allocator gave;
`Extended` that a string or a value finds its place in the chunk there is, in a new
one, or nowhere. `MemInv` ties them together: `O` is what the user holds and the blocks
of the document there is, or of the one being given back, and these are apart
(`PartsApart`). It is stronger than `BlocksApart` in three places: a user's block
has room for the header and the rounding too, or `pool_realloc` could say of a block
that it is large enough when it is not; sizes are positive; and `cur` bounds what was
given of the newest chunk.

Every theorem is about all values of the constants that satisfy the assumptions of
the component's module; none assumes anything else, but for `Confined` of the handles.

Only model-checked:

* liveness: `ThreadsProceed`, `LoggedIsWritten`, `StopReturns`, `WaitersEnter`,
  and the part of `ImplementsFifo` that is about fairness. TLAPS has no
  rules for fairness or `ENABLED`;
* `ImplementsContainer`: the sequence behind a circle is found by a walk, a recursive
  function over cells, and that one step changes it as the abstract one does is
  an induction over that walk;
* `SaysWhatWasSet` of the values: the fields of the tag and the ranges of the word
  are powers of 2 with the width in the exponent, which the provers' arithmetic does
  not have;
* `WalksAgree`, `HoldsText` and `PartsOfText`: what is compared are texts put together
  again by folds and by walks of any length;
* what the recursive operators on texts and trees compute (the JSON archive, the
  reader and the writer of yyjson, pointers and copies). The SMT backend does not
  take modules with recursive operators, and a proof would need an induction
  over these data; the library's theorems of well-founded induction take a predicate
  as a parameter, and only their forms with a set (as in `Least`) can be applied.

## 7. Findings

1. **A message can be deleted unread** (`log_loss`). `poll` sees an empty queue
   (`log.cpp:781`); the thread pushes its last message and ends; `poll` reads
   `shouldDeallocate` (line 782) and deletes the buffer. Reading the flag before
   the queue would close it.
2. **Double deletion** (`rc_race`). `rc_release` and `rc_weak_release` of
   `RCWeakInterface` (`rc.hpp:64-70`) each look at the other counter after
   decrementing their own; when the last strong and the last weak handle go at
   once, both find 0.
3. **A module stays in the graph after its deletion** (`modules_stale`).
   `remove_vertex` returns early for a node that never had an outgoing edge
   (`graph.cpp:80`), which is every module nobody depends on. Its address stays a
   neighbour of its dependencies; the next `unload` or `destroy` that walks them
   reads `name` of the deleted object. `src/samples/module/main.cpp` calls
   `unload` on such a module and `destroy` afterwards.
   Worse, an allocator may give such an address to a new module, which then has the
   arcs of the deleted one: a later `unload` takes modules along that do not need what
   is unloaded, `roots` may get a name too many, and `UnloadModule` may come round to a
   module it is unloading and never return. The run `modules` has such addresses, and
   its properties say that nothing goes wrong but there. It takes the readings that a
   freed object can give (the old name, or no module's name).
4. **`upgrade` is not atomic** (`mutex_upgrade`). It gives the shared lock back as
   it announces the writer, so another announced writer can enter in between.
5. **A forced poll need not flush** (`log_flush`). `poll` returns when no buffer is
   left (`log.cpp:790`), in front of the flush, and so does every later one, forced or
   not: the text in `membuf` stays there until another thread logs, the file is
   changed or closed, or the program ends. `LoggedIsWritten` names this case, and says
   that there is no other.
6. **`reserve` loses a short string's size** (`string_reserve`). `do_reserve`
   (`string.cpp:57-71`) copies the text into a block and sets pointer and capacity; `size_`
   is what the cells of the short text spell. `src/tests/string.cpp:311` expects of a
   long string that its size is kept.

Seen while modelling, without a run: assigning an `RC` to itself when it is the only
one deletes the object (`rc.hpp:191`; `RefCount` with `SelfAssign = TRUE` shows it).
`register_subsystem` works on copies of its lists (`module_manager.cpp:379`), so a
registration is lost. A failed hot reload leaves the deleted module in
`modules_map` (`module_manager.cpp:297`). After a hot reload of a module that others
depend on, their arcs stay with the old object (`module_manager.cpp:313`): `unload` of
the new one does not see its users.

Reading numbers: `ReadsRight` of `MCTexts`, which asks the nearest float of every
decimal, is false, and no run has it. `yyjson.c:4207` says of the last of the
three algorithms that it is there "to get correctly rounded result for numbers with
lots of digits"; `bigint_set_buf` (`yyjson.c:4349`) keeps one digit too many when
the decimal point lies in the tail that it removes, and takes zeros beyond digit 768
for a rest that is not 0, so that an exact middle is rounded up. The conjunct
of `NumberIsRead` about the nearest float (`ReadsNearest` of `YYNumber`) leaves out
these numbers. The same state space with `Parts = {"number"}` and
`ReadsRight` as its invariant shows it.

Strings:
* Three calls of `HString` can break a string: `reserve` (finding 6); `resize(count,
  ch)`, which writes `count` letters behind the text there is, beyond the block when
  it is not empty (`string.cpp:337-351`; in `src/tests/string.cpp:316-356` the block
  is much larger than the text by then, and the letters stay inside); and the
  constructor from a count and a letter, which reads a flag that nothing has set
  (`string.cpp:140`). The model makes these calls, `HoldsText` holds until one of
  them goes wrong, and its definition says when that is. A view of the string itself
  as the argument of `append`, `assign`, `insert` or `replace` is read after the
  block is gone; the model's arguments are other texts. `split_each` of `HString`
  does not compile.
* `HStringView::move_prev` looks for a head up to three units in front, whether or not
  these belong to the view, and leaves the view when a trailing unit at its begin has
  its head in front of it (`iterator.hpp:143-147`), also from within a well-formed view.
  The model follows it into the store; `LeavesOnlyOverCharacter`, a part of `WalksAgree`,
  says that this happens exactly over a character of several units that ends in front
  of the view. `trim_end` at a bad sequence adds the
  largest size to its index, and cuts one unit more or nothing at all. An empty
  delimiter makes `split` hand out empty pieces for ever, a limit of 0 hands out
  one piece, and the part behind a delimiter at the very end is dropped.
* Walks forwards trust the head of a sequence and never look at its trailing
  bytes. `utf8_seq_len` gives 5 to 8 for bytes from `F8` on, for which there is
  no storage; the models' texts have none. A bad unit converts to a code point
  that is not in the text (`UTF8Seq` from a lone surrogate, `UTF16Seq` from a
  lone byte). `text_size` of a zero-terminated text calls a function that does
  not exist.

yyjson: `yyjson_get_len` of a raw value or of a real with a format is not 0, as
`yyjson.h:1791` says it is for all but strings and containers.
`yyjson_mut_obj_iter_getn` that wraps around counts its position one too low
(`yyjson.h:6795`): `next` finds an item twice, and `remove` may not see that it removes
the last one (the model stops in front of that). `add` of a patch duplicates a member
that is there (`yyjson.h:4634` promises RFC 6902, by which it is replaced). `pool_realloc`
copies all of the old chunk, with the slack that it was not split from, into a
new one that may be shorter than that (`yyjson.c:1163`). A bad escape behind an
array reports "resolve" where `yyjson.h:4018` says "syntax" (`yyjson.c:2276`).
Setting through a pointer never appends to an array. An allocation that fails at the
end of what there is is reported as an unexpected end, so that the incremental reader
asks for more.

`yyjson.c:4075` says of `is_truncated_end` "Returns true if the input is valid but
truncated". It also returns true of texts that nothing can complete: `[1i` where
infinities are read (lines 4091-4105), `[1.]` where numbers are kept raw (line 3987),
a lone low surrogate escape at the end of a string (line 4124). A caller that feeds
the incremental reader then waits for more of a text that is wrong already.
`TruncatedIsValid` of `MCTexts` is the comment's claim, and false (no run has it:
`Parts = {"reader", "string"}` with it as the invariant shows it);
`CutIsUnfinished`, which the run `texts` checks, names the three kinds
(`HalfInfinity`, `DigitMissing`, `LowAlone`) and says that there is no other. In the
other direction two texts that could go on are called wrong: a comment that is not
closed at the head, and a `/` behind the document.

Pieces: the root number `11`, fed one byte at a time, is read as `1`
(`yyjson.c:7101` asks no more at the root), and the incremental reader forgets where
the last raw number ended between two calls, so that its terminator is missing
(line 7020). `IncrIsWhole` names both (`NumberIsCut`, `lost`) and says that everything
else is as in one read of the whole.

Strings marked as needing no escape are not validated.

JSON archive: `json_read` of another type than was written returns `OK` with 0 or an
empty text, and a wider number is narrowed unchecked. A second root scope drops the
first one. Of two fields with one key the first is read. The properties hold of
what was written and read alike.

## 8. What is not modelled

* Shared libraries (whose `unload` on POSIX clears its handle only when
  `dlclose` fails, `shared_library/posix.cpp:113`), threads, the spin lock, the
  crash handler's lock and the ownership of the graphviz writer: planned
  (section 2).
* `TSCNS`: floating point, the choice of the best of several readings in
  `syncTime`, a wrap of `param_seq_`, and intervals that differ much in length: the
  slope of a short one overshoots in a long one, which `ErrorIsTakenBack` leaves out.
* Formatting, hashing, GUIDs, call stacks, the tables of character classes: stateless
  or text conversion. Processes: direct system calls. The deprecated string is not
  part of the build.
* yyjson: reading files, `yyjson_locate_pos`, the number writer into a user's
  buffer, single precision output, the builds that call `strtod` and `snprintf`,
  sizes near the end of the address space, allocation failures inside documents
  once a pool gave memory, and the convenience functions that combine others.
* `JsonReader` and `JsonWriter`: files, and the layout of the dump, which is the
  writer's of yyjson.
* `HString` and `HStringView`: comparison, hashing, searching for single characters,
  `format_to`; `parse_to_utf16` and `parse_to_utf32`, which have the shape of
  `parse_to_utf8`.
* Weak memory: all accesses are sequentially consistent in program order.
* `log.hpp:133` forbids polling from two places; the log model never does.
  `set_log_file` and `close_log_file` have no lock and are used while nobody polls.
* Message sizes near 2^32, whose rounding overflows in `alloc`, and messages
  larger than the ring.
* `ModuleManager`: cyclic metadata (the recursion does not end), libraries
  missing at the first load, modules linked into the process, subsystems,
  everything after a failed reload, and a growth of `hotfixs` while `update` goes
  through it.
* `GraphEdgeID`s that are never deleted (a second `add_edge` between the same
  nodes, edges into a removed vertex) are leaks: no traversal reaches them.
