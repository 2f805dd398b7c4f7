# Verification of the spin2cpp / flexspin runtime

flexspin compiles Spin, BASIC and C for the Parallax Propeller, a chip with
eight processors (cogs) that share one hub memory and have no operating
system. What runs beside the user's program is a runtime written in Spin and C:
a garbage-collected heap, memory locks, cooperative tasks, files. That runtime
is where several processors meet, where orders of events arise that no test was
written for, and where a fault shows far from its cause. These modules
start with the runtime. The compiler proper is a sequential program with a large
regression suite (`Test/`); of it they model the part where passes rewrite one
mutable list until nothing changes, the optimiser of the bytecode backend.

## The system and its parts

| part | source | state | operations | what is hard |
|---|---|---|---|---|
| heap | `sys/gcalloc.spin`, `sys/gc_pasm.spin`, `sys/gc_bytecode.spin` | 16-byte pages cut into blocks (size, flags, prev, link), `_memory_mutex` | alloc, alloc_managed, free, manage, collect | several cogs; a conservative collector that does not stop the world |
| memory lock (assembly; nucode's own copy is not mapped) | `sys/common_pasm.spin` | one hub long per lock | `_lockmem`, `_unlockmem` | mutual exclusion from plain reads and writes and the hub's timing |
| memory lock and helper (bytecode) | `sys/bytecode_rom.spin` | `__lockreg`, a hardware lock, `__helper_cmd`, `__helper_arg` | `_lockmem`, `_remotecall` and its callers, the helper cog | one hardware lock for two purposes, a mailbox |
| tasks | `include/libsys/task.c` | `active_tasks`, `halted_tasks`, `cur_task`, a jmp_buf per slot | start, next, halt, cont, stop | slots used again, contexts that outlive a task |
| files | `include/libc/unix/posixio.c`, `vfs.c` | `__filetab` | open, close, read, write, seek | slots handed out without a lock; appending |
| stdio buffers | `include/libc/unix/bufio.c`, `include/libc/stdio/` | one buffer per file, a byte pushed back | getc, putc, ungetc, fread, fwrite, fseek, ftell, flush, setvbuf | one buffer for both directions, calls that go around it, errors |
| i/o locks | `include/libsys/fmt.c` | a long in the file | `__lockio`, `__unlockio` | the file changes under the lock |
| mounts | `include/libc/unix/_mount.c` | `mounttab`, `vfstab`, one name buffer | mount, umount, resolve | few slots, file systems that fail to start, a static buffer shared by all cogs |
| file systems | `include/filesys/` | FAT, littlefs, 9P, Parallax flash | | crashes; mostly vendored |
| drivers | `include/spin/` | ring buffers | serial, PSRAM, HyperRAM | head and tail shared by two cogs |
| front ends | `frontends/`, `preprocess.c`, `mcpp/` | | lexing, parsing, types | |
| middle | `functions.c`, `loops.c`, `cse.c`, `expr.c`, `symbol.c` | | analyses on trees | invalidation |
| bytecode backend | `backends/bytecode/bcir.c`, `bc_spin1.c` | a doubly linked list of operations, jumps that point into it | ten passes, the sizes of jumps | a list changed under its own loop; fixpoints |
| other back ends | `backends/` | | assembly, nucode, C++, objects | opcode tables |

How they interact: every allocation of the C, BASIC and Spin libraries goes
through the heap; the heap, the i/o locks and the 9P client take memory locks;
on the P1 bytecode runtime a memory lock and a character sent both go through
the one hardware lock. Pointers move between the heap's users by way of hub memory
and cog registers, which is exactly what the collector scans. A FILE is an
entry of the descriptor table with a buffer in front of it, and the mount
table says which file system serves its path.

`PROJECT.json` lists all parts, modelled or not, and every hazard with the line where
it bites and the properties that cover it.

## Modules

    Mutex     <---- LockMem  <- LockMemProofs,  MCLockMem     (refinement)
              <---- ByteLock <- ByteLockProofs, MCByteLock    (refinement)
    Heap      <---- GcProps -> GcAlloc                        (refinement)
                       ^- GcInv <- MCGc
                            ^- GcAllocProofs <- GcHeapProofs
    Task           <- TaskProofs
    Stream    <---- BufIO <- BufIOProofs, MCBufIO             (refinement)
    Namespace <---- Files <- FilesProofs, MCFiles             (refinement)
    Bcir           <- BcirProofs
                       ^- BcirMeaning <- MCBcir

`GcAlloc` uses of the lock only what `Mutex` says, and the two implementations of
the lock are checked against `Mutex`: that is how the modules compose.

### GcAlloc: the heap

A page is a number; block 0 is the anchor, the first real block starts at page
1. `size`, `prev`, `link` are the header words, and the flags word is split in
`owner` (a cog, hub, free, or none for a lost magic) and `bits` (reserved, in use).
A pointer is the number of the block's page. The list of used blocks
(`OFF_USED_LINK`) is written and never read by the code and has no variable.
A header that a merge absorbs loses its magic and keeps its size and prev, as in the code,
until `Zero` fills the block it has become part of.
`NPages` is computed from the size of the heap in longs as `_gc_ptrs` does, and
all comparisons with `heap_end` are made in bytes (`InHeap`), since that is
where the code and the page count can disagree.

One action per call up to its lock (`AllocCall`, `FreeCall`, `CollectCall`), one for
each turn of a loop (`Walk`, `FreeBack`, `ClearRead`/`ClearWrite`,
`ScanRead`/`ScanWrite`, `Sweep`), one for each straight piece of code under the lock
(`TakeBlock`, `FreeMark`, `FreeMerge`). A flags word that `_gc_manage` may change
without the lock is read and written in two steps. The registers of the
collecting cog are its own, so `_gc_markcog` is one step.

The program is a set of calls per cog (`Calls`): it stores pointers into cells of
hub memory, loads them, overwrites registers, and frees what is its own.
`mine` holds the blocks of `_gc_alloc` that a cog must still free or manage: the
program may know such a block by other means than a pointer the collector can see,
which is what reservation is for. `stale` holds freed pointers that are still in
registers. `ScanTop` says how many cells lie below each cog's stack top, which
is where `_gc_docollect` stops scanning.

`Heap` is what a program is promised: extents that do not overlap, taken back only
when nothing refers to them. The refinement mapping takes the allocated blocks
for the extents, the contents of registers and cells for the references.

### LockMem: `_lockmem` in assembly

Each instruction of the four-instruction block is an action; the hub serves the
cogs in rotation (`turn`), and inside the block a cog misses at most `MaxSkip`
windows in a row. Outside the block it may miss any number.

### ByteLock: `_lockmem` and the helper of the bytecode runtime

`GetReg`, `LockNew`, `Publish` are `__getlockreg`; `LockSet`, `Test`, `Set`, `LockClr`
are `_lockmem`; `Args`, `Command`, `Wait`, `LockClr`, `Result` are `_remotecall` and what
its callers do with the mailbox afterwards. `box` says whose arguments the mailbox holds,
the first word apart from the others (`first`). The helper answers a command at once,
except the receipt of a character, which may never come. When it has seen no
command for half a second (`TimeOut`) it counts the cogs that run (`CheckCogs`, twice: the
first word of the mailbox is cleared before the free cogs are started, and
set to the number when they are to stop). The count comes out right in the model, so the helper
goes on: a cog that has been started to be counted loads its program for some 8,000 clocks, and
the loop that starts the others needs a few hundred. `_locknew` returns -1
when nothing is left, and `_lockset(-1)` addresses the last lock of the chip.

### Task: cooperative tasks

`active`, `halted` and `cur` are the code's variables; `jmp[s]` is the function whose
context the slot holds. Functions are numbered as they are started, which tells
the uses of one slot apart. Three variables are history, not in the code and read by no
guard: `asleep` has the functions halted by a request, `early` the slots without a task that were
halted, `inherits` the functions started in a slot that was halted. A call may name any
slot. The loop of `__builtin_tasknext` takes a step per slot.

### BufIO: the buffer of a FILE

The variable `f` is the record of the stream, its device included: `disk` are the
bytes of the file and `pos` the offset the device has come to. A C function of
`bufio.c` is an operator from a record to the set of records it may leave, one
for every answer of the device (`Flushed`, `DefaultPutc`, `Filled`); a call of
stdio is one action. `flags` has the direction the buffer is used in, `ungot`
the byte pushed back plus one, as in the code, and `needseek` tells an
appending stream that it was sought. The device may give fewer bytes than asked,
none at the end of the file only, and may fail; `ioerr` records that it did. A
seek before the start or past the end is refused, as the Parallax driver does
(`parallaxfs_internal.cc:291`); FAT, littlefs and 9P take offsets past the end, which is not
modelled. An open may fail, and a close returns the device's answer.
The modes are `r+`, `w+` and `a+`: a stream open for one direction only, and the
tests that refuse it the other (`posixio.c:300`, `347`), are left out.
`call` is the call with its arguments.

`Stream` is a file without a buffer: a byte put is in the file at once, a byte got
is the one at the position. It shares `call` with `BufIO`, so that an answer has to be right for the
offset, count or bytes that were given. The mapping takes the file's bytes with the unwritten
ones of the buffer laid over them, and the position of the device less what is
read ahead.

### Files: mounts and descriptors

`mounttab`, `vfstab` and `filetab` are the code's tables. A path is a sequence of
components, so that the byte comparisons of `__getvfsforfile` are a comparison of
the first components. A path that no slot holds goes to the root file system (`Root`). `call` is
the call with its arguments. `live` counts the starts (`init`) less the stops (`deinit`)
of each file system; some file systems have no such hooks (`Hooked`). A
start may fail, and the slot is then empty. A program is taken to close the
files of a name before it mounts or unmounts that name (`Idle`): the code has no
way to refuse.

`Namespace` has names and no slots; only their number shows. A step is a call with its
arguments: an open must give the file system mounted last under the name in its
path, or the root one, and the rest of the path, and a mount must change its own name.

### Bcir: the optimiser of the bytecode backend

`c` is the list, with `next`, `prev`, `head` and `tail` kept as the code keeps them, so
that a link which is wrong stays wrong. One action per pass, for the next
operation at which the pass finds something to do; iterations that find
nothing only move the cursor and are skipped. `NextPass` is the loop over the passes;
`DetermineSizes`, `SizesAgain` and `ForceSize` are the sizing of jumps. An operation is
one of a few kinds: what the passes tell apart. The list is walked with a recursive
function (`Walk`) of as many steps as there are nodes, so that a list with a loop in it is
walked to an end as well. `BcirMeaning` runs a list for up to four events (unknown
values met, effects, the return); `SameMeaning` compares the list before and after
each step that changes it. Left out are the switches that turn passes off, CASE and LOOKUP, aborts,
calls with several results, and of the loops the jumps of TJZ and REPEAT-step (`bcir.c:157`-`175`).

## Runs

Every passing run is exhaustive. Its bounds:

| run | asks | bounds |
|---|---|---|
| `gc_one` | is every free neighbour merged, is a failed allocation honest, does the collector take all garbage and nothing else, does every call end? | one cog, 3 pages, requests of 1 or 2 pages, 1 cell, all calls but the early free of a managed block |
| `gc_two` | do the structure and the blocks of two disciplined cogs survive each other's collections, and do they see the abstract heap? | two cogs, 2 pages, 1 cell, above the stack top of one cog; unlocked `_gc_manage` by the other; pointers move during collections |
| `gc_stale` | finding 2 | one cog, 3 pages, no cells, a freed pointer may stay in a register |
| `gc_share` | finding 1 | two cogs, 2 pages, 1 cell |
| `lockmem` | mutual exclusion and progress of the lock | 3 cogs, at most one missed window |
| `bytelock` | memory lock and mailbox over the same hardware lock, with a helper that may count the cogs at any moment | 2 cogs, 2 hardware locks, all calls |
| `bytelock_race` | finding 3 | the same, first calls racing |
| `task` | do tasks resume where they should, all of them but the halted? | 3 slots, 5 functions, all calls with any slot |
| `bufio` | does a buffered stream behave as a file? | 2 byte values, one of them the newline, files of at most 4 bytes, buffers of 1 to 3 bytes, chunks around those sizes |
| `files` | does a name stand for what was mounted last, and is that started and stopped once? | 4 names for 3 slots and one too long, 2 descriptors, 2 file systems, one with hooks |
| `bcir` | does optimised code do what it did, does every jump reach its label, does the work end? | 3,062 functions of at most three blocks or a counted loop, two of them made to be hard to size; jump reach, thresholds and the iteration limit scaled down |
| `bcir_goto` | finding 4 | one function |

The instances are small since the code treats all cogs, pages, slots and bytes
alike: the interesting cases are two cogs in one call, a block with a free, an
allocated or no neighbour on each side, a slot used twice, a buffer that is empty,
full or neither when the direction changes, a table with one name too many.
What depends on more is proved below. `MaxSkip` is 1 because `rdlong` takes 9
to 16 clocks and `wrlong` 3 to 10 on the P2, where a cog's window comes every 8
clocks, provided the loop of `_lockmem` runs from cog or LUT memory: the compiler
puts small loops in the FCACHE when it optimises (`doc/general.md:166`). Run from hub memory (`--fcache=0`) the
fetches compete for the same windows, and neither the bound nor the theorems about
`LockMem` apply. With 2 exclusion fails. In `bcir` the operations with an effect take 9
bytes and a short jump reaches 10, so that one operation decides about a
jump's size; the code's threshold, 5 iterations and distances are larger or
equal. `Task.cfg` does not check deadlock: a program whose tasks have all
stopped has ended.

`CollectComplete` is about one cog because it is false for several: a block of
another cog is not collected.

### Fairness

* `GcAlloc`: a cog inside a call goes on executing (weak fairness of its own
  steps). Nothing is assumed about who gets the lock; `LockReleased` needs no more.
* `LockMem`: the rotation goes on; a cog that waits for the hub in a loop is
  served again and again (strong fairness of its first read and of the
  unlock), because the hub serves every cog in its own window whether or not
  the others want theirs. Only the progress of some cog is claimed, the code
  promises none to a particular one.
* `ByteLock`: cogs inside calls execute, the helper serves its mailbox and ends a count it has begun;
  no fairness for the hardware lock nor for the arrival of a character.
* `Bcir`: one thread that waits for nothing (weak fairness of the whole step,
  `FairSpec`; the theorems are about `Spec`, without it).
* `Task`: the loop runs, and tasks call `__builtin_tasknext` again and again, as the
  manual demands ("tasks must periodically give up control").

## Findings

1. `gc_share`: a managed block that any collection has seen in hub memory gets the
   owner "hub", and is from then on freed by whichever cog collects, although its
   allocator may hold the last pointer in a register. `doc/general.md:518` and
   `doc/basic.md:979` say otherwise.
2. `gc_stale`: `_gc_markcog` marks every block that a register points to, free ones
   too (`gc_pasm.spin:22`; `_gc_markhub` leaves them out). A free block with the mark does not
   equal the pattern `_gc_isFree` compares with (`gcalloc.spin:127`), so the walk back of a later
   `_gc_dofree` passes it, and the block being freed enters the list out of order.
   When the next collection has cleared the mark, merges absorb a header that the list
   still leads to, and `_gc_tryalloc` hands out a page inside a free block. All it
   takes is malloc, free, and a register that keeps the freed pointer through a
   collection.
3. `bytelock_race`: the first two callers of `__getlockreg` may allocate a hardware
   lock each, and then share a memory lock.
4. `bcir_goto`: `BIRB_InsertBefore` does not set the predecessor of what it inserts.
   The pops put before a GOTO out of a loop are cut off backwards, and when a
   later pass removes one of them all of the function before it goes too.

Noticed while modelling and not the subject of a run.

Heap: `_gc_manage` changes a flags word without the lock (`gcalloc.spin:268`), and a
collection on another cog between the read and the write loses its mark, which
costs a block that only hub memory refers to; a managed pointer that another
cog moves during a scan, or keeps on a stack above the collecting cog's, is not seen.

Bytecode lock: the results of a helper command are read after the lock that
protects them is released (`bytecode_rom.spin:321`). The idle helper's count of the cogs writes 0 and
then their number to `__helper_arg[0]` (lines 208 and 214), without the hardware
lock: when a cog posts a command meanwhile, the character it sends or the dividend of its
division becomes one of these. `CommandKept` says what is kept all the same.

Tasks: a task started in the slot of a halted one inherits the halted bit
(`task.c:134`); from five arguments on, `__builtin_taskstartv` leaves out `argv[3]`
(`task.c:141`), against `doc/c.md:1042`; with every task halted `__builtin_tasknext` searches
for ever, where `doc/c.md:1058` says "if any are available".

Streams: the result of a flush's write is dropped (`bufio.c:25`), so bytes the
device refuses are lost without a word (`FlushFails`); line buffering is never
honoured, since `bufio.c:85` compares a mode that always has `_IOBUF` or-ed to it;
`setvbuf` with a buffer of the caller's and size 0 overruns it; `fread` on a terminal
does not count down; `fread` after `ungetc` loses the byte if the read fails;
`freopen` does not close; `fseek` from the current position after `ungetc` is one
byte off.

Mounts: mounting a name that begins with another one's components replaces
the outer mount (`_mount.c:226`), although `doc/general.md:617` asks only for different names.

Optimiser: the inverted jump of JumpOverJump keeps its mark as a terminal operation
(`bcir.c:351`); a jump to itself keeps JumpToJump at work until the iteration limit; the
backward limit of `bc_spin1.c:199` is -40 where -0x40 seems meant, which only makes
some jumps longer than they need be.

## Proofs

All theorems hold for every value of the constants, under the named assumptions
of the modules and the hypothesis of the table, which is a condition on the
constants.

| module | hypothesis | theorems |
|---|---|---|
| `GcAllocProofs` | `Disciplined` | `HeapInOrder` (`HeapInv`), `TypeCorrect` (`TypeOK`), `TilingKept` (`HeapTiling`: blocks tile the heap), `FreeListKept` (`FreeListExact`), `ReferencesSafe` (`ReferencedStaysAllocated`), `ReservedSafe` (`ReservedSurvives`), `ZeroingSafe` (`ZeroesOwnBlock`) |
| `GcHeapProofs` | `Disciplined`; with `Sole` for `CollectionComplete` | `AllInOrder` (`IInv`), `NeighboursMerged` (`NoAdjacentFree`), `FailuresHonest` (`AllocFailureHonest`), `CollectionComplete` (`CollectComplete`), `HeapImplemented` (`ImplementsHeap`: the abstract heap is implemented) |
| `LockMemProofs` | `Timely`: `MaxSkip <= 1` | `LockInOrder` (`IInv`), `TypeCorrect`, `Exclusion` (`MutualExclusion`), `MarkSafe` (`MarkStable`), `MutexImplemented` (`ImplementsMutex`) |
| `ByteLockProofs` | `Preset` | `LocksInOrder` (`IInv`), `TypeCorrect`, `Exclusion`, `MutexImplemented`, `CommandsKept` (`CommandKept`) |
| `TaskProofs` | none | `TasksInOrder` (`IInv`), `TypeCorrect`, `ResumesItsOwn` (`ResumesOwn`), `HaltedTasksSleep` (`HaltedSleeps`), `HaltsOnlyOnRequest` (`HaltedByRequest`) |
| `BufIOProofs` | none; `Reliable` (`~ FlushFails`) for the last | `BufferKept` (`IInv`), `BufferTyped` (`TypeOK`), `BufferSound` (`BufferConsistent`), `AppendsOnly` (`AppendOnly`), `StreamImplemented` (`ImplementsStream`: the file without a buffer is implemented) |
| `FilesProofs` | none; `Flat` for the last | `TablesInOrder` (`IInv`), `StartsCounted` (`StartsBalanced`), `OpenFilesRun` (`OpenFilesLive`), `NamespaceImplemented` (`ImplementsNamespace`: a map from names to file systems is implemented) |
| `BcirProofs` | none; `NothingHidden` for the last | `Types` (`TypeOK`), `Encodings` (`EncodingFits`), `ListInOrder` (`Linked`) |

### The heap

The theorems rest on `GcAssumption` (the types of the constants) and on `Disciplined`,
which names what the findings and the remarks above show to be necessary. The heap's last
page ends before `heap_end`, and no register keeps a freed pointer (finding 2).
Beyond that, there are two ways to be disciplined:

* A program on one cog (`Sole`) whose stack lies above its data may do what it
  likes: store any pointer anywhere, hand blocks to the collector, free
  managed blocks.
* A program on any number of cogs stores only blocks of `_gc_alloc` in hub memory
  (finding 1 is about managed ones), and a cog that calls `_gc_manage` (`Managers`) does
  so for blocks that stay in its registers. Which cog's stack lies where, and
  when pointers are moved, is not restricted, and `_gc_manage` on any number of
  cogs races with the collections of all the others.

The invariant. None of the properties is inductive. That the tiling survives a
merge needs that the neighbour found by its size is a block, and that the walk
back ends at the free block just below, hence the free list and the positions of
every local pointer in each place (`AllocOk`, `FreeOk`, `CollectOk`). That the sweep frees
nothing that is referenced needs to know why each block a pointer leads to is safe:
it is `Private` to the cog that knows it, so that only the collector which sees
those registers could take it, or it is `Shared`, reserved and out of the reach of
`_gc_manage` (`MineInv`, `RegInv`, `HubInv`). After `_gc_markcog` all blocks in the cog's own registers are
marked until the sweep is over (the last part of `CollectOk`); on one cog, so is
what the scan of hub memory has passed (`SoleOk`). A block that a
cog has decided to free and has not marked yet must not be found by another
cog's collector (`GiveInv`), and since only one cog is in a locked part (`LockOk`), whatever
one cog's local pointers say about the heap cannot be disturbed by another one,
except by an unlocked `_gc_manage`. `WordOk` is what is left of a flags word between its
read and its write: it is the word in memory, or its block belongs to a
cog that manages blocks and the copy still says reserved; owner and structure agree in both cases, and
a write of the stale copy only puts back a reservation. These parts together are `HeapInv`.

`IInv` adds what is not needed to preserve them. Free neighbours are merged. `SearchOk` says
that the first-fit walk has passed only blocks that are too small, which with
the order of the free list makes a failure honest: nothing can become free
between the second search and the answer, since the cog has the lock. `ClearOk`
and `SweepOk` follow one cog's collection: below the place of the clearing loop nothing is
marked, hence a mark at the end of the scan means a reference (`RootMarks`), and below the
place of the sweep all that is left is `Kept`. Since `FreeMerge` moves on to the block after the
merged one, the sweep misses nothing by a merge. TLC checks `IInv` in `gc_one` and `gc_two`.

The proof has one lemma per action (`WalkStep`, `TakeBlockStep`, ...), each of which proves the
parts of the invariant that the action can disturb. `Quiet` deals once and for all with steps
that leave the heap alone, `Marking` with those that change only a mark; `Tiles` and `Links` reduce the two heap properties
to arithmetic on consecutive pages, and `ZeroKeeps` shows that the zeroing outside the lock
meets no header. For the refinement, `TakeBlock` is the
abstract `Alloc`, `FreeMark` is `Reclaim`, the program's moves are `Program`, and all else is a stutter.

### The locks

The assembly lock is an argument of deadlines. A cog that has read zero writes
its mark within `Deadline` windows, a cog that has written makes its last read
after `Earliest` windows at least. `RivalsInTime` says that every rival of the cog whose
mark is in the long writes before that cog's last read, `WinnerSafe` that nobody
is about to write once a last read has returned its own mark. Mutual
exclusion follows, since the long holds one mark. `Timely` is used once, where
a cog writes: a rival has then at most two turns left, and so has the writer.

In the bytecode runtime exclusion is the hardware lock's. The invariant says that
all cogs use the same one (`OneLock`, which is what `Preset` buys), that one
cog at most is between set and clear (`HeldByOne`, `Purpose`), and what that cog's place
says of the memory lock's long (`MemoryLock`) and of the mailbox (`Mailbox`: a
command is there only while the cog that wrote it waits for the answer, with the hardware lock in hand, which
leaves the helper as the only one to change it). Without `Preset`
the run `bytelock_race` shows that the theorem is false.

### Tasks

`ContextsOwn` and `ContextsLast` say that a saved context in an active slot is that of the
function last started there; `RunsLast` that what runs is one. `AsleepHalted` says that a
function halted by a request is in an active slot whose bit is set, so that the search for the next task
cannot come upon it, and a start in its slot ends it. `HaltedBits` accounts
for the bits of slots without a task: each was halted by a request after the last task
there had stopped. No call is excluded.

### Streams

The buffer's three uses (reading, writing, neither) are preserved by each operator of
`bufio.c`, stated as lemmas about `Flushed`, `Turned`, `DefaultPutc` and so on from a `Sound`
record to the set of records it leaves; each call is then a composition of these.
`AppendOnly` needs `AtEnd`: an appending stream without the mark `needseek` is at
the end of the file. The reads of a buffer move the device without setting the
mark; what makes it true all the same is that the write which clears the mark leaves
the device at the end, where there is nothing to read until a seek sets it again.

For the refinement `ContentOf` and `PositionOf` are what the program sees of a stream.
Almost everything the buffer does is invisible: a flush (`FlushedSame`), a change of
direction (`TurnedSame`), the filling of the buffer (`FilledSame`), the byte pushed back (`UngotSight`).
Two steps are not: a byte put in the buffer is a byte laid over the file at the
place where the next one goes (`PutSight`, from `OverlayAppend`), and a byte taken out is the
one at the position (`GetNextSight`). Each call of stdio is then one call of the file.
`Reliable` is needed: `flush` drops the result of its write, so a byte that the
device refuses is lost although `putc` has answered. The one fact `IInv` does not have is `Shut`: a stream that is not open
has nothing in its buffer.

### Files

`FreeUnhooked` says that a slot without a name has no file system that was started, since the
code empties only part of a slot at an unmount; `Counted` is a cardinality, kept by
`SlotChanged` for a slot that changes its file system; `OpenMounted` says that the file
system of an open file is in a slot.

For the refinement, `NamesOnce` says that a name is in one slot with a file system at most. A mount
finds the slot of its own name or a free one, an unmount and an open the slot of their
own name: all need `Flat`, that no name begins with another one's components, since the code
replaces the outer one of two nested names, as the remarks above say. The number of names, which decides whether a
mount fails, is the number of slots in use by the bijection between the two.

### The bytecode optimiser

What a walk along the links gives is a matter of recursion. `Least` (a set of numbers has a
least one) shows that a recursive function over numbers exists; from that follows what
one step of `Walk` and of `Distance` does, and the rest of the proof uses those steps only.

`Typed` says that links and labels stay inside the nodes. It needs nothing but
`BcirAssumption`, hence holds for the lists that a GOTO cuts, too.

The list is in order (`Kept`) if `next` and `prev`, closed at `Nil`, are the successor and the
predecessor on one ring through its nodes (`Ring`, with the sequence of the nodes as a
witness), whose ends are `head` and `tail`, if the cursor is on it, and if its jumps
lead to labels on it (`Labelled`). A ring survives what all passes are made of: cutting a
block out (`RemoveRing`), putting it back in behind a node (`JoinRing`), and changing an
operation in place. For each pass it remains to show that what it removes is no
label of a jump that stays: dead code is not a label, and an unused label has no reference or
has lost them to the one before it. The block of `MoveSingleJumpLabel` does not
contain the jump it moves to, since it ends at its first terminal operation and that is another one;
otherwise it would be put behind a part of itself. `KeptLinked` turns the ring
into what `Linked` says of the two walks.

`NothingHidden` (no GOTO leaves hidden variables on the stack) is needed for `ListInOrder`
only: `BIRB_InsertBefore` is called for nothing else, and finding 4 shows that its
list is not in order. The programs of the run `bcir` satisfy it.

`SizesInv` says of the sizes that a jump which is short already reaches its label even if all
jumps that are still open become long. Since an open jump gets a size between these
two bounds, each decision leaves those before it right, in whatever order they are made.

### Model-checked only

Liveness (`LockReleased`, `SomebodyGetsIn`, `HardwareLockReleased`, `NoStarvation`, `Finishes`), which is
beyond the proof system; and `SameMeaning`, whose `Traces` runs a function by recursion over its
steps: that two lists have the same traces is an induction over data.

## Not modelled

The initialisation of the heap by the first caller of `_gc_ptrs` (the model starts
after it), the conversion of a request from bytes to pages, words of the heap's
blocks that look like pointers (a conservative scan keeps such blocks alive; it
frees nothing it should not), realloc and calloc, double frees, hub addresses
that change while `longfill` runs. `ByteLock` leaves out the bit timing of the serial code and
the helper's own end when it is the last cog, when nobody is left to wait for it; `Task` leaves out arguments. `BufIO` leaves out
terminals, streams for one direction, seeks past the end and a second stream on the same file; `Files` the current directory, the
listing of the root and a second cog in the same calls, which nothing in
the code protects. The
parts in `PROJECT.json` with the status `not_modelled` give their reasons there.

## Plan

Done: the heap, the two locks, the tasks, streams, files, the bytecode optimiser; the
invariants and the five refinements above proved, and that the optimiser keeps its list
whole and its jumps within reach. What a continuation would take up,
in this order:

1. `GcInit`: the unlocked first initialisation of the heap.
2. Several cogs in the file table and the i/o locks that are found again at unlock.
3. `SerialRing` (the two ring buffers of FullDuplexSerial), `Fs9p` (the client's
   request loop).
4. Compiler: the opcode tables of nucode (`nuir.c`), the preprocessor's conditionals, the
   indentation tokens of Spin, the invalidation rules of common subexpression
   elimination.
