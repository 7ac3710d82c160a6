# A TLA+ model of the cs4520 assignments

The repository holds four C programs of an operating systems course. Three are modelled here: a file
system in a memory-mapped file (`a5_file_system_nwewnh`), a program with simulated process schedulers
(`a3_process_scheduling_nwewnh`), and a block store in memory with an image in a file
(`a4_block_store_nwewnh`), the ancestor of the file system's device. The fourth
(`a2_c_refresher_nwewnh`) is a set of independent exercises.

Line numbers below are those of the file last named; `FS.c`, `block_store.c`, `bitmap.c` and
`dyn_array.c` are the ones of `a5_file_system_nwewnh/src` unless `a4` or `a3` is said.

## 1. Inventory

| Component | State | Operations | What makes it hard |
|---|---|---|---|
| File data path, `FS.c` | free-block map, blocks, inode table (device); descriptor table (process) | `fs_open/close/seek/read/write`, `fs_mount/unmount` | one write is many device updates; the process may die between any two; the device fills up in the middle of linking a block; two descriptors on one file |
| Name space, `FS.c` | inode bitmap, inodes, blocks of directory entries, free-block map | `fs_create`, path lookup, `fs_get_dir` | five device updates per create, seven ways to fail, crash in between; two places that say which entries are in use |
| The library, `FS.c` | all of the above in one process on one device | all of the above, `fs_open` by path | both parts take blocks and inodes from the same maps; a death in one is followed by calls of the other |
| Block device, `block_store.c` | the mapped file, whose last 8 blocks are the map | create, open, destroy, allocate, request, release, read, write, (de)serialize | the map can be reached as data; creation in several steps; an import that makes its file anew |
| Block store, `a4 block_store.c` | blocks in memory with the map in blocks 127-128; an image in a file | as above | the map is part of what is saved and loaded; saving destroys the old image first |
| Bitmap, `bitmap.c` (a5 and a4, same code) | bytes, its own or another object's | test, set, reset, flip, invert, format, first one and zero, total, import, overlay | it may be a view of memory owned by others, and end inside a byte |
| Dynamic array, `dyn_array.c` (a5 and a3, same code) | buffer, capacity, size, destructor | insert, erase, extract, sort, grow | overlapping moves, growth, ownership of elements |
| Schedulers, `a3 process_scheduling.c` | array of PCBs, ready queue, clock, sums | FCFS, SJF, SRTF, RR | idle time, preemption, statistics by differences of sums |
| PCB loader and program, `a3 process_scheduling.c`, `analysis.c` | file descriptor, count of records, array, exit code | load, dispatch, report | files that lie about their length, error labels, arguments that wrap |
| exercises (a2); `clone-asgmt`; tests | none beyond a call | | not modelled |
| `fs_remove`, `fs_move`, `fs_link` | | declared in `FS.h`, not implemented | |

**How they interact.** Nothing has threads; every interaction is a call. `FS.c` owns three block
stores: the device, and two views built on the same structure, the inode table (block 0 is its
bitmap, blocks 1-16 its inodes, inside the device) and the descriptor table (on the heap). The
device is mapped `MAP_SHARED` (block_store.c:58), so every store into it outlives the process,
and the descriptor table does not. `fs_create` and `fs_write` compete for the device's blocks and
meet in the free-block map. `FS.c` returns listings and splits paths with dynamic arrays; the
schedulers keep their queues in them. Concurrency therefore comes in two kinds: calls on several
descriptors and files in any order, and the death of the process between two device updates.

**What makes each correct.**

- Data path: a file is the sequence of what was written; no cursor leaves its file; no block
  serves two purposes; a full device shortens a write and leaks nothing; after a death the device
  is consistent.
- Name space: lookup and listing agree; a failing create leaves no trace; a name stands for one
  allocated inode; what was listed stays listed; only a death loses inodes or blocks.
- Stores: a block has one owner and keeps what its owner wrote; the map is never handed out or
  written; the image is what was saved, or refused.
- Dynamic array: a sequence; each element is in it, destructed or handed out exactly once.
- Schedulers: every process runs for its burst and ends, the statistics are those of the schedule,
  nobody starves, the optimal algorithms are optimal.
- Loader and program: only whole files are scheduled, and however the program ends it has given back
  what it took.

## 2. The modules

| Module | Stands for | Built on |
|---|---|---|
| `FileStore` | what `FS.h` promises of files: sequences of cells, descriptors with a position | |
| `FileData` | the data path in `FS.c` | `FileStore` (refined) |
| `FileDataProofs` | theorems about `FileData`: types, cursors, `new_ptrs`, the blocks of its files | `FileData`, TLAPS |
| `FileTree` | what `FS.h` promises of names: a tree that only grows | |
| `FSNamespace` | `fs_create`, lookup, listing | `FileTree` (refined) |
| `FSNamespaceProofs` | theorems about `FSNamespace` | `FSNamespace`, TLAPS |
| `FileSystem` | the whole library on one device | `FSNamespace`, `FileData` (both composed and refined) |
| `FileSystemProofs` | theorems about `FileSystem`: each part goes on as alone, and what both promise together | `FileSystem`, both parts' proofs |
| `BlockPool` | what both `block_store.h` promise | |
| `Bitmap` | `bitmap.c`, as functions of the memory it is laid over | |
| `BlockOverlay` | the memory of both block stores, with the map laid over it | `Bitmap` |
| `BitmapProofs` | what operations on a bitmap do to its bits, and those on the map to blocks and the reverse | `BlockOverlay`, TLAPS |
| `BlockDevice`, `BlockStore` | the a5 device, the a4 store | `BlockOverlay`, `BlockPool` (refined) |
| `BlockDeviceProofs`, `BlockStoreProofs` | theorems about `BlockDevice`, `BlockStore` | the module of that name, `BitmapProofs` |
| `List` | a sequence | |
| `DynArray` | `dyn_array.c` | `List` (refined) |
| `DynArrayProofs` | theorems about `DynArray` | `DynArray`, TLAPS |
| `PcbArray` | the same array as the schedulers see it: a value with a capacity | |
| `Scheduling` | the four schedulers | `PcbArray` |
| `Analysis` | the PCB loader and `main` | `Scheduling` |
| `SchedulingProofs` | theorems about `Scheduling` and `Analysis` | `Analysis`, TLAPS |
| `MC*` | values of the constants | the module of that name; `MCScheduling` of `Analysis` |

Definitions have the names of the C functions they stand for where there is one; `PROJECT.json`
gives the lines of each.

**FileData.** A *cell* is two bytes: the size of a block pointer, so that a block holds
`BlockSize` words of data or pointers. `fbm`, `mem` and `inodes` are the device, `fd_used` and
`fd_tab` the descriptor table, `call` the locals of the running `fs_write`. `fs_open`, `fs_close`,
`fs_seek` and `fs_read` change nothing on the device and are one step each. `fs_write` takes a
step per store into the device: `AllocData` (FS.c:476), then, depending on where the new block
index falls, `LinkDirect`, or `AllocIndirect`, `StoreIndirect`, `LinkIndirect`, or `AllocDouble`,
`StoreDouble`, `AllocInner`, `StoreInner`, `LinkInner` (483-535), `Undo` when a pointer block
cannot be had (543-553), `WriteChunk` per turn of the loop (1109-1135), `Finish` (1138-1146).
`DeviceFull` is the exit at 1104. `Crash` may come between any two of these. The index of an added
block comes from the file's size and the place of the chunk from the cursor, as in the code: that
they agree is a consequence, not an assumption. `CapacityAssumption` states that the device has
fewer blocks than a file has pointers (65528 against 262662), which makes the branches for a full
file dead; failing reads and writes of the device cannot happen for numbers below 65528.

**FSNamespace.** A path is a sequence of slashes and names, and `_split_path`, `_dirname` and
`_basename` (FS.c:135-215) do to it what `strtok_r`, `dirname` and `basename` do to the string: doubled
slashes are lost, a path may be NULL or not start with a slash, a basename may be `.` or `..`.
`fs_create` looks up the parent and allocates a block for entries if the directory is empty (757-794);
`AllocInode`, `WriteInode`, `WriteEntries`, `WriteParent` follow (821, 839, 858, 867);
`Verified_fails`, `FreeInode` and `FreeBlock` are the labels err4/err3, err5 and the release at 886. A
type that is neither of the two is refused as early as a bad path and needs no case of its own. The
functions of the stores underneath (`block_store_sub_allocate`, `block_store_release`, ...) are operators
of the same names. `MapBits` < `DirEntries` as in the code (16 of 31), so the check at 801 never fires and
a directory that is full is found only at 843. An empty directory points to block 0, the inode bitmap:
`BitmapAsEntries` is what lookup then reads, with the name `MapName[n]` that the bytes of a bitmap of n
ones spell. The constant `Torn` says whether a process may die between 858 and 867 for a directory that
had files before; see `ns_stale`. `file_takes_block` and `file_gives_block` stand for `fs_write`.

**FileSystem.** Both modules again, over the same `fbm`, `mounted`, inode numbers and deaths. Each sees
the other as an environment that takes blocks and gives them back (`file_takes_block`,
`directory_takes_block`, ...); that this is all it sees is not assumed but checked: `NamespaceHolds` and
`DataHolds` say that every step of the library is a step of `FSNamespace`, and one of `FileData`. So the
safety properties that the other runs check of the parts are those of the library. An inode's bytes are
one field of `inodes` and one of `file_inodes`, since no type is ever changed; `fs_create` writes both
(`StoreNewInode`), which is how a file that gets an inode left over from a dead process starts empty.

**Bitmap, BlockOverlay, BlockDevice, BlockStore.** A byte is the set of its bits that are 1, a memory a
function from addresses to bytes, and a bitmap what the C struct holds: an address, a number of bits and
the derived `byte_count` and `leftover_bits`. The map of a store is a bitmap laid over the memory of its
blocks, so that a bit of the map and a block of data are two views of one memory; writing a map block as
data changes the map. `block_store_deserialize` of a5 calls `block_store_create` on the file it is to import, and so
shares its steps (`ImportTruncates`, `CreateSizes`, `block_store_create`) before its own (252-257); what it then reads
over the struct bitmap is the map of the new device, whose first bytes are 0. `Map` is that struct afterwards,
`NullMap`, with no bits and no memory: the store allocates nothing and counts nothing, a request or release that looks up
a bit dies (`NullDereferenced`), and reads, writes and destroying work. The variable `import` says that an import
is under way or has made the store that is open; its `image` is a ghost. The refinement to `BlockPool` looks at the memory only through the map. The result
of a write carries the buffer, so that the pool's block must get what was written.

**DynArray.** Elements are distinct and put in once; `out` counts how often each was destructed or
handed out. Memory may fail at any growth. `MinCapacity` is 16 in the code.

**Scheduling, Analysis.** A behaviour is a run of the program: `ReadHeader`, a `ReadRecord` per record,
`ReadEnd` or one of the ways to fail, then `Dispatch` to a scheduler with what the arguments say, and
`MainEnds`. What the file and the arguments hold is chosen when it is looked at. A step of a scheduler is
a tick for SRTF and RR and a process for FCFS and SJF; `RrAdmit` moves one process. `pc = "dead"` is a
dereferenced NULL. Numbers of `uint32_t` and `unsigned` are taken modulo `Word` where the code lets
them wrap, so a burst of 0 in round_robin becomes `Word - 1`. The arrays are those of `PcbArray`: the
functions that need memory return the set of their outcomes, and round_robin, which asks nobody whether
`dyn_array_push_back` succeeded, takes what it gets. `array`, `exit` and `starving` are ghosts
against which the statistics are compared.

## 3. What the runs check

| Run | Bounds | Shows |
|---|---|---|
| `data_deep` | one file, blocks of 2 cells, 1 direct pointer, devices of 2 to 10 free blocks, 2 writes of up to 6 cells | file data is refined by blocks (`ImplementsFileStore`), also across deaths and remounts; a write falls short only when the next block with its pointer blocks does not fit; blocks are lost only by deaths; `new_ptrs` suffices; writes end |
| `data_two` | two files, two descriptors (also on one file), 6 free blocks, 3 writes of 3 cells | no cursor passes its file's end, files do not share blocks, what a dead process leaves is usable |
| `ns_tree` | 4 inodes, 2 blocks for entries, directories of 2 entries in 3 slots, 13 paths of up to 3 names, malformed ones among them | creates are atomic on the tree, failures leave no trace, lookup finds exactly what is listed, listed files stay, only deaths lose something |
| `system` | 3 inodes, 4 blocks, directories of 1 entry in 2 slots, 4 paths, 1 descriptor, blocks of 1 cell, 2 writes of 2 cells, `Torn`, a bitmap that spells a name | the two parts see of each other only blocks that come and go; entry blocks and file blocks stay apart; what is open is an allocated regular file; names are links; listed files stay listed |
| `ns_stale` | as `ns_tree`, with `Torn` | **violated**, see below |
| `ns_empty` | 4 inodes, 6 paths, a bitmap that spells a name | **violated** |
| `store` | 2 data blocks around 2 map blocks of 2 bits | the map is never handed out; the store is a pool, its image is refused or whole; and the laws of `bitmap.c`, see below |
| `device` | 2 data blocks, 2 map blocks of 2 bits, numbers of all four | but for imports and calls with the number of the first map block, the mapped file is a pool that survives its processes |
| `device_import` | as `device`, numbers of data blocks | **violated** |
| `scheduling` | files of 0 to 3 records, bursts 0-3, arrivals 0, 1 and 3, a count too large for memory, quanta -1 to 2, words of 20 values | no process lost, statistics right, least turnaround (against all schedules), no starvation; only whole files are scheduled, nothing is left behind, the program ends |
| `scheduling_idle` | 2 processes, bursts 1-2 | **violated** |
| `dyn_array` | 5 elements, capacity from 1, limit 3 | sequence semantics, elements exactly once, a sorted insertion keeps the order |

The run `store` also evaluates two assumptions of `MCBlockStore`: `BitmapLaws` and `OwnMemoryLaws`
compare every operation of `Bitmap` with sets of bits, over all bitmaps of 1 to 4 bits at both places of
all memories of three 2-bit bytes (so with whole bytes, parts of one, and neighbours on either side).

**Why the bounds are enough.** The shape of a file has five regions (direct, first indirect block
needed, indirect, double indirect block needed, a further inner block needed); with 1 direct pointer
and 2 pointers per block a file of 7 blocks passes all of them, and the devices in `TakenSizes` run
out exactly at each allocation. Cursors start in the middle of a block, at its edge and at the end.
In `data_two` two writers alternate on one file and on two, which is all that the shared map and the
separate cursors can tell apart. Directories need an empty one, one with its first entry, a full one
and one nested in another; three names over two entries give these. The stores need a data block
before, after and inside the map's range and a number past the end; the device's callers use the numbers on both sides
of the one that is accepted by mistake. In `system` a block of one cell and
one direct pointer make the second cell of a file need an indirect block, so a write holds two blocks at
once and fails after the first; four blocks are one directory's entries, a nested one's and a file, or not
quite; two files, one in a directory of its own, are enough for each part to take what the other freed or
left. Three processes give a preemption of one by another while the third waits; words of 20 values are
longer than any sum of bursts and arrivals and short enough for a burst that wrapped to be used up. `MaxWrites` bounds the number of writes of a behaviour;
what the calls before them did is in the file and the cursors.

**The violations are of the code.** Each run states what a comment or a header says.

- `ns_stale`: the entries of a directory are stored before its inode and lookup does not consult the
  map. After a death in between, a file can be opened that is not listed, and the next create takes
  its slot: it, and all below it if it is a directory, become unreachable.
- `ns_empty`: an empty directory's `data_direct[0]` is 0, so the inode bitmap is searched. With
  n < 9 inodes in use it is the name of one byte 2^n - 1; in `/d/X` with that X the lookup finds the
  root directory, and creating it is refused as existing.
- `device_import`: `block_store_deserialize` "imports BS device from the given file" (block_store.h:109), but creates a
  new device in that file before it reads it (block_store.c:250): what it held is lost, and the store returned is empty.
- `scheduling_idle`: no process ready means a dereferenced NULL.

Seen while reading and not put into a run: comparisons with `<=` in a5's block_store.c (132, 154, 214, 230) accept the
number of the first map block, and a write there rewrites the map, of which line 63 says that it "will be a disaster"
(the exception `AtEdge` of the device's `ImplementsBlockPool`; take it out, and TLC shows
it); the waiting time is not what processing_scheduling.h:25 says, "the average waiting time in the ready queue
until first schedue on the cpu", but turnaround less burst, all the time spent ready and not running, which is more
for every process that SRTF or RR preempts (the tests expect the latter: tests.cpp:288 wants 2.25 where the former is
0.5; so does `StatisticsRight`, and for SJF both agree); `fs_create` limits the length of the whole path while its
comment (808) says basename; `fs_mount` returns an object when the device could not be opened;
`_split_path` copies `FS_FNAME_MAX` bytes from every token, past the end of the shorter ones (209; the
bytes behind the terminating zero are never looked at, and the model has none); `block_store_serialize` of a5
writes the bitmap object in place of the map; a4's store lets callers release and write the map's blocks; `dyn_array_erase` near `SIZE_MAX` passes
its range check by wrap-around; `first_come_first_serve` takes no account of arrivals (and is therefore
left out of `StatisticsRight`), nor is `StatisticsRight` stated of a round_robin with a burst of 0, which
it runs for 2^32 ticks; the loader of a3 leaves its file open when it succeeds (and
`ExitIsClean` allows that).

**Fairness.** `FileData` has weak fairness of `WriteStep`, `FSNamespace` of `CreateStep`, `Analysis` of
its `Next`: a single thread that is inside a call executes its next instruction unless the process dies,
and death is an action that fairness does not force or forbid. In `Analysis` the whole program is one
thread that nothing interrupts. Nothing makes callers call, unmount or mount. The block stores and the
array have no loops that wait for anything, so no liveness is stated; `FileSystem` is about what its
parts share, and states safety only.

**Deadlock** is checked everywhere but in the two scheduling runs, where a behaviour is one run of the
program and ends.

## 4. What is proved

With TLAPS, for all values of the constants that the named assumptions of the modules allow (and for
nothing less: the assumptions are on the shape of the device, the names and the inputs).

**FileDataProofs, types and cursors**: `TypeCorrect`, `CursorsStayInFile` and `NewPtrsNeverOverrun`, that is `Spec => []TypeOK`,
`[]CursorInFile` and `[]NewPtrsInBounds`. None of the three is inductive. The invariant `IInv` adds to `TypeOK`

- `HeldBlocks`: while a step of `_inode_add_owned_block` is under way, the local it is about to store
  holds a block;
- `OpenInFile`, `CallInFile`: open descriptors and the running call have their cursors in the file, and
  the call's inode is never shorter than the stored one (other descriptors are compared with the
  stored one, the call with its own);
- `BlocksFilled`: of the n blocks a call has added so far, n - 1 were filled from the buffer entirely,
  and a block is added only when the cursor is at the start of one.

The last is the reason `new_ptrs` suffices: a cursor in the file that is not in an owned block is at the
end of the file, which is then a whole number of blocks (`AtEnd`), so a write that starts inside a block
adds none for its first chunk. The lemmas before it are arithmetic of blocks and cursors (`DivMod`,
`TimesBlock`, `CeilDivFacts`, `UsageStart`, `CursorRoundTrip`); after it there is one lemma for each kind
of step, and `StepInv` collects them.

**FileDataProofs, blocks**: `FilesShareNoBlock`, `DeviceStaysSound`, `OnlyDeathLosesBlocks` and
`WriteShortOnlyWhenFull`, that is `NoSharedBlock`, `DeviceSound`, `OnlyDeathLeaks` and `ShortOnlyWhenFull`, for
every size of block and number of direct pointers. A file is seen as a tree of blocks in a given memory
(`BlockIn`, `Parts`), so that the trees before and after a step can be compared. The invariant `BInv` adds to
`IInv`

- `TreeInv`: the blocks of all files are pairwise distinct, in use, not reserved and not held by the call;
- `HeldInv`, `PlaceInv`: which blocks the call holds at each `pc`, and which of them are already linked where;
- `EndInv`: a block is added only with the cursor at the end of the file;
- `StoredInv`: the stored inode has the same pointers as the call's copy, so the stored file is a
  part of the running one, and `DeviceSound` follows from `TreeInv`;
- `CursorInv`: cursors have the form `_fd_cursor_set` gives them, so `WriteChunk` writes a data block that
  the file owns;
- `TakenInv`: what `fs_format` took stays taken.

A step of a running call either moves held blocks into the tree of its file (`Advance`, with `Grow` for the
distinctness and `NothingLost` for the leaks) or changes nothing in it. That a pointer is always written inside its
block needs `NeverFull`: a file cannot have `MaxPtrs` blocks, because they and its pointer blocks would be more
than `CapacityAssumption` allows (the pigeonhole argument of the finite sets library). `ShortInv` says that from
the moment a call gives up, what is free or still held is less than the next block of the file needs; giving back
moves blocks from the second to the first.

**FileDataProofs, contents**: `DataImplementsFiles` is the refinement of `FileStore`, `ImplementsFileStore`: what is
read is what was written, wherever the blocks are that hold it. The invariant `CInv` adds to `BInv` one part, `WriteInv`:
while a `fs_write` runs, its cursor is as far behind the stored one as it has written, its inode's size is the
stored size or the cursor, and the cells written so far are in the file. The proof compares what a file's blocks
hold before and after a step (`CellIn`):

- adding a block sets cells of pointer blocks only, and new ones (`PointersOnly`, `PointersKeepData`), and a file's data
  blocks are none of these (`FilesShareNoBlock`), so no cell of any file moves;
- `WriteChunk` sets the cells from the cursor on in one data block of one file (`WritesCells`, `ChunkCells`);
- what a mapped inode shows at a death is the file with a prefix of the buffer laid over it (`EffectIs`),
  which is what `FileStore` allows a write to leave behind: every step of `fs_write` is a `Progress`, and its last an
  `EndWrite`.

**FSNamespaceProofs**: `BlocksApart`, `NamesStayLinks`, `FailuresLeaveNoTrace`, `ListedStaysListed` and
`OnlyADeathLoses`, that is `EntryBlocksApart`, `NamesAreLinks`, `FailureLeavesNoTrace`, `ListedForever`
and `OnlyDeathLoses`, also for `Torn = TRUE`. They rest on one invariant, `IInv`, that
relates the running `fs_create` to the device:

- `InodeInv`: inodes that are not allocated, and the one the call allocated, have no files;
- `ParentInv`: in what the call's copy of the parent's inode may be ahead of the stored one, at each `pc`;
- `BeforeInv`: the maps are those from before the call, but for what it holds;
- `EntriesInv`: what the call's copy of the entries is, or may become, the parent's entries without
  naming an inode twice; the inode it allocated is named nowhere yet;
- `EntryBlocksApart` and `NamesAreLinks` themselves.

Between `WriteEntries` and `WriteParent` names and maps disagree; since `NamesAreLinks` is about all slots,
whatever the maps say of them, a death at this point leaves the invariant true. `OnlyADeathLoses` needs in
addition `LostInv`: the call has an inode number only while it holds an inode, and once the new entry is in
the local entries its slot is in the local map.

In the same module `TypeCorrect`, that is `[]TypeOK`, whose part that is not about types says that the
inodes in use are the first ones (`RowInv`: and the running call holds the last). The model's reading of
block 0 as entries rests on it. To `IInv` it adds `RowInv`, what the entries hold (`ValueInv`) and that the
path of the running call passed the checks (`PathInv`); `BasenameIsName` then says that what is stored as a
name is one.

`LookupStaysListed` is `[]LookupFindsListed`, for `Torn = FALSE`: in the window of `Torn` it is false, as `ns_stale` shows.
The invariant `MarkInv` says that the slots of a directory with files that have a name are those of its map, but
for what the running call is about to add.

`NamesImplementTree` is the refinement of `FileTree`, `ImplementsFileTree`, under three hypotheses: `Torn = FALSE`; `<<Slash>>` is a path
callers may pass, so that the root is a file of the tree; and `BitmapSpellsNothing`, that no path names what
block 0 spells, without which lookup finds children in an empty directory (`ns_empty`). Its argument:

- A recursive function along a sequence (`_split_path`, `_get_inum`, `ListedInum`) is seen as a walk along a
  table (`Along`), which has a recursion of its own that `AlongAppend` states once; sequences are then counted up
  by `SequencesUp`. So `DirnameIs`: the names of a path are those of its dirname and its basename.
- What is listed is a set of links (`GoodLinks`, from `NamesAreLinks`), and the table they make is a forest
  (`TableIsForest`): no place is reached along two paths (`OnePath`), and one link more makes one place more
  (`OneMore`).
- Between calls `_inum_find_child` is that table (`LookupIs`), so `_get_inum` leads where the names of the
  path do (`GetInumIs`), whether or not a create died before.
- `WriteParent` adds exactly one link (`OneLinkMore`), and no other step changes what the tree is (`TreeSame`);
  `NewInv`, `PlaceInv` and `ReachInv` say what that link is, that its directory is still at the dirname of the path,
  and that what is listed was created under a path of `Paths`.

**FileSystemProofs** is about the library as a whole. `NamespaceGoesOn` and `DataGoesOn` are the two refinements
`NamespaceHolds` and `DataHolds`: every step of the library is a step of `FSNamespace` or none, and one of
`FileData` or none. `FilesStayApart` is `[]FilesApart`. `NamesStaySound`, `NamesStayListed` and `FilesStaySound`
carry the theorems about the parts over to the library (`EntryBlocksApart`, `NamesAreLinks`, `ListedForever`,
`OnlyDeathLoses`, and `DeviceSound`, `OnlyDeathLeaks` of its files).

That a step of the library is one of each part needs an invariant: that the inode `fs_create` stores as new was
nobody's, that what is open stays what it was. `FSInv` is the conjunction of both parts' invariants (`TInv` and
`LostInv` of `FSNamespace`, `BInv` of `FileData`), in terms of the library's variables, and of `LinkInv`, which
neither part can say:

- `GhostInv`: the blocks that are files' for the name space and those that are taken for the files are the two
  parts of one map;
- `OneCallInv`: `fs_create` and `fs_write` do not run at the same time;
- `OpenInv`: what is open is an inode that exists, not one a create still holds, and a regular file;
- `UntouchedInv`: an inode that does not exist, because it was never handed out, was given back or is in the hands
  of a create, has no blocks and size 0;
- `RootInv`: the root is a directory, and so cannot be opened.

Since the two parts' invariants are inductive for their own steps, the work per action is to find the step it is of
each part (`FSStep`) and to show that `LinkInv` survives (one lemma per kind of step). It rests on the assumptions of both parts, and `DataAssumption`,
which says that the shapes that `FileSystem` gives to `FileData` satisfy those of `FileData`.

**SchedulingProofs**: `OnlyWholeFiles`, `NothingIsLeft`, `EveryProcessKept`, `TurnsAreFair`, `ResultsAreRight` and
`ShortestIsLeast`, that is `WholeFilesOnly`, `ExitIsClean`, `NoProcessLost`, `NoStarvation`, `StatisticsRight`
and `LeastTurnaround`, for any number of processes, any bursts, arrivals and quanta that the types of the code hold,
and any failures of memory. The invariant `SInv`, from which all but the last follow, has these parts.

- `PInv` (`TypeInv`, `LoadInv`, `EndInv`): what has been read is what the file said, in its order; no scheduler
  is reached, and 0 not returned, unless the file was whole; an array that has been freed is not there.
  `CodeInv` adds to it that a scheduler that returned has run all, and one that refused has not, so that the exit code tells.
- `QueuesInv`: while a scheduler runs, the elements of its queues have distinct numbers, which are those of the
  processes that have not ended, and the clock shows the sum of what they have run so far.
- `RoomInv`: the queues together hold no more than there are processes, and round_robin's ready queue
  has room for as many. So no `dyn_array_push_back` of `round_robin` has to grow, and that it ignores
  their results (191) loses nobody. `IsDoubled` is where this starts: the array is created for as many as there are.
- `SliceInv`, `TurnsInv`: a slice is not used up, and does not outlast its burst; and how long the process at
  position k has waited, together with a slice for each in front of it, is at most a slice for each other process.
  `NoStarvation` alone is not inductive, since it does not say that who has waited long is near the front.
- `SumsInv`: as long as no burst wraps and the total fits (`Exact`), the turnaround is the sum over those that
  have ended and the waiting time has had the bursts taken away of exactly those that have begun.

Each scheduler's step is brought to one of two forms, `Progress(e, n, ends)`, in which the process e runs for n ticks,
or `Adds`, what it adds to the results; the rest is proved once for these. Sums are those of the folds of
the community modules; the facts about them that the proof needs (`SumOf` of a function changed in one place, by a
difference) are proved from the definition of the fold by counting up. `StatisticsRight` supposes that the bursts add up to less than
2^31: from there on the total does not fit the `int` in which the turnaround is kept.

`ShortestIsLeast` compares what SRTF and SJF do with every schedule there is. `Best`, the least sum of exit times, is
a table by how many ticks are left and what each process has left; `TableExists`, `TableIs` and `TableIsLeast` say
that there is such a table, and what its entries are. The argument is one of exchange:

- `Alike`: two processes that have arrived may change places; what is left can be done equally well.
- `ShorterIsBetter`: if i has no more left than j, what is left can be done as well or better with one tick
  moved from i to j, and better by what the end of i is worth if that was its last. By counting up the ticks that
  are left.
- `ShortestIsBest`: so whom `find_shortest_burst` takes is the best to run now, and `RunToItsEnd`: if all have arrived,
  the best to run to its end.
- `BestInv` carries this through a run: what has not arrived has not run (`FreshInv`), there was always somebody to
  run so far (`BusyInv`, without which `Best` is the least of no schedules), and the exit times so far and the best
  that can be made of what is left add up to `Best` (`OptimumInv`). When nothing is left the sum is `Best`.

The theorem supposes that the bursts of SRTF add up to at most 2^32, since `find_shortest_burst` takes the clock as
`uint32_t`: a clock that wraps is before every arrival again, and processes that are there are passed over. For SJF it
supposes that all arrive at 0, as a scheduler that does not preempt can be beaten otherwise.

**BitmapProofs**: `SetSetsOneBit`, `ResetResetsOneBit`, `InvertIsComplement`, `FfzFindsFirstZero` and
`TotalSetCountsBits`, laws that `store` evaluates on small bitmaps, for every size of byte, place and number
of bits. The argument is that a bit's number and its place (byte and bit in it) determine each other
(`Division`, `BitIsPlace`, `OtherPlace`), so that a change of one place is a change of one bit; for the
count, that places of bits that are set and bits that are set are paired by it (`BitsAre`).

The lemmas at its end are about the map of a block store and relate the two views of its memory. The bytes of
the map lie in its blocks (`MapByte`), so setting or resetting a bit changes no block of data (`SetKeeps`,
`ResetKeeps`), and writing a block of data sets that block and changes no bit of the map (`WriteKeeps`).

**BlockStoreProofs**: `MapStaysMarked`, that is `MapNeverFree`: a request or an allocation only sets bits, a
release is of another block and so of another bit, and a write of a block that is in use and is not of the
map changes no byte of the map. Callers' keeping off the map (`b \notin FbmBlocks`) is a guard of the model
and the theorem depends on it. `StoreImplementsPool` is the refinement: `RInv` adds to the invariant that a
file without an image looks like an empty one (`ImageInv`); `StepRefines` then takes each action to one of
`BlockPool`, with `Counts` for what the counting functions return.

**BlockDeviceProofs**: `DeviceImplementsPool`, the same refinement of the mapped device, where the image is the
memory itself, through deaths and for all numbers callers use. Two kinds of steps are exempt, by name: those of an
import or with a store that came from one (`InImport`), since an import loses what it should bring back (`device_import`),
and calls with the number of the first map block (`AtEdge`). Every other step is one of the pool, also after
those. The invariant says that a process has the device open only when it is whole; `FreshIsEmpty` says why
the guard byte does no harm, which is that the last byte holds no bit of a block of data.

**DynArrayProofs**: `StaysWithinBuffer` and `NoneLostOrDoubled`, that is `[]WithinBuffer` and
`[]EachElementOnce`. The elements of the array are pairwise distinct and those in it have not left it; sorting
keeps this because an enumeration of distinct elements by positions is one to one (`FS_Injection`).
`ArrayImplementsList` is the refinement of `List`, for any elements, capacities and failures of `realloc`. The
array is read as the sequence `Contents`; a shift is then that sequence with elements put in (`PutIn`) or taken out
(`TakenOut`), shown position by position, and a sort is the sequence in the order of a bijection of its positions.
`SortedInsertKeepsOrder` is `SortedStaysSorted`: a call of `dyn_array_insert_sorted` on an array that is sorted leaves it
sorted. The insertion goes before the first greater element, so what is before it is not greater, and what
is behind it is greater because the rest is in order (`SortedInsertSteps`, `AfterInsert`).

**Only model-checked:** liveness under fairness (`WriteEnds`, `CreateReturns`, `Returns`), which is out of the prover's
reach. Every other property of a passing run is a theorem.

## 5. Not modelled

Failing `malloc` in the stores (one call is checked, the other is not), failing system calls of a5's
`block_store_create` (after them an import uses what a NULL store points to, block_store.c:250-253) and in the copies that `fs_create`
makes of paths, reading and writing through NULL arguments, `priority` (returns false),
`dyn_array_for_each`, what the program of a3 prints, the exercises of a2, and everything `FS.h` declares
without a definition. `fs_format` is the initial state of the file system modules: its steps are one
after the other on a device nobody uses yet. Indices near `SIZE_MAX` are not passed to the dynamic array, and
the blocks of the map are not released or written in a4's store: in both cases every outcome is then
possible. What `block_store_serialize` of a5 writes behind the blocks (the bitmap object and the heap) is
left out.

## 6. Plan

Done: the modules above, their runs, the composition, and the theorems of section 4. What would come next:

1. `fs_format` as steps that may die, and `fs_mount` of what it leaves.
2. Wrap-around in `dyn_shift_remove` with sizes modulo a small word.
