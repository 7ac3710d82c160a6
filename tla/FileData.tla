------------------------------ MODULE FileData ------------------------------
(***************************************************************************)
(* The data path of the file system in a5_file_system_nwewnh/src/FS.c:     *)
(* fs_open, fs_close, fs_seek, fs_read and fs_write over the block device, *)
(* its free-block map and the inode table, with fs_unmount, fs_mount and   *)
(* the death of the process at any step of a write.                        *)
(*                                                                         *)
(* The device is a file mapped MAP_SHARED (block_store.c:58), so what the  *)
(* process stored survives it; the descriptor table is calloc'ed           *)
(* (block_store.c:354-364) and does not.  The library has no threads: only *)
(* fs_write changes the device, and its device accesses are the steps      *)
(* between which the process may die.  The other calls are one step.       *)
(*                                                                         *)
(* Unit of data: a cell is two bytes, the size of a block pointer, so a    *)
(* block of BlockSize cells holds BlockSize words of data or BlockSize     *)
(* pointers (512 of each in consts.h).  Offsets and sizes count cells.     *)
(* Path lookup and fs_create are in FSNamespace; here the files exist.     *)
(***************************************************************************)
EXTENDS Integers, Sequences, FiniteSets

CONSTANTS
    Inodes,        \* the inode numbers of the regular files
    NumFds,        \* NUM_FDS
    NumBlocks,     \* BLOCK_STORE_AVAIL_BLOCKS
    TakenSizes,    \* how many blocks others have taken when the files are made
    MaxTaken,      \* bound: how many they may hold later
    BlockSize,     \* BLOCK_SIZE_BYTES / 2 = BLOCK_PTRS_PER_BLOCK
    NumDirect,     \* FD_DIRECT_N_PTRS
    Data,          \* what a cell of user data can hold
    Buffers,       \* the source buffers callers pass to fs_write
    ReadSizes,     \* the sizes callers pass to fs_read
    SeekOffsets,   \* the offsets callers pass to fs_seek
    MaxWrites      \* bound: how many fs_write calls a behaviour has

IndirectStart == NumDirect
DoubleStart   == NumDirect + BlockSize
MaxPtrs       == DoubleStart + BlockSize * BlockSize

ASSUME ShapeAssumption ==
    /\ NumFds \in Nat \ {0}
    /\ NumBlocks \in Nat \ {0}
    /\ TakenSizes \subseteq 1 .. NumBlocks
    /\ MaxTaken \in Nat
    /\ BlockSize \in Nat \ {0}
    /\ NumDirect \in Nat \ {0}
    /\ Inodes \subseteq Nat \ {0}

ASSUME InputAssumption ==
    /\ Buffers \subseteq Seq(Data)
    /\ ReadSizes \subseteq Nat
    /\ SeekOffsets \subseteq Int
    /\ MaxWrites \in Nat

\* The device cannot fill a file: 65511 blocks against 262662 pointers (and
\* 514 pointer blocks).  The branches for a full file are therefore dead.
ASSUME CapacityAssumption ==
    \A t \in TakenSizes : NumBlocks - t < MaxPtrs + 2 + BlockSize

Blocks == 0 .. NumBlocks - 1
Fds    == 0 .. NumFds - 1
Slots  == 0 .. BlockSize - 1
Cells  == Data \cup Blocks
NONE   == -1
RootInum == 0
Usages == {"direct", "indirect", "double"}

Inode == [size : Nat, direct : [0 .. NumDirect - 1 -> Blocks],
          ind : Blocks, dbl : Blocks]
Fd    == [inum : Inodes \cup {RootInum}, usage : Usages, order : Nat, off : Slots]

VARIABLES
    fbm,      \* the free-block map: the set of blocks in use
    mem,      \* the contents of the blocks
    inodes,   \* the inode table on the device
    fd_used,  \* the bitmap of the descriptor table
    fd_tab,   \* the records of the descriptor table
    mounted,  \* whether a process has the device mounted
    call,     \* the locals of the fs_write call that is running
    res,      \* what the last call returned
    taken,    \* ghost: the blocks in use by other than regular files
    writes    \* ghost: how many fs_write calls there were, for MaxWrites

device == <<fbm, mem, inodes>>
table  == <<fd_used, fd_tab>>
vars   == <<fbm, mem, inodes, fd_used, fd_tab, mounted, call, res, taken, writes>>

-----------------------------------------------------------------------------
(* Cursors: (usage, order, off) against an offset from the start of file.  *)

CeilDiv(n) == (n + BlockSize - 1) \div BlockSize
MinOf(m, n) == IF m <= n THEN m ELSE n
MaxOf(m, n) == IF m >= n THEN m ELSE n

FirstIndex(usage) ==
    CASE usage = "direct"   -> 0
      [] usage = "indirect" -> IndirectStart
      [] usage = "double"   -> DoubleStart

fd_cursor_get_block_index(fd) == FirstIndex(fd.usage) + fd.order

fd_cursor_get(fd) == fd_cursor_get_block_index(fd) * BlockSize + fd.off

UsageOf(offset) ==
    IF offset < IndirectStart * BlockSize THEN "direct"
    ELSE IF offset < DoubleStart * BlockSize THEN "indirect"
    ELSE "double"

\* Mutant: the switch enters at the double indirect case for both.
fd_cursor_set_falls(fd, offset) ==
    [fd EXCEPT !.usage = UsageOf(offset),
               !.order = offset \div BlockSize -
                           (IF UsageOf(offset) = "direct" THEN 0 ELSE DoubleStart),
               !.off   = offset % BlockSize]

fd_cursor_set(fd, offset) ==
    [fd EXCEPT !.usage = UsageOf(offset),
               !.order = offset \div BlockSize - FirstIndex(UsageOf(offset)),
               !.off   = offset % BlockSize]

cursor_in_owned_block(inode, fd) ==
    fd_cursor_get_block_index(fd) < CeilDiv(inode.size)

clamped_add(a, b, lo, hi) ==
    IF a + b < lo THEN lo ELSE IF a + b > hi THEN hi ELSE a + b

\* Mutant: the two levels of the double indirect tree are swapped.
FdBlock_swapped(inode, fd) ==
    CASE fd.usage = "direct"   -> inode.direct[fd.order]
      [] fd.usage = "indirect" -> mem[inode.ind][fd.order]
      [] fd.usage = "double"   ->
            mem[mem[inode.dbl][fd.order % BlockSize]][fd.order \div BlockSize]

\* The block the cursor points in, as _fd_data_block_read/_write find it.
FdBlock(inode, fd) ==
    CASE fd.usage = "direct"   -> inode.direct[fd.order]
      [] fd.usage = "indirect" -> mem[inode.ind][fd.order]
      [] fd.usage = "double"   ->
            mem[mem[inode.dbl][fd.order \div BlockSize]][fd.order % BlockSize]

\* block_store_allocate and block_store_sub_allocate: the first zero bit.
IsFirstFree(b, used, all) ==
    /\ b \in all \ used
    /\ \A c \in all \ used : b <= c

\* Mutant: the block is not marked in use.
block_store_allocate_unmarked(b) ==
    /\ IsFirstFree(b, fbm, Blocks)
    /\ UNCHANGED fbm

\* b is the block that block_store_allocate returns.
block_store_allocate(b) ==
    /\ IsFirstFree(b, fbm, Blocks)
    /\ fbm' = fbm \cup {b}

-----------------------------------------------------------------------------
ZeroFd == [inum |-> RootInum, usage |-> "direct", order |-> 0, off |-> 0]

NewInode == [size |-> 0, direct |-> [k \in 0 .. NumDirect - 1 |-> 0],
             ind |-> 0, dbl |-> 0]

Idle == [pc |-> "idle", fd |-> 0, lfd |-> ZeroFd, ino |-> NewInode,
         buf |-> <<>>, done |-> 0, cursor |-> 0, nptrs |-> 0,
         new_ptr |-> NONE, new_ind |-> NONE, new_db |-> NONE]

Result(n, data) == [n |-> n, data |-> data]
NoResult == Result(0, <<>>)
Error    == Result(-1, <<>>)

\* A formatted device on which fs_create has made the files, just mounted.
Init ==
    /\ \E t \in TakenSizes : taken = 0 .. t - 1
    /\ fbm = taken
    /\ mem = [b \in Blocks |-> [k \in Slots |-> 0]]
    /\ inodes = [i \in Inodes |-> NewInode]
    /\ fd_used = {}
    /\ fd_tab = [d \in Fds |-> ZeroFd]
    /\ mounted = TRUE
    /\ call = Idle
    /\ res = NoResult
    /\ writes = 0

Ready == mounted /\ call.pc = "idle"

-----------------------------------------------------------------------------
(* The calls that are one step.                                            *)

fs_open(i) ==
    /\ Ready
    /\ \/ \E d \in Fds :
            /\ IsFirstFree(d, fd_used, Fds)
            /\ fd_used' = fd_used \cup {d}
            /\ fd_tab' = [fd_tab EXCEPT ![d] = [ZeroFd EXCEPT !.inum = i]]
            /\ res' = Result(d, <<>>)
       \/ /\ Fds \subseteq fd_used
          /\ res' = Error
          /\ UNCHANGED table
    /\ UNCHANGED <<device, mounted, call, taken, writes>>

fs_close(d) ==
    /\ Ready
    /\ d \in fd_used
    /\ fd_used' = fd_used \ {d}
    /\ res' = Result(0, <<>>)
    /\ UNCHANGED <<device, fd_tab, mounted, call, taken, writes>>

SeekBase(d, whence) ==
    CASE whence = "set" -> 0
      [] whence = "cur" -> fd_cursor_get(fd_tab[d])
      [] whence = "end" -> inodes[fd_tab[d].inum].size

fs_seek(d, offset, whence) ==
    /\ Ready
    /\ d \in fd_used
    /\ LET size == inodes[fd_tab[d].inum].size
           new  == clamped_add(SeekBase(d, whence), offset, 0, size)
       IN  /\ fd_tab' = [fd_tab EXCEPT ![d] = fd_cursor_set(@, new)]
           /\ res' = Result(new, <<>>)
    /\ UNCHANGED <<device, fd_used, mounted, call, taken, writes>>

\* The cell at offset pos, found the way the read loop finds its block.
ReadCell(inode, fd, pos) ==
    mem[FdBlock(inode, fd_cursor_set(fd, pos))][pos % BlockSize]

fs_read(d, nbyte) ==
    /\ Ready
    /\ d \in fd_used
    /\ LET fd     == fd_tab[d]
           inode  == inodes[fd.inum]
           cursor == fd_cursor_get(fd)
           n      == MinOf(nbyte, inode.size - cursor)
       IN  IF cursor >= inode.size
           THEN /\ res' = Result(0, <<>>)
                /\ UNCHANGED fd_tab
           ELSE /\ res' = Result(n, [k \in 1 .. n |->
                                       ReadCell(inode, fd, cursor + k - 1)])
                /\ fd_tab' = [fd_tab EXCEPT ![d] = fd_cursor_set(@, cursor + n)]
    /\ UNCHANGED <<device, fd_used, mounted, call, taken, writes>>

\* fs_close, fs_seek, fs_read or fs_write of a descriptor that is not open.
BadDescriptor(d) ==
    /\ Ready
    /\ d \notin fd_used
    /\ res' = Error
    /\ UNCHANGED <<device, table, mounted, call, taken, writes>>

\* fs_create, seen from here, takes a block for the entries of a directory
\* and gives it back when it fails; what fs_format took stays.
directory_takes_block ==
    /\ Ready
    /\ Cardinality(taken) < MaxTaken
    /\ \E b \in Blocks : block_store_allocate(b) /\ taken' = taken \cup {b}
    /\ UNCHANGED <<mem, inodes, table, mounted, call, res, writes>>

directory_gives_back ==
    /\ Ready
    /\ \E b \in taken :
         /\ \A t \in TakenSizes : t <= b
         /\ fbm' = fbm \ {b} /\ taken' = taken \ {b}
    /\ UNCHANGED <<mem, inodes, table, mounted, call, res, writes>>

-----------------------------------------------------------------------------
(* fs_write.                                                               *)

\* Mutant: the division rounds down.
max_new_ptrs_floor(nbyte) == nbyte \div BlockSize

\* The slots of new_ptrs, where fs_write keeps the blocks it adds.
max_new_ptrs(nbyte) == CeilDiv(nbyte)

fs_write(d, buf) ==
    /\ Ready
    /\ d \in fd_used
    /\ call' = [Idle EXCEPT !.pc = "loop", !.fd = d, !.lfd = fd_tab[d],
                            !.ino = inodes[fd_tab[d].inum], !.buf = buf,
                            !.cursor = fd_cursor_get(fd_tab[d])]
    /\ res' = NoResult
    /\ writes < MaxWrites /\ writes' = writes + 1
    /\ UNCHANGED <<device, table, mounted, taken>>

At(pc) == mounted /\ call.pc = pc
NeedsBlock == ~cursor_in_owned_block(call.ino, call.lfd)
StoreInode(inode) == inodes' = [inodes EXCEPT ![call.lfd.inum] = inode]
Poke(b, k, ptr) == mem' = [mem EXCEPT ![b] = [@ EXCEPT ![k] = ptr]]
InCall == UNCHANGED <<table, mounted, res, taken, writes>>

\* The index of the pointer that _inode_add_owned_block sets, and its place
\* in the double indirect tree.
NewIndex == CeilDiv(call.ino.size)
Outer    == (NewIndex - DoubleStart) \div BlockSize
Inner    == (NewIndex - DoubleStart) % BlockSize

\* _inode_add_owned_block allocates the data block (FS.c:476).
AllocData ==
    /\ At("loop")
    /\ call.done < Len(call.buf)
    /\ NeedsBlock
    /\ \E b \in Blocks :
         /\ block_store_allocate(b)
         /\ call' = [call EXCEPT !.pc = "link", !.new_ptr = b]
    /\ UNCHANGED <<mem, inodes>>
    /\ InCall

\* Mutant: the last block is never handed out.
DeviceFull_early ==
    /\ At("loop")
    /\ call.done < Len(call.buf)
    /\ NeedsBlock
    /\ Cardinality(Blocks \ fbm) <= 1
    /\ call' = [call EXCEPT !.pc = "finish"]
    /\ UNCHANGED device
    /\ InCall

\* Mutant: the loop goes on instead of stopping.
DeviceFull_retries ==
    /\ At("loop")
    /\ call.done < Len(call.buf)
    /\ NeedsBlock
    /\ Blocks \subseteq fbm
    /\ UNCHANGED <<call, device>>
    /\ InCall

\* ... and finds the device full: fs_write leaves its loop (FS.c:1102-1105).
DeviceFull ==
    /\ At("loop")
    /\ call.done < Len(call.buf)
    /\ NeedsBlock
    /\ Blocks \subseteq fbm
    /\ call' = [call EXCEPT !.pc = "finish"]
    /\ UNCHANGED device
    /\ InCall

\* The last store of _inode_add_owned_block: it returns the block number,
\* which fs_write puts into *new_ptrs_it++ (FS.c:1102-1106).
Added(inode) == [call EXCEPT !.pc = "chunk", !.ino = inode, !.nptrs = @ + 1,
                             !.new_ptr = NONE, !.new_ind = NONE, !.new_db = NONE]

LinkDirect ==
    /\ At("link")
    /\ NewIndex < IndirectStart
    /\ LET inode == [call.ino EXCEPT !.direct[NewIndex] = call.new_ptr]
       IN  /\ StoreInode(inode)
           /\ call' = Added(inode)
    /\ UNCHANGED <<fbm, mem>>
    /\ InCall

\* The first pointer of a pointer block needs that block; when there is none
\* left, the call gives back what it took.
NoPointerBlock ==
    /\ Blocks \subseteq fbm
    /\ call' = [call EXCEPT !.pc = "undo"]
    /\ UNCHANGED fbm

AllocIndirect ==
    /\ At("link")
    /\ NewIndex = IndirectStart
    /\ \/ NoPointerBlock
       \/ \E b \in Blocks :
            /\ block_store_allocate(b)
            /\ call' = [call EXCEPT !.new_ind = b, !.pc = "indirect inode"]
    /\ UNCHANGED <<mem, inodes>>
    /\ InCall

StoreIndirect ==
    /\ At("indirect inode")
    /\ LET inode == [call.ino EXCEPT !.ind = call.new_ind]
       IN  /\ StoreInode(inode)
           /\ call' = [call EXCEPT !.pc = "indirect block", !.ino = inode]
    /\ UNCHANGED <<fbm, mem>>
    /\ InCall

LinkIndirect ==
    /\ \/ At("indirect block")
       \/ At("link") /\ IndirectStart < NewIndex /\ NewIndex < DoubleStart
    /\ Poke(call.ino.ind, NewIndex - IndirectStart, call.new_ptr)
    /\ call' = Added(call.ino)
    /\ UNCHANGED <<fbm, inodes>>
    /\ InCall

AllocDouble ==
    /\ At("link")
    /\ NewIndex = DoubleStart
    /\ \/ NoPointerBlock
       \/ \E b \in Blocks :
            /\ block_store_allocate(b)
            /\ call' = [call EXCEPT !.new_db = b, !.pc = "double inode"]
    /\ UNCHANGED <<mem, inodes>>
    /\ InCall

StoreDouble ==
    /\ At("double inode")
    /\ LET inode == [call.ino EXCEPT !.dbl = call.new_db]
       IN  /\ StoreInode(inode)
           /\ call' = [call EXCEPT !.pc = "double", !.ino = inode]
    /\ UNCHANGED <<fbm, mem>>
    /\ InCall

InDouble == At("double") \/ (At("link") /\ DoubleStart < NewIndex)

AllocInner ==
    /\ InDouble
    /\ Inner = 0
    /\ \/ NoPointerBlock
       \/ \E b \in Blocks :
            /\ block_store_allocate(b)
            /\ call' = [call EXCEPT !.new_ind = b, !.pc = "double block"]
    /\ UNCHANGED <<mem, inodes>>
    /\ InCall

StoreInner ==
    /\ At("double block")
    /\ Poke(call.ino.dbl, Outer, call.new_ind)
    /\ call' = [call EXCEPT !.pc = "inner block"]
    /\ UNCHANGED <<fbm, inodes>>
    /\ InCall

LinkInner ==
    /\ \/ At("inner block")
       \/ InDouble /\ Inner # 0
    /\ Poke(mem[call.ino.dbl][Outer], Inner, call.new_ptr)
    /\ call' = Added(call.ino)
    /\ UNCHANGED <<fbm, inodes>>
    /\ InCall

\* Mutant: the double indirect block is not given back.
Undo_keeps_double ==
    /\ At("undo")
    /\ fbm' = fbm \ {call.new_ptr}
    /\ call' = [call EXCEPT !.new_ptr = NONE, !.new_db = NONE, !.pc = "finish"]
    /\ UNCHANGED <<mem, inodes>>
    /\ InCall

\* Mutant: the number of the block to release is taken from the inode.
Undo_from_inode ==
    /\ At("undo")
    /\ fbm' = fbm \ {call.ino.ind}
    /\ call' = [call EXCEPT !.new_ptr = NONE, !.new_db = NONE, !.pc = "finish"]
    /\ UNCHANGED <<mem, inodes>>
    /\ InCall

\* The err2 path: release the double indirect block, then the data block.
Undo ==
    /\ At("undo")
    /\ IF call.new_db # NONE
       THEN /\ fbm' = fbm \ {call.new_db}
            /\ call' = [call EXCEPT !.new_db = NONE]
       ELSE /\ fbm' = fbm \ {call.new_ptr}
            /\ call' = [call EXCEPT !.new_ptr = NONE, !.pc = "finish"]
    /\ UNCHANGED <<mem, inodes>>
    /\ InCall

\* One turn of the loop writes up to the end of the block the cursor is in.
WriteChunk ==
    /\ \/ At("chunk")
       \/ At("loop") /\ call.done < Len(call.buf) /\ ~NeedsBlock
    /\ LET off == call.lfd.off
           n   == MinOf(Len(call.buf) - call.done, BlockSize - off)
           cur == call.cursor + n
           b   == FdBlock(call.ino, call.lfd)
       IN  /\ mem' = [mem EXCEPT ![b] = [k \in Slots |->
                        IF off <= k /\ k < off + n
                        THEN call.buf[call.done + (k - off) + 1] ELSE @[k]]]
           /\ call' = [call EXCEPT !.pc = "loop", !.done = @ + n,
                          !.cursor = cur, !.lfd = fd_cursor_set(@, cur),
                          !.ino.size = MaxOf(@, cur)]
    /\ UNCHANGED <<fbm, inodes>>
    /\ InCall

\* Mutant: the inode is not stored.
Finish_without_inode ==
    /\ \/ At("finish")
       \/ At("loop") /\ call.done = Len(call.buf)
    /\ fd_tab' = [fd_tab EXCEPT ![call.fd] = call.lfd]
    /\ call' = Idle
    /\ res' = Result(call.done, <<>>)
    /\ UNCHANGED <<fbm, mem, inodes, fd_used, mounted, taken, writes>>

Finish ==
    /\ \/ At("finish")
       \/ At("loop") /\ call.done = Len(call.buf)
    /\ fd_tab' = [fd_tab EXCEPT ![call.fd] = call.lfd]
    /\ StoreInode(call.ino)
    /\ call' = Idle
    /\ res' = Result(call.done, <<>>)
    /\ UNCHANGED <<fbm, mem, fd_used, mounted, taken, writes>>

-----------------------------------------------------------------------------
(* The process unmounts, dies in a call, mounts.                           *)

DropTable ==
    /\ mounted' = FALSE
    /\ fd_used' = {}
    /\ fd_tab' = [d \in Fds |-> ZeroFd]
    /\ res' = NoResult
    /\ UNCHANGED <<device, taken, writes>>

fs_unmount == Ready /\ DropTable /\ UNCHANGED call

Crash == mounted /\ call.pc # "idle" /\ DropTable /\ call' = Idle

fs_mount ==
    /\ ~mounted
    /\ mounted' = TRUE
    /\ UNCHANGED <<device, table, call, res, taken, writes>>

-----------------------------------------------------------------------------
DescriptorCall ==
    \E d \in Fds :
      \/ fs_close(d)
      \/ \E o \in SeekOffsets, w \in {"set", "cur", "end"} : fs_seek(d, o, w)
      \/ \E n \in ReadSizes : fs_read(d, n)
      \/ \E buf \in Buffers : fs_write(d, buf)
      \/ BadDescriptor(d)

CallStart == (\E i \in Inodes : fs_open(i)) \/ DescriptorCall

AddBlockStep ==
    \/ LinkDirect
    \/ AllocIndirect \/ StoreIndirect \/ LinkIndirect
    \/ AllocDouble \/ StoreDouble
    \/ AllocInner \/ StoreInner \/ LinkInner
    \/ Undo

WriteStep == AllocData \/ DeviceFull \/ AddBlockStep \/ WriteChunk \/ Finish

Next ==
    \/ CallStart \/ WriteStep \/ fs_unmount \/ Crash \/ fs_mount
    \/ directory_takes_block \/ directory_gives_back

\* A running fs_write keeps taking steps; nobody has to call, die or mount.
Fairness == WF_vars(WriteStep)

Spec == Init /\ [][Next]_vars /\ Fairness
-----------------------------------------------------------------------------
(* Correctness.                                                            *)

(* Every variable keeps its type; a running call is where fs_write can be. *)
PCs == {"idle", "loop", "link", "indirect inode", "indirect block",
        "double inode", "double", "double block", "inner block", "undo",
        "chunk", "finish"}

Call == [pc : PCs, fd : Fds, lfd : Fd, ino : Inode, buf : Seq(Data),
         done : Nat, cursor : Nat, nptrs : Nat, new_ptr : Blocks \cup {NONE},
         new_ind : Blocks \cup {NONE}, new_db : Blocks \cup {NONE}]

TypeOK ==
    /\ fbm \subseteq Blocks
    /\ mem \in [Blocks -> [Slots -> Cells]]
    /\ inodes \in [Inodes -> Inode]
    /\ fd_used \subseteq Fds
    /\ fd_tab \in [Fds -> Fd]
    /\ mounted \in BOOLEAN
    /\ call \in Call
    /\ taken \subseteq Blocks /\ writes \in Nat
    /\ res.n \in Nat \cup {-1}

\* The pointers of a file as a table: data block k, wherever it is kept.
DataBlock(inode, k) ==
    IF k < IndirectStart THEN inode.direct[k]
    ELSE IF k < DoubleStart THEN mem[inode.ind][k - IndirectStart]
    ELSE mem[mem[inode.dbl][(k - DoubleStart) \div BlockSize]]
            [(k - DoubleStart) % BlockSize]

\* The parts a file of n data blocks is made of, and the block of each part.
Parts(n) ==
    {<<"data", k>> : k \in 0 .. n - 1}
    \cup {<<"indirect", 0>> : k \in IndirectStart .. n - 1}
    \cup {<<"double", 0>> : k \in DoubleStart .. n - 1}
    \cup {<<"inner", (k - DoubleStart) \div BlockSize>> : k \in DoubleStart .. n - 1}

PartBlock(inode, p) ==
    CASE p[1] = "data"     -> DataBlock(inode, p[2])
      [] p[1] = "indirect" -> inode.ind
      [] p[1] = "double"   -> inode.dbl
      [] p[1] = "inner"    -> mem[inode.dbl][p[2]]

Owned(inode, n) == {PartBlock(inode, p) : p \in Parts(n)}

\* The file as the running call sees it: its inode is ahead of the stored
\* one, and a block just linked is not yet covered by its size.
Running(i)   == call.pc # "idle" /\ call.lfd.inum = i
LiveInode(i) == IF Running(i) THEN call.ino ELSE inodes[i]
LiveBlocks(i) ==
    CeilDiv(LiveInode(i).size) + IF Running(i) /\ call.pc = "chunk" THEN 1 ELSE 0

Fresh == {call.new_ptr, call.new_ind, call.new_db} \ {NONE}

(* No cursor passes the end of its file, not even one whose file another   *)
(* descriptor is writing: fs_write sizes new_ptrs by nbyte alone and       *)
(* _inode_add_owned_block appends at file_size, so a cursor past the end   *)
(* would overrun the one and make the other append in the wrong place.     *)
CursorInFile ==
    /\ \A d \in fd_used :
         fd_cursor_get(fd_tab[d]) <= inodes[fd_tab[d].inum].size
    /\ call.pc # "idle" =>
         /\ call.cursor = fd_cursor_get(call.lfd)
         /\ call.cursor <= call.ino.size
         /\ inodes[call.lfd.inum].size <= call.ino.size

(* new_ptrs has a slot for every block one fs_write adds (FS.c:1091-1106). *)
NewPtrsInBounds == call.nptrs <= max_new_ptrs(Len(call.buf))

(* No block serves two purposes: the data, indirect, double indirect and   *)
(* inner blocks of all files, and those a running call holds, are distinct.*)
NoSharedBlock ==
    /\ \A i, j \in Inodes : \A p \in Parts(LiveBlocks(i)), q \in Parts(LiveBlocks(j)) :
         PartBlock(LiveInode(i), p) = PartBlock(LiveInode(j), q) => i = j /\ p = q
    /\ \A i \in Inodes : Owned(LiveInode(i), LiveBlocks(i)) \cap Fresh = {}

(* Whatever a process that dies now leaves on the device is usable: what   *)
(* the stored inodes reach is marked in use, is no reserved block, and no  *)
(* two files share it.                                                     *)
StoredOwned(i) == Owned(inodes[i], CeilDiv(inodes[i].size))

DeviceSound ==
    /\ \A i \in Inodes : StoredOwned(i) \subseteq fbm \ taken
    /\ \A i, j \in Inodes : i # j => StoredOwned(i) \cap StoredOwned(j) = {}

(* Blocks that are marked in use and belong to nothing come only from the  *)
(* death of the process inside fs_write: running out of space on any path  *)
(* of _inode_add_owned_block gives back all it had taken.                  *)
Leaked == fbm \ (taken \cup Fresh
                  \cup UNION {Owned(LiveInode(i), LiveBlocks(i)) : i \in Inodes})

OnlyDeathLeaks == [][Leaked' \subseteq Leaked \/ (call.pc # "idle" /\ ~mounted')]_vars

(* fs_write falls short of nbyte only if the device cannot hold the next   *)
(* block of the file with the pointer blocks that it needs.                *)
BlocksNeeded(index) == Cardinality(Parts(index + 1) \ Parts(index))

ShortOnlyWhenFull ==
    At("finish") => Cardinality(Blocks \ fbm) < BlocksNeeded(CeilDiv(call.ino.size))

(* A call of fs_write returns, unless the process dies in it.              *)
WriteEnds == call.pc # "idle" ~> call.pc = "idle"

(* The device implements files that are plain sequences of cells.          *)
Content(inode) == [k \in 1 .. inode.size |->
    mem[DataBlock(inode, (k - 1) \div BlockSize)][(k - 1) % BlockSize]]

FileContents == [i \in Inodes |-> Content(inodes[i])]

OpenCursors == [d \in Fds |->
    IF d \in fd_used
    THEN [file |-> fd_tab[d].inum, pos |-> fd_cursor_get(fd_tab[d])]
    ELSE [file |-> 0, pos |-> -1]]

RunningWrite ==
    IF call.pc = "idle" THEN [fd |-> 0, buf |-> <<>>, done |-> -1]
    ELSE [fd |-> call.fd, buf |-> call.buf, done |-> call.done]

Files == INSTANCE FileStore WITH
    content <- FileContents, cursor <- OpenCursors, writing <- RunningWrite

ImplementsFileStore == Files!Spec
=============================================================================
