-------------------------- MODULE FileSystemProofs --------------------------
(***************************************************************************)
(* Proofs about FileSystem: the name space and the files, which each know  *)
(* the other only as something that takes and gives back blocks, are this  *)
(* to one another when they run on one device, for any sizes, paths,       *)
(* buffers and deaths.  So what is proved of each holds of the library.    *)
(*                                                                         *)
(* The argument: FSInv joins the invariants of both parts with LinkInv,    *)
(* what they know of one another.  Under it every step of the library is a *)
(* step of the name space (or none) and a step of the files (or none), and *)
(* the proofs about each part then give its invariant in the next state.   *)
(***************************************************************************)
EXTENDS FileSystem, FSNamespaceProofs

\* What FileDataBlockProofs proves, of the files of this system.
Files == INSTANCE FileDataProofs WITH
    Inodes <- FileInums, TakenSizes <- {NumReserved}, MaxTaken <- NumBlocks,
    inodes <- file_inodes, call <- write, res <- fd_res

-----------------------------------------------------------------------------
(* FileData's assumptions and its steps, seen from here.                   *)

\* What FileData assumes of its constants holds of those it is given here.
LEMMA Assumptions ==
    Files!ShapeAssumption /\ Files!InputAssumption /\ Files!CapacityAssumption
  <1>1. FD!MaxPtrs = Files!MaxPtrs
    BY DEF FD!MaxPtrs, FD!DoubleStart, Files!MaxPtrs, Files!DoubleStart
  <1>2. Files!ShapeAssumption
    BY ShapeAssumption, DataAssumption DEF Files!ShapeAssumption, FileInums, Inums, Root
  <1>3. Files!InputAssumption
    BY DataAssumption DEF Files!InputAssumption
  <1>4. Files!CapacityAssumption
    BY <1>1, DataAssumption DEF Files!CapacityAssumption
  <1> QED BY <1>2, <1>3, <1>4

\* FD and Files are one module with the same parameters.  That each definition
\* of the one is that of the other, its expansion shows.
LEMMA SameInit == FD!Init <=> Files!Init
  BY DEF FD!Init, FD!Blocks, FD!Slots, FD!NewInode, FD!ZeroFd, FD!Fds, FD!Idle, FD!NoResult,
         FD!Result, FD!RootInum, FD!NONE,
         Files!Init, Files!Blocks, Files!Slots, Files!NewInode, Files!ZeroFd, Files!Fds,
         Files!Idle, Files!NoResult, Files!Result, Files!RootInum, Files!NONE

LEMMA SameCallStart == FD!CallStart <=> Files!CallStart
  BY DEF
       FD!IndirectStart, FD!DoubleStart, FD!Fds, FD!NONE, FD!RootInum,
       FD!device, FD!table, FD!MinOf, FD!FirstIndex,
       FD!fd_cursor_get_block_index, FD!fd_cursor_get, FD!UsageOf,
       FD!fd_cursor_set, FD!clamped_add, FD!FdBlock, FD!IsFirstFree,
       FD!ZeroFd, FD!NewInode, FD!Idle, FD!Result, FD!NoResult, FD!Error,
       FD!Ready, FD!fs_open, FD!fs_close, FD!SeekBase, FD!fs_seek,
       FD!ReadCell, FD!fs_read, FD!BadDescriptor, FD!fs_write,
       FD!DescriptorCall, FD!CallStart, Files!IndirectStart,
       Files!DoubleStart, Files!Fds, Files!NONE, Files!RootInum, Files!device,
       Files!table, Files!MinOf, Files!FirstIndex,
       Files!fd_cursor_get_block_index, Files!fd_cursor_get, Files!UsageOf,
       Files!fd_cursor_set, Files!clamped_add, Files!FdBlock,
       Files!IsFirstFree, Files!ZeroFd, Files!NewInode, Files!Idle,
       Files!Result, Files!NoResult, Files!Error, Files!Ready, Files!fs_open,
       Files!fs_close, Files!SeekBase, Files!fs_seek, Files!ReadCell,
       Files!fs_read, Files!BadDescriptor, Files!fs_write,
       Files!DescriptorCall, Files!CallStart

LEMMA SameAddBlockStep == FD!AddBlockStep <=> Files!AddBlockStep
  BY DEF
       FD!IndirectStart, FD!DoubleStart, FD!Blocks, FD!NONE, FD!table,
       FD!CeilDiv, FD!IsFirstFree, FD!block_store_allocate, FD!At,
       FD!StoreInode, FD!Poke, FD!InCall, FD!NewIndex, FD!Outer, FD!Inner,
       FD!Added, FD!LinkDirect, FD!NoPointerBlock, FD!AllocIndirect,
       FD!StoreIndirect, FD!LinkIndirect, FD!AllocDouble, FD!StoreDouble,
       FD!InDouble, FD!AllocInner, FD!StoreInner, FD!LinkInner, FD!Undo,
       FD!AddBlockStep, Files!IndirectStart, Files!DoubleStart, Files!Blocks,
       Files!NONE, Files!table, Files!CeilDiv, Files!IsFirstFree,
       Files!block_store_allocate, Files!At, Files!StoreInode, Files!Poke,
       Files!InCall, Files!NewIndex, Files!Outer, Files!Inner, Files!Added,
       Files!LinkDirect, Files!NoPointerBlock, Files!AllocIndirect,
       Files!StoreIndirect, Files!LinkIndirect, Files!AllocDouble,
       Files!StoreDouble, Files!InDouble, Files!AllocInner, Files!StoreInner,
       Files!LinkInner, Files!Undo, Files!AddBlockStep

LEMMA SameWriteStep == FD!WriteStep <=> Files!WriteStep
  BY DEF
       FD!IndirectStart, FD!DoubleStart, FD!Blocks, FD!Slots, FD!NONE,
       FD!RootInum, FD!device, FD!table, FD!CeilDiv, FD!MinOf, FD!MaxOf,
       FD!FirstIndex, FD!fd_cursor_get_block_index, FD!UsageOf,
       FD!fd_cursor_set, FD!cursor_in_owned_block, FD!FdBlock, FD!IsFirstFree,
       FD!block_store_allocate, FD!ZeroFd, FD!NewInode, FD!Idle, FD!Result,
       FD!At, FD!NeedsBlock, FD!StoreInode, FD!Poke, FD!InCall, FD!NewIndex,
       FD!Outer, FD!Inner, FD!AllocData, FD!DeviceFull, FD!Added,
       FD!LinkDirect, FD!NoPointerBlock, FD!AllocIndirect, FD!StoreIndirect,
       FD!LinkIndirect, FD!AllocDouble, FD!StoreDouble, FD!InDouble,
       FD!AllocInner, FD!StoreInner, FD!LinkInner, FD!Undo, FD!WriteChunk,
       FD!Finish, FD!AddBlockStep, FD!WriteStep, Files!IndirectStart,
       Files!DoubleStart, Files!Blocks, Files!Slots, Files!NONE,
       Files!RootInum, Files!device, Files!table, Files!CeilDiv, Files!MinOf,
       Files!MaxOf, Files!FirstIndex, Files!fd_cursor_get_block_index,
       Files!UsageOf, Files!fd_cursor_set, Files!cursor_in_owned_block,
       Files!FdBlock, Files!IsFirstFree, Files!block_store_allocate,
       Files!ZeroFd, Files!NewInode, Files!Idle, Files!Result, Files!At,
       Files!NeedsBlock, Files!StoreInode, Files!Poke, Files!InCall,
       Files!NewIndex, Files!Outer, Files!Inner, Files!AllocData,
       Files!DeviceFull, Files!Added, Files!LinkDirect, Files!NoPointerBlock,
       Files!AllocIndirect, Files!StoreIndirect, Files!LinkIndirect,
       Files!AllocDouble, Files!StoreDouble, Files!InDouble, Files!AllocInner,
       Files!StoreInner, Files!LinkInner, Files!Undo, Files!WriteChunk,
       Files!Finish, Files!AddBlockStep, Files!WriteStep

LEMMA SameUnmount == FD!fs_unmount <=> Files!fs_unmount
  BY DEF
       FD!Fds, FD!RootInum, FD!device, FD!ZeroFd, FD!Result, FD!NoResult,
       FD!Ready, FD!DropTable, FD!fs_unmount, Files!Fds, Files!RootInum,
       Files!device, Files!ZeroFd, Files!Result, Files!NoResult, Files!Ready,
       Files!DropTable, Files!fs_unmount

LEMMA SameCrash == FD!Crash <=> Files!Crash
  BY DEF
       FD!Fds, FD!NONE, FD!RootInum, FD!device, FD!ZeroFd, FD!NewInode,
       FD!Idle, FD!Result, FD!NoResult, FD!DropTable, FD!Crash, Files!Fds,
       Files!NONE, Files!RootInum, Files!device, Files!ZeroFd, Files!NewInode,
       Files!Idle, Files!Result, Files!NoResult, Files!DropTable, Files!Crash

LEMMA SameMount == FD!fs_mount <=> Files!fs_mount
  BY DEF
       FD!device, FD!table, FD!fs_mount, Files!device, Files!table,
       Files!fs_mount

LEMMA SameCardinality ==
  ASSUME NEW S
  PROVE  FD!Cardinality(S) = Cardinality(S) /\ Files!Cardinality(S) = Cardinality(S)
  BY DEF FD!Cardinality, Files!Cardinality, Cardinality

LEMMA SameTakes == FD!directory_takes_block <=> Files!directory_takes_block
  BY SameCardinality DEF
       FD!Blocks, FD!table, FD!IsFirstFree, FD!block_store_allocate, FD!Ready,
       FD!directory_takes_block, Files!Blocks, Files!table, Files!IsFirstFree,
       Files!block_store_allocate, Files!Ready, Files!directory_takes_block

LEMMA SameGivesBack == FD!directory_gives_back <=> Files!directory_gives_back
  BY DEF
       FD!table, FD!Ready, FD!directory_gives_back, Files!table, Files!Ready,
       Files!directory_gives_back

LEMMA SameNext == FD!Next <=> Files!Next
  BY SameCallStart, SameWriteStep, SameUnmount, SameCrash, SameMount, SameTakes, SameGivesBack
  DEF FD!Next, Files!Next

LEMMA SameBlocks ==
  ASSUME NEW i
  PROVE  FD!Owned(FD!LiveInode(i), FD!LiveBlocks(i)) = Files!Owned(Files!LiveInode(i), Files!LiveBlocks(i))
  BY DEF
       FD!IndirectStart, FD!DoubleStart, FD!CeilDiv, FD!DataBlock, FD!Parts,
       FD!PartBlock, FD!Owned, FD!Running, FD!LiveInode, FD!LiveBlocks,
       Files!IndirectStart, Files!DoubleStart, Files!CeilDiv, Files!DataBlock,
       Files!Parts, Files!PartBlock, Files!Owned, Files!Running,
       Files!LiveInode, Files!LiveBlocks

LEMMA SameSound == FD!DeviceSound <=> Files!DeviceSound
  BY DEF
       FD!IndirectStart, FD!DoubleStart, FD!CeilDiv, FD!DataBlock, FD!Parts,
       FD!PartBlock, FD!Owned, FD!StoredOwned, FD!DeviceSound,
       Files!IndirectStart, Files!DoubleStart, Files!CeilDiv, Files!DataBlock,
       Files!Parts, Files!PartBlock, Files!Owned, Files!StoredOwned,
       Files!DeviceSound

LEMMA SameLeaked == FD!Leaked = Files!Leaked /\ FD!Leaked' = Files!Leaked'
  BY DEF
       FD!IndirectStart, FD!DoubleStart, FD!NONE, FD!CeilDiv, FD!DataBlock,
       FD!Parts, FD!PartBlock, FD!Owned, FD!Running, FD!LiveInode,
       FD!LiveBlocks, FD!Fresh, FD!Leaked, Files!IndirectStart,
       Files!DoubleStart, Files!NONE, Files!CeilDiv, Files!DataBlock,
       Files!Parts, Files!PartBlock, Files!Owned, Files!Running,
       Files!LiveInode, Files!LiveBlocks, Files!Fresh, Files!Leaked

-----------------------------------------------------------------------------
(* What the two parts know of one another.                                 *)

\* A block in use holds data of files, or is one of those others took.
GhostInv == taken \subseteq fbm /\ data = fbm \ taken

\* No two calls run.
OneCallInv == write.pc = "idle" \/ call.pc = "idle"

\* An inode that is in use and not in the hands of a create.
Exists(i) == i \in inode_map /\ ~(HasInum /\ i = call.inum)

\* What is open is a regular file.
OpenInv == \A i \in OpenInums : Exists(i) /\ inodes[i].file_type = "r"

\* Nothing was ever written to an inode before its create is through.
UntouchedInv == \A i \in FileInums : ~Exists(i) => file_inodes[i] = FD!NewInode

RootInv == inodes[Root].file_type = "d"

LinkInv == GhostInv /\ OneCallInv /\ OpenInv /\ UntouchedInv /\ RootInv

FSInv == TInv /\ LostInv /\ Files!BInv /\ LinkInv

\* What a step of the name space has to know of the files ...
FileFacts ==
    /\ file_inodes = [i \in FileInums |-> file_inodes[i]]
    /\ fd_tab = [d \in 0 .. NumFds - 1 |-> fd_tab[d]]
    /\ fd_used \subseteq 0 .. NumFds - 1
    /\ \A d \in fd_used : fd_tab[d].inum \in FileInums
    /\ write.pc # "idle" =>
          write.fd \in fd_used /\ write.lfd.inum = fd_tab[write.fd].inum
    /\ fbm \subseteq Blocks /\ taken \subseteq fbm
    /\ {write.new_ptr, write.new_ind, write.new_db} \ {NONE} \subseteq fbm \ taken
    /\ write.pc = "undo" => write.new_ptr # NONE

\* Both follow from the invariants.
LEMMA FilesKnow == ASSUME Files!BInv PROVE FileFacts
  <1> USE DEF Files!BInv, Files!IInv, Files!TypeOK
  <1>1. /\ file_inodes = [i \in FileInums |-> file_inodes[i]]
        /\ fd_tab = [d \in 0 .. NumFds - 1 |-> fd_tab[d]]
        /\ fd_used \subseteq 0 .. NumFds - 1
        /\ fbm \subseteq Blocks
    BY DEF Files!Fds, Files!Blocks, Blocks
  <1>2. \A d \in fd_used : fd_tab[d].inum \in FileInums
    BY DEF Files!OpenInFile
  <1>3. write.pc # "idle" => write.fd \in fd_used /\ write.lfd.inum = fd_tab[write.fd].inum
    BY DEF Files!CallInFile
  <1>4. taken \subseteq fbm
    BY DEF Files!TakenInv
  <1>5. {write.new_ptr, write.new_ind, write.new_db} \ {NONE} \subseteq fbm \ taken
    BY DEF Files!HeldInv, Files!Fresh, Files!NONE, NONE
  <1>6. write.pc = "undo" => write.new_ptr # NONE
    BY Shape DEF Files!HeldBlocks, Files!Attaching, Files!Blocks, Blocks, NONE
  <1> QED BY <1>1, <1>2, <1>3, <1>4, <1>5, <1>6 DEF FileFacts

\* ... and what a step of the files, of the name space.
NameFacts ==
    /\ Reserved \subseteq fbm /\ fbm \subseteq Blocks /\ data \subseteq fbm \ Reserved
    /\ inode_map \subseteq Inums /\ Root \in inode_map
    /\ inodes \in [Inums -> Inode]
    /\ HasInum => call.inum \in inode_map \ {Root, call.parent}
    /\ NewBlocks \subseteq fbm \ (Reserved \cup data)
    /\ call.pc = "free block" => call.node.data_direct \in NewBlocks
    /\ call.pc = "idle" => NewBlocks = {}

LEMMA NamesKnow == ASSUME TInv PROVE NameFacts
  <1>1. IInv
    BY DEF TInv
  <1>2. call.pc = "free block" => call.node.data_direct \in NewBlocks
    BY <1>1 DEF IInv, ParentInv, NewBlocks
  <1> QED BY <1>1, <1>2 DEF IInv, TypeInv, CallInv, InodeInv, EntryBlocksApart, NewBlocks, NameFacts
-----------------------------------------------------------------------------
(* The steps of the name space, as the files see them.                     *)

\* fs_create's store of the whole inode finds what it stores there already.
LEMMA StoresNothing ==
  ASSUME NameFacts, FileFacts, UntouchedInv, StoreNewInode
  PROVE  file_inodes' = file_inodes
  <1>1. CASE At("inode")
    <2>1. call.inum \in FileInums /\ ~Exists(call.inum)
      BY <1>1 DEF NameFacts, HasInum, At, Exists, FileInums
    <2>2. file_inodes[call.inum] = FD!NewInode
      BY <2>1 DEF UntouchedInv
    <2>3. file_inodes' = [file_inodes EXCEPT ![call.inum] = FD!NewInode]
      BY <1>1 DEF StoreNewInode
    <2> QED BY <2>1, <2>2, <2>3 DEF FileFacts
  <1>2. CASE ~At("inode")
    BY <1>2 DEF StoreNewInode
  <1> QED BY <1>1, <1>2

\* When a block is free, the bound on what others hold is not reached.
LEMMA FewTaken ==
  ASSUME FileFacts, NEW b \in Blocks \ fbm
  PROVE  Cardinality(taken) < NumBlocks
  <1>1. IsFiniteSet(Blocks) /\ Cardinality(Blocks) = NumBlocks
    <2>1. 0 \in Int /\ NumBlocks - 1 \in Int /\ NumBlocks \in Nat
      BY ShapeAssumption
    <2>2. CASE NumBlocks = 0
      BY <2>2 DEF Blocks
    <2>3. CASE NumBlocks > 0
      BY <2>1, <2>3, FS_Interval DEF Blocks
    <2> QED BY <2>1, <2>2, <2>3
  <1>2. taken \subseteq Blocks /\ taken # Blocks
    BY DEF FileFacts
  <1>3. /\ IsFiniteSet(taken) /\ Cardinality(taken) <= Cardinality(Blocks)
        /\ Cardinality(Blocks) = Cardinality(taken) => Blocks = taken
    BY <1>1, <1>2, FS_Subset
  <1>4. Cardinality(taken) \in Nat
    BY <1>3, FS_CardinalityType
  <1> QED BY <1>1, <1>2, <1>3, <1>4, ShapeAssumption

\* What a step of the name space does to the map of the blocks.
LEMMA NamespaceBlocks ==
  ASSUME NameFacts, NamespaceStep
  PROVE  \/ fbm' = fbm
         \/ Quiet /\ \E b \in Blocks : block_store_allocate(b)
         \/ /\ call.pc = "free block" /\ mounted
            /\ \E b \in NewBlocks : fbm' = fbm \ {b}
  <1>1. CASE \E path \in Paths, type \in Types : fs_create(path, type)
    BY <1>1 DEF fs_create
  <1>2. CASE FreeBlock
    BY <1>2 DEF FreeBlock, At, block_store_release, NameFacts
  <1>3. CASE \E path \in Paths : CreateRefused(path) \/ fs_get_dir(path)
    BY <1>3 DEF CreateRefused, fs_get_dir, device
  <1>4. CASE CreateStep /\ ~FreeBlock
    BY <1>4 DEF CreateStep, AllocInode, Verified_fails, WriteInode, WriteEntries, WriteParent,
                FreeInode, device
  <1> QED BY <1>1, <1>2, <1>3, <1>4 DEF NamespaceStep

\* A call with a path is a call of FSNamespace ...
LEMMA NamespaceIsNext ==
  ASSUME NamespaceStep
  PROVE  Next /\ UNCHANGED <<mounted, data>>
  <1>1. Next
    BY DEF NamespaceStep, Next
  <1>2. UNCHANGED <<mounted, data>>
    BY DEF NamespaceStep, CreateStep, fs_create, CreateRefused, fs_get_dir, AllocInode,
           Verified_fails, WriteInode, WriteEntries, WriteParent, FreeInode, FreeBlock
  <1> QED BY <1>1, <1>2

\* ... and, to the files, takes a block, gives one back, or is not seen.
LEMMA NamespaceIsFile ==
  ASSUME NameFacts, FileFacts, LinkInv, NamespaceStep
  PROVE  [FD!Next]_(FD!vars) /\ GhostInv' /\ file_inodes' = file_inodes
  <1>1. file_inodes' = file_inodes
    BY StoresNothing DEF LinkInv, NamespaceStep
  <1>2. /\ UNCHANGED <<mounted, data, mem, fd_used, fd_tab, write, fd_res, writes>>
        /\ taken' = fbm' \ data /\ write.pc = "idle"
    BY NamespaceIsNext DEF NamespaceStep
  <1>3. taken \subseteq fbm /\ data = fbm \ taken
    BY DEF LinkInv, GhostInv
  <1>4. CASE fbm' = fbm
    BY <1>1, <1>2, <1>3, <1>4 DEF FD!vars, GhostInv
  <1>5. ASSUME Quiet, NEW b \in Blocks, block_store_allocate(b)
        PROVE  FD!directory_takes_block /\ GhostInv'
    <2>1. b \in Blocks \ fbm /\ fbm' = fbm \cup {b}
      BY <1>5 DEF block_store_allocate, IsFirstFree
    <2>2. taken' = taken \cup {b} /\ GhostInv'
      BY <1>2, <1>3, <2>1 DEF GhostInv
    <2>3. FD!Cardinality(taken) < NumBlocks
      BY <2>1, FewTaken, SameCardinality
    <2>4. b \in FD!Blocks /\ FD!block_store_allocate(b)
      BY <1>5 DEF FD!Blocks, Blocks, FD!block_store_allocate, block_store_allocate,
                  IsFirstFree, FD!IsFirstFree
    <2>5. FD!Ready
      BY <1>2, <1>5 DEF FD!Ready, Quiet
    <2> QED BY <1>1, <1>2, <2>2, <2>3, <2>4, <2>5 DEF FD!directory_takes_block, FD!table
  <1>6. ASSUME mounted, NEW b \in NewBlocks, fbm' = fbm \ {b}
        PROVE  FD!directory_gives_back /\ GhostInv'
    <2>1. b \in fbm \ data /\ b \notin Reserved /\ b \in Blocks
      BY <1>6 DEF NameFacts
    <2>2. taken' = taken \ {b} /\ b \in taken /\ GhostInv'
      BY <1>2, <1>3, <1>6, <2>1 DEF GhostInv
    <2>3. NumReserved <= b
      BY <2>1, ShapeAssumption DEF Reserved, Blocks
    <2> QED BY <1>1, <1>2, <1>6, <2>2, <2>3 DEF FD!directory_gives_back, FD!table, FD!Ready
  <1> QED BY <1>1, <1>4, <1>5, <1>6, NamespaceBlocks DEF FD!Next
-----------------------------------------------------------------------------
(* The steps of the files, as the name space sees them.                    *)

\* A step of the files, as far as others see it.
Seen ==
    /\ UNCHANGED <<mounted, taken>>
    /\ \/ fbm' = fbm
       \/ write.pc # "idle" /\ \E b \in Blocks : block_store_allocate(b)
       \/ \E b \in fbm \ taken : fbm' = fbm \ {b}
    /\ \A d \in fd_used' : d \in fd_used /\ fd_tab'[d].inum = fd_tab[d].inum
    /\ \/ file_inodes' = file_inodes
       \/ /\ write.pc # "idle"
          /\ \A i \in FileInums : i # write.lfd.inum => file_inodes'[i] = file_inodes[i]

LEMMA SeekKeepsFile == ASSUME NEW fd, NEW o PROVE FD!fd_cursor_set(fd, o).inum = fd.inum
  BY DEF FD!fd_cursor_set

\* The calls with descriptors, but for fs_open, and the steps of fs_write.
LEMMA CallSeen == ASSUME FileFacts, FD!DescriptorCall PROVE Seen
  <1>1. ASSUME NEW d \in FD!Fds, FD!fs_close(d) \/ FD!BadDescriptor(d)
        PROVE  Seen
    BY <1>1 DEF FD!fs_close, FD!BadDescriptor, FD!device, FD!table, Seen
  <1>2. ASSUME NEW d \in FD!Fds, NEW o \in SeekOffsets, NEW w \in {"set", "cur", "end"},
               FD!fs_seek(d, o, w)
        PROVE  Seen
    <2>1. \E new : fd_tab' = [fd_tab EXCEPT ![d] = FD!fd_cursor_set(@, new)]
      BY <1>2 DEF FD!fs_seek
    <2>2. UNCHANGED <<fbm, file_inodes, fd_used, mounted, taken>>
      BY <1>2 DEF FD!fs_seek, FD!device
    <2>3. \A c \in fd_used : fd_tab'[c].inum = fd_tab[c].inum
      BY <2>1, SeekKeepsFile DEF FileFacts
    <2> QED BY <2>2, <2>3 DEF Seen
  <1>3. ASSUME NEW d \in FD!Fds, NEW n \in ReadSizes, FD!fs_read(d, n)
        PROVE  Seen
    <2>1. \/ fd_tab' = fd_tab
          \/ \E new : fd_tab' = [fd_tab EXCEPT ![d] = FD!fd_cursor_set(@, new)]
      BY <1>3 DEF FD!fs_read
    <2>2. UNCHANGED <<fbm, file_inodes, fd_used, mounted, taken>>
      BY <1>3 DEF FD!fs_read, FD!device
    <2>3. ASSUME NEW c \in fd_used, NEW new,
                 fd_tab' = [fd_tab EXCEPT ![d] = FD!fd_cursor_set(@, new)]
          PROVE  fd_tab'[c].inum = fd_tab[c].inum
      BY <2>3, SeekKeepsFile DEF FileFacts
    <2>4. \A c \in fd_used : fd_tab'[c].inum = fd_tab[c].inum
      BY <2>1, <2>3
    <2> QED BY <2>2, <2>4 DEF Seen
  <1>4. ASSUME NEW d \in FD!Fds, NEW buf \in Buffers, FD!fs_write(d, buf)
        PROVE  Seen
    BY <1>4 DEF FD!fs_write, FD!device, FD!table, Seen
  <1> QED BY <1>1, <1>2, <1>3, <1>4 DEF FD!DescriptorCall

LEMMA Allocates ==
  ASSUME NEW b, FD!block_store_allocate(b)
  PROVE  b \in Blocks /\ block_store_allocate(b)
  BY DEF FD!block_store_allocate, FD!IsFirstFree, FD!Blocks, block_store_allocate,
         IsFirstFree, Blocks

LEMMA WriteSeen == ASSUME FileFacts, FD!WriteStep PROVE Seen
  <1>1. write.pc # "idle"
    BY DEF FD!WriteStep, FD!AddBlockStep, FD!AllocData, FD!DeviceFull, FD!WriteChunk, FD!Finish,
           FD!LinkDirect, FD!AllocIndirect, FD!StoreIndirect, FD!LinkIndirect, FD!AllocDouble,
           FD!StoreDouble, FD!AllocInner, FD!StoreInner, FD!LinkInner, FD!Undo, FD!At,
           FD!InDouble
  <1>2. CASE FD!Finish
    <2>1. /\ UNCHANGED <<fbm, mounted, taken, fd_used>>
          /\ fd_tab' = [fd_tab EXCEPT ![write.fd] = write.lfd]
          /\ file_inodes' = [file_inodes EXCEPT ![write.lfd.inum] = write.ino]
      BY <1>2 DEF FD!Finish, FD!StoreInode
    <2>2. \A d \in fd_used : fd_tab'[d].inum = fd_tab[d].inum
      BY <1>1, <2>1 DEF FileFacts
    <2>3. \A i \in FileInums : i # write.lfd.inum => file_inodes'[i] = file_inodes[i]
      BY <2>1 DEF FileFacts
    <2> QED BY <1>1, <2>1, <2>2, <2>3 DEF Seen
  <1>4. CASE FD!AllocData \/ FD!AllocIndirect \/ FD!AllocDouble \/ FD!AllocInner
    <2>1. UNCHANGED file_inodes /\ (fbm' = fbm \/ \E b : FD!block_store_allocate(b))
      BY <1>4 DEF FD!AllocData, FD!AllocIndirect, FD!AllocDouble, FD!AllocInner,
                  FD!NoPointerBlock
    <2>3. UNCHANGED <<mounted, taken, fd_used, fd_tab>>
      BY <1>4 DEF FD!AllocData, FD!AllocIndirect, FD!AllocDouble, FD!AllocInner, FD!InCall,
                  FD!table
    <2> QED BY <1>1, <2>1, <2>3, Allocates DEF Seen
  <1>5. CASE FD!LinkDirect \/ FD!StoreIndirect \/ FD!StoreDouble
    <2>1. /\ UNCHANGED fbm
          /\ \E inode : file_inodes' = [file_inodes EXCEPT ![write.lfd.inum] = inode]
      BY <1>5 DEF FD!LinkDirect, FD!StoreIndirect, FD!StoreDouble, FD!StoreInode
    <2>2. \A i \in FileInums : i # write.lfd.inum => file_inodes'[i] = file_inodes[i]
      BY <2>1 DEF FileFacts
    <2>3. UNCHANGED <<mounted, taken, fd_used, fd_tab>>
      BY <1>5 DEF FD!LinkDirect, FD!StoreIndirect, FD!StoreDouble, FD!InCall, FD!table
    <2> QED BY <1>1, <2>1, <2>2, <2>3 DEF Seen
  <1>6. CASE FD!DeviceFull \/ FD!WriteChunk \/ FD!LinkIndirect \/ FD!StoreInner \/ FD!LinkInner
    BY <1>6 DEF FD!DeviceFull, FD!WriteChunk, FD!LinkIndirect, FD!StoreInner, FD!LinkInner,
                FD!InCall, FD!table, FD!device, Seen
  <1>7. CASE FD!Undo
    <2>1. /\ write.pc = "undo" /\ UNCHANGED file_inodes
          /\ UNCHANGED <<mounted, taken, fd_used, fd_tab>>
          /\ IF write.new_db # NONE THEN fbm' = fbm \ {write.new_db}
             ELSE fbm' = fbm \ {write.new_ptr}
      BY <1>7 DEF FD!Undo, FD!At, FD!InCall, FD!table, FD!NONE, NONE
    <2>2. \E b \in fbm \ taken : fbm' = fbm \ {b}
      BY <2>1 DEF FileFacts
    <2> QED BY <2>1, <2>2 DEF Seen
  <1> QED BY <1>2, <1>4, <1>5, <1>6, <1>7 DEF FD!WriteStep, FD!AddBlockStep

\* To the name space they take a block, give one back, or are not seen.
LEMMA DataIsName ==
  ASSUME NameFacts, FileFacts, LinkInv, DataStep
  PROVE  [Next]_vars /\ Seen /\ GhostInv'
  <1>1. Seen
    BY CallSeen, WriteSeen DEF DataStep
  <1>2. /\ UNCHANGED <<mounted, taken, inode_map, inodes, dents, call, res>>
        /\ data' = fbm' \ taken /\ Quiet
    BY <1>1 DEF Seen, DataStep, nameState
  <1>3. taken \subseteq fbm /\ data = fbm \ taken
    BY DEF LinkInv, GhostInv
  <1>4. ASSUME fbm' = fbm PROVE UNCHANGED vars /\ GhostInv'
    <2>1. data' = data /\ GhostInv'
      BY <1>2, <1>3, <1>4 DEF GhostInv
    <2> QED BY <1>2, <1>4, <2>1 DEF vars
  <1>5. ASSUME write.pc # "idle", NEW b \in Blocks, block_store_allocate(b)
        PROVE  file_takes_block /\ GhostInv'
    <2>1. write.lfd.inum \in inode_map /\ inodes[write.lfd.inum].file_type = "r"
      BY <1>5 DEF FileFacts, LinkInv, OpenInv, OpenInums, Exists
    <2>2. b \notin fbm /\ fbm' = fbm \cup {b}
      BY <1>5 DEF block_store_allocate, IsFirstFree
    <2>3. data' = data \cup {b} /\ GhostInv'
      BY <1>2, <1>3, <2>2 DEF GhostInv
    <2> QED BY <1>2, <1>5, <2>1, <2>3 DEF file_takes_block
  <1>6. ASSUME NEW b \in fbm \ taken, fbm' = fbm \ {b}
        PROVE  file_gives_block /\ GhostInv'
    <2>1. b \in data /\ data' = data \ {b} /\ GhostInv'
      BY <1>2, <1>3, <1>6 DEF GhostInv
    <2> QED BY <1>2, <1>6, <2>1 DEF file_gives_block, block_store_release
  <1> QED BY <1>1, <1>4, <1>5, <1>6 DEF Seen, Next
-----------------------------------------------------------------------------
(* The invariant is inductive.                                             *)

\* What exists goes on existing, as the kind of file that it is.
LEMMA ExistsStays ==
  ASSUME IInv, [Next]_vars, NEW i \in Inums, Exists(i)
  PROVE  Exists(i)' /\ inodes'[i].file_type = inodes[i].file_type
  <1>1. TypeInv /\ CallInv /\ InodeInv /\ ParentInv
    BY DEF IInv
  <1>2. CASE UNCHANGED <<inode_map, inodes>> /\ call'.pc \in {"idle", "verify", "free block"}
    BY <1>2 DEF Exists, HasInum
  <1>3. CASE UNCHANGED <<inode_map, inodes>> /\ HasInum /\ call'.inum = call.inum
    BY <1>3 DEF Exists, HasInum
  <1>4. CASE UNCHANGED <<inode_map, inodes, call>>
    BY <1>4 DEF Exists, HasInum
  <1>5. CASE AllocInode
    <2>1. PICK n \in Inums : /\ n \notin inode_map /\ inode_map' = inode_map \cup {n}
                             /\ call' = [call EXCEPT !.pc = "inode", !.inum = n]
      BY <1>5 DEF AllocInode, block_store_sub_allocate, IsFirstFree
    <2>2. call'.inum = n /\ inodes' = inodes
      BY <1>1, <1>5, <2>1 DEF CallInv, AllocInode
    <2> QED BY <2>1, <2>2 DEF Exists
  <1>6. CASE WriteInode
    <2>1. /\ inode_map' = inode_map /\ HasInum /\ call'.inum = call.inum
          /\ inodes' = [inodes EXCEPT ![call.inum] = NewInode(call.type)]
      BY <1>1, <1>6 DEF WriteInode, At, block_store_inode_write, HasInum, CallInv
    <2> QED BY <1>1, <2>1 DEF Exists, TypeInv
  <1>7. CASE WriteParent
    <2>1. /\ inode_map' = inode_map /\ call' = Idle
          /\ inodes' = [inodes EXCEPT ![call.parent] = call.node]
          /\ inodes[call.parent].file_type = call.node.file_type
      BY <1>1, <1>7 DEF WriteParent, At, Return, block_store_inode_write, ParentInv
    <2>2. ~HasInum'
      BY <2>1 DEF HasInum, Idle
    <2> QED BY <1>1, <2>1, <2>2 DEF Exists, TypeInv
  <1>8. CASE FreeInode
    <2>1. /\ HasInum /\ inode_map' = inode_map \ {call.inum} /\ inodes' = inodes
          /\ call' = Idle \/ call' = [call EXCEPT !.pc = "free block"]
      BY <1>8 DEF FreeInode, At, Return, block_store_sub_release, HasInum
    <2>2. CASE call' = Idle
      BY <2>1, <2>2 DEF Exists, HasInum, Idle
    <2>3. CASE call' = [call EXCEPT !.pc = "free block"]
      <3>1. call'.pc = "free block"
        BY <1>1, <2>3 DEF CallInv
      <3> QED BY <2>1, <3>1 DEF Exists, HasInum
    <2> QED BY <2>1, <2>2, <2>3
  <1>9. CASE WriteEntries \/ Verified_fails \/ FreeBlock
    <2>1. UNCHANGED <<inode_map, inodes>>
      BY <1>9 DEF WriteEntries, Verified_fails, FreeBlock, device
    <2>2. CASE WriteEntries
      <3>1. call.pc = "entries" /\ call' = [call EXCEPT !.pc = "parent"]
        BY <2>2 DEF WriteEntries, At
      <3>2. HasInum /\ call'.inum = call.inum
        BY <1>1, <3>1 DEF HasInum, CallInv
      <3> QED BY <1>3, <2>1, <3>2
    <2>3. CASE Verified_fails \/ FreeBlock
      <3>1. call' = Idle \/ call' = [call EXCEPT !.pc = "free block"]
        BY <2>3 DEF Verified_fails, FreeBlock, Return
      <3>2. CASE call' = Idle
        BY <1>2, <2>1, <3>2 DEF Idle
      <3>3. CASE call' = [call EXCEPT !.pc = "free block"]
        <4>1. call'.pc = "free block"
          BY <1>1, <3>3 DEF CallInv
        <4> QED BY <1>2, <2>1, <4>1
      <3> QED BY <3>1, <3>2, <3>3
    <2> QED BY <1>9, <2>2, <2>3
  <1>10. ASSUME NEW path \in Paths, NEW type \in Types, fs_create(path, type)
         PROVE  UNCHANGED <<inode_map, inodes>> /\ call'.pc = "verify"
    BY <1>10 DEF fs_create, Idle
  <1>11. ASSUME NEW path \in Paths, CreateRefused(path)
         PROVE  UNCHANGED <<inode_map, inodes>> /\ call'.pc = "idle"
    BY <1>11 DEF CreateRefused, Return, Idle, device
  <1>12. ASSUME Crash PROVE UNCHANGED <<inode_map, inodes>> /\ call'.pc = "idle"
    BY <1>12 DEF Crash, Idle, device
  <1>13. ASSUME \/ file_takes_block \/ file_gives_block \/ fs_unmount \/ fs_mount
                \/ (\E path \in Paths : fs_get_dir(path)) \/ UNCHANGED vars
         PROVE  UNCHANGED <<inode_map, inodes, call>>
    BY <1>13 DEF file_takes_block, file_gives_block, fs_unmount, fs_mount, fs_get_dir, device, vars
  <1> QED BY <1>2, <1>4, <1>5, <1>6, <1>7, <1>8, <1>9, <1>10, <1>11, <1>12, <1>13
          DEF Next, CreateStep

\* The steps of the name space keep what the parts know of one another ...
LEMMA NamespaceLinks ==
  ASSUME NameFacts, FileFacts, IInv, LinkInv, NamespaceStep
  PROVE  LinkInv'
  <1>1. [Next]_vars /\ GhostInv' /\ UNCHANGED <<file_inodes, fd_used, fd_tab, write>>
    BY NamespaceIsNext, NamespaceIsFile DEF NamespaceStep
  <1>2. \A i \in Inums : Exists(i) =>
          Exists(i)' /\ inodes'[i].file_type = inodes[i].file_type
    BY <1>1, ExistsStays
  <1>3. OneCallInv'
    BY <1>1 DEF NamespaceStep, OneCallInv
  <1>4. OpenInums' = OpenInums /\ \A i \in OpenInums : i \in Inums
    BY <1>1 DEF OpenInums, LinkInv, OpenInv, Exists, NameFacts
  <1>9. OpenInv'
    BY <1>2, <1>4 DEF LinkInv, OpenInv
  <1>5. UntouchedInv'
    BY <1>1, <1>2 DEF LinkInv, UntouchedInv, FileInums
  <1>6. Exists(Root) /\ Root \in Inums
    BY DEF NameFacts, Exists
  <1>7. RootInv'
    BY <1>2, <1>6 DEF LinkInv, RootInv
  <1> QED BY <1>1, <1>3, <1>9, <1>5, <1>7 DEF LinkInv

\* A step of the files, after which no more files are open, but for those that
\* are opened.
LEMMA FilesLink ==
  ASSUME LinkInv, GhostInv', UNCHANGED <<inode_map, inodes>>,
         call.pc = "idle", call' = call,
         \A i \in OpenInums' :
           i \in OpenInums \/ (i \in inode_map /\ inodes[i].file_type = "r"),
         \A i \in FileInums : i \in OpenInums \/ file_inodes'[i] = file_inodes[i]
  PROVE  LinkInv'
  <1>1. \A i : Exists(i)' <=> Exists(i)
    BY DEF Exists, HasInum
  <1>2. \A i \in inode_map : Exists(i)
    BY DEF Exists, HasInum
  <1>3. OpenInv' /\ UntouchedInv' /\ RootInv' /\ OneCallInv'
    BY <1>1, <1>2 DEF LinkInv, OpenInv, UntouchedInv, RootInv, OneCallInv
  <1> QED BY <1>3 DEF LinkInv

\* ... and so do those of the files.
LEMMA DataLinks ==
  ASSUME NameFacts, FileFacts, LinkInv, DataStep
  PROVE  LinkInv'
  <1>1. Seen /\ GhostInv' /\ UNCHANGED <<inode_map, inodes, call>> /\ call.pc = "idle"
    BY DataIsName DEF DataStep, nameState, Quiet
  <1>2. OpenInums' \subseteq OpenInums
    BY <1>1 DEF Seen, OpenInums
  <1>3. \A i \in FileInums : i \in OpenInums \/ file_inodes'[i] = file_inodes[i]
    BY <1>1 DEF Seen, FileFacts, OpenInums
  <1> QED BY <1>1, <1>2, <1>3, FilesLink
\* Opening a path, as both parts see it.
LEMMA OpenIsStep ==
  ASSUME NameFacts, FileFacts, LinkInv, NEW path \in Paths, fs_open(path)
  PROVE  UNCHANGED vars /\ FD!Next /\ LinkInv'
  <1>1. Quiet /\ UNCHANGED <<inode_map, inodes, dents, call, res, data>>
    BY DEF fs_open, nameState
  <1> DEFINE inum == _get_inum(path)
  <1>2. CASE Opens(path)
    <2>1. inum \in FileInums /\ inodes[inum].file_type = "r"
      <3>1. inum \in inode_map /\ inodes[inum].file_type # "d"
        BY <1>2 DEF Opens, block_store_sub_test
      <3>2. inum # Root /\ inum \in Inums
        BY <3>1 DEF LinkInv, RootInv, NameFacts
      <3> HIDE DEF inum
      <3>3. inodes[inum].file_type \in Types
        BY <3>2 DEF NameFacts, Inode
      <3> QED BY <3>1, <3>2, <3>3 DEF FileInums, Types
    <2>2. FD!fs_open(inum)
      BY <1>2 DEF fs_open
    <2>3. inum \in inode_map
      BY <1>2 DEF Opens, block_store_sub_test
    <2> HIDE DEF inum
    <2>4. UNCHANGED <<fbm, mem, file_inodes, mounted, write, taken, writes>>
      BY <2>2 DEF FD!fs_open, FD!device
    <2>5. \/ \E d \in FD!Fds : /\ fd_used' = fd_used \cup {d}
                              /\ fd_tab' = [fd_tab EXCEPT ![d] = [FD!ZeroFd EXCEPT !.inum = inum]]
          \/ UNCHANGED <<fd_used, fd_tab>>
      BY <2>2 DEF FD!fs_open, FD!table
    <2>6. [FD!ZeroFd EXCEPT !.inum = inum].inum = inum
      BY DEF FD!ZeroFd
    <2>7. \A i \in OpenInums' : i \in OpenInums \/ i = inum
      <3>1. ASSUME NEW d \in FD!Fds, fd_used' = fd_used \cup {d},
                   fd_tab' = [fd_tab EXCEPT ![d] = [FD!ZeroFd EXCEPT !.inum = inum]]
            PROVE  \A i \in OpenInums' : i \in OpenInums \/ i = inum
        <4>1. \A c \in fd_used' : c = d \/ (c \in fd_used /\ fd_tab'[c] = fd_tab[c])
          BY <3>1 DEF FileFacts, FD!Fds
        <4>2. fd_tab'[d].inum = inum
          BY <2>6, <3>1 DEF FileFacts, FD!Fds
        <4> QED BY <4>1, <4>2 DEF OpenInums
      <3> QED BY <2>5, <3>1 DEF OpenInums
    <2>8. GhostInv'
      BY <1>1, <2>4 DEF LinkInv, GhostInv
    <2>9. LinkInv'
      BY <1>1, <2>1, <2>3, <2>4, <2>7, <2>8, FilesLink DEF Quiet
    <2> QED BY <1>1, <2>1, <2>2, <2>4, <2>9 DEF vars, FD!Next, FD!CallStart
  <1>3. CASE ~Opens(path)
    <2>1. /\ fd_res' = FD!Error /\ write.pc = "idle"
          /\ UNCHANGED <<fbm, mem, file_inodes, fd_used, fd_tab, mounted, write, taken, writes>>
      BY <1>3 DEF fs_open
    <2>2. FD!Ready
      BY <1>1, <2>1 DEF FD!Ready, Quiet
    <2>3. ASSUME NEW d \in FD!Fds \ fd_used PROVE FD!DescriptorCall
      <3>1. FD!BadDescriptor(d)
        BY <2>1, <2>2, <2>3 DEF FD!BadDescriptor, FD!device, FD!table
      <3> QED BY <3>1 DEF FD!DescriptorCall
    <2>4. ASSUME FD!Fds \subseteq fd_used PROVE \E i \in FileInums : FD!fs_open(i)
      <3>1. 0 \in fd_used
        BY <2>4, DataAssumption DEF FD!Fds
      <3>2. fd_tab[0].inum \in FileInums
        BY <3>1 DEF FileFacts
      <3>3. FD!fs_open(fd_tab[0].inum)
        BY <2>1, <2>2, <2>4 DEF FD!fs_open, FD!device, FD!table
      <3> QED BY <3>2, <3>3
    <2>5. FD!Next
      BY <2>3, <2>4 DEF FD!Next, FD!CallStart
    <2>6. GhostInv' /\ OpenInums' = OpenInums
      BY <1>1, <2>1 DEF LinkInv, GhostInv, OpenInums
    <2>7. LinkInv'
      BY <1>1, <2>1, <2>6, FilesLink DEF Quiet
    <2> QED BY <1>1, <2>1, <2>5, <2>7 DEF vars
  <1> QED BY <1>2, <1>3

\* The end of a process and the next mount are those of both parts.
LEMMA EndsLink ==
  ASSUME NameFacts, FileFacts, IInv, LinkInv, ProcessEnds \/ Mounts
  PROVE  Next /\ FD!Next /\ LinkInv'
  <1>1. Next /\ FD!Next
    BY DEF ProcessEnds, Mounts, Next, FD!Next
  <1>2. /\ UNCHANGED <<fbm, inode_map, inodes, data, file_inodes, taken>>
        /\ (fd_used' \subseteq fd_used /\ fd_tab' = fd_tab) \/ fd_used' = {}
    BY DEF ProcessEnds, Mounts, fs_unmount, Crash, fs_mount, FD!fs_unmount, FD!Crash,
           FD!fs_mount, FD!DropTable, device, FD!device, FD!table
  <1>3. call' = Idle \/ call' = call
    BY DEF ProcessEnds, Mounts, fs_unmount, Crash, fs_mount
  <1>4. write'.pc = "idle" \/ write' = write
    BY DEF ProcessEnds, Mounts, FD!fs_unmount, FD!Crash, FD!fs_mount, FD!Idle
  <1>5. \A i \in Inums : Exists(i) =>
          Exists(i)' /\ inodes'[i].file_type = inodes[i].file_type
    BY <1>1, ExistsStays
  <1>6. GhostInv' /\ RootInv'
    BY <1>2 DEF LinkInv, GhostInv, RootInv
  <1>7. OneCallInv'
    BY <1>3, <1>4 DEF LinkInv, OneCallInv, Idle
  <1>8. OpenInums' \subseteq OpenInums /\ \A i \in OpenInums : i \in Inums
    BY <1>2 DEF OpenInums, LinkInv, OpenInv, Exists, NameFacts
  <1>9. OpenInv'
    BY <1>5, <1>8 DEF LinkInv, OpenInv
  <1>10. UntouchedInv'
    BY <1>2, <1>5 DEF LinkInv, UntouchedInv, FileInums
  <1> QED BY <1>1, <1>6, <1>7, <1>9, <1>10 DEF LinkInv

\* The formatted device.
LEMMA FSInitInv == FSInit => FSInv
  <1> SUFFICES ASSUME FSInit PROVE FSInv
    OBVIOUS
  <1>1. Init /\ FD!Init
    BY DEF FSInit
  <1>2. TInv
    BY <1>1, InitTInv
  <1>3. LostInv
    BY <1>1 DEF Init, Idle, LostInv
  <1>4. Files!BInv
    BY <1>1, SameInit, Assumptions, Files!InitBlocks
  <1>5. fbm = taken /\ data = {} /\ write.pc = "idle" /\ fd_used = {}
    BY <1>1 DEF Init, FD!Init, FD!Idle
  <1>6. \A i \in FileInums : file_inodes[i] = FD!NewInode
    BY <1>1 DEF FD!Init
  <1>7. RootInv
    BY <1>1, Shape, NewInodeType DEF Init, RootInv, Types
  <1> QED BY <1>2, <1>3, <1>4, <1>5, <1>6, <1>7
          DEF FSInv, LinkInv, GhostInv, OneCallInv, OpenInv, OpenInums, UntouchedInv

\* A step of the system is one of each part.
LEMMA FSStep ==
  ASSUME FSInv, [FSNext]_fsVars
  PROVE  [Next]_vars /\ [FD!Next]_(FD!vars) /\ LinkInv'
  <1>1. NameFacts /\ FileFacts /\ LinkInv /\ IInv
    BY FilesKnow, NamesKnow DEF FSInv, TInv
  <1>2. CASE NamespaceStep
    BY <1>1, <1>2, NamespaceIsNext, NamespaceIsFile, NamespaceLinks
  <1>3. ASSUME NEW path \in Paths, fs_open(path)
        PROVE  UNCHANGED vars /\ FD!Next /\ LinkInv'
    BY <1>1, <1>3, OpenIsStep
  <1>4. CASE DataStep
    <2>1. FD!Next
      BY <1>4 DEF DataStep, FD!Next, FD!CallStart
    <2> QED BY <1>1, <1>4, <2>1, DataIsName, DataLinks
  <1>5. CASE ProcessEnds \/ Mounts
    BY <1>1, <1>5, EndsLink
  <1>6. CASE UNCHANGED fsVars
    <2>1. UNCHANGED vars /\ UNCHANGED FD!vars
      BY <1>6 DEF fsVars, vars, FD!vars
    <2>2. LinkInv'
      BY <1>1, <1>6 DEF LinkInv, GhostInv, OneCallInv, OpenInv, OpenInums, UntouchedInv, RootInv,
                   Exists, HasInum, fsVars, vars
    <2> QED BY <2>1, <2>2
  <1> QED BY <1>2, <1>3, <1>4, <1>5, <1>6 DEF FSNext

\* The invariant is inductive.
LEMMA FSStepInv == FSInv /\ [FSNext]_fsVars => FSInv'
  <1> SUFFICES ASSUME FSInv, [FSNext]_fsVars PROVE FSInv'
    OBVIOUS
  <1>1. [Next]_vars /\ [FD!Next]_(FD!vars) /\ LinkInv'
    BY FSStep
  <1>2. TInv'
    <2>1. CASE Next
      BY <2>1, NextTInv DEF FSInv
    <2>2. CASE UNCHANGED vars
      <3>1. IInv'
        BY <2>2, Stutter DEF FSInv, TInv, vars
      <3> QED BY <2>2, <3>1, StutterTInv DEF FSInv, vars, TInv, ValueInv
    <2> QED BY <1>1, <2>1, <2>2
  <1>3. LostInv'
    BY <1>1, LostInvNext DEF FSInv, TInv
  <1>4. [Files!Next]_(Files!vars)
    <2>1. UNCHANGED FD!vars <=> UNCHANGED Files!vars
      BY DEF FD!vars, Files!vars
    <2> QED BY <1>1, <2>1, SameNext
  <1>5. Files!BInv'
    BY <1>4, Assumptions, Files!StepBlocks DEF FSInv
  <1> QED BY <1>1, <1>2, <1>3, <1>5 DEF FSInv

LEMMA AlwaysFSInv == FSSpec => []FSInv
  BY FSInitInv, FSStepInv, PTL DEF FSSpec

-----------------------------------------------------------------------------
(* The theorems.                                                           *)

(* The calls with descriptors do to directories no more than a file that   *)
(* takes a block or gives one back.                                        *)
THEOREM NamespaceGoesOn == FSSpec => NamespaceHolds
  <1>1. FSInv /\ [FSNext]_fsVars => [Next]_vars
    BY FSStep
  <1> QED BY <1>1, AlwaysFSInv, PTL DEF FSSpec, NamespaceHolds

(* The calls with paths do to files and descriptors no more than a         *)
(* directory that takes a block or gives one back; fs_create's store of a  *)
(* whole new inode, also after a death, overwrites nothing.                *)
THEOREM DataGoesOn == FSSpec => DataHolds
  <1>1. FSInv /\ [FSNext]_fsVars => [FD!Next]_(FD!vars)
    BY FSStep
  <1> QED BY <1>1, AlwaysFSInv, PTL DEF FSSpec, DataHolds

(* No block of a file is reserved or holds entries, and what is open is a  *)
(* regular file that exists, whatever both parts do and wherever both die. *)
THEOREM FilesStayApart == FSSpec => []FilesApart
  <1>1. FSInv => FilesApart
    <2> SUFFICES ASSUME FSInv PROVE FilesApart
      OBVIOUS
    <2>1. FileFacts /\ NameFacts /\ EntryBlocksApart /\ LinkInv
      BY FilesKnow, NamesKnow DEF FSInv, TInv, IInv
    <2>2. data = fbm \ taken
      BY <2>1 DEF LinkInv, GhostInv
    <2>3. ASSUME NEW i \in FileInums
          PROVE  FD!Owned(FD!LiveInode(i), FD!LiveBlocks(i)) \subseteq data
      <3>1. Files!TreeInv
        BY DEF FSInv, Files!BInv
      <3>2. Files!Owned(Files!LiveInode(i), Files!LiveBlocks(i)) \subseteq Files!Filed
        BY <3>1, Assumptions, Files!OwnedFiled
      <3>3. FD!Owned(FD!LiveInode(i), FD!LiveBlocks(i)) \subseteq Files!Filed
        BY <3>2, SameBlocks
      <3> QED BY <2>2, <3>3 DEF Files!Filed
    <2>4. FD!Fresh \subseteq data
      BY <2>1, <2>2 DEF FileFacts, FD!Fresh, FD!NONE, NONE
    <2>5. FileBlocks \subseteq data
      <3> DEFINE Of(i) == FD!Owned(FD!LiveInode(i), FD!LiveBlocks(i))
      <3> SUFFICES ASSUME NEW b \in FileBlocks PROVE b \in data
        OBVIOUS
      <3>0. FileBlocks = FD!Fresh \cup UNION {Of(i) : i \in FileInums}
        BY DEF FileBlocks
      <3>1. b \in FD!Fresh \/ \E i \in FileInums : b \in Of(i)
        <4> HIDE DEF Of
        <4>1. b \in FD!Fresh \/ b \in UNION {Of(i) : i \in FileInums}
          BY <3>0
        <4>2. b \in UNION {Of(i) : i \in FileInums} => \E i \in FileInums : b \in Of(i)
          BY Zenon
        <4> QED BY <4>1, <4>2
      <3>2. \A i \in FileInums : Of(i) \subseteq data
        BY <2>3
      <3> HIDE DEF Of
      <3> QED BY <2>4, <3>1, <3>2
    <2>6. data \subseteq fbm \ (Reserved \cup EntryBlocks)
      BY <2>1 DEF NameFacts, EntryBlocksApart, EntryBlocks
    <2>7. \A i \in OpenInums : i \in inode_map /\ inodes[i].file_type = "r"
      BY <2>1 DEF LinkInv, OpenInv, Exists
    <2> QED BY <2>5, <2>6, <2>7 DEF FilesApart
  <1> QED BY <1>1, AlwaysFSInv, PTL

(* What holds of the name space alone holds of the library: the blocks of  *)
(* entries stay apart and names stay links ...                             *)
THEOREM NamesStaySound == FSSpec => []EntryBlocksApart /\ []NamesAreLinks
  <1>1. FSInv => EntryBlocksApart /\ NamesAreLinks
    BY DEF FSInv, TInv, IInv
  <1> QED BY <1>1, AlwaysFSInv, PTL

(* ... and what fs_get_dir lists it lists forever, and only the death of   *)
(* the process leaves inodes and blocks that nobody accounts for.          *)
THEOREM NamesStayListed == FSSpec => ListedForever /\ OnlyDeathLoses
  <1>1. FSInv => IInv /\ LostInv
    BY DEF FSInv, TInv
  <1>2. FSInv /\ [FSNext]_fsVars => [Next]_vars
    BY FSStep
  <1>3. IInv /\ IInv' /\ [Next]_vars => [Links \subseteq Links']_vars
    BY ListedStays
  <1>4. IInv /\ LostInv /\ IInv' /\ [Next]_vars =>
          [ \/ Lost'.inums \subseteq Lost.inums /\ Lost'.blocks \subseteq Lost.blocks
            \/ ~mounted' ]_vars
    BY NoInodeLost, NoBlockLost
  <1> QED BY <1>1, <1>2, <1>3, <1>4, AlwaysFSInv, PTL
          DEF FSSpec, ListedForever, OnlyDeathLoses

(* What holds of the files alone holds of the library too: the device that *)
(* a process leaves is usable, whichever call it died in, and only its     *)
(* death in fs_write loses blocks of files.                                *)
THEOREM FilesStaySound == FSSpec => []FD!DeviceSound /\ FD!OnlyDeathLeaks
  <1>1. FSInv => FD!DeviceSound
    BY Assumptions, Files!SoundDevice, SameSound DEF FSInv
  <1>2. FSInv /\ [FSNext]_fsVars =>
          [FD!Leaked' \subseteq FD!Leaked \/ (write.pc # "idle" /\ ~mounted')]_(FD!vars)
    <2> SUFFICES ASSUME FSInv, [FSNext]_fsVars
                 PROVE  FD!Leaked' \subseteq FD!Leaked \/ (write.pc # "idle" /\ ~mounted')
      OBVIOUS
    <2>1. [Files!Next]_(Files!vars)
      <3>1. UNCHANGED FD!vars <=> UNCHANGED Files!vars
        BY DEF FD!vars, Files!vars
      <3> QED BY <3>1, FSStep, SameNext
    <2>2. Files!Leaked' \subseteq Files!Leaked \/ (write.pc # "idle" /\ ~mounted')
      BY <2>1, Assumptions, Files!StepBlocks DEF FSInv
    <2> QED BY <2>2, SameLeaked
  <1> QED BY <1>1, <1>2, AlwaysFSInv, PTL DEF FSSpec, FD!OnlyDeathLeaks
=============================================================================
