--------------------------- MODULE FileDataProofs ---------------------------
(***************************************************************************)
(* Proofs about FileData for all values of its constants.  First its       *)
(* variables keep their types, no cursor passes the end of its file, and   *)
(* fs_write never overruns new_ptrs.  Then, with the blocks of the files:  *)
(* no block serves two purposes, what a process that dies leaves on the    *)
(* device is usable, only its death loses blocks, and a write falls short  *)
(* only when the device is full.  Last, that the tree of blocks is not     *)
(* seen: the files are those of FileStore.                                 *)
(***************************************************************************)
EXTENDS FileData, FiniteSetTheorems, SequenceTheorems, TLAPS

-----------------------------------------------------------------------------
(* Arithmetic of blocks and cursors.                                       *)

\* The division theorem for block numbers and offsets within a block.
LEMMA DivMod ==
    ASSUME NEW n \in Nat
    PROVE  /\ n \div BlockSize \in Nat
           /\ n % BlockSize \in Slots
           /\ n = BlockSize * (n \div BlockSize) + (n % BlockSize)
  BY ShapeAssumption, SMT DEF Slots

\* Multiplication by the block size is monotonic.
LEMMA TimesBlock ==
    ASSUME NEW i \in Nat, NEW j \in Nat
    PROVE  /\ i * BlockSize \in Nat
           /\ i < j => i * BlockSize + BlockSize <= j * BlockSize
           /\ i <= j => i * BlockSize <= j * BlockSize
  <1> DEFINE k == j - i
  <1>1. j * BlockSize = i * BlockSize + k * BlockSize
    BY ShapeAssumption, SMT
  <1>2. i <= j => k * BlockSize >= 0
    BY ShapeAssumption, SMT
  <1>3. i < j => k * BlockSize >= BlockSize
    BY ShapeAssumption, SMT
  <1> HIDE DEF k
  <1> QED BY <1>1, <1>2, <1>3, ShapeAssumption, SMT

\* A file of n cells has block k exactly if cell k * BlockSize is in it.
LEMMA CeilDivFacts ==
    ASSUME NEW n \in Nat
    PROVE  /\ CeilDiv(n) \in Nat
           /\ n <= CeilDiv(n) * BlockSize
           /\ \A k \in Nat : k < CeilDiv(n) <=> k * BlockSize < n
  <1> DEFINE c == CeilDiv(n)
             r == (n + BlockSize - 1) % BlockSize
  <1>1. c \in Nat /\ r \in Slots /\ n + BlockSize - 1 = BlockSize * c + r
    <2>1. n + BlockSize - 1 \in Nat
      BY ShapeAssumption
    <2> QED BY <2>1, DivMod DEF CeilDiv
  <1> HIDE DEF c, r
  <1>2. n <= c * BlockSize /\ c * BlockSize < n + BlockSize
    BY <1>1, ShapeAssumption, SMT DEF Slots
  <1>3. ASSUME NEW k \in Nat
        PROVE  k < c <=> k * BlockSize < n
    BY <1>1, <1>2, TimesBlock, ShapeAssumption, SMT
  <1> QED BY <1>1, <1>2, <1>3 DEF c

\* The usage of an offset is that of the pointer its block index falls under.
LEMMA UsageStart ==
    ASSUME NEW o \in Nat
    PROVE  /\ UsageOf(o) \in Usages
           /\ FirstIndex(UsageOf(o)) \in Nat
           /\ FirstIndex(UsageOf(o)) <= o \div BlockSize
  <1>1. \A i \in Nat : o >= i * BlockSize => o \div BlockSize >= i
    <2> SUFFICES ASSUME NEW i \in Nat, o >= i * BlockSize, o \div BlockSize < i
                 PROVE  FALSE
      BY DivMod, SMT
    <2>1. (o \div BlockSize) * BlockSize + BlockSize <= i * BlockSize
      BY TimesBlock, DivMod
    <2> QED BY <2>1, DivMod, TimesBlock, ShapeAssumption, SMT DEF Slots
  <1>2. IndirectStart \in Nat /\ DoubleStart \in Nat
    BY ShapeAssumption DEF IndirectStart, DoubleStart
  <1>3. IndirectStart * BlockSize \in Nat /\ DoubleStart * BlockSize \in Nat
    BY <1>2, TimesBlock
  <1>4. CASE o < IndirectStart * BlockSize
    BY <1>4, DivMod DEF UsageOf, FirstIndex, Usages
  <1>5. CASE ~(o < IndirectStart * BlockSize) /\ o < DoubleStart * BlockSize
    BY <1>1, <1>2, <1>3, <1>5 DEF UsageOf, FirstIndex, Usages
  <1>6. CASE ~(o < IndirectStart * BlockSize) /\ ~(o < DoubleStart * BlockSize)
    BY <1>1, <1>2, <1>3, <1>6 DEF UsageOf, FirstIndex, Usages
  <1> QED BY <1>4, <1>5, <1>6

\* _fd_cursor_set puts the cursor where _fd_cursor_get finds it.
LEMMA CursorRoundTrip ==
    ASSUME NEW fd \in Fd, NEW o \in Nat
    PROVE  /\ fd_cursor_set(fd, o) \in Fd
           /\ fd_cursor_set(fd, o).inum = fd.inum
           /\ fd_cursor_set(fd, o).off = o % BlockSize
           /\ fd_cursor_get_block_index(fd_cursor_set(fd, o)) = o \div BlockSize
           /\ fd_cursor_get(fd_cursor_set(fd, o)) = o
  <1> DEFINE new == fd_cursor_set(fd, o)
             first == FirstIndex(UsageOf(o))
  <1>1. /\ new \in Fd
        /\ new.inum = fd.inum
        /\ new.usage = UsageOf(o)
        /\ new.order = (o \div BlockSize) - first
        /\ new.off = o % BlockSize
    <2>1. (o \div BlockSize) - first \in Nat
      BY UsageStart, DivMod, SMT
    <2> QED BY <2>1, UsageStart, DivMod DEF fd_cursor_set, Fd
  <1>2. fd_cursor_get_block_index(new) = o \div BlockSize
    BY <1>1, UsageStart, DivMod, SMT DEF fd_cursor_get_block_index
  <1>3. fd_cursor_get(new) = (o \div BlockSize) * BlockSize + (o % BlockSize)
    BY <1>1, <1>2 DEF fd_cursor_get
  <1>4. (o \div BlockSize) * BlockSize = BlockSize * (o \div BlockSize)
    BY DivMod, ShapeAssumption, SMT
  <1> QED BY <1>1, <1>2, <1>3, <1>4, DivMod

\* A cursor is a natural number.
LEMMA CursorNat ==
    ASSUME NEW fd \in Fd
    PROVE  /\ fd_cursor_get_block_index(fd) \in Nat
           /\ fd_cursor_get(fd) \in Nat
           /\ fd.off \in Slots
           /\ fd_cursor_get(fd) = fd_cursor_get_block_index(fd) * BlockSize + fd.off
  <1>1. fd.usage \in Usages /\ fd.order \in Nat /\ fd.off \in Slots
    BY DEF Fd
  <1>2. FirstIndex(fd.usage) \in Nat
    BY <1>1, ShapeAssumption DEF Usages, FirstIndex, IndirectStart, DoubleStart
  <1>3. fd_cursor_get_block_index(fd) \in Nat
    BY <1>1, <1>2 DEF fd_cursor_get_block_index
  <1> QED BY <1>1, <1>3, TimesBlock, SMT DEF fd_cursor_get, Slots

\* A cursor in the file that needs a new block is at the end of the file,
\* which is then a whole number of blocks.
LEMMA AtEnd ==
    ASSUME NEW inode \in Inode, NEW fd \in Fd,
           fd_cursor_get(fd) <= inode.size,
           ~cursor_in_owned_block(inode, fd)
    PROVE  fd.off = 0 /\ fd_cursor_get(fd) = inode.size
  <1> DEFINE i == fd_cursor_get_block_index(fd)
  <1>1. inode.size \in Nat
    BY DEF Inode
  <1>2. ~(i * BlockSize < inode.size)
    BY <1>1, CursorNat, CeilDivFacts DEF cursor_in_owned_block
  <1> QED BY <1>1, <1>2, CursorNat, TimesBlock, ShapeAssumption, SMT DEF Slots

-----------------------------------------------------------------------------
(* The inductive invariant.                                                *)

\* Where fs_write holds a data block it has not linked yet.
Attaching == {"link", "indirect inode", "indirect block", "double inode",
              "double", "double block", "inner block", "undo"}

\* Each step finds the block it is about to link in its local variable.
HeldBlocks ==
    /\ call.pc \in Attaching => call.new_ptr \in Blocks
    /\ call.pc \in {"indirect inode", "double block"} => call.new_ind \in Blocks
    /\ call.pc = "double inode" => call.new_db \in Blocks

\* Open descriptors are on files, with the cursor in the file.
OpenInFile ==
    \A d \in fd_used :
        /\ fd_tab[d].inum \in Inodes
        /\ fd_cursor_get(fd_tab[d]) <= inodes[fd_tab[d].inum].size

\* A running call works on an open descriptor; its inode is never shorter
\* than the stored one and its cursor never past either end.
CallInFile ==
    call.pc # "idle" =>
        /\ call.fd \in fd_used
        /\ call.lfd.inum = fd_tab[call.fd].inum
        /\ call.done <= Len(call.buf)
        /\ call.cursor = fd_cursor_get(call.lfd)
        /\ call.cursor <= call.ino.size
        /\ inodes[call.lfd.inum].size <= call.ino.size

\* Every block added, but perhaps the last, was filled from the buffer.
BlocksFilled ==
    /\ call.pc = "idle" => call.nptrs = 0 /\ call.buf = <<>>
    /\ call.pc = "loop" =>
         \/ call.nptrs * BlockSize <= call.done
         \/ call.done = Len(call.buf) /\ call.nptrs <= CeilDiv(Len(call.buf))
    /\ call.pc \in Attaching =>
         /\ call.nptrs * BlockSize <= call.done
         /\ call.done < Len(call.buf)
         /\ call.lfd.off = 0
    /\ call.pc = "chunk" =>
         /\ call.nptrs > 0
         /\ (call.nptrs - 1) * BlockSize <= call.done
         /\ call.done < Len(call.buf)
         /\ call.lfd.off = 0
    /\ call.pc = "finish" => call.nptrs <= CeilDiv(Len(call.buf))

IInv == TypeOK /\ HeldBlocks /\ OpenInFile /\ CallInFile /\ BlocksFilled

-----------------------------------------------------------------------------
(* The initial states.                                                     *)

\* What fs_format, fs_open and an idle call store has its type.
LEMMA ZeroTypes == ZeroFd \in Fd /\ NewInode \in Inode /\ Idle \in Call
  <1>1. ZeroFd \in Fd
    BY ShapeAssumption DEF ZeroFd, Fd, Slots, Usages
  <1>2. 0 \in Blocks
    BY ShapeAssumption DEF Blocks
  <1>3. NewInode \in Inode
    BY <1>2, ShapeAssumption DEF NewInode, Inode
  <1>4. Idle \in Call
    BY <1>1, <1>3, ShapeAssumption DEF Idle, Call, PCs, Fds
  <1> QED BY <1>1, <1>3, <1>4

\* A descriptor just opened, of whatever file, is at the start of it.
LEMMA CursorOfZero == \A i : fd_cursor_get([ZeroFd EXCEPT !.inum = i]) = 0
  BY ShapeAssumption DEF ZeroFd, fd_cursor_get, fd_cursor_get_block_index, FirstIndex

\* A freshly formatted and mounted device satisfies the invariant.
LEMMA InitInv == Init => IInv
  <1> SUFFICES ASSUME Init PROVE IInv
    OBVIOUS
  <1>1. TypeOK
    BY ZeroTypes, ShapeAssumption DEF Init, TypeOK, Blocks, Slots, Cells, NoResult, Result
  <1>2. HeldBlocks
    BY DEF Init, HeldBlocks, Idle, Attaching
  <1>3. OpenInFile
    BY DEF Init, OpenInFile
  <1>4. CallInFile
    BY DEF Init, CallInFile, Idle
  <1>5. BlocksFilled
    BY DEF Init, BlocksFilled, Idle, Attaching
  <1> QED BY <1>1, <1>2, <1>3, <1>4, <1>5 DEF IInv

-----------------------------------------------------------------------------
(* The steps of a running fs_write.                                        *)

\* What the invariant says of the locals of a running call.
LEMMA Locals ==
    ASSUME IInv, call.pc # "idle"
    PROVE  /\ call \in Call
           /\ call.fd \in fd_used /\ call.fd \in Fds
           /\ call.lfd \in Fd /\ call.lfd.inum \in Inodes
           /\ call.ino \in Inode /\ call.ino.size \in Nat
           /\ call.buf \in Seq(Data) /\ Len(call.buf) \in Nat
           /\ call.done \in Nat /\ call.cursor \in Nat /\ call.nptrs \in Nat
  <1>1. call \in Call /\ fd_used \subseteq Fds
    BY DEF IInv, TypeOK
  <1>2. call.fd \in fd_used /\ call.lfd.inum \in Inodes
    BY DEF IInv, OpenInFile, CallInFile
  <1>3. call.ino \in Inode /\ call.ino.size \in Nat
    BY <1>1 DEF Call, Inode
  <1>4. call.buf \in Seq(Data) /\ Len(call.buf) \in Nat
    BY <1>1 DEF Call
  <1> QED BY <1>1, <1>2, <1>3, <1>4 DEF Call

\* A step that stores the inode of the call, no shorter than it was.
LEMMA StoreGrows ==
    ASSUME IInv, call.pc # "idle", NEW inode \in Inode,
           call.ino.size <= inode.size, StoreInode(inode),
           UNCHANGED <<fd_used, fd_tab>>
    PROVE  /\ inodes' \in [Inodes -> Inode]
           /\ inodes'[call.lfd.inum] = inode
           /\ OpenInFile'
  <1>1. inodes \in [Inodes -> Inode] /\ fd_tab \in [Fds -> Fd] /\ fd_used \subseteq Fds
    BY DEF IInv, TypeOK
  <1>2. inodes' = [inodes EXCEPT ![call.lfd.inum] = inode]
    BY DEF StoreInode
  <1>3. inodes[call.lfd.inum].size <= inode.size
    <2>1. inodes[call.lfd.inum].size \in Nat /\ inode.size \in Nat /\ call.ino.size \in Nat
      BY <1>1, Locals DEF Inode
    <2> QED BY <2>1 DEF IInv, CallInFile
  <1>4. ASSUME NEW d \in fd_used
        PROVE  /\ fd_tab[d].inum \in Inodes
               /\ fd_cursor_get(fd_tab[d]) <= inodes'[fd_tab[d].inum].size
    <2>1. /\ fd_tab[d].inum \in Inodes
          /\ fd_cursor_get(fd_tab[d]) <= inodes[fd_tab[d].inum].size
      BY DEF IInv, OpenInFile
    <2>2. /\ fd_cursor_get(fd_tab[d]) \in Nat
          /\ inodes[fd_tab[d].inum].size \in Nat /\ inode.size \in Nat
      BY <1>1, <2>1, CursorNat DEF Inode
    <2>3. CASE fd_tab[d].inum = call.lfd.inum
      BY <1>1, <1>2, <1>3, <2>1, <2>2, <2>3
    <2>4. CASE fd_tab[d].inum # call.lfd.inum
      BY <1>1, <1>2, <2>1, <2>4
    <2> QED BY <2>3, <2>4
  <1>5. inodes' \in [Inodes -> Inode] /\ inodes'[call.lfd.inum] = inode
    BY <1>1, <1>2, Locals
  <1>6. OpenInFile'
    BY <1>4 DEF OpenInFile
  <1> QED BY <1>5, <1>6

\* A step that stores the inode with new pointers but the size it had.
LEMMA StorePointers ==
    ASSUME IInv, call.pc # "idle", call'.ino.size = call.ino.size,
           inodes' = [inodes EXCEPT ![call.lfd.inum] = call'.ino],
           mem' = mem, fbm' = fbm, InCall, call'.lfd = call.lfd,
           call'.fd = call.fd, call'.done = call.done, call'.buf = call.buf,
           call'.cursor = call.cursor, call' \in Call
    PROVE  TypeOK' /\ OpenInFile' /\ CallInFile'
  <1>0. PICK inode \in Inode : inode = call'.ino
    BY DEF Call
  <1>1. /\ inodes' \in [Inodes -> Inode]
        /\ inodes'[call.lfd.inum] = inode
        /\ OpenInFile'
    <2>1. StoreInode(inode) /\ UNCHANGED <<fd_used, fd_tab>>
      BY <1>0 DEF StoreInode, InCall, table
    <2>2. call.ino.size <= inode.size
      BY <1>0, Locals
    <2> QED BY <2>1, <2>2, StoreGrows
  <1>2. TypeOK'
    BY <1>1 DEF IInv, TypeOK, InCall, table
  <1>3. CallInFile'
    BY <1>0, <1>1, Locals DEF IInv, CallInFile, InCall, table
  <1> QED BY <1>1, <1>2, <1>3

\* A step that leaves the inodes and the progress of the call alone.
LEMMA KeepsProgress ==
    ASSUME IInv, call.pc # "idle", inodes' = inodes, InCall,
           mem' \in [Blocks -> [Slots -> Cells]], fbm' \subseteq Blocks,
           call' \in Call, call'.lfd = call.lfd, call'.ino = call.ino,
           call'.fd = call.fd, call'.done = call.done, call'.buf = call.buf,
           call'.cursor = call.cursor
    PROVE  TypeOK' /\ OpenInFile' /\ CallInFile'
  <1>1. TypeOK'
    BY DEF IInv, TypeOK, InCall, table
  <1>2. OpenInFile'
    BY DEF IInv, OpenInFile, InCall, table
  <1>3. CallInFile'
    BY DEF IInv, CallInFile, InCall, table
  <1> QED BY <1>1, <1>2, <1>3

\* Poking a pointer into a block keeps the type of the device.
LEMMA PokeType ==
    ASSUME IInv, NEW b, NEW k, NEW ptr \in Blocks, Poke(b, k, ptr)
    PROVE  mem' \in [Blocks -> [Slots -> Cells]]
  BY DEF IInv, TypeOK, Poke, Cells

\* Blocks filled from d of n cells, with more to come, are fewer than n needs.
LEMMA FilledFits ==
    ASSUME NEW p \in Nat, NEW d \in Nat, NEW n \in Nat,
           p * BlockSize <= d, d < n
    PROVE  p < CeilDiv(n) /\ p <= CeilDiv(n)
  <1>1. p * BlockSize \in Nat
    BY TimesBlock
  <1>2. p * BlockSize < n
    BY <1>1
  <1> QED BY <1>2, CeilDivFacts, SMT

\* A step of a running call that only takes or gives back blocks.
LEMMA TakesBlocks ==
    ASSUME IInv,
           \/ AllocData \/ DeviceFull \/ AllocIndirect \/ AllocDouble
           \/ AllocInner \/ Undo
    PROVE  IInv'
  <1> USE DEF At
  <1>0. call.pc # "idle"
    BY DEF AllocData, DeviceFull, AllocIndirect, AllocDouble, AllocInner, Undo, InDouble
  <1>1. call \in Call /\ fbm \subseteq Blocks
    BY DEF IInv, TypeOK
  <1>2. /\ inodes' = inodes /\ mem' = mem /\ InCall
        /\ call'.lfd = call.lfd /\ call'.ino = call.ino /\ call'.fd = call.fd
        /\ call'.done = call.done /\ call'.buf = call.buf
        /\ call'.cursor = call.cursor /\ call'.nptrs = call.nptrs
        /\ call' \in Call /\ fbm' \subseteq Blocks
        /\ call'.pc # "idle"
    <2>1. CASE AllocData
      BY <1>1, <2>1 DEF AllocData, block_store_allocate, Call, PCs
    <2>2. CASE DeviceFull
      BY <1>1, <2>2 DEF DeviceFull, device, Call, PCs
    <2>3. CASE AllocIndirect
      BY <1>1, <2>3, ZenonT(30) DEF AllocIndirect, block_store_allocate, NoPointerBlock, Call, PCs
    <2>4. CASE AllocDouble
      BY <1>1, <2>4, ZenonT(30) DEF AllocDouble, block_store_allocate, NoPointerBlock, Call, PCs
    <2>5. CASE AllocInner
      BY <1>0, <1>1, <2>5, ZenonT(30) DEF AllocInner, block_store_allocate, NoPointerBlock, Call, PCs
    <2>6. CASE Undo
      BY <1>1, <2>6, ZenonT(30) DEF Undo, Call, PCs
    <2> QED BY <2>1, <2>2, <2>3, <2>4, <2>5, <2>6
  <1>3. mem' \in [Blocks -> [Slots -> Cells]]
    BY <1>2 DEF IInv, TypeOK
  <1>4. TypeOK' /\ OpenInFile' /\ CallInFile'
    BY <1>0, <1>2, <1>3, KeepsProgress
  <1>5. HeldBlocks'
    <2>1. CASE AllocData
      BY <1>1, <2>1 DEF AllocData, HeldBlocks, Attaching, Call
    <2>2. CASE DeviceFull
      BY <1>1, <2>2 DEF DeviceFull, HeldBlocks, Attaching, Call
    <2>3. CASE AllocIndirect
      BY <1>1, <2>3 DEF AllocIndirect, NoPointerBlock, IInv, HeldBlocks, Attaching, Call
    <2>4. CASE AllocDouble
      BY <1>1, <2>4 DEF AllocDouble, NoPointerBlock, IInv, HeldBlocks, Attaching, Call
    <2>5. CASE AllocInner
      BY <1>1, <2>5 DEF AllocInner, InDouble, NoPointerBlock, IInv, HeldBlocks, Attaching, Call
    <2>6. CASE Undo
      BY <1>1, <2>6 DEF Undo, IInv, HeldBlocks, Attaching, Call
    <2> QED BY <2>1, <2>2, <2>3, <2>4, <2>5, <2>6
  <1>6. BlocksFilled'
    <2>1. CASE AllocData \/ DeviceFull
      <3>1. /\ call.nptrs * BlockSize <= call.done
            /\ call.done < Len(call.buf)
        <4>1. call.pc = "loop" /\ call.done < Len(call.buf)
          BY <2>1 DEF AllocData, DeviceFull
        <4>2. call.done # Len(call.buf)
          BY <1>0, <4>1, Locals
        <4> QED BY <4>1, <4>2 DEF IInv, BlocksFilled
      <3>2. call.lfd.off = 0
        <4>1. ~cursor_in_owned_block(call.ino, call.lfd)
          BY <2>1 DEF AllocData, DeviceFull, NeedsBlock
        <4>2. fd_cursor_get(call.lfd) <= call.ino.size
          BY <1>0 DEF IInv, CallInFile
        <4> QED BY <1>0, <4>1, <4>2, Locals, AtEnd
      <3>3. call.nptrs <= CeilDiv(Len(call.buf))
        BY <1>0, <3>1, Locals, FilledFits
      <3>4. call'.pc \in {"link", "finish"}
        BY <1>1, <2>1 DEF AllocData, DeviceFull, Call
      <3> QED BY <1>2, <3>1, <3>2, <3>3, <3>4 DEF BlocksFilled, Attaching
    <2>2. CASE AllocIndirect \/ AllocDouble \/ AllocInner
      <3>1. call.pc \in Attaching /\ call'.pc \in Attaching
        BY <1>1, <2>2 DEF AllocIndirect, AllocDouble, AllocInner, InDouble,
                          NoPointerBlock, Attaching, Call
      <3> QED BY <1>2, <3>1 DEF IInv, BlocksFilled, Attaching
    <2>3. CASE Undo
      <3>1. /\ call.nptrs * BlockSize <= call.done
            /\ call.done < Len(call.buf)
            /\ call.lfd.off = 0
        BY <2>3 DEF Undo, IInv, BlocksFilled, Attaching
      <3>2. call.nptrs <= CeilDiv(Len(call.buf))
        BY <1>0, <3>1, Locals, FilledFits
      <3>3. call'.pc \in {"undo", "finish"}
        BY <1>1, <2>3 DEF Undo, Call
      <3> QED BY <1>2, <3>1, <3>2, <3>3 DEF BlocksFilled, Attaching
    <2> QED BY <2>1, <2>2, <2>3
  <1> QED BY <1>4, <1>5, <1>6 DEF IInv

\* A step of a running call that stores a pointer: in the inode, in the
\* double indirect block, or the one that links the data block.
LEMMA StoresPointer ==
    ASSUME IInv,
           \/ LinkDirect \/ StoreIndirect \/ LinkIndirect \/ StoreDouble
           \/ StoreInner \/ LinkInner
    PROVE  IInv'
  <1> USE DEF At
  <1>0. call.pc # "idle" /\ call.pc \in Attaching
    BY DEF LinkDirect, StoreIndirect, LinkIndirect, StoreDouble, StoreInner,
           LinkInner, InDouble, Attaching
  <1>1. /\ call \in Call /\ fbm \subseteq Blocks /\ call.ino \in Inode
        /\ inodes \in [Inodes -> Inode] /\ mem \in [Blocks -> [Slots -> Cells]]
    BY <1>0, Locals DEF IInv, TypeOK
  <1>2. call.new_ptr \in Blocks
    BY <1>0 DEF IInv, HeldBlocks
  <1>3. /\ call.nptrs * BlockSize <= call.done
        /\ call.done < Len(call.buf)
        /\ call.lfd.off = 0
    BY <1>0 DEF IInv, BlocksFilled
  <1>4. ASSUME NEW inode \in Inode, call' = Added(inode)
        PROVE  /\ call' \in Call /\ call'.pc = "chunk" /\ call'.ino = inode
               /\ call'.lfd = call.lfd /\ call'.fd = call.fd /\ call'.done = call.done
               /\ call'.buf = call.buf /\ call'.cursor = call.cursor
               /\ call'.nptrs = call.nptrs + 1
    <2> DEFINE next == [call EXCEPT !.pc = "chunk", !.ino = inode, !.nptrs = @ + 1,
                        !.new_ptr = NONE, !.new_ind = NONE, !.new_db = NONE]
    <2>1. call' = next
      BY <1>4 DEF Added
    <2>2. call.nptrs + 1 \in Nat
      BY <1>0, Locals
    <2>3. next \in Call
      BY <1>1, <1>4, <2>2 DEF Call, PCs
    <2>4. /\ next.pc = "chunk" /\ next.ino = inode
          /\ next.lfd = call.lfd /\ next.fd = call.fd /\ next.done = call.done
          /\ next.buf = call.buf /\ next.cursor = call.cursor
          /\ next.nptrs = call.nptrs + 1
      BY <1>1 DEF Call
    <2> QED BY <2>1, <2>3, <2>4
  <1>5. ASSUME call'.pc = "chunk", call'.nptrs = call.nptrs + 1, call'.lfd = call.lfd,
               call'.done = call.done, call'.buf = call.buf
        PROVE  HeldBlocks' /\ BlocksFilled'
    <2>1. call'.nptrs > 0 /\ call'.nptrs - 1 = call.nptrs
      BY <1>0, <1>5, Locals
    <2> QED BY <1>3, <1>5, <2>1 DEF HeldBlocks, BlocksFilled, Attaching
  <1>6. ASSUME call'.pc \in Attaching, call'.nptrs = call.nptrs, call'.lfd = call.lfd,
               call'.done = call.done, call'.buf = call.buf
        PROVE  BlocksFilled'
    BY <1>3, <1>6 DEF BlocksFilled, Attaching
  <1>7. CASE LinkDirect
    <2> DEFINE inode == [call.ino EXCEPT !.direct[NewIndex] = call.new_ptr]
    <2>1. inode \in Inode /\ inode.size = call.ino.size
      BY <1>1, <1>2 DEF Inode
    <2>2. StoreInode(inode) /\ call' = Added(inode) /\ mem' = mem /\ fbm' = fbm /\ InCall
      BY <1>7 DEF LinkDirect
    <2> HIDE DEF inode
    <2>3. /\ call' \in Call /\ call'.pc = "chunk" /\ call'.ino = inode
          /\ call'.lfd = call.lfd /\ call'.fd = call.fd /\ call'.done = call.done
          /\ call'.buf = call.buf /\ call'.cursor = call.cursor
          /\ call'.nptrs = call.nptrs + 1
      BY <1>4, <2>1, <2>2
    <2>4. TypeOK' /\ OpenInFile' /\ CallInFile'
      <3>1. inodes' = [inodes EXCEPT ![call.lfd.inum] = call'.ino]
        BY <2>2, <2>3 DEF StoreInode
      <3> QED BY <1>0, <2>1, <2>2, <2>3, <3>1, StorePointers
    <2> QED BY <1>5, <2>3, <2>4 DEF IInv
  <1>8. CASE StoreIndirect
    <2> DEFINE inode == [call.ino EXCEPT !.ind = call.new_ind]
    <2>1. inode \in Inode /\ inode.size = call.ino.size
      BY <1>1, <1>8 DEF Inode, StoreIndirect, IInv, HeldBlocks
    <2>2. /\ StoreInode(inode) /\ mem' = mem /\ fbm' = fbm /\ InCall
          /\ call' = [call EXCEPT !.pc = "indirect block", !.ino = inode]
      BY <1>8 DEF StoreIndirect
    <2> HIDE DEF inode
    <2>3. /\ call' \in Call /\ call'.pc = "indirect block" /\ call'.ino = inode
          /\ call'.lfd = call.lfd /\ call'.fd = call.fd /\ call'.done = call.done
          /\ call'.buf = call.buf /\ call'.cursor = call.cursor
          /\ call'.nptrs = call.nptrs /\ call'.new_ptr = call.new_ptr
      BY <1>1, <2>1, <2>2 DEF Call, PCs
    <2>4. TypeOK' /\ OpenInFile' /\ CallInFile'
      <3>1. inodes' = [inodes EXCEPT ![call.lfd.inum] = call'.ino]
        BY <2>2, <2>3 DEF StoreInode
      <3> QED BY <1>0, <2>1, <2>2, <2>3, <3>1, StorePointers
    <2>5. HeldBlocks' /\ BlocksFilled'
      BY <1>2, <1>6, <2>3 DEF HeldBlocks, Attaching
    <2> QED BY <2>4, <2>5 DEF IInv
  <1>9. CASE StoreDouble
    <2> DEFINE inode == [call.ino EXCEPT !.dbl = call.new_db]
    <2>1. inode \in Inode /\ inode.size = call.ino.size
      BY <1>1, <1>9 DEF Inode, StoreDouble, IInv, HeldBlocks
    <2>2. /\ StoreInode(inode) /\ mem' = mem /\ fbm' = fbm /\ InCall
          /\ call' = [call EXCEPT !.pc = "double", !.ino = inode]
      BY <1>9 DEF StoreDouble
    <2> HIDE DEF inode
    <2>3. /\ call' \in Call /\ call'.pc = "double" /\ call'.ino = inode
          /\ call'.lfd = call.lfd /\ call'.fd = call.fd /\ call'.done = call.done
          /\ call'.buf = call.buf /\ call'.cursor = call.cursor
          /\ call'.nptrs = call.nptrs /\ call'.new_ptr = call.new_ptr
      BY <1>1, <2>1, <2>2 DEF Call, PCs
    <2>4. TypeOK' /\ OpenInFile' /\ CallInFile'
      <3>1. inodes' = [inodes EXCEPT ![call.lfd.inum] = call'.ino]
        BY <2>2, <2>3 DEF StoreInode
      <3> QED BY <1>0, <2>1, <2>2, <2>3, <3>1, StorePointers
    <2>5. HeldBlocks' /\ BlocksFilled'
      BY <1>2, <1>6, <2>3 DEF HeldBlocks, Attaching
    <2> QED BY <2>4, <2>5 DEF IInv
  <1>10. CASE LinkIndirect \/ LinkInner
    <2>1. /\ call' = Added(call.ino) /\ inodes' = inodes /\ fbm' = fbm /\ InCall
          /\ mem' \in [Blocks -> [Slots -> Cells]]
      BY <1>2, <1>10, PokeType DEF LinkIndirect, LinkInner
    <2>2. TypeOK' /\ OpenInFile' /\ CallInFile'
      BY <1>0, <1>1, <1>4, <2>1, KeepsProgress
    <2> QED BY <1>1, <1>4, <1>5, <2>1, <2>2 DEF IInv
  <1>11. CASE StoreInner
    <2>1. /\ call' = [call EXCEPT !.pc = "inner block"]
          /\ inodes' = inodes /\ fbm' = fbm /\ InCall
          /\ mem' \in [Blocks -> [Slots -> Cells]]
      BY <1>11, PokeType DEF StoreInner, IInv, HeldBlocks
    <2>2. /\ call' \in Call /\ call'.pc = "inner block" /\ call'.ino = call.ino
          /\ call'.lfd = call.lfd /\ call'.fd = call.fd /\ call'.done = call.done
          /\ call'.buf = call.buf /\ call'.cursor = call.cursor
          /\ call'.nptrs = call.nptrs /\ call'.new_ptr = call.new_ptr
      BY <1>1, <2>1 DEF Call, PCs
    <2>3. TypeOK' /\ OpenInFile' /\ CallInFile'
      BY <1>0, <1>1, <2>1, <2>2, KeepsProgress
    <2>4. HeldBlocks' /\ BlocksFilled'
      BY <1>2, <1>6, <2>2 DEF HeldBlocks, Attaching
    <2> QED BY <2>3, <2>4 DEF IInv
  <1> QED BY <1>7, <1>8, <1>9, <1>10, <1>11

\* One turn of the loop moves the cursor, and the end of the file with it.
LEMMA ChunkInv == ASSUME IInv, WriteChunk PROVE IInv'
  <1> DEFINE off == call.lfd.off
             n   == MinOf(Len(call.buf) - call.done, BlockSize - off)
             cur == call.cursor + n
             lfd == fd_cursor_set(call.lfd, cur)
             b   == FdBlock(call.ino, call.lfd)
             old == mem[b]
             new == [j \in Slots |-> IF off <= j /\ j < off + n
                        THEN call.buf[call.done + (j - off) + 1] ELSE old[j]]
  <1>0. call.pc # "idle" /\ call.pc \in {"chunk", "loop"}
    BY DEF WriteChunk, At
  <1>1. /\ call \in Call /\ fbm \subseteq Blocks
        /\ inodes \in [Inodes -> Inode] /\ mem \in [Blocks -> [Slots -> Cells]]
    BY <1>0, Locals DEF IInv, TypeOK
  <1>2. /\ mem' = [mem EXCEPT ![b] = new]
        /\ call' = [call EXCEPT !.pc = "loop", !.done = @ + n, !.cursor = cur,
                               !.lfd = lfd, !.ino.size = MaxOf(@, cur)]
        /\ fbm' = fbm /\ inodes' = inodes /\ InCall
    BY DEF WriteChunk
  <1>3. call.done < Len(call.buf)
    <2>1. CASE call.pc = "chunk"
      BY <2>1 DEF IInv, BlocksFilled
    <2>2. CASE call.pc = "loop"
      BY <2>2 DEF WriteChunk, At
    <2> QED BY <1>0, <2>1, <2>2
  <1>4. /\ n \in Nat /\ n > 0 /\ call.done + n <= Len(call.buf)
        /\ n <= Len(call.buf) - call.done /\ n <= BlockSize - off
        /\ n = Len(call.buf) - call.done \/ n = BlockSize - off
        /\ off \in Slots /\ cur \in Nat /\ call.cursor \in Nat
    <2>1. off \in Slots /\ BlockSize \in Nat
      BY <1>0, Locals, CursorNat, ShapeAssumption
    <2>2. Len(call.buf) \in Nat /\ call.done \in Nat /\ call.cursor \in Nat
      BY <1>0, Locals
    <2> HIDE DEF off
    <2> QED BY <1>3, <2>1, <2>2 DEF MinOf, Slots
  <1>5. /\ lfd \in Fd /\ lfd.inum = call.lfd.inum /\ fd_cursor_get(lfd) = cur
    BY <1>0, <1>4, Locals, CursorRoundTrip
  <1>6. mem' \in [Blocks -> [Slots -> Cells]]
    <2>1. ASSUME NEW j \in Slots, off <= j, j < off + n
          PROVE  call.buf[call.done + (j - off) + 1] \in Cells
      <3>1. call.done + (j - off) + 1 \in 1 .. Len(call.buf)
        <4>1. Len(call.buf) \in Nat /\ call.done \in Nat /\ j \in Int
          BY <1>0, Locals DEF Slots
        <4> HIDE DEF off, n
        <4> QED BY <1>4, <2>1, <4>1, SMTT(30) DEF Slots
      <3>2. call.buf \in Seq(Data)
        BY <1>0, Locals
      <3> QED BY <3>1, <3>2 DEF Cells
    <2>2. b \in Blocks => new \in [Slots -> Cells]
      BY <1>1, <2>1
    <2> HIDE DEF new, b
    <2> QED BY <1>1, <1>2, <2>2
  <1> HIDE DEF off, n, cur, lfd, new, b
  <1>7. /\ call' \in Call /\ call'.pc = "loop" /\ call'.done = call.done + n
        /\ call'.cursor = cur /\ call'.lfd = lfd /\ call'.fd = call.fd
        /\ call'.buf = call.buf /\ call'.nptrs = call.nptrs
        /\ call'.ino.size = MaxOf(call.ino.size, cur)
    <2>1. call.done + n \in Nat /\ MaxOf(call.ino.size, cur) \in Nat
      BY <1>0, <1>4, Locals DEF MaxOf
    <2>2. [call.ino EXCEPT !.size = MaxOf(call.ino.size, cur)] \in Inode
      BY <1>0, <2>1, Locals DEF Inode
    <2> DEFINE ino == [call.ino EXCEPT !.size = MaxOf(call.ino.size, cur)]
               next == [call EXCEPT !.pc = "loop", !.done = call.done + n,
                          !.cursor = cur, !.lfd = lfd, !.ino = ino]
    <2>3. call' = next
      BY <1>1, <1>2 DEF Call
    <2>4. ino \in Inode /\ ino.size = MaxOf(call.ino.size, cur)
      BY <1>0, <2>2, Locals DEF Inode
    <2> HIDE DEF ino
    <2>5. next \in Call
      BY <1>1, <1>4, <1>5, <2>1, <2>4 DEF Call, PCs
    <2>6. /\ next.pc = "loop" /\ next.done = call.done + n
          /\ next.cursor = cur /\ next.lfd = lfd /\ next.fd = call.fd
          /\ next.buf = call.buf /\ next.nptrs = call.nptrs /\ next.ino = ino
      BY <1>1 DEF Call
    <2> QED BY <2>3, <2>4, <2>5, <2>6
  <1>8. TypeOK'
    BY <1>2, <1>6, <1>7 DEF IInv, TypeOK, InCall, table
  <1>9. OpenInFile'
    BY <1>2 DEF IInv, OpenInFile, InCall, table
  <1>10. CallInFile'
    <2>1. /\ cur <= MaxOf(call.ino.size, cur)
          /\ inodes[call.lfd.inum].size <= MaxOf(call.ino.size, cur)
      <3>1. inodes[call.lfd.inum].size \in Nat /\ call.ino.size \in Nat
        BY <1>0, <1>1, Locals DEF Inode
      <3>2. inodes[call.lfd.inum].size <= call.ino.size
        BY <1>0 DEF IInv, CallInFile
      <3> QED BY <1>4, <3>1, <3>2 DEF MaxOf
    <2>2. call.fd \in fd_used /\ call.lfd.inum = fd_tab[call.fd].inum
      BY <1>0 DEF IInv, CallInFile
    <2> QED BY <1>2, <1>4, <1>5, <1>7, <2>1, <2>2 DEF CallInFile, InCall, table
  <1>11. HeldBlocks'
    BY <1>7 DEF HeldBlocks, Attaching
  <1>12. BlocksFilled'
    <2>1. \/ call.nptrs * BlockSize <= call.done + n
          \/ /\ call.done + n = Len(call.buf)
             /\ call.nptrs <= CeilDiv(Len(call.buf))
      <3>1. CASE call.pc = "loop"
        <4>1. call.nptrs * BlockSize <= call.done
          BY <1>0, <1>3, <3>1, Locals DEF IInv, BlocksFilled
        <4>2. /\ call.nptrs * BlockSize \in Nat /\ call.done \in Nat
          BY <1>0, Locals, TimesBlock
        <4>3. n \in Nat
          BY <1>4
        <4> QED BY <4>1, <4>2, <4>3
      <3>2. CASE call.pc = "chunk"
        <4>1. /\ call.nptrs > 0 /\ off = 0
              /\ (call.nptrs - 1) * BlockSize <= call.done
          BY <3>2 DEF IInv, BlocksFilled, off
        <4> DEFINE p == call.nptrs - 1
        <4>2. p \in Nat /\ call.nptrs = p + 1
          BY <1>0, <4>1, Locals
        <4> HIDE DEF p
        <4>3. call.nptrs * BlockSize = p * BlockSize + BlockSize
          BY <4>2, ShapeAssumption, SMT
        <4>4. p * BlockSize <= call.done
          BY <4>1 DEF p
        <4>5. CASE n = BlockSize - off
          BY <1>0, <4>1, <4>2, <4>3, <4>4, <4>5, Locals, TimesBlock, ShapeAssumption
        <4>6. CASE n = Len(call.buf) - call.done
          <5>1. p < CeilDiv(Len(call.buf)) /\ CeilDiv(Len(call.buf)) \in Nat
            BY <1>0, <1>3, <4>2, <4>4, Locals, FilledFits, CeilDivFacts
          <5> QED BY <1>0, <4>2, <4>6, <5>1, Locals
        <4> QED BY <1>4, <4>5, <4>6
      <3> QED BY <1>0, <3>1, <3>2
    <2> QED BY <1>7, <2>1 DEF BlocksFilled, Attaching
  <1> QED BY <1>8, <1>9, <1>10, <1>11, <1>12 DEF IInv

\* fs_write returns: descriptor and inode are stored.
LEMMA FinishInv == ASSUME IInv, Finish PROVE IInv'
  <1>0. call.pc # "idle"
    BY DEF Finish, At
  <1>1. /\ fd_tab' = [fd_tab EXCEPT ![call.fd] = call.lfd]
        /\ inodes' = [inodes EXCEPT ![call.lfd.inum] = call.ino]
        /\ call' = Idle /\ res' = Result(call.done, <<>>)
        /\ UNCHANGED <<fbm, mem, fd_used, mounted, taken, writes>>
    BY DEF Finish, StoreInode
  <1>2. TypeOK'
    BY <1>0, <1>1, ZeroTypes, Locals DEF IInv, TypeOK, Result
  <1>3. OpenInFile'
    <2>1. /\ inodes \in [Inodes -> Inode] /\ fd_tab \in [Fds -> Fd] /\ fd_used \subseteq Fds
      BY DEF IInv, TypeOK
    <2>2. ASSUME NEW d \in fd_used
          PROVE  /\ fd_tab'[d].inum \in Inodes
                 /\ fd_cursor_get(fd_tab'[d]) <= inodes'[fd_tab'[d].inum].size
      <3>1. CASE d = call.fd
        <4>1. fd_tab'[d] = call.lfd /\ inodes'[call.lfd.inum] = call.ino
          BY <1>0, <1>1, <2>1, <3>1, Locals
        <4>2. fd_cursor_get(call.lfd) <= call.ino.size
          BY <1>0 DEF IInv, CallInFile
        <4> QED BY <1>0, <4>1, <4>2, Locals
      <3>2. CASE d # call.fd
        <4>1. fd_tab'[d] = fd_tab[d]
          BY <1>1, <2>1, <3>2
        <4>2. /\ fd_tab[d].inum \in Inodes
              /\ fd_cursor_get(fd_tab[d]) <= inodes[fd_tab[d].inum].size
          BY DEF IInv, OpenInFile
        <4>3. inodes[call.lfd.inum].size <= call.ino.size
          BY <1>0 DEF IInv, CallInFile
        <4>4. /\ fd_cursor_get(fd_tab[d]) \in Nat /\ call.ino.size \in Nat
              /\ inodes[fd_tab[d].inum].size \in Nat
          BY <1>0, <2>1, <4>2, Locals, CursorNat DEF Inode
        <4>5. CASE fd_tab[d].inum = call.lfd.inum
          BY <1>1, <2>1, <4>1, <4>2, <4>3, <4>4, <4>5
        <4>6. CASE fd_tab[d].inum # call.lfd.inum
          BY <1>1, <2>1, <4>1, <4>2, <4>6
        <4> QED BY <4>5, <4>6
      <3> QED BY <3>1, <3>2
    <2> QED BY <1>1, <2>2 DEF OpenInFile
  <1>4. CallInFile' /\ HeldBlocks' /\ BlocksFilled'
    BY <1>1 DEF Idle, CallInFile, HeldBlocks, BlocksFilled, Attaching
  <1> QED BY <1>2, <1>3, <1>4 DEF IInv

-----------------------------------------------------------------------------
(* The calls that are one step, and the steps around them.                 *)

\* Between calls only the descriptors matter: the rest of the invariant is
\* about a running call.
LEMMA QuietStep ==
    ASSUME IInv, call.pc = "idle", UNCHANGED <<call, taken>>, mounted' \in BOOLEAN,
           fbm' = fbm, mem' = mem, inodes' = inodes, writes' \in Nat,
           fd_used' \subseteq Fds, fd_tab' \in [Fds -> Fd],
           res'.n \in Nat \cup {-1}, OpenInFile'
    PROVE  IInv'
  <1>1. TypeOK'
    BY DEF IInv, TypeOK
  <1>2. HeldBlocks' /\ CallInFile' /\ BlocksFilled'
    BY DEF IInv, HeldBlocks, CallInFile, BlocksFilled, Attaching
  <1> QED BY <1>1, <1>2 DEF IInv

\* A call that moves the cursor of one open descriptor within its file.
LEMMA MoveCursor ==
    ASSUME IInv, NEW d \in fd_used, NEW pos \in Nat,
           pos <= inodes[fd_tab[d].inum].size,
           fd_tab' = [fd_tab EXCEPT ![d] = fd_cursor_set(@, pos)],
           UNCHANGED <<fd_used, inodes>>
    PROVE  fd_tab' \in [Fds -> Fd] /\ OpenInFile'
  <1>1. fd_tab \in [Fds -> Fd] /\ d \in Fds
    BY DEF IInv, TypeOK
  <1>2. fd_tab' \in [Fds -> Fd]
    BY <1>1, CursorRoundTrip
  <1>3. ASSUME NEW e \in fd_used
        PROVE  /\ fd_tab'[e].inum \in Inodes
               /\ fd_cursor_get(fd_tab'[e]) <= inodes[fd_tab'[e].inum].size
    <2>1. /\ fd_tab[e].inum \in Inodes
          /\ fd_cursor_get(fd_tab[e]) <= inodes[fd_tab[e].inum].size
      BY DEF IInv, OpenInFile
    <2>2. CASE e = d
      BY <1>1, <2>1, <2>2, CursorRoundTrip
    <2>3. CASE e # d
      BY <1>1, <2>1, <2>3
    <2> QED BY <2>2, <2>3
  <1> QED BY <1>2, <1>3 DEF OpenInFile

\* fs_open, fs_close, fs_seek, fs_read, the start of fs_write, and the calls
\* refused for a bad descriptor keep the invariant.
LEMMA CallsInv ==
    ASSUME IInv, CallStart PROVE IInv'
  <1> USE DEF Ready, device, table
  <1>0. call.pc = "idle" /\ mounted
    BY DEF CallStart, DescriptorCall, fs_open, fs_close, fs_seek, fs_read, fs_write, BadDescriptor
  <1>1. /\ fd_tab \in [Fds -> Fd] /\ fd_used \subseteq Fds
        /\ inodes \in [Inodes -> Inode] /\ mounted \in BOOLEAN /\ writes \in Nat
        /\ res.n \in Nat \cup {-1}
    BY DEF IInv, TypeOK
  <1>2. ASSUME NEW d \in fd_used
        PROVE  /\ fd_tab[d] \in Fd /\ fd_tab[d].inum \in Inodes
               /\ inodes[fd_tab[d].inum] \in Inode
               /\ inodes[fd_tab[d].inum].size \in Nat
               /\ fd_cursor_get(fd_tab[d]) \in Nat
               /\ fd_cursor_get(fd_tab[d]) <= inodes[fd_tab[d].inum].size
    <2>1. /\ fd_tab[d] \in Fd /\ fd_tab[d].inum \in Inodes
          /\ fd_cursor_get(fd_tab[d]) <= inodes[fd_tab[d].inum].size
      BY <1>1 DEF IInv, OpenInFile
    <2> QED BY <1>1, <2>1, CursorNat DEF Inode
  <1>3. ASSUME NEW i \in Inodes, fs_open(i) PROVE IInv'
    <2>1. ASSUME NEW d \in Fds,
                 fd_used' = fd_used \cup {d},
                 fd_tab' = [fd_tab EXCEPT ![d] = [ZeroFd EXCEPT !.inum = i]],
                 res' = Result(d, <<>>)
          PROVE  IInv'
      <3>1. [ZeroFd EXCEPT !.inum = i] \in Fd /\ [ZeroFd EXCEPT !.inum = i].inum = i
        BY ZeroTypes DEF ZeroFd, Fd
      <3>2. fd_tab' \in [Fds -> Fd] /\ fd_used' \subseteq Fds /\ res'.n \in Nat \cup {-1}
        BY <1>1, <2>1, <3>1, ShapeAssumption DEF Result, Fds
      <3>3. ASSUME NEW e \in fd_used'
            PROVE  /\ fd_tab'[e].inum \in Inodes
                   /\ fd_cursor_get(fd_tab'[e]) <= inodes[fd_tab'[e].inum].size
        <4>1. CASE e = d
          <5>1. fd_tab'[e] = [ZeroFd EXCEPT !.inum = i]
            BY <1>1, <2>1, <4>1
          <5>2. inodes[i].size \in Nat
            BY <1>1 DEF Inode
          <5> QED BY <3>1, <5>1, <5>2, CursorOfZero
        <4>2. CASE e # d
          <5>1. e \in fd_used /\ fd_tab'[e] = fd_tab[e]
            BY <1>1, <2>1, <4>2
          <5> QED BY <1>2, <5>1
        <4> QED BY <4>1, <4>2
      <3>4. OpenInFile'
        BY <1>3, <3>3 DEF OpenInFile, fs_open
      <3> QED BY <1>0, <1>1, <1>3, <3>2, <3>4, QuietStep DEF fs_open
    <2>2. ASSUME res' = Error, UNCHANGED table
          PROVE  IInv'
      <3>1. OpenInFile' /\ res'.n \in Nat \cup {-1}
        BY <1>3, <2>2 DEF IInv, OpenInFile, fs_open, Error, Result
      <3> QED BY <1>0, <1>1, <1>3, <2>2, <3>1, QuietStep DEF fs_open
    <2> QED BY <1>3, <2>1, <2>2 DEF fs_open
  <1>4. ASSUME NEW d \in Fds, fs_close(d) PROVE IInv'
    <2>1. OpenInFile' /\ fd_used' \subseteq Fds /\ res'.n \in Nat \cup {-1}
      BY <1>1, <1>4 DEF IInv, OpenInFile, fs_close, Result
    <2> QED BY <1>0, <1>1, <1>4, <2>1, QuietStep DEF fs_close
  <1>5. ASSUME NEW d \in Fds, NEW o \in SeekOffsets, NEW w \in {"set", "cur", "end"},
               fs_seek(d, o, w)
        PROVE  IInv'
    <2> DEFINE size == inodes[fd_tab[d].inum].size
               new  == clamped_add(SeekBase(d, w), o, 0, size)
    <2>1. d \in fd_used /\ res' = Result(new, <<>>)
          /\ fd_tab' = [fd_tab EXCEPT ![d] = fd_cursor_set(@, new)]
      BY <1>5 DEF fs_seek
    <2>2. new \in Nat /\ new <= size
      <3>1. SeekBase(d, w) \in Nat
        BY <1>2, <2>1 DEF SeekBase
      <3>2. o \in Int /\ size \in Nat
        BY <1>2, <2>1, InputAssumption
      <3> QED BY <3>1, <3>2 DEF clamped_add
    <2> HIDE DEF new
    <2>3. fd_tab' \in [Fds -> Fd] /\ OpenInFile'
      <3>1. PICK pos \in Nat : pos = new
        BY <2>2
      <3> QED BY <1>5, <2>1, <2>2, <3>1, MoveCursor DEF fs_seek
    <2>4. res'.n \in Nat \cup {-1}
      BY <2>1, <2>2 DEF Result
    <2> QED BY <1>0, <1>1, <1>5, <2>3, <2>4, QuietStep DEF fs_seek
  <1>6. ASSUME NEW d \in Fds, NEW nbyte \in ReadSizes, fs_read(d, nbyte) PROVE IInv'
    <2> DEFINE fd     == fd_tab[d]
               inode  == inodes[fd.inum]
               cursor == fd_cursor_get(fd)
               n      == MinOf(nbyte, inode.size - cursor)
    <2>1. d \in fd_used
      BY <1>6 DEF fs_read
    <2>2. n \in Nat /\ cursor + n \in Nat /\ cursor + n <= inode.size
      <3>1. cursor \in Nat /\ inode.size \in Nat /\ cursor <= inode.size /\ nbyte \in Nat
        BY <1>2, <2>1, InputAssumption
      <3> HIDE DEF cursor, inode
      <3> QED BY <3>1 DEF MinOf
    <2>3. fd_tab' \in [Fds -> Fd] /\ OpenInFile' /\ res'.n \in Nat \cup {-1}
      <3>1. CASE cursor >= inode.size
        <4>1. res' = Result(0, <<>>) /\ fd_tab' = fd_tab
          BY <1>6, <3>1 DEF fs_read
        <4> QED BY <1>1, <1>6, <4>1 DEF IInv, OpenInFile, fs_read, Result
      <3>2. CASE ~(cursor >= inode.size)
        <4>1. /\ fd_tab' = [fd_tab EXCEPT ![d] = fd_cursor_set(@, cursor + n)]
              /\ res'.n = n
          BY <1>6, <3>2 DEF fs_read, Result
        <4>2. PICK pos \in Nat : pos = cursor + n
          BY <2>2
        <4>3. fd_tab' \in [Fds -> Fd] /\ OpenInFile'
          BY <1>6, <2>1, <2>2, <4>1, <4>2, MoveCursor DEF fs_read
        <4> QED BY <2>2, <4>1, <4>3
      <3> QED BY <3>1, <3>2
    <2> QED BY <1>0, <1>1, <1>6, <2>3, QuietStep DEF fs_read
  <1>7. ASSUME NEW d \in Fds, NEW buf \in Buffers, fs_write(d, buf) PROVE IInv'
    <2> DEFINE ino  == inodes[fd_tab[d].inum]
               next == [Idle EXCEPT !.pc = "loop", !.fd = d, !.lfd = fd_tab[d],
                            !.ino = ino, !.buf = buf,
                            !.cursor = fd_cursor_get(fd_tab[d])]
    <2>1. d \in fd_used /\ buf \in Seq(Data)
      BY <1>7, InputAssumption DEF fs_write
    <2>2. /\ call' = next /\ res' = NoResult /\ writes' = writes + 1
          /\ UNCHANGED <<fbm, mem, inodes, fd_used, fd_tab, mounted, taken>>
      BY <1>7 DEF fs_write
    <2>3. next \in Call
      BY <1>2, <2>1, ZeroTypes DEF Call, PCs
    <2>4. /\ next.pc = "loop" /\ next.fd = d /\ next.lfd = fd_tab[d] /\ next.ino = ino
          /\ next.buf = buf /\ next.cursor = fd_cursor_get(fd_tab[d])
          /\ next.done = 0 /\ next.nptrs = 0
      BY DEF Idle
    <2> HIDE DEF next
    <2>5. TypeOK'
      BY <1>1, <2>2, <2>3 DEF IInv, TypeOK, NoResult, Result
    <2>6. OpenInFile' /\ HeldBlocks'
      BY <2>2, <2>4 DEF IInv, OpenInFile, HeldBlocks, Attaching
    <2>7. CallInFile'
      BY <1>2, <2>1, <2>2, <2>4 DEF CallInFile
    <2>8. BlocksFilled'
      BY <2>2, <2>4, ShapeAssumption DEF BlocksFilled, Attaching
    <2> QED BY <2>5, <2>6, <2>7, <2>8 DEF IInv
  <1>8. ASSUME NEW d \in Fds, BadDescriptor(d) PROVE IInv'
    <2>1. OpenInFile' /\ res'.n \in Nat \cup {-1}
      BY <1>8 DEF IInv, OpenInFile, BadDescriptor, Error, Result
    <2> QED BY <1>0, <1>1, <1>8, <2>1, QuietStep DEF BadDescriptor
  <1> QED BY <1>3, <1>4, <1>5, <1>6, <1>7, <1>8 DEF CallStart, DescriptorCall

\* fs_unmount, the death of the process in a call, fs_mount.
LEMMA MountsInv ==
    ASSUME IInv, fs_unmount \/ Crash \/ fs_mount
    PROVE  IInv'
  <1>1. CASE fs_unmount \/ Crash
    <2>1. call' = Idle \/ (call' = call /\ call.pc = "idle")
      <3>1. CASE fs_unmount
        BY <3>1 DEF fs_unmount, Ready
      <3>2. CASE Crash
        BY <3>2 DEF Crash
      <3> QED BY <1>1, <3>1, <3>2
    <2>2. DropTable
      BY <1>1 DEF fs_unmount, Crash
    <2>3. TypeOK'
      BY <2>1, <2>2, ZeroTypes DEF IInv, TypeOK, DropTable, device, NoResult, Result
    <2>4. OpenInFile'
      BY <2>2 DEF DropTable, OpenInFile
    <2>5. HeldBlocks' /\ CallInFile' /\ BlocksFilled'
      <3>1. CASE call' = Idle
        BY <3>1 DEF HeldBlocks, CallInFile, BlocksFilled, Attaching, Idle
      <3>2. CASE call' = call /\ call.pc = "idle"
        BY <3>2 DEF IInv, HeldBlocks, CallInFile, BlocksFilled, Attaching
      <3> QED BY <2>1, <3>1, <3>2
    <2> QED BY <2>3, <2>4, <2>5 DEF IInv
  <1>2. CASE fs_mount
    BY <1>2 DEF fs_mount, device, table, IInv, TypeOK, HeldBlocks, OpenInFile,
                CallInFile, BlocksFilled
  <1> QED BY <1>1, <1>2

\* Blocks that fs_create takes and gives back are none of the files'.
LEMMA DirectoriesInv ==
    ASSUME IInv, directory_takes_block \/ directory_gives_back
    PROVE  IInv'
  <1>1. fbm' \subseteq Blocks /\ taken' \subseteq Blocks
    BY DEF IInv, TypeOK, directory_takes_block, directory_gives_back, block_store_allocate
  <1>2. UNCHANGED <<mem, inodes, table, mounted, call, res, writes>>
    BY DEF directory_takes_block, directory_gives_back
  <1> QED BY <1>1, <1>2 DEF table, IInv, TypeOK, HeldBlocks, OpenInFile, CallInFile,
                            BlocksFilled

\* The invariant is inductive.
LEMMA StepInv == IInv /\ [Next]_vars => IInv'
  <1> SUFFICES ASSUME IInv, [Next]_vars PROVE IInv'
    OBVIOUS
  <1>1. CASE CallStart
    BY <1>1, CallsInv
  <1>2. CASE WriteStep
    BY <1>2, TakesBlocks, StoresPointer, ChunkInv, FinishInv DEF WriteStep, AddBlockStep
  <1>3. CASE fs_unmount \/ Crash \/ fs_mount
    BY <1>3, MountsInv
  <1>4. CASE directory_takes_block \/ directory_gives_back
    BY <1>4, DirectoriesInv
  <1>5. CASE UNCHANGED vars
    BY <1>5 DEF vars, IInv, TypeOK, HeldBlocks, OpenInFile, CallInFile, BlocksFilled
  <1> QED BY <1>1, <1>2, <1>3, <1>4, <1>5 DEF Next

\* ... and so holds in every reachable state.
LEMMA Invariance == Spec => []IInv
  BY InitInv, StepInv, PTL DEF Spec

-----------------------------------------------------------------------------
(* The theorems.                                                           *)

(* Every variable keeps its type: in particular the block a step of        *)
(* _inode_add_owned_block links is one that the same call allocated.       *)
THEOREM TypeCorrect == Spec => []TypeOK
  <1>1. IInv => TypeOK
    BY DEF IInv
  <1> QED BY <1>1, Invariance, PTL

(* Whatever the sizes, offsets and interleaving of calls on descriptors of *)
(* the same file, no cursor is past the end of its file, in fs_write or    *)
(* between calls (fs_seek, fs_read, fs_write).                             *)
THEOREM CursorsStayInFile == Spec => []CursorInFile
  <1>1. IInv => CursorInFile
    BY DEF IInv, OpenInFile, CallInFile, CursorInFile
  <1> QED BY <1>1, Invariance, PTL

(* fs_write never stores past the end of its array new_ptrs, which it      *)
(* sizes by nbyte alone: a block is only added when the cursor is at the   *)
(* start of it.                                                            *)
THEOREM NewPtrsNeverOverrun == Spec => []NewPtrsInBounds
  <1>1. IInv => NewPtrsInBounds
    <2> SUFFICES ASSUME IInv PROVE call.nptrs <= CeilDiv(Len(call.buf))
      BY DEF NewPtrsInBounds, max_new_ptrs
    <2>1. /\ call \in Call /\ Len(call.buf) \in Nat /\ call.nptrs \in Nat
          /\ call.done \in Nat /\ call.pc \in PCs
      BY DEF IInv, TypeOK, Call
    <2>2. CeilDiv(Len(call.buf)) \in Nat
      BY <2>1, CeilDivFacts
    <2>3. CASE call.pc \in Attaching
      BY <2>1, <2>3, FilledFits DEF IInv, BlocksFilled
    <2>4. CASE call.pc = "loop"
      <3>1. call.done <= Len(call.buf)
        BY <2>4 DEF IInv, CallInFile
      <3>2. CASE call.nptrs * BlockSize <= call.done
        <4>1. call.nptrs * BlockSize <= CeilDiv(Len(call.buf)) * BlockSize
          <5> DEFINE p == call.nptrs * BlockSize
                     q == CeilDiv(Len(call.buf)) * BlockSize
          <5>1. p \in Nat /\ q \in Nat /\ p <= call.done /\ Len(call.buf) <= q
            BY <2>1, <2>2, <3>2, CeilDivFacts, TimesBlock
          <5> HIDE DEF p, q
          <5>2. p <= q
            BY <2>1, <3>1, <5>1
          <5> QED BY <5>2 DEF p, q
        <4>2. ~(CeilDiv(Len(call.buf)) < call.nptrs)
          BY <2>1, <2>2, <4>1, TimesBlock, ShapeAssumption
        <4> QED BY <2>1, <2>2, <4>2
      <3> QED BY <2>4, <3>2 DEF IInv, BlocksFilled
    <2>5. CASE call.pc = "chunk"
      <3> DEFINE p == call.nptrs - 1
      <3>1. p \in Nat /\ p * BlockSize <= call.done /\ call.done < Len(call.buf)
        BY <2>1, <2>5 DEF IInv, BlocksFilled
      <3> HIDE DEF p
      <3>2. p < CeilDiv(Len(call.buf))
        BY <2>1, <3>1, FilledFits
      <3> QED BY <2>1, <2>2, <3>2 DEF p
    <2>6. CASE call.pc = "finish"
      BY <2>6 DEF IInv, BlocksFilled
    <2>7. CASE call.pc = "idle"
      BY <2>1, <2>2, <2>7 DEF IInv, BlocksFilled
    <2> QED BY <2>1, <2>3, <2>4, <2>5, <2>6, <2>7 DEF PCs, Attaching
  <1> QED BY <1>1, Invariance, PTL

-----------------------------------------------------------------------------
(* A file as a tree of blocks, in a given memory.                          *)

DataIn(m, inode, k) ==
    IF k < IndirectStart THEN inode.direct[k]
    ELSE IF k < DoubleStart THEN m[inode.ind][k - IndirectStart]
    ELSE m[m[inode.dbl][(k - DoubleStart) \div BlockSize]]
          [(k - DoubleStart) % BlockSize]

BlockIn(m, inode, p) ==
    CASE p[1] = "data"     -> DataIn(m, inode, p[2])
      [] p[1] = "indirect" -> inode.ind
      [] p[1] = "double"   -> inode.dbl
      [] p[1] = "inner"    -> m[inode.dbl][p[2]]

\* BlockIn by kind of part.
LEMMA BlockInKinds ==
    ASSUME NEW m, NEW inode, NEW k \in Nat
    PROVE  /\ BlockIn(m, inode, <<"data", k>>) = DataIn(m, inode, k)
           /\ BlockIn(m, inode, <<"indirect", 0>>) = inode.ind
           /\ BlockIn(m, inode, <<"double", 0>>) = inode.dbl
  BY DEF BlockIn

\* Where the kinds of pointers start.
LEMMA Starts ==
    /\ BlockSize \in Nat /\ BlockSize > 0
    /\ IndirectStart \in Nat /\ IndirectStart > 0
    /\ DoubleStart \in Nat /\ DoubleStart = IndirectStart + BlockSize
  BY ShapeAssumption DEF IndirectStart, DoubleStart

\* Where a block past DoubleStart is in the double indirect tree.
LEMMA PlaceInTree ==
    ASSUME NEW k \in Nat, k >= DoubleStart
    PROVE  LET o == (k - DoubleStart) \div BlockSize
               r == (k - DoubleStart) % BlockSize
           IN  o \in Nat /\ r \in Slots /\ k = DoubleStart + o * BlockSize + r
  <1> DEFINE d == k - DoubleStart
             o == d \div BlockSize
             r == d % BlockSize
  <1>1. d \in Nat
    BY Starts
  <1>2. o \in Nat /\ r \in Slots /\ d = BlockSize * o + r
    BY <1>1, DivMod
  <1> HIDE DEF o, r
  <1>3. BlockSize * o = o * BlockSize /\ o * BlockSize \in Nat
    BY <1>2, Starts
  <1>4. k = DoubleStart + o * BlockSize + r
    BY <1>2, <1>3, Starts DEF Slots
  <1> QED BY <1>2, <1>4 DEF o, r

\* Which parts a file of n blocks has.
LEMMA PartsAre ==
    ASSUME NEW n \in Nat
    PROVE  /\ \A k \in Nat : <<"data", k>> \in Parts(n) <=> k < n
           /\ <<"indirect", 0>> \in Parts(n) <=> IndirectStart < n
           /\ <<"double", 0>> \in Parts(n) <=> DoubleStart < n
           /\ \A o \in Nat : <<"inner", o>> \in Parts(n)
                                <=> DoubleStart + o * BlockSize < n
           /\ \A p \in Parts(n) : \/ \E k \in Nat : p = <<"data", k>>
                                  \/ p = <<"indirect", 0>> \/ p = <<"double", 0>>
                                  \/ \E o \in Nat : p = <<"inner", o>>
  <1>1. \A k \in Nat : <<"data", k>> \in Parts(n) <=> k < n
    BY DEF Parts
  <1>2. <<"indirect", 0>> \in Parts(n) <=> IndirectStart < n
    <2>1. <<"indirect", 0>> \in Parts(n) <=> \E k : k \in IndirectStart .. n - 1
      BY DEF Parts
    <2>2. IndirectStart < n => IndirectStart \in IndirectStart .. n - 1
      BY Starts
    <2> QED BY <2>1, <2>2, Starts
  <1>3. <<"double", 0>> \in Parts(n) <=> DoubleStart < n
    <2>1. <<"double", 0>> \in Parts(n) <=> \E k : k \in DoubleStart .. n - 1
      BY DEF Parts
    <2>2. (\E k : k \in DoubleStart .. n - 1) <=> DoubleStart < n
      <3> DEFINE d == DoubleStart
      <3>1. d \in Nat
        BY Starts
      <3> HIDE DEF d
      <3>2. (\E k : k \in d .. n - 1) <=> d < n
        <4>1. d < n => d \in d .. n - 1
          BY <3>1
        <4> QED BY <3>1, <4>1
      <3> QED BY <3>2 DEF d
    <2> QED BY <2>1, <2>2
  <1>4. ASSUME NEW o \in Nat
        PROVE  <<"inner", o>> \in Parts(n) <=> DoubleStart + o * BlockSize < n
    <2>1. <<"inner", o>> \in Parts(n)
            <=> \E k \in DoubleStart .. n - 1 : o = (k - DoubleStart) \div BlockSize
      BY DEF Parts
    <2>2. o * BlockSize \in Nat
      BY TimesBlock
    <2>3. ASSUME NEW k \in DoubleStart .. n - 1, o = (k - DoubleStart) \div BlockSize
          PROVE  DoubleStart + o * BlockSize < n
      <3>1. k \in Nat /\ k >= DoubleStart /\ k < n
        BY Starts
      <3>2. k = DoubleStart + o * BlockSize + ((k - DoubleStart) % BlockSize)
            /\ (k - DoubleStart) % BlockSize \in Slots
        BY <2>3, <3>1, PlaceInTree
      <3> HIDE <2>3
      <3> QED BY <2>2, <3>1, <3>2, Starts DEF Slots
    <2>4. ASSUME DoubleStart + o * BlockSize < n
          PROVE  \E k \in DoubleStart .. n - 1 : o = (k - DoubleStart) \div BlockSize
      <3> DEFINE k == DoubleStart + o * BlockSize
                 c == (k - DoubleStart) \div BlockSize
      <3>1. k \in DoubleStart .. n - 1 /\ k \in Nat /\ k >= DoubleStart
        BY <2>2, <2>4, Starts
      <3>2. c \in Nat /\ k = DoubleStart + c * BlockSize + ((k - DoubleStart) % BlockSize)
            /\ (k - DoubleStart) % BlockSize \in Slots
        BY <3>1, PlaceInTree
      <3>3. c = o
        <4> DEFINE r == (k - DoubleStart) % BlockSize
        <4>1. r \in Slots /\ o * BlockSize = c * BlockSize + r /\ c * BlockSize \in Nat
          <5>1. c * BlockSize \in Nat
            BY <3>2, TimesBlock
          <5> HIDE DEF c
          <5> QED BY <2>2, <3>2, <5>1, Starts DEF Slots
        <4> HIDE DEF c, r
        <4>2. ~(o < c) /\ ~(c < o)
          BY <2>2, <3>2, <4>1, TimesBlock, Starts DEF Slots
        <4> QED BY <3>2, <4>2
      <3> QED BY <3>1, <3>3
    <2> QED BY <2>1, <2>3, <2>4
  <1>5. ASSUME NEW p \in Parts(n)
        PROVE  \/ \E k \in Nat : p = <<"data", k>>
               \/ p = <<"indirect", 0>> \/ p = <<"double", 0>>
               \/ \E o \in Nat : p = <<"inner", o>>
    <2>1. CASE \E k \in 0 .. n - 1 : p = <<"data", k>>
      BY <2>1
    <2>2. CASE \E k \in DoubleStart .. n - 1 :
                 p = <<"inner", (k - DoubleStart) \div BlockSize>>
      <3>1. PICK k \in DoubleStart .. n - 1 :
              p = <<"inner", (k - DoubleStart) \div BlockSize>>
        BY <2>2
      <3>2. (k - DoubleStart) \div BlockSize \in Nat
        BY Starts, PlaceInTree
      <3> QED BY <3>1, <3>2
    <2> QED BY <2>1, <2>2 DEF Parts
  <1> QED BY <1>1, <1>2, <1>3, <1>4, <1>5

\* A longer file has the parts of a shorter one.
LEMMA PartsGrow ==
    ASSUME NEW n \in Nat, NEW k \in Nat, n <= k PROVE Parts(n) \subseteq Parts(k)
  <1>1. \A o \in Nat : o * BlockSize \in Nat
    BY TimesBlock
  <1>2. \A o \in Nat : DoubleStart + o * BlockSize \in Nat
    BY <1>1, Starts
  <1> SUFFICES ASSUME NEW p \in Parts(n) PROVE p \in Parts(k)
    OBVIOUS
  <1>3. CASE \E j \in Nat : p = <<"data", j>>
    BY <1>3, PartsAre
  <1>4. CASE p = <<"indirect", 0>> \/ p = <<"double", 0>>
    BY <1>4, PartsAre, Starts
  <1>5. CASE \E o \in Nat : p = <<"inner", o>>
    BY <1>2, <1>5, PartsAre
  <1> QED BY <1>3, <1>4, <1>5, PartsAre

\* A file looks the same in a memory where its pointer blocks are the same.
LEMMA SameTree ==
    ASSUME NEW m, NEW m2, NEW inode, NEW n \in Nat,
           \A q \in Parts(n) : q[1] # "data" =>
               m2[BlockIn(m, inode, q)] = m[BlockIn(m, inode, q)]
    PROVE  \A p \in Parts(n) : BlockIn(m2, inode, p) = BlockIn(m, inode, p)
  <1> SUFFICES ASSUME NEW p \in Parts(n) PROVE BlockIn(m2, inode, p) = BlockIn(m, inode, p)
    OBVIOUS
  <1> DEFINE ind == <<"indirect", 0>>
             dbl == <<"double", 0>>
  <1>0. /\ BlockIn(m, inode, ind) = inode.ind /\ BlockIn(m2, inode, ind) = inode.ind
        /\ BlockIn(m, inode, dbl) = inode.dbl /\ BlockIn(m2, inode, dbl) = inode.dbl
        /\ ind[1] # "data" /\ dbl[1] # "data"
    BY BlockInKinds
  <1>7. /\ IndirectStart < n <=> ind \in Parts(n)
        /\ DoubleStart < n <=> dbl \in Parts(n)
    BY PartsAre
  <1> HIDE DEF ind, dbl
  <1>1. IndirectStart < n => m2[inode.ind] = m[inode.ind]
    BY <1>0, <1>7
  <1>2. DoubleStart < n => m2[inode.dbl] = m[inode.dbl]
    BY <1>0, <1>7
  <1>3. \A o \in Nat : DoubleStart + o * BlockSize < n =>
            m2[m[inode.dbl][o]] = m[m[inode.dbl][o]]
    <2> SUFFICES ASSUME NEW o \in Nat, DoubleStart + o * BlockSize < n
                 PROVE  m2[m[inode.dbl][o]] = m[m[inode.dbl][o]]
      OBVIOUS
    <2> DEFINE q == <<"inner", o>>
    <2>1. q \in Parts(n) /\ q[1] # "data"
      BY PartsAre
    <2>2. BlockIn(m, inode, q) = m[inode.dbl][o]
      BY DEF BlockIn
    <2> HIDE DEF q
    <2> QED BY <2>1, <2>2
  <1>4. CASE \E k \in Nat : p = <<"data", k>>
    <2>1. PICK k \in Nat : p = <<"data", k>>
      BY <1>4
    <2>2. k < n
      BY <2>1, PartsAre
    <2>5. BlockIn(m, inode, p) = DataIn(m, inode, k)
      BY <2>1, BlockInKinds
    <2>6. BlockIn(m2, inode, p) = DataIn(m2, inode, k)
      BY <2>1, BlockInKinds
    <2>3. CASE k < DoubleStart
      BY <1>1, <2>2, <2>3, <2>5, <2>6, Starts DEF DataIn
    <2>4. CASE k >= DoubleStart
      <3> DEFINE o == (k - DoubleStart) \div BlockSize
                 r == (k - DoubleStart) % BlockSize
      <3>1. o \in Nat /\ r \in Slots /\ k = DoubleStart + o * BlockSize + r
        BY <2>4, PlaceInTree
      <3>2. DataIn(m, inode, k) = m[m[inode.dbl][o]][r]
            /\ DataIn(m2, inode, k) = m2[m2[inode.dbl][o]][r]
        BY <2>4, Starts DEF DataIn
      <3> HIDE DEF o, r
      <3>3. o * BlockSize \in Nat
        BY <3>1, TimesBlock
      <3>4. DoubleStart < n /\ DoubleStart + o * BlockSize < n
        BY <2>2, <2>4, <3>1, <3>3, Starts DEF Slots
      <3> QED BY <1>2, <1>3, <2>5, <2>6, <3>1, <3>2, <3>4
    <2> QED BY <2>3, <2>4, Starts
  <1>5. CASE p = <<"indirect", 0>> \/ p = <<"double", 0>>
    BY <1>0, <1>5 DEF ind, dbl
  <1>6. CASE \E o \in Nat : p = <<"inner", o>>
    <2>1. PICK o \in Nat : p = <<"inner", o>>
      BY <1>6
    <2>2. DoubleStart < n
      <3>1. o * BlockSize \in Nat /\ DoubleStart + o * BlockSize < n
        BY <2>1, PartsAre, TimesBlock
      <3> QED BY <3>1, Starts
    <2>3. BlockIn(m, inode, p) = m[inode.dbl][o]
      BY <2>1 DEF BlockIn
    <2>4. BlockIn(m2, inode, p) = m2[inode.dbl][o]
      BY <2>1 DEF BlockIn
    <2> QED BY <1>2, <2>2, <2>3, <2>4
  <1> QED BY <1>4, <1>5, <1>6, PartsAre
-----------------------------------------------------------------------------
(* Files that share no block, in a given memory.                           *)

\* I and N are the inodes and how many blocks the files have.
Apart(m, I, N) ==
    \A i, j \in Inodes : \A p \in Parts(N[i]), q \in Parts(N[j]) :
        BlockIn(m, I[i], p) = BlockIn(m, I[j], q) => i = j /\ p = q

Within(m, I, N, S) ==
    \A i \in Inodes : \A p \in Parts(N[i]) : BlockIn(m, I[i], p) \in S

\* Parts may go, and file i may get new ones whose blocks were in no file.
GrowsBy(m, I, N, S, m2, I2, N2, S2, i, New) ==
    /\ S \subseteq S2
    /\ \A j \in Inodes : \A p \in Parts(N2[j]) :
         \/ p \in Parts(N[j]) /\ BlockIn(m2, I2[j], p) = BlockIn(m, I[j], p)
         \/ j = i /\ p \in New
    /\ \A p \in New : BlockIn(m2, I2[i], p) \in S2 \ S
    /\ \A p, q \in New : BlockIn(m2, I2[i], p) = BlockIn(m2, I2[i], q) => p = q

\* Files that grow by new blocks of their own stay apart.
LEMMA Grow ==
    ASSUME NEW m, NEW I, NEW N, NEW S, NEW m2, NEW I2, NEW N2, NEW S2, NEW i, NEW New,
           Apart(m, I, N), Within(m, I, N, S),
           GrowsBy(m, I, N, S, m2, I2, N2, S2, i, New)
    PROVE  Apart(m2, I2, N2) /\ Within(m2, I2, N2, S2)
  <1> USE DEF GrowsBy
  <1>1. Within(m2, I2, N2, S2)
    BY DEF Within
  <1>2. ASSUME NEW j \in Inodes, NEW k \in Inodes,
               NEW p \in Parts(N2[j]), NEW q \in Parts(N2[k]),
               BlockIn(m2, I2[j], p) = BlockIn(m2, I2[k], q)
        PROVE  j = k /\ p = q
    BY <1>2 DEF Apart, Within
  <1> QED BY <1>1, <1>2 DEF Apart

-----------------------------------------------------------------------------
(* The invariant.                                                          *)

Live   == [i \in Inodes |-> LiveInode(i)]
Counts == [i \in Inodes |-> LiveBlocks(i)]
Filed  == fbm \ (taken \cup Fresh)

TreeInv == Apart(mem, Live, Counts) /\ Within(mem, Live, Counts, Filed)

\* What a step holds is in use, and no block twice.
HeldInv ==
    /\ Fresh \subseteq fbm \ taken
    /\ call.new_ptr # NONE => call.new_ptr \notin {call.new_ind, call.new_db}
    /\ call.new_ind # NONE => call.new_ind # call.new_db
    /\ call.pc \in {"idle", "loop", "chunk", "finish"} => call.new_ptr = NONE
    /\ call.pc \notin {"indirect inode", "indirect block", "double block", "inner block"}
          => call.new_ind = NONE
    /\ call.pc \in {"idle", "loop", "chunk", "finish", "link",
                    "indirect inode", "indirect block"} => call.new_db = NONE

\* How far the pointers to the block that is being added have come.
PlaceInv ==
    /\ call.pc \in {"indirect inode", "indirect block"} => NewIndex = IndirectStart
    /\ call.pc = "indirect block" =>
          call.new_ind # NONE /\ call.ino.ind = call.new_ind
    /\ call.pc \in {"double inode", "double"} => NewIndex = DoubleStart
    /\ call.pc = "double" => call.new_db # NONE
    /\ call.pc \in {"double block", "inner block"} =>
          NewIndex >= DoubleStart /\ Inner = 0 /\ call.new_ind # NONE
    /\ call.pc \in {"double", "double block", "inner block"} =>
          IF NewIndex = DoubleStart
          THEN call.new_db # NONE /\ call.ino.dbl = call.new_db
          ELSE call.new_db = NONE
    /\ call.pc = "inner block" => mem[call.ino.dbl][Outer] = call.new_ind

\* A block is added to a file that is full, and written where it is added.
EndInv ==
    call.pc \in Attaching \cup {"chunk"} => call.cursor = call.ino.size

\* The stored inode has the pointers of the call's.
StoredInv ==
    call.pc # "idle" =>
        LET stored == inodes[call.lfd.inum]
        IN  /\ stored.direct = call.ino.direct
            /\ stored.ind = call.ino.ind
            /\ stored.dbl = call.ino.dbl

\* Cursors are as _fd_cursor_set makes them.
Normal(fd) ==
    /\ fd.usage = "direct" => fd.order < IndirectStart
    /\ fd.usage = "indirect" => fd.order < BlockSize

CursorInv == Normal(call.lfd) /\ \A d \in Fds : Normal(fd_tab[d])

\* What fs_format took is never given back.
TakenInv == taken \subseteq fbm /\ \E t \in TakenSizes : 0 .. t - 1 \subseteq taken

BInv == /\ IInv /\ TreeInv /\ HeldInv /\ PlaceInv /\ EndInv
        /\ StoredInv /\ CursorInv /\ TakenInv

-----------------------------------------------------------------------------
(* What a step of a running call must do to keep the files apart.          *)

\* The inode of a file and its count of blocks have their types.
LEMMA LiveTypes ==
    ASSUME IInv, NEW j \in Inodes
    PROVE  /\ LiveInode(j) \in Inode /\ CeilDiv(LiveInode(j).size) \in Nat
           /\ LiveBlocks(j) \in Nat
  <1>1. LiveInode(j) \in Inode
    BY DEF IInv, TypeOK, Call, LiveInode
  <1>2. CeilDiv(LiveInode(j).size) \in Nat
    BY <1>1, CeilDivFacts DEF Inode
  <1> QED BY <1>1, <1>2 DEF LiveBlocks

\* How many blocks the file of the running call has.
CallBlocks == IF call.pc = "chunk" THEN NewIndex + 1 ELSE NewIndex

\* The file a running call writes, and the others.
LEMMA LiveRunning ==
    ASSUME IInv, call.pc # "idle"
    PROVE  /\ call.lfd.inum \in Inodes
           /\ LiveInode(call.lfd.inum) = call.ino
           /\ LiveBlocks(call.lfd.inum) = CallBlocks
           /\ NewIndex \in Nat /\ CallBlocks \in Nat
           /\ \A j \in Inodes : j # call.lfd.inum =>
                 /\ LiveInode(j) = inodes[j]
                 /\ LiveBlocks(j) = CeilDiv(inodes[j].size)
                 /\ LiveBlocks(j) \in Nat
  <1>0. call.lfd.inum \in Inodes /\ NewIndex \in Nat
    BY Locals, CeilDivFacts DEF NewIndex
  <1>1. call.lfd.inum \in Inodes /\ NewIndex \in Nat /\ CallBlocks \in Nat
    BY <1>0 DEF CallBlocks
  <1>2. \A j \in Inodes : LiveBlocks(j) \in Nat /\ CeilDiv(LiveInode(j).size) \in Nat
    BY LiveTypes
  <1> QED BY <1>1, <1>2 DEF LiveInode, LiveBlocks, Running, CallBlocks, NewIndex

\* The files stay apart when one of them grows.
LEMMA TreeStep ==
    ASSUME TreeInv, NEW i, NEW New,
           GrowsBy(mem, Live, Counts, Filed, mem', Live', Counts', Filed', i, New)
    PROVE  TreeInv'
  BY Grow DEF TreeInv

\* No file but one that owns block b in its tree of pointers sees b change.
LEMMA OtherTrees ==
    ASSUME IInv, TreeInv, NEW b, \A c \in Blocks : c # b => mem'[c] = mem[c],
           NEW j \in Inodes,
           \/ b \notin Filed
           \/ \E k \in Inodes : \E q \in Parts(LiveBlocks(k)) :
                 b = BlockIn(mem, LiveInode(k), q) /\ (k # j \/ q[1] = "data")
    PROVE  \A p \in Parts(LiveBlocks(j)) :
               BlockIn(mem', LiveInode(j), p) = BlockIn(mem, LiveInode(j), p)
  <1>1. LiveBlocks(j) \in Nat
    BY LiveTypes
  <1>2. ASSUME NEW q \in Parts(LiveBlocks(j)), q[1] # "data"
        PROVE  mem'[BlockIn(mem, LiveInode(j), q)] = mem[BlockIn(mem, LiveInode(j), q)]
    <2>1. BlockIn(mem, LiveInode(j), q) \in Filed
      BY DEF TreeInv, Within, Live, Counts
    <2>2. BlockIn(mem, LiveInode(j), q) \in Blocks
      BY <2>1 DEF Filed, IInv, TypeOK
    <2>3. BlockIn(mem, LiveInode(j), q) # b
      BY <1>2, <2>1 DEF TreeInv, Apart, Live, Counts
    <2> QED BY <2>2, <2>3
  <1> QED BY <1>1, <1>2, SameTree

\* One step of a running call: b is the block whose contents may change, New
\* the parts its file gets.
CallGrows(b, New) ==
    /\ call.pc # "idle" /\ call'.pc # "idle" /\ call'.lfd.inum = call.lfd.inum
    /\ \A j \in Inodes : j # call.lfd.inum => inodes'[j] = inodes[j]
    /\ Filed \subseteq Filed'
    /\ \A c \in Blocks : c # b => mem'[c] = mem[c]
    /\ b \notin Filed \/ \E q \in Parts(CallBlocks) : b = BlockIn(mem, call.ino, q)
    /\ \A p \in Parts(CallBlocks') :
         \/ p \in Parts(CallBlocks) /\ BlockIn(mem', call'.ino, p) = BlockIn(mem, call.ino, p)
         \/ p \in New
    /\ \A p \in New : BlockIn(mem', call'.ino, p) \in Filed' \ Filed
    /\ \A p, q \in New : BlockIn(mem', call'.ino, p) = BlockIn(mem', call'.ino, q) => p = q

\* ... and leave no block behind: the parts stay, and the blocks that the call
\* no longer holds are in New.
CallFiles(New) ==
    /\ Parts(CallBlocks) \cup New \subseteq Parts(CallBlocks')
    /\ New \cap Parts(CallBlocks) = {}
    /\ \A c \in Filed' \ Filed : \E p \in New : c = BlockIn(mem', call'.ino, p)

Advance == \E b, New : CallGrows(b, New) /\ CallFiles(New)

\* A step of the running call that adds parts to its file keeps files apart.
LEMMA GrownTree ==
    ASSUME IInv, TreeInv, IInv', NEW b, NEW New, CallGrows(b, New)
    PROVE  TreeInv'
  <1> USE DEF CallGrows
  <1>0. PICK r \in Inodes : r = call.lfd.inum
    BY LiveRunning
  <1>1. LiveInode(r) = call.ino /\ LiveBlocks(r) = CallBlocks
    BY <1>0, LiveRunning
  <1>2. LiveInode(r)' = call'.ino /\ LiveBlocks(r)' = CallBlocks'
    <2>1. call'.ino.size \in Nat
      BY DEF IInv, TypeOK, Call, Inode
    <2>2. CeilDiv(call'.ino.size) \in Nat
      BY <2>1, CeilDivFacts
    <2> QED BY <1>0, <2>2 DEF LiveInode, LiveBlocks, Running, CallBlocks, NewIndex
  <1>3. ASSUME NEW j \in Inodes, j # r
        PROVE  LiveInode(j)' = LiveInode(j) /\ LiveBlocks(j)' = LiveBlocks(j)
    BY <1>0, <1>3 DEF LiveInode, LiveBlocks, Running
  <1>4. ASSUME NEW j \in Inodes, j # r, NEW p \in Parts(LiveBlocks(j))
        PROVE  BlockIn(mem', LiveInode(j), p) = BlockIn(mem, LiveInode(j), p)
    <2>1. \/ b \notin Filed
          \/ \E k \in Inodes : \E q \in Parts(LiveBlocks(k)) :
                 b = BlockIn(mem, LiveInode(k), q) /\ (k # j \/ q[1] = "data")
      BY <1>1, <1>4
    <2> QED BY <2>1, OtherTrees
  <1>5. ASSUME NEW j \in Inodes, NEW p \in Parts(LiveBlocks(j)')
        PROVE  \/ /\ p \in Parts(LiveBlocks(j))
                  /\ BlockIn(mem', LiveInode(j)', p) = BlockIn(mem, LiveInode(j), p)
               \/ j = r /\ p \in New
    <2>1. CASE j = r
      BY <1>1, <1>2, <2>1
    <2>2. CASE j # r
      BY <1>3, <1>4, <2>2
    <2> QED BY <2>1, <2>2
  <1>6. \A j \in Inodes : /\ Live[j] = LiveInode(j) /\ Live'[j] = LiveInode(j)'
                          /\ Counts[j] = LiveBlocks(j) /\ Counts'[j] = LiveBlocks(j)'
    BY DEF Live, Counts
  <1>7. GrowsBy(mem, Live, Counts, Filed, mem', Live', Counts', Filed', r, New)
    BY <1>2, <1>5, <1>6 DEF GrowsBy
  <1> QED BY <1>7, TreeStep

\* PartBlock is BlockIn in the memory of the device.
LEMMA PartIn == \A inode, p : PartBlock(inode, p) = BlockIn(mem, inode, p)
  BY DEF PartBlock, DataBlock, BlockIn, DataIn

\* A block is leaked when no part of any file is in it.
LEMMA LeakedAre ==
    \A c : c \in Leaked <=>
        /\ c \in Filed
        /\ \A i \in Inodes : \A p \in Parts(LiveBlocks(i)) :
              c # BlockIn(mem, LiveInode(i), p)
  BY PartIn DEF Leaked, Filed, Owned

\* A step that files all it had taken loses no block.
LEMMA NothingLost ==
    ASSUME IInv, TreeInv, IInv', NEW b, NEW New, CallGrows(b, New), CallFiles(New)
    PROVE  Leaked' \subseteq Leaked
  <1> USE DEF CallGrows, CallFiles
  <1>0. PICK r \in Inodes : r = call.lfd.inum
    BY LiveRunning
  <1>1. LiveInode(r) = call.ino /\ LiveBlocks(r) = CallBlocks
    BY <1>0, LiveRunning
  <1>2. LiveInode(r)' = call'.ino /\ LiveBlocks(r)' = CallBlocks'
    <2>1. call'.ino.size \in Nat
      BY DEF IInv, TypeOK, Call, Inode
    <2>2. CeilDiv(call'.ino.size) \in Nat
      BY <2>1, CeilDivFacts
    <2> QED BY <1>0, <2>2 DEF LiveInode, LiveBlocks, Running, CallBlocks, NewIndex
  <1>3. ASSUME NEW j \in Inodes, NEW p \in Parts(LiveBlocks(j))
        PROVE  /\ p \in Parts(LiveBlocks(j)')
               /\ BlockIn(mem', LiveInode(j)', p) = BlockIn(mem, LiveInode(j), p)
    <2>1. CASE j = r
      <3>1. p \in Parts(CallBlocks) /\ p \notin New /\ p \in Parts(CallBlocks')
        BY <1>1, <1>3, <2>1
      <3> QED BY <1>1, <1>2, <2>1, <3>1
    <2>2. CASE j # r
      <3>1. LiveInode(j)' = LiveInode(j) /\ LiveBlocks(j)' = LiveBlocks(j)
        BY <1>0, <2>2 DEF LiveInode, LiveBlocks, Running
      <3>2. \/ b \notin Filed
            \/ \E k \in Inodes : \E q \in Parts(LiveBlocks(k)) :
                   b = BlockIn(mem, LiveInode(k), q) /\ (k # j \/ q[1] = "data")
        BY <1>1, <2>2
      <3> QED BY <1>3, <3>1, <3>2, OtherTrees
    <2> QED BY <2>1, <2>2
  <1>4. SUFFICES ASSUME NEW c \in Leaked' PROVE c \in Leaked
    OBVIOUS
  <1>5. /\ c \in Filed'
        /\ \A i \in Inodes : \A p \in Parts(LiveBlocks(i)') :
              c # BlockIn(mem', LiveInode(i)', p)
    <2>1. \A i, p : PartBlock(LiveInode(i), p)' = BlockIn(mem', LiveInode(i)', p)
      BY DEF PartBlock, DataBlock, BlockIn, DataIn
    <2> QED BY <2>1 DEF Leaked, Filed, Owned
  <1>6. c \in Filed
    <2> SUFFICES ASSUME c \notin Filed PROVE FALSE
      OBVIOUS
    <2>1. PICK p \in New : c = BlockIn(mem', call'.ino, p)
      BY <1>5
    <2>2. p \in Parts(CallBlocks')
      OBVIOUS
    <2> QED BY <1>2, <1>5, <2>1, <2>2
  <1>7. \A i \in Inodes : \A p \in Parts(LiveBlocks(i)) : c # BlockIn(mem, LiveInode(i), p)
    BY <1>3, <1>5
  <1> QED BY <1>6, <1>7, LeakedAre

\* What the steps of a running call share.
LEMMA RunningStep ==
    ASSUME IInv, TreeInv, IInv', Advance PROVE TreeInv' /\ Leaked' \subseteq Leaked
  <1>1. PICK b, New : CallGrows(b, New) /\ CallFiles(New)
    BY DEF Advance
  <1> QED BY <1>1, GrownTree, NothingLost

-----------------------------------------------------------------------------
(* The steps of a running fs_write.                                        *)

\* What a call takes is nobody's.
LEMMA TakesOne ==
    ASSUME HeldInv, TakenInv, NEW b, b \notin fbm, fbm' = fbm \cup {b},
           taken' = taken, Fresh' = Fresh \cup {b}
    PROVE  /\ Filed' = Filed /\ Fresh' \subseteq fbm' \ taken'
           /\ TakenInv' /\ b \notin Fresh
  BY DEF HeldInv, TakenInv, Filed

\* What is held under one name is another block under another.
LEMMA HeldApart ==
    ASSUME HeldInv
    PROVE  /\ \A b \in {call.new_ptr, call.new_ind, call.new_db} : b # NONE => b \in Fresh
           /\ call.new_ptr # NONE => call.new_ptr \notin {call.new_ind, call.new_db}
           /\ call.new_ind # NONE => call.new_ind # call.new_db
           /\ Fresh \cap Filed = {}
  BY DEF HeldInv, Fresh, Filed

\* Taking a block, or giving one back, moves it between the free blocks and
\* those that are held.
LEMMA TakesHeld ==
    ASSUME BInv,
           \/ AllocData \/ DeviceFull \/ AllocIndirect \/ AllocDouble
           \/ AllocInner \/ Undo
    PROVE  Filed' = Filed /\ HeldInv' /\ TakenInv'
  <1> USE DEF At
  <1>1. /\ call \in Call /\ fbm \subseteq Blocks /\ NONE \notin Blocks
        /\ HeldInv /\ TakenInv
    BY ShapeAssumption DEF BInv, IInv, TypeOK, Blocks, NONE
  <1>2. taken' = taken
    BY DEF AllocData, DeviceFull, AllocIndirect, AllocDouble, AllocInner, Undo, InCall
  <1>3. ASSUME NEW b \in Blocks, block_store_allocate(b) PROVE b \notin fbm /\ fbm' = fbm \cup {b}
    BY <1>3 DEF block_store_allocate, IsFirstFree
  <1>4. ASSUME fbm' = fbm, Fresh' = Fresh
        PROVE  Filed' = Filed /\ Fresh' \subseteq fbm' \ taken' /\ TakenInv'
    BY <1>1, <1>2, <1>4 DEF Filed, HeldInv, TakenInv
  <1>5. CASE AllocData
    <2>1. PICK b \in Blocks : /\ block_store_allocate(b)
                              /\ call' = [call EXCEPT !.pc = "link", !.new_ptr = b]
      BY <1>5 DEF AllocData
    <2>2. /\ call'.pc = "link" /\ call'.new_ptr = b
          /\ call'.new_ind = call.new_ind /\ call'.new_db = call.new_db
      BY <1>1, <2>1 DEF Call
    <2>3. call.new_ptr = NONE /\ call.new_ind = NONE /\ call.new_db = NONE
      BY <1>1, <1>5 DEF AllocData, HeldInv
    <2>4. Fresh' = Fresh \cup {b} /\ b # NONE
      BY <1>1, <2>2, <2>3 DEF Fresh
    <2>5. Filed' = Filed /\ Fresh' \subseteq fbm' \ taken' /\ TakenInv'
      BY <1>1, <1>2, <1>3, <2>1, <2>4, TakesOne
    <2> QED BY <2>2, <2>3, <2>4, <2>5 DEF HeldInv
  <1>6. CASE DeviceFull
    <2>1. /\ call'.pc = "finish" /\ call'.new_ptr = call.new_ptr /\ fbm' = fbm
          /\ call'.new_ind = call.new_ind /\ call'.new_db = call.new_db /\ call.pc = "loop"
      BY <1>1, <1>6 DEF DeviceFull, device, Call
    <2>2. Fresh' = Fresh
      BY <2>1 DEF Fresh
    <2> QED BY <1>1, <1>4, <2>1, <2>2 DEF HeldInv
  <1>7. CASE (AllocIndirect \/ AllocDouble \/ AllocInner) /\ NoPointerBlock
    <2>1. call.pc \in {"link", "double"}
      BY <1>7 DEF AllocIndirect, AllocDouble, AllocInner, InDouble
    <2>2. /\ call'.pc = "undo" /\ call'.new_ptr = call.new_ptr /\ fbm' = fbm
          /\ call'.new_ind = call.new_ind /\ call'.new_db = call.new_db
      BY <1>1, <1>7 DEF NoPointerBlock, Call
    <2>3. Fresh' = Fresh
      BY <2>2 DEF Fresh
    <2> QED BY <1>1, <1>4, <2>1, <2>2, <2>3 DEF HeldInv
  <1>8. CASE AllocIndirect /\ ~NoPointerBlock
    <2>1. PICK b \in Blocks :
            /\ block_store_allocate(b)
            /\ call' = [call EXCEPT !.new_ind = b, !.pc = "indirect inode"]
      BY <1>8 DEF AllocIndirect
    <2>2. /\ call'.pc = "indirect inode" /\ call'.new_ptr = call.new_ptr
          /\ call'.new_ind = b /\ call'.new_db = call.new_db
      BY <1>1, <2>1 DEF Call
    <2>3. call.new_ind = NONE /\ call.new_db = NONE
      BY <1>1, <1>8 DEF AllocIndirect, HeldInv
    <2>4. Fresh' = Fresh \cup {b} /\ b # NONE
      BY <1>1, <2>2, <2>3 DEF Fresh
    <2>5. Filed' = Filed /\ Fresh' \subseteq fbm' \ taken' /\ TakenInv' /\ b \notin Fresh
      BY <1>1, <1>2, <1>3, <2>1, <2>4, TakesOne
    <2>6. call.new_ptr # b
      BY <1>1, <2>4, <2>5, HeldApart
    <2> QED BY <2>2, <2>3, <2>4, <2>5, <2>6 DEF HeldInv
  <1>9. CASE AllocDouble /\ ~NoPointerBlock
    <2>1. PICK b \in Blocks :
            /\ block_store_allocate(b)
            /\ call' = [call EXCEPT !.new_db = b, !.pc = "double inode"]
      BY <1>9 DEF AllocDouble
    <2>2. /\ call'.pc = "double inode" /\ call'.new_ptr = call.new_ptr
          /\ call'.new_db = b /\ call'.new_ind = call.new_ind
      BY <1>1, <2>1 DEF Call
    <2>3. call.new_ind = NONE /\ call.new_db = NONE
      BY <1>1, <1>9 DEF AllocDouble, HeldInv
    <2>4. Fresh' = Fresh \cup {b} /\ b # NONE
      BY <1>1, <2>2, <2>3 DEF Fresh
    <2>5. Filed' = Filed /\ Fresh' \subseteq fbm' \ taken' /\ TakenInv' /\ b \notin Fresh
      BY <1>1, <1>2, <1>3, <2>1, <2>4, TakesOne
    <2>6. call.new_ptr # b
      BY <1>1, <2>4, <2>5, HeldApart
    <2> QED BY <2>2, <2>3, <2>4, <2>5, <2>6 DEF HeldInv
  <1>10. CASE AllocInner /\ ~NoPointerBlock
    <2>1. PICK b \in Blocks :
            /\ block_store_allocate(b)
            /\ call' = [call EXCEPT !.new_ind = b, !.pc = "double block"]
      BY <1>10 DEF AllocInner
    <2>2. /\ call'.pc = "double block" /\ call'.new_ptr = call.new_ptr
          /\ call'.new_ind = b /\ call'.new_db = call.new_db
      BY <1>1, <2>1 DEF Call
    <2>3. call.new_ind = NONE
      BY <1>1, <1>10 DEF AllocInner, InDouble, HeldInv
    <2>4. Fresh' = Fresh \cup {b} /\ b # NONE
      BY <1>1, <2>2, <2>3 DEF Fresh
    <2>5. Filed' = Filed /\ Fresh' \subseteq fbm' \ taken' /\ TakenInv' /\ b \notin Fresh
      BY <1>1, <1>2, <1>3, <2>1, <2>4, TakesOne
    <2>6. call.new_ptr # b /\ call.new_db # b
      BY <1>1, <2>4, <2>5, HeldApart
    <2> QED BY <1>1, <2>2, <2>3, <2>4, <2>5, <2>6 DEF HeldInv
  <1>11. CASE Undo
    <2>1. call.pc = "undo" /\ call.new_ind = NONE /\ call.new_ptr \in Blocks
      BY <1>1, <1>11 DEF Undo, HeldInv, BInv, IInv, HeldBlocks, Attaching
    <2>2. CASE call.new_db # NONE
      <3>1. /\ fbm' = fbm \ {call.new_db} /\ call'.new_db = NONE /\ call'.pc = "undo"
            /\ call'.new_ptr = call.new_ptr /\ call'.new_ind = NONE
        BY <1>1, <1>11, <2>1, <2>2 DEF Undo, Call
      <3>2. Fresh' = {call.new_ptr} /\ Fresh = {call.new_ptr, call.new_db}
        BY <1>1, <2>1, <2>2, <3>1 DEF Fresh
      <3>3. call.new_ptr # call.new_db
        BY <1>1, <2>1 DEF HeldInv
      <3> QED BY <1>1, <1>2, <2>1, <3>1, <3>2, <3>3 DEF HeldInv, Filed, TakenInv
    <2>3. CASE call.new_db = NONE
      <3>1. /\ fbm' = fbm \ {call.new_ptr} /\ call'.new_db = NONE /\ call'.pc = "finish"
            /\ call'.new_ptr = NONE /\ call'.new_ind = NONE
        BY <1>1, <1>11, <2>1, <2>3 DEF Undo, Call
      <3>2. Fresh' = {} /\ Fresh = {call.new_ptr}
        BY <1>1, <2>1, <2>3, <3>1 DEF Fresh
      <3> QED BY <1>1, <1>2, <2>1, <3>1, <3>2 DEF HeldInv, Filed, TakenInv
    <2> QED BY <2>2, <2>3
  <1> QED BY <1>5, <1>6, <1>7, <1>8, <1>9, <1>10, <1>11

\* No part is new to a file that keeps its blocks.
LEMMA SameParts ==
    ASSUME IInv, call.pc # "idle", call'.pc # "idle", call'.lfd.inum = call.lfd.inum,
           \A j \in Inodes : j # call.lfd.inum => inodes'[j] = inodes[j],
           Filed' = Filed, NEW b, \A c \in Blocks : c # b => mem'[c] = mem[c],
           b \notin Filed \/ \E q \in Parts(CallBlocks) : b = BlockIn(mem, call.ino, q),
           CallBlocks' = CallBlocks,
           \A p \in Parts(CallBlocks) : BlockIn(mem', call'.ino, p) = BlockIn(mem, call.ino, p)
    PROVE  Advance
  <1>1. CallGrows(b, {}) /\ CallFiles({})
    BY DEF CallGrows, CallFiles
  <1> QED BY <1>1 DEF Advance

\* A step that takes a block, or gives one back, leaves the files as they are.
LEMMA TakesInv ==
    ASSUME BInv,
           \/ AllocData \/ DeviceFull \/ AllocIndirect \/ AllocDouble
           \/ AllocInner \/ Undo
    PROVE  Advance /\ HeldInv' /\ PlaceInv' /\ EndInv' /\ StoredInv' /\ CursorInv' /\ TakenInv'
  <1> USE DEF At
  <1>0. /\ call.pc \notin {"idle", "chunk"} /\ call \in Call /\ NONE \notin Blocks
        /\ IInv /\ PlaceInv /\ HeldInv
    <2>1. call.pc \notin {"idle", "chunk"}
      BY DEF AllocData, DeviceFull, AllocIndirect, AllocDouble, AllocInner, Undo, InDouble
    <2>2. call \in Call /\ IInv /\ PlaceInv /\ HeldInv
      BY DEF BInv, IInv, TypeOK
    <2>3. NONE \notin Blocks
      BY ShapeAssumption DEF Blocks, NONE
    <2> QED BY <2>1, <2>2, <2>3
  <1>1. /\ inodes' = inodes /\ mem' = mem /\ InCall
        /\ call'.lfd = call.lfd /\ call'.ino = call.ino /\ call'.cursor = call.cursor
        /\ call'.pc \notin {"idle", "chunk"}
    <2>1. CASE AllocData
      BY <1>0, <2>1 DEF AllocData, Call
    <2>2. CASE DeviceFull
      BY <1>0, <2>2 DEF DeviceFull, device, Call
    <2>3. CASE AllocIndirect
      BY <1>0, <2>3 DEF AllocIndirect, NoPointerBlock, Call
    <2>4. CASE AllocDouble
      BY <1>0, <2>4 DEF AllocDouble, NoPointerBlock, Call
    <2>5. CASE AllocInner
      BY <1>0, <2>5 DEF AllocInner, NoPointerBlock, Call
    <2>6. CASE Undo
      BY <1>0, <2>6 DEF Undo, Call
    <2> QED BY <2>1, <2>2, <2>3, <2>4, <2>5, <2>6
  <1>2. Filed' = Filed /\ HeldInv' /\ TakenInv'
    BY TakesHeld
  <1>3. NewIndex' = NewIndex /\ Inner' = Inner /\ Outer' = Outer /\ CallBlocks' = CallBlocks
    BY <1>0, <1>1 DEF NewIndex, Inner, Outer, CallBlocks
  <1>4. Advance
    <2>1. Filed' = Filed /\ IInv /\ NONE \notin Filed
      BY <1>0, <1>2 DEF Filed, IInv, TypeOK
    <2> QED BY <1>0, <1>1, <1>3, <2>1, SameParts
  <1>5. StoredInv' /\ CursorInv'
    BY <1>0, <1>1 DEF BInv, StoredInv, CursorInv, InCall, table
  <1>6. EndInv'
    <2>1. CASE AllocData
      <3>1. ~cursor_in_owned_block(call.ino, call.lfd)
        BY <2>1 DEF AllocData, NeedsBlock
      <3>2. fd_cursor_get(call.lfd) <= call.ino.size /\ call.cursor = fd_cursor_get(call.lfd)
        BY <1>0 DEF IInv, CallInFile
      <3> QED BY <1>0, <1>1, <3>1, <3>2, Locals, AtEnd DEF EndInv
    <2>2. CASE DeviceFull
      <3>1. call'.pc = "finish"
        BY <1>0, <2>2 DEF DeviceFull, Call
      <3> QED BY <3>1 DEF EndInv, Attaching
    <2>3. CASE AllocIndirect \/ AllocDouble \/ AllocInner \/ Undo
      <3>1. call.pc \in Attaching
        BY <2>3 DEF AllocIndirect, AllocDouble, AllocInner, Undo, InDouble, Attaching
      <3> QED BY <1>1, <3>1 DEF BInv, EndInv
    <2> QED BY <2>1, <2>2, <2>3
  <1>7. PlaceInv'
    <2>1. CASE call'.pc \in {"link", "undo", "finish"}
      BY <2>1 DEF PlaceInv
    <2>2. CASE AllocIndirect /\ call'.pc \notin {"link", "undo", "finish"}
      <3>1. call'.pc = "indirect inode" /\ NewIndex = IndirectStart
        BY <1>0, <2>2 DEF AllocIndirect, NoPointerBlock, Call
      <3> QED BY <1>3, <3>1 DEF PlaceInv
    <2>3. CASE AllocDouble /\ call'.pc \notin {"link", "undo", "finish"}
      <3>1. call'.pc = "double inode" /\ NewIndex = DoubleStart
        BY <1>0, <2>3 DEF AllocDouble, NoPointerBlock, Call
      <3> QED BY <1>3, <3>1 DEF PlaceInv
    <2>4. CASE AllocInner /\ call'.pc \notin {"link", "undo", "finish"}
      <3>1. PICK b \in Blocks : call' = [call EXCEPT !.new_ind = b, !.pc = "double block"]
        BY <1>0, <2>4 DEF AllocInner, NoPointerBlock, Call
      <3>2. call'.pc = "double block" /\ call'.new_ind # NONE /\ call'.new_db = call.new_db
        BY <1>0, <3>1 DEF Call
      <3>3. Inner = 0 /\ NewIndex \in Nat
        BY <1>0, <2>4, LiveRunning DEF AllocInner
      <3>4. /\ NewIndex >= DoubleStart
            /\ IF NewIndex = DoubleStart
               THEN call.new_db # NONE /\ call.ino.dbl = call.new_db
               ELSE call.new_db = NONE
        <4>1. CASE call.pc = "double"
          BY <1>0, <3>3, <4>1, Starts DEF PlaceInv
        <4>2. CASE call.pc = "link" /\ DoubleStart < NewIndex
          BY <1>0, <3>3, <4>2, Starts DEF HeldInv
        <4> QED BY <2>4, <4>1, <4>2 DEF AllocInner, InDouble
      <3>5. DoubleStart' = DoubleStart
        BY DEF DoubleStart
      <3> QED BY <1>1, <1>3, <3>2, <3>3, <3>4 DEF PlaceInv
    <2>5. AllocData \/ DeviceFull \/ Undo => call'.pc \in {"link", "undo", "finish"}
      BY <1>0 DEF AllocData, DeviceFull, Undo, Call
    <2> QED BY <2>1, <2>2, <2>3, <2>4, <2>5
  <1> QED BY <1>2, <1>4, <1>5, <1>6, <1>7

\* The device cannot fill a file.
LEMMA NeverFull ==
    ASSUME IInv, TreeInv, TakenInv, NEW i \in Inodes
    PROVE  LiveBlocks(i) < MaxPtrs
  <1> DEFINE n == LiveBlocks(i)
             M == MaxPtrs
             last == M + 1 + BlockSize
             part(k) == IF k < M THEN <<"data", k>>
                        ELSE IF k = M THEN <<"indirect", 0>>
                        ELSE IF k = M + 1 THEN <<"double", 0>>
                        ELSE <<"inner", k - (M + 2)>>
             block == [k \in 0 .. last |-> BlockIn(mem, LiveInode(i), part(k))]
  <1>1. n \in Nat /\ M \in Nat /\ last \in Nat /\ M = DoubleStart + BlockSize * BlockSize
    <2>1. BlockSize * BlockSize \in Nat
      BY Starts, TimesBlock
    <2> QED BY <2>1, Starts, LiveTypes DEF MaxPtrs
  <1>2. SUFFICES ASSUME M <= n PROVE FALSE
    BY <1>1
  <1>3. PICK t \in TakenSizes : 0 .. t - 1 \subseteq taken
    BY DEF TakenInv
  <1>4. t \in Nat /\ NumBlocks \in Nat /\ t <= NumBlocks /\ NumBlocks - t < last + 1
    <2>1. t \in 1 .. NumBlocks /\ NumBlocks \in Nat
      BY ShapeAssumption
    <2>2. NumBlocks - t < MaxPtrs + 2 + BlockSize
      BY CapacityAssumption
    <2> QED BY <1>1, <2>1, <2>2, Starts
  <1> HIDE DEF n
  <1>5. ASSUME NEW k \in 0 .. last
        PROVE  part(k) \in Parts(n)
    <2> HIDE DEF M
    <2>1. CASE k < M
      BY <1>1, <1>2, <2>1, PartsAre
    <2>2. CASE k = M \/ k = M + 1
      <3>1. BlockSize * BlockSize \in Nat /\ BlockSize * BlockSize >= BlockSize
        <4>1. 1 * BlockSize <= BlockSize * BlockSize /\ BlockSize * BlockSize \in Nat
          BY Starts, TimesBlock
        <4> QED BY <4>1, Starts
      <3>2. IndirectStart < n /\ DoubleStart < n
        BY <1>1, <1>2, <3>1, Starts
      <3> QED BY <1>1, <2>2, <3>2, PartsAre
    <2>3. CASE k > M + 1
      <3> DEFINE o == k - (M + 2)
      <3>1. o \in Nat /\ o < BlockSize
        BY <1>1, <2>3, Starts
      <3> HIDE DEF o
      <3>2. o * BlockSize + BlockSize <= BlockSize * BlockSize /\ o * BlockSize \in Nat
        BY <3>1, Starts, TimesBlock
      <3>3. DoubleStart + o * BlockSize < n
        <4>1. BlockSize * BlockSize \in Nat
          BY Starts, TimesBlock
        <4> QED BY <1>1, <1>2, <3>1, <3>2, <4>1, Starts
      <3>4. <<"inner", o>> \in Parts(n)
        BY <1>1, <3>1, <3>3, PartsAre
      <3> QED BY <1>1, <2>3, <3>4 DEF o
    <2> QED BY <1>1, <2>1, <2>2, <2>3
  <1>6. ASSUME NEW j \in 0 .. last, NEW k \in 0 .. last, part(j) = part(k)
        PROVE  j = k
    <2> HIDE DEF M
    <2> QED BY <1>1, <1>6
  <1>7. ASSUME NEW k \in 0 .. last
        PROVE  BlockIn(mem, LiveInode(i), part(k)) \in t .. NumBlocks - 1
    <2>1. BlockIn(mem, LiveInode(i), part(k)) \in Filed
      <3> HIDE DEF part
      <3> QED BY <1>5, <1>7 DEF TreeInv, Within, Live, Counts, n
    <2>2. BlockIn(mem, LiveInode(i), part(k)) \in Blocks \ taken
      BY <2>1 DEF Filed, IInv, TypeOK
    <2> HIDE DEF part
    <2> QED BY <1>3, <1>4, <2>2 DEF Blocks
  <1>8. ASSUME NEW j \in 0 .. last, NEW k \in 0 .. last, block[j] = block[k]
        PROVE  j = k
    <2>1. part(j) \in Parts(n) /\ part(k) \in Parts(n)
      BY <1>5
    <2>2. BlockIn(mem, LiveInode(i), part(j)) = BlockIn(mem, LiveInode(i), part(k))
      BY <1>8
    <2>3. part(j) = part(k)
      <3> HIDE DEF part
      <3> QED BY <2>1, <2>2 DEF TreeInv, Apart, Live, Counts, n
    <2> QED BY <1>6, <2>3
  <1>9. block \in [0 .. last -> t .. NumBlocks - 1]
    <2> HIDE DEF part
    <2> QED BY <1>7
  <1> HIDE DEF block, M, part
  <1>10. IsFiniteSet(0 .. last) /\ Cardinality(0 .. last) = last + 1
    BY <1>1, FS_Interval
  <1>11. /\ IsFiniteSet(t .. NumBlocks - 1)
         /\ Cardinality(t .. NumBlocks - 1) = NumBlocks - t
    <2>1. t \in Int /\ NumBlocks - 1 \in Int
      BY <1>4
    <2>2. Cardinality(t .. NumBlocks - 1) =
            IF t > NumBlocks - 1 THEN 0 ELSE NumBlocks - 1 - t + 1
      BY <2>1, FS_Interval
    <2>3. IsFiniteSet(t .. NumBlocks - 1)
      BY <2>1, FS_Interval
    <2>4. (IF t > NumBlocks - 1 THEN 0 ELSE NumBlocks - 1 - t + 1) = NumBlocks - t
      BY <1>4
    <2> QED BY <2>2, <2>3, <2>4
  <1>12. \E j, k \in 0 .. last : j # k /\ block[j] = block[k]
    <2>1. Cardinality(t .. NumBlocks - 1) < Cardinality(0 .. last)
      BY <1>1, <1>4, <1>10, <1>11
    <2> HIDE DEF last
    <2> QED BY <1>9, <1>10, <1>11, <2>1, FS_PigeonHole
  <1> QED BY <1>8, <1>12

-----------------------------------------------------------------------------
(* Linking a block into its file.                                          *)

NewParts(n) == Parts(n + 1) \ Parts(n)

\* The parts that the next block of a file adds.
LEMMA NewPartsAre ==
    ASSUME NEW n \in Nat
    PROVE  LET o == (n - DoubleStart) \div BlockSize
               r == (n - DoubleStart) % BlockSize
           IN  \A p : p \in NewParts(n) <=>
                 \/ p = <<"data", n>>
                 \/ n = IndirectStart /\ p = <<"indirect", 0>>
                 \/ n = DoubleStart /\ p = <<"double", 0>>
                 \/ n >= DoubleStart /\ r = 0 /\ p = <<"inner", o>>
  <1> DEFINE o == (n - DoubleStart) \div BlockSize
             r == (n - DoubleStart) % BlockSize
  <1>0. n + 1 \in Nat /\ DoubleStart \in Nat /\ IndirectStart \in Nat
    BY Starts
  <1>1. n >= DoubleStart =>
          o \in Nat /\ r \in Slots /\ o * BlockSize \in Nat
          /\ n = DoubleStart + o * BlockSize + r
    <2>1. n >= DoubleStart =>
            o \in Nat /\ r \in Slots /\ n = DoubleStart + o * BlockSize + r
      BY PlaceInTree
    <2> HIDE DEF o, r
    <2>2. n >= DoubleStart => o * BlockSize \in Nat
      BY <2>1, TimesBlock
    <2> QED BY <2>1, <2>2
  <1> HIDE DEF o, r
  <1>2. \A k \in Nat : <<"data", k>> \in NewParts(n) <=> k = n
    <2>1. \A k \in Nat : <<"data", k>> \in Parts(n) <=> k < n
      BY PartsAre
    <2>2. \A k \in Nat : <<"data", k>> \in Parts(n + 1) <=> k < n + 1
      BY <1>0, PartsAre
    <2>3. \A k \in Nat : k < n + 1 /\ ~(k < n) <=> k = n
      OBVIOUS
    <2>4. \A k \in Nat : <<"data", k>> \in NewParts(n) <=> k < n + 1 /\ ~(k < n)
      BY <2>1, <2>2 DEF NewParts
    <2> QED BY <2>3, <2>4
  <1>3. <<"indirect", 0>> \in NewParts(n) <=> n = IndirectStart
    <2>1. <<"indirect", 0>> \in NewParts(n) <=> IndirectStart < n + 1 /\ ~(IndirectStart < n)
      BY <1>0, PartsAre DEF NewParts
    <2> QED BY <1>0, <2>1
  <1>4. <<"double", 0>> \in NewParts(n) <=> n = DoubleStart
    <2>1. <<"double", 0>> \in NewParts(n) <=> DoubleStart < n + 1 /\ ~(DoubleStart < n)
      BY <1>0, PartsAre DEF NewParts
    <2> QED BY <1>0, <2>1
  <1>5. ASSUME NEW q \in Nat
        PROVE  <<"inner", q>> \in NewParts(n) <=> n >= DoubleStart /\ r = 0 /\ q = o
    <2>0. q * BlockSize \in Nat
      BY TimesBlock
    <2>1. <<"inner", q>> \in NewParts(n) <=> n = DoubleStart + q * BlockSize
      <3>1. <<"inner", q>> \in NewParts(n) <=>
              DoubleStart + q * BlockSize < n + 1 /\ ~(DoubleStart + q * BlockSize < n)
        BY <1>0, PartsAre DEF NewParts
      <3> QED BY <1>0, <2>0, <3>1
    <2>2. CASE ~(n >= DoubleStart)
      BY <1>0, <2>0, <2>1, <2>2
    <2>3. CASE n >= DoubleStart
      <3>1. n = DoubleStart + q * BlockSize => q = o /\ r = 0
        <4> SUFFICES ASSUME n = DoubleStart + q * BlockSize PROVE q = o /\ r = 0
          OBVIOUS
        <4>1. q * BlockSize = o * BlockSize + r
          BY <1>0, <1>1, <2>0, <2>3, Starts DEF Slots
        <4>2. ~(q < o) /\ ~(o < q)
          BY <1>1, <2>0, <2>3, <4>1, TimesBlock, Starts DEF Slots
        <4>3. q = o
          BY <1>1, <2>3, <4>2
        <4> QED BY <1>1, <2>3, <4>1, <4>3, Starts DEF Slots
      <3>2. r = 0 /\ q = o => n = DoubleStart + q * BlockSize
        BY <1>0, <1>1, <2>0, <2>3
      <3> QED BY <2>1, <2>3, <3>1, <3>2
    <2> QED BY <2>2, <2>3
  <1>6. ASSUME NEW p \in NewParts(n)
        PROVE  \/ \E k \in Nat : p = <<"data", k>>
               \/ p = <<"indirect", 0>> \/ p = <<"double", 0>>
               \/ \E q \in Nat : p = <<"inner", q>>
    BY <1>0, PartsAre DEF NewParts
  <1>7. ASSUME NEW p
        PROVE  p \in NewParts(n) <=>
                 \/ p = <<"data", n>>
                 \/ n = IndirectStart /\ p = <<"indirect", 0>>
                 \/ n = DoubleStart /\ p = <<"double", 0>>
                 \/ n >= DoubleStart /\ r = 0 /\ p = <<"inner", o>>
    <2>1. p \in NewParts(n) =>
                 \/ p = <<"data", n>>
                 \/ n = IndirectStart /\ p = <<"indirect", 0>>
                 \/ n = DoubleStart /\ p = <<"double", 0>>
                 \/ n >= DoubleStart /\ r = 0 /\ p = <<"inner", o>>
      BY <1>2, <1>3, <1>4, <1>5, <1>6
    <2> QED BY <1>1, <1>2, <1>3, <1>4, <1>5, <2>1
  <1> QED BY <1>7 DEF o, r

\* The block that the call holds for each part it adds.
Held(p) == CASE p[1] = "data"     -> call.new_ptr
             [] p[1] = "indirect" -> call.new_ind
             [] p[1] = "double"   -> call.new_db
             [] p[1] = "inner"    -> call.new_ind

\* It holds no others when it links the data block.
HeldForParts ==
    /\ call.new_ptr # NONE
    /\ call.new_ind # NONE <=>
          NewIndex = IndirectStart \/ (NewIndex >= DoubleStart /\ Inner = 0)
    /\ call.new_db # NONE <=> NewIndex = DoubleStart

\* A call that is about to link holds one block for each new part.
LEMMA HeldParts ==
    ASSUME IInv, HeldInv, call.pc # "idle", HeldForParts
    PROVE  /\ \A p \in NewParts(NewIndex) : Held(p) \in Fresh
           /\ \A p, q \in NewParts(NewIndex) : Held(p) = Held(q) => p = q
           /\ \A c \in Fresh : \E p \in NewParts(NewIndex) : c = Held(p)
  <1> DEFINE n == NewIndex
             data == <<"data", n>>
             ind == <<"indirect", 0>>
             dbl == <<"double", 0>>
             inn == <<"inner", Outer>>
  <1>1. n \in Nat /\ IndirectStart # DoubleStart /\ ~(IndirectStart >= DoubleStart)
        /\ DoubleStart >= DoubleStart
    BY LiveRunning, Starts
  <1>2. \A p : p \in NewParts(n) <=>
                 \/ p = data
                 \/ n = IndirectStart /\ p = ind
                 \/ n = DoubleStart /\ p = dbl
                 \/ n >= DoubleStart /\ Inner = 0 /\ p = inn
    BY <1>1, NewPartsAre DEF Inner, Outer
  <1>3. /\ Held(data) = call.new_ptr /\ Held(ind) = call.new_ind
        /\ Held(dbl) = call.new_db /\ Held(inn) = call.new_ind
    BY DEF Held
  <1> HIDE DEF n, data, ind, dbl, inn
  <1>4. /\ call.new_ptr # NONE
        /\ call.new_ind # NONE <=> n = IndirectStart \/ (n >= DoubleStart /\ Inner = 0)
        /\ call.new_db # NONE <=> n = DoubleStart
    BY DEF HeldForParts, n
  <1>5. /\ call.new_ptr \notin {call.new_ind, call.new_db}
        /\ call.new_ind # NONE => call.new_ind # call.new_db
    BY <1>4 DEF HeldInv
  <1>6. n = DoubleStart => Inner = 0
    <2>1. n = DoubleStart => n - DoubleStart = 0 * BlockSize
      BY <1>1, Starts
    <2>2. 0 % BlockSize = 0
      BY Starts
    <2> QED BY <1>1, <2>2, Starts DEF Inner, n
  <1>7. \A p \in NewParts(n) : Held(p) \in Fresh
    BY <1>2, <1>3, <1>4 DEF Fresh
  <1>8. \A p, q \in NewParts(n) : Held(p) = Held(q) => p = q
    BY <1>1, <1>2, <1>3, <1>4, <1>5
  <1>9. \A c \in Fresh : \E p \in NewParts(n) : c = Held(p)
    BY <1>2, <1>3, <1>4 DEF Fresh
  <1> QED BY <1>7, <1>8, <1>9 DEF n

\* The data block is linked; b is the block the pointer was stored in.
Linked(b) ==
    /\ HeldForParts
    /\ call.pc \in Attaching /\ call'.pc = "chunk"
    /\ call'.new_ptr = NONE /\ call'.new_ind = NONE /\ call'.new_db = NONE
    /\ call'.lfd = call.lfd /\ call'.cursor = call.cursor
    /\ call'.ino.size = call.ino.size
    /\ fbm' = fbm /\ InCall
    /\ \A j \in Inodes : j # call.lfd.inum => inodes'[j] = inodes[j]
    /\ \A c \in Blocks : c # b => mem'[c] = mem[c]
    /\ b \notin Filed \/ \E q \in Parts(NewIndex) : b = BlockIn(mem, call.ino, q)
    /\ \A p \in Parts(NewIndex) : BlockIn(mem', call'.ino, p) = BlockIn(mem, call.ino, p)
    /\ \A p \in NewParts(NewIndex) : BlockIn(mem', call'.ino, p) = Held(p)

\* The last store of _inode_add_owned_block.
LEMMA LinkedInv ==
    ASSUME BInv, NEW b, Linked(b)
    PROVE  Advance /\ HeldInv' /\ PlaceInv' /\ EndInv' /\ CursorInv' /\ TakenInv'
  <1> USE DEF Linked
  <1>0. IInv /\ HeldInv /\ call.pc # "idle" /\ call.pc # "chunk"
    BY DEF BInv, Attaching
  <1>1. Fresh' = {}
    BY DEF Fresh
  <1>2. HeldInv'
    BY <1>1 DEF HeldInv
  <1>3. PlaceInv'
    BY DEF PlaceInv
  <1>4. EndInv' /\ CursorInv' /\ TakenInv'
    BY DEF BInv, EndInv, CursorInv, TakenInv, InCall, table
  <1>5. Filed' = Filed \cup Fresh /\ Fresh \cap Filed = {}
    BY <1>0, <1>1 DEF Filed, HeldInv, InCall
  <1>6. NewIndex \in Nat /\ CallBlocks = NewIndex /\ CallBlocks' = NewIndex + 1
    <2>1. NewIndex \in Nat
      BY <1>0, LiveRunning
    <2> QED BY <1>0, <2>1 DEF CallBlocks, NewIndex
  <1>7. /\ \A p \in NewParts(NewIndex) : Held(p) \in Fresh
        /\ \A p, q \in NewParts(NewIndex) : Held(p) = Held(q) => p = q
        /\ \A c \in Fresh : \E p \in NewParts(NewIndex) : c = Held(p)
    BY <1>0, HeldParts
  <1>8. /\ NewParts(NewIndex) = Parts(CallBlocks') \ Parts(CallBlocks)
        /\ Parts(CallBlocks) \subseteq Parts(CallBlocks')
    BY <1>6, PartsGrow DEF NewParts
  <1>9. CallGrows(b, NewParts(NewIndex))
    BY <1>0, <1>5, <1>6, <1>7, <1>8 DEF CallGrows
  <1>10. CallFiles(NewParts(NewIndex))
    BY <1>5, <1>7, <1>8 DEF CallFiles
  <1> QED BY <1>2, <1>3, <1>4, <1>9, <1>10 DEF Advance

\* The call after that store.
LEMMA AddedFields ==
    ASSUME call \in Call, NEW inode, call' = Added(inode)
    PROVE  /\ call'.pc = "chunk" /\ call'.new_ptr = NONE
           /\ call'.new_ind = NONE /\ call'.new_db = NONE
           /\ call'.lfd = call.lfd /\ call'.cursor = call.cursor /\ call'.ino = inode
  BY DEF Added, Call

\* The parts of a file without pointer blocks.
LEMMA DirectParts ==
    ASSUME NEW n \in Nat, n <= IndirectStart, NEW p \in Parts(n)
    PROVE  \E k \in Nat : p = <<"data", k>> /\ k < n /\ k < IndirectStart
  <1>1. \A o \in Nat : o * BlockSize \in Nat
    BY TimesBlock
  <1>2. ~(IndirectStart < n) /\ ~(DoubleStart < n)
        /\ \A o \in Nat : ~(DoubleStart + o * BlockSize < n)
    BY <1>1, Starts
  <1>3. \E k \in Nat : p = <<"data", k>>
    BY <1>2, PartsAre
  <1>4. PICK k \in Nat : p = <<"data", k>>
    BY <1>3
  <1>5. k < n
    BY <1>4, PartsAre
  <1> QED BY <1>4, <1>5, Starts

\* ... and of one without double indirect blocks.
LEMMA IndirectParts ==
    ASSUME NEW n \in Nat, n <= DoubleStart, NEW p \in Parts(n)
    PROVE  \/ p = <<"indirect", 0>>
           \/ \E k \in Nat : p = <<"data", k>> /\ k < n /\ k < DoubleStart
  <1>1. \A o \in Nat : o * BlockSize \in Nat
    BY TimesBlock
  <1>2. ~(DoubleStart < n) /\ \A o \in Nat : ~(DoubleStart + o * BlockSize < n)
    BY <1>1, Starts
  <1>3. p = <<"indirect", 0>> \/ \E k \in Nat : p = <<"data", k>>
    BY <1>2, PartsAre
  <1>4. CASE \E k \in Nat : p = <<"data", k>>
    <2>1. PICK k \in Nat : p = <<"data", k>>
      BY <1>4
    <2>2. k < n
      BY <2>1, PartsAre
    <2> QED BY <2>1, <2>2, Starts
  <1> QED BY <1>3, <1>4

\* A direct pointer is set.
LEMMA LinkDirectInv ==
    ASSUME BInv, LinkDirect
    PROVE  /\ Advance /\ HeldInv' /\ PlaceInv' /\ EndInv'
           /\ StoredInv' /\ CursorInv' /\ TakenInv'
  <1> DEFINE n == NewIndex
             inode == [call.ino EXCEPT !.direct[n] = call.new_ptr]
  <1>1. /\ IInv /\ HeldInv /\ call \in Call /\ call.pc = "link" /\ call.ino \in Inode
        /\ call.new_ptr \in Blocks /\ NONE \notin Blocks /\ call.lfd.inum \in Inodes
        /\ inodes \in [Inodes -> Inode] /\ fbm \subseteq Blocks
    <2>1. IInv /\ HeldInv /\ call.pc = "link"
      BY DEF BInv, LinkDirect, At
    <2>2. call.new_ptr \in Blocks
      BY <2>1 DEF IInv, HeldBlocks, Attaching
    <2>3. NONE \notin Blocks
      BY ShapeAssumption DEF NONE, Blocks
    <2> QED BY <2>1, <2>2, <2>3, Locals DEF IInv, TypeOK
  <1>2. /\ n \in Nat /\ n < IndirectStart
        /\ inodes' = [inodes EXCEPT ![call.lfd.inum] = inode]
        /\ call' = Added(inode) /\ fbm' = fbm /\ mem' = mem /\ InCall
    BY <1>1, LiveRunning DEF LinkDirect, StoreInode
  <1>3. /\ inode.direct = [call.ino.direct EXCEPT ![n] = call.new_ptr]
        /\ inode.size = call.ino.size
        /\ call.ino.direct \in [0 .. NumDirect - 1 -> Blocks]
        /\ inode.direct[n] = call.new_ptr
        /\ \A k \in Nat : k < n => inode.direct[k] = call.ino.direct[k]
    <2>1. /\ inode.direct = [call.ino.direct EXCEPT ![n] = call.new_ptr]
          /\ inode.size = call.ino.size
          /\ call.ino.direct \in [0 .. NumDirect - 1 -> Blocks]
      BY <1>1 DEF Inode
    <2>2. n \in 0 .. NumDirect - 1
      BY <1>2, ShapeAssumption DEF IndirectStart
    <2>3. \A k \in Nat : k < n => k \in 0 .. NumDirect - 1 /\ k # n
      <3> HIDE DEF n
      <3> QED BY <2>2, ShapeAssumption
    <2> HIDE DEF inode, n
    <2> QED BY <2>1, <2>2, <2>3
  <1> HIDE DEF inode
  <1>4. /\ call'.pc = "chunk" /\ call'.new_ptr = NONE
        /\ call'.new_ind = NONE /\ call'.new_db = NONE
        /\ call'.lfd = call.lfd /\ call'.cursor = call.cursor /\ call'.ino = inode
    BY <1>1, <1>2, AddedFields
  <1>5. HeldForParts
    BY <1>1, <1>2, Starts DEF HeldForParts, HeldInv
  <1> HIDE DEF n
  <1>6. ASSUME NEW p \in Parts(n)
        PROVE  BlockIn(mem', inode, p) = BlockIn(mem, call.ino, p)
    <2>1. PICK k \in Nat : p = <<"data", k>> /\ k < n /\ k < IndirectStart
      BY <1>2, Starts, DirectParts
    <2>2. BlockIn(mem', inode, p) = DataIn(mem', inode, k)
          /\ BlockIn(mem, call.ino, p) = DataIn(mem, call.ino, k)
      BY <2>1, BlockInKinds
    <2> QED BY <1>3, <2>1, <2>2 DEF DataIn
  <1>7. ASSUME NEW p \in NewParts(n)
        PROVE  BlockIn(mem', inode, p) = Held(p)
    <2>1. p = <<"data", n>>
      BY <1>2, Starts, NewPartsAre
    <2>2. BlockIn(mem', inode, p) = DataIn(mem', inode, n)
      BY <1>2, <2>1, BlockInKinds
    <2>3. Held(p) = call.new_ptr
      BY <2>1 DEF Held
    <2> QED BY <1>2, <1>3, <2>2, <2>3 DEF DataIn
  <1>8. Linked(NONE)
    <2>1. NONE \notin Filed
      BY <1>1 DEF Filed
    <2>2. call.pc \in Attaching
      BY <1>1 DEF Attaching
    <2> QED BY <1>1, <1>2, <1>3, <1>4, <1>5, <1>6, <1>7, <2>1, <2>2 DEF Linked, n
  <1>9. StoredInv'
    BY <1>1, <1>2, <1>4 DEF StoredInv
  <1> QED BY <1>8, <1>9, LinkedInv

\* A pointer in the indirect block is set.
LEMMA LinkIndirectInv ==
    ASSUME BInv, LinkIndirect
    PROVE  /\ Advance /\ HeldInv' /\ PlaceInv' /\ EndInv'
           /\ StoredInv' /\ CursorInv' /\ TakenInv'
  <1> DEFINE n == NewIndex
             b == call.ino.ind
             slot == n - IndirectStart
  <1>0. call.pc = "indirect block" \/ call.pc = "link"
    BY DEF LinkIndirect, At
  <1>1. /\ IInv /\ HeldInv /\ PlaceInv /\ call \in Call /\ call.ino \in Inode
        /\ call.new_ptr \in Blocks /\ NONE \notin Blocks /\ call.lfd.inum \in Inodes
        /\ mem \in [Blocks -> [Slots -> Cells]] /\ fbm \subseteq Blocks /\ b \in Blocks
        /\ n \in Nat
    <2>1. IInv /\ HeldInv /\ PlaceInv /\ call.pc # "idle"
      BY <1>0 DEF BInv
    <2>2. call.new_ptr \in Blocks
      BY <1>0, <2>1 DEF IInv, HeldBlocks, Attaching
    <2>3. NONE \notin Blocks
      BY ShapeAssumption DEF NONE, Blocks
    <2>4. call.ino \in Inode /\ b \in Blocks
      BY <2>1, Locals DEF Inode
    <2> QED BY <2>1, <2>2, <2>3, <2>4, Locals, LiveRunning DEF IInv, TypeOK
  <1>2. /\ mem' = [mem EXCEPT ![b] = [@ EXCEPT ![slot] = call.new_ptr]]
        /\ call' = Added(call.ino) /\ fbm' = fbm /\ inodes' = inodes /\ InCall
    BY DEF LinkIndirect, Poke
  <1>3. /\ call'.pc = "chunk" /\ call'.new_ptr = NONE
        /\ call'.new_ind = NONE /\ call'.new_db = NONE
        /\ call'.lfd = call.lfd /\ call'.cursor = call.cursor /\ call'.ino = call.ino
    BY <1>1, <1>2, AddedFields
  <1>4. /\ n >= IndirectStart /\ n < DoubleStart /\ ~(n >= DoubleStart)
        /\ call.new_ptr # NONE /\ call.new_db = NONE
        /\ call.new_ind # NONE <=> n = IndirectStart
        /\ b \notin Filed \/ \E q \in Parts(n) : b = BlockIn(mem, call.ino, q)
    <2>1. CASE call.pc = "indirect block"
      <3>1. n = IndirectStart /\ call.new_ind # NONE /\ b = call.new_ind
        BY <1>1, <2>1 DEF PlaceInv
      <3>2. b \notin Filed
        BY <3>1 DEF Filed, Fresh
      <3>3. call.new_db = NONE /\ call.new_ptr # NONE
        BY <1>1, <2>1 DEF HeldInv
      <3> HIDE DEF n, b
      <3> QED BY <3>1, <3>2, <3>3, Starts
    <2>2. CASE call.pc = "link"
      <3>1. IndirectStart < n /\ n < DoubleStart
        BY <2>2 DEF LinkIndirect, At
      <3>2. <<"indirect", 0>> \in Parts(n) /\ b = BlockIn(mem, call.ino, <<"indirect", 0>>)
        BY <1>1, <3>1, PartsAre, BlockInKinds
      <3> QED BY <1>1, <2>2, <3>1, <3>2, Starts DEF HeldInv
    <2> QED BY <1>0, <2>1, <2>2
  <1>5. HeldForParts
    BY <1>1, <1>4, Starts DEF HeldForParts
  <1> HIDE DEF n
  <1>6. slot \in Slots
    BY <1>1, <1>4, Starts DEF Slots
  <1>7. /\ mem'[b][slot] = call.new_ptr
        /\ \A k \in Slots : k # slot => mem'[b][k] = mem[b][k]
        /\ \A c \in Blocks : c # b => mem'[c] = mem[c]
    <2> HIDE DEF slot, b
    <2> QED BY <1>1, <1>2, <1>6
  <1>8. ASSUME NEW p \in Parts(n)
        PROVE  BlockIn(mem', call.ino, p) = BlockIn(mem, call.ino, p)
    <2>1. CASE p = <<"indirect", 0>>
      BY <2>1, BlockInKinds
    <2>2. CASE \E k \in Nat : p = <<"data", k>> /\ k < n /\ k < DoubleStart
      <3>1. PICK k \in Nat : p = <<"data", k>> /\ k < n /\ k < DoubleStart
        BY <2>2
      <3>2. BlockIn(mem', call.ino, p) = DataIn(mem', call.ino, k)
            /\ BlockIn(mem, call.ino, p) = DataIn(mem, call.ino, k)
        BY <3>1, BlockInKinds
      <3>3. CASE k < IndirectStart
        BY <3>2, <3>3 DEF DataIn
      <3>4. CASE ~(k < IndirectStart)
        <4>1. k - IndirectStart \in Slots /\ k - IndirectStart # slot
          BY <1>1, <1>4, <3>1, <3>4, Starts DEF Slots
        <4>2. DataIn(mem', call.ino, k) = mem'[b][k - IndirectStart]
              /\ DataIn(mem, call.ino, k) = mem[b][k - IndirectStart]
          BY <3>1, <3>4 DEF DataIn
        <4> QED BY <1>7, <3>2, <4>1, <4>2
      <3> QED BY <3>3, <3>4
    <2>3. n <= DoubleStart
      BY <1>1, <1>4, Starts
    <2> QED BY <1>1, <2>1, <2>2, <2>3, IndirectParts
  <1>9. ASSUME NEW p \in NewParts(n)
        PROVE  BlockIn(mem', call.ino, p) = Held(p)
    <2>1. p = <<"data", n>> \/ (n = IndirectStart /\ p = <<"indirect", 0>>)
      BY <1>1, <1>4, Starts, NewPartsAre
    <2>2. CASE p = <<"data", n>>
      <3>1. BlockIn(mem', call.ino, p) = DataIn(mem', call.ino, n) /\ Held(p) = call.new_ptr
        BY <1>1, <2>2, BlockInKinds DEF Held
      <3>2. DataIn(mem', call.ino, n) = mem'[b][slot]
        BY <1>1, <1>4, Starts DEF DataIn
      <3> QED BY <1>7, <3>1, <3>2
    <2>3. CASE n = IndirectStart /\ p = <<"indirect", 0>>
      <3>1. BlockIn(mem', call.ino, p) = b /\ Held(p) = call.new_ind
        BY <2>3, BlockInKinds DEF Held
      <3>2. call.pc = "indirect block"
        <4>1. CASE call.pc = "link"
          <5>1. IndirectStart < n
            BY <4>1 DEF LinkIndirect, At, n
          <5>2. ~(IndirectStart < IndirectStart)
            BY Starts
          <5>3. n = IndirectStart
            BY <2>3
          <5> QED BY <5>1, <5>2, <5>3
        <4> QED BY <1>0, <4>1
      <3> QED BY <1>1, <3>1, <3>2 DEF PlaceInv
    <2> QED BY <2>1, <2>2, <2>3
  <1>10. Linked(b)
    <2>1. call.pc \in Attaching
      BY <1>0 DEF Attaching
    <2> QED BY <1>1, <1>2, <1>3, <1>4, <1>5, <1>7, <1>8, <1>9, <2>1 DEF Linked, n
  <1>11. StoredInv'
    BY <1>0, <1>2, <1>3 DEF StoredInv, BInv
  <1> QED BY <1>10, <1>11, LinkedInv

\* The pointer blocks of a file that has all its indirect pointers.
LEMMA PointerBlocks ==
    ASSUME IInv, TreeInv, call.pc \notin {"idle", "chunk"}, NewIndex >= DoubleStart
    PROVE  LET Has(o) == o \in Nat /\ DoubleStart + o * BlockSize < NewIndex
               Inn(o) == mem[call.ino.dbl][o]
           IN  /\ call.ino.ind \in Filed
               /\ \A o : Has(o) => Inn(o) \in Filed /\ Inn(o) # call.ino.ind
               /\ \A o, q : Has(o) /\ Has(q) /\ Inn(o) = Inn(q) => o = q
               /\ NewIndex > DoubleStart =>
                    /\ call.ino.dbl \in Filed /\ call.ino.dbl # call.ino.ind
                    /\ \A o : Has(o) => Inn(o) # call.ino.dbl
  <1> DEFINE n == NewIndex
             B(p) == BlockIn(mem, call.ino, p)
             ind == <<"indirect", 0>>
             dbl == <<"double", 0>>
             inn(o) == <<"inner", o>>
             Has(o) == o \in Nat /\ DoubleStart + o * BlockSize < n
  <1>0. PICK r \in Inodes : r = call.lfd.inum
    BY LiveRunning
  <1>1. LiveInode(r) = call.ino /\ LiveBlocks(r) = n /\ n \in Nat
    BY <1>0, LiveRunning DEF CallBlocks
  <1>2. /\ \A p \in Parts(n) : B(p) \in Filed
        /\ \A p, q \in Parts(n) : B(p) = B(q) => p = q
    BY <1>1 DEF TreeInv, Within, Apart, Live, Counts
  <1>3. IndirectStart < n
    BY <1>1, Starts
  <1>4. B(ind) = call.ino.ind /\ B(dbl) = call.ino.dbl
    BY BlockInKinds
  <1>5. \A o : B(inn(o)) = mem[call.ino.dbl][o]
    BY DEF BlockIn
  <1>6. ind \in Parts(n) /\ n > DoubleStart => dbl \in Parts(n)
    BY <1>1, <1>3, Starts, PartsAre
  <1>7. \A o : Has(o) => inn(o) \in Parts(n)
    BY <1>1, PartsAre
  <1>8. ind # dbl /\ \A o : inn(o) # ind /\ inn(o) # dbl /\ \A q : inn(o) = inn(q) => o = q
    OBVIOUS
  <1>9. ind \in Parts(n)
    BY <1>1, <1>3, PartsAre
  <1>10. n > DoubleStart => dbl \in Parts(n)
    BY <1>1, Starts, PartsAre
  <1> HIDE DEF B, ind, dbl, inn, Has
  <1>11. call.ino.ind \in Filed
    BY <1>2, <1>4, <1>9
  <1>12. \A o : Has(o) => mem[call.ino.dbl][o] \in Filed /\ mem[call.ino.dbl][o] # call.ino.ind
    BY <1>2, <1>4, <1>5, <1>7, <1>8, <1>9
  <1>13. \A o, q : Has(o) /\ Has(q) /\ mem[call.ino.dbl][o] = mem[call.ino.dbl][q] => o = q
    BY <1>2, <1>5, <1>7, <1>8
  <1>14. n > DoubleStart =>
           /\ call.ino.dbl \in Filed /\ call.ino.dbl # call.ino.ind
           /\ \A o : Has(o) => mem[call.ino.dbl][o] # call.ino.dbl
    BY <1>2, <1>4, <1>5, <1>7, <1>8, <1>9, <1>10
  <1> QED BY <1>11, <1>12, <1>13, <1>14 DEF Has

\* The place of the next block in the double indirect tree.
LEMMA NextPlace ==
    ASSUME IInv, TreeInv, TakenInv, call.pc \notin {"idle", "chunk"},
           NewIndex >= DoubleStart
    PROVE  /\ Outer \in Slots /\ Inner \in Slots /\ Outer \in Nat
           /\ Outer * BlockSize \in Nat
           /\ NewIndex = DoubleStart + Outer * BlockSize + Inner
           /\ NewIndex = DoubleStart => Inner = 0 /\ Outer = 0
  <1>1. NewIndex \in Nat /\ call.lfd.inum \in Inodes
        /\ LiveBlocks(call.lfd.inum) = NewIndex
    BY LiveRunning DEF CallBlocks
  <1>2. /\ Outer \in Nat /\ Inner \in Slots
        /\ NewIndex = DoubleStart + Outer * BlockSize + Inner
    BY <1>1, PlaceInTree DEF Outer, Inner
  <1>3. Outer * BlockSize \in Nat
    BY <1>2, TimesBlock
  <1>4. NewIndex < DoubleStart + BlockSize * BlockSize
    <2>1. NewIndex < MaxPtrs
      BY <1>1, NeverFull
    <2> QED BY <2>1 DEF MaxPtrs
  <1>5. ~(BlockSize <= Outer)
    <2>1. BlockSize <= Outer => BlockSize * BlockSize <= Outer * BlockSize
      BY <1>2, TimesBlock, Starts
    <2>2. BlockSize * BlockSize \in Nat
      BY TimesBlock, Starts
    <2> QED BY <1>2, <1>3, <1>4, <2>1, <2>2, Starts DEF Slots
  <1>6. Outer \in Slots
    BY <1>2, <1>5, Starts DEF Slots
  <1>7. NewIndex = DoubleStart => Inner = 0 /\ Outer = 0
    <2> SUFFICES ASSUME NewIndex = DoubleStart PROVE Inner = 0 /\ Outer = 0
      OBVIOUS
    <2>1. Outer * BlockSize + Inner = 0 /\ Inner = 0
      BY <1>2, <1>3, Starts DEF Slots
    <2>2. 0 < Outer => 0 * BlockSize + BlockSize <= Outer * BlockSize
      BY <1>2, TimesBlock
    <2>3. 0 * BlockSize \in Nat
      BY TimesBlock
    <2>4. ~(0 < Outer)
      BY <1>3, <2>1, <2>2, <2>3, Starts
    <2> QED BY <1>2, <2>1, <2>4
  <1> QED BY <1>1, <1>2, <1>3, <1>6, <1>7

\* The slots that lead to the blocks of a file stay ...
SlotsStay(m, m2, inode, n) ==
    /\ m2[inode.ind] = m[inode.ind]
    /\ \A o \in Nat : DoubleStart + o * BlockSize < n =>
           m2[inode.dbl][o] = m[inode.dbl][o]
    /\ \A o \in Nat, r \in Slots : DoubleStart + o * BlockSize + r < n =>
           m2[m[inode.dbl][o]][r] = m[m[inode.dbl][o]][r]

\* ... and so it keeps its blocks.
LEMMA SlotsKept ==
    ASSUME NEW m, NEW m2, NEW inode, NEW n \in Nat, SlotsStay(m, m2, inode, n)
    PROVE  \A p \in Parts(n) : BlockIn(m2, inode, p) = BlockIn(m, inode, p)
  <1> USE DEF SlotsStay
  <1> SUFFICES ASSUME NEW p \in Parts(n) PROVE BlockIn(m2, inode, p) = BlockIn(m, inode, p)
    OBVIOUS
  <1>1. CASE \E k \in Nat : p = <<"data", k>>
    <2>1. PICK k \in Nat : p = <<"data", k>>
      BY <1>1
    <2>2. k < n
      BY <2>1, PartsAre
    <2>3. BlockIn(m, inode, p) = DataIn(m, inode, k)
          /\ BlockIn(m2, inode, p) = DataIn(m2, inode, k)
      BY <2>1, BlockInKinds
    <2>4. CASE k < DoubleStart
      BY <2>3, <2>4 DEF DataIn
    <2>5. CASE k >= DoubleStart
      <3> DEFINE o == (k - DoubleStart) \div BlockSize
                 r == (k - DoubleStart) % BlockSize
      <3>1. o \in Nat /\ r \in Slots /\ k = DoubleStart + o * BlockSize + r
        BY <2>5, PlaceInTree
      <3>2. DataIn(m, inode, k) = m[m[inode.dbl][o]][r]
            /\ DataIn(m2, inode, k) = m2[m2[inode.dbl][o]][r]
        BY <2>5, Starts DEF DataIn
      <3> HIDE DEF o, r
      <3>3. o * BlockSize \in Nat
        BY <3>1, TimesBlock
      <3>4. DoubleStart + o * BlockSize < n /\ DoubleStart + o * BlockSize + r < n
        BY <2>2, <2>5, <3>1, <3>3, Starts DEF Slots
      <3> QED BY <2>3, <3>1, <3>2, <3>4
    <2> QED BY <2>4, <2>5, Starts
  <1>2. CASE p = <<"indirect", 0>> \/ p = <<"double", 0>>
    BY <1>2 DEF BlockIn
  <1>3. CASE \E o \in Nat : p = <<"inner", o>>
    <2>1. PICK o \in Nat : p = <<"inner", o>>
      BY <1>3
    <2>2. DoubleStart + o * BlockSize < n
      BY <2>1, PartsAre
    <2>3. BlockIn(m, inode, p) = m[inode.dbl][o] /\ BlockIn(m2, inode, p) = m2[inode.dbl][o]
      BY <2>1 DEF BlockIn
    <2> QED BY <2>2, <2>3
  <1> QED BY <1>1, <1>2, <1>3, PartsAre

\* A pointer in an inner block is set.
LEMMA LinkInnerInv ==
    ASSUME BInv, LinkInner
    PROVE  /\ Advance /\ HeldInv' /\ PlaceInv' /\ EndInv'
           /\ StoredInv' /\ CursorInv' /\ TakenInv'
  <1> DEFINE n == NewIndex
             dbl == call.ino.dbl
             b == mem[dbl][Outer]
  <1>0. call.pc = "inner block" \/ ((call.pc = "link" \/ call.pc = "double") /\ Inner # 0)
    BY DEF LinkInner, InDouble, At
  <1>1. /\ IInv /\ TreeInv /\ HeldInv /\ PlaceInv /\ call \in Call /\ call.ino \in Inode
        /\ call.new_ptr \in Blocks /\ NONE \notin Blocks /\ call.lfd.inum \in Inodes
        /\ mem \in [Blocks -> [Slots -> Cells]] /\ fbm \subseteq Blocks /\ dbl \in Blocks
        /\ n \in Nat /\ Filed \subseteq Blocks
    <2>1. IInv /\ HeldInv /\ PlaceInv /\ TreeInv /\ call.pc # "idle"
      BY <1>0 DEF BInv
    <2>2. call.new_ptr \in Blocks
      BY <1>0, <2>1 DEF IInv, HeldBlocks, Attaching
    <2>3. NONE \notin Blocks
      BY ShapeAssumption DEF NONE, Blocks
    <2>4. call.ino \in Inode /\ dbl \in Blocks
      BY <2>1, Locals DEF Inode
    <2>5. n \in Nat
      BY <2>1, LiveRunning
    <2> HIDE DEF n, dbl
    <2> QED BY <2>1, <2>2, <2>3, <2>4, <2>5, Locals DEF IInv, TypeOK, Filed
  <1>2. /\ mem' = [mem EXCEPT ![b] = [@ EXCEPT ![Inner] = call.new_ptr]]
        /\ call' = Added(call.ino) /\ fbm' = fbm /\ inodes' = inodes /\ InCall
    BY DEF LinkInner, Poke
  <1>3. /\ call'.pc = "chunk" /\ call'.new_ptr = NONE
        /\ call'.new_ind = NONE /\ call'.new_db = NONE
        /\ call'.lfd = call.lfd /\ call'.cursor = call.cursor /\ call'.ino = call.ino
    BY <1>1, <1>2, AddedFields
  <1>4. n >= DoubleStart
    <2>1. CASE call.pc = "inner block"
      BY <1>1, <2>1 DEF PlaceInv
    <2>3. CASE call.pc = "double"
      <3>1. n = DoubleStart
        BY <1>1, <2>3 DEF PlaceInv
      <3> HIDE DEF n
      <3> QED BY <3>1, Starts
    <2>2. CASE call.pc = "link"
      <3>1. DoubleStart < n
        BY <2>2 DEF LinkInner, InDouble, At
      <3> HIDE DEF n
      <3> QED BY <1>1, <3>1, Starts
    <2> QED BY <1>0, <2>1, <2>2, <2>3
  <1>5. /\ Outer \in Slots /\ Inner \in Slots /\ Outer \in Nat /\ Outer * BlockSize \in Nat
        /\ n = DoubleStart + Outer * BlockSize + Inner
        /\ n = DoubleStart => Inner = 0 /\ Outer = 0
    <2>1. TakenInv /\ call.pc \notin {"idle", "chunk"}
      BY <1>0 DEF BInv
    <2> QED BY <1>1, <1>4, <2>1, NextPlace
  <1> DEFINE Has(o) == o \in Nat /\ DoubleStart + o * BlockSize < n
  <1>6. /\ call.ino.ind \in Filed
        /\ \A o : Has(o) => mem[dbl][o] \in Filed /\ mem[dbl][o] # call.ino.ind
        /\ \A o, q : Has(o) /\ Has(q) /\ mem[dbl][o] = mem[dbl][q] => o = q
        /\ n > DoubleStart =>
             /\ dbl \in Filed /\ dbl # call.ino.ind
             /\ \A o : Has(o) => mem[dbl][o] # dbl
    <2>1. call.pc \notin {"idle", "chunk"}
      BY <1>0
    <2> QED BY <1>1, <1>4, <2>1, PointerBlocks
  <1> HIDE DEF n, dbl
  <1>7. /\ b \in Blocks /\ b # call.ino.ind /\ b # dbl
        /\ \A o : Has(o) /\ o # Outer => mem[dbl][o] # b
        /\ b \notin Filed \/ \E q \in Parts(n) : b = BlockIn(mem, call.ino, q)
        /\ call.new_ptr # NONE
        /\ call.new_ind # NONE <=> Inner = 0
        /\ call.new_db # NONE <=> n = DoubleStart
        /\ Inner = 0 => b = call.new_ind
        /\ n = DoubleStart => dbl = call.new_db
    <2>1. CASE call.pc = "inner block"
      <3>1. /\ Inner = 0 /\ call.new_ind # NONE /\ b = call.new_ind
            /\ n = DoubleStart => call.new_db # NONE /\ dbl = call.new_db
            /\ n # DoubleStart => call.new_db = NONE
        BY <1>1, <2>1 DEF PlaceInv, n, dbl
      <3>2. b \in Blocks /\ b \notin Filed
        BY <1>1, <3>1 DEF Filed, Fresh, HeldInv
      <3>3. b # dbl
        <4>1. CASE n = DoubleStart
          BY <1>1, <3>1, <4>1 DEF HeldInv
        <4>2. CASE n # DoubleStart
          BY <1>1, <1>4, <1>6, <3>2, <4>2, Starts
        <4> QED BY <4>1, <4>2
      <3> HIDE DEF Has, b
      <3> QED BY <1>1, <1>6, <3>1, <3>2, <3>3
    <2>2. CASE (call.pc = "link" \/ call.pc = "double") /\ Inner # 0
      <3>1. n > DoubleStart
        BY <1>1, <1>4, <1>5, <2>2, Starts
      <3>2. call.pc = "link"
        <4>1. call.pc = "double" => n = DoubleStart
          BY <1>1 DEF PlaceInv, n
        <4> QED BY <3>1, <2>2, <4>1, Starts
      <3>3. call.new_ind = NONE /\ call.new_db = NONE /\ call.new_ptr # NONE
        BY <1>1, <3>2 DEF HeldInv
      <3>4. Has(Outer)
        BY <1>1, <1>5, <2>2, Starts DEF Slots
      <3>5. b \in Filed /\ b # call.ino.ind /\ b # dbl
            /\ \A o : Has(o) /\ o # Outer => mem[dbl][o] # b
        <4> HIDE DEF Has
        <4> QED BY <1>6, <3>1, <3>4
      <3>6. \E q \in Parts(n) : b = BlockIn(mem, call.ino, q)
        <4>1. <<"inner", Outer>> \in Parts(n)
          BY <1>1, <3>4, PartsAre
        <4>2. BlockIn(mem, call.ino, <<"inner", Outer>>) = b
          BY DEF BlockIn, dbl
        <4> QED BY <4>1, <4>2
      <3> HIDE DEF Has, b
      <3> QED BY <1>1, <2>2, <3>1, <3>3, <3>5, <3>6, Starts
    <2> QED BY <1>0, <2>1, <2>2
  <1>8. HeldForParts
    BY <1>1, <1>4, <1>7, Starts DEF HeldForParts, n
  <1>9. /\ mem'[b][Inner] = call.new_ptr
        /\ \A k \in Slots : k # Inner => mem'[b][k] = mem[b][k]
        /\ \A c \in Blocks : c # b => mem'[c] = mem[c]
    <2> HIDE DEF b, Has
    <2> QED BY <1>1, <1>2, <1>5, <1>7
  <1>10. mem'[call.ino.ind] = mem[call.ino.ind] /\ mem'[dbl] = mem[dbl]
    <2> HIDE DEF b, Has
    <2> QED BY <1>1, <1>6, <1>7, <1>9
  <1>11. \A p \in Parts(n) : BlockIn(mem', call.ino, p) = BlockIn(mem, call.ino, p)
    <2>1. ASSUME NEW o \in Nat, NEW r \in Slots, DoubleStart + o * BlockSize + r < n
          PROVE  mem'[mem[dbl][o]][r] = mem[mem[dbl][o]][r]
      <3>1. o * BlockSize \in Nat
        BY TimesBlock
      <3>2. Has(o)
        BY <1>1, <2>1, <3>1, Starts DEF Slots
      <3>3. CASE o = Outer
        <4>1. r # Inner
          BY <1>1, <1>5, <2>1, <3>3, Starts DEF Slots
        <4> HIDE DEF Has
        <4> QED BY <1>9, <3>3, <4>1
      <3>4. CASE o # Outer
        <4> HIDE DEF Has, b
        <4> QED BY <1>1, <1>6, <1>7, <1>9, <3>2, <3>4
      <3> QED BY <3>3, <3>4
    <2>2. SlotsStay(mem, mem', call.ino, n)
      <3> HIDE DEF b, Has
      <3> QED BY <1>10, <2>1 DEF SlotsStay, dbl
    <2> QED BY <1>1, <2>2, SlotsKept
  <1>12. ASSUME NEW p \in NewParts(n)
         PROVE  BlockIn(mem', call.ino, p) = Held(p)
    <2>1. \/ p = <<"data", n>>
          \/ n = DoubleStart /\ p = <<"double", 0>>
          \/ Inner = 0 /\ p = <<"inner", Outer>>
      BY <1>1, <1>4, Starts, NewPartsAre DEF Inner, Outer, n
    <2>2. CASE p = <<"data", n>>
      <3>1. BlockIn(mem', call.ino, p) = DataIn(mem', call.ino, n) /\ Held(p) = call.new_ptr
        BY <1>1, <2>2, BlockInKinds DEF Held
      <3>2. DataIn(mem', call.ino, n) = mem'[mem'[dbl][Outer]][Inner]
        BY <1>1, <1>4, Starts DEF DataIn, Inner, Outer, n, dbl
      <3> QED BY <1>9, <1>10, <3>1, <3>2
    <2>3. CASE n = DoubleStart /\ p = <<"double", 0>>
      <3>1. BlockIn(mem', call.ino, p) = dbl /\ Held(p) = call.new_db
        BY <2>3 DEF BlockIn, Held, dbl
      <3> QED BY <1>7, <2>3, <3>1
    <2>4. CASE Inner = 0 /\ p = <<"inner", Outer>>
      <3>1. BlockIn(mem', call.ino, p) = mem'[dbl][Outer] /\ Held(p) = call.new_ind
        BY <2>4 DEF BlockIn, Held, dbl
      <3> QED BY <1>7, <1>10, <2>4, <3>1
    <2> QED BY <2>1, <2>2, <2>3, <2>4
  <1>13. Linked(b)
    <2>1. call.pc \in Attaching /\ call.pc # "idle"
      BY <1>0 DEF Attaching
    <2> HIDE DEF b, Has
    <2> QED BY <1>1, <1>2, <1>3, <1>7, <1>8, <1>9, <1>11, <1>12, <2>1 DEF Linked, n
  <1>14. StoredInv'
    BY <1>0, <1>2, <1>3 DEF StoredInv, BInv
  <1> QED BY <1>13, <1>14, LinkedInv

-----------------------------------------------------------------------------
(* Storing a pointer block where it belongs.                               *)

\* A step that stores a pointer block it goes on to hold.
Placing ==
    /\ call.pc \in Attaching /\ call'.pc \in Attaching
    /\ call'.new_ptr = call.new_ptr /\ call'.new_ind = call.new_ind
    /\ call'.new_db = call.new_db
    /\ call'.lfd = call.lfd /\ call'.cursor = call.cursor
    /\ call'.ino.size = call.ino.size
    /\ fbm' = fbm /\ InCall

\* A step that puts a pointer block in its place.
LEMMA PlacingInv ==
    ASSUME BInv, Placing
    PROVE  /\ EndInv' /\ CursorInv' /\ TakenInv' /\ Filed' = Filed
           /\ NewIndex' = NewIndex /\ Inner' = Inner /\ Outer' = Outer
           /\ CallBlocks' = CallBlocks /\ CallBlocks = NewIndex
           /\ call.pc \notin {"idle", "chunk"} /\ call'.pc # "idle"
           /\ Fresh' \subseteq fbm' \ taken'
  <1> USE DEF Placing
  <1>1. EndInv' /\ CursorInv' /\ TakenInv'
    BY DEF BInv, EndInv, CursorInv, TakenInv, InCall, table
  <1>2. Fresh' = Fresh
    BY DEF Fresh
  <1>3. Filed' = Filed /\ Fresh' \subseteq fbm' \ taken'
    BY <1>2 DEF Filed, InCall, BInv, HeldInv
  <1>4. NewIndex' = NewIndex
    BY DEF NewIndex
  <1>5. /\ CallBlocks' = CallBlocks /\ CallBlocks = NewIndex
        /\ call.pc \notin {"idle", "chunk"} /\ call'.pc # "idle"
    BY <1>4 DEF CallBlocks, Attaching
  <1>6. Inner' = Inner /\ Outer' = Outer
    BY <1>4 DEF Inner, Outer, DoubleStart, IndirectStart
  <1> QED BY <1>1, <1>3, <1>4, <1>5, <1>6

\* The inode gets its indirect block.
LEMMA StoreIndirectInv ==
    ASSUME BInv, StoreIndirect
    PROVE  /\ Advance /\ HeldInv' /\ PlaceInv' /\ EndInv'
           /\ StoredInv' /\ CursorInv' /\ TakenInv'
  <1> DEFINE inode == [call.ino EXCEPT !.ind = call.new_ind]
  <1>1. /\ IInv /\ HeldInv /\ PlaceInv /\ call \in Call /\ call.ino \in Inode
        /\ call.pc = "indirect inode" /\ call.lfd.inum \in Inodes
        /\ inodes \in [Inodes -> Inode] /\ call.new_ind # NONE /\ NewIndex \in Nat
        /\ NewIndex = IndirectStart /\ NONE \notin Filed
    <2>1. IInv /\ HeldInv /\ PlaceInv /\ call.pc = "indirect inode"
      BY DEF BInv, StoreIndirect, At
    <2>2. call.new_ind \in Blocks
      BY <2>1 DEF IInv, HeldBlocks
    <2>3. NONE \notin Blocks
      BY ShapeAssumption DEF NONE, Blocks
    <2>5. NONE \notin Filed
      BY <2>1, <2>3 DEF Filed, IInv, TypeOK
    <2>4. NewIndex = IndirectStart
      BY <2>1 DEF PlaceInv
    <2> QED BY <2>1, <2>2, <2>3, <2>4, <2>5, Locals, LiveRunning DEF IInv, TypeOK
  <1>11. NewIndex \in Nat /\ NewIndex = IndirectStart
    BY <1>1
  <1>2. /\ inodes' = [inodes EXCEPT ![call.lfd.inum] = inode] /\ mem' = mem
        /\ call' = [call EXCEPT !.pc = "indirect block", !.ino = inode]
        /\ fbm' = fbm /\ InCall
    BY DEF StoreIndirect, StoreInode
  <1>3. /\ inode.direct = call.ino.direct /\ inode.size = call.ino.size
        /\ inode.ind = call.new_ind
    BY <1>1 DEF Inode
  <1> HIDE DEF inode
  <1>4. /\ call'.pc = "indirect block" /\ call'.new_ptr = call.new_ptr
        /\ call'.new_ind = call.new_ind /\ call'.new_db = call.new_db
        /\ call'.lfd = call.lfd /\ call'.cursor = call.cursor /\ call'.ino = inode
    BY <1>1, <1>2 DEF Call
  <1>5. /\ EndInv' /\ CursorInv' /\ TakenInv' /\ Filed' = Filed
        /\ NewIndex' = NewIndex /\ CallBlocks' = CallBlocks /\ CallBlocks = NewIndex
        /\ Fresh' \subseteq fbm' \ taken'
    <2>1. Placing
      BY <1>1, <1>2, <1>3, <1>4 DEF Placing, Attaching
    <2> QED BY <2>1, PlacingInv
  <1>6. HeldInv'
    BY <1>1, <1>4, <1>5 DEF HeldInv
  <1>7. PlaceInv'
    <2>1. IndirectStart' = IndirectStart
      BY DEF IndirectStart
    <2> QED BY <1>1, <1>3, <1>4, <1>5, <2>1 DEF PlaceInv
  <1>8. StoredInv'
    BY <1>1, <1>2, <1>4 DEF StoredInv
  <1>9. \A p \in Parts(CallBlocks) : BlockIn(mem', call'.ino, p) = BlockIn(mem, call.ino, p)
    <2> SUFFICES ASSUME NEW p \in Parts(NewIndex)
                 PROVE  BlockIn(mem', inode, p) = BlockIn(mem, call.ino, p)
      BY <1>4, <1>5
    <2>0. NewIndex \in Nat /\ NewIndex <= IndirectStart
      BY <1>11, Starts
    <2>1. PICK k \in Nat : p = <<"data", k>> /\ k < IndirectStart
      BY <2>0, DirectParts
    <2>2. BlockIn(mem', inode, p) = DataIn(mem', inode, k)
          /\ BlockIn(mem, call.ino, p) = DataIn(mem, call.ino, k)
      BY <2>1, BlockInKinds
    <2> QED BY <1>3, <2>1, <2>2 DEF DataIn
  <1>10. Advance
    <2>1. \A j \in Inodes : j # call.lfd.inum => inodes'[j] = inodes[j]
      BY <1>1, <1>2
    <2>2. call.pc # "idle" /\ call'.pc # "idle" /\ call'.lfd.inum = call.lfd.inum
      BY <1>1, <1>4
    <2> QED BY <1>1, <1>2, <1>5, <1>9, <2>1, <2>2, SameParts
  <1> QED BY <1>5, <1>6, <1>7, <1>8, <1>10

\* The inode gets its double indirect block.
LEMMA StoreDoubleInv ==
    ASSUME BInv, StoreDouble
    PROVE  /\ Advance /\ HeldInv' /\ PlaceInv' /\ EndInv'
           /\ StoredInv' /\ CursorInv' /\ TakenInv'
  <1> DEFINE inode == [call.ino EXCEPT !.dbl = call.new_db]
  <1>1. /\ IInv /\ HeldInv /\ PlaceInv /\ call \in Call /\ call.ino \in Inode
        /\ call.pc = "double inode" /\ call.lfd.inum \in Inodes
        /\ inodes \in [Inodes -> Inode] /\ call.new_db # NONE /\ NewIndex \in Nat
        /\ NewIndex = DoubleStart /\ NONE \notin Filed
    <2>1. IInv /\ HeldInv /\ PlaceInv /\ call.pc = "double inode"
      BY DEF BInv, StoreDouble, At
    <2>2. call.new_db \in Blocks
      BY <2>1 DEF IInv, HeldBlocks
    <2>3. NONE \notin Blocks
      BY ShapeAssumption DEF NONE, Blocks
    <2>5. NONE \notin Filed
      BY <2>1, <2>3 DEF Filed, IInv, TypeOK
    <2>4. NewIndex = DoubleStart
      BY <2>1 DEF PlaceInv
    <2> QED BY <2>1, <2>2, <2>3, <2>4, <2>5, Locals, LiveRunning DEF IInv, TypeOK
  <1>11. NewIndex \in Nat /\ NewIndex = DoubleStart
    BY <1>1
  <1>2. /\ inodes' = [inodes EXCEPT ![call.lfd.inum] = inode] /\ mem' = mem
        /\ call' = [call EXCEPT !.pc = "double", !.ino = inode]
        /\ fbm' = fbm /\ InCall
    BY DEF StoreDouble, StoreInode
  <1>3. /\ inode.direct = call.ino.direct /\ inode.size = call.ino.size
        /\ inode.ind = call.ino.ind /\ inode.dbl = call.new_db
    BY <1>1 DEF Inode
  <1> HIDE DEF inode
  <1>4. /\ call'.pc = "double" /\ call'.new_ptr = call.new_ptr
        /\ call'.new_ind = call.new_ind /\ call'.new_db = call.new_db
        /\ call'.lfd = call.lfd /\ call'.cursor = call.cursor /\ call'.ino = inode
    BY <1>1, <1>2 DEF Call
  <1>5. /\ EndInv' /\ CursorInv' /\ TakenInv' /\ Filed' = Filed
        /\ NewIndex' = NewIndex /\ CallBlocks' = CallBlocks /\ CallBlocks = NewIndex
        /\ Fresh' \subseteq fbm' \ taken'
    <2>1. Placing
      BY <1>1, <1>2, <1>3, <1>4 DEF Placing, Attaching
    <2> QED BY <2>1, PlacingInv
  <1>6. HeldInv'
    BY <1>1, <1>4, <1>5 DEF HeldInv
  <1>7. PlaceInv'
    <2>1. DoubleStart' = DoubleStart
      BY DEF DoubleStart
    <2> QED BY <1>1, <1>3, <1>4, <1>5, <2>1 DEF PlaceInv
  <1>8. StoredInv'
    BY <1>1, <1>2, <1>4 DEF StoredInv
  <1>9. \A p \in Parts(CallBlocks) : BlockIn(mem', call'.ino, p) = BlockIn(mem, call.ino, p)
    <2> SUFFICES ASSUME NEW p \in Parts(NewIndex)
                 PROVE  BlockIn(mem', inode, p) = BlockIn(mem, call.ino, p)
      BY <1>4, <1>5
    <2>1. \/ p = <<"indirect", 0>>
          \/ \E k \in Nat : p = <<"data", k>> /\ k < NewIndex /\ k < DoubleStart
      <3>1. NewIndex \in Nat /\ NewIndex <= DoubleStart
        BY <1>11, Starts
      <3> QED BY <3>1, IndirectParts
    <2>2. CASE p = <<"indirect", 0>>
      BY <1>3, <2>2 DEF BlockIn
    <2>3. CASE \E k \in Nat : p = <<"data", k>> /\ k < DoubleStart
      <3>1. PICK k \in Nat : p = <<"data", k>> /\ k < DoubleStart
        BY <2>3
      <3>2. BlockIn(mem', inode, p) = DataIn(mem', inode, k)
            /\ BlockIn(mem, call.ino, p) = DataIn(mem, call.ino, k)
        BY <3>1, BlockInKinds
      <3> QED BY <1>2, <1>3, <3>1, <3>2 DEF DataIn
    <2> QED BY <2>1, <2>2, <2>3
  <1>10. Advance
    <2>1. \A j \in Inodes : j # call.lfd.inum => inodes'[j] = inodes[j]
      BY <1>1, <1>2
    <2>2. call.pc # "idle" /\ call'.pc # "idle" /\ call'.lfd.inum = call.lfd.inum
      BY <1>1, <1>4
    <2> QED BY <1>1, <1>2, <1>5, <1>9, <2>1, <2>2, SameParts
  <1> QED BY <1>5, <1>6, <1>7, <1>8, <1>10

\* The double indirect block gets an inner block.
LEMMA StoreInnerInv ==
    ASSUME BInv, StoreInner
    PROVE  /\ Advance /\ HeldInv' /\ PlaceInv' /\ EndInv'
           /\ StoredInv' /\ CursorInv' /\ TakenInv'
  <1> DEFINE n == NewIndex
             dbl == call.ino.dbl
  <1>1. /\ IInv /\ TreeInv /\ HeldInv /\ PlaceInv /\ call \in Call
        /\ call.pc = "double block" /\ call.lfd.inum \in Inodes /\ dbl \in Blocks
        /\ mem \in [Blocks -> [Slots -> Cells]] /\ call.new_ind # NONE /\ n \in Nat
        /\ n >= DoubleStart /\ Inner = 0 /\ Filed \subseteq Blocks
    <2>1. IInv /\ HeldInv /\ PlaceInv /\ TreeInv /\ call.pc = "double block"
      BY DEF BInv, StoreInner, At
    <2>2. call.new_ind # NONE /\ n >= DoubleStart /\ Inner = 0
      BY <2>1 DEF PlaceInv
    <2>3. Filed \subseteq Blocks
      BY <2>1 DEF Filed, IInv, TypeOK
    <2>4. dbl \in Blocks
      BY <2>1, Locals DEF Inode
    <2> QED BY <2>1, <2>2, <2>3, <2>4, Locals, LiveRunning DEF IInv, TypeOK
  <1>0. n \in Nat /\ n >= DoubleStart /\ Inner = 0
    BY <1>1
  <1>2. /\ mem' = [mem EXCEPT ![dbl] = [@ EXCEPT ![Outer] = call.new_ind]]
        /\ call' = [call EXCEPT !.pc = "inner block"]
        /\ fbm' = fbm /\ inodes' = inodes /\ InCall
    BY DEF StoreInner, Poke
  <1>3. /\ call'.pc = "inner block" /\ call'.new_ptr = call.new_ptr
        /\ call'.new_ind = call.new_ind /\ call'.new_db = call.new_db
        /\ call'.lfd = call.lfd /\ call'.cursor = call.cursor /\ call'.ino = call.ino
    BY <1>1, <1>2 DEF Call
  <1>4. /\ EndInv' /\ CursorInv' /\ TakenInv' /\ Filed' = Filed
        /\ NewIndex' = NewIndex /\ CallBlocks' = CallBlocks /\ CallBlocks = NewIndex
        /\ Fresh' \subseteq fbm' \ taken' /\ Inner' = Inner /\ Outer' = Outer
    <2>1. Placing
      BY <1>1, <1>2, <1>3 DEF Placing, Attaching
    <2> QED BY <2>1, PlacingInv
  <1>5. /\ Outer \in Slots /\ Outer \in Nat /\ Outer * BlockSize \in Nat
        /\ n = DoubleStart + Outer * BlockSize
        /\ n = DoubleStart => Outer = 0
    <2>1. TakenInv /\ call.pc \notin {"idle", "chunk"}
      BY <1>1 DEF BInv
    <2>2. /\ Outer \in Slots /\ Outer \in Nat /\ Outer * BlockSize \in Nat
          /\ n = DoubleStart + Outer * BlockSize + Inner
          /\ n = DoubleStart => Outer = 0
      BY <1>1, <2>1, NextPlace
    <2> HIDE DEF n
    <2> QED BY <1>0, <2>2, Starts
  <1> DEFINE Has(o) == o \in Nat /\ DoubleStart + o * BlockSize < n
  <1>6. /\ call.ino.ind \in Filed
        /\ \A o : Has(o) => mem[dbl][o] \in Filed
        /\ n > DoubleStart =>
             /\ dbl \in Filed /\ dbl # call.ino.ind
             /\ \A o : Has(o) => mem[dbl][o] # dbl
    <2>1. call.pc \notin {"idle", "chunk"}
      BY <1>1
    <2> QED BY <1>1, <2>1, PointerBlocks
  <1>7. /\ n = DoubleStart => call.new_db # NONE /\ dbl = call.new_db
        /\ n # DoubleStart => call.new_db = NONE
    BY <1>1 DEF PlaceInv
  <1>8. HeldInv'
    BY <1>1, <1>3, <1>4 DEF HeldInv
  <1> HIDE DEF n, dbl
  <1>9. /\ mem'[dbl][Outer] = call.new_ind
        /\ \A k \in Slots : k # Outer => mem'[dbl][k] = mem[dbl][k]
        /\ \A c \in Blocks : c # dbl => mem'[c] = mem[c]
    BY <1>1, <1>2, <1>5
  <1>10. PlaceInv'
    <2>1. DoubleStart' = DoubleStart
      BY DEF DoubleStart
    <2> QED BY <1>1, <1>3, <1>4, <1>7, <1>9, <2>1 DEF PlaceInv, n, dbl
  <1>11. StoredInv'
    BY <1>1, <1>2, <1>3 DEF StoredInv, BInv
  <1>12. \A o \in Nat : DoubleStart + o * BlockSize < n => o \in Slots /\ o # Outer
    <2> SUFFICES ASSUME NEW o \in Nat, DoubleStart + o * BlockSize < n
                 PROVE  o \in Slots /\ o # Outer
      OBVIOUS
    <2>1. o * BlockSize \in Nat /\ (Outer <= o => Outer * BlockSize <= o * BlockSize)
      BY <1>5, TimesBlock
    <2>2. o < Outer
      BY <1>0, <1>5, <2>1, Starts
    <2> QED BY <1>5, <2>2, Starts DEF Slots
  <1>13. dbl # call.ino.ind /\ \A o : Has(o) => mem[dbl][o] # dbl
    <2>1. CASE n > DoubleStart
      BY <1>6, <2>1
    <2>2. CASE n = DoubleStart
      <3>1. dbl \notin Filed
        BY <1>7, <2>2 DEF Filed, Fresh
      <3> HIDE DEF Has
      <3> QED BY <1>6, <3>1
    <2> QED BY <1>0, <2>1, <2>2, Starts
  <1>14. SlotsStay(mem, mem', call.ino, n)
    <2>1. mem'[call.ino.ind] = mem[call.ino.ind]
      BY <1>1, <1>6, <1>9, <1>13
    <2>2. \A o \in Nat : DoubleStart + o * BlockSize < n => mem'[dbl][o] = mem[dbl][o]
      BY <1>9, <1>12
    <2>3. ASSUME NEW o \in Nat, NEW r \in Slots, DoubleStart + o * BlockSize + r < n
          PROVE  mem'[mem[dbl][o]][r] = mem[mem[dbl][o]][r]
      <3>1. o * BlockSize \in Nat
        BY TimesBlock
      <3>2. Has(o)
        BY <1>0, <2>3, <3>1, Starts DEF Slots
      <3> HIDE DEF Has
      <3> QED BY <1>1, <1>6, <1>9, <1>13, <3>2
    <2> QED BY <2>1, <2>2, <2>3 DEF SlotsStay, dbl
  <1>15. \A p \in Parts(CallBlocks) : BlockIn(mem', call'.ino, p) = BlockIn(mem, call.ino, p)
    <2>1. \A p \in Parts(n) : BlockIn(mem', call.ino, p) = BlockIn(mem, call.ino, p)
      BY <1>0, <1>14, SlotsKept
    <2> QED BY <1>3, <1>4, <2>1 DEF n
  <1>16. dbl \notin Filed \/ \E q \in Parts(CallBlocks) : dbl = BlockIn(mem, call.ino, q)
    <2>1. CASE n > DoubleStart
      <3>1. <<"double", 0>> \in Parts(n)
        BY <1>0, <2>1, Starts, PartsAre
      <3>2. dbl = BlockIn(mem, call.ino, <<"double", 0>>)
        BY DEF BlockIn, dbl
      <3> QED BY <1>4, <3>1, <3>2 DEF n
    <2>2. CASE n = DoubleStart
      BY <1>7, <2>2 DEF Filed, Fresh
    <2> QED BY <1>0, <2>1, <2>2, Starts
  <1>17. Advance
    <2>1. call.pc # "idle" /\ call'.pc # "idle" /\ call'.lfd.inum = call.lfd.inum
      BY <1>1, <1>3
    <2> QED BY <1>1, <1>2, <1>4, <1>9, <1>15, <1>16, <2>1, SameParts, ZenonT(30)
  <1> QED BY <1>4, <1>8, <1>10, <1>11, <1>17

-----------------------------------------------------------------------------
(* Writing the buffer to a block.                                          *)

\* CeilDiv(n) is the k whose blocks hold n cells and k - 1 do not.
LEMMA CeilIs ==
    ASSUME NEW n \in Nat, NEW k \in Nat, n <= k * BlockSize, k * BlockSize < n + BlockSize
    PROVE  CeilDiv(n) = k
  <1> DEFINE c == CeilDiv(n)
  <1>1. c \in Nat /\ (k < c <=> k * BlockSize < n) /\ (c < c <=> c * BlockSize < n)
    BY CeilDivFacts
  <1> HIDE DEF c
  <1>2. /\ k * BlockSize \in Nat /\ c * BlockSize \in Nat
        /\ c < k => c * BlockSize + BlockSize <= k * BlockSize
    BY <1>1, TimesBlock
  <1>3. ~(k < c)
    BY <1>1, <1>2
  <1>4. ~(c < k)
    BY <1>1, <1>2, Starts
  <1> QED BY <1>1, <1>3, <1>4 DEF c

\* Cursors are made by _fd_cursor_set.
LEMMA NormalSet ==
    ASSUME NEW fd \in Fd, NEW o \in Nat PROVE Normal(fd_cursor_set(fd, o))
  <1> DEFINE new == fd_cursor_set(fd, o)
             q == o \div BlockSize
             u == UsageOf(o)
  <1>1. /\ new.usage = u /\ new.order = q - FirstIndex(u)
    BY DEF fd_cursor_set, Fd
  <1>2. q \in Nat /\ q * BlockSize \in Nat /\ q * BlockSize <= o
    <2>1. q \in Nat /\ (o % BlockSize) \in Slots /\ o = BlockSize * q + (o % BlockSize)
      BY DivMod
    <2> HIDE DEF q
    <2>2. BlockSize * q = q * BlockSize /\ q * BlockSize \in Nat
      BY <2>1, Starts, TimesBlock
    <2> QED BY <2>1, <2>2 DEF Slots
  <1>3. ASSUME NEW i \in Nat, o < i * BlockSize PROVE q < i
    <2> HIDE DEF q
    <2>1. i <= q => i * BlockSize <= q * BlockSize
      BY <1>2, TimesBlock
    <2>2. i * BlockSize \in Nat
      BY TimesBlock
    <2> QED BY <1>2, <1>3, <2>1, <2>2
  <1>4. u = "direct" => o < IndirectStart * BlockSize
    BY DEF UsageOf
  <1>5. u = "indirect" => o < DoubleStart * BlockSize
    BY DEF UsageOf
  <1> HIDE DEF new, q, u
  <1>6. u = "direct" => new.order < IndirectStart
    <2> SUFFICES ASSUME u = "direct" PROVE new.order < IndirectStart
      OBVIOUS
    <2>1. q < IndirectStart /\ FirstIndex(u) = 0
      BY <1>3, <1>4, Starts DEF FirstIndex
    <2> QED BY <1>1, <1>2, <2>1, Starts
  <1>7. u = "indirect" => new.order < BlockSize
    <2> SUFFICES ASSUME u = "indirect" PROVE new.order < BlockSize
      OBVIOUS
    <2>1. q < DoubleStart
      BY <1>3, <1>5, Starts
    <2>2. FirstIndex(u) = IndirectStart
      BY DEF FirstIndex
    <2> QED BY <1>1, <1>2, <2>1, <2>2, Starts
  <1> QED BY <1>1, <1>6, <1>7 DEF Normal, new

\* The block under the cursor is the file's block of that index.
LEMMA CursorBlock ==
    ASSUME NEW inode, NEW fd \in Fd, Normal(fd)
    PROVE  FdBlock(inode, fd) = DataIn(mem, inode, fd_cursor_get_block_index(fd))
  <1>1. fd.usage \in Usages /\ fd.order \in Nat
    BY DEF Fd
  <1> DEFINE k == fd_cursor_get_block_index(fd)
  <1>2. CASE fd.usage = "direct"
    <2>1. k = fd.order /\ k < IndirectStart
      BY <1>1, <1>2 DEF fd_cursor_get_block_index, FirstIndex, Normal
    <2> QED BY <1>2, <2>1 DEF FdBlock, DataIn
  <1>3. CASE fd.usage = "indirect"
    <2>1. k = IndirectStart + fd.order /\ fd.order < BlockSize
      BY <1>3 DEF fd_cursor_get_block_index, FirstIndex, Normal
    <2>2. ~(k < IndirectStart) /\ k < DoubleStart /\ k - IndirectStart = fd.order
      <3> HIDE DEF k
      <3> QED BY <1>1, <2>1, Starts
    <2>3. DataIn(mem, inode, k) = mem[inode.ind][k - IndirectStart]
      BY <2>2 DEF DataIn
    <2> QED BY <1>3, <2>2, <2>3 DEF FdBlock
  <1>4. CASE fd.usage = "double"
    <2>1. k = DoubleStart + fd.order
      BY <1>4 DEF fd_cursor_get_block_index, FirstIndex
    <2>2. ~(k < IndirectStart) /\ ~(k < DoubleStart) /\ k - DoubleStart = fd.order
      <3> HIDE DEF k
      <3> QED BY <1>1, <2>1, Starts
    <2>3. DataIn(mem, inode, k) = mem[mem[inode.dbl][(k - DoubleStart) \div BlockSize]]
                                     [(k - DoubleStart) % BlockSize]
      BY <2>2 DEF DataIn
    <2> QED BY <1>4, <2>2, <2>3 DEF FdBlock
  <1> QED BY <1>1, <1>2, <1>3, <1>4 DEF Usages

\* The cells of one block, from the cursor on, leave the file as many blocks
\* as it has.
LEMMA ChunkBlocks ==
    ASSUME BInv, call.pc = "chunk" \/ (call.pc = "loop" /\ ~NeedsBlock),
           NEW n \in Nat, n > 0, n <= BlockSize - call.lfd.off
    PROVE  LET k == fd_cursor_get_block_index(call.lfd)
           IN  /\ k \in Nat /\ k < CallBlocks
               /\ CeilDiv(MaxOf(call.ino.size, call.cursor + n)) = CallBlocks
  <1> DEFINE k == fd_cursor_get_block_index(call.lfd)
             off == call.lfd.off
             size == call.ino.size
             cur == call.cursor + n
             c == CallBlocks
  <1>1. /\ IInv /\ k \in Nat /\ off \in Slots /\ k * BlockSize \in Nat
        /\ call.cursor = k * BlockSize + off /\ size \in Nat /\ call.cursor <= size
        /\ NewIndex \in Nat
    <2>1. IInv /\ call.pc # "idle"
      BY DEF BInv
    <2>2. call.lfd \in Fd /\ size \in Nat /\ NewIndex \in Nat
      BY <2>1, Locals, LiveRunning
    <2>3. call.cursor = fd_cursor_get(call.lfd) /\ call.cursor <= size
      BY <2>1 DEF IInv, CallInFile
    <2>4. k \in Nat /\ off \in Slots /\ fd_cursor_get(call.lfd) = k * BlockSize + off
      BY <2>2, CursorNat
    <2>5. k * BlockSize \in Nat
      BY <2>4, TimesBlock
    <2> HIDE DEF k, off, size
    <2> QED BY <2>1, <2>2, <2>3, <2>4, <2>5
  <1> HIDE DEF k, off
  <1>2. CASE call.pc = "chunk"
    <2>1. call.cursor = size /\ off = 0 /\ c = NewIndex + 1
      BY <1>1, <1>2 DEF BInv, IInv, EndInv, BlocksFilled, CallBlocks, off
    <2> HIDE DEF size, c
    <2>2. size = k * BlockSize
      BY <1>1, <2>1
    <2>3. NewIndex = k
      <3>1. CeilDiv(size) = k
        BY <1>1, <2>2, CeilIs, Starts
      <3> QED BY <3>1 DEF NewIndex, size
    <2>4. (k + 1) * BlockSize = k * BlockSize + BlockSize
      BY <1>1, Starts, SMT
    <2>5. /\ MaxOf(size, cur) \in Nat /\ k + 1 \in Nat
          /\ MaxOf(size, cur) <= (k + 1) * BlockSize
          /\ (k + 1) * BlockSize < MaxOf(size, cur) + BlockSize
      <3>1. cur = k * BlockSize + n /\ MaxOf(size, cur) = cur
        BY <1>1, <2>1, <2>2 DEF MaxOf
      <3>2. n <= BlockSize
        BY <2>1, Starts DEF off
      <3> HIDE DEF cur
      <3> QED BY <1>1, <2>4, <3>1, <3>2, Starts
    <2>6. CeilDiv(MaxOf(size, cur)) = k + 1
      <3> HIDE DEF cur
      <3> QED BY <2>5, CeilIs
    <2> QED BY <1>1, <2>1, <2>3, <2>6 DEF k, c, size
  <1>3. CASE call.pc = "loop" /\ ~NeedsBlock
    <2>1. c = CeilDiv(size) /\ c \in Nat /\ k < c /\ size <= c * BlockSize
      <3>1. c = CeilDiv(size)
        BY <1>3 DEF CallBlocks, NewIndex
      <3>2. k < CeilDiv(size)
        BY <1>3 DEF NeedsBlock, cursor_in_owned_block, k
      <3> HIDE DEF c, size
      <3> QED BY <1>1, <3>1, <3>2, CeilDivFacts
    <2> HIDE DEF size, c
    <2>2. c * BlockSize \in Nat /\ k * BlockSize + BlockSize <= c * BlockSize
      BY <1>1, <2>1, TimesBlock
    <2>3. c * BlockSize < size + BlockSize
      <3> DEFINE e == c - 1
      <3>1. e \in Nat /\ e < CeilDiv(size) /\ c = e + 1
        BY <1>1, <2>1
      <3> HIDE DEF e
      <3>2. e * BlockSize < size /\ e * BlockSize \in Nat
        BY <1>1, <3>1, CeilDivFacts, TimesBlock
      <3>3. (e + 1) * BlockSize = e * BlockSize + BlockSize
        BY <3>1, Starts, SMT
      <3> QED BY <1>1, <3>1, <3>2, <3>3, Starts
    <2>4. /\ MaxOf(size, cur) \in Nat /\ MaxOf(size, cur) <= c * BlockSize
          /\ c * BlockSize < MaxOf(size, cur) + BlockSize
      <3>1. cur = k * BlockSize + off + n /\ n <= BlockSize - off
        BY <1>1 DEF off
      <3>2. cur \in Nat /\ cur <= c * BlockSize
        <4> HIDE DEF cur
        <4> QED BY <1>1, <2>2, <3>1, Starts DEF Slots
      <3> HIDE DEF cur
      <3> QED BY <1>1, <2>1, <2>2, <2>3, <3>2, Starts DEF MaxOf
    <2>5. CeilDiv(MaxOf(size, cur)) = c
      <3> HIDE DEF cur
      <3> QED BY <2>1, <2>4, CeilIs
    <2> QED BY <1>1, <2>1, <2>5 DEF k, c, size
  <1> QED BY <1>2, <1>3

\* Writing user data into the block of the cursor.
LEMMA ChunkKeeps ==
    ASSUME BInv, WriteChunk
    PROVE  /\ Advance /\ HeldInv' /\ PlaceInv' /\ EndInv'
           /\ StoredInv' /\ CursorInv' /\ TakenInv'
  <1> DEFINE off == call.lfd.off
             n   == MinOf(Len(call.buf) - call.done, BlockSize - off)
             cur == call.cursor + n
             lfd == fd_cursor_set(call.lfd, cur)
             size == MaxOf(call.ino.size, cur)
             inode == [call.ino EXCEPT !.size = size]
             b   == FdBlock(call.ino, call.lfd)
             k   == fd_cursor_get_block_index(call.lfd)
             new == [j \in Slots |-> IF off <= j /\ j < off + n
                        THEN call.buf[call.done + (j - off) + 1] ELSE mem[b][j]]
  <1>1. /\ IInv /\ TreeInv /\ HeldInv /\ call \in Call /\ call.pc \in {"chunk", "loop"}
        /\ call.ino \in Inode /\ call.lfd \in Fd /\ Normal(call.lfd)
        /\ call.lfd.inum \in Inodes
    <2>1. IInv /\ TreeInv /\ HeldInv /\ call.pc \in {"chunk", "loop"} /\ Normal(call.lfd)
      BY DEF BInv, WriteChunk, At, CursorInv
    <2> QED BY <2>1, Locals
  <1>2. /\ mem' = [mem EXCEPT ![b] = new]
        /\ call' = [call EXCEPT !.pc = "loop", !.done = @ + n, !.cursor = cur,
                               !.lfd = lfd, !.ino.size = MaxOf(@, cur)]
        /\ fbm' = fbm /\ inodes' = inodes /\ InCall
    BY DEF WriteChunk
  <1>3. call.done < Len(call.buf)
    <2>1. CASE call.pc = "chunk"
      BY <1>1, <2>1 DEF IInv, BlocksFilled
    <2>2. CASE call.pc = "loop"
      BY <2>2 DEF WriteChunk, At
    <2> QED BY <1>1, <2>1, <2>2
  <1>4. n \in Nat /\ n > 0 /\ n <= BlockSize - off /\ cur \in Nat
    <2>1. call.pc # "idle"
      BY <1>1
    <2>2. off \in Slots /\ BlockSize \in Nat
      BY <1>1, CursorNat, ShapeAssumption
    <2>3. Len(call.buf) \in Nat /\ call.done \in Nat /\ call.cursor \in Nat
      BY <1>1, <2>1, Locals
    <2> HIDE DEF off
    <2> QED BY <1>3, <2>2, <2>3 DEF MinOf, Slots
  <1>5. /\ k \in Nat /\ k < CallBlocks /\ CeilDiv(size) = CallBlocks
    <2>1. call.pc = "chunk" \/ (call.pc = "loop" /\ ~NeedsBlock)
      BY <1>1 DEF WriteChunk, At
    <2> HIDE DEF n
    <2> QED BY <1>4, <2>1, ChunkBlocks
  <1>6. Normal(lfd) /\ lfd.inum = call.lfd.inum
    <2> HIDE DEF cur
    <2> QED BY <1>1, <1>4, NormalSet, CursorRoundTrip
  <1>7. /\ inode.direct = call.ino.direct /\ inode.ind = call.ino.ind
        /\ inode.dbl = call.ino.dbl /\ inode.size = size
    BY <1>1 DEF Inode
  <1>8. b = DataIn(mem, call.ino, k)
    BY <1>1, CursorBlock
  <1> HIDE DEF off, n, cur, lfd, new, b, k, size
  <1>9. /\ call'.pc = "loop" /\ call'.lfd = lfd /\ call'.ino = inode
        /\ call'.new_ptr = call.new_ptr /\ call'.new_ind = call.new_ind
        /\ call'.new_db = call.new_db
    BY <1>1, <1>2 DEF Call, size
  <1> HIDE DEF inode
  <1>10. /\ call.new_ptr = NONE /\ call.new_ind = NONE /\ call.new_db = NONE
         /\ Fresh' = Fresh /\ Fresh = {}
    BY <1>1, <1>9 DEF HeldInv, Fresh
  <1>11. HeldInv'
    BY <1>9, <1>10 DEF HeldInv
  <1>12. PlaceInv' /\ EndInv'
    BY <1>9 DEF PlaceInv, EndInv, Attaching
  <1>13. StoredInv'
    BY <1>1, <1>2, <1>6, <1>7, <1>9 DEF StoredInv, BInv
  <1>14. CursorInv' /\ TakenInv' /\ Filed' = Filed
    BY <1>2, <1>6, <1>9, <1>10 DEF BInv, CursorInv, TakenInv, InCall, table, Filed
  <1>15. CallBlocks' = CallBlocks /\ CallBlocks \in Nat
    BY <1>1, <1>5, <1>7, <1>9, LiveRunning DEF CallBlocks, NewIndex
  <1>16. \A c \in Blocks : c # b => mem'[c] = mem[c]
    BY <1>1, <1>2 DEF IInv, TypeOK
  <1>17. <<"data", k>> \in Parts(CallBlocks) /\ b = BlockIn(mem, call.ino, <<"data", k>>)
    BY <1>5, <1>8, <1>15, PartsAre, BlockInKinds
  <1>18. \A p \in Parts(CallBlocks) : BlockIn(mem', call'.ino, p) = BlockIn(mem, call.ino, p)
    <2>0. PICK r \in Inodes : r = call.lfd.inum
      BY <1>1
    <2>1. LiveInode(r) = call.ino /\ LiveBlocks(r) = CallBlocks
      BY <1>1, <2>0, LiveRunning
    <2>2. \E i \in Inodes : \E q \in Parts(LiveBlocks(i)) :
             b = BlockIn(mem, LiveInode(i), q) /\ (i # r \/ q[1] = "data")
      <3>1. <<"data", k>>[1] = "data"
        OBVIOUS
      <3> QED BY <1>17, <2>1, <3>1
    <2>3. \A p \in Parts(CallBlocks) : BlockIn(mem', call.ino, p) = BlockIn(mem, call.ino, p)
      BY <1>1, <1>16, <2>1, <2>2, OtherTrees
    <2>4. \A p : BlockIn(mem', call'.ino, p) = BlockIn(mem', call.ino, p)
      BY <1>7, <1>9 DEF BlockIn, DataIn
    <2> QED BY <2>3, <2>4
  <1>19. Advance
    <2>1. call.pc # "idle" /\ call'.pc # "idle" /\ call'.lfd.inum = call.lfd.inum
      BY <1>1, <1>6, <1>9
    <2>2. \E q \in Parts(CallBlocks) : b = BlockIn(mem, call.ino, q)
      BY <1>17
    <2> QED BY <1>1, <1>2, <1>14, <1>15, <1>16, <1>18, <2>1, <2>2, SameParts
  <1> QED BY <1>11, <1>12, <1>13, <1>14, <1>19

-----------------------------------------------------------------------------
(* The end of a call, and what happens between calls.                      *)

\* The files and what is held stay as they are.
LEMMA SameFiles ==
    ASSUME TreeInv, mem' = mem, Filed' = Filed,
           \A j \in Inodes : LiveInode(j)' = LiveInode(j) /\ LiveBlocks(j)' = LiveBlocks(j)
    PROVE  TreeInv' /\ Leaked' = Leaked
  <1>1. \A j \in Inodes : /\ Live[j] = LiveInode(j) /\ Live'[j] = LiveInode(j)'
                          /\ Counts[j] = LiveBlocks(j) /\ Counts'[j] = LiveBlocks(j)'
    BY DEF Live, Counts
  <1>2. TreeInv'
    BY <1>1 DEF TreeInv, Apart, Within
  <1>3. \A i, p : PartBlock(LiveInode(i), p)' = BlockIn(mem', LiveInode(i)', p)
    BY DEF PartBlock, DataBlock, BlockIn, DataIn
  <1>4. Leaked' = Leaked
    <2>1. \A c : c \in Leaked' <=>
            /\ c \in Filed'
            /\ \A i \in Inodes : \A p \in Parts(LiveBlocks(i)') :
                  c # BlockIn(mem', LiveInode(i)', p)
      BY <1>3 DEF Leaked, Filed, Owned
    <2>2. \A c : c \in Leaked' <=> c \in Leaked
      BY <2>1, LeakedAre
    <2> QED BY <2>2
  <1> QED BY <1>2, <1>4

\* Between calls nothing is held and nothing is being added.
LEMMA IdleInv ==
    ASSUME call'.pc = "idle", call'.new_ptr = NONE, call'.new_ind = NONE,
           call'.new_db = NONE, Normal(call.lfd)'
    PROVE  HeldInv' /\ PlaceInv' /\ EndInv' /\ StoredInv' /\ Fresh' = {}
  BY DEF HeldInv, PlaceInv, EndInv, StoredInv, Fresh, Attaching

\* The values a call and a descriptor start from.
LEMMA IdleFields ==
    /\ Idle.pc = "idle" /\ Idle.new_ptr = NONE /\ Idle.new_ind = NONE
    /\ Idle.new_db = NONE /\ Normal(Idle.lfd) /\ Normal(ZeroFd)
    /\ \A i : Normal([ZeroFd EXCEPT !.inum = i])
  BY Starts DEF Idle, ZeroFd, Normal

\* fs_write stores the inode and the cursor.
LEMMA FinishKeeps ==
    ASSUME BInv, Finish
    PROVE  /\ TreeInv' /\ Leaked' = Leaked /\ HeldInv' /\ PlaceInv' /\ EndInv'
           /\ StoredInv' /\ CursorInv' /\ TakenInv'
  <1>1. /\ IInv /\ TreeInv /\ HeldInv /\ CursorInv /\ TakenInv
        /\ call.pc \in {"finish", "loop"} /\ call.fd \in Fds
        /\ call.lfd.inum \in Inodes /\ call.ino \in Inode
        /\ inodes \in [Inodes -> Inode] /\ fd_tab \in [Fds -> Fd]
    <2>1. /\ IInv /\ TreeInv /\ HeldInv /\ CursorInv /\ TakenInv
          /\ call.pc \in {"finish", "loop"}
      BY DEF BInv, Finish, At
    <2> QED BY <2>1, Locals DEF IInv, TypeOK
  <1>2. /\ fd_tab' = [fd_tab EXCEPT ![call.fd] = call.lfd]
        /\ inodes' = [inodes EXCEPT ![call.lfd.inum] = call.ino]
        /\ call' = Idle /\ UNCHANGED <<fbm, mem, taken>>
    BY DEF Finish, StoreInode
  <1>3. HeldInv' /\ PlaceInv' /\ EndInv' /\ StoredInv' /\ Fresh' = {}
    BY <1>2, IdleFields, IdleInv
  <1>4. CursorInv' /\ TakenInv'
    BY <1>1, <1>2, IdleFields DEF CursorInv, TakenInv
  <1>5. Filed' = Filed
    <2>1. Fresh = {}
      BY <1>1 DEF HeldInv, Fresh
    <2> QED BY <1>2, <1>3, <2>1 DEF Filed
  <1>6. ASSUME NEW j \in Inodes
        PROVE  LiveInode(j)' = LiveInode(j) /\ LiveBlocks(j)' = LiveBlocks(j)
    <2>1. LiveInode(j)' = inodes'[j]
      BY <1>2, IdleFields DEF LiveInode, Running
    <2>2. CASE j = call.lfd.inum
      <3>1. LiveInode(j) = call.ino /\ inodes'[j] = call.ino
        BY <1>1, <1>2, <2>2 DEF LiveInode, Running
      <3> QED BY <1>1, <1>2, <2>1, <2>2, <3>1, IdleFields DEF LiveBlocks, Running
    <2>3. CASE j # call.lfd.inum
      <3>1. LiveInode(j) = inodes[j] /\ inodes'[j] = inodes[j]
        BY <1>1, <1>2, <2>3 DEF LiveInode, Running
      <3> QED BY <1>1, <1>2, <2>1, <2>3, <3>1, IdleFields DEF LiveBlocks, Running
    <2> QED BY <2>2, <2>3
  <1>7. TreeInv' /\ Leaked' = Leaked
    BY <1>1, <1>2, <1>5, <1>6, SameFiles
  <1> QED BY <1>3, <1>4, <1>7

\* The stored inodes reach a part of what the files have.
LEMMA StoredParts ==
    ASSUME IInv, TreeInv, StoredInv, NEW i \in Inodes,
           NEW p \in Parts(CeilDiv(inodes[i].size))
    PROVE  p \in Parts(LiveBlocks(i))
           /\ BlockIn(mem, inodes[i], p) = BlockIn(mem, LiveInode(i), p)
  <1> DEFINE s == CeilDiv(inodes[i].size)
  <1>1. inodes[i].size \in Nat /\ s \in Nat
    <2>1. inodes[i].size \in Nat
      BY DEF IInv, TypeOK, Inode
    <2> QED BY <2>1, CeilDivFacts
  <1>2. CASE ~Running(i)
    <2>1. LiveInode(i) = inodes[i] /\ LiveBlocks(i) = s
      BY <1>1, <1>2 DEF LiveInode, LiveBlocks
    <2> QED BY <2>1
  <1>3. CASE Running(i)
    <2>1. call.pc # "idle" /\ i = call.lfd.inum
      BY <1>3 DEF Running
    <2>2. /\ inodes[i].direct = call.ino.direct /\ inodes[i].ind = call.ino.ind
          /\ inodes[i].dbl = call.ino.dbl
      BY <2>1 DEF StoredInv
    <2>3. LiveInode(i) = call.ino /\ LiveBlocks(i) = CallBlocks /\ CallBlocks \in Nat
          /\ NewIndex \in Nat
      BY <2>1, LiveRunning
    <2>4. s <= CallBlocks
      <3>1. inodes[i].size <= call.ino.size /\ call.ino.size \in Nat
        BY <2>1, Locals DEF IInv, CallInFile
      <3>2. s <= NewIndex
        <4> DEFINE c == CeilDiv(call.ino.size)
        <4>1. c \in Nat /\ (c < s <=> c * BlockSize < inodes[i].size)
              /\ call.ino.size <= c * BlockSize /\ c * BlockSize \in Nat
          BY <1>1, <3>1, CeilDivFacts, TimesBlock
        <4> HIDE DEF c, s
        <4>2. ~(c < s)
          BY <1>1, <3>1, <4>1
        <4> QED BY <1>1, <4>1, <4>2 DEF NewIndex, c
      <3> HIDE DEF s
      <3> QED BY <1>1, <2>3, <3>2 DEF CallBlocks
    <2>5. p \in Parts(CallBlocks)
      BY <1>1, <2>3, <2>4, PartsGrow
    <2> QED BY <2>2, <2>3, <2>5 DEF BlockIn, DataIn
  <1> QED BY <1>2, <1>3

\* The process dies in a call: what is stored is a file system.
LEMMA CrashKeeps ==
    ASSUME BInv, Crash
    PROVE  /\ TreeInv' /\ HeldInv' /\ PlaceInv' /\ EndInv'
           /\ StoredInv' /\ CursorInv' /\ TakenInv'
  <1>1. IInv /\ TreeInv /\ HeldInv /\ StoredInv /\ TakenInv
    BY DEF BInv
  <1>2. /\ fd_tab' = [d \in Fds |-> ZeroFd] /\ call' = Idle
        /\ UNCHANGED <<fbm, mem, inodes, taken>>
    BY DEF Crash, DropTable, device
  <1>3. HeldInv' /\ PlaceInv' /\ EndInv' /\ StoredInv' /\ Fresh' = {}
    BY <1>2, IdleFields, IdleInv
  <1>4. CursorInv' /\ TakenInv'
    BY <1>1, <1>2, IdleFields DEF CursorInv, TakenInv
  <1>5. Filed \subseteq Filed'
    BY <1>2, <1>3 DEF Filed
  <1>6. ASSUME NEW j \in Inodes
        PROVE  LiveInode(j)' = inodes[j] /\ LiveBlocks(j)' = CeilDiv(inodes[j].size)
    <2>1. inodes[j].size \in Nat
      BY <1>1 DEF IInv, TypeOK, Inode
    <2>2. CeilDiv(inodes[j].size) \in Nat
      BY <2>1, CeilDivFacts
    <2>3. LiveInode(j)' = inodes[j]
      BY <1>2, IdleFields DEF LiveInode, Running
    <2> QED BY <1>2, <2>2, <2>3, IdleFields DEF LiveBlocks, Running
  <1>7. \A j \in Inodes : /\ Live[j] = LiveInode(j) /\ Live'[j] = LiveInode(j)'
                          /\ Counts[j] = LiveBlocks(j) /\ Counts'[j] = LiveBlocks(j)'
    BY DEF Live, Counts
  <1>8. ASSUME NEW j \in Inodes, NEW p \in Parts(Counts'[j])
        PROVE  p \in Parts(Counts[j]) /\ BlockIn(mem', Live'[j], p) = BlockIn(mem, Live[j], p)
    <2>1. p \in Parts(CeilDiv(inodes[j].size))
      BY <1>6, <1>7
    <2> QED BY <1>1, <1>2, <1>6, <1>7, <2>1, StoredParts
  <1>9. GrowsBy(mem, Live, Counts, Filed, mem', Live', Counts', Filed', NONE, {})
    BY <1>5, <1>8 DEF GrowsBy
  <1>10. TreeInv'
    BY <1>1, <1>9, TreeStep
  <1> QED BY <1>3, <1>4, <1>10

\* A step that changes no more than the descriptor table.
LEMMA TableKeeps ==
    ASSUME BInv, UNCHANGED <<fbm, mem, inodes, call, taken>>,
           \A d \in Fds : Normal(fd_tab'[d])
    PROVE  IInv' => BInv'
  <1>1. Filed' = Filed /\ Fresh' = Fresh
    BY DEF Filed, Fresh
  <1>2. TreeInv'
    <2>1. ASSUME NEW j \in Inodes
          PROVE  LiveInode(j)' = LiveInode(j) /\ LiveBlocks(j)' = LiveBlocks(j)
      BY DEF LiveInode, LiveBlocks, Running
    <2> QED BY <1>1, <2>1, SameFiles DEF BInv
  <1>3. HeldInv' /\ PlaceInv' /\ EndInv' /\ StoredInv' /\ CursorInv' /\ TakenInv'
    BY <1>1 DEF BInv, HeldInv, PlaceInv, EndInv, StoredInv, CursorInv, TakenInv,
                NewIndex, Inner, Outer
  <1> QED BY <1>2, <1>3 DEF BInv

\* What only changes the table of descriptors loses no block.
LEMMA TableLeaks ==
    ASSUME BInv, UNCHANGED <<fbm, mem, inodes, call, taken>> PROVE Leaked' = Leaked
  <1>1. Filed' = Filed
    BY DEF Filed, Fresh
  <1>2. ASSUME NEW j \in Inodes
        PROVE  LiveInode(j)' = LiveInode(j) /\ LiveBlocks(j)' = LiveBlocks(j)
    BY DEF LiveInode, LiveBlocks, Running
  <1> QED BY <1>1, <1>2, SameFiles DEF BInv

\* fs_write starts.
LEMMA WriteStarts ==
    ASSUME BInv, NEW d \in Fds, NEW buf, fs_write(d, buf)
    PROVE  /\ TreeInv' /\ Leaked' = Leaked /\ HeldInv' /\ PlaceInv' /\ EndInv'
           /\ StoredInv' /\ CursorInv' /\ TakenInv'
  <1> DEFINE next == [Idle EXCEPT !.pc = "loop", !.fd = d, !.lfd = fd_tab[d],
                          !.ino = inodes[fd_tab[d].inum], !.buf = buf,
                          !.cursor = fd_cursor_get(fd_tab[d])]
  <1>1. IInv /\ TreeInv /\ CursorInv /\ TakenInv /\ call.pc = "idle" /\ HeldInv
        /\ fd_tab[d].inum \in Inodes
    BY DEF BInv, fs_write, Ready, IInv, OpenInFile
  <1>2. /\ call' = next
        /\ UNCHANGED <<fbm, mem, inodes, fd_tab, taken>>
    BY DEF fs_write, device, table
  <1>3. /\ next.pc = "loop" /\ next.lfd = fd_tab[d] /\ next.ino = inodes[fd_tab[d].inum]
        /\ next.new_ptr = NONE /\ next.new_ind = NONE /\ next.new_db = NONE
    BY DEF Idle
  <1> HIDE DEF next
  <1>4. Fresh' = {} /\ Fresh = {}
    BY <1>1, <1>2, <1>3 DEF Fresh, HeldInv
  <1>5. HeldInv' /\ PlaceInv' /\ EndInv' /\ StoredInv'
    BY <1>2, <1>3, <1>4 DEF HeldInv, PlaceInv, EndInv, StoredInv, Attaching
  <1>6. CursorInv' /\ TakenInv'
    BY <1>1, <1>2, <1>3 DEF CursorInv, TakenInv
  <1>7. Filed' = Filed
    BY <1>2, <1>4 DEF Filed
  <1>8. ASSUME NEW j \in Inodes
        PROVE  LiveInode(j)' = LiveInode(j) /\ LiveBlocks(j)' = LiveBlocks(j)
    <2>1. LiveInode(j) = inodes[j] /\ LiveInode(j)' = inodes[j]
      BY <1>1, <1>2, <1>3 DEF LiveInode, Running
    <2> QED BY <1>1, <1>2, <1>3, <2>1 DEF LiveBlocks, Running
  <1>9. TreeInv' /\ Leaked' = Leaked
    BY <1>1, <1>2, <1>7, <1>8, SameFiles
  <1> QED BY <1>5, <1>6, <1>9

\* The calls of one step, and the start of fs_write.
LEMMA CallsKeep ==
    ASSUME BInv, CallStart PROVE BInv' /\ Leaked' = Leaked
  <1> USE DEF Ready, device, table
  <1>0. IInv' /\ CursorInv /\ IInv
    BY CallsInv DEF BInv
  <1>1. /\ fd_tab \in [Fds -> Fd] /\ fd_used \subseteq Fds
        /\ inodes \in [Inodes -> Inode]
    BY <1>0 DEF IInv, TypeOK
  <1>2. ASSUME NEW d \in fd_used, NEW pos \in Nat,
               fd_tab' = [fd_tab EXCEPT ![d] = fd_cursor_set(@, pos)]
        PROVE  \A e \in Fds : Normal(fd_tab'[e])
    <2>1. fd_tab[d] \in Fd /\ d \in Fds
      BY <1>1
    <2>2. Normal(fd_cursor_set(fd_tab[d], pos))
      BY <2>1, NormalSet
    <2> QED BY <1>0, <1>1, <1>2, <2>1, <2>2 DEF CursorInv
  <1>3. ASSUME UNCHANGED <<fbm, mem, inodes, call, taken>>,
               \A d \in Fds : Normal(fd_tab'[d])
        PROVE  BInv' /\ Leaked' = Leaked
    BY <1>0, <1>3, TableKeeps, TableLeaks
  <1>4. ASSUME UNCHANGED <<fbm, mem, inodes, call, taken>>, fd_tab' = fd_tab
        PROVE  BInv' /\ Leaked' = Leaked
    BY <1>0, <1>3, <1>4 DEF CursorInv
  <1>5. ASSUME NEW i \in Inodes, fs_open(i) PROVE BInv' /\ Leaked' = Leaked
    <2>1. UNCHANGED <<fbm, mem, inodes, call, taken>>
      BY <1>5 DEF fs_open
    <2>2. ASSUME NEW d \in Fds, fd_tab' = [fd_tab EXCEPT ![d] = [ZeroFd EXCEPT !.inum = i]]
          PROVE  \A e \in Fds : Normal(fd_tab'[e])
      <3>1. Normal([ZeroFd EXCEPT !.inum = i])
        BY IdleFields
      <3> QED BY <1>0, <1>1, <2>2, <3>1 DEF CursorInv
    <2> QED BY <1>3, <1>4, <1>5, <2>1, <2>2 DEF fs_open
  <1>6. ASSUME NEW d \in Fds, NEW o \in SeekOffsets, NEW w \in {"set", "cur", "end"},
               fs_seek(d, o, w)
        PROVE  BInv' /\ Leaked' = Leaked
    <2> DEFINE size == inodes[fd_tab[d].inum].size
               new  == clamped_add(SeekBase(d, w), o, 0, size)
    <2>1. /\ d \in fd_used /\ fd_tab' = [fd_tab EXCEPT ![d] = fd_cursor_set(@, new)]
          /\ UNCHANGED <<fbm, mem, inodes, call, taken>>
      BY <1>6 DEF fs_seek
    <2>2. fd_tab[d] \in Fd /\ fd_tab[d].inum \in Inodes /\ size \in Nat
      BY <1>0, <1>1, <2>1 DEF IInv, OpenInFile, Inode
    <2>3. new \in Nat
      <3>1. SeekBase(d, w) \in Nat
        BY <2>2, CursorNat DEF SeekBase
      <3>2. o \in Int
        BY InputAssumption
      <3> QED BY <2>2, <3>1, <3>2 DEF clamped_add
    <2> HIDE DEF new
    <2> QED BY <1>2, <1>3, <2>1, <2>3
  <1>7. ASSUME NEW d \in Fds, NEW nbyte \in ReadSizes, fs_read(d, nbyte)
        PROVE  BInv' /\ Leaked' = Leaked
    <2> DEFINE inode  == inodes[fd_tab[d].inum]
               cursor == fd_cursor_get(fd_tab[d])
               n      == MinOf(nbyte, inode.size - cursor)
    <2>1. d \in fd_used /\ UNCHANGED <<fbm, mem, inodes, call, taken>>
      BY <1>7 DEF fs_read
    <2>2. CASE cursor >= inode.size
      <3>1. fd_tab' = fd_tab
        BY <1>7, <2>2 DEF fs_read
      <3> QED BY <1>4, <2>1, <3>1
    <2>3. CASE ~(cursor >= inode.size)
      <3>1. fd_tab' = [fd_tab EXCEPT ![d] = fd_cursor_set(@, cursor + n)]
        BY <1>7, <2>3 DEF fs_read
      <3>2. cursor + n \in Nat
        <4>1. cursor \in Nat /\ inode.size \in Nat /\ nbyte \in Nat
          BY <1>0, <1>1, <2>1, CursorNat, InputAssumption DEF IInv, OpenInFile, Inode
        <4> HIDE DEF cursor, inode
        <4> QED BY <2>3, <4>1 DEF MinOf
      <3> HIDE DEF cursor, n
      <3> QED BY <1>2, <1>3, <2>1, <3>1, <3>2
    <2> QED BY <2>2, <2>3
  <1>8. ASSUME NEW d \in Fds, NEW buf \in Buffers, fs_write(d, buf)
        PROVE  BInv' /\ Leaked' = Leaked
    BY <1>0, <1>8, WriteStarts DEF BInv
  <1>9. ASSUME NEW d \in Fds, fs_close(d) \/ BadDescriptor(d)
        PROVE  BInv' /\ Leaked' = Leaked
    <2>1. UNCHANGED <<fbm, mem, inodes, call, taken>> /\ fd_tab' = fd_tab
      BY <1>9 DEF fs_close, BadDescriptor
    <2> QED BY <1>4, <2>1
  <1> QED BY <1>5, <1>6, <1>7, <1>8, <1>9 DEF CallStart, DescriptorCall

\* fs_unmount and fs_mount.
LEMMA MountsKeep ==
    ASSUME BInv, fs_unmount \/ fs_mount PROVE BInv' /\ Leaked' = Leaked
  <1>1. IInv' /\ CursorInv
    BY MountsInv DEF BInv
  <1>2. UNCHANGED <<fbm, mem, inodes, call, taken>>
    BY DEF fs_unmount, fs_mount, DropTable, device
  <1>3. \A d \in Fds : Normal(fd_tab'[d])
    <2>1. CASE fs_unmount
      BY <2>1, IdleFields DEF fs_unmount, DropTable
    <2>2. CASE fs_mount
      BY <1>1, <2>2 DEF fs_mount, table, CursorInv
    <2> QED BY <2>1, <2>2
  <1> QED BY <1>1, <1>2, <1>3, TableKeeps, TableLeaks

\* Blocks that fs_create takes and gives back are none of the files'.
LEMMA DirectoriesKeep ==
    ASSUME BInv, directory_takes_block \/ directory_gives_back
    PROVE  BInv' /\ Leaked' = Leaked
  <1>1. IInv /\ IInv' /\ TreeInv /\ HeldInv /\ TakenInv /\ CursorInv
    BY DirectoriesInv DEF BInv
  <1>2. UNCHANGED <<mem, inodes, fd_tab, call>> /\ Fresh' = Fresh
    BY DEF directory_takes_block, directory_gives_back, table, Fresh
  <1>3. Filed' = Filed /\ Fresh' \subseteq fbm' \ taken' /\ TakenInv'
    <2>1. CASE directory_takes_block
      <3>1. PICK b \in Blocks : b \notin fbm /\ fbm' = fbm \cup {b} /\ taken' = taken \cup {b}
        BY <2>1 DEF directory_takes_block, block_store_allocate, IsFirstFree
      <3> QED BY <1>1, <1>2, <3>1 DEF Filed, HeldInv, TakenInv
    <2>2. CASE directory_gives_back
      <3>1. PICK b \in taken : /\ \A t \in TakenSizes : t <= b
                               /\ fbm' = fbm \ {b} /\ taken' = taken \ {b}
        BY <2>2 DEF directory_gives_back
      <3>2. PICK t \in TakenSizes : 0 .. t - 1 \subseteq taken
        BY <1>1 DEF TakenInv
      <3>3. b \notin 0 .. t - 1
        <4>1. t <= b /\ t \in Nat
          BY <3>1, ShapeAssumption
        <4>2. b \in Nat
          BY <1>1 DEF IInv, TypeOK, Blocks
        <4> QED BY <4>1, <4>2
      <3> QED BY <1>1, <1>2, <3>1, <3>2, <3>3 DEF Filed, HeldInv, TakenInv
    <2> QED BY <2>1, <2>2
  <1>4. TreeInv' /\ Leaked' = Leaked
    <2>1. ASSUME NEW j \in Inodes
          PROVE  LiveInode(j)' = LiveInode(j) /\ LiveBlocks(j)' = LiveBlocks(j)
      BY <1>2 DEF LiveInode, LiveBlocks, Running
    <2> QED BY <1>1, <1>2, <1>3, <2>1, SameFiles
  <1>5. HeldInv'
    BY <1>1, <1>2, <1>3 DEF HeldInv
  <1>6. PlaceInv' /\ EndInv' /\ StoredInv' /\ CursorInv'
    BY <1>2 DEF BInv, PlaceInv, EndInv, StoredInv, CursorInv, NewIndex, Inner, Outer
  <1> QED BY <1>1, <1>3, <1>4, <1>5, <1>6 DEF BInv

-----------------------------------------------------------------------------
(* The invariant is inductive.                                             *)

\* A formatted device.
LEMMA InitBlocks == Init => BInv
  <1> SUFFICES ASSUME Init PROVE BInv
    OBVIOUS
  <1>1. IInv
    BY InitInv
  <1>2. /\ call = Idle /\ fbm = taken /\ inodes = [i \in Inodes |-> NewInode]
        /\ fd_tab = [d \in Fds |-> ZeroFd]
        /\ \E t \in TakenSizes : taken = 0 .. t - 1
    BY DEF Init
  <1>3. CeilDiv(0) = 0
    <2>1. 0 * BlockSize = 0
      BY Starts, SMT
    <2> QED BY <2>1, CeilIs, Starts
  <1>4. \A i \in Inodes : LiveBlocks(i) = 0
    BY <1>2, <1>3, IdleFields DEF LiveBlocks, LiveInode, Running, NewInode
  <1>5. Parts(0) = {}
    <2> SUFFICES ASSUME NEW p \in Parts(0) PROVE FALSE
      OBVIOUS
    <2>1. PICK k \in Nat : p = <<"data", k>> /\ k < 0
      BY Starts, DirectParts
    <2> QED BY <2>1
  <1>6. TreeInv
    BY <1>4, <1>5 DEF TreeInv, Apart, Within, Counts
  <1>7. HeldInv /\ PlaceInv /\ EndInv /\ StoredInv
    BY <1>2, IdleFields DEF HeldInv, PlaceInv, EndInv, StoredInv, Fresh, Attaching
  <1>8. CursorInv /\ TakenInv
    BY <1>2, IdleFields DEF CursorInv, TakenInv
  <1> QED BY <1>1, <1>6, <1>7, <1>8 DEF BInv

\* Every step, with what it may lose.
LEMMA StepBlocks ==
    ASSUME BInv, [Next]_vars
    PROVE  BInv' /\ (Leaked' \subseteq Leaked \/ (call.pc # "idle" /\ ~mounted'))
  <1>0. IInv' /\ IInv /\ TreeInv
    BY StepInv DEF BInv
  <1>1. CASE CallStart
    BY <1>1, CallsKeep
  <1>2. CASE AllocData \/ DeviceFull \/ AddBlockStep \/ WriteChunk
    <2>1. /\ Advance /\ HeldInv' /\ PlaceInv' /\ EndInv'
          /\ StoredInv' /\ CursorInv' /\ TakenInv'
      BY <1>2, TakesInv, LinkDirectInv, StoreIndirectInv, LinkIndirectInv, StoreDoubleInv,
         StoreInnerInv, LinkInnerInv, ChunkKeeps DEF AddBlockStep
    <2>2. TreeInv' /\ Leaked' \subseteq Leaked
      BY <1>0, <2>1, RunningStep
    <2> QED BY <1>0, <2>1, <2>2 DEF BInv
  <1>3. CASE Finish
    BY <1>0, <1>3, FinishKeeps DEF BInv
  <1>4. CASE Crash
    <2>1. BInv'
      BY <1>0, <1>4, CrashKeeps DEF BInv
    <2>2. call.pc # "idle" /\ ~mounted'
      BY <1>4 DEF Crash, DropTable
    <2> QED BY <2>1, <2>2
  <1>5. CASE fs_unmount \/ fs_mount
    BY <1>5, MountsKeep
  <1>6. CASE directory_takes_block \/ directory_gives_back
    BY <1>6, DirectoriesKeep
  <1>7. CASE UNCHANGED vars
    <2>1. UNCHANGED <<fbm, mem, inodes, call, taken>> /\ fd_tab' = fd_tab
      BY <1>7 DEF vars
    <2> QED BY <1>0, <2>1, TableKeeps, TableLeaks DEF BInv, CursorInv
  <1> QED BY <1>1, <1>2, <1>3, <1>4, <1>5, <1>6, <1>7 DEF Next, WriteStep

\* The invariant holds in every behaviour.
LEMMA BlocksInvariance == Spec => []BInv
  <1>1. BInv /\ [Next]_vars => BInv'
    BY StepBlocks
  <1> QED BY InitBlocks, <1>1, PTL DEF Spec

-----------------------------------------------------------------------------
(* The theorems.                                                           *)

\* The blocks of a file are in use, and neither taken nor in the hands of a step.
LEMMA OwnedFiled ==
    ASSUME TreeInv, NEW i \in Inodes
    PROVE  Owned(LiveInode(i), LiveBlocks(i)) \subseteq Filed
  BY PartIn DEF TreeInv, Within, Live, Counts, Owned

LEMMA UnsharedBlocks == ASSUME BInv PROVE NoSharedBlock
  <1>1. TreeInv
    BY DEF BInv
  <1>2. \A i, j \in Inodes : \A p \in Parts(LiveBlocks(i)), q \in Parts(LiveBlocks(j)) :
          PartBlock(LiveInode(i), p) = PartBlock(LiveInode(j), q) => i = j /\ p = q
    BY <1>1, PartIn DEF TreeInv, Apart, Live, Counts
  <1>3. Filed \cap Fresh = {}
    BY DEF Filed
  <1>4. \A i \in Inodes : Owned(LiveInode(i), LiveBlocks(i)) \cap Fresh = {}
    BY <1>1, <1>3, OwnedFiled
  <1> QED BY <1>2, <1>4 DEF NoSharedBlock

LEMMA SoundDevice == ASSUME BInv PROVE DeviceSound
  <1>1. IInv /\ TreeInv /\ StoredInv
    BY DEF BInv
  <1> DEFINE Of(i) == {BlockIn(mem, LiveInode(i), p) : p \in Parts(LiveBlocks(i))}
  <1>2. ASSUME NEW i \in Inodes PROVE StoredOwned(i) \subseteq Of(i)
    <2> SUFFICES ASSUME NEW p \in Parts(CeilDiv(inodes[i].size))
                 PROVE  PartBlock(inodes[i], p) \in Of(i)
      BY DEF StoredOwned, Owned
    <2> QED BY <1>1, PartIn, StoredParts
  <1>3. \A i \in Inodes : Of(i) \subseteq Filed
    BY <1>1 DEF TreeInv, Within, Live, Counts
  <1>4. \A i, j \in Inodes : i # j => Of(i) \cap Of(j) = {}
    BY <1>1 DEF TreeInv, Apart, Live, Counts
  <1> HIDE DEF Of
  <1>5. \A i \in Inodes : StoredOwned(i) \subseteq fbm \ taken
    BY <1>2, <1>3 DEF Filed
  <1>6. \A i, j \in Inodes : i # j => StoredOwned(i) \cap StoredOwned(j) = {}
    BY <1>2, <1>4
  <1> QED BY <1>5, <1>6 DEF DeviceSound

(* No block serves two purposes, whatever the shape of the files and the   *)
(* sizes of the device, at every step of _inode_add_owned_block.           *)
THEOREM FilesShareNoBlock == Spec => []NoSharedBlock
  BY UnsharedBlocks, BlocksInvariance, PTL

(* Whatever step of fs_write the process dies at, the device it leaves is  *)
(* usable: the stored inodes reach blocks in use only, and their own.      *)
THEOREM DeviceStaysSound == Spec => []DeviceSound
  BY SoundDevice, BlocksInvariance, PTL

(* Only the death of the process loses blocks: every path on which         *)
(* _inode_add_owned_block runs out of space gives back all it took.        *)
THEOREM OnlyDeathLosesBlocks == Spec => OnlyDeathLeaks
  <1>1. BInv /\ [Next]_vars =>
          [Leaked' \subseteq Leaked \/ (call.pc # "idle" /\ ~mounted')]_vars
    BY StepBlocks
  <1> QED BY <1>1, BlocksInvariance, PTL DEF Spec, OnlyDeathLeaks

-----------------------------------------------------------------------------
(* A write falls short only when the device is full.                       *)

\* A set of two.
LEMMA Pair ==
    ASSUME NEW a, NEW b, a # b PROVE IsFiniteSet({a, b}) /\ Cardinality({a, b}) = 2
  <1>1. IsFiniteSet({a}) /\ Cardinality({a}) = 1 /\ b \notin {a}
    BY FS_Singleton
  <1>2. IsFiniteSet({a} \cup {b}) /\ Cardinality({a} \cup {b}) = 2
    BY <1>1, FS_AddElement
  <1>3. {a} \cup {b} = {a, b}
    OBVIOUS
  <1> QED BY <1>2, <1>3

\* A set of three.
LEMMA Triple ==
    ASSUME NEW a, NEW b, NEW c, a # b, c \notin {a, b}
    PROVE  IsFiniteSet({a, b, c}) /\ Cardinality({a, b, c}) = 3
  <1>1. IsFiniteSet({a, b}) /\ Cardinality({a, b}) = 2 /\ c \notin {a, b}
    BY Pair
  <1>2. IsFiniteSet({a, b} \cup {c}) /\ Cardinality({a, b} \cup {c}) = 3
    BY <1>1, FS_AddElement
  <1>3. {a, b} \cup {c} = {a, b, c}
    OBVIOUS
  <1> QED BY <1>2, <1>3

\* How many blocks the next one of a file takes, with its pointer blocks.
LEMMA NeedsMore ==
    ASSUME NEW n \in Nat
    PROVE  /\ BlocksNeeded(n) \in Nat
           /\ BlocksNeeded(n) > 0
           /\ n = IndirectStart => BlocksNeeded(n) > 1
           /\ n >= DoubleStart /\ (n - DoubleStart) % BlockSize = 0 => BlocksNeeded(n) > 1
           /\ n = DoubleStart => BlocksNeeded(n) > 2
  <1> DEFINE data == <<"data", n>>
             ind == <<"indirect", 0>>
             dbl == <<"double", 0>>
             inn == <<"inner", (n - DoubleStart) \div BlockSize>>
             r == (n - DoubleStart) % BlockSize
             N == NewParts(n)
  <1>1. \A p : p \in N <=>
                 \/ p = data
                 \/ n = IndirectStart /\ p = ind
                 \/ n = DoubleStart /\ p = dbl
                 \/ n >= DoubleStart /\ r = 0 /\ p = inn
    BY NewPartsAre
  <1>2. /\ data # ind /\ data # dbl /\ data # inn /\ ind # dbl /\ ind # inn /\ dbl # inn
    OBVIOUS
  <1>3. n = DoubleStart => n >= DoubleStart /\ r = 0
    <2>1. n = DoubleStart => n - DoubleStart = 0
      BY Starts
    <2>2. 0 % BlockSize = 0
      BY Starts
    <2> QED BY <2>1, <2>2, Starts
  <1>4. BlocksNeeded(n) = Cardinality(N)
    BY DEF BlocksNeeded, NewParts
  <1> HIDE DEF data, ind, dbl, inn, r, N
  <1>5. IsFiniteSet(N)
    <2>1. IsFiniteSet({data, ind, dbl}) /\ IsFiniteSet({data, ind, dbl} \cup {inn})
      <3>1. IsFiniteSet({data, ind, dbl})
        BY <1>2, Triple
      <3> QED BY <3>1, FS_AddElement
    <2>2. N \subseteq {data, ind, dbl} \cup {inn}
      BY <1>1
    <2> QED BY <2>1, <2>2, FS_Subset
  <1>6. ASSUME NEW S, S \subseteq N PROVE Cardinality(S) <= Cardinality(N)
    BY <1>5, <1>6, FS_Subset
  <1>7. Cardinality(N) \in Nat
    BY <1>5, FS_CardinalityType
  <1>8. Cardinality(N) > 0
    <2>1. Cardinality({data}) = 1 /\ {data} \subseteq N
      BY <1>1, FS_Singleton
    <2> QED BY <1>6, <1>7, <2>1
  <1>9. ASSUME NEW p \in N, p # data PROVE Cardinality(N) > 1
    <2>1. Cardinality({data, p}) = 2 /\ {data, p} \subseteq N
      BY <1>1, <1>9, Pair
    <2> QED BY <1>6, <1>7, <2>1
  <1>10. n = IndirectStart => Cardinality(N) > 1
    BY <1>1, <1>2, <1>9
  <1>11. n >= DoubleStart /\ r = 0 => Cardinality(N) > 1
    BY <1>1, <1>2, <1>9
  <1>12. n = DoubleStart => Cardinality(N) > 2
    <2> SUFFICES ASSUME n = DoubleStart PROVE Cardinality(N) > 2
      OBVIOUS
    <2>1. Cardinality({data, dbl, inn}) = 3 /\ {data, dbl, inn} \subseteq N
      BY <1>1, <1>2, <1>3, Triple
    <2> QED BY <1>6, <1>7, <2>1
  <1> QED BY <1>4, <1>7, <1>8, <1>10, <1>11, <1>12 DEF r

\* What is free or held when a call gives up is less than the file needs.
ShortInv ==
    call.pc \in {"undo", "finish"} =>
        Cardinality((Blocks \ fbm) \cup Fresh) < BlocksNeeded(NewIndex)

\* The call gives up when there is no block left to take.
LEMMA GivesUp ==
    ASSUME BInv, DeviceFull \/ (/\ AllocIndirect \/ AllocDouble \/ AllocInner
                                /\ NoPointerBlock)
    PROVE  ShortInv'
  <1> USE DEF At
  <1>1. /\ IInv /\ HeldInv /\ PlaceInv /\ call \in Call /\ Blocks \subseteq fbm
        /\ fbm' = fbm /\ call.pc \in {"loop", "link", "double"} /\ NewIndex \in Nat
    <2>1. IInv /\ HeldInv /\ PlaceInv
      BY DEF BInv
    <2>2. Blocks \subseteq fbm /\ fbm' = fbm /\ call.pc \in {"loop", "link", "double"}
      BY DEF DeviceFull, AllocIndirect, AllocDouble, AllocInner, InDouble,
             NoPointerBlock, device
    <2> QED BY <2>1, <2>2, Locals, LiveRunning
  <1>2. /\ call'.new_ptr = call.new_ptr /\ call'.new_ind = call.new_ind
        /\ call'.new_db = call.new_db /\ call'.ino = call.ino
    <2>1. CASE DeviceFull
      BY <1>1, <2>1 DEF DeviceFull, Call
    <2>2. CASE NoPointerBlock
      BY <1>1, <2>2 DEF NoPointerBlock, Call
    <2> QED BY <2>1, <2>2
  <1>3. Fresh' = Fresh /\ NewIndex' = NewIndex
    BY <1>2 DEF Fresh, NewIndex
  <1>4. call.new_ind = NONE
    BY <1>1 DEF HeldInv
  <1>5. /\ Cardinality(Fresh) \in Nat
        /\ call.pc = "loop" => Cardinality(Fresh) = 0
        /\ call.pc = "link" => Cardinality(Fresh) <= 1
        /\ call.pc = "double" => Cardinality(Fresh) <= 2
    <2>1. CASE call.pc = "loop"
      <3>1. Fresh = {}
        BY <1>1, <2>1 DEF Fresh, HeldInv
      <3> QED BY <2>1, <3>1, FS_EmptySet
    <2>2. CASE call.pc = "link"
      <3>1. Fresh = {call.new_ptr} \/ Fresh = {}
        BY <1>1, <1>4, <2>2 DEF Fresh, HeldInv
      <3>2. Cardinality({call.new_ptr}) = 1 /\ Cardinality({}) = 0
        BY FS_EmptySet, FS_Singleton
      <3>3. Cardinality(Fresh) = 1 \/ Cardinality(Fresh) = 0
        BY <3>1, <3>2
      <3> QED BY <2>2, <3>3
    <2>3. CASE call.pc = "double"
      <3>1. Fresh = {call.new_ptr, call.new_db} \/ Fresh = {call.new_db}
        BY <1>1, <1>4, <2>3 DEF Fresh, PlaceInv
      <3>2. CASE call.new_ptr = call.new_db
        <4>1. Fresh = {call.new_db}
          BY <3>1, <3>2
        <4>2. Cardinality({call.new_db}) = 1
          BY FS_Singleton
        <4>3. Cardinality(Fresh) = 1
          BY <4>1, <4>2
        <4> QED BY <2>3, <4>3
      <3>3. CASE call.new_ptr # call.new_db
        <4>1. Cardinality({call.new_ptr, call.new_db}) = 2
          BY <3>3, Pair
        <4>2. Cardinality({call.new_db}) = 1
          BY FS_Singleton
        <4> QED BY <2>3, <3>1, <4>1, <4>2
      <3> QED BY <3>2, <3>3
    <2> QED BY <1>1, <2>1, <2>2, <2>3
  <1>6. /\ BlocksNeeded(NewIndex) \in Nat
        /\ BlocksNeeded(NewIndex) > 0
        /\ call.pc = "link" => BlocksNeeded(NewIndex) > 1
        /\ call.pc = "double" => BlocksNeeded(NewIndex) > 2
    <2>1. call.pc = "double" => NewIndex = DoubleStart
      BY <1>1 DEF PlaceInv
    <2>2. call.pc = "link" => \/ NewIndex = IndirectStart \/ NewIndex = DoubleStart
                              \/ DoubleStart < NewIndex /\ Inner = 0
      BY DEF DeviceFull, AllocIndirect, AllocDouble, AllocInner, InDouble
    <2>3. DoubleStart < NewIndex /\ Inner = 0 =>
            NewIndex >= DoubleStart /\ (NewIndex - DoubleStart) % BlockSize = 0
      BY <1>1, Starts DEF Inner
    <2> QED BY <1>1, <2>1, <2>2, <2>3, NeedsMore
  <1>7. (Blocks \ fbm') \cup Fresh' = Fresh
    BY <1>1, <1>3
  <1>8. Cardinality(Fresh) < BlocksNeeded(NewIndex)
    BY <1>1, <1>5, <1>6
  <1>9. BlocksNeeded(NewIndex)' = BlocksNeeded(NewIndex)
    BY <1>3 DEF BlocksNeeded, Parts, DoubleStart, IndirectStart
  <1>10. Blocks' = Blocks
    BY DEF Blocks
  <1> QED BY <1>7, <1>8, <1>9, <1>10 DEF ShortInv

\* Giving back what is held leaves as much free or held.
LEMMA UndoKeepsShort ==
    ASSUME BInv, ShortInv, Undo PROVE ShortInv'
  <1>1. /\ IInv /\ HeldInv /\ call \in Call /\ call.pc = "undo"
        /\ call.new_ptr \in Blocks /\ NONE \notin Blocks /\ call.new_ind = NONE
        /\ call.new_db \in Blocks \cup {NONE} /\ Fresh \subseteq fbm
    <2>1. IInv /\ HeldInv /\ call.pc = "undo"
      BY DEF BInv, Undo, At
    <2>2. NONE \notin Blocks
      BY ShapeAssumption DEF NONE, Blocks
    <2>3. call.new_ptr \in Blocks /\ call \in Call /\ call.new_db \in Blocks \cup {NONE}
      BY <2>1 DEF IInv, TypeOK, HeldBlocks, Attaching, Call
    <2> QED BY <2>1, <2>2, <2>3 DEF HeldInv
  <1>2. call'.ino = call.ino /\ call'.new_ind = NONE
    BY <1>1 DEF Undo, Call
  <1>3. (Blocks \ fbm') \cup Fresh' = (Blocks \ fbm) \cup Fresh
    <2>1. CASE call.new_db # NONE
      <3>1. /\ fbm' = fbm \ {call.new_db} /\ call'.new_db = NONE
            /\ call'.new_ptr = call.new_ptr
        BY <1>1, <2>1 DEF Undo, Call
      <3>2. Fresh' = {call.new_ptr} /\ Fresh = {call.new_ptr, call.new_db}
        BY <1>1, <1>2, <2>1, <3>1 DEF Fresh
      <3> QED BY <1>1, <2>1, <3>1, <3>2
    <2>2. CASE call.new_db = NONE
      <3>1. /\ fbm' = fbm \ {call.new_ptr} /\ call'.new_db = NONE /\ call'.new_ptr = NONE
        BY <1>1, <2>2 DEF Undo, Call
      <3>2. Fresh' = {} /\ Fresh = {call.new_ptr}
        BY <1>1, <1>2, <2>2, <3>1 DEF Fresh
      <3> QED BY <1>1, <3>1, <3>2
    <2> QED BY <2>1, <2>2
  <1>4. NewIndex' = NewIndex /\ Blocks' = Blocks
    BY <1>2 DEF NewIndex, Blocks
  <1>5. BlocksNeeded(NewIndex)' = BlocksNeeded(NewIndex)
    BY <1>4 DEF BlocksNeeded, Parts, DoubleStart, IndirectStart
  <1>6. Cardinality((Blocks \ fbm) \cup Fresh) < BlocksNeeded(NewIndex)
    BY <1>1 DEF ShortInv
  <1> QED BY <1>3, <1>4, <1>5, <1>6 DEF ShortInv

\* No step starts giving up while more than needed is free or held.
LEMMA StepShort == BInv /\ ShortInv /\ [Next]_vars => ShortInv'
  <1> SUFFICES ASSUME BInv, ShortInv, [Next]_vars PROVE ShortInv'
    OBVIOUS
  <1>1. call \in Call
    BY DEF BInv, IInv, TypeOK
  <1>2. ASSUME call'.pc \notin {"undo", "finish"} PROVE ShortInv'
    BY <1>2 DEF ShortInv
  <1>3. ASSUME call' = call, fbm' = fbm PROVE ShortInv'
    BY <1>3 DEF ShortInv, Fresh, NewIndex, BlocksNeeded, Parts, DoubleStart,
                IndirectStart, Blocks
  <1>4. ASSUME call' = call, call.pc = "idle" PROVE ShortInv'
    BY <1>2, <1>4
  <1>5. CASE UNCHANGED vars
    BY <1>3, <1>5 DEF vars
  <1>6. CASE CallStart
    <2>1. CASE \E d \in Fds, buf \in Buffers : fs_write(d, buf)
      <3>1. call'.pc = "loop"
        BY <2>1 DEF fs_write, Idle
      <3> QED BY <1>2, <3>1
    <2>2. CASE ~\E d \in Fds, buf \in Buffers : fs_write(d, buf)
      <3>1. call' = call /\ fbm' = fbm
        BY <1>6, <2>2 DEF CallStart, DescriptorCall, fs_open, fs_close, fs_seek, fs_read,
             BadDescriptor, device
      <3> QED BY <1>3, <3>1
    <2> QED BY <2>1, <2>2
  <1>7. CASE fs_unmount \/ fs_mount
    BY <1>3, <1>7 DEF fs_unmount, DropTable, fs_mount, device
  <1>8. CASE directory_takes_block \/ directory_gives_back
    BY <1>4, <1>8 DEF directory_takes_block, directory_gives_back, Ready
  <1>9. CASE Crash
    BY <1>2, <1>9 DEF Crash, Idle
  <1>10. CASE DeviceFull
    BY <1>10, GivesUp
  <1>11. CASE Undo
    BY <1>11, UndoKeepsShort
  <1>12. CASE AllocData \/ WriteChunk \/ Finish
    <2>1. CASE AllocData
      BY <1>1, <1>2, <2>1 DEF AllocData, Call
    <2>2. CASE WriteChunk
      <3>1. call'.pc = "loop"
        BY <1>1, <2>2 DEF WriteChunk, Call
      <3> QED BY <1>2, <3>1
    <2>3. CASE Finish
      BY <1>2, <2>3 DEF Finish, Idle
    <2> QED BY <1>12, <2>1, <2>2, <2>3
  <1>13. CASE AllocIndirect \/ AllocDouble \/ AllocInner
    <2>1. CASE NoPointerBlock
      BY <1>13, <2>1, GivesUp
    <2>2. CASE ~NoPointerBlock
      BY <1>1, <1>2, <1>13, <2>2 DEF AllocIndirect, AllocDouble, AllocInner, Call
    <2> QED BY <2>1, <2>2
  <1>14. CASE StoreIndirect \/ StoreDouble \/ StoreInner
    BY <1>1, <1>2, <1>14 DEF StoreIndirect, StoreDouble, StoreInner, Call
  <1>15. CASE LinkDirect \/ LinkIndirect \/ LinkInner
    <2>1. PICK inode : call' = Added(inode)
      BY <1>15 DEF LinkDirect, LinkIndirect, LinkInner
    <2>2. call'.pc = "chunk"
      BY <1>1, <2>1 DEF Added, Call
    <2> QED BY <1>2, <2>2
  <1> QED
    BY <1>5, <1>6, <1>7, <1>8, <1>9, <1>10, <1>11, <1>12, <1>13, <1>14, <1>15
       DEF Next, WriteStep, AddBlockStep

(* fs_write returns less than it was asked for only when the blocks left   *)
(* do not make the file's next block with the pointer blocks it needs:     *)
(* what a failing _inode_add_owned_block had taken is back on the device.  *)
THEOREM WriteShortOnlyWhenFull == Spec => []ShortOnlyWhenFull
  <1>1. Init => ShortInv
    BY DEF Init, Idle, ShortInv
  <1>2. BInv /\ ShortInv => ShortOnlyWhenFull
    <2> SUFFICES ASSUME BInv, ShortInv, At("finish")
                 PROVE  Cardinality(Blocks \ fbm) < BlocksNeeded(NewIndex)
      BY DEF ShortOnlyWhenFull, NewIndex
    <2>1. Fresh = {}
      BY DEF BInv, HeldInv, Fresh, At
    <2>2. (Blocks \ fbm) \cup Fresh = Blocks \ fbm
      BY <2>1
    <2>3. Cardinality((Blocks \ fbm) \cup Fresh) < BlocksNeeded(NewIndex)
      BY DEF ShortInv, At
    <2> QED BY <2>2, <2>3
  <1>3. Spec => []BInv
    BY BlocksInvariance
  <1> QED BY <1>1, <1>2, <1>3, StepShort, PTL DEF Spec
-----------------------------------------------------------------------------
(* The cells of the files.                                                 *)

\* The cell at offset o of a file, in the memory m.
CellIn(m, inode, o) == m[DataIn(m, inode, o \div BlockSize)][o % BlockSize]

\* What a step of the call changes but data: a block that is no file's yet,
\* or one of pointers.
PointersOnly(b) ==
    /\ \A c \in Blocks : c # b => mem'[c] = mem[c]
    /\ \/ b \notin Filed
       \/ \E q \in Parts(CallBlocks) : q[1] # "data" /\ b = BlockIn(mem, call.ino, q)

\* The steps of _inode_add_owned_block that set a pointer set it in such a block.
LEMMA PointerPlace ==
    ASSUME BInv, LinkIndirect \/ StoreInner \/ LinkInner
    PROVE  \E b : PointersOnly(b)
  <1>1. /\ IInv /\ TreeInv /\ HeldInv /\ PlaceInv /\ TakenInv
        /\ mem \in [Blocks -> [Slots -> Cells]]
    BY DEF BInv, IInv, TypeOK
  <1>2. call.pc \in Attaching /\ call.pc \notin {"idle", "chunk"}
    BY DEF LinkIndirect, StoreInner, LinkInner, InDouble, At, Attaching
  <1>3. CallBlocks = NewIndex /\ NewIndex \in Nat
    BY <1>1, <1>2, LiveRunning DEF CallBlocks
  <1>4. ASSUME NEW b, NEW k, NEW ptr, mem' = [mem EXCEPT ![b] = [@ EXCEPT ![k] = ptr]]
        PROVE  \A c \in Blocks : c # b => mem'[c] = mem[c]
    BY <1>1, <1>4
  <1>5. ASSUME NEW b, b # NONE, b \in {call.new_ptr, call.new_ind, call.new_db}
        PROVE  b \notin Filed
    BY <1>5 DEF Filed, Fresh
  <1>6. CASE LinkIndirect
    <2> DEFINE b == call.ino.ind
    <2>1. \A c \in Blocks : c # b => mem'[c] = mem[c]
      <3>1. \E k, ptr : mem' = [mem EXCEPT ![b] = [@ EXCEPT ![k] = ptr]]
        BY <1>6 DEF LinkIndirect, Poke
      <3> HIDE DEF b
      <3> QED BY <1>4, <3>1
    <2>2. CASE call.pc = "indirect block"
      <3>1. b \notin Filed
        BY <1>1, <1>5, <2>2 DEF PlaceInv
      <3> QED BY <2>1, <3>1 DEF PointersOnly
    <2>3. CASE call.pc # "indirect block"
      <3>1. IndirectStart < NewIndex
        BY <1>6, <2>3 DEF LinkIndirect, At
      <3>2. <<"indirect", 0>> \in Parts(CallBlocks)
        BY <1>3, <3>1, PartsAre
      <3>3. b = BlockIn(mem, call.ino, <<"indirect", 0>>) /\ <<"indirect", 0>>[1] # "data"
        BY BlockInKinds
      <3> QED BY <2>1, <3>2, <3>3 DEF PointersOnly
    <2> QED BY <2>2, <2>3
  <1>7. CASE StoreInner
    <2> DEFINE b == call.ino.dbl
    <2>1. \A c \in Blocks : c # b => mem'[c] = mem[c]
      <3>1. \E k, ptr : mem' = [mem EXCEPT ![b] = [@ EXCEPT ![k] = ptr]]
        BY <1>7 DEF StoreInner, Poke
      <3> HIDE DEF b
      <3> QED BY <1>4, <3>1
    <2>2. call.pc = "double block"
      BY <1>7 DEF StoreInner, At
    <2>3. CASE NewIndex = DoubleStart
      <3>1. b \notin Filed
        BY <1>1, <1>5, <2>2, <2>3 DEF PlaceInv
      <3> QED BY <2>1, <3>1 DEF PointersOnly
    <2>4. CASE NewIndex # DoubleStart
      <3>1. DoubleStart < NewIndex
        <4>1. NewIndex >= DoubleStart
          BY <1>1, <2>2 DEF PlaceInv
        <4> QED BY <1>3, <2>4, <4>1, Starts
      <3>2. <<"double", 0>> \in Parts(CallBlocks)
        BY <1>3, <3>1, PartsAre
      <3>3. b = BlockIn(mem, call.ino, <<"double", 0>>) /\ <<"double", 0>>[1] # "data"
        BY BlockInKinds
      <3> QED BY <2>1, <3>2, <3>3 DEF PointersOnly
    <2> QED BY <2>3, <2>4
  <1>8. CASE LinkInner
    <2> DEFINE b == mem[call.ino.dbl][Outer]
    <2>1. \A c \in Blocks : c # b => mem'[c] = mem[c]
      <3>1. \E k, ptr : mem' = [mem EXCEPT ![b] = [@ EXCEPT ![k] = ptr]]
        BY <1>8 DEF LinkInner, Poke
      <3> HIDE DEF b
      <3> QED BY <1>4, <3>1
    <2>2. CASE call.pc = "inner block"
      <3>1. b \notin Filed
        BY <1>1, <1>5, <2>2 DEF PlaceInv
      <3> QED BY <2>1, <3>1 DEF PointersOnly
    <2>3. CASE call.pc # "inner block"
      <3>1. Inner # 0 /\ (call.pc = "double" \/ DoubleStart < NewIndex)
        BY <1>8, <2>3 DEF LinkInner, InDouble, At
      <3>2. NewIndex >= DoubleStart
        <4>1. call.pc = "double" => NewIndex = DoubleStart
          BY <1>1 DEF PlaceInv
        <4> QED BY <1>3, <3>1, <4>1, Starts
      <3>3. /\ Outer \in Nat /\ Outer * BlockSize \in Nat /\ Inner \in Slots
            /\ NewIndex = DoubleStart + Outer * BlockSize + Inner
        BY <1>1, <1>2, <3>2, NextPlace
      <3>4. DoubleStart + Outer * BlockSize < NewIndex
        BY <3>1, <3>3, Starts DEF Slots
      <3>5. <<"inner", Outer>> \in Parts(CallBlocks)
        BY <1>3, <3>3, <3>4, PartsAre
      <3>6. b = BlockIn(mem, call.ino, <<"inner", Outer>>) /\ <<"inner", Outer>>[1] # "data"
        BY DEF BlockIn
      <3> QED BY <2>1, <3>5, <3>6 DEF PointersOnly
    <2> QED BY <2>2, <2>3
  <1> QED BY <1>6, <1>7, <1>8

\* A step that moves blocks into the tree of its file moves no block of data
\* that is in it, or in that of another.
LEMMA BlocksStay ==
    ASSUME IInv, TreeInv, Advance, NEW i \in Inodes, NEW k \in Nat, k < LiveBlocks(i)
    PROVE  DataIn(mem', LiveInode(i)', k) = DataIn(mem, LiveInode(i), k)
  <1> DEFINE p == <<"data", k>>
  <1>1. PICK b, New : CallGrows(b, New) /\ CallFiles(New)
    BY DEF Advance
  <1>2. /\ call.pc # "idle" /\ call'.pc # "idle" /\ call'.lfd.inum = call.lfd.inum
        /\ \A j \in Inodes : j # call.lfd.inum => inodes'[j] = inodes[j]
    BY <1>1 DEF CallGrows
  <1>3. p \in Parts(LiveBlocks(i))
    BY LiveTypes, PartsAre
  <1>4. PICK r \in Inodes : /\ r = call.lfd.inum /\ LiveInode(r) = call.ino
                            /\ LiveBlocks(r) = CallBlocks
    BY <1>2, LiveRunning
  <1>5. BlockIn(mem', LiveInode(i)', p) = BlockIn(mem, LiveInode(i), p)
    <2>1. CASE i = r
      <3>1. LiveInode(i)' = call'.ino
        BY <1>2, <1>4, <2>1 DEF LiveInode, Running
      <3>2. p \in Parts(CallBlocks) /\ p \in Parts(CallBlocks')
        BY <1>1, <1>3, <1>4, <2>1 DEF CallFiles
      <3>3. p \notin New
        BY <1>1, <3>2 DEF CallFiles
      <3>4. BlockIn(mem', call'.ino, p) = BlockIn(mem, call.ino, p)
        BY <1>1, <3>2, <3>3 DEF CallGrows
      <3> QED BY <1>4, <2>1, <3>1, <3>4
    <2>2. CASE i # r
      <3>1. LiveInode(i)' = LiveInode(i)
        BY <1>2, <1>4, <2>2 DEF LiveInode, Running
      <3>2. \/ b \notin Filed
            \/ \E j \in Inodes : \E q \in Parts(LiveBlocks(j)) :
                  b = BlockIn(mem, LiveInode(j), q) /\ (j # i \/ q[1] = "data")
        BY <1>1, <1>4, <2>2 DEF CallGrows
      <3>3. \A c \in Blocks : c # b => mem'[c] = mem[c]
        BY <1>1 DEF CallGrows
      <3> QED BY <1>3, <3>1, <3>2, <3>3, OtherTrees
    <2> QED BY <2>1, <2>2
  <1> QED BY <1>5, BlockInKinds

\* The block of a file's data is one of the file's, and of no other part of any.
LEMMA DataBlockIs ==
    ASSUME IInv, TreeInv, NEW i \in Inodes, NEW k \in Nat, k < LiveBlocks(i)
    PROVE  /\ DataIn(mem, LiveInode(i), k) \in Filed \cap Blocks
           /\ \A j \in Inodes : \A q \in Parts(LiveBlocks(j)) :
                 DataIn(mem, LiveInode(i), k) = BlockIn(mem, LiveInode(j), q)
                    => i = j /\ q = <<"data", k>>
  <1> DEFINE p == <<"data", k>>
             c == DataIn(mem, LiveInode(i), k)
  <1>1. p \in Parts(LiveBlocks(i)) /\ BlockIn(mem, LiveInode(i), p) = c
    BY LiveTypes, PartsAre, BlockInKinds
  <1> HIDE DEF p, c
  <1>2. c \in Filed /\ Filed \subseteq Blocks
    BY <1>1 DEF TreeInv, Within, Live, Counts, Filed, IInv, TypeOK
  <1>3. ASSUME NEW j \in Inodes, NEW q \in Parts(LiveBlocks(j)),
               c = BlockIn(mem, LiveInode(j), q)
        PROVE  i = j /\ q = p
    <2>1. p \in Parts(Counts[i]) /\ q \in Parts(Counts[j])
      BY <1>1 DEF Counts
    <2>2. BlockIn(mem, Live[i], p) = BlockIn(mem, Live[j], q)
      BY <1>1, <1>3 DEF Live
    <2> QED BY <2>1, <2>2 DEF TreeInv, Apart
  <1> QED BY <1>2, <1>3 DEF p, c

\* The same data, in the same blocks, as before the step.
SameData(i, k) ==
    /\ DataIn(mem', LiveInode(i)', k) = DataIn(mem, LiveInode(i), k)
    /\ mem'[DataIn(mem, LiveInode(i), k)] = mem[DataIn(mem, LiveInode(i), k)]

\* Such a step, if it sets a pointer only where pointers are, changes no data.
LEMMA PointersKeepData ==
    ASSUME IInv, TreeInv, Advance, NEW b, PointersOnly(b),
           NEW i \in Inodes, NEW k \in Nat, k < LiveBlocks(i)
    PROVE  SameData(i, k)
  <1> DEFINE c == DataIn(mem, LiveInode(i), k)
  <1>1. /\ c \in Filed \cap Blocks
        /\ \A j \in Inodes : \A q \in Parts(LiveBlocks(j)) :
              c = BlockIn(mem, LiveInode(j), q) => i = j /\ q = <<"data", k>>
    BY DataBlockIs
  <1>2. PICK r \in Inodes : LiveInode(r) = call.ino /\ LiveBlocks(r) = CallBlocks
    <2>1. call.pc # "idle"
      BY DEF Advance, CallGrows
    <2> QED BY <2>1, LiveRunning
  <1>3. c # b
    <2>1. CASE b \notin Filed
      BY <1>1, <2>1
    <2>2. CASE \E q \in Parts(CallBlocks) : q[1] # "data" /\ b = BlockIn(mem, call.ino, q)
      <3>1. PICK q \in Parts(CallBlocks) : q[1] # "data" /\ b = BlockIn(mem, call.ino, q)
        BY <2>2
      <3>2. <<"data", k>>[1] = "data"
        OBVIOUS
      <3> HIDE DEF c
      <3> QED BY <1>1, <1>2, <3>1, <3>2
    <2> QED BY <2>1, <2>2 DEF PointersOnly
  <1>4. mem'[c] = mem[c]
    BY <1>1, <1>3 DEF PointersOnly
  <1> QED BY <1>4, BlocksStay DEF SameData

\* The steps of fs_write but WriteChunk and Finish.
AddsBlock == AllocData \/ DeviceFull \/ AddBlockStep

LEMMA AddsKeepData ==
    ASSUME BInv, AddsBlock, NEW i \in Inodes, NEW k \in Nat, k < LiveBlocks(i)
    PROVE  SameData(i, k)
  <1>1. IInv /\ TreeInv
    BY DEF BInv
  <1>2. Advance
    BY TakesInv, LinkDirectInv, StoreIndirectInv, LinkIndirectInv, StoreDoubleInv,
       StoreInnerInv, LinkInnerInv DEF AddsBlock, AddBlockStep
  <1>3. \E b : PointersOnly(b)
    <2>1. CASE LinkIndirect \/ StoreInner \/ LinkInner
      BY <2>1, PointerPlace
    <2>2. CASE ~(LinkIndirect \/ StoreInner \/ LinkInner)
      <3>1. mem' = mem
        BY <2>2 DEF AddsBlock, AddBlockStep, AllocData, DeviceFull, LinkDirect, AllocIndirect,
           StoreIndirect, AllocDouble, StoreDouble, AllocInner, Undo, device
      <3>2. NONE \notin Filed
        BY <1>1, ShapeAssumption DEF IInv, TypeOK, Filed, NONE, Blocks
      <3> QED BY <3>1, <3>2 DEF PointersOnly
    <2> QED BY <2>1, <2>2
  <1> QED BY <1>1, <1>2, <1>3, PointersKeepData

-----------------------------------------------------------------------------
(* What is stored, and what the running write has written.                 *)

\* Where a cell of a file is.
LEMMA CellPlace ==
    ASSUME NEW o \in Nat, NEW n \in Nat, o < n
    PROVE  o \div BlockSize \in Nat /\ o % BlockSize \in Slots /\ o \div BlockSize < CeilDiv(n)
  <1> DEFINE q == o \div BlockSize
             r == o % BlockSize
  <1>1. q \in Nat /\ r \in Slots /\ o = BlockSize * q + r
    BY DivMod
  <1> HIDE DEF q, r
  <1>2. q * BlockSize \in Nat /\ BlockSize * q = q * BlockSize
    BY <1>1, Starts, TimesBlock
  <1>3. q * BlockSize < n
    BY <1>1, <1>2 DEF Slots
  <1>4. q < CeilDiv(n)
    BY <1>1, <1>3, CeilDivFacts
  <1> QED BY <1>1, <1>4 DEF q, r

\* The stored inode has the pointers that the running call sees.
LEMMA StoredIsLive ==
    /\ StoredInv => \A i, m, k : DataIn(m, inodes[i], k) = DataIn(m, LiveInode(i), k)
    /\ StoredInv' => \A i, m, k : DataIn(m, inodes'[i], k) = DataIn(m, LiveInode(i)', k)
  <1>1. ASSUME StoredInv, NEW i, NEW m, NEW k
        PROVE  DataIn(m, inodes[i], k) = DataIn(m, LiveInode(i), k)
    BY <1>1 DEF StoredInv, LiveInode, Running, DataIn
  <1>2. ASSUME StoredInv', NEW i, NEW m, NEW k
        PROVE  DataIn(m, inodes'[i], k) = DataIn(m, LiveInode(i)', k)
    BY <1>2 DEF StoredInv, LiveInode, Running, DataIn
  <1> QED BY <1>1, <1>2

\* A stored cell is in a block the file has.
LEMMA StoredInTree ==
    ASSUME IInv, TreeInv, StoredInv, NEW i \in Inodes, NEW o \in Nat, o < inodes[i].size
    PROVE  /\ o \div BlockSize \in Nat /\ o % BlockSize \in Slots
           /\ o \div BlockSize < LiveBlocks(i)
  <1>1. inodes[i].size \in Nat /\ CeilDiv(inodes[i].size) \in Nat /\ LiveBlocks(i) \in Nat
    <2>1. inodes[i].size \in Nat
      BY DEF IInv, TypeOK, Inode
    <2> QED BY <2>1, CeilDivFacts, LiveTypes
  <1>2. /\ o \div BlockSize \in Nat /\ o % BlockSize \in Slots
        /\ o \div BlockSize < CeilDiv(inodes[i].size)
    BY <1>1, CellPlace
  <1>3. <<"data", o \div BlockSize>> \in Parts(CeilDiv(inodes[i].size))
    BY <1>1, <1>2, PartsAre
  <1>4. <<"data", o \div BlockSize>> \in Parts(LiveBlocks(i))
    BY <1>3, StoredParts
  <1> QED BY <1>1, <1>2, <1>4, PartsAre

\* A stored cell that the step does not change, of a file it may store anew.
LEMMA StoredKept ==
    ASSUME BInv, StoredInv', NEW i \in Inodes, NEW o \in Nat,
           SameData(i, o \div BlockSize)
    PROVE  CellIn(mem', inodes'[i], o) = CellIn(mem, inodes[i], o)
  <1>1. StoredInv
    BY DEF BInv
  <1>2. /\ DataIn(mem, inodes[i], o \div BlockSize) = DataIn(mem, LiveInode(i), o \div BlockSize)
        /\ DataIn(mem', inodes'[i], o \div BlockSize)
              = DataIn(mem', LiveInode(i)', o \div BlockSize)
    BY <1>1, StoredIsLive
  <1> QED BY <1>2 DEF SameData, CellIn

\* A running write has moved its cursor by what it has done, has not changed the
\* size but to where the cursor is, and what it has done is in the file.
WriteInv ==
    call.pc # "idle" =>
        LET pos == fd_cursor_get(fd_tab[call.fd])
        IN  /\ call.cursor = pos + call.done
            /\ call.ino.size \in {inodes[call.lfd.inum].size, call.cursor}
            /\ \A k \in 1 .. call.done :
                   CellIn(mem, call.ino, pos + k - 1) = call.buf[k]

\* What the steps that add a block leave alone.
LEMMA AddsFields ==
    ASSUME IInv, AddsBlock
    PROVE  /\ call.pc # "idle" /\ call'.pc # "idle"
           /\ call'.fd = call.fd /\ call'.buf = call.buf /\ call'.done = call.done
           /\ call'.cursor = call.cursor /\ call'.lfd = call.lfd
           /\ call'.ino.size = call.ino.size
           /\ \A i \in Inodes : \/ inodes'[i] = inodes[i]
                                \/ i = call.lfd.inum /\ inodes'[i] = call'.ino
           /\ mounted /\ InCall
  <1>1. call \in Call /\ call.ino \in Inode /\ inodes \in [Inodes -> Inode]
    BY DEF IInv, TypeOK, Call
  <1>2. CASE AllocData \/ DeviceFull \/ AllocIndirect \/ AllocDouble \/ AllocInner \/ Undo
    <2>1. inodes' = inodes /\ InCall
      BY <1>2 DEF AllocData, DeviceFull, AllocIndirect, AllocDouble, AllocInner, Undo, device
    <2>2. call.pc # "idle" /\ mounted
      BY <1>2 DEF AllocData, DeviceFull, AllocIndirect, AllocDouble, AllocInner, InDouble, Undo, At
    <2>3. CASE AllocData
      BY <1>1, <2>1, <2>2, <2>3 DEF AllocData, Call
    <2>4. CASE DeviceFull
      BY <1>1, <2>1, <2>2, <2>4 DEF DeviceFull, Call
    <2>5. CASE AllocIndirect
      BY <1>1, <2>1, <2>2, <2>5 DEF AllocIndirect, NoPointerBlock, Call
    <2>6. CASE AllocDouble
      BY <1>1, <2>1, <2>2, <2>6 DEF AllocDouble, NoPointerBlock, Call
    <2>7. CASE AllocInner
      BY <1>1, <2>1, <2>2, <2>7 DEF AllocInner, NoPointerBlock, Call
    <2>8. CASE Undo
      <3>1. CASE call.new_db # NONE
        BY <1>1, <2>1, <2>2, <2>8, <3>1 DEF Undo, Call
      <3>2. CASE call.new_db = NONE
        BY <1>1, <2>1, <2>2, <2>8, <3>2 DEF Undo, Call
      <3> QED BY <3>1, <3>2
    <2> QED BY <1>2, <2>3, <2>4, <2>5, <2>6, <2>7, <2>8
  <1>3. CASE LinkDirect
    BY <1>1, <1>3 DEF LinkDirect, StoreInode, Added, At, Call, Inode
  <1>4. CASE StoreIndirect
    BY <1>1, <1>4 DEF StoreIndirect, StoreInode, At, Call, Inode
  <1>5. CASE StoreDouble
    BY <1>1, <1>5 DEF StoreDouble, StoreInode, At, Call, Inode
  <1>6. CASE LinkIndirect
    BY <1>1, <1>6 DEF LinkIndirect, Added, At, Call
  <1>7. CASE StoreInner
    BY <1>1, <1>7 DEF StoreInner, At, Call
  <1>8. CASE LinkInner
    BY <1>1, <1>8 DEF LinkInner, InDouble, Added, At, Call
  <1> QED BY <1>2, <1>3, <1>4, <1>5, <1>6, <1>7, <1>8 DEF AddsBlock, AddBlockStep

LEMMA AddsKeepWrite ==
    ASSUME BInv, BInv', WriteInv, AddsBlock PROVE WriteInv'
  <1>1. IInv
    BY DEF BInv
  <1>2. /\ call.pc # "idle" /\ call'.pc # "idle"
        /\ call'.fd = call.fd /\ call'.buf = call.buf /\ call'.done = call.done
        /\ call'.cursor = call.cursor /\ call'.lfd = call.lfd
        /\ call'.ino.size = call.ino.size
        /\ fd_tab' = fd_tab
    BY <1>1, AddsFields DEF InCall, table
  <1>3. PICK i \in Inodes : /\ i = call.lfd.inum /\ LiveInode(i) = call.ino
                            /\ LiveInode(i)' = call'.ino /\ LiveBlocks(i) = CallBlocks
                            /\ CallBlocks \in Nat
    <2>1. call.lfd.inum \in Inodes /\ call'.lfd.inum = call.lfd.inum
      BY <1>1, <1>2, Locals
    <2> QED BY <1>1, <1>2, <2>1, LiveRunning DEF LiveInode, Running
  <1>4. inodes'[i].size \in {inodes[i].size, call.ino.size}
    BY <1>1, <1>2, AddsFields
  <1> DEFINE pos == fd_cursor_get(fd_tab[call.fd])
  <1>5. /\ call.cursor = pos + call.done /\ call.ino.size \in {inodes[i].size, call.cursor}
        /\ \A k \in 1 .. call.done : CellIn(mem, call.ino, pos + k - 1) = call.buf[k]
    BY <1>2, <1>3 DEF WriteInv
  <1>6. fd_cursor_get(fd_tab'[call'.fd]) = pos
    BY <1>2
  <1>7. pos \in Nat /\ call.done \in Nat /\ call.cursor <= call.ino.size /\ call.ino.size \in Nat
    <2>1. fd_tab[call.fd] \in Fd
      BY <1>1, <1>2, Locals DEF IInv, TypeOK
    <2> QED BY <1>1, <1>2, <2>1, CursorNat, Locals DEF IInv, CallInFile
  <1> HIDE DEF pos
  <1>8. ASSUME NEW k \in 1 .. call.done
        PROVE  CellIn(mem', call'.ino, pos + k - 1) = call.buf[k]
    <2> DEFINE o == pos + k - 1
    <2>1. o \in Nat /\ o < call.ino.size
      BY <1>5, <1>7
    <2> HIDE DEF o
    <2>2. o \div BlockSize \in Nat /\ o \div BlockSize < CeilDiv(call.ino.size)
      BY <1>7, <2>1, CellPlace
    <2>3. o \div BlockSize < CallBlocks
      <3>1. CeilDiv(call.ino.size) \in Nat /\ CeilDiv(call.ino.size) <= CallBlocks
        BY <1>3, <1>7, CeilDivFacts DEF CallBlocks, NewIndex
      <3> QED BY <1>3, <2>2, <3>1
    <2>4. SameData(i, o \div BlockSize)
      BY <1>3, <2>2, <2>3, AddsKeepData
    <2>5. CellIn(mem', call'.ino, o) = CellIn(mem, call.ino, o)
      BY <1>3, <2>4 DEF SameData, CellIn
    <2> QED BY <1>5, <2>5 DEF o
  <1> QED BY <1>2, <1>3, <1>4, <1>5, <1>6, <1>8 DEF WriteInv

\* The next n cells of the buffer are in the file, at the cursor, and all other
\* cells of all files are as they were.
WritesCells(n) ==
    /\ \A o \in Nat : call.cursor <= o /\ o < call.cursor + n =>
          /\ CellIn(mem', call'.ino, o) = call.buf[call.done + (o - call.cursor) + 1]
    /\ \A i \in Inodes, o \in Nat :
          /\ o \div BlockSize < LiveBlocks(i)
          /\ i = call.lfd.inum => o < call.cursor \/ call.cursor + n <= o
          => CellIn(mem', LiveInode(i)', o) = CellIn(mem, LiveInode(i), o)

\* One turn of the loop writes the next cells of the buffer and counts them.
LEMMA ChunkCells ==
    ASSUME BInv, WriteChunk
    PROVE  \E n \in Nat :
              /\ WritesCells(n)
              /\ call'.done = call.done + n /\ call'.done <= Len(call.buf)
              /\ call'.cursor = call.cursor + n
              /\ call'.ino.size = MaxOf(call.ino.size, call'.cursor)
              /\ call.pc # "idle" /\ call'.pc # "idle"
              /\ call'.fd = call.fd /\ call'.buf = call.buf
              /\ call'.lfd.inum = call.lfd.inum /\ inodes' = inodes
              /\ mounted /\ InCall
  <1> DEFINE off == call.lfd.off
             n   == MinOf(Len(call.buf) - call.done, BlockSize - off)
             cur == call.cursor + n
             lfd == fd_cursor_set(call.lfd, cur)
             b   == FdBlock(call.ino, call.lfd)
             k   == fd_cursor_get_block_index(call.lfd)
             new == [j \in Slots |-> IF off <= j /\ j < off + n
                        THEN call.buf[call.done + (j - off) + 1] ELSE mem[b][j]]
  <1>1. /\ IInv /\ TreeInv /\ call \in Call /\ call.pc \in {"chunk", "loop"}
        /\ call.ino \in Inode /\ call.lfd \in Fd /\ Normal(call.lfd)
        /\ call.lfd.inum \in Inodes /\ mem \in [Blocks -> [Slots -> Cells]]
        /\ Len(call.buf) \in Nat /\ call.done \in Nat /\ call.cursor \in Nat
    <2>1. IInv /\ TreeInv /\ HeldInv /\ call.pc \in {"chunk", "loop"} /\ Normal(call.lfd)
      BY DEF BInv, WriteChunk, At, CursorInv
    <2> QED BY <2>1, Locals DEF IInv, TypeOK
  <1>2. /\ mem' = [mem EXCEPT ![b] = new]
        /\ call' = [call EXCEPT !.pc = "loop", !.done = @ + n, !.cursor = cur,
                               !.lfd = lfd, !.ino.size = MaxOf(@, cur)]
        /\ inodes' = inodes /\ mounted /\ InCall
    BY DEF WriteChunk, At
  <1>3. call.done < Len(call.buf)
    <2>1. CASE call.pc = "chunk"
      BY <1>1, <2>1 DEF IInv, BlocksFilled
    <2>2. CASE call.pc = "loop"
      BY <2>2 DEF WriteChunk, At
    <2> QED BY <1>1, <2>1, <2>2
  <1>4. /\ n \in Nat /\ n > 0 /\ n <= BlockSize - off /\ n <= Len(call.buf) - call.done
        /\ cur \in Nat /\ off \in Slots
    <2>2. off \in Slots /\ BlockSize \in Nat
      BY <1>1, CursorNat, ShapeAssumption
    <2> HIDE DEF off
    <2> QED BY <1>1, <1>3, <2>2 DEF MinOf, Slots
  <1>5. k \in Nat /\ k < CallBlocks
    <2>1. call.pc = "chunk" \/ (call.pc = "loop" /\ ~NeedsBlock)
      BY <1>1 DEF WriteChunk, At
    <2> HIDE DEF n
    <2> QED BY <1>4, <2>1, ChunkBlocks
  <1>6. lfd.inum = call.lfd.inum
    <2> HIDE DEF cur
    <2> QED BY <1>1, <1>4, CursorRoundTrip
  <1>7. b = DataIn(mem, call.ino, k)
    BY <1>1, CursorBlock
  <1>8. call.cursor = k * BlockSize + off
    BY <1>1, CursorNat DEF IInv, CallInFile
  <1> HIDE DEF off, n, cur, lfd, b, k
  <1>9. /\ call'.pc = "loop" /\ call'.lfd = lfd /\ call'.done = call.done + n
        /\ call'.cursor = cur /\ call'.ino.size = MaxOf(call.ino.size, cur)
        /\ call'.fd = call.fd /\ call'.buf = call.buf
    BY <1>1, <1>2 DEF Call, Inode
  <1>10. PICK r \in Inodes : /\ r = call.lfd.inum /\ LiveInode(r) = call.ino
                             /\ LiveInode(r)' = call'.ino /\ LiveBlocks(r) = CallBlocks
    <2>1. /\ call.pc # "idle" /\ call'.pc # "idle" /\ call'.lfd.inum = call.lfd.inum
      BY <1>1, <1>6, <1>9
    <2> QED BY <1>1, <2>1, LiveRunning DEF LiveInode, Running
  <1>11. /\ b \in Blocks
         /\ \A j \in Inodes : \A q \in Parts(LiveBlocks(j)) :
              b = BlockIn(mem, LiveInode(j), q) => r = j /\ q = <<"data", k>>
    BY <1>1, <1>5, <1>7, <1>10, DataBlockIs
  <1>12. /\ \A s \in Slots : mem'[b][s] = new[s]
         /\ \A c \in Blocks : c # b => mem'[c] = mem[c]
    <2> HIDE DEF new
    <2> QED BY <1>1, <1>2, <1>11
  <1>13. Advance
    BY ChunkKeeps
  <1>14. ASSUME NEW i \in Inodes, NEW o \in Nat, o \div BlockSize < LiveBlocks(i)
         PROVE  CellIn(mem', LiveInode(i)', o) =
                   IF i = r /\ o \div BlockSize = k THEN new[o % BlockSize]
                   ELSE CellIn(mem, LiveInode(i), o)
    <2> DEFINE q == o \div BlockSize
               s == o % BlockSize
               c == DataIn(mem, LiveInode(i), q)
    <2>1. q \in Nat /\ s \in Slots /\ q < LiveBlocks(i)
      BY <1>14, DivMod
    <2> HIDE DEF q, s
    <2>2. c \in Blocks /\ DataIn(mem', LiveInode(i)', q) = c
      BY <1>1, <1>13, <2>1, BlocksStay, DataBlockIs
    <2>3. c = b <=> i = r /\ q = k
      <3>1. i = r /\ q = k => c = b
        BY <1>7, <1>10
      <3>2. <<"data", q>> \in Parts(LiveBlocks(i)) /\ BlockIn(mem, LiveInode(i), <<"data", q>>) = c
        BY <1>1, <2>1, LiveTypes, PartsAre, BlockInKinds
      <3>3. <<"data", q>> = <<"data", k>> => q = k
        OBVIOUS
      <3> HIDE DEF c
      <3> QED BY <1>11, <3>1, <3>2, <3>3
    <2>4. CellIn(mem', LiveInode(i)', o) = mem'[c][s] /\ CellIn(mem, LiveInode(i), o) = mem[c][s]
      BY <2>2 DEF CellIn, q, s
    <2> HIDE DEF c, new
    <2>5. mem'[c][s] = IF i = r /\ q = k THEN new[s] ELSE mem[c][s]
      <3>1. CASE i = r /\ q = k
        BY <1>12, <2>1, <2>3, <3>1
      <3>2. CASE ~(i = r /\ q = k)
        BY <1>12, <2>2, <2>3, <3>2
      <3> QED BY <3>1, <3>2
    <2> QED BY <2>4, <2>5 DEF q, s
  <1>15. ASSUME NEW o \in Nat
         PROVE  /\ o \div BlockSize = k =>
                      /\ o % BlockSize \in Slots
                      /\ (o % BlockSize) - off = o - call.cursor
                      /\ off <= o % BlockSize /\ o % BlockSize < off + n
                            <=> call.cursor <= o /\ o < cur
                /\ call.cursor <= o /\ o < cur => o \div BlockSize = k
    <2> DEFINE q == o \div BlockSize
               s == o % BlockSize
    <2>1. q \in Nat /\ s \in Slots /\ o = BlockSize * q + s
      BY DivMod
    <2> HIDE DEF q, s
    <2>2. /\ k * BlockSize \in Nat /\ q * BlockSize \in Nat /\ BlockSize * q = q * BlockSize
          /\ k < q => k * BlockSize + BlockSize <= q * BlockSize
          /\ q < k => q * BlockSize + BlockSize <= k * BlockSize
      BY <1>5, <2>1, Starts, TimesBlock
    <2>3. cur = k * BlockSize + off + n /\ call.cursor = k * BlockSize + off
      BY <1>8 DEF cur
    <2>4. q = k => s - off = o - call.cursor /\ (off <= s /\ s < off + n
                            <=> call.cursor <= o /\ o < cur)
      BY <1>4, <2>1, <2>2, <2>3, Starts DEF Slots
    <2>5. call.cursor <= o /\ o < cur => q = k
      <3>1. q < k \/ k < q \/ q = k
        BY <1>5, <2>1
      <3> QED BY <1>4, <1>5, <2>1, <2>2, <2>3, <3>1, Starts DEF Slots
    <2> QED BY <2>1, <2>4, <2>5 DEF q, s
  <1>16. WritesCells(n)
    <2>1. ASSUME NEW o \in Nat, call.cursor <= o, o < call.cursor + n
          PROVE  CellIn(mem', call'.ino, o) = call.buf[call.done + (o - call.cursor) + 1]
      <3>1. /\ o \div BlockSize = k /\ o % BlockSize \in Slots
            /\ (o % BlockSize) - off = o - call.cursor
            /\ off <= o % BlockSize /\ o % BlockSize < off + n
        BY <1>15, <2>1 DEF cur
      <3>2. new[o % BlockSize] = call.buf[call.done + (o - call.cursor) + 1]
        BY <3>1
      <3> HIDE DEF new
      <3> QED BY <1>5, <1>10, <1>14, <3>1, <3>2
    <2>2. ASSUME NEW i \in Inodes, NEW o \in Nat, o \div BlockSize < LiveBlocks(i),
                 i = call.lfd.inum => o < call.cursor \/ call.cursor + n <= o
          PROVE  CellIn(mem', LiveInode(i)', o) = CellIn(mem, LiveInode(i), o)
      <3>1. CASE i = r /\ o \div BlockSize = k
        <4>1. ~(call.cursor <= o /\ o < cur)
          BY <1>1, <1>4, <1>10, <2>2, <3>1 DEF cur
        <4>2. /\ o % BlockSize \in Slots
              /\ ~(off <= o % BlockSize /\ o % BlockSize < off + n)
          BY <1>15, <3>1, <4>1
        <4>3. new[o % BlockSize] = mem[b][o % BlockSize]
          BY <4>2
        <4>4. CellIn(mem, LiveInode(i), o) = mem[b][o % BlockSize]
          BY <1>7, <1>10, <3>1 DEF CellIn
        <4> HIDE DEF new
        <4> QED BY <1>14, <2>2, <3>1, <4>3, <4>4
      <3>2. CASE ~(i = r /\ o \div BlockSize = k)
        <4> HIDE DEF new
        <4> QED BY <1>14, <2>2, <3>2
      <3> QED BY <3>1, <3>2
    <2> QED BY <2>1, <2>2 DEF WritesCells
  <1>17. call.done + n <= Len(call.buf)
    BY <1>1, <1>4
  <1> QED BY <1>1, <1>2, <1>4, <1>6, <1>9, <1>16, <1>17 DEF cur

LEMMA ChunkKeepsWrite ==
    ASSUME BInv, BInv', WriteInv, WriteChunk PROVE WriteInv'
  <1>1. PICK n \in Nat :
          /\ WritesCells(n)
          /\ call'.done = call.done + n /\ call'.done <= Len(call.buf)
          /\ call'.cursor = call.cursor + n
          /\ call'.ino.size = MaxOf(call.ino.size, call'.cursor)
          /\ call.pc # "idle" /\ call'.pc # "idle"
          /\ call'.fd = call.fd /\ call'.buf = call.buf
          /\ call'.lfd.inum = call.lfd.inum /\ inodes' = inodes /\ fd_tab' = fd_tab
    BY ChunkCells DEF InCall, table
  <1>2. IInv
    BY DEF BInv
  <1>3. PICK i \in Inodes : /\ i = call.lfd.inum /\ LiveInode(i) = call.ino
                            /\ LiveInode(i)' = call'.ino /\ LiveBlocks(i) = CallBlocks
                            /\ CallBlocks \in Nat
    BY <1>1, <1>2, LiveRunning DEF LiveInode, Running
  <1> DEFINE pos == fd_cursor_get(fd_tab[call.fd])
             size == inodes[i].size
  <1>4. /\ call.cursor = pos + call.done /\ call.ino.size \in {size, call.cursor}
        /\ \A k \in 1 .. call.done : CellIn(mem, call.ino, pos + k - 1) = call.buf[k]
    BY <1>1, <1>3 DEF WriteInv
  <1>5. fd_cursor_get(fd_tab'[call'.fd]) = pos /\ inodes'[i].size = size
    BY <1>1
  <1>6. /\ pos \in Nat /\ call.done \in Nat /\ call.cursor <= call.ino.size
        /\ call.ino.size \in Nat /\ size \in Nat
    <2>1. fd_tab[call.fd] \in Fd /\ size \in Nat
      BY <1>1, <1>2, Locals DEF IInv, TypeOK, Inode
    <2> QED BY <1>1, <1>2, <2>1, CursorNat, Locals DEF IInv, CallInFile
  <1> HIDE DEF pos, size
  <1>7. call'.ino.size \in {size, call'.cursor}
    BY <1>1, <1>4, <1>6 DEF MaxOf
  <1>8. ASSUME NEW k \in 1 .. call'.done
        PROVE  CellIn(mem', call'.ino, pos + k - 1) = call.buf[k]
    <2> DEFINE o == pos + k - 1
    <2>1. k \in Nat /\ k > 0 /\ k <= call.done + n
      BY <1>1, <1>6
    <2>2. CASE k <= call.done
      <3>1. o \in Nat /\ o < call.ino.size /\ o < call.cursor
        BY <1>4, <1>6, <2>1, <2>2
      <3> HIDE DEF o
      <3>2. o \div BlockSize \in Nat /\ o \div BlockSize < CeilDiv(call.ino.size)
        BY <1>6, <3>1, CellPlace
      <3>3. o \div BlockSize < LiveBlocks(i)
        <4>1. CeilDiv(call.ino.size) \in Nat /\ CeilDiv(call.ino.size) <= CallBlocks
          BY <1>3, <1>6, CeilDivFacts DEF CallBlocks, NewIndex
        <4> QED BY <1>3, <3>2, <4>1
      <3>4. CellIn(mem', call'.ino, o) = CellIn(mem, call.ino, o)
        BY <1>1, <1>3, <3>1, <3>3 DEF WritesCells
      <3>5. k \in 1 .. call.done
        BY <1>6, <2>1, <2>2
      <3> QED BY <1>4, <3>4, <3>5 DEF o
    <2>3. CASE call.done < k
      <3>1. o \in Nat /\ call.cursor <= o /\ o < call.cursor + n
            /\ call.done + (o - call.cursor) + 1 = k
        BY <1>4, <1>6, <2>1, <2>3
      <3> HIDE DEF o
      <3>2. CellIn(mem', call'.ino, o) = call.buf[k]
        BY <1>1, <3>1 DEF WritesCells
      <3> QED BY <3>2 DEF o
    <2> QED BY <1>6, <2>1, <2>2, <2>3
  <1>9. call'.cursor = pos + call'.done
    BY <1>1, <1>4, <1>6
  <1> QED BY <1>1, <1>3, <1>5, <1>7, <1>8, <1>9 DEF WriteInv

\* A write that starts has written nothing.
LEMMA WriteStartsWrite ==
    ASSUME BInv, NEW d \in Fds, NEW buf, fs_write(d, buf) PROVE WriteInv'
  <1>1. /\ call'.cursor = fd_cursor_get(fd_tab[d]) /\ call'.done = 0 /\ call'.fd = d
        /\ call'.lfd = fd_tab[d] /\ call'.ino = inodes[fd_tab[d].inum]
        /\ fd_tab' = fd_tab /\ inodes' = inodes
    BY DEF fs_write, Idle, table, device
  <1>2. fd_cursor_get(fd_tab[d]) \in Nat
    BY CursorNat DEF BInv, IInv, TypeOK
  <1> DEFINE pos == fd_cursor_get(fd_tab[d])
  <1>3. fd_cursor_get(fd_tab'[call'.fd]) = pos
    BY <1>1
  <1> HIDE DEF pos
  <1> QED BY <1>1, <1>2, <1>3 DEF WriteInv, pos

LEMMA StepWrites ==
    ASSUME BInv, BInv', WriteInv, [Next]_vars PROVE WriteInv'
  <1>1. ASSUME call.pc = "idle", call' = call PROVE WriteInv'
    BY <1>1 DEF WriteInv
  <1>2. CASE CallStart
    <2>1. CASE \E d \in Fds, buf \in Buffers : fs_write(d, buf)
      BY <2>1, WriteStartsWrite
    <2>2. CASE ~(\E d \in Fds, buf \in Buffers : fs_write(d, buf))
      <3>1. call.pc = "idle" /\ call' = call
        BY <1>2, <2>2 DEF CallStart, DescriptorCall, fs_open, fs_close, fs_seek, fs_read,
           BadDescriptor, Ready
      <3> QED BY <1>1, <3>1
    <2> QED BY <2>1, <2>2
  <1>3. CASE AllocData \/ DeviceFull \/ AddBlockStep
    BY <1>3, AddsKeepWrite DEF AddsBlock
  <1>4. CASE WriteChunk
    BY <1>4, ChunkKeepsWrite
  <1>5. CASE Finish \/ Crash
    <2>1. call'.pc = "idle"
      BY <1>5, IdleFields DEF Finish, Crash
    <2> QED BY <2>1 DEF WriteInv
  <1>6. CASE fs_unmount \/ directory_takes_block \/ directory_gives_back
    <2>1. call.pc = "idle" /\ call' = call
      BY <1>6 DEF fs_unmount, directory_takes_block, directory_gives_back, Ready
    <2> QED BY <1>1, <2>1
  <1>7. CASE fs_mount \/ UNCHANGED vars
    <2>1. UNCHANGED <<call, mem, inodes, fd_tab>>
      BY <1>7 DEF fs_mount, vars, device, table
    <2> QED BY <2>1 DEF WriteInv, CellIn, DataIn
  <1> QED BY <1>2, <1>3, <1>4, <1>5, <1>6, <1>7 DEF Next, WriteStep

\* The blocks of the files, and what the running write has put in them.
CInv == BInv /\ WriteInv

LEMMA ContentInvariance == Spec => []CInv
  <1>1. Init => CInv
    BY InitBlocks, IdleFields DEF CInv, WriteInv, Init
  <1>2. CInv /\ [Next]_vars => CInv'
    BY StepBlocks, StepWrites DEF CInv
  <1> QED BY <1>1, <1>2, PTL DEF Spec

-----------------------------------------------------------------------------
(* The refinement of FileStore.                                            *)

\* A function on 1 .. n is a sequence of length n.
LEMMA LengthIs ==
    ASSUME NEW n \in Nat, NEW f, DOMAIN f = 1 .. n, f = [k \in 1 .. n |-> f[k]]
    PROVE  f \in Seq({f[k] : k \in 1 .. n}) /\ Len(f) = n
  <1> DEFINE S == {f[k] : k \in 1 .. n}
  <1>1. \A k \in 1 .. n : f[k] \in S
    OBVIOUS
  <1> HIDE DEF S
  <1>2. f \in [1 .. n -> S]
    BY <1>1
  <1>3. f \in Seq(S)
    BY <1>2, SeqDef
  <1>4. DOMAIN f = 1 .. Len(f) /\ Len(f) \in Nat
    BY <1>3, LenProperties
  <1>5. \A m \in Nat : 1 .. m = 1 .. n => m = n
    <2> SUFFICES ASSUME NEW m \in Nat, 1 .. m = 1 .. n PROVE m = n
      OBVIOUS
    <2>1. \A k \in Int : k \in 1 .. m <=> k \in 1 .. n
      OBVIOUS
    <2>2. (m \in 1 .. m /\ n \in 1 .. n) \/ m = 0 \/ n = 0
      OBVIOUS
    <2>3. m > 0 => 1 \in 1 .. n
      BY <2>1
    <2>4. n > 0 => 1 \in 1 .. m
      BY <2>1
    <2> QED BY <2>1, <2>2, <2>3, <2>4
  <1> QED BY <1>3, <1>4, <1>5 DEF S

\* A file is as long as its inode says and holds the cells that are stored,
\* before a step and after it.
LEMMA ContentIs ==
    /\ TypeOK => \A i \in Inodes :
         /\ inodes[i].size \in Nat
         /\ DOMAIN FileContents[i] = 1 .. inodes[i].size
         /\ Len(FileContents[i]) = inodes[i].size
         /\ FileContents[i] = [k \in 1 .. inodes[i].size |-> CellIn(mem, inodes[i], k - 1)]
    /\ TypeOK' => \A i \in Inodes :
         /\ inodes'[i].size \in Nat
         /\ DOMAIN FileContents'[i] = 1 .. inodes'[i].size
         /\ Len(FileContents'[i]) = inodes'[i].size
         /\ FileContents'[i] = [k \in 1 .. inodes'[i].size |-> CellIn(mem', inodes'[i], k - 1)]
  <1>1. ASSUME NEW f, NEW n \in Nat, NEW m, NEW inode,
               f = [k \in 1 .. n |-> CellIn(m, inode, k - 1)]
        PROVE  DOMAIN f = 1 .. n /\ Len(f) = n
    <2>1. DOMAIN f = 1 .. n /\ f = [k \in 1 .. n |-> f[k]]
      BY <1>1
    <2> QED BY <2>1, LengthIs
  <1>2. ASSUME TypeOK, NEW i \in Inodes
        PROVE  /\ inodes[i].size \in Nat
               /\ FileContents[i] = [k \in 1 .. inodes[i].size |-> CellIn(mem, inodes[i], k - 1)]
    <2>1. inodes[i].size \in Nat
      BY <1>2 DEF TypeOK, Inode
    <2>2. FileContents[i] = Content(inodes[i])
      BY DEF FileContents
    <2> QED BY <2>1, <2>2 DEF Content, CellIn, DataBlock, DataIn
  <1>3. ASSUME TypeOK', NEW i \in Inodes
        PROVE  /\ inodes'[i].size \in Nat
               /\ FileContents'[i] = [k \in 1 .. inodes'[i].size |-> CellIn(mem', inodes'[i], k - 1)]
    <2>1. inodes'[i].size \in Nat
      BY <1>3 DEF TypeOK, Inode
    <2>2. FileContents'[i] = Content(inodes[i])'
      BY DEF FileContents
    <2> QED BY <2>1, <2>2 DEF Content, CellIn, DataBlock, DataIn
  <1> QED BY <1>1, <1>2, <1>3

\* The table of cursors is one function of the descriptors, whatever it was.
LEMMA CursorsTable ==
    /\ OpenCursors = [d \in Fds |-> OpenCursors[d]]
    /\ OpenCursors' = [d \in Fds |-> OpenCursors'[d]]
    /\ \A d \in Fds : \A x :
         (/\ OpenCursors'[d] = x
          /\ \A e \in Fds : e # d => OpenCursors'[e] = OpenCursors[e])
         => OpenCursors' = [OpenCursors EXCEPT ![d] = x]
  <1> DEFINE F(d) == IF d \in fd_used
                     THEN [file |-> fd_tab[d].inum, pos |-> fd_cursor_get(fd_tab[d])]
                     ELSE [file |-> 0, pos |-> -1]
             G(d) == IF d \in fd_used'
                     THEN [file |-> fd_tab'[d].inum, pos |-> fd_cursor_get(fd_tab'[d])]
                     ELSE [file |-> 0, pos |-> -1]
  <1>1. OpenCursors = [d \in Fds |-> F(d)] /\ OpenCursors' = [d \in Fds |-> G(d)]
    BY DEF OpenCursors
  <1> HIDE DEF F, G
  <1>2. OpenCursors = [d \in Fds |-> OpenCursors[d]]
    BY <1>1
  <1>3. OpenCursors' = [d \in Fds |-> OpenCursors'[d]]
    BY <1>1
  <1>4. ASSUME NEW d \in Fds, NEW x, OpenCursors'[d] = x,
               \A e \in Fds : e # d => OpenCursors'[e] = OpenCursors[e]
        PROVE  OpenCursors' = [OpenCursors EXCEPT ![d] = x]
    BY <1>2, <1>3, <1>4
  <1> QED BY <1>2, <1>3, <1>4

\* What the open descriptors and the running write are to FileStore.
LEMMA CursorsAre ==
    ASSUME IInv
    PROVE  /\ \A d \in Fds : Files!Open(d) <=> d \in fd_used
           /\ \A d \in fd_used :
                /\ d \in Fds /\ fd_tab[d].inum \in Inodes
                /\ OpenCursors[d].file = fd_tab[d].inum
                /\ OpenCursors[d].pos = fd_cursor_get(fd_tab[d])
                /\ OpenCursors[d].pos \in Nat
                /\ OpenCursors[d].pos <= inodes[fd_tab[d].inum].size
                /\ Files!Size(d) = inodes[fd_tab[d].inum].size
           /\ OpenCursors = [d \in Fds |-> OpenCursors[d]]
           /\ RunningWrite = Files!NoWrite <=> call.pc = "idle"
           /\ Ready => Files!Quiet
  <1>1. TypeOK /\ fd_used \subseteq Fds /\ fd_tab \in [Fds -> Fd] /\ call.done \in Nat
    BY DEF IInv, TypeOK, Call
  <1>2. ASSUME NEW d \in fd_used
        PROVE  /\ d \in Fds /\ fd_tab[d].inum \in Inodes
               /\ OpenCursors[d].file = fd_tab[d].inum
               /\ OpenCursors[d].pos = fd_cursor_get(fd_tab[d])
               /\ fd_cursor_get(fd_tab[d]) \in Nat
               /\ fd_cursor_get(fd_tab[d]) <= inodes[fd_tab[d].inum].size
    <2>1. d \in Fds /\ fd_tab[d] \in Fd
      BY <1>1
    <2>2. OpenCursors[d] = [file |-> fd_tab[d].inum, pos |-> fd_cursor_get(fd_tab[d])]
      BY <2>1 DEF OpenCursors
    <2>3. OpenCursors[d].file = fd_tab[d].inum /\ OpenCursors[d].pos = fd_cursor_get(fd_tab[d])
      BY <2>2
    <2> QED BY <2>1, <2>3, CursorNat DEF IInv, OpenInFile
  <1>3. ASSUME NEW d \in Fds PROVE Files!Open(d) <=> d \in fd_used
    <2>1. CASE d \in fd_used
      <3>1. OpenCursors[d].pos \in Nat /\ Files!Closed.pos = -1
        BY <1>2, <2>1 DEF Files!Closed
      <3> QED BY <2>1, <3>1 DEF Files!Open
    <2>2. CASE d \notin fd_used
      BY <2>2 DEF Files!Open, Files!Closed, OpenCursors
    <2> QED BY <2>1, <2>2
  <1>4. ASSUME NEW d \in fd_used PROVE Files!Size(d) = inodes[fd_tab[d].inum].size
    <2>1. OpenCursors[d].file = fd_tab[d].inum /\ fd_tab[d].inum \in Inodes
      BY <1>2
    <2>2. Len(FileContents[fd_tab[d].inum]) = inodes[fd_tab[d].inum].size
      BY <1>1, <2>1, ContentIs
    <2> QED BY <2>1, <2>2 DEF Files!Size
  <1>5. RunningWrite = Files!NoWrite <=> call.pc = "idle"
    <2>1. CASE call.pc = "idle"
      BY <2>1 DEF RunningWrite, Files!NoWrite
    <2>2. CASE call.pc # "idle"
      <3>1. RunningWrite.done = call.done /\ Files!NoWrite.done = -1
        BY <2>2 DEF RunningWrite, Files!NoWrite
      <3> QED BY <1>1, <2>2, <3>1
    <2> QED BY <2>1, <2>2
  <1>6. Ready => Files!Quiet
    BY <1>5 DEF Ready, Files!Quiet
  <1>7. OpenCursors = [d \in Fds |-> OpenCursors[d]]
    BY CursorsTable
  <1> QED BY <1>2, <1>3, <1>4, <1>5, <1>6, <1>7

\* What FileStore sees of a part of the state stays, if that part does.
LEMMA SeenStays ==
    /\ UNCHANGED <<mem, inodes>> => FileContents' = FileContents
    /\ UNCHANGED <<fd_used, fd_tab>> => OpenCursors' = OpenCursors
    /\ UNCHANGED call => RunningWrite' = RunningWrite
  <1>1. UNCHANGED <<mem, inodes>> => FileContents' = FileContents
    BY DEF FileContents, Content, DataBlock
  <1>2. UNCHANGED <<fd_used, fd_tab>> => OpenCursors' = OpenCursors
    BY DEF OpenCursors
  <1>3. UNCHANGED call => RunningWrite' = RunningWrite
    BY DEF RunningWrite
  <1> QED BY <1>1, <1>2, <1>3

\* The cursor of one descriptor, before a step and after it.
LEMMA CursorOf ==
    \A d \in Fds :
      /\ d \in fd_used =>
            OpenCursors[d] = [file |-> fd_tab[d].inum, pos |-> fd_cursor_get(fd_tab[d])]
      /\ d \in fd_used' =>
            OpenCursors'[d] = [file |-> fd_tab'[d].inum, pos |-> fd_cursor_get(fd_tab'[d])]
      /\ d \notin fd_used' => OpenCursors'[d] = Files!Closed
      /\ fd_tab'[d] = fd_tab[d] /\ (d \in fd_used' <=> d \in fd_used) =>
            OpenCursors'[d] = OpenCursors[d]
  <1> SUFFICES ASSUME NEW d \in Fds
               PROVE  /\ d \in fd_used => OpenCursors[d] = [file |-> fd_tab[d].inum,
                                                  pos |-> fd_cursor_get(fd_tab[d])]
                      /\ d \in fd_used' => OpenCursors'[d] = [file |-> fd_tab'[d].inum,
                                                  pos |-> fd_cursor_get(fd_tab'[d])]
                      /\ d \notin fd_used' => OpenCursors'[d] = Files!Closed
                      /\ fd_tab'[d] = fd_tab[d] /\ (d \in fd_used' <=> d \in fd_used) =>
                            OpenCursors'[d] = OpenCursors[d]
    OBVIOUS
  <1>1. OpenCursors[d] = IF d \in fd_used
            THEN [file |-> fd_tab[d].inum, pos |-> fd_cursor_get(fd_tab[d])]
            ELSE Files!Closed
    BY DEF OpenCursors, Files!Closed
  <1>2. OpenCursors'[d] = IF d \in fd_used'
            THEN [file |-> fd_tab'[d].inum, pos |-> fd_cursor_get(fd_tab'[d])]
            ELSE Files!Closed
    BY DEF OpenCursors, Files!Closed
  <1> QED BY <1>1, <1>2

\* Moving an open descriptor within its file is moving its cursor.
LEMMA CursorMoves ==
    ASSUME IInv, NEW d \in fd_used, NEW fd, NEW pos,
           fd_tab' = [fd_tab EXCEPT ![d] = fd], fd_used' = fd_used,
           fd.inum = fd_tab[d].inum, fd_cursor_get(fd) = pos
    PROVE  OpenCursors' = [OpenCursors EXCEPT ![d].pos = pos]
  <1>1. d \in Fds /\ fd_tab \in [Fds -> Fd]
    BY DEF IInv, TypeOK
  <1>2. fd_tab'[d] = fd /\ \A e \in Fds : e # d => fd_tab'[e] = fd_tab[e]
    BY <1>1
  <1> DEFINE c == [OpenCursors[d] EXCEPT !.pos = pos]
  <1>3. OpenCursors'[d] = c
    <2>1. OpenCursors'[d] = [file |-> fd_tab'[d].inum, pos |-> fd_cursor_get(fd_tab'[d])]
      BY <1>1, CursorOf
    <2>2. OpenCursors[d] = [file |-> fd_tab[d].inum, pos |-> fd_cursor_get(fd_tab[d])]
      BY <1>1, CursorOf
    <2>3. OpenCursors'[d] = [file |-> fd_tab[d].inum, pos |-> pos]
      BY <1>2, <2>1
    <2> QED BY <2>2, <2>3
  <1>4. \A e \in Fds : e # d => OpenCursors'[e] = OpenCursors[e]
    BY <1>2, CursorOf
  <1> HIDE DEF c
  <1>5. OpenCursors' = [OpenCursors EXCEPT ![d] = c]
    BY <1>1, <1>3, <1>4, CursorsTable
  <1> QED BY <1>5 DEF c

\* fs_open.
LEMMA OpenRefines ==
    ASSUME IInv, NEW i \in Inodes, fs_open(i) PROVE Files!Next
  <1>1. /\ Files!Quiet /\ FileContents' = FileContents /\ RunningWrite' = RunningWrite
        /\ mounted' = mounted /\ fd_tab \in [Fds -> Fd] /\ fd_used \subseteq Fds
    BY CursorsAre, SeenStays DEF fs_open, device, IInv, TypeOK
  <1>2. \A e \in Fds : Files!Open(e) <=> e \in fd_used
    BY CursorsAre
  <1>3. CASE \E d \in Fds :
            /\ IsFirstFree(d, fd_used, Fds)
            /\ fd_used' = fd_used \cup {d}
            /\ fd_tab' = [fd_tab EXCEPT ![d] = [ZeroFd EXCEPT !.inum = i]]
            /\ res' = Result(d, <<>>)
    <2>1. PICK d \in Fds :
            /\ IsFirstFree(d, fd_used, Fds)
            /\ fd_used' = fd_used \cup {d}
            /\ fd_tab' = [fd_tab EXCEPT ![d] = [ZeroFd EXCEPT !.inum = i]]
            /\ res' = Result(d, <<>>)
      BY <1>3
    <2>2. ~Files!Open(d) /\ \A e \in Fds : ~Files!Open(e) => d <= e
      BY <1>2, <2>1 DEF IsFirstFree
    <2> DEFINE zero == [ZeroFd EXCEPT !.inum = i]
    <2>3. zero.inum = i /\ fd_cursor_get(zero) = 0
      BY CursorOfZero DEF ZeroFd
    <2> HIDE DEF zero
    <2>4. fd_tab'[d] = zero /\ \A e \in Fds : e # d => fd_tab'[e] = fd_tab[e]
      BY <1>1, <2>1 DEF zero
    <2>5. OpenCursors'[d] = [file |-> i, pos |-> 0]
      BY <2>1, <2>3, <2>4, CursorOf
    <2>6. \A e \in Fds : e # d => OpenCursors'[e] = OpenCursors[e]
      BY <2>1, <2>4, CursorOf
    <2>7. OpenCursors' = [OpenCursors EXCEPT ![d] = [file |-> i, pos |-> 0]]
      BY <2>5, <2>6, CursorsTable
    <2>8. res' = Files!Result(d, <<>>)
      BY <2>1 DEF Result, Files!Result
    <2>9. Files!OpenFile(i)
      BY <1>1, <2>2, <2>7, <2>8 DEF Files!OpenFile
    <2> QED BY <2>9 DEF Files!Next
  <1>4. CASE Fds \subseteq fd_used /\ res' = Error /\ UNCHANGED table
    <2>1. OpenCursors' = OpenCursors
      BY <1>4, SeenStays DEF table
    <2>2. (\A d \in Fds : Files!Open(d)) /\ res' = Files!Result(-1, <<>>)
      BY <1>2, <1>4 DEF Error, Result, Files!Result
    <2>3. Files!OpenFile(i)
      BY <1>1, <2>1, <2>2 DEF Files!OpenFile
    <2> QED BY <2>3 DEF Files!Next
  <1> QED BY <1>3, <1>4 DEF fs_open

\* fs_close.
LEMMA CloseRefines ==
    ASSUME IInv, NEW d \in Fds, fs_close(d) PROVE Files!Next
  <1>1. /\ Files!Quiet /\ FileContents' = FileContents /\ RunningWrite' = RunningWrite
        /\ mounted' = mounted /\ d \in fd_used /\ Files!Open(d)
        /\ fd_used' = fd_used \ {d} /\ fd_tab' = fd_tab
    BY CursorsAre, SeenStays DEF fs_close, device
  <1>2. OpenCursors'[d] = Files!Closed /\ \A e \in Fds : e # d => OpenCursors'[e] = OpenCursors[e]
    BY <1>1, CursorOf
  <1>3. OpenCursors' = [OpenCursors EXCEPT ![d] = Files!Closed]
    BY <1>2, CursorsTable
  <1>4. res' = Files!Result(0, <<>>)
    BY DEF fs_close, Result, Files!Result
  <1>5. Files!CloseFile(d)
    BY <1>1, <1>3, <1>4 DEF Files!CloseFile
  <1> QED BY <1>5 DEF Files!Next

\* fs_seek: what _clamped_add does is what FileStore asks for.
LEMMA SeekRefines ==
    ASSUME IInv, NEW d \in Fds, NEW offset \in SeekOffsets,
           NEW whence \in {"set", "cur", "end"}, fs_seek(d, offset, whence)
    PROVE  Files!Next
  <1> DEFINE size == inodes[fd_tab[d].inum].size
             base == SeekBase(d, whence)
             new  == clamped_add(base, offset, 0, size)
  <1>1. /\ Files!Quiet /\ FileContents' = FileContents /\ RunningWrite' = RunningWrite
        /\ mounted' = mounted /\ d \in fd_used /\ Files!Open(d) /\ fd_used' = fd_used
        /\ fd_tab' = [fd_tab EXCEPT ![d] = fd_cursor_set(@, new)]
        /\ res' = Result(new, <<>>)
    BY CursorsAre, SeenStays DEF fs_seek, device
  <1>2. /\ fd_tab[d] \in Fd /\ size \in Nat /\ offset \in Int
        /\ OpenCursors[d].pos = fd_cursor_get(fd_tab[d]) /\ OpenCursors[d].pos \in Nat
        /\ Files!Size(d) = size
    BY <1>1, CursorsAre, ContentIs, InputAssumption DEF IInv, TypeOK
  <1>3. base \in {0, OpenCursors[d].pos, Files!Size(d)} /\ base \in Nat
    BY <1>2 DEF SeekBase
  <1>4. new = Files!Within(base + offset, Files!Size(d)) /\ new \in Nat
    <2> HIDE DEF base, size
    <2> QED BY <1>2, <1>3 DEF clamped_add, Files!Within
  <1> HIDE DEF new, base, size
  <1>5. OpenCursors' = [OpenCursors EXCEPT ![d].pos = new]
    <2>1. fd_cursor_set(fd_tab[d], new).inum = fd_tab[d].inum
          /\ fd_cursor_get(fd_cursor_set(fd_tab[d], new)) = new
      BY <1>2, <1>4, CursorRoundTrip
    <2> QED BY <1>1, <2>1, CursorMoves
  <1>6. res' = Files!Result(new, <<>>)
    BY <1>1 DEF Result, Files!Result
  <1>7. Files!Seek(d)
    BY <1>1, <1>3, <1>4, <1>5, <1>6 DEF Files!Seek
  <1> QED BY <1>7 DEF Files!Next

\* The read loop finds the cells where the file has them.
LEMMA ReadCellIs ==
    ASSUME NEW inode, NEW fd \in Fd, NEW o \in Nat
    PROVE  ReadCell(inode, fd, o) = CellIn(mem, inode, o)
  <1>1. /\ fd_cursor_set(fd, o) \in Fd /\ Normal(fd_cursor_set(fd, o))
        /\ fd_cursor_get_block_index(fd_cursor_set(fd, o)) = o \div BlockSize
    BY CursorRoundTrip, NormalSet
  <1>2. FdBlock(inode, fd_cursor_set(fd, o)) = DataIn(mem, inode, o \div BlockSize)
    BY <1>1, CursorBlock
  <1> QED BY <1>2 DEF ReadCell, CellIn

\* fs_read: the cells from the cursor on, as many as asked for or there are.
LEMMA ReadRefines ==
    ASSUME IInv, NEW d \in Fds, NEW nbyte \in ReadSizes, fs_read(d, nbyte)
    PROVE  Files!Next
  <1> DEFINE fd     == fd_tab[d]
             inode  == inodes[fd.inum]
             size   == inode.size
             cursor == fd_cursor_get(fd)
             n      == MinOf(nbyte, size - cursor)
             file   == FileContents[fd.inum]
             m      == IF cursor + nbyte <= size THEN nbyte ELSE size - cursor
  <1>1. /\ Files!Quiet /\ FileContents' = FileContents /\ RunningWrite' = RunningWrite
        /\ mounted' = mounted /\ d \in fd_used /\ Files!Open(d) /\ fd_used' = fd_used
    BY CursorsAre, SeenStays DEF fs_read, device
  <1>2. /\ fd \in Fd /\ size \in Nat /\ nbyte \in Nat /\ cursor \in Nat /\ cursor <= size
        /\ OpenCursors[d].pos = cursor /\ OpenCursors[d].file = fd.inum
        /\ Files!Size(d) = size
        /\ file = [k \in 1 .. size |-> CellIn(mem, inode, k - 1)]
    BY <1>1, CursorsAre, ContentIs, InputAssumption DEF IInv, TypeOK
  <1>3. \/ /\ cursor >= size /\ res' = Result(0, <<>>) /\ fd_tab' = fd_tab
        \/ /\ cursor < size
           /\ res' = Result(n, [k \in 1 .. n |-> ReadCell(inode, fd, cursor + k - 1)])
           /\ fd_tab' = [fd_tab EXCEPT ![d] = fd_cursor_set(@, cursor + n)]
    <2>1. cursor < size <=> ~(cursor >= size)
      BY <1>2
    <2> QED BY <2>1 DEF fs_read
  <1> HIDE DEF fd, inode, size, cursor, n, file
  <1>4. m \in Nat /\ cursor + m \in Nat /\ cursor + m <= size
    BY <1>2
  <1>5. /\ res' = Files!Result(m, SubSeq(file, cursor + 1, cursor + m))
        /\ OpenCursors' = [OpenCursors EXCEPT ![d].pos = cursor + m]
    <2>1. CASE cursor >= size /\ res' = Result(0, <<>>) /\ fd_tab' = fd_tab
      <3>1. m = 0 /\ cursor + m = cursor
        BY <1>2, <2>1
      <3>2. SubSeq(file, cursor + 1, cursor + m) = <<>>
        BY <1>2, <3>1, SubSeqEmpty
      <3>3. OpenCursors' = [OpenCursors EXCEPT ![d].pos = cursor]
        <4>1. fd_tab' = [fd_tab EXCEPT ![d] = fd]
          BY <2>1 DEF fd, IInv, TypeOK
        <4> QED BY <1>1, <4>1, CursorMoves DEF fd, cursor
      <3> HIDE DEF m
      <3> QED BY <2>1, <3>1, <3>2, <3>3 DEF Result, Files!Result
    <2>2. CASE /\ cursor < size
               /\ res' = Result(n, [k \in 1 .. n |-> ReadCell(inode, fd, cursor + k - 1)])
               /\ fd_tab' = [fd_tab EXCEPT ![d] = fd_cursor_set(@, cursor + n)]
      <3>1. n = m
        BY <1>2, <2>2 DEF n, MinOf
      <3> HIDE DEF m
      <3>2. ASSUME NEW k \in 1 .. m
            PROVE  /\ ReadCell(inode, fd, cursor + k - 1) = CellIn(mem, inode, cursor + k - 1)
                   /\ file[cursor + k] = CellIn(mem, inode, cursor + k - 1)
        <4>1. cursor + k - 1 \in Nat /\ cursor + k \in 1 .. size
              /\ (cursor + k) - 1 = cursor + k - 1
          BY <1>2, <1>4
        <4> QED BY <1>2, <4>1, ReadCellIs
      <3>3. SubSeq(file, cursor + 1, cursor + m)
               = [k \in 1 .. m |-> ReadCell(inode, fd, cursor + k - 1)]
        <4> DEFINE S == {CellIn(mem, inode, k - 1) : k \in 1 .. size}
                   sub == SubSeq(file, cursor + 1, cursor + m)
        <4>1. \A k \in (cursor + 1) .. (cursor + m) : k \in 1 .. size
          BY <1>2, <1>4
        <4>2. \A k \in (cursor + 1) .. (cursor + m) : file[k] \in S
          BY <1>2, <4>1
        <4>3. cursor + 1 \in Int /\ cursor + m \in Int
          BY <1>2, <1>4
        <4> DEFINE first == cursor + 1
                   last  == cursor + m
        <4>4. /\ sub = SubSeq(file, first, last) /\ first \in Int /\ last \in Int
              /\ \A k \in first .. last : file[k] \in S
          BY <4>2, <4>3
        <4>5. last - first + 1 = m /\ (first <= last <=> m > 0)
              /\ \A k \in 1 .. m : first + k - 1 = cursor + k
          BY <1>2, <1>4
        <4> HIDE DEF S, sub, first, last
        <4>6. /\ sub \in Seq(S)
              /\ Len(sub) = IF first <= last THEN last - first + 1 ELSE 0
              /\ \A k \in 1 .. last - first + 1 : sub[k] = file[first + k - 1]
          BY <4>4, SubSeqProperties
        <4>7. sub \in Seq(S) /\ Len(sub) = m /\ \A k \in 1 .. m : sub[k] = file[cursor + k]
          BY <1>4, <4>5, <4>6
        <4>8. sub = [k \in 1 .. m |-> sub[k]]
          BY <4>7, LenProperties
        <4>9. \A k \in 1 .. m : sub[k] = ReadCell(inode, fd, cursor + k - 1)
          BY <3>2, <4>7
        <4>10. sub = [k \in 1 .. m |-> ReadCell(inode, fd, cursor + k - 1)]
          BY <4>8, <4>9
        <4> QED BY <4>10 DEF sub
      <3>4. res' = Files!Result(m, SubSeq(file, cursor + 1, cursor + m))
        BY <2>2, <3>1, <3>3 DEF Result, Files!Result
      <3>5. OpenCursors' = [OpenCursors EXCEPT ![d].pos = cursor + m]
        <4> DEFINE pos == cursor + m
        <4>1. pos \in Nat /\ fd_tab' = [fd_tab EXCEPT ![d] = fd_cursor_set(fd_tab[d], pos)]
          BY <1>4, <2>2, <3>1
        <4> HIDE DEF pos
        <4>2. fd_cursor_set(fd_tab[d], pos).inum = fd_tab[d].inum
              /\ fd_cursor_get(fd_cursor_set(fd_tab[d], pos)) = pos
          BY <1>2, <4>1, CursorRoundTrip DEF fd
        <4> QED BY <1>1, <4>1, <4>2, CursorMoves DEF pos
      <3> QED BY <3>4, <3>5
    <2> QED BY <1>3, <2>1, <2>2
  <1>6. Files!Read(d)
    <2>1. m = IF OpenCursors[d].pos + nbyte <= Files!Size(d) THEN nbyte
              ELSE Files!Size(d) - OpenCursors[d].pos
      BY <1>2
    <2>2. FileContents[OpenCursors[d].file] = file
      BY <1>2 DEF file
    <2> HIDE DEF m
    <2> QED BY <1>1, <1>2, <1>5, <2>1, <2>2 DEF Files!Read
  <1> QED BY <1>6 DEF Files!Next

\* A call with a descriptor that is not open.
LEMMA BadRefines ==
    ASSUME IInv, NEW d \in Fds, BadDescriptor(d) PROVE Files!Next
  <1>1. /\ Files!Quiet /\ FileContents' = FileContents /\ RunningWrite' = RunningWrite
        /\ OpenCursors' = OpenCursors /\ mounted' = mounted /\ ~Files!Open(d)
        /\ res' = Files!Result(-1, <<>>)
    BY CursorsAre, SeenStays DEF BadDescriptor, device, table, Error, Result, Files!Result
  <1>2. Files!Refuse
    BY <1>1 DEF Files!Refuse
  <1> QED BY <1>2 DEF Files!Next

\* fs_write begins.
LEMMA WriteRefines ==
    ASSUME IInv, NEW d \in Fds, NEW buf \in Buffers, fs_write(d, buf) PROVE Files!Next
  <1>1. /\ Files!Quiet /\ FileContents' = FileContents /\ OpenCursors' = OpenCursors
        /\ mounted' = mounted /\ Files!Open(d) /\ res' = Files!Result(0, <<>>)
    BY CursorsAre, SeenStays DEF fs_write, device, table, NoResult, Result, Files!Result
  <1>2. call'.pc = "loop" /\ call'.fd = d /\ call'.buf = buf /\ call'.done = 0
    BY DEF fs_write, Idle
  <1>3. RunningWrite' = [fd |-> d, buf |-> buf, done |-> 0]
    BY <1>2 DEF RunningWrite
  <1>4. Files!StartWrite(d, buf)
    BY <1>1, <1>3 DEF Files!StartWrite
  <1> QED BY <1>4 DEF Files!Next

\* fs_unmount, fs_mount, and the death of the process in a call.
LEMMA MountsRefine ==
    ASSUME IInv, fs_unmount \/ Crash \/ fs_mount PROVE Files!Next
  <1>1. CASE fs_unmount \/ Crash
    <2>1. mounted /\ mounted' = FALSE /\ fd_used' = {} /\ UNCHANGED <<mem, inodes>>
          /\ res' = Files!Result(0, <<>>) /\ call'.pc = "idle"
      BY <1>1, IdleFields DEF fs_unmount, Crash, Ready, DropTable, device, NoResult, Result,
         Files!Result
    <2>2. FileContents' = FileContents
      BY <2>1, SeenStays
    <2>3. OpenCursors' = [d \in Fds |-> Files!Closed]
      <3>1. \A d \in Fds : OpenCursors'[d] = Files!Closed
        BY <2>1, CursorOf
      <3> QED BY <3>1, CursorsTable
    <2>4. RunningWrite' = Files!NoWrite
      BY <2>1 DEF RunningWrite, Files!NoWrite
    <2>5. Files!Detach
      BY <2>1, <2>2, <2>3, <2>4 DEF Files!Detach
    <2> QED BY <2>5 DEF Files!Next
  <1>2. CASE fs_mount
    <2>1. Files!Attach
      BY <1>2, SeenStays DEF fs_mount, device, table, Files!Attach
    <2> QED BY <2>1 DEF Files!Next
  <1> QED BY <1>1, <1>2

\* A step after which n cells of the buffer are in the file, as far as its new
\* size shows them, and all else is as it was.
LEMMA EffectIs ==
    ASSUME CInv, TypeOK', call.pc # "idle", NEW n \in Nat, NEW i \in Inodes,
           i = call.lfd.inum, call.done <= n, n <= Len(call.buf),
           NEW pos, pos = fd_cursor_get(fd_tab[call.fd]),
           inodes[i].size <= inodes'[i].size,
           inodes'[i].size <= inodes[i].size \/ inodes'[i].size <= pos + n,
           \A k \in 1 .. n : CellIn(mem', inodes'[i], pos + k - 1) = call.buf[k],
           \A j \in Inodes : j # i => inodes'[j] = inodes[j],
           \A j \in Inodes, o \in Nat :
              o < inodes[j].size /\ (j = i => o < pos \/ pos + n <= o)
              => CellIn(mem', inodes'[j], o) = CellIn(mem, inodes[j], o)
    PROVE  Files!Effect(n, inodes'[i].size)
  <1>1. IInv /\ TypeOK
    BY DEF CInv, BInv, IInv
  <1>2. /\ call.fd \in fd_used /\ fd_tab[call.fd].inum = i
        /\ RunningWrite.fd = call.fd /\ RunningWrite.buf = call.buf
        /\ RunningWrite.done = call.done
    BY <1>1 DEF IInv, CallInFile, RunningWrite
  <1>3. /\ OpenCursors[call.fd].file = i /\ OpenCursors[call.fd].pos = pos
        /\ pos \in Nat /\ pos <= inodes[i].size
    BY <1>1, <1>2, CursorsAre
  <1> DEFINE old == FileContents[i]
             len == inodes'[i].size
             new == Files!Overlay(old, pos, n, len)
  <1>4. /\ Len(old) = inodes[i].size /\ inodes[i].size \in Nat /\ len \in Nat
        /\ old = [k \in 1 .. inodes[i].size |-> CellIn(mem, inodes[i], k - 1)]
        /\ FileContents'[i] = [k \in 1 .. len |-> CellIn(mem', inodes'[i], k - 1)]
    BY <1>1, ContentIs
  <1> HIDE DEF old
  <1>5. FileContents'[i] = new
    <2> DEFINE cell(k) == IF pos < k /\ k <= pos + n THEN call.buf[k - pos] ELSE old[k]
    <2>1. new = [k \in 1 .. len |-> cell(k)]
      BY <1>2 DEF Files!Overlay
    <2>2. ASSUME NEW k \in 1 .. len PROVE CellIn(mem', inodes'[i], k - 1) = cell(k)
      <3>1. CASE pos < k /\ k <= pos + n
        <4>1. k - pos \in 1 .. n /\ pos + (k - pos) - 1 = k - 1
          BY <1>3, <1>4, <3>1
        <4>2. CellIn(mem', inodes'[i], pos + (k - pos) - 1) = call.buf[k - pos]
          BY <4>1
        <4> QED BY <3>1, <4>1, <4>2
      <3>2. CASE ~(pos < k /\ k <= pos + n)
        <4>1. /\ k \in 1 .. inodes[i].size /\ k - 1 \in Nat /\ k - 1 < inodes[i].size
              /\ k - 1 < pos \/ pos + n <= k - 1
          BY <1>3, <1>4, <3>2, SMTT(30)
        <4>2. CellIn(mem', inodes'[i], k - 1) = CellIn(mem, inodes[i], k - 1)
          BY <4>1
        <4>3. old[k] = CellIn(mem, inodes[i], k - 1)
          BY <1>4, <4>1
        <4> QED BY <3>2, <4>2, <4>3
      <3> QED BY <3>1, <3>2
    <2> HIDE DEF cell, new, len
    <2> QED BY <1>4, <2>1, <2>2
  <1>6. ASSUME NEW j \in Inodes, j # i PROVE FileContents'[j] = FileContents[j]
    <2>1. /\ inodes[j].size \in Nat
          /\ FileContents[j] = [k \in 1 .. inodes[j].size |-> CellIn(mem, inodes[j], k - 1)]
          /\ FileContents'[j] = [k \in 1 .. inodes'[j].size |-> CellIn(mem', inodes'[j], k - 1)]
      BY <1>1, ContentIs
    <2>2. ASSUME NEW k \in 1 .. inodes[j].size
          PROVE  CellIn(mem', inodes'[j], k - 1) = CellIn(mem, inodes[j], k - 1)
      <3>1. k - 1 \in Nat /\ k - 1 < inodes[j].size
        BY <2>1
      <3> QED BY <1>6, <3>1
    <2> QED BY <1>6, <2>1, <2>2
  <1> HIDE DEF new, len
  <1>7. FileContents' = [FileContents EXCEPT ![i] = new]
    <2> DEFINE C == [j \in Inodes |-> Content(inodes[j])]
               D == [j \in Inodes |-> Content(inodes[j])']
    <2>1. FileContents = C /\ FileContents' = D
      BY DEF FileContents
    <2>2. DOMAIN C = Inodes /\ DOMAIN D = Inodes /\ C = [j \in Inodes |-> C[j]]
          /\ D = [j \in Inodes |-> D[j]]
      OBVIOUS
    <2> HIDE DEF C, D
    <2> QED BY <1>5, <1>6, <2>1, <2>2
  <1>8. Len(old) <= len /\ (len <= Len(old) \/ len <= pos + n)
    BY <1>4 DEF len
  <1> QED BY <1>2, <1>3, <1>7, <1>8 DEF Files!Effect, old, new, len

\* A step of a running call that changes no cell but those it writes.
LEMMA ProgressIs ==
    ASSUME CInv, CInv', call.pc # "idle", call'.pc # "idle",
           call'.fd = call.fd, call'.buf = call.buf, call'.lfd.inum = call.lfd.inum,
           call.done <= call'.done, mounted, InCall,
           NEW i \in Inodes, i = call.lfd.inum,
           inodes'[i].size \in {inodes[i].size, call.ino.size},
           \A j \in Inodes : j # i => inodes'[j] = inodes[j],
           \A j \in Inodes, o \in Nat :
              /\ o < inodes[j].size
              /\ j = i => o < call.cursor - call.done
                          \/ call.cursor - call.done + call'.done <= o
              => CellIn(mem', inodes'[j], o) = CellIn(mem, inodes[j], o)
    PROVE  Files!Progress
  <1> DEFINE pos == fd_cursor_get(fd_tab[call.fd])
             n == call'.done
             size == inodes[i].size
             len == inodes'[i].size
             buf == call.buf
  <1>1. /\ IInv /\ IInv' /\ TypeOK /\ TypeOK' /\ StoredInv' /\ fd_tab' = fd_tab
        /\ fd_used' = fd_used
    BY DEF CInv, BInv, IInv, InCall, table
  <1>2. /\ call.cursor = pos + call.done /\ call.ino.size \in {size, call.cursor}
        /\ call'.cursor = pos + n
        /\ \A k \in 1 .. n : CellIn(mem', call'.ino, pos + k - 1) = buf[k]
    BY <1>1 DEF CInv, WriteInv
  <1>3. /\ call.done \in Nat /\ n \in Nat /\ n <= Len(buf) /\ Len(buf) \in Nat
        /\ size \in Nat /\ len \in Nat /\ size <= call.ino.size
        /\ pos \in Nat /\ pos <= size
    <2>1. call.done \in Nat /\ Len(buf) \in Nat /\ call'.done \in Nat /\ n <= Len(buf)
      BY <1>1, Locals DEF TypeOK, Call, IInv, CallInFile
    <2>2. size \in Nat /\ len \in Nat /\ size <= call.ino.size
      BY <1>1, ContentIs DEF IInv, CallInFile
    <2>3. pos \in Nat /\ pos <= size
      <3>1. call.fd \in fd_used /\ fd_tab[call.fd].inum = i
        BY <1>1 DEF IInv, CallInFile
      <3> QED BY <1>1, <3>1, CursorsAre
    <2> QED BY <2>1, <2>2, <2>3
  <1>4. mounted /\ RunningWrite # Files!NoWrite
    BY <1>1, CursorsAre
  <1>5. \A k \in 1 .. n : CellIn(mem', inodes'[i], pos + k - 1) = buf[k]
    <2>1. \A m, k : DataIn(m, inodes'[i], k) = DataIn(m, LiveInode(i)', k)
      BY <1>1, StoredIsLive
    <2>2. LiveInode(i)' = call'.ino
      BY DEF LiveInode, Running
    <2>3. \A o : CellIn(mem', inodes'[i], o) = CellIn(mem', call'.ino, o)
      BY <2>1, <2>2 DEF CellIn
    <2> QED BY <1>2, <2>3
  <1> HIDE DEF pos, n, size, len, buf
  <1>6. size <= len /\ (len <= size \/ len <= pos + n) /\ len \in size .. size + Len(buf)
    <2>1. len \in {size, call.cursor}
      BY <1>2 DEF len, size
    <2>2. call.cursor = pos + call.done /\ call.done <= n
      BY <1>2 DEF n
    <2>3. len = size \/ len = call.ino.size
      BY DEF len, size
    <2> QED BY <1>3, <2>1, <2>2, <2>3
  <1>7. Files!Effect(n, len)
    <2>1. ASSUME NEW j \in Inodes, NEW o \in Nat,
                 o < inodes[j].size, j = i => o < pos \/ pos + n <= o
          PROVE  CellIn(mem', inodes'[j], o) = CellIn(mem, inodes[j], o)
      <3>1. call.cursor - call.done = pos
        BY <1>2, <1>3
      <3> QED BY <2>1, <3>1 DEF n
    <2>2. /\ call.done <= n /\ n <= Len(call.buf) /\ n \in Nat
          /\ inodes[i].size <= inodes'[i].size
          /\ inodes'[i].size <= inodes[i].size \/ inodes'[i].size <= pos + n
          /\ \A k \in 1 .. n : CellIn(mem', inodes'[i], pos + k - 1) = call.buf[k]
      BY <1>3, <1>5, <1>6 DEF size, len, buf, n
    <2>3. pos = fd_cursor_get(fd_tab[call.fd])
      BY DEF pos
    <2> QED BY <1>1, <2>1, <2>2, <2>3, EffectIs DEF len
  <1>8. /\ RunningWrite = [fd |-> call.fd, buf |-> buf, done |-> call.done]
        /\ RunningWrite' = [fd |-> call.fd, buf |-> buf, done |-> n]
    BY DEF RunningWrite, n, buf
  <1>9. RunningWrite' = [RunningWrite EXCEPT !.done = n] /\ n \in RunningWrite.done .. Len(buf)
    BY <1>3, <1>8 DEF n
  <1>10. Files!Size(RunningWrite.fd) = size /\ RunningWrite.buf = buf
    <2>1. call.fd \in fd_used /\ fd_tab[call.fd].inum = i
      BY <1>1 DEF IInv, CallInFile
    <2> QED BY <1>1, <1>8, <2>1, CursorsAre DEF size
  <1>11. OpenCursors' = OpenCursors /\ mounted' = mounted /\ res' = res
    BY <1>1, SeenStays DEF InCall
  <1> QED BY <1>4, <1>6, <1>7, <1>9, <1>10, <1>11 DEF Files!Progress

LEMMA AddsRefine ==
    ASSUME CInv, CInv', AddsBlock PROVE Files!Progress
  <1>1. BInv /\ IInv /\ TreeInv /\ StoredInv /\ StoredInv' /\ inodes \in [Inodes -> Inode]
    BY DEF CInv, BInv, IInv, TypeOK
  <1>2. /\ call.pc # "idle" /\ call'.pc # "idle"
        /\ call'.fd = call.fd /\ call'.buf = call.buf /\ call'.done = call.done
        /\ call'.lfd = call.lfd /\ call'.ino.size = call.ino.size
        /\ \A j \in Inodes : \/ inodes'[j] = inodes[j]
                             \/ j = call.lfd.inum /\ inodes'[j] = call'.ino
        /\ mounted /\ InCall /\ call.done \in Nat
    BY <1>1, AddsFields, Locals
  <1>3. PICK i \in Inodes : i = call.lfd.inum
    BY <1>1, <1>2, Locals
  <1>4. ASSUME NEW j \in Inodes, NEW o \in Nat, o < inodes[j].size
        PROVE  CellIn(mem', inodes'[j], o) = CellIn(mem, inodes[j], o)
    <2>1. o \div BlockSize \in Nat /\ o \div BlockSize < LiveBlocks(j)
      BY <1>1, <1>4, StoredInTree
    <2>2. SameData(j, o \div BlockSize)
      BY <1>1, <2>1, AddsKeepData
    <2> QED BY <1>1, <2>2, StoredKept
  <1>5. inodes'[i].size \in {inodes[i].size, call.ino.size}
    BY <1>2, <1>3
  <1>6. call.done <= call'.done
    BY <1>2
  <1> QED BY <1>2, <1>3, <1>4, <1>5, <1>6, ProgressIs

LEMMA ChunkRefines ==
    ASSUME CInv, CInv', WriteChunk PROVE Files!Progress
  <1>1. BInv /\ IInv /\ TreeInv /\ StoredInv /\ StoredInv' /\ inodes \in [Inodes -> Inode]
    BY DEF CInv, BInv, IInv, TypeOK
  <1>2. PICK n \in Nat :
          /\ WritesCells(n)
          /\ call'.done = call.done + n
          /\ call.pc # "idle" /\ call'.pc # "idle"
          /\ call'.fd = call.fd /\ call'.buf = call.buf
          /\ call'.lfd.inum = call.lfd.inum /\ inodes' = inodes /\ mounted /\ InCall
    BY <1>1, ChunkCells
  <1>3. PICK i \in Inodes : i = call.lfd.inum
    BY <1>1, <1>2, Locals
  <1>4. call.done \in Nat /\ call.cursor \in Nat /\ call.done <= call'.done
    BY <1>1, <1>2, Locals
  <1>5. ASSUME NEW j \in Inodes, NEW o \in Nat, o < inodes[j].size,
               j = i => o < call.cursor - call.done
                        \/ call.cursor - call.done + call'.done <= o
        PROVE  CellIn(mem', inodes'[j], o) = CellIn(mem, inodes[j], o)
    <2>1. o \div BlockSize < LiveBlocks(j)
      BY <1>1, <1>5, StoredInTree
    <2>2. j = i => o < call.cursor \/ call.cursor + n <= o
      BY <1>2, <1>4, <1>5
    <2>3. CellIn(mem', LiveInode(j)', o) = CellIn(mem, LiveInode(j), o)
      BY <1>2, <1>3, <2>1, <2>2 DEF WritesCells
    <2>4. /\ CellIn(mem, inodes[j], o) = CellIn(mem, LiveInode(j), o)
          /\ CellIn(mem', inodes'[j], o) = CellIn(mem', LiveInode(j)', o)
      BY <1>1, StoredIsLive DEF CellIn
    <2> QED BY <2>3, <2>4
  <1>6. inodes'[i].size \in {inodes[i].size, call.ino.size}
    BY <1>2
  <1>7. \A j \in Inodes : j # i => inodes'[j] = inodes[j]
    BY <1>2
  <1> QED BY <1>2, <1>3, <1>4, <1>5, <1>6, <1>7, ProgressIs

\* fs_write returns: all it wrote shows, and the cursor is behind it.
LEMMA FinishRefines ==
    ASSUME CInv, IInv', Finish PROVE Files!EndWrite
  <1>1. IInv /\ TypeOK /\ TypeOK' /\ StoredInv /\ call.pc # "idle" /\ mounted
    BY DEF CInv, BInv, IInv, Finish, At
  <1>2. /\ fd_tab' = [fd_tab EXCEPT ![call.fd] = call.lfd] /\ fd_used' = fd_used
        /\ inodes' = [inodes EXCEPT ![call.lfd.inum] = call.ino]
        /\ call' = Idle /\ mem' = mem /\ mounted' = mounted
        /\ res' = Result(call.done, <<>>)
    BY DEF Finish, StoreInode
  <1>3. PICK i \in Inodes : i = call.lfd.inum /\ inodes'[i] = call.ino
                            /\ \A j \in Inodes : j # i => inodes'[j] = inodes[j]
    <2>1. call.lfd.inum \in Inodes /\ inodes \in [Inodes -> Inode]
      BY <1>1, Locals DEF TypeOK
    <2> QED BY <1>2, <2>1
  <1> DEFINE pos == fd_cursor_get(fd_tab[call.fd])
             size == inodes[i].size
             len == call.ino.size
             end == pos + call.done
  <1>4. /\ call.cursor = end /\ len \in {size, end}
        /\ \A k \in 1 .. call.done : CellIn(mem, call.ino, pos + k - 1) = call.buf[k]
    BY <1>1, <1>3 DEF CInv, WriteInv
  <1>5. /\ call.fd \in fd_used /\ fd_tab[call.fd].inum = i /\ call.lfd.inum = i
        /\ fd_cursor_get(call.lfd) = end /\ end <= len /\ size <= len
        /\ call.done <= Len(call.buf)
    BY <1>1, <1>3, <1>4 DEF IInv, CallInFile
  <1>6. /\ pos \in Nat /\ size \in Nat /\ call.done \in Nat /\ len \in Nat
        /\ Files!Size(call.fd) = size /\ OpenCursors[call.fd].pos = pos
        /\ RunningWrite # Files!NoWrite
        /\ RunningWrite.fd = call.fd /\ RunningWrite.done = call.done
    <2>1. pos \in Nat /\ OpenCursors[call.fd].pos = pos /\ Files!Size(call.fd) = size
          /\ RunningWrite # Files!NoWrite
      BY <1>1, <1>5, CursorsAre
    <2>2. RunningWrite.fd = call.fd /\ RunningWrite.done = call.done
      BY <1>1 DEF RunningWrite
    <2> QED BY <1>1, <2>1, <2>2, Locals, ContentIs
  <1>7. \A m, k : DataIn(m, inodes[i], k) = DataIn(m, call.ino, k)
    <2>1. LiveInode(i) = call.ino
      BY <1>1, <1>3 DEF LiveInode, Running
    <2> QED BY <1>1, <2>1, StoredIsLive
  <1>8. \A o : CellIn(mem', inodes'[i], o) = CellIn(mem, call.ino, o)
               /\ CellIn(mem, inodes[i], o) = CellIn(mem, call.ino, o)
    BY <1>2, <1>3, <1>7 DEF CellIn
  <1>9. Files!Effect(call.done, len)
    <2>1. ASSUME NEW j \in Inodes, NEW o \in Nat
          PROVE  CellIn(mem', inodes'[j], o) = CellIn(mem, inodes[j], o)
      <3>1. CASE j = i
        BY <1>8, <3>1
      <3>2. CASE j # i
        BY <1>2, <1>3, <3>2 DEF CellIn, DataIn
      <3> QED BY <3>1, <3>2
    <2>2. /\ call.done <= call.done /\ size <= len /\ (len <= size \/ len <= pos + call.done)
      BY <1>4, <1>5, <1>6
    <2>3. \A k \in 1 .. call.done : CellIn(mem', inodes'[i], pos + k - 1) = call.buf[k]
      BY <1>4, <1>8
    <2>4. inodes'[i].size = len
      BY <1>3
    <2> HIDE DEF pos, size, len
    <2>5. pos = fd_cursor_get(fd_tab[call.fd]) /\ size = inodes[i].size
      BY DEF pos, size
    <2> QED BY <1>1, <1>3, <1>5, <1>6, <2>1, <2>2, <2>3, <2>4, <2>5, EffectIs, SMTT(30)
  <1>10. len = IF end > size THEN end ELSE size
    <2> HIDE DEF len, size, pos
    <2> QED BY <1>4, <1>5, <1>6
  <1>11. OpenCursors' = [OpenCursors EXCEPT ![call.fd].pos = end]
    <2>1. call.lfd.inum = fd_tab[call.fd].inum /\ fd_cursor_get(call.lfd) = end
      BY <1>5
    <2> HIDE DEF end, pos, size, len
    <2> QED BY <1>1, <1>2, <1>5, <2>1, CursorMoves
  <1>12. RunningWrite' = Files!NoWrite /\ res' = Files!Result(call.done, <<>>)
    BY <1>2, IdleFields DEF RunningWrite, Files!NoWrite, Result, Files!Result
  <1> HIDE DEF len, size, pos
  <1> QED BY <1>1, <1>2, <1>6, <1>9, <1>10, <1>11, <1>12 DEF Files!EndWrite

LEMMA InitRefines == Init => Files!Init
  <1> SUFFICES ASSUME Init PROVE Files!Init
    OBVIOUS
  <1>1. FileContents = [i \in Inodes |-> <<>>]
    <2>1. ASSUME NEW i \in Inodes PROVE Content(inodes[i]) = <<>>
      <3>1. inodes[i].size = 0
        BY DEF Init, NewInode
      <3> QED BY <3>1 DEF Content
    <2> QED BY <2>1 DEF FileContents
  <1>2. OpenCursors = [d \in Fds |-> Files!Closed]
    BY DEF Init, OpenCursors, Files!Closed
  <1>3. RunningWrite = Files!NoWrite
    BY IdleFields DEF Init, RunningWrite, Files!NoWrite
  <1> QED BY <1>1, <1>2, <1>3 DEF Init, NoResult, Result, Files!Init, Files!Result

LEMMA StepRefines ==
    ASSUME CInv, CInv', [Next]_vars PROVE [Files!Next]_(Files!fvars)
  <1>0. IInv /\ IInv'
    BY DEF CInv, BInv
  <1>1. CASE CallStart
    BY <1>0, <1>1, OpenRefines, CloseRefines, SeekRefines, ReadRefines, WriteRefines, BadRefines
       DEF CallStart, DescriptorCall
  <1>2. CASE AllocData \/ DeviceFull \/ AddBlockStep \/ WriteChunk
    <2>1. Files!Progress
      BY <1>2, AddsRefine, ChunkRefines DEF AddsBlock
    <2> QED BY <2>1 DEF Files!Next
  <1>3. CASE Finish
    <2>1. Files!EndWrite
      BY <1>0, <1>3, FinishRefines
    <2> QED BY <2>1 DEF Files!Next
  <1>4. CASE fs_unmount \/ Crash \/ fs_mount
    BY <1>0, <1>4, MountsRefine
  <1>5. CASE directory_takes_block \/ directory_gives_back \/ UNCHANGED vars
    <2>1. UNCHANGED <<mem, inodes, fd_used, fd_tab, call, mounted, res>>
      BY <1>5 DEF directory_takes_block, directory_gives_back, table, vars
    <2> QED BY <2>1, SeenStays DEF Files!fvars
  <1> QED BY <1>1, <1>2, <1>3, <1>4, <1>5 DEF Next, WriteStep

(* The data path implements FileStore: through any tree of blocks, for any *)
(* size of block and number of direct pointers, files are sequences of     *)
(* cells, a read returns what was written, a write that the process does   *)
(* not survive has written a prefix, and nobody's writes show elsewhere.   *)
THEOREM DataImplementsFiles == Spec => ImplementsFileStore
  <1>1. CInv /\ CInv' /\ [Next]_vars => [Files!Next]_(Files!fvars)
    BY StepRefines
  <1> QED BY <1>1, InitRefines, ContentInvariance, PTL DEF Spec, ImplementsFileStore, Files!Spec
=============================================================================
