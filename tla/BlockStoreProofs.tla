-------------------------- MODULE BlockStoreProofs --------------------------
(***************************************************************************)
(* Proofs about BlockStore: for any size of the store, any place of the    *)
(* map and any width of a byte, the map never loses the bits that mark its *)
(* own blocks in use, and the memory, seen through it, is a BlockPool.     *)
(***************************************************************************)
EXTENDS BlockStore, BitmapProofs

-----------------------------------------------------------------------------
(* What each operation on the memory does to the bits of the map's blocks. *)

Sound(m)    == IsMemory(m) /\ MapMarked(m)

LEMMA NewStoreSound == Sound(NewStore)
  <1>1. ByteBits \in Nat /\ ByteBits > 0
    BY ByteAssumption
  <1>2. ASSUME NEW f \in FbmBlocks PROVE bitmap_test(fbm, NewStore, f)
    <2>1. f \in Blocks /\ f \in Nat
      BY LayoutAssumption DEF FbmBlocks, Blocks
    <2>2. Address(fbm, f) \in Addresses
      BY <2>1, MapByte
    <2>3. f % ByteBits \in Byte
      BY <1>1, <2>1, Division DEF Byte
    <2> QED BY <2>2, <2>3 DEF NewStore, bitmap_test
  <1> QED BY <1>2 DEF Sound, IsMemory, MapMarked, NewStore

LEMMA SetSound ==
    ASSUME NEW m, Sound(m), NEW b PROVE Sound(bitmap_set(fbm, m, b))
  <1> DEFINE n == bitmap_set(fbm, m, b)
  <1>1. IsMemory(n)
    BY DEF Sound, IsMemory, bitmap_set
  <1>2. ASSUME NEW f \in FbmBlocks PROVE bitmap_test(fbm, n, f)
    <2>1. Address(fbm, f) \in Addresses
      BY MapByte DEF FbmBlocks
    <2>2. f % ByteBits \in m[Address(fbm, f)]
      BY DEF Sound, MapMarked, bitmap_test
    <2> QED BY <2>1, <2>2 DEF Sound, IsMemory, bitmap_set, bitmap_test
  <1> QED BY <1>1, <1>2 DEF Sound, MapMarked

\* The bit of a block that is not the map's is none of the bits that mark it.
LEMMA ResetSound ==
    ASSUME NEW m, Sound(m), NEW b \in Nat \ FbmBlocks
    PROVE  Sound(bitmap_reset(fbm, m, b))
  <1> DEFINE n == bitmap_reset(fbm, m, b)
  <1>1. IsMemory(n)
    BY DEF Sound, IsMemory, bitmap_reset
  <1>2. ASSUME NEW f \in FbmBlocks PROVE bitmap_test(fbm, n, f)
    <2>1. f \in Blocks /\ f \in Nat /\ f # b
      BY LayoutAssumption DEF FbmBlocks, Blocks
    <2>2. Address(fbm, f) \in Addresses
      BY <2>1, MapByte
    <2>3. f % ByteBits \in m[Address(fbm, f)]
      BY DEF Sound, MapMarked, bitmap_test
    <2>4. CASE Address(fbm, f) # Address(fbm, b)
      BY <2>2, <2>3, <2>4 DEF Sound, IsMemory, bitmap_reset, bitmap_test
    <2>5. CASE Address(fbm, f) = Address(fbm, b)
      <3>1. /\ ByteBits \in Nat /\ ByteBits > 0
            /\ FbmStart \in Nat /\ BlockBytes \in Nat
        BY ByteAssumption, LayoutAssumption DEF Blocks
      <3>2. fbm.data = FbmStart * BlockBytes
        BY DEF fbm, bitmap_overlay, bitmap_initialize
      <3>3. f \div ByteBits = b \div ByteBits
        <4>1. f \div ByteBits \in Nat /\ b \div ByteBits \in Nat
          BY <2>1, <3>1, Division
        <4>2. fbm.data \in Int
          BY <3>1, <3>2
        <4> QED BY <2>5, <4>1, <4>2 DEF Address
      <3>4. f % ByteBits # b % ByteBits
        BY <2>1, <3>3, BitIsPlace
      <3> QED BY <2>2, <2>3, <2>5, <3>4 DEF Sound, IsMemory, bitmap_reset, bitmap_test
    <2> QED BY <2>4, <2>5
  <1> QED BY <1>1, <1>2 DEF Sound, MapMarked

\* A block that is in use and not the map's has no byte of a mark.
LEMMA WriteSound ==
    ASSUME NEW m, Sound(m), NEW b \in UsedOf(m), NEW buffer
    PROVE  Sound(WriteBlock(m, b, buffer))
  <1> DEFINE n == WriteBlock(m, b, buffer)
  <1>1. IsMemory(n)
    BY DEF IsMemory, WriteBlock
  <1>2. ASSUME NEW f \in FbmBlocks PROVE bitmap_test(fbm, n, f)
    <2>1. /\ Address(fbm, f) \in Addresses
          /\ Address(fbm, f) \div BlockBytes \in FbmBlocks
      BY MapByte DEF FbmBlocks
    <2>2. Address(fbm, f) \div BlockBytes # b
      BY <2>1 DEF UsedOf, Usable
    <2>3. f % ByteBits \in m[Address(fbm, f)]
      BY DEF Sound, MapMarked, bitmap_test
    <2> QED BY <2>1, <2>2, <2>3 DEF WriteBlock, bitmap_test
  <1> QED BY <1>1, <1>2 DEF Sound, MapMarked

-----------------------------------------------------------------------------
(* The invariant.                                                          *)

IInv ==
    /\ up => Sound(mem)
    /\ file.ok => Sound(file.mem)

LEMMA InitInv == Init => IInv
  BY DEF Init, IInv, Damaged

LEMMA NextInv == ASSUME IInv, Next PROVE IInv'
  <1>1. CASE UNCHANGED file /\ up' = up /\ (up => Sound(mem'))
    BY <1>1 DEF IInv
  <1>2. CASE block_store_create
    BY <1>2, NewStoreSound DEF block_store_create, IInv
  <1>3. CASE block_store_destroy
    BY <1>3 DEF block_store_destroy, IInv
  <1>4. CASE block_store_allocate
    <2>1. up /\ Sound(mem) /\ UNCHANGED <<up, file>>
      BY <1>4 DEF block_store_allocate, Ready, IInv
    <2>2. Sound(mem')
      BY <1>4, <2>1, SetSound DEF block_store_allocate
    <2> QED BY <1>1, <2>1, <2>2
  <1>5. ASSUME NEW b \in Ids, block_store_request(b) PROVE IInv'
    <2>1. up /\ Sound(mem) /\ UNCHANGED <<up, file>>
      BY <1>5 DEF block_store_request, Ready, IInv
    <2>2. Sound(mem')
      BY <1>5, <2>1, SetSound DEF block_store_request
    <2> QED BY <1>1, <2>1, <2>2
  <1>6. ASSUME NEW b \in Ids, block_store_release(b) PROVE IInv'
    <2>1. up /\ Sound(mem) /\ UNCHANGED <<up, file>> /\ b \in Nat \ FbmBlocks
      BY <1>6, CallerAssumption DEF block_store_release, Ready, IInv
    <2>2. Sound(mem')
      BY <1>6, <2>1, ResetSound DEF block_store_release
    <2> QED BY <1>1, <2>1, <2>2
  <1>7. ASSUME NEW b \in Ids, NEW buffer \in Buffers, block_store_write(b, buffer)
        PROVE  IInv'
    <2>1. up /\ Sound(mem) /\ UNCHANGED <<up, file>>
      BY <1>7 DEF block_store_write, Ready, IInv
    <2>2. Sound(mem')
      BY <1>7, <2>1, WriteSound DEF block_store_write
    <2> QED BY <1>1, <2>1, <2>2
  <1>8. ASSUME NEW b \in Ids, block_store_read(b) PROVE IInv'
    BY <1>1, <1>8 DEF block_store_read, IInv
  <1>9. CASE block_store_get_used_blocks \/ block_store_get_free_blocks
    BY <1>1, <1>9 DEF block_store_get_used_blocks, block_store_get_free_blocks, IInv
  <1>10. CASE block_store_serialize
    BY <1>10 DEF block_store_serialize, Damaged, IInv
  <1>11. CASE SerializeWrites
    <2>1. file' = [ok |-> TRUE, mem |-> mem] \/ file' = file
      BY <1>11 DEF SerializeWrites
    <2>2. up /\ Sound(mem) /\ UNCHANGED <<up, mem>>
      BY <1>11 DEF SerializeWrites, IInv
    <2>3. file'.ok => file'.mem = mem \/ (file.ok /\ file'.mem = file.mem)
      BY <2>1
    <2>4. file'.ok => Sound(file'.mem)
      BY <2>2, <2>3 DEF IInv
    <2> QED BY <2>2, <2>4 DEF IInv
  <1>12. CASE block_store_deserialize
    <2>1. file' = file
      BY <1>12 DEF block_store_deserialize
    <2>2. CASE file.ok /\ mem' = file.mem
      BY <2>1, <2>2 DEF IInv
    <2>3. CASE ~up /\ up' = up
      BY <2>1, <2>3 DEF IInv
    <2> QED BY <1>12, <2>2, <2>3 DEF block_store_deserialize
  <1> QED BY <1>2, <1>3, <1>4, <1>5, <1>6, <1>7, <1>8, <1>9, <1>10, <1>11, <1>12
          DEF Next

(* Whatever callers do with blocks that are not the map's, and whatever    *)
(* image is saved and loaded, the blocks of the map are marked in use.     *)
THEOREM MapStaysMarked == Spec => []MapNeverFree
  <1>1. IInv /\ UNCHANGED vars => IInv'
    BY DEF IInv, vars, Sound, IsMemory, MapMarked, bitmap_test
  <1>2. IInv => MapNeverFree
    BY DEF IInv, Sound, MapNeverFree
  <1> QED BY InitInv, NextInv, <1>1, <1>2, PTL DEF Spec

-----------------------------------------------------------------------------
(* The refinement.                                                         *)

\* While the file is truncated there is no image, and a file that is none
\* looks like an empty one.
ImageInv ==
    /\ IsMemory(mem)
    /\ file.ok \in BOOLEAN /\ file = [ok |-> file.ok, mem |-> file.mem]
    /\ ~file.ok => file = Damaged
    /\ saving => ~file.ok

RInv == IInv /\ ImageInv

LEMMA InitRInv == Init => RInv
  BY InitInv, ZerosAre DEF Init, RInv, ImageInv, Damaged

LEMMA NextImageInv == ASSUME RInv, Next PROVE ImageInv'
  <1>1. ASSUME NEW b PROVE IsMemory(bitmap_set(fbm, mem, b)) /\ IsMemory(bitmap_reset(fbm, mem, b))
    BY DEF RInv, ImageInv, IsMemory, bitmap_set, bitmap_reset
  <1>2. ASSUME NEW b, NEW buffer PROVE IsMemory(WriteBlock(mem, b, buffer))
    BY DEF IsMemory, WriteBlock
  <1>3. CASE UNCHANGED <<file, saving>> /\ IsMemory(mem')
    BY <1>3 DEF RInv, ImageInv
  <1>4. CASE UNCHANGED <<file, saving, mem>>
    BY <1>3, <1>4 DEF RInv, ImageInv
  <1>5. CASE block_store_create
    BY <1>3, <1>5, NewStoreSound DEF block_store_create, Sound
  <1>6. CASE block_store_destroy
    BY <1>6, ZerosAre DEF block_store_destroy, RInv, ImageInv
  <1>7. CASE block_store_allocate
    BY <1>1, <1>3, <1>4, <1>7 DEF block_store_allocate
  <1>8. ASSUME NEW b \in Ids, block_store_request(b) \/ block_store_release(b) PROVE ImageInv'
    <2>1. mem' \in {mem, bitmap_set(fbm, mem, b), bitmap_reset(fbm, mem, b)}
      BY <1>8 DEF block_store_request, block_store_release
    <2>2. UNCHANGED <<file, saving>>
      BY <1>8 DEF block_store_request, block_store_release
    <2> QED BY <1>1, <1>3, <1>4, <2>1, <2>2
  <1>9. ASSUME NEW b \in Ids, NEW buffer \in Buffers, block_store_write(b, buffer)
        PROVE  ImageInv'
    BY <1>2, <1>3, <1>4, <1>9 DEF block_store_write
  <1>10. CASE block_store_serialize
    BY <1>10 DEF block_store_serialize, Damaged, RInv, ImageInv
  <1>11. CASE SerializeWrites
    <2>1. UNCHANGED mem /\ ~saving' /\ (file' = [ok |-> TRUE, mem |-> mem] \/ file' = file)
      BY <1>11 DEF SerializeWrites
    <2>2. CASE file' = [ok |-> TRUE, mem |-> mem]
      <3>1. file'.ok = TRUE /\ file'.mem = mem
        BY <2>2
      <3> QED BY <2>1, <2>2, <3>1 DEF RInv, ImageInv
    <2>3. CASE file' = file
      BY <2>1, <2>3 DEF RInv, ImageInv
    <2> QED BY <2>1, <2>2, <2>3
  <1>12. CASE block_store_deserialize
    BY <1>3, <1>4, <1>12 DEF block_store_deserialize, RInv, IInv, Sound
  <1>13. Next => \/ UNCHANGED <<file, saving, mem>> \/ block_store_create
                 \/ block_store_destroy \/ block_store_allocate
                 \/ \E b \in Ids : \/ block_store_request(b) \/ block_store_release(b)
                                   \/ \E buffer \in Buffers : block_store_write(b, buffer)
                 \/ block_store_serialize \/ SerializeWrites \/ block_store_deserialize
    BY DEF Next, block_store_read, block_store_get_used_blocks, block_store_get_free_blocks
  <1> QED BY <1>4, <1>5, <1>6, <1>7, <1>8, <1>9, <1>10, <1>11, <1>12, <1>13

\* The blocks callers can be handed, and the bits of a marked map.
LEMMA AllBlocksHaveBits ==
    /\ Indices(fbm) = Blocks /\ Usable = Blocks \ FbmBlocks
    /\ FbmBlocks \subseteq Blocks
    /\ \A b \in Nat : InRange(b) <=> b \in Blocks
    /\ \A m : MapMarked(m) => SetBits(fbm, m) = UsedOf(m) \cup FbmBlocks
  <1>1. Indices(fbm) = Blocks
    BY Layout, CallerAssumption DEF Indices, Blocks
  <1>2. Usable = Blocks \ FbmBlocks /\ FbmBlocks \subseteq Blocks
    BY <1>1 DEF Usable, FbmBlocks
  <1>3. \A b \in Nat : InRange(b) <=> b \in Blocks
    BY Layout DEF InRange, Blocks
  <1>4. \A m : MapMarked(m) => SetBits(fbm, m) = UsedOf(m) \cup FbmBlocks
    BY <1>1, <1>2 DEF MapMarked, UsedOf, SetBits
  <1> QED BY <1>1, <1>2, <1>3, <1>4

\* A new store has no block handed out and is all zeros.
LEMMA NewStoreIsEmpty ==
    /\ UsedOf(NewStore) = {}
    /\ ContentOf(NewStore) = [b \in Usable |-> {}]
  <1>1. ASSUME NEW b \in Usable PROVE ~ bitmap_test(fbm, NewStore, b)
    <2> SUFFICES ASSUME bitmap_test(fbm, NewStore, b) PROVE FALSE
      OBVIOUS
    <2>1. b \in Blocks /\ b \in Indices(fbm) /\ b \notin FbmBlocks
      BY Layout DEF Usable
    <2>2. Address(fbm, b) \in Addresses
      BY <2>1, MapByte
    <2>3. PICK f \in FbmBlocks : Address(fbm, f) = Address(fbm, b) /\ f % ByteBits = b % ByteBits
      BY <2>2 DEF bitmap_test, NewStore
    <2>4. f \in Indices(fbm) /\ f # b
      BY <2>1, <2>3, AllBlocksHaveBits
    <2> QED BY <2>1, <2>3, <2>4, FbmIsBitmap, OtherPlace
  <1>2. \A a \in Addresses : a \div BlockBytes \notin FbmBlocks => NewStore[a] = Zeros[a]
    <2> SUFFICES ASSUME NEW a \in Addresses, a \div BlockBytes \notin FbmBlocks
                 PROVE  NewStore[a] = {}
      BY DEF Zeros, None
    <2>1. \A f \in FbmBlocks : Address(fbm, f) # a
      BY MapByte, AllBlocksHaveBits
    <2> QED BY <2>1 DEF NewStore
  <1>3. ContentOf(NewStore) = ContentOf(Zeros)
    BY <1>2, DataKept
  <1> QED BY <1>1, <1>3, ZerosAre DEF UsedOf, SetBits

\* What block_store_get_used_blocks and block_store_get_free_blocks return.
LEMMA Counts ==
    ASSUME RInv, up
    PROVE  /\ bitmap_total_set(fbm, mem) = Cardinality(UsedOf(mem)) + Cardinality(FbmBlocks)
           /\ fbm.bit_count - bitmap_total_set(fbm, mem) = Cardinality(Usable \ UsedOf(mem))
  <1> DEFINE S == SetBits(fbm, mem)
             U == UsedOf(mem)
             F == FbmBlocks
             I == Indices(fbm)
  <1>1. S = U \cup F /\ U \cap F = {} /\ Usable \ U = I \ S
    BY AllBlocksHaveBits DEF RInv, IInv, Sound, UsedOf, Usable
  <1>2. /\ IsFiniteSet(S) /\ IsFiniteSet(F) /\ IsFiniteSet(I) /\ IsFiniteSet(U)
        /\ S \subseteq I /\ Cardinality(I) = fbm.bit_count
    <2>1. U \in SUBSET S
      BY <1>1
    <2> QED BY <2>1, SetsAreFinite, FS_Subset, Layout
  <1>3. bitmap_total_set(fbm, mem) = Cardinality(S)
    BY FbmIsBitmap, TotalSetCountsBits
  <1> HIDE DEF S, U, F, I
  <1>4. /\ Cardinality(U) \in Nat /\ Cardinality(F) \in Nat /\ Cardinality(I) \in Nat
        /\ Cardinality(S) \in Nat
    BY <1>2, FS_CardinalityType
  <1>5. Cardinality(S) = Cardinality(U) + Cardinality(F)
    <2>1. Cardinality(U \cup F) = Cardinality(U) + Cardinality(F) - Cardinality(U \cap F)
      BY <1>2, FS_Union
    <2>2. Cardinality(U \cap F) = 0
      BY <1>1, FS_EmptySet
    <2> QED BY <1>1, <1>4, <2>1, <2>2
  <1>6. Cardinality(I \ S) = Cardinality(I) - Cardinality(S)
    <2>1. I \cap S = S
      BY <1>2
    <2>2. Cardinality(I \ S) = Cardinality(I) - Cardinality(I \cap S)
      BY <1>2, FS_Difference
    <2> QED BY <2>1, <2>2
  <1> QED BY <1>1, <1>2, <1>3, <1>5, <1>6 DEF F, U

LEMMA StepRefines == ASSUME RInv, RInv', Next PROVE Pool!Next \/ UNCHANGED Pool!pvars
  <1> DEFINE U == UsedOf(mem)
             C == ContentOf(mem)
  <1> USE DEF Pool!Kept, Pool!Result, Result
  <1>1. /\ IsMemory(mem) /\ (up => MapMarked(mem)) /\ Ids \subseteq Nat
        /\ (~file.ok => file = Damaged) /\ (saving => ~file.ok)
    BY CallerAssumption DEF RInv, IInv, ImageInv, Sound
  <1>2. Seen(Damaged) = Pool!NoImage
    BY ZerosAre DEF Seen, Damaged, Pool!NoImage
  <1>3. CASE block_store_create
    BY <1>3, NewStoreIsEmpty DEF block_store_create, Pool!Next, Pool!Create, Pool!NoImage
  <1>4. CASE block_store_destroy
    BY <1>4, ZerosAre DEF block_store_destroy, Pool!Next, Pool!Down, Pool!NoImage
  <1>5. CASE block_store_allocate
    <2> DEFINE b == bitmap_ffz(fbm, mem)
    <2>1. up /\ UNCHANGED <<up, file>> /\ SetBits(fbm, mem) = U \cup FbmBlocks
      BY <1>1, <1>5, AllBlocksHaveBits DEF block_store_allocate, Ready
    <2>2. IF SetBits(fbm, mem) = Indices(fbm) THEN b = SIZE_MAX
          ELSE b \in Indices(fbm) \ SetBits(fbm, mem)
      BY FbmIsBitmap, FfzFindsFirstZero
    <2>3. CASE b # SIZE_MAX
      <3>1. b \in Indices(fbm) /\ b \in Usable \ U
        BY <2>1, <2>2, <2>3, AllBlocksHaveBits
      <3>2. mem' = bitmap_set(fbm, mem, b) /\ res' = Result("allocate", TRUE, {b})
        BY <1>5, <2>3 DEF block_store_allocate
      <3>3. UsedOf(mem') = U \cup {b} /\ ContentOf(mem') = C
        BY <1>1, <3>1, <3>2, SetKeeps
      <3> QED BY <2>1, <3>1, <3>2, <3>3 DEF Pool!Next, Pool!Allocate, Seen
    <2>4. CASE b = SIZE_MAX
      <3>1. SetBits(fbm, mem) = Indices(fbm)
        <4>1. SIZE_MAX \notin Indices(fbm)
          BY Layout DEF SIZE_MAX
        <4> QED BY <2>2, <2>4, <4>1
      <3>2. U = Usable
        BY <3>1 DEF UsedOf, Usable
      <3>3. mem' = mem /\ res' = Result("allocate", FALSE, {})
        BY <1>5, <2>4 DEF block_store_allocate
      <3> QED BY <2>1, <3>2, <3>3 DEF Pool!Next, Pool!Allocate, Seen
    <2> QED BY <2>3, <2>4
  <1>6. ASSUME NEW b \in Ids, block_store_request(b) PROVE Pool!Next
    <2>1. up /\ UNCHANGED <<up, file>> /\ SetBits(fbm, mem) = U \cup FbmBlocks
      BY <1>1, <1>6, AllBlocksHaveBits DEF block_store_request, Ready
    <2>2. Granted(b) <=> b \in Usable \ U
      BY <1>1, <2>1, AllBlocksHaveBits DEF Granted, SetBits
    <2>3. UsedOf(mem') = U \cup ({b} \cap Usable) /\ ContentOf(mem') = C
      <3>1. CASE InRange(b)
        BY <1>1, <1>6, <3>1, AllBlocksHaveBits, SetKeeps DEF block_store_request
      <3>2. CASE ~InRange(b)
        BY <1>1, <1>6, <3>2, AllBlocksHaveBits DEF block_store_request
      <3> QED BY <3>1, <3>2
    <2>4. res' = Result("request", b \in Usable \ U, {})
      <3>1. res' = Result("request", Granted(b), {})
        BY <1>6 DEF block_store_request
      <3>2. Granted(b) = (b \in Usable \ U)
        BY <2>2 DEF Granted
      <3> QED BY <3>1, <3>2, Zenon
    <2>5. Pool!Request(b)
      BY <2>1, <2>3, <2>4 DEF Pool!Request, Seen
    <2> QED BY <2>5 DEF Pool!Next
  <1>7. ASSUME NEW b \in Ids, block_store_release(b) PROVE Pool!Next
    <2>1. up /\ UNCHANGED <<up, file>> /\ res' = Result("release", TRUE, {})
      BY <1>7 DEF block_store_release, Ready
    <2>2. UsedOf(mem') = U \ {b} /\ ContentOf(mem') = C
      <3>1. CASE InRange(b)
        BY <1>1, <1>7, <3>1, AllBlocksHaveBits, ResetKeeps DEF block_store_release
      <3>2. CASE ~InRange(b)
        BY <1>1, <1>7, <3>2, AllBlocksHaveBits DEF block_store_release, UsedOf
      <3> QED BY <3>1, <3>2
    <2>3. Pool!Release(b)
      BY <2>1, <2>2 DEF Pool!Release, Seen
    <2> QED BY <2>3 DEF Pool!Next
  <1>8. ASSUME NEW b \in Ids, NEW buffer \in Buffers, block_store_write(b, buffer)
        PROVE  Pool!Next
    <2>1. up /\ UNCHANGED <<up, file>>
      BY <1>8 DEF block_store_write, Ready
    <2>2. CASE InRange(b)
      <3>1. /\ b \in U /\ b \in Usable /\ mem' = WriteBlock(mem, b, buffer)
            /\ res' = Result("write", TRUE, buffer)
        BY <1>8, <2>2 DEF block_store_write, UsedOf
      <3>2. buffer \in Cells
        BY CallerAssumption
      <3>3. UsedOf(mem') = U /\ ContentOf(mem') = [C EXCEPT ![b] = buffer]
        BY <1>1, <3>1, <3>2, WriteKeeps
      <3>4. Pool!Write(b)
        BY <2>1, <3>1, <3>2, <3>3 DEF Pool!Write, Seen
      <3> QED BY <3>4 DEF Pool!Next
    <2>3. CASE ~InRange(b)
      <3>1. b \notin Usable /\ mem' = mem /\ res' = Result("write", FALSE, {})
        BY <1>1, <1>8, <2>3, AllBlocksHaveBits DEF block_store_write
      <3>2. Pool!Write(b)
        BY <2>1, <3>1 DEF Pool!Write, Seen
      <3> QED BY <3>2 DEF Pool!Next
    <2> QED BY <2>2, <2>3
  <1>9. ASSUME NEW b \in Ids, block_store_read(b) PROVE Pool!Next
    <2>1. up /\ UNCHANGED <<up, mem, file>> /\ (InRange(b) <=> b \in Usable)
      BY <1>1, <1>9, AllBlocksHaveBits DEF block_store_read, Ready
    <2>2. Pool!Read(b)
      BY <1>9, <2>1 DEF block_store_read, Pool!Read, ContentOf, UsedOf, Seen
    <2> QED BY <2>2 DEF Pool!Next
  <1>10. CASE block_store_get_used_blocks \/ block_store_get_free_blocks
    <2>1. up /\ UNCHANGED <<up, mem, file>>
      BY <1>10 DEF block_store_get_used_blocks, block_store_get_free_blocks, Ready
    <2>2. /\ bitmap_total_set(fbm, mem) = Cardinality(U) + Cardinality(FbmBlocks)
          /\ fbm.bit_count - bitmap_total_set(fbm, mem) = Cardinality(Usable \ U)
      BY <2>1, Counts
    <2> HIDE DEF U
    <2>3. \/ res' = Result("used", TRUE, {Cardinality(U) + Cardinality(FbmBlocks)})
          \/ res' = Result("free", TRUE, {Cardinality(Usable \ U)})
      BY <1>10, <2>2 DEF block_store_get_used_blocks, block_store_get_free_blocks
    <2>4. UNCHANGED <<UsedOf(mem), ContentOf(mem), Seen(file)>>
      BY <2>1 DEF Seen, UsedOf, ContentOf, SetBits, bitmap_test, ReadBlock
    <2>5. \A S : Pool!Cardinality(S) = Cardinality(S)
      BY Zenon DEF Pool!Cardinality, Pool!IsFiniteSet, Cardinality, IsFiniteSet
    <2>6. Pool!Count
      BY <2>1, <2>3, <2>4, <2>5 DEF Pool!Count, U
    <2> QED BY <2>6 DEF Pool!Next
  <1>11. CASE block_store_serialize
    BY <1>2, <1>11 DEF block_store_serialize, Ready, Pool!Next, Pool!Save
  <1>12. CASE SerializeWrites
    <2>1. up /\ UNCHANGED <<up, mem>> /\ Seen(file) = Pool!NoImage
      BY <1>1, <1>2, <1>12 DEF SerializeWrites
    <2>2. CASE file' = [ok |-> TRUE, mem |-> mem] /\ res' = Result("save", TRUE, {})
      BY <2>1, <2>2 DEF Pool!Next, Pool!Save, Pool!Image, Seen
    <2>3. CASE file' = file /\ res' = Result("save", FALSE, {})
      BY <2>1, <2>3 DEF Pool!Next, Pool!Save
    <2> QED BY <1>12, <2>2, <2>3 DEF SerializeWrites
  <1>13. CASE block_store_deserialize
    BY <1>13 DEF block_store_deserialize, Pool!Next, Pool!Load, Seen
  <1> QED BY <1>3, <1>4, <1>5, <1>6, <1>7, <1>8, <1>9, <1>10, <1>11, <1>12, <1>13 DEF Next

(* Every behaviour of the store is one of a pool of blocks: what it hands  *)
(* out, keeps, counts, saves and loads is what block_store.h promises.     *)
THEOREM StoreImplementsPool == Spec => ImplementsBlockPool
  <1>1. Init => Pool!Init
    <2> SUFFICES ASSUME Init PROVE Pool!Init
      OBVIOUS
    <2>1. up = FALSE /\ mem = Zeros /\ file = Damaged /\ res = Result("none", TRUE, {})
      BY DEF Init
    <2>2. UsedOf(mem) = {} /\ ContentOf(mem) = [b \in Usable |-> {}]
      BY <2>1, ZerosAre
    <2>3. Seen(file) = [ok |-> FALSE, used |-> {}, content |-> [b \in Usable |-> {}]]
      BY <2>1, ZerosAre DEF Seen, Damaged
    <2> QED BY <2>1, <2>2, <2>3 DEF Pool!Init, Pool!NoImage, Pool!Result, Result
  <1>2. RInv /\ [Next]_vars => RInv'
    <2>1. ASSUME RInv, UNCHANGED vars PROVE RInv'
      BY <2>1 DEF RInv, IInv, ImageInv, vars, Sound, IsMemory, MapMarked, bitmap_test
    <2> QED BY <2>1, NextInv, NextImageInv DEF RInv
  <1>3. RInv /\ RInv' /\ [Next]_vars => [Pool!Next]_Pool!pvars
    <2>1. UNCHANGED vars => UNCHANGED Pool!pvars
      BY DEF vars, Pool!pvars
    <2> QED BY <2>1, StepRefines
  <1> QED BY InitRInv, <1>1, <1>2, <1>3, PTL DEF Spec, ImplementsBlockPool, Pool!Spec
=============================================================================
