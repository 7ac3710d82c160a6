------------------------- MODULE BlockDeviceProofs -------------------------
(***************************************************************************)
(* Proofs about BlockDevice: the mapped file, seen through its map, is a   *)
(* BlockPool that is its own image, through deaths at any step of its      *)
(* making, but for imports and for calls with one number too many.         *)
(***************************************************************************)
EXTENDS BlockDevice, BitmapProofs

\* The device is open only when it is whole; what is made in steps is of
\* zeros before the guard is stored.
IInv ==
    /\ up \in BOOLEAN
    /\ file.ok \in BOOLEAN
    /\ IsMemory(file.mem)
    /\ ~file.ok => file \in {Missing, Short}
    /\ file.ok => file.there
    /\ pc = "read" => file.ok /\ import.on
    /\ up => file.ok /\ pc = "idle"

-----------------------------------------------------------------------------
(* The memory.                                                             *)

LEMMA UsableAre ==
    /\ Usable = Indices(fbm)
    /\ \A b \in Nat : b < BitCount <=> b \in Usable
    /\ \A m : UsedOf(m) = SetBits(fbm, m)
  <1>1. \A b \in Nat : b < BitCount <=> b \in Indices(fbm)
    BY Layout DEF Indices
  <1>2. \A b \in Indices(fbm) : b \notin FbmBlocks
    BY Layout, CallerAssumption DEF Indices
  <1>3. Usable = Indices(fbm)
    BY <1>2 DEF Usable
  <1> QED BY <1>1, <1>3 DEF UsedOf, SetBits

\* The guard is no bit of a block of data, and in none of their bytes.
LEMMA FreshIsEmpty ==
    /\ IsMemory(Fresh)
    /\ UsedOf(Fresh) = {} /\ ContentOf(Fresh) = [b \in Usable |-> {}]
  <1> DEFINE w == ByteBits
             last == NumBlocks - 1
  <1>1. last \in Blocks /\ Address(fbm, last) = NumBytes - 1
    BY Layout, CallerAssumption DEF Blocks
  <1>2. NumBytes - 1 \in Addresses /\ (NumBytes - 1) \div BlockBytes \in FbmBlocks
    BY <1>1, MapByte
  <1>3. IsMemory(Fresh) /\ \A a \in Addresses : a # NumBytes - 1 => Fresh[a] = Zeros[a]
    BY DEF IsMemory, Fresh, Zeros
  <1>4. ContentOf(Fresh) = ContentOf(Zeros)
    BY <1>2, <1>3, DataKept
  <1>5. ASSUME NEW b \in Usable PROVE Address(fbm, b) # NumBytes - 1
    <2>1. b \in Nat /\ b < NumBlocks - w /\ w \in Nat /\ w > 0 /\ last \in Nat
      BY <1>1, Layout, UsableAre, CallerAssumption DEF Indices
    <2>2. /\ b \div w \in Nat /\ b % w \in 0 .. w - 1 /\ b = (w * (b \div w)) + (b % w)
          /\ last \div w \in Nat /\ last % w \in 0 .. w - 1
          /\ last = (w * (last \div w)) + (last % w)
      BY <2>1, Division
    <2>3. b \div w # last \div w
      <3> SUFFICES ASSUME b \div w = last \div w PROVE FALSE
        OBVIOUS
      <3>1. last = NumBlocks - 1 /\ NumBlocks \in Nat
        BY Layout
      <3> DEFINE p == w * (b \div w)
                 r == b % w
                 t == last % w
      <3>2. b = p + r /\ last = p + t /\ r \in 0 .. w - 1 /\ t \in 0 .. w - 1 /\ p \in Int
        <4>1. p \in Int
          BY <2>1, <2>2
        <4>2. last = p + t
          BY <2>2
        <4> HIDE DEF last
        <4> QED BY <2>2, <4>1, <4>2
      <3> HIDE DEF p, r, t, last, w
      <3>3. b <= last - w
        BY <2>1, <3>1
      <3> QED BY <2>1, <3>2, <3>3
    <2> QED BY <1>1, <2>2, <2>3, Layout DEF Address
  <1>6. ASSUME NEW b \in Usable PROVE ~ bitmap_test(fbm, Fresh, b)
    <2>1. Address(fbm, b) \in Addresses
      BY Layout, UsableAre, MapByte
    <2> QED BY <1>3, <1>5, <1>6, <2>1 DEF bitmap_test, Zeros, None
  <1>7. UsedOf(Fresh) = {}
    BY <1>6 DEF UsedOf, SetBits
  <1> QED BY <1>3, <1>4, <1>7, ZerosAre

\* What the counting functions return.
LEMMA Counts ==
    ASSUME NEW m
    PROVE  /\ bitmap_total_set(fbm, m) = Cardinality(UsedOf(m))
           /\ BitCount - bitmap_total_set(fbm, m) = Cardinality(Usable \ UsedOf(m))
  <1>1. bitmap_total_set(fbm, m) = Cardinality(UsedOf(m))
    BY FbmIsBitmap, TotalSetCountsBits, UsableAre
  <1>2. /\ IsFiniteSet(Usable) /\ Cardinality(Usable) = BitCount
        /\ Usable \cap UsedOf(m) = UsedOf(m)
    BY SetsAreFinite, UsableAre DEF UsedOf
  <1>3. Cardinality(Usable \ UsedOf(m)) = Cardinality(Usable) - Cardinality(UsedOf(m))
    <2>1. Cardinality(Usable \ UsedOf(m))
            = Cardinality(Usable) - Cardinality(Usable \cap UsedOf(m))
      BY <1>2, FS_Difference
    <2> QED BY <1>2, <2>1
  <1> QED BY <1>1, <1>2, <1>3

-----------------------------------------------------------------------------
(* The invariant.                                                          *)

LEMMA SizedIs ==
    ASSUME NEW m
    PROVE  /\ Sized(m).ok = TRUE /\ Sized(m).there = TRUE /\ Sized(m).mem = m
           /\ Seen(Sized(m)) = [ok |-> TRUE, used |-> UsedOf(m), content |-> ContentOf(m)]
  BY DEF Sized, Seen

LEMMA NoFileIs ==
    ASSUME NEW f \in {Missing, Short}
    PROVE  /\ f.ok = FALSE /\ f.mem = Zeros
           /\ Seen(f) = [ok |-> FALSE, used |-> {}, content |-> [b \in Usable |-> {}]]
  <1>1. f.ok = FALSE /\ f.mem = Zeros
    BY DEF Missing, Short
  <1> QED BY <1>1, ZerosAre DEF Seen

LEMMA InitInv == Init => IInv
  <1> SUFFICES ASSUME Init PROVE IInv
    OBVIOUS
  <1>1. up = FALSE /\ pc = "idle" /\ file \in {Missing, Short}
    BY DEF Init
  <1>2. file.ok = FALSE /\ file.mem = Zeros
    BY <1>1, NoFileIs
  <1> QED BY <1>1, <1>2, ZerosAre DEF IInv

LEMMA NextInv == ASSUME IInv, Next PROVE IInv'
  <1>1. ASSUME NEW m, Store(m), IsMemory(m), up' \in BOOLEAN, up' => pc' = "idle",
               pc' = "read" => import'.on
        PROVE  IInv'
    BY <1>1, SizedIs DEF Store, IInv
  <1>2. ASSUME NEW b
        PROVE  IsMemory(bitmap_set(Map, mem, b)) /\ IsMemory(bitmap_reset(fbm, mem, b))
    BY DEF IInv, IsMemory, mem, bitmap_set, bitmap_reset
  <1>3. ASSUME NEW b, NEW buffer PROVE IsMemory(WriteBlock(mem, b, buffer))
    BY DEF IsMemory, WriteBlock
  <1>4. /\ IsMemory(mem) /\ IsMemory(Zeros) /\ IsMemory(Fresh) /\ up \in BOOLEAN
        /\ Ready => up /\ pc # "read"
    BY ZerosAre, FreshIsEmpty DEF IInv, mem, Ready
  <1>5. CASE UNCHANGED <<up, file, pc, import>>
    BY <1>5 DEF IInv
  <1>6. CASE CreateTruncates \/ ImportTruncates
    <2>1. file' = Short /\ up' = FALSE /\ pc' = "sized"
      BY <1>4, <1>6 DEF CreateTruncates, ImportTruncates
    <2>2. file'.ok = FALSE /\ file'.mem = Zeros
      BY <2>1, NoFileIs
    <2> QED BY <2>1, <2>2, ZerosAre DEF IInv
  <1>7. CASE CreateSizes \/ block_store_create
    <2>1. CASE CreateSizes
      <3>1. Store(Zeros) /\ up' = FALSE /\ pc' # "read"
        BY <1>4, <2>1 DEF CreateSizes, IInv
      <3> QED BY <1>1, <1>4, <3>1
    <2>2. CASE block_store_create
      <3>1. Store(Fresh) /\ up' \in BOOLEAN /\ (up' => pc' = "idle")
            /\ (pc' = "read" => import'.on)
        <4>1. Store(Fresh) /\ ~up /\ import' = import
          BY <2>2 DEF block_store_create, IInv
        <4>2. CASE ~import.on
          BY <2>2, <4>1, <4>2 DEF block_store_create
        <4>3. CASE import.on
          BY <1>4, <2>2, <4>1, <4>3 DEF block_store_create
        <4> QED BY <4>1, <4>2, <4>3
      <3> QED BY <1>1, <1>4, <3>1
    <2> QED BY <1>7, <2>1, <2>2
  <1>8. CASE \/ block_store_open \/ block_store_destroy \/ Crash
             \/ block_store_deserialize \/ \E b \in Ids : NullDereferenced(b)
    <2>1. /\ UNCHANGED file /\ up' \in BOOLEAN /\ (up' => file.ok /\ pc' = "idle")
          /\ pc' # "read"
      <3>1. CASE block_store_open
        BY <3>1 DEF block_store_open, IInv
      <3>2. CASE block_store_destroy
        BY <3>2 DEF block_store_destroy, IInv
      <3>3. CASE Crash
        BY <1>4, <3>3 DEF Crash, IInv
      <3>4. CASE block_store_deserialize
        BY <1>4, <3>4 DEF block_store_deserialize, IInv
      <3>5. ASSUME NEW b \in Ids, NullDereferenced(b)
            PROVE  UNCHANGED <<file, pc>> /\ up' = FALSE /\ pc = "idle"
        BY <3>5 DEF NullDereferenced, Ready
      <3> QED BY <1>8, <3>1, <3>2, <3>3, <3>4, <3>5
    <2> QED BY <2>1 DEF IInv
  <1>9. CASE block_store_allocate
    BY <1>1, <1>2, <1>4, <1>5, <1>9 DEF block_store_allocate, Ready
  <1>12. ASSUME NEW b PROVE IsMemory(bitmap_set(fbm, mem, b))
    BY DEF IInv, IsMemory, mem, bitmap_set
  <1>10. ASSUME NEW b \in Ids, block_store_request(b) \/ block_store_release(b) PROVE IInv'
    BY <1>1, <1>2, <1>4, <1>5, <1>10, <1>12
       DEF block_store_request, block_store_release, Ready
  <1>11. ASSUME NEW b \in Ids, NEW buffer \in Buffers, block_store_write(b, buffer)
         PROVE  IInv'
    BY <1>1, <1>3, <1>4, <1>5, <1>11 DEF block_store_write, Ready
  <1>13. Next => \/ UNCHANGED <<up, file, pc, import>>
                 \/ CreateTruncates \/ ImportTruncates
                 \/ CreateSizes \/ block_store_create
                 \/ block_store_open \/ block_store_destroy \/ Crash
                 \/ block_store_allocate \/ block_store_deserialize
                 \/ \E b \in Ids : \/ block_store_request(b) \/ block_store_release(b)
                                   \/ NullDereferenced(b)
                                   \/ \E buffer \in Buffers : block_store_write(b, buffer)
    BY DEF Next, ImportRefused, block_store_read, block_store_get_used_blocks,
           block_store_get_free_blocks, block_store_serialize
  <1> QED BY <1>5, <1>6, <1>7, <1>8, <1>9, <1>10, <1>11, <1>13

-----------------------------------------------------------------------------
(* The refinement.                                                         *)

\* A block number in what follows is accepted rightly, by mistake, or not.
LEMMA StepRefines ==
    ASSUME IInv, IInv', Next, ~import.on, ~import'.on, ~AtEdge
    PROVE  Pool!Next \/ UNCHANGED Pool!pvars
  <1> DEFINE U == UsedOf(mem)
             C == ContentOf(mem)
             Used == IF up THEN UsedOf(mem) ELSE {}
             Content == ContentOf(IF up THEN mem ELSE Zeros)
             NoContent == [b \in Usable |-> {}]
  <1> USE DEF Pool!Result, Result
  <1>1. /\ up \in BOOLEAN /\ file.ok \in BOOLEAN /\ IsMemory(mem)
        /\ (~file.ok => file \in {Missing, Short}) /\ (up => file.ok)
        /\ Map = fbm
    BY DEF IInv, mem, Map
  <1>2a. ASSUME NEW b \in Ids, b # BitCount
         PROVE  Accepted(b) <=> b \in Usable /\ b \in Indices(fbm)
    BY <1>2a, Layout, UsableAre, CallerAssumption DEF Accepted
  <1>2. Seen(Short) = Pool!NoImage
    BY NoFileIs DEF Pool!NoImage
  <1>3. ASSUME NEW m, Store(m), UsedOf(m) = {}, ContentOf(m) = NoContent
        PROVE  Seen(file)' = Pool!EmptyImage
    BY <1>3, SizedIs DEF Store, Seen, Pool!EmptyImage, Pool!Image, Pool!NoImage
  <1>4. UsedOf(Zeros) = {} /\ ContentOf(Zeros) = NoContent
        /\ UsedOf(Fresh) = {} /\ ContentOf(Fresh) = NoContent
    BY ZerosAre, FreshIsEmpty
  \* A step on an open device, which is its own image before and after.
  <1>5. ASSUME up, up' = up, NEW m, Store(m)
        PROVE  /\ Used' = UsedOf(m) /\ Content' = ContentOf(m)
               /\ Seen(file)' = Pool!Image(UsedOf(m), ContentOf(m))
    BY <1>5, SizedIs DEF Store, mem, Seen, Pool!Image
  <1>6. up => Seen(file) = Pool!Image(U, C)
    BY <1>1 DEF Seen, Pool!Image, mem
  <1>7. UNCHANGED file => UNCHANGED <<mem, Seen(file), UsedOf(mem), ContentOf(mem)>>
    BY DEF mem, Seen, UsedOf, ContentOf, SetBits, bitmap_test, ReadBlock
  <1>8. UNCHANGED <<up, file>> => UNCHANGED <<Used, Content, Seen(file)>>
    BY <1>7, <1>4
  <1>9. CASE CreateTruncates
    <2>1. ~up /\ up' = up /\ Seen(file)' = Pool!NoImage /\ res' = res
      BY <1>2, <1>9 DEF CreateTruncates, Seen
    <2>2. UNCHANGED <<Used, Content>>
      BY <2>1, <1>4
    <2>3. Pool!Wipe
      BY <2>1, <2>2 DEF Pool!Wipe
    <2> QED BY <2>3 DEF Pool!Next
  <1>10. CASE CreateSizes
    <2>1. ~up /\ up' = up /\ Store(Zeros) /\ res' = res
      BY <1>1, <1>10 DEF CreateSizes, IInv
    <2>2. Pool!Wipe
      BY <1>3, <1>4, <2>1 DEF Pool!Wipe
    <2> QED BY <2>2 DEF Pool!Next
  <1>11. CASE block_store_create
    <2>1. ~up /\ up' = TRUE /\ Store(Fresh) /\ res' = Result("create", TRUE, {})
      BY <1>1, <1>11 DEF block_store_create, IInv
    <2>2. Used' = {} /\ Content' = NoContent /\ Seen(file)' = Pool!EmptyImage
      BY <1>3, <1>4, <2>1, SizedIs DEF Store, mem
    <2>3. Pool!Create
      BY <2>1, <2>2 DEF Pool!Create, Pool!Kept, Pool!EmptyImage, Pool!NoImage
    <2> QED BY <2>3 DEF Pool!Next
  <1>12. CASE block_store_open
    <2>1. /\ ~up /\ up' = file.ok /\ UNCHANGED file
          /\ res' = Result("load", file.ok, {})
      BY <1>12 DEF block_store_open
    <2>2. CASE file.ok
      <3>1. up' = TRUE /\ Used' = Seen(file).used /\ Content' = Seen(file).content
            /\ Seen(file).ok
        BY <2>1, <2>2 DEF Seen, mem
      <3>2. Pool!Load
        BY <1>7, <2>1, <2>2, <3>1 DEF Pool!Load
      <3> QED BY <3>2 DEF Pool!Next
    <2>3. CASE ~file.ok
      <3>1. up' = up /\ ~Seen(file).ok /\ res' = Result("load", FALSE, {})
        BY <1>1, <2>1, <2>3 DEF Seen
      <3>2. Pool!Load
        BY <1>8, <2>1, <3>1 DEF Pool!Load
      <3> QED BY <3>2 DEF Pool!Next
    <2> QED BY <2>2, <2>3
  <1>13. CASE block_store_destroy
    <2>1. up /\ up' = FALSE /\ UNCHANGED <<file, res>>
      BY <1>13 DEF block_store_destroy
    <2>2. Used' = {} /\ Content' = NoContent
      BY <1>4, <2>1
    <2>3. Pool!Down
      BY <1>7, <2>1, <2>2 DEF Pool!Down, Pool!NoImage
    <2> QED BY <2>3 DEF Pool!Next
  <1>14. CASE Crash
    <2>1. UNCHANGED <<up, file, res>>
      BY <1>14 DEF Crash
    <2> QED BY <1>8, <2>1 DEF Pool!pvars
  <1>15. CASE block_store_allocate
    <2> DEFINE b == bitmap_ffz(fbm, mem)
    <2>1. up /\ up' = up
      BY <1>15 DEF block_store_allocate, Ready
    <2>2. IF U = Usable THEN b = SIZE_MAX ELSE b \in Usable \ U
      BY FbmIsBitmap, FfzFindsFirstZero, UsableAre
    <2>3. CASE b # SIZE_MAX
      <3>1. /\ Store(bitmap_set(fbm, mem, b)) /\ res' = Result("allocate", TRUE, {b})
        BY <1>1, <1>15, <2>3 DEF block_store_allocate
      <3>2. b \in Usable \ U /\ b \in Indices(fbm)
        BY <2>2, <2>3, UsableAre
      <3>3. UsedOf(bitmap_set(fbm, mem, b)) = U \cup {b}
            /\ ContentOf(bitmap_set(fbm, mem, b)) = C
        BY <1>1, <3>2, SetKeeps
      <3>4. /\ Used' = U \cup {b} /\ Content' = C
            /\ Seen(file)' = Pool!Image(U \cup {b}, C)
        BY <1>5, <2>1, <3>1, <3>3
      <3> HIDE DEF b
      <3>5. Pool!Allocate
        BY <2>1, <3>1, <3>2, <3>4 DEF Pool!Allocate, Pool!Kept
      <3> QED BY <3>5 DEF Pool!Next
    <2>4. CASE b = SIZE_MAX
      <3>1. UNCHANGED file /\ res' = Result("allocate", FALSE, {})
        BY <1>1, <1>15, <2>4 DEF block_store_allocate
      <3>2. U = Usable
        <4>1. SIZE_MAX \notin Usable
          BY Layout, UsableAre DEF SIZE_MAX
        <4> QED BY <2>2, <2>4, <4>1
      <3>3. Pool!Allocate
        BY <1>6, <1>8, <2>1, <3>1, <3>2 DEF Pool!Allocate, Pool!Kept
      <3> QED BY <3>3 DEF Pool!Next
    <2> QED BY <2>3, <2>4
  <1>16. ASSUME NEW b \in Ids, block_store_request(b) PROVE Pool!Next
    <2>1. up /\ up' = up /\ b # BitCount
      BY <1>16 DEF block_store_request, Ready, AtEdge
    <2>2. b \in Usable => b \in Indices(fbm) /\ (bitmap_test(fbm, mem, b) <=> b \in U)
      BY UsableAre DEF SetBits
    <2>3. CASE b \in Usable \ U
      <3>1. Store(bitmap_set(fbm, mem, b)) /\ res' = Result("request", TRUE, {})
        BY <1>2a, <1>16, <2>1, <2>2, <2>3 DEF block_store_request
      <3>2. UsedOf(bitmap_set(fbm, mem, b)) = U \cup ({b} \cap Usable)
            /\ ContentOf(bitmap_set(fbm, mem, b)) = C
        BY <1>1, <2>2, <2>3, SetKeeps
      <3>3. (b \in Usable \ U) = TRUE
        BY <2>3
      <3>4. /\ Used' = U \cup ({b} \cap Usable) /\ Content' = C
            /\ Seen(file)' = Pool!Image(U \cup ({b} \cap Usable), C)
        BY <1>5, <2>1, <3>1, <3>2
      <3>5. res' = Result("request", b \in Usable \ U, {})
        BY <3>1, <3>3, Zenon
      <3>6. Pool!Request(b)
        BY <2>1, <3>4, <3>5 DEF Pool!Request, Pool!Kept
      <3> QED BY <3>6 DEF Pool!Next
    <2>4. CASE b \notin Usable \ U
      <3>1. UNCHANGED file /\ res' = Result("request", FALSE, {})
        BY <1>2a, <1>16, <2>1, <2>2, <2>4 DEF block_store_request
      <3>2. (b \in Usable \ U) = FALSE /\ U \cup ({b} \cap Usable) = U
        BY <2>4
      <3>3. Pool!Request(b)
        BY <1>6, <1>8, <2>1, <3>1, <3>2 DEF Pool!Request, Pool!Kept
      <3> QED BY <3>3 DEF Pool!Next
    <2> QED BY <2>3, <2>4
  <1>17. ASSUME NEW b \in Ids, block_store_release(b) PROVE Pool!Next
    <2>1. /\ up /\ up' = up /\ b # BitCount
          /\ Store(IF Accepted(b) THEN bitmap_reset(fbm, mem, b) ELSE mem)
          /\ res' = Result("release", TRUE, {})
      BY <1>17 DEF block_store_release, Ready, AtEdge
    <2>2. PICK m : /\ Store(m)
                   /\ UsedOf(m) = U \ {b} /\ ContentOf(m) = C
      <3>1. CASE Accepted(b)
        BY <1>1, <1>2a, <2>1, <3>1, ResetKeeps
      <3>2. CASE ~Accepted(b)
        <4>1. U \ {b} = U
          BY <1>2a, <2>1, <3>2, UsableAre DEF SetBits
        <4> QED BY <2>1, <3>2, <4>1
      <3> QED BY <3>1, <3>2
    <2>3. Pool!Release(b)
      BY <1>5, <2>1, <2>2 DEF Pool!Release, Pool!Kept
    <2> QED BY <2>3 DEF Pool!Next
  <1>18. ASSUME NEW b \in Ids, NEW buffer \in Buffers, block_store_write(b, buffer)
         PROVE  Pool!Next
    <2>1. up /\ up' = up /\ b # BitCount
      BY <1>18 DEF block_store_write, Ready, AtEdge
    <2>2. CASE Accepted(b)
      <3>1. /\ b \in Usable /\ bitmap_test(fbm, mem, b)
            /\ Store(WriteBlock(mem, b, buffer)) /\ res' = Result("write", TRUE, buffer)
        BY <1>2a, <1>18, <2>1, <2>2 DEF block_store_write
      <3>2. b \in U /\ buffer \in Cells
        BY <3>1, UsableAre, CallerAssumption DEF SetBits
      <3>3. UsedOf(WriteBlock(mem, b, buffer)) = U
            /\ ContentOf(WriteBlock(mem, b, buffer)) = [C EXCEPT ![b] = buffer]
        BY <1>1, <3>1, <3>2, WriteKeeps
      <3>4. Pool!Write(b)
        BY <1>5, <2>1, <3>1, <3>2, <3>3 DEF Pool!Write, Pool!Kept
      <3> QED BY <3>4 DEF Pool!Next
    <2>3. CASE ~Accepted(b)
      <3>1. b \notin Usable /\ UNCHANGED file /\ res' = Result("write", FALSE, {})
        BY <1>2a, <1>18, <2>1, <2>3, UsableAre DEF block_store_write
      <3>2. Pool!Write(b)
        BY <1>6, <1>8, <2>1, <3>1 DEF Pool!Write, Pool!Kept
      <3> QED BY <3>2 DEF Pool!Next
    <2> QED BY <2>2, <2>3
  <1>19. ASSUME NEW b \in Ids, block_store_read(b) PROVE Pool!Next
    <2>1. /\ up /\ UNCHANGED <<up, file>> /\ b # BitCount
          /\ res' = IF Accepted(b) THEN Result("read", TRUE, ReadBlock(mem, b))
                    ELSE Result("read", FALSE, {})
      BY <1>19 DEF block_store_read, Ready, AtEdge
    <2>2. res' = IF b \in Usable THEN Result("read", TRUE, C[b])
                 ELSE Result("read", FALSE, {})
      BY <1>2a, <2>1, UsableAre DEF ContentOf
    <2>3. Pool!Read(b)
      BY <1>8, <2>1, <2>2 DEF Pool!Read
    <2> QED BY <2>3 DEF Pool!Next
  <1>20. CASE block_store_get_used_blocks \/ block_store_get_free_blocks
              \/ block_store_serialize
    <2>1. up /\ UNCHANGED <<up, file>>
      BY <1>20 DEF block_store_get_used_blocks, block_store_get_free_blocks,
                   block_store_serialize, Ready
    <2>2. \/ res' = Result("used", TRUE, {Cardinality(U)})
          \/ res' = Result("export", TRUE, {Cardinality(U)})
          \/ res' = Result("free", TRUE, {Cardinality(Usable \ U)})
      BY <1>1, <1>20, Counts DEF block_store_get_used_blocks, block_store_get_free_blocks,
                           block_store_serialize
    <2>3. \A S : Pool!Cardinality(S) = Cardinality(S)
      BY Zenon DEF Pool!Cardinality, Pool!IsFiniteSet, Cardinality, IsFiniteSet
    <2>4. Cardinality(U) + 0 = Cardinality(U)
      <3>1. IsFiniteSet(U)
        BY SetsAreFinite, UsableAre
      <3> QED BY <3>1, FS_CardinalityType
    <2>5. Pool!Count
      BY <1>8, <2>1, <2>2, <2>3, <2>4 DEF Pool!Count
    <2> QED BY <2>5 DEF Pool!Next
  <1>21. CASE ImportRefused
    <2>1. ~up /\ UNCHANGED <<up, file>> /\ ~file.there /\ res' = Result("load", FALSE, {})
      BY <1>21 DEF ImportRefused
    <2>2. ~Seen(file).ok
      BY <1>1, <2>1 DEF Seen, IInv
    <2>3. Pool!Load
      BY <1>8, <2>1, <2>2 DEF Pool!Load
    <2> QED BY <2>3 DEF Pool!Next
  <1>22. ~ImportTruncates /\ ~block_store_deserialize /\ \A b \in Ids : ~NullDereferenced(b)
    BY DEF ImportTruncates, Import, block_store_deserialize, NullDereferenced, Mapped, IInv
  <1> QED BY <1>9, <1>10, <1>11, <1>12, <1>13, <1>14, <1>15, <1>16, <1>17, <1>18,
             <1>19, <1>20, <1>21, <1>22 DEF Next

(* Every step of the device is one of a pool of blocks that keeps its      *)
(* state when the process ends or dies, but for imports and calls with the *)
(* number one past the last: what block_store.h promises but for these.    *)
THEOREM DeviceImplementsPool == Spec => ImplementsBlockPool
  <1>1. Init => Pool!Init
    <2> SUFFICES ASSUME Init PROVE Pool!Init
      OBVIOUS
    <2>1. up = FALSE /\ file \in {Missing, Short} /\ res = Result("none", TRUE, {})
      BY DEF Init
    <2>2. Seen(file) = [ok |-> FALSE, used |-> {}, content |-> [b \in Usable |-> {}]]
      BY <2>1, NoFileIs
    <2> QED BY <2>1, <2>2, ZerosAre DEF Pool!Init, Pool!NoImage, Pool!Result, Result
  <1>2. IInv /\ [Next]_vars => IInv'
    <2>1. ASSUME IInv, UNCHANGED vars PROVE IInv'
      BY <2>1 DEF IInv, vars, IsMemory
    <2> QED BY <2>1, NextInv
  <1>3. IInv /\ IInv' /\ [Next]_vars => [InImport \/ AtEdge \/ Pool!Next]_Pool!pvars
    <2>1. UNCHANGED vars => UNCHANGED Pool!pvars
      BY DEF vars, Pool!pvars, mem
    <2> QED BY <2>1, StepRefines DEF InImport
  <1> QED BY InitInv, <1>1, <1>2, <1>3, PTL DEF Spec, ImplementsBlockPool
=============================================================================
