---------------------------- MODULE BitmapProofs ----------------------------
(***************************************************************************)
(* Proofs about Bitmap: for any width of a byte, any number of bits and    *)
(* any place of the bitmap in a memory, each operation on a bit changes    *)
(* that bit and no other byte, and the search finds the first zero.        *)
(* Then about BlockOverlay, what operations on the map and on the blocks   *)
(* do to both views of the memory: a bit of the map is no block of data, a *)
(* block of data no bit of the map, for any size of the store and any      *)
(* place of the map.                                                       *)
(***************************************************************************)
EXTENDS BlockOverlay, FiniteSetTheorems, WellFoundedInduction, TLAPS

\* A bitmap as bitmap_initialize makes it, within the memory.
IsBitmap(bitmap) ==
    \E n_bits \in Nat \ {0}, data \in Nat : bitmap = bitmap_initialize(n_bits, data)

LiesIn(bitmap, mem) ==
    mem = [a \in DOMAIN mem |-> mem[a]] /\ Bytes(bitmap) \subseteq DOMAIN mem

-----------------------------------------------------------------------------
(* Bits and bytes.                                                         *)

\* A number is what its quotient and its remainder say, and no other is.
LEMMA Division ==
    ASSUME NEW w \in Nat, w > 0, NEW n \in Nat
    PROVE  /\ n \div w \in Nat /\ n % w \in 0 .. w - 1
           /\ n = (w * (n \div w)) + (n % w)
  OBVIOUS

\* A quotient and a remainder are those of one number.
LEMMA DivisionOf ==
    ASSUME NEW w \in Nat, w > 0, NEW q \in Nat, NEW r \in 0 .. w - 1
    PROVE  ((w * q) + r) \div w = q /\ ((w * q) + r) % w = r
  OBVIOUS

\* Two bits that are the same bit of the same byte are one.
LEMMA BitIsPlace ==
    ASSUME NEW b \in Nat, NEW c \in Nat,
           b \div ByteBits = c \div ByteBits, b % ByteBits = c % ByteBits
    PROVE  b = c
  <1>1. ByteBits \in Nat /\ ByteBits > 0
    BY ByteAssumption
  <1> QED BY <1>1, Division

\* A multiple that is less is a multiple of less.
LEMMA LessTimes ==
    ASSUME NEW w \in Nat, w > 0, NEW p \in Nat, NEW q \in Nat, w * p < w * q
    PROVE  p < q
  OBVIOUS

\* Every bit lies in one of the bytes.
LEMMA InBytes ==
    ASSUME NEW bitmap, IsBitmap(bitmap), NEW bit \in Indices(bitmap)
    PROVE  /\ bit \in Nat /\ bitmap.data \in Nat
           /\ Address(bitmap, bit) \in Bytes(bitmap) /\ bit % ByteBits \in Byte
  <1>1. PICK n \in Nat \ {0}, data \in Nat : bitmap = bitmap_initialize(n, data)
    BY DEF IsBitmap
  <1> DEFINE w == ByteBits
             q == bit \div w
             full == n \div w
             count == full + (IF n % w = 0 THEN 0 ELSE 1)
  <1>2. w \in Nat /\ w > 0
    BY ByteAssumption
  <1>3. bitmap.data = data /\ bitmap.bit_count = n /\ bitmap.byte_count = count
    BY <1>1 DEF bitmap_initialize
  <1>4. bit \in Nat /\ bit < n
    BY <1>1, <1>3 DEF Indices
  <1>5. /\ q \in Nat /\ bit % w \in 0 .. w - 1 /\ bit = (w * q) + (bit % w)
        /\ full \in Nat /\ n % w \in 0 .. w - 1 /\ n = (w * full) + (n % w)
    BY <1>1, <1>2, <1>4, Division
  <1>6. count \in Nat /\ n <= w * count
    <2>1. CASE n % w = 0
      <3>1. count = full
        BY <1>5, <2>1
      <3>2. n = w * full
        BY <1>2, <1>5, <2>1
      <3> QED BY <1>2, <1>5, <3>1, <3>2
    <2>2. CASE n % w # 0
      <3>1. count = full + 1 /\ w * (full + 1) = (w * full) + w
        BY <1>2, <1>5, <2>2
      <3> QED BY <1>2, <1>5, <3>1
    <2> QED BY <2>1, <2>2
  <1>7. q < count
    <2> HIDE DEF q, count
    <2>1. w * q < w * count
      <3>1. w * q <= bit
        <4> DEFINE wq == w * q
                   r == bit % w
        <4>1. wq \in Nat /\ r \in Nat /\ bit = wq + r
          BY <1>2, <1>5
        <4> HIDE DEF wq, r
        <4>2. wq <= bit
          BY <4>1
        <4> QED BY <4>2 DEF wq
      <3> DEFINE wq == w * q
                 wc == w * count
      <3>2. wq \in Nat /\ wc \in Nat /\ wq <= bit /\ n <= wc
        BY <1>2, <1>5, <1>6, <3>1
      <3> HIDE DEF wq, wc
      <3>3. wq < wc
        BY <1>1, <1>4, <3>2
      <3> QED BY <3>3 DEF wq, wc
    <2> QED BY <1>2, <1>5, <1>6, <2>1, LessTimes
  <1>8. Address(bitmap, bit) \in Bytes(bitmap)
    BY <1>1, <1>3, <1>5, <1>6, <1>7 DEF Address, Bytes
  <1> QED BY <1>1, <1>3, <1>4, <1>5, <1>8 DEF Byte

\* Two bits in one byte differ in their places.
LEMMA OtherPlace ==
    ASSUME NEW bitmap, IsBitmap(bitmap),
           NEW bit \in Indices(bitmap), NEW other \in Indices(bitmap), other # bit,
           Address(bitmap, other) = Address(bitmap, bit)
    PROVE  other % ByteBits # bit % ByteBits
  <1>1. bit \in Nat /\ other \in Nat /\ bitmap.data \in Nat
    BY InBytes
  <1>2. ByteBits \in Nat /\ ByteBits > 0
    BY ByteAssumption
  <1>3. bit \div ByteBits \in Nat /\ other \div ByteBits \in Nat
    BY <1>1, <1>2, Division
  <1>4. bit \div ByteBits = other \div ByteBits
    BY <1>1, <1>3 DEF Address
  <1> QED BY <1>1, <1>4, BitIsPlace

-----------------------------------------------------------------------------
(* The operations on a bit.                                                *)

\* bitmap_set makes the bit 1, leaves the other bits of the bitmap, and
\* every byte but one.
THEOREM SetSetsOneBit ==
    ASSUME NEW bitmap, IsBitmap(bitmap), NEW mem, LiesIn(bitmap, mem),
           NEW bit \in Indices(bitmap)
    PROVE  /\ SetBits(bitmap, bitmap_set(bitmap, mem, bit)) = SetBits(bitmap, mem) \cup {bit}
           /\ \A a \in DOMAIN mem \ {Address(bitmap, bit)} :
                bitmap_set(bitmap, mem, bit)[a] = mem[a]
  <1> DEFINE after == bitmap_set(bitmap, mem, bit)
  <1>1. \A a \in DOMAIN mem \ {Address(bitmap, bit)} : after[a] = mem[a]
    BY DEF LiesIn, bitmap_set
  <1>2. after[Address(bitmap, bit)] = mem[Address(bitmap, bit)] \cup {bit % ByteBits}
    BY InBytes DEF LiesIn, bitmap_set
  <1> HIDE DEF after
  <1>3. ASSUME NEW other \in Indices(bitmap)
        PROVE  bitmap_test(bitmap, after, other) <=> bitmap_test(bitmap, mem, other) \/ other = bit
    <2>1. Address(bitmap, other) \in DOMAIN mem
      BY InBytes DEF LiesIn
    <2>2. CASE other = bit
      BY <1>2, <2>2 DEF bitmap_test
    <2>3. CASE other # bit /\ Address(bitmap, other) = Address(bitmap, bit)
      BY <1>2, <2>3, OtherPlace DEF bitmap_test
    <2>4. CASE Address(bitmap, other) # Address(bitmap, bit)
      BY <1>1, <2>1, <2>4 DEF bitmap_test
    <2> QED BY <2>2, <2>3, <2>4
  <1>4. SetBits(bitmap, after) = SetBits(bitmap, mem) \cup {bit}
    BY <1>3 DEF SetBits
  <1> QED BY <1>1, <1>4 DEF after

\* bitmap_reset makes the bit 0 and leaves the others.
THEOREM ResetResetsOneBit ==
    ASSUME NEW bitmap, IsBitmap(bitmap), NEW mem, LiesIn(bitmap, mem),
           NEW bit \in Indices(bitmap)
    PROVE  /\ SetBits(bitmap, bitmap_reset(bitmap, mem, bit)) = SetBits(bitmap, mem) \ {bit}
           /\ \A a \in DOMAIN mem \ {Address(bitmap, bit)} :
                bitmap_reset(bitmap, mem, bit)[a] = mem[a]
  <1> DEFINE after == bitmap_reset(bitmap, mem, bit)
  <1>1. \A a \in DOMAIN mem \ {Address(bitmap, bit)} : after[a] = mem[a]
    BY DEF LiesIn, bitmap_reset
  <1>2. after[Address(bitmap, bit)] = mem[Address(bitmap, bit)] \ {bit % ByteBits}
    BY InBytes DEF LiesIn, bitmap_reset
  <1> HIDE DEF after
  <1>3. ASSUME NEW other \in Indices(bitmap)
        PROVE  bitmap_test(bitmap, after, other) <=> bitmap_test(bitmap, mem, other) /\ other # bit
    <2>1. Address(bitmap, other) \in DOMAIN mem
      BY InBytes DEF LiesIn
    <2>2. CASE other = bit
      BY <1>2, <2>2 DEF bitmap_test
    <2>3. CASE other # bit /\ Address(bitmap, other) = Address(bitmap, bit)
      BY <1>2, <2>3, OtherPlace DEF bitmap_test
    <2>4. CASE Address(bitmap, other) # Address(bitmap, bit)
      BY <1>1, <2>1, <2>4 DEF bitmap_test
    <2> QED BY <2>2, <2>3, <2>4
  <1>4. SetBits(bitmap, after) = SetBits(bitmap, mem) \ {bit}
    BY <1>3 DEF SetBits
  <1> QED BY <1>1, <1>4 DEF after

\* bitmap_invert exchanges the bits that are 1 and those that are 0.
THEOREM InvertIsComplement ==
    ASSUME NEW bitmap, IsBitmap(bitmap), NEW mem, LiesIn(bitmap, mem)
    PROVE  SetBits(bitmap, bitmap_invert(bitmap, mem)) = Indices(bitmap) \ SetBits(bitmap, mem)
  <1>1. ASSUME NEW bit \in Indices(bitmap)
        PROVE  bitmap_test(bitmap, bitmap_invert(bitmap, mem), bit) <=> ~bitmap_test(bitmap, mem, bit)
    <2>1. /\ Address(bitmap, bit) \in Bytes(bitmap) /\ Address(bitmap, bit) \in DOMAIN mem
          /\ bit % ByteBits \in Byte
      BY InBytes DEF LiesIn
    <2> QED BY <2>1 DEF bitmap_test, bitmap_invert, All
  <1> QED BY <1>1 DEF SetBits

-----------------------------------------------------------------------------
(* The search.                                                             *)

\* Every set of natural numbers that is not empty has a least.
LEMMA LeastExists ==
    ASSUME NEW T, T \subseteq Nat, T # {}
    PROVE  \E x \in T : \A y \in T : x <= y
  <1> DEFINE Less == {ss \in Nat \X Nat : ss[1] < ss[2]}
  <1>1. OpToRel(<, Nat) = Less
    BY Zenon DEF OpToRel
  <1>2. IsWellFoundedOn(Less, Nat)
    BY <1>1, NatLessThanWellFounded
  <1>3. PICK x \in T : \A y \in T : ~ (<<y, x>> \in Less)
    BY <1>2, WFMin
  <1>4. ASSUME NEW y \in T PROVE x <= y
    <2>1. x \in Nat /\ y \in Nat
      OBVIOUS
    <2>2. ~ (y < x)
      BY <1>3, <2>1
    <2> QED BY <2>1, <2>2
  <1> QED BY <1>4

\* bitmap_ffz returns the first bit that is 0, and SIZE_MAX only if none is.
THEOREM FfzFindsFirstZero ==
    ASSUME NEW bitmap, IsBitmap(bitmap), NEW mem,
           NEW bit, bit = bitmap_ffz(bitmap, mem)
    PROVE  IF SetBits(bitmap, mem) = Indices(bitmap) THEN bit = SIZE_MAX
           ELSE /\ bit \in Indices(bitmap) \ SetBits(bitmap, mem)
                /\ \A other \in Indices(bitmap) : other < bit => other \in SetBits(bitmap, mem)
  <1> DEFINE zeros == Indices(bitmap) \ SetBits(bitmap, mem)
  <1>1. bit = LeastOf(zeros) /\ SetBits(bitmap, mem) \subseteq Indices(bitmap)
    BY DEF bitmap_ffz, SetBits
  <1>2. zeros \subseteq Nat /\ Indices(bitmap) \subseteq Nat
    BY InBytes
  <1>3. CASE SetBits(bitmap, mem) = Indices(bitmap)
    BY <1>1, <1>3 DEF LeastOf
  <1>4. CASE SetBits(bitmap, mem) # Indices(bitmap)
    <2>1. zeros # {}
      BY <1>1, <1>4
    <2> HIDE DEF zeros
    <2>2. \E x \in zeros : \A y \in zeros : x <= y
      BY <1>2, <2>1, LeastExists
    <2>3. bit \in zeros /\ \A y \in zeros : bit <= y
      BY <1>1, <2>1, <2>2 DEF LeastOf
    <2>4. \A other \in Indices(bitmap) : other < bit => other \notin zeros
      BY <1>2, <2>3
    <2> QED BY <1>4, <2>3, <2>4 DEF zeros
  <1> QED BY <1>3, <1>4

-----------------------------------------------------------------------------
(* Counting.                                                               *)

\* The bits of a bitmap are those of its whole bytes and the leftover ones.
LEMMA BitsAre ==
    ASSUME NEW bitmap, IsBitmap(bitmap), NEW q \in Nat, NEW r \in Byte
    PROVE  /\ bitmap.byte_count \in Nat
           /\ (ByteBits * q) + r \in Indices(bitmap) <=>
                /\ q < bitmap.byte_count
                /\ q = bitmap.byte_count - 1 /\ bitmap.leftover_bits # 0 =>
                     r \in 0 .. bitmap.leftover_bits - 1
  <1> DEFINE w == ByteBits
             bit == (w * q) + r
  <1>1. PICK n \in Nat \ {0}, data \in Nat : bitmap = bitmap_initialize(n, data)
    BY DEF IsBitmap
  <1> DEFINE full == n \div w
             over == n % w
  <1>2. w \in Nat /\ w > 0 /\ r \in 0 .. w - 1
    BY ByteAssumption DEF Byte
  <1>3. full \in Nat /\ over \in 0 .. w - 1 /\ n = (w * full) + over
    BY <1>1, <1>2, Division
  <1>4. /\ bitmap.bit_count = n /\ bitmap.leftover_bits = over
        /\ bitmap.byte_count = full + (IF over = 0 THEN 0 ELSE 1)
    BY <1>1 DEF bitmap_initialize
  <1>5. bit \in Nat /\ (bit \in Indices(bitmap) <=> bit < n)
    BY <1>1, <1>2, <1>4 DEF Indices
  <1> HIDE DEF full, over
  <1>6. CASE q < full
    <2>1. w * (q + 1) <= w * full /\ w * (q + 1) = (w * q) + w
      BY <1>2, <1>3, <1>6
    <2>2. bit < n
      BY <1>2, <1>3, <2>1
    <2> QED BY <1>3, <1>4, <1>5, <1>6, <2>2
  <1>7. CASE q = full
    <2>1. bit < n <=> r < over
      BY <1>2, <1>3, <1>7
    <2> QED BY <1>2, <1>3, <1>4, <1>5, <1>7, <2>1
  <1>8. CASE q > full
    <2>1. w * (full + 1) <= w * q /\ w * (full + 1) = (w * full) + w
      BY <1>2, <1>3, <1>8
    <2>2. ~ (bit < n)
      BY <1>2, <1>3, <2>1
    <2> QED BY <1>3, <1>4, <1>5, <1>8, <2>2
  <1> QED BY <1>3, <1>6, <1>7, <1>8

\* bitmap_total_set, which counts byte by byte with a mask on the last one,
\* counts the bits of the bitmap that are set and no leftover ones.
THEOREM TotalSetCountsBits ==
    ASSUME NEW bitmap, IsBitmap(bitmap), NEW mem
    PROVE  /\ bitmap_total_set(bitmap, mem) = Cardinality(SetBits(bitmap, mem))
           /\ IsFiniteSet(SetBits(bitmap, mem))
  <1> DEFINE w == ByteBits
             S == SetBits(bitmap, mem)
             last == bitmap.data + bitmap.byte_count - 1
             mask(a) == IF a = last /\ bitmap.leftover_bits # 0
                        THEN 0 .. bitmap.leftover_bits - 1 ELSE Byte
             T == {at \in Bytes(bitmap) \X Byte : at[2] \in mem[at[1]] \cap mask(at[1])}
             f == [bit \in S |-> <<Address(bitmap, bit), bit % w>>]
  <1>1. w \in Nat /\ w > 0
    BY ByteAssumption
  <1>2. PICK n \in Nat \ {0}, data \in Nat : bitmap = bitmap_initialize(n, data)
    BY DEF IsBitmap
  <1>3. bitmap.data = data /\ bitmap.bit_count = n /\ bitmap.byte_count \in Nat
    BY <1>2, BitsAre, ByteAssumption DEF bitmap_initialize, Byte
  <1>4. ASSUME NEW bit \in S
        PROVE  <<Address(bitmap, bit), bit % w>> \in T
    <2>1. /\ bit \in Indices(bitmap) /\ bit \in Nat /\ bit % w \in mem[Address(bitmap, bit)]
          /\ Address(bitmap, bit) \in Bytes(bitmap) /\ bit % w \in Byte
      BY InBytes DEF SetBits, bitmap_test
    <2>2. bit \div w \in Nat /\ bit = (w * (bit \div w)) + (bit % w)
      BY <1>1, <2>1, Division
    <2>3. /\ bit \div w < bitmap.byte_count
          /\ bit \div w = bitmap.byte_count - 1 /\ bitmap.leftover_bits # 0 =>
                     bit % w \in 0 .. bitmap.leftover_bits - 1
      BY <2>1, <2>2, BitsAre
    <2>4. bit % w \in mask(Address(bitmap, bit))
      <3>1. Address(bitmap, bit) = data + (bit \div w)
        BY <1>3 DEF Address
      <3>2. Address(bitmap, bit) = last => bit \div w = bitmap.byte_count - 1
        BY <1>2, <1>3, <2>2, <3>1
      <3> QED BY <2>1, <2>3, <3>2
    <2> QED BY <2>1, <2>4
  <1>5. ASSUME NEW a \in Bytes(bitmap), NEW i \in Byte, <<a, i>> \in T
        PROVE  \E bit \in S : f[bit] = <<a, i>>
    <2> DEFINE q == a - data
               bit == (w * q) + i
    <2>1. q \in Nat /\ q < bitmap.byte_count /\ i \in 0 .. w - 1 /\ a \in Int
      BY <1>1, <1>3 DEF Bytes, Byte
    <2>2. i \in mem[a] /\ i \in mask(a)
      BY <1>5
    <2>3. q = bitmap.byte_count - 1 /\ bitmap.leftover_bits # 0 =>
            i \in 0 .. bitmap.leftover_bits - 1
      BY <1>3, <2>1, <2>2
    <2>4. bit \in Indices(bitmap)
      BY <2>1, <2>3, BitsAre
    <2>5. bit \div w = q /\ bit % w = i
      BY <1>1, <2>1, DivisionOf
    <2>6. Address(bitmap, bit) = a
      BY <1>3, <2>1, <2>5 DEF Address
    <2>7. bit \in S
      BY <2>2, <2>4, <2>5, <2>6 DEF SetBits, bitmap_test
    <2> QED BY <2>5, <2>6, <2>7
  <1>6. ASSUME NEW b \in S, NEW c \in S, f[b] = f[c] PROVE b = c
    <2>1. b \in Indices(bitmap) /\ c \in Indices(bitmap)
      BY DEF SetBits
    <2>2. Address(bitmap, b) = Address(bitmap, c) /\ b % w = c % w
      BY <1>6
    <2> QED BY <2>1, <2>2, OtherPlace
  <1>7. f \in Bijection(S, T)
    <2>1. f \in [S -> T]
      BY <1>4
    <2>2. \A at \in T : \E bit \in S : f[bit] = at
      <3> SUFFICES ASSUME NEW at \in T PROVE \E bit \in S : f[bit] = at
        OBVIOUS
      <3>1. at[1] \in Bytes(bitmap) /\ at[2] \in Byte /\ at = <<at[1], at[2]>>
        OBVIOUS
      <3>2. <<at[1], at[2]>> \in T
        BY <3>1
      <3> HIDE DEF T, S, f
      <3> QED BY <1>5, <3>1, <3>2
    <2> HIDE DEF f, T, S
    <2> QED BY <1>6, <2>1, <2>2 DEF Bijection, Injection, IsInjective, Surjection
  <1>8. IsFiniteSet(S)
    <2>1. IsFiniteSet(0 .. n - 1)
      BY <1>2, FS_Interval
    <2>2. S \subseteq 0 .. n - 1
      BY <1>3 DEF SetBits, Indices
    <2> QED BY <2>1, <2>2, FS_Subset
  <1>9. bitmap_total_set(bitmap, mem) = Cardinality(T)
    BY DEF bitmap_total_set
  <1>10. Cardinality(T) = Cardinality(S)
    <2>1. ExistsBijection(S, T)
      BY <1>7 DEF ExistsBijection
    <2> HIDE DEF S, T
    <2> QED BY <1>8, <2>1, FS_Bijection
  <1> QED BY <1>8, <1>9, <1>10

-----------------------------------------------------------------------------
(* The memory of a block store.                                            *)

IsMemory(m) == m = [a \in Addresses |-> m[a]]

-----------------------------------------------------------------------------
(* Bytes and blocks.                                                       *)

LEMMA Layout ==
    /\ ByteBits \in Nat /\ ByteBits > 0
    /\ NumBlocks \in Nat /\ BlockBytes \in Nat /\ BlockBytes > 0
    /\ FbmStart \in Nat /\ BitCount \in Nat /\ BitCount > 0 /\ BitCount <= NumBlocks
    /\ fbm.data = FbmStart * BlockBytes /\ fbm.data \in Nat
    /\ fbm.bit_count = BitCount
    /\ Indices(fbm) \subseteq Blocks /\ Indices(fbm) \subseteq Nat
    /\ Blocks \subseteq Nat /\ IsFiniteSet(Blocks)
  <1>1. /\ ByteBits \in Nat /\ ByteBits > 0
        /\ NumBlocks \in Nat /\ BlockBytes \in Nat /\ BlockBytes > 0
        /\ FbmStart \in Nat /\ BitCount \in Nat /\ BitCount > 0 /\ BitCount <= NumBlocks
    BY ByteAssumption, LayoutAssumption DEF Blocks
  <1>2. fbm.data = FbmStart * BlockBytes /\ fbm.bit_count = BitCount
    BY DEF fbm, bitmap_overlay, bitmap_initialize
  <1>3. fbm.data \in Nat
    BY <1>1, <1>2
  <1>4. Indices(fbm) \subseteq Blocks /\ Blocks \subseteq Nat
    BY <1>1, <1>2 DEF Indices, Blocks
  <1>5. IsFiniteSet(Blocks)
    BY <1>1, FS_Interval DEF Blocks
  <1> QED BY <1>1, <1>2, <1>3, <1>4, <1>5

LEMMA FbmIsBitmap == IsBitmap(fbm)
  BY Layout DEF IsBitmap, fbm, bitmap_overlay

\* The byte of a block's bit is in one of the blocks of the map.
LEMMA MapByte ==
    ASSUME NEW f \in Blocks
    PROVE  /\ Address(fbm, f) \in Addresses
           /\ Address(fbm, f) \div BlockBytes \in FbmBlocks
  <1> DEFINE a == Address(fbm, f)
  <1>1. NumBlocks \in Nat /\ BlockBytes \in Nat /\ BlockBytes > 0
    BY LayoutAssumption
  <1>2. a \in Addresses
    BY LayoutAssumption
  <1>3. a \in Nat /\ a < NumBlocks * BlockBytes
    BY <1>1, <1>2 DEF Addresses, NumBytes
  <1> HIDE DEF a
  <1>4. /\ a \div BlockBytes \in Nat
        /\ a >= BlockBytes * (a \div BlockBytes)
    BY <1>1, <1>3, Division
  <1>5. a \div BlockBytes < NumBlocks
    <2> DEFINE q == a \div BlockBytes
    <2>1. BlockBytes * q < BlockBytes * NumBlocks
      BY <1>1, <1>3, <1>4
    <2>2. q \in Nat
      BY <1>4
    <2> HIDE DEF q
    <2>3. q < NumBlocks
      BY <2>1, <2>2, <1>1
    <2> QED BY <2>3 DEF q
  <1>6. a \div BlockBytes \in Blocks
    BY <1>1, <1>4, <1>5 DEF Blocks
  <1> QED BY <1>2, <1>6 DEF FbmBlocks, a

\* All bytes of the map are bytes of the memory.
LEMMA FbmLiesIn ==
    ASSUME NEW m, IsMemory(m) PROVE LiesIn(fbm, m)
  <1>1. ASSUME NEW a \in Bytes(fbm) PROVE a \in Addresses
    <2> DEFINE q == a - fbm.data
    <2>1. fbm.byte_count \in Nat /\ 0 \in Byte
      BY Layout, FbmIsBitmap, BitsAre DEF Byte
    <2>2. q \in Nat /\ q < fbm.byte_count
      BY <2>1, Layout DEF Bytes
    <2>3. 0 <= fbm.leftover_bits - 1 \/ fbm.leftover_bits = 0
      BY Layout, Division DEF fbm, bitmap_overlay, bitmap_initialize
    <2>4. fbm.leftover_bits \in Int
      BY Layout, Division DEF fbm, bitmap_overlay, bitmap_initialize
    <2>5. (ByteBits * q) + 0 \in Indices(fbm)
      BY <2>1, <2>2, <2>3, <2>4, FbmIsBitmap, BitsAre
    <2>6. ((ByteBits * q) + 0) \div ByteBits = q
      BY <2>2, Layout, DivisionOf
    <2>7. Address(fbm, (ByteBits * q) + 0) = a
      BY <2>2, <2>6, Layout DEF Address, Bytes
    <2> QED BY <2>5, <2>7, Layout, MapByte
  <1>2. DOMAIN m = Addresses
    BY DEF IsMemory
  <1> QED BY <1>1, <1>2 DEF LiesIn, IsMemory

\* Where a bit of a block lies.
LEMMA BlockByte ==
    ASSUME NEW b \in Blocks, NEW i \in Bits
    PROVE  /\ b * BlockBytes + (i \div ByteBits) \in Addresses
           /\ (b * BlockBytes + (i \div ByteBits)) \div BlockBytes = b
           /\ (b * BlockBytes + (i \div ByteBits)) % BlockBytes = i \div ByteBits
           /\ i % ByteBits \in Byte
           /\ (i \div ByteBits) * ByteBits + (i % ByteBits) = i
  <1> DEFINE w == ByteBits
             n == BlockBytes
             k == i \div w
  <1>1. /\ w \in Nat /\ w > 0 /\ n \in Nat /\ n > 0 /\ NumBlocks \in Nat
        /\ b \in Nat /\ b < NumBlocks
    BY Layout DEF Blocks
  <1>2. i \in Nat /\ i < n * w
    BY <1>1 DEF Bits
  <1>3. k \in Nat /\ i % w \in 0 .. w - 1 /\ i = (w * k) + (i % w)
    BY <1>1, <1>2, Division
  <1> HIDE DEF k
  <1>4. k < n
    <2>1. w * k < w * n
      BY <1>1, <1>2, <1>3
    <2> QED BY <1>1, <1>3, <2>1, LessTimes
  <1>5. (n * b) + k = b * n + k /\ k \in 0 .. n - 1
    BY <1>1, <1>3, <1>4
  <1>6. (b * n + k) \div n = b /\ (b * n + k) % n = k
    BY <1>1, <1>5, DivisionOf
  <1>7. b * n + k \in Addresses
    <2>1. n * (b + 1) <= n * NumBlocks /\ n * (b + 1) = (n * b) + n
      BY <1>1
    <2>2. b * n + k \in Nat /\ b * n + k < NumBlocks * n
      BY <1>1, <1>3, <1>4, <2>1
    <2> QED BY <1>1, <2>2 DEF Addresses, NumBytes
  <1> QED BY <1>1, <1>3, <1>6, <1>7 DEF k, Byte

-----------------------------------------------------------------------------
(* The two views.                                                          *)

\* What changes only in the blocks of the map changes no block of data.
LEMMA DataKept ==
    ASSUME NEW m, NEW n,
           \A a \in Addresses : a \div BlockBytes \notin FbmBlocks => n[a] = m[a]
    PROVE  ContentOf(n) = ContentOf(m)
  <1>1. ASSUME NEW b \in Usable PROVE ReadBlock(n, b) = ReadBlock(m, b)
    <2>1. b \in Blocks /\ b \notin FbmBlocks
      BY Layout DEF Usable
    <2>2. ASSUME NEW i \in Bits
          PROVE  n[b * BlockBytes + (i \div ByteBits)] = m[b * BlockBytes + (i \div ByteBits)]
      BY <2>1, BlockByte
    <2> QED BY <2>2 DEF ReadBlock
  <1> QED BY <1>1 DEF ContentOf

LEMMA SetKeeps ==
    ASSUME NEW m, IsMemory(m), NEW b \in Indices(fbm)
    PROVE  LET n == bitmap_set(fbm, m, b)
           IN  /\ IsMemory(n)
               /\ SetBits(fbm, n) = SetBits(fbm, m) \cup {b}
               /\ UsedOf(n) = UsedOf(m) \cup ({b} \cap Usable)
               /\ ContentOf(n) = ContentOf(m)
  <1> DEFINE n == bitmap_set(fbm, m, b)
  <1>1. IsMemory(n)
    BY DEF IsMemory, bitmap_set
  <1>2. /\ SetBits(fbm, n) = SetBits(fbm, m) \cup {b}
        /\ \A a \in DOMAIN m \ {Address(fbm, b)} : n[a] = m[a]
    BY FbmIsBitmap, FbmLiesIn, SetSetsOneBit
  <1>3. Address(fbm, b) \div BlockBytes \in FbmBlocks
    BY Layout, MapByte
  <1>4. DOMAIN m = Addresses
    BY DEF IsMemory
  <1>5. ContentOf(n) = ContentOf(m)
    BY <1>2, <1>3, <1>4, DataKept
  <1> QED BY <1>1, <1>2, <1>5 DEF UsedOf

LEMMA ResetKeeps ==
    ASSUME NEW m, IsMemory(m), NEW b \in Indices(fbm)
    PROVE  LET n == bitmap_reset(fbm, m, b)
           IN  /\ IsMemory(n)
               /\ SetBits(fbm, n) = SetBits(fbm, m) \ {b}
               /\ UsedOf(n) = UsedOf(m) \ {b}
               /\ ContentOf(n) = ContentOf(m)
  <1> DEFINE n == bitmap_reset(fbm, m, b)
  <1>1. IsMemory(n)
    BY DEF IsMemory, bitmap_reset
  <1>2. /\ SetBits(fbm, n) = SetBits(fbm, m) \ {b}
        /\ \A a \in DOMAIN m \ {Address(fbm, b)} : n[a] = m[a]
    BY FbmIsBitmap, FbmLiesIn, ResetResetsOneBit
  <1>3. Address(fbm, b) \div BlockBytes \in FbmBlocks
    BY Layout, MapByte
  <1>4. DOMAIN m = Addresses
    BY DEF IsMemory
  <1>5. ContentOf(n) = ContentOf(m)
    BY <1>2, <1>3, <1>4, DataKept
  <1> QED BY <1>1, <1>2, <1>5 DEF UsedOf

\* A block of data that is written holds what was written, no other block
\* of data changes, and no bit of the map does.
LEMMA WriteKeeps ==
    ASSUME NEW m, IsMemory(m), NEW b \in Usable, NEW buffer \in Cells
    PROVE  LET n == WriteBlock(m, b, buffer)
           IN  /\ IsMemory(n)
               /\ SetBits(fbm, n) = SetBits(fbm, m)
               /\ UsedOf(n) = UsedOf(m)
               /\ ContentOf(n) = [ContentOf(m) EXCEPT ![b] = buffer]
  <1> DEFINE n == WriteBlock(m, b, buffer)
  <1>1. b \in Blocks /\ b \notin FbmBlocks
    BY Layout DEF Usable
  <1>2. IsMemory(n)
    BY DEF IsMemory, WriteBlock
  <1>3. ASSUME NEW f \in Indices(fbm) PROVE n[Address(fbm, f)] = m[Address(fbm, f)]
    <2>1. Address(fbm, f) \in Addresses /\ Address(fbm, f) \div BlockBytes # b
      BY <1>1, Layout, MapByte
    <2> QED BY <2>1 DEF WriteBlock
  <1>4. SetBits(fbm, n) = SetBits(fbm, m)
    BY <1>3 DEF SetBits, bitmap_test
  <1>5. ReadBlock(n, b) = buffer
    <2>1. buffer \subseteq Bits
      BY DEF Cells
    <2>2. ASSUME NEW i \in Bits
          PROVE  i % ByteBits \in n[b * BlockBytes + (i \div ByteBits)] <=> i \in buffer
      <3> DEFINE a == b * BlockBytes + (i \div ByteBits)
      <3>1. /\ a \in Addresses /\ a \div BlockBytes = b
            /\ a % BlockBytes = i \div ByteBits
            /\ i % ByteBits \in Byte
            /\ (i \div ByteBits) * ByteBits + (i % ByteBits) = i
        BY <1>1, BlockByte
      <3>2. n[a] = {j \in Byte : (i \div ByteBits) * ByteBits + j \in buffer}
        BY <3>1 DEF WriteBlock
      <3> HIDE DEF a, n
      <3> QED BY <3>1, <3>2 DEF a
    <2> HIDE DEF n
    <2> QED BY <2>1, <2>2 DEF ReadBlock
  <1>6. ASSUME NEW c \in Usable, c # b PROVE ReadBlock(n, c) = ReadBlock(m, c)
    <2>1. c \in Blocks
      BY Layout DEF Usable
    <2>2. ASSUME NEW i \in Bits
          PROVE  n[c * BlockBytes + (i \div ByteBits)] = m[c * BlockBytes + (i \div ByteBits)]
      <3>1. /\ c * BlockBytes + (i \div ByteBits) \in Addresses
            /\ (c * BlockBytes + (i \div ByteBits)) \div BlockBytes # b
        BY <1>6, <2>1, BlockByte
      <3> QED BY <3>1 DEF WriteBlock
    <2> QED BY <2>2 DEF ReadBlock
  <1>7. ContentOf(n) = [ContentOf(m) EXCEPT ![b] = buffer]
    <2> HIDE DEF n
    <2> QED BY <1>5, <1>6 DEF ContentOf
  <1> QED BY <1>2, <1>4, <1>7 DEF UsedOf

\* Memory of zeros is an empty map and empty blocks.
LEMMA ZerosAre ==
    /\ IsMemory(Zeros)
    /\ SetBits(fbm, Zeros) = {} /\ UsedOf(Zeros) = {}
    /\ ContentOf(Zeros) = [b \in Usable |-> {}]
  <1>1. IsMemory(Zeros)
    BY DEF IsMemory, Zeros
  <1>2. SetBits(fbm, Zeros) = {}
    BY Layout, MapByte DEF SetBits, bitmap_test, Zeros, None
  <1>3. ASSUME NEW b \in Usable PROVE ReadBlock(Zeros, b) = {}
    <2>1. b \in Blocks
      BY Layout DEF Usable
    <2>2. \A i \in Bits : Zeros[b * BlockBytes + (i \div ByteBits)] = {}
      BY <2>1, BlockByte DEF Zeros, None
    <2> QED BY <2>2 DEF ReadBlock
  <1> QED BY <1>1, <1>2, <1>3 DEF UsedOf, ContentOf

LEMMA SetsAreFinite ==
    /\ IsFiniteSet(Indices(fbm)) /\ Cardinality(Indices(fbm)) = BitCount
    /\ IsFiniteSet(Usable) /\ IsFiniteSet(FbmBlocks)
    /\ \A m : IsFiniteSet(SetBits(fbm, m)) /\ SetBits(fbm, m) \subseteq Indices(fbm)
  <1>1. Indices(fbm) = 0 .. BitCount - 1
    BY Layout DEF Indices
  <1>2. IsFiniteSet(Indices(fbm)) /\ Cardinality(Indices(fbm)) = BitCount
    BY <1>1, Layout, FS_Interval
  <1>3. Usable \subseteq Indices(fbm) /\ FbmBlocks \subseteq Blocks
    BY DEF Usable, FbmBlocks
  <1>4. IsFiniteSet(Usable) /\ IsFiniteSet(FbmBlocks)
    BY <1>2, <1>3, Layout, FS_Subset
  <1>5. \A m : SetBits(fbm, m) \subseteq Indices(fbm)
    BY DEF SetBits
  <1>6. \A m : IsFiniteSet(SetBits(fbm, m))
    BY <1>2, <1>5, FS_Subset
  <1> QED BY <1>2, <1>4, <1>5, <1>6
=============================================================================
