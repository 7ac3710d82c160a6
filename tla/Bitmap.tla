------------------------------- MODULE Bitmap -------------------------------
(***************************************************************************)
(* bitmap.c of a4_block_store_nwewnh and a5_file_system_nwewnh: a row of   *)
(* bits in consecutive bytes of a memory.  A byte is the set of its bits   *)
(* that are 1.  The memory is the bitmap's own, or one it is laid over: in *)
(* both cases the operations take it and return what it becomes.           *)
(***************************************************************************)
EXTENDS Integers, FiniteSets

CONSTANT ByteBits   \* the bits of a byte: 8

ASSUME ByteAssumption == ByteBits \in Nat \ {0}

Byte == 0 .. ByteBits - 1
SIZE_MAX == -1
None == {}           \* the byte 0x00
All  == Byte         \* the byte 0xff

\* The struct bitmap of n_bits > 0 bits from address data on.
bitmap_initialize(n_bits, data) ==
    [data |-> data, bit_count |-> n_bits, leftover_bits |-> n_bits % ByteBits,
     byte_count |-> (n_bits \div ByteBits) + (IF n_bits % ByteBits = 0 THEN 0 ELSE 1)]

bitmap_overlay(n_bits, bitmap_data) == bitmap_initialize(n_bits, bitmap_data)

Bytes(bitmap) == bitmap.data .. bitmap.data + bitmap.byte_count - 1
Indices(bitmap) == 0 .. bitmap.bit_count - 1
Address(bitmap, bit) == bitmap.data + (bit \div ByteBits)

bitmap_test(bitmap, mem, bit) == bit % ByteBits \in mem[Address(bitmap, bit)]

bitmap_set(bitmap, mem, bit) ==
    [mem EXCEPT ![Address(bitmap, bit)] = @ \cup {bit % ByteBits}]

bitmap_reset(bitmap, mem, bit) ==
    [mem EXCEPT ![Address(bitmap, bit)] = @ \ {bit % ByteBits}]

bitmap_flip(bitmap, mem, bit) ==
    IF bitmap_test(bitmap, mem, bit) THEN bitmap_reset(bitmap, mem, bit)
    ELSE bitmap_set(bitmap, mem, bit)

\* The leftover bits of the last byte are inverted and formatted as well.
bitmap_invert(bitmap, mem) ==
    [a \in DOMAIN mem |-> IF a \in Bytes(bitmap) THEN All \ mem[a] ELSE mem[a]]

bitmap_format(bitmap, mem, pattern) ==
    [a \in DOMAIN mem |-> IF a \in Bytes(bitmap) THEN pattern ELSE mem[a]]

\* The memory of a bitmap of its own starts at address 0.
bitmap_create(n_bits) ==
    [a \in Bytes(bitmap_initialize(n_bits, 0)) |-> None]

bitmap_import(n_bits, bitmap_data) ==
    [a \in Bytes(bitmap_initialize(n_bits, 0)) |-> bitmap_data[a]]

\* What bitmap_for_each calls its function with.
SetBits(bitmap, mem) == {bit \in Indices(bitmap) : bitmap_test(bitmap, mem, bit)}

LeastOf(bits) ==
    IF bits = {} THEN SIZE_MAX
    ELSE CHOOSE bit \in bits : \A other \in bits : bit <= other

bitmap_ffs(bitmap, mem) == LeastOf(SetBits(bitmap, mem))

bitmap_ffz(bitmap, mem) == LeastOf(Indices(bitmap) \ SetBits(bitmap, mem))

\* Byte by byte, with a mask on the last one if it has leftover bits.
bitmap_total_set(bitmap, mem) ==
    LET last == bitmap.data + bitmap.byte_count - 1
        mask(a) == IF a = last /\ bitmap.leftover_bits # 0
                   THEN 0 .. bitmap.leftover_bits - 1 ELSE Byte
    IN  Cardinality({at \in Bytes(bitmap) \X Byte : at[2] \in mem[at[1]] \cap mask(at[1])})
=============================================================================
