---------------------------- MODULE BlockOverlay ----------------------------
(***************************************************************************)
(* The storage of both block stores: one memory of bytes that holds a row  *)
(* of blocks, over some of which the free-block map is laid.  A bit of the *)
(* map and a block are two views of one thing, as in the code.  The value  *)
(* of a block is the set of its bits that are 1.                           *)
(***************************************************************************)
EXTENDS Bitmap

CONSTANTS
    NumBlocks,  \* BLOCK_STORE_NUM_BLOCKS
    BlockBytes, \* BLOCK_SIZE_BYTES
    FbmStart,   \* the first block of the map
    BitCount    \* how many bits bitmap_overlay was given

NumBytes  == NumBlocks * BlockBytes
Addresses == 0 .. NumBytes - 1
Blocks    == 0 .. NumBlocks - 1
Bits      == 0 .. BlockBytes * ByteBits - 1
Cells     == SUBSET Bits

fbm == bitmap_overlay(BitCount, FbmStart * BlockBytes)

\* The blocks that the map would take if it had a bit for every block.
FbmBlocks == {b \in Blocks : \E i \in Blocks : b = Address(fbm, i) \div BlockBytes}
Usable    == Indices(fbm) \ FbmBlocks

ASSUME LayoutAssumption ==
    /\ NumBlocks \in Nat /\ BlockBytes \in Nat \ {0}
    /\ FbmStart \in Blocks
    /\ BitCount \in 1 .. NumBlocks
    /\ \A i \in Blocks : Address(fbm, i) \in Addresses

Zeros == [a \in Addresses |-> None]

ReadBlock(mem, b) ==
    {i \in Bits : i % ByteBits \in mem[b * BlockBytes + (i \div ByteBits)]}

WriteBlock(mem, b, buffer) ==
    [a \in Addresses |->
        IF a \div BlockBytes = b
        THEN {i \in Byte : (a % BlockBytes) * ByteBits + i \in buffer}
        ELSE mem[a]]

\* What a caller sees of the memory.
UsedOf(mem)    == SetBits(fbm, mem) \cap Usable
ContentOf(mem) == [b \in Usable |-> ReadBlock(mem, b)]
=============================================================================
