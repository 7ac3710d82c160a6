---------------------------- MODULE MCBlockStore ----------------------------
(* The values of BlockStore's constants for TLC, and the laws of bitmap.c  *)
(* over all small bitmaps: whole bytes and parts of one, laid over any     *)
(* place of any memory of three bytes.                                     *)
EXTENDS BlockStore

MCBuffers == {{0}, {0, 1}}

SomeMemories == [0 .. 2 -> SUBSET Byte]
SomeBitmaps  == {bitmap_overlay(n_bits, data) : n_bits \in 1 .. 2 * ByteBits, data \in 0 .. 1}

(* Each operation changes the bits it is about and none before or behind   *)
(* the bitmap, the searches find the first bit, and the count, which masks *)
(* the last byte, counts the bits below bit_count only.                    *)
ASSUME BitmapLaws ==
    \A bitmap \in SomeBitmaps, m \in SomeMemories :
      LET set == SetBits(bitmap, m)
          Becomes(n, bits) == /\ SetBits(bitmap, n) = bits
                              /\ \A a \in (0 .. 2) \ Bytes(bitmap) : n[a] = m[a]
          flipped == bitmap_invert(bitmap, m)
      IN  /\ \A bit \in Indices(bitmap) :
               /\ Becomes(bitmap_set(bitmap, m, bit), set \cup {bit})
               /\ Becomes(bitmap_reset(bitmap, m, bit), set \ {bit})
               /\ Becomes(bitmap_flip(bitmap, m, bit), (set \ {bit}) \cup ({bit} \ set))
          /\ Becomes(flipped, Indices(bitmap) \ set)
          /\ Becomes(bitmap_format(bitmap, m, All), Indices(bitmap))
          /\ bitmap_ffz(bitmap, m) = bitmap_ffs(bitmap, flipped)
          /\ bitmap_ffs(bitmap, m) = SIZE_MAX <=> set = {}
          /\ bitmap_total_set(bitmap, m) = Cardinality(set)
          /\ bitmap_total_set(bitmap, flipped) = bitmap.bit_count - Cardinality(set)

(* A copy of a bitmap's bytes is a bitmap of the same bits, and a new one  *)
(* has none.                                                               *)
ASSUME OwnMemoryLaws ==
    \A n_bits \in 1 .. 2 * ByteBits, m \in SomeMemories :
      LET bitmap == bitmap_initialize(n_bits, 0)
      IN  /\ SetBits(bitmap, bitmap_import(n_bits, m)) = SetBits(bitmap, m)
          /\ SetBits(bitmap, bitmap_create(n_bits)) = {}
=============================================================================
