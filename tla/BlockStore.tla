----------------------------- MODULE BlockStore -----------------------------
(***************************************************************************)
(* a4_block_store_nwewnh/src/block_store.c: a store in memory whose map    *)
(* lies in its own blocks 127 and 128 (FbmStart ..), with bits for all     *)
(* blocks, those two marked in use; and its image in a file.               *)
(*                                                                         *)
(* Callers write the blocks they were handed, and do not release the ones  *)
(* of the map: the store does not stop them.  malloc succeeds.             *)
(***************************************************************************)
EXTENDS BlockOverlay

CONSTANTS
    Ids,      \* the block numbers callers use
    Buffers   \* what callers write in a block

ASSUME CallerAssumption ==
    /\ Ids \subseteq Nat
    /\ Buffers \subseteq Cells
    /\ BitCount = NumBlocks

VARIABLES
    up,      \* whether a process has a store
    mem,     \* its blocks
    file,    \* the file of the image
    saving,  \* the file is truncated and not yet written
    res      \* what the last call returned; of a write, the buffer

vars == <<up, mem, file, saving, res>>

Damaged == [ok |-> FALSE, mem |-> Zeros]
Result(op, ok, val) == [op |-> op, ok |-> ok, val |-> val]

Init ==
    /\ up = FALSE
    /\ mem = Zeros
    /\ file = Damaged   \* there is none
    /\ saving = FALSE
    /\ res = Result("none", TRUE, {})

\* Mutant: the map's own blocks are not marked.
NewStore_unmarked == Zeros

\* A new store: zeros, and the bits of the map's own blocks.
NewStore == [a \in Addresses |->
               {i \in Byte : \E f \in FbmBlocks : Address(fbm, f) = a /\ f % ByteBits = i}]

\* Mutant: one number too many is accepted.
InRange_upto(b) == b <= NumBlocks

InRange(b) == b < NumBlocks
Ready == up /\ ~saving

block_store_create ==
    /\ ~up /\ up' = TRUE
    /\ mem' = NewStore
    /\ res' = Result("create", TRUE, {})
    /\ UNCHANGED <<file, saving>>

\* The process ends, or calls block_store_destroy.
block_store_destroy ==
    /\ up /\ up' = FALSE
    /\ mem' = Zeros
    /\ saving' = FALSE
    /\ UNCHANGED <<file, res>>

Granted(b) == InRange(b) /\ ~bitmap_test(fbm, mem, b)

block_store_request(b) ==
    /\ Ready
    /\ mem' = IF InRange(b) THEN bitmap_set(fbm, mem, b) ELSE mem
    /\ res' = Result("request", Granted(b), {})
    /\ UNCHANGED <<up, file, saving>>

block_store_allocate ==
    /\ Ready
    /\ LET b == bitmap_ffz(fbm, mem)
       IN  \/ /\ b # SIZE_MAX /\ Granted(b)
              /\ mem' = bitmap_set(fbm, mem, b)
              /\ res' = Result("allocate", TRUE, {b})
           \/ /\ b = SIZE_MAX
              /\ res' = Result("allocate", FALSE, {})
              /\ UNCHANGED mem
    /\ UNCHANGED <<up, file, saving>>

block_store_release(b) ==
    /\ Ready /\ b \notin FbmBlocks
    /\ mem' = IF InRange(b) THEN bitmap_reset(fbm, mem, b) ELSE mem
    /\ res' = Result("release", TRUE, {})
    /\ UNCHANGED <<up, file, saving>>

block_store_write(b, buffer) ==
    /\ Ready
    /\ \/ /\ InRange(b) /\ b \in UsedOf(mem)
          /\ mem' = WriteBlock(mem, b, buffer)
          /\ res' = Result("write", TRUE, buffer)
       \/ /\ ~InRange(b)
          /\ res' = Result("write", FALSE, {})
          /\ UNCHANGED mem
    /\ UNCHANGED <<up, file, saving>>

block_store_read(b) ==
    /\ Ready /\ b \notin FbmBlocks
    /\ res' = IF InRange(b) THEN Result("read", TRUE, ReadBlock(mem, b))
              ELSE Result("read", FALSE, {})
    /\ UNCHANGED <<up, mem, file, saving>>

\* Counts include the blocks of the map.
block_store_get_used_blocks ==
    /\ Ready
    /\ res' = Result("used", TRUE, {bitmap_total_set(fbm, mem)})
    /\ UNCHANGED <<up, mem, file, saving>>

block_store_get_free_blocks ==
    /\ Ready
    /\ res' = Result("free", TRUE, {fbm.bit_count - bitmap_total_set(fbm, mem)})
    /\ UNCHANGED <<up, mem, file, saving>>

\* open with O_TRUNC; the image that was there is gone.
block_store_serialize ==
    /\ Ready
    /\ saving' = TRUE
    /\ file' = Damaged
    /\ UNCHANGED <<up, mem, res>>

\* One write call, which may fall short.
SerializeWrites ==
    /\ up /\ saving /\ saving' = FALSE
    /\ \/ /\ file' = [ok |-> TRUE, mem |-> mem]
          /\ res' = Result("save", TRUE, {})
       \/ /\ res' = Result("save", FALSE, {})
          /\ UNCHANGED file
    /\ UNCHANGED <<up, mem>>

\* A file that is missing or too short gives no store.
block_store_deserialize ==
    /\ ~up
    /\ \/ /\ file.ok /\ up' = TRUE
          /\ mem' = file.mem
          /\ res' = Result("load", TRUE, {})
       \/ /\ ~file.ok
          /\ res' = Result("load", FALSE, {})
          /\ UNCHANGED <<up, mem>>
    /\ UNCHANGED <<file, saving>>

Next ==
    \/ block_store_create \/ block_store_destroy \/ block_store_allocate
    \/ \E b \in Ids : \/ block_store_request(b) \/ block_store_release(b)
                      \/ block_store_read(b)
                      \/ \E buffer \in Buffers : block_store_write(b, buffer)
    \/ block_store_get_used_blocks \/ block_store_get_free_blocks
    \/ block_store_serialize \/ SerializeWrites \/ block_store_deserialize

Spec == Init /\ [][Next]_vars

-----------------------------------------------------------------------------
(* The blocks of the map are marked in it in every store and every image,  *)
(* so that they are never handed out: the map never allocates itself.      *)
MapMarked(m) == \A f \in FbmBlocks : bitmap_test(fbm, m, f)

MapNeverFree ==
    /\ up => MapMarked(mem)
    /\ file.ok => MapMarked(file.mem)

(* Seen through its own map, the memory is a pool of blocks: no block is   *)
(* handed out twice, no write changes another block or the map, and an     *)
(* image brings back all of what was saved or is refused.                  *)
Seen(m) == [ok |-> m.ok, used |-> UsedOf(m.mem), content |-> ContentOf(m.mem)]

Pool == INSTANCE BlockPool WITH
    Zero <- {}, Mirror <- FALSE, Own <- Cardinality(FbmBlocks),
    used <- UsedOf(mem), content <- ContentOf(mem), saved <- Seen(file)

ImplementsBlockPool == Pool!Spec
=============================================================================
