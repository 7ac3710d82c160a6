----------------------------- MODULE BlockDevice -----------------------------
(***************************************************************************)
(* a5_file_system_nwewnh/src/block_store.c, the device of the file system: *)
(* a file mapped MAP_SHARED, whose last 8 blocks hold the map.  The map is *)
(* a bitmap of BitCount = BLOCK_STORE_AVAIL_BLOCKS bits; the bits of its   *)
(* own blocks, past those, are the guard byte that create stores.          *)
(*                                                                         *)
(* create destroys the old contents, then sizes, maps and fills the file:  *)
(* steps between which the process may die.  deserialize calls create on   *)
(* the file it is to import, and returns a store that keeps its blocks in  *)
(* that file but has no map.  The block numbers accepted are 0 .. BitCount,*)
(* one more than there are.  Callers write only blocks that the map says   *)
(* are in use; of an imported store, any.                                  *)
(***************************************************************************)
EXTENDS BlockOverlay

CONSTANTS
    Ids,      \* the block numbers callers use
    Buffers   \* what callers write in a block

ASSUME CallerAssumption ==
    /\ Ids \subseteq Nat
    /\ Buffers \subseteq Cells
    /\ BitCount = FbmStart
    /\ FbmBlocks = FbmStart .. NumBlocks - 1
    /\ Address(fbm, NumBlocks - 1) = NumBytes - 1
    /\ BitCount = NumBlocks - ByteBits

VARIABLES
    up,      \* whether a process has the device open
    file,    \* the device, which is mapped while up
    pc,      \* how far block_store_create or block_store_deserialize has come
    import,  \* the import that is under way, or made the store that is open
    export,  \* the blocks in the file block_store_serialize wrote
    res      \* what the last call returned; of a write, the buffer

vars == <<up, file, pc, import, export, res>>

Missing == [there |-> FALSE, ok |-> FALSE, mem |-> Zeros]
Short == [there |-> TRUE, ok |-> FALSE, mem |-> Zeros]   \* too short to open
Sized(mem) == [there |-> TRUE, ok |-> TRUE, mem |-> mem]

\* What can be read out of the file.
Seen(f) == [ok |-> f.ok, used |-> UsedOf(f.mem), content |-> ContentOf(f.mem)]

\* An import, with what the file held when it began (a ghost), or none.
NoImport == [on |-> FALSE, image |-> Seen(Missing)]
Import(f) == [on |-> TRUE, image |-> Seen(f)]

Result(op, ok, val) == [op |-> op, ok |-> ok, val |-> val]

Init ==
    /\ up = FALSE
    /\ file \in {Missing, Short}
    /\ pc = "idle"
    /\ import = NoImport
    /\ export = ContentOf(Zeros)
    /\ res = Result("none", TRUE, {})

Accepted(b) == b <= BitCount
Ready == up /\ pc = "idle"
mem == file.mem

\* The struct bitmap of an imported store holds the first bytes of the map
\* of a new device, which are 0: no bits, and data is NULL.
NullMap == [data |-> 0, bit_count |-> 0, leftover_bits |-> 0, byte_count |-> 0]
Map == IF import.on THEN NullMap ELSE fbm

Store(m) == file' = Sized(m)

-----------------------------------------------------------------------------
(* Making, opening and closing the device.                                 *)

\* create_file: open with O_TRUNC.
CreateTruncates ==
    /\ ~up /\ pc = "idle"
    /\ file' = Short
    /\ pc' = "sized"
    /\ UNCHANGED <<up, import, export, res>>

\* block_store_deserialize opens the file, and calls block_store_create.
ImportTruncates ==
    /\ ~up /\ pc = "idle" /\ file.there
    /\ file' = Short
    /\ pc' = "sized"
    /\ import' = Import(file)
    /\ UNCHANGED <<up, export, res>>

ImportRefused ==
    /\ ~up /\ pc = "idle" /\ ~file.there
    /\ res' = Result("load", FALSE, {})
    /\ UNCHANGED <<up, file, pc, import, export>>

\* create_file: ftruncate.
CreateSizes ==
    /\ pc = "sized"
    /\ Store(Zeros)
    /\ pc' = "guard"
    /\ UNCHANGED <<up, import, export, res>>

\* Mutant: the guard is the first byte of the map.
Fresh_guards_first == [Zeros EXCEPT ![FbmStart * BlockBytes] = All]

\* Zeros, and 0xff in the last byte, which is the last of the map.
Fresh == [Zeros EXCEPT ![NumBytes - 1] = All]

block_store_create ==
    /\ pc = "guard"
    /\ Store(Fresh)
    /\ \/ /\ ~import.on
          /\ up' = TRUE /\ pc' = "idle"
          /\ res' = Result("create", TRUE, {})
       \/ /\ import.on
          /\ pc' = "read"
          /\ UNCHANGED <<up, res>>
    /\ UNCHANGED <<import, export>>

\* The blocks of the file are read into itself, and its map over the struct
\* bitmap; a store whose file could not be read is left mapped.
block_store_deserialize ==
    /\ pc = "read"
    /\ pc' = "idle"
    /\ \/ /\ up' = TRUE
          /\ res' = Result("load", TRUE, {})
          /\ UNCHANGED import
       \/ /\ import' = NoImport
          /\ res' = Result("load", FALSE, {})
          /\ UNCHANGED up
    /\ UNCHANGED <<file, export>>

block_store_open ==
    /\ ~up /\ pc = "idle"
    /\ up' = file.ok
    /\ res' = Result("load", file.ok, {})
    /\ UNCHANGED <<file, pc, import, export>>

\* The process calls block_store_destroy, or ends.
block_store_destroy ==
    /\ up
    /\ up' = FALSE
    /\ import' = NoImport
    /\ UNCHANGED <<file, pc, export, res>>

\* The process dies in block_store_create or block_store_deserialize.
Crash ==
    /\ pc # "idle"
    /\ pc' = "idle"
    /\ import' = NoImport
    /\ UNCHANGED <<up, file, export, res>>

-----------------------------------------------------------------------------
(* Operations on blocks.                                                   *)

block_store_allocate ==
    /\ Ready
    /\ LET b == bitmap_ffz(Map, mem)
       IN  \/ /\ b # SIZE_MAX
              /\ Store(bitmap_set(Map, mem, b))
              /\ res' = Result("allocate", TRUE, {b})
           \/ /\ b = SIZE_MAX
              /\ res' = Result("allocate", FALSE, {})
              /\ UNCHANGED file
    /\ UNCHANGED <<up, pc, import, export>>

\* Whether the map is looked at, and is there.
Mapped(b) == Accepted(b) => ~import.on

block_store_request(b) ==
    /\ Ready /\ Mapped(b)
    /\ \/ /\ Accepted(b) /\ ~bitmap_test(fbm, mem, b)
          /\ Store(bitmap_set(fbm, mem, b))
          /\ res' = Result("request", TRUE, {})
       \/ /\ Accepted(b) => bitmap_test(fbm, mem, b)
          /\ res' = Result("request", FALSE, {})
          /\ UNCHANGED file
    /\ UNCHANGED <<up, pc, import, export>>

block_store_release(b) ==
    /\ Ready /\ Mapped(b)
    /\ Store(IF Accepted(b) THEN bitmap_reset(fbm, mem, b) ELSE mem)
    /\ res' = Result("release", TRUE, {})
    /\ UNCHANGED <<up, pc, import, export>>

\* request or release looks up a bit of the map that is NULL.
NullDereferenced(b) ==
    /\ Ready /\ ~Mapped(b)
    /\ up' = FALSE
    /\ import' = NoImport
    /\ UNCHANGED <<file, pc, export, res>>

block_store_write(b, buffer) ==
    /\ Ready
    /\ \/ /\ Accepted(b) /\ (import.on \/ bitmap_test(fbm, mem, b))
          /\ Store(WriteBlock(mem, b, buffer))
          /\ res' = Result("write", TRUE, buffer)
       \/ /\ ~Accepted(b)
          /\ res' = Result("write", FALSE, {})
          /\ UNCHANGED file
    /\ UNCHANGED <<up, pc, import, export>>

block_store_read(b) ==
    /\ Ready
    /\ res' = IF Accepted(b) THEN Result("read", TRUE, ReadBlock(mem, b))
              ELSE Result("read", FALSE, {})
    /\ UNCHANGED <<up, file, pc, import, export>>

block_store_get_used_blocks ==
    /\ Ready
    /\ res' = Result("used", TRUE, {bitmap_total_set(Map, mem)})
    /\ UNCHANGED <<up, file, pc, import, export>>

block_store_get_free_blocks ==
    /\ Ready
    /\ res' = Result("free", TRUE, {BitCount - bitmap_total_set(Map, mem)})
    /\ UNCHANGED <<up, file, pc, import, export>>

\* The blocks of data go to the file; what follows them is not the map but
\* the bytes of the struct bitmap and the heap beyond it, and left out here.
block_store_serialize ==
    /\ Ready
    /\ export' = ContentOf(mem)
    /\ res' = Result("export", TRUE, {bitmap_total_set(Map, mem)})
    /\ UNCHANGED <<up, file, pc, import>>

Next ==
    \/ CreateTruncates \/ CreateSizes \/ block_store_create
    \/ ImportTruncates \/ ImportRefused \/ block_store_deserialize
    \/ block_store_open \/ block_store_destroy \/ Crash
    \/ block_store_allocate
    \/ \E b \in Ids : \/ block_store_request(b) \/ block_store_release(b)
                      \/ block_store_read(b) \/ NullDereferenced(b)
                      \/ \E buffer \in Buffers : block_store_write(b, buffer)
    \/ block_store_get_used_blocks \/ block_store_get_free_blocks
    \/ block_store_serialize

Spec == Init /\ [][Next]_vars

-----------------------------------------------------------------------------
Pool == INSTANCE BlockPool WITH
    Zero <- {}, Mirror <- TRUE, Own <- 0,
    used <- IF up THEN UsedOf(mem) ELSE {},
    content <- ContentOf(IF up THEN mem ELSE Zeros),
    saved <- Seen(file)

\* Steps of block_store_deserialize, or with a store that came from it.
InImport == import.on \/ import'.on

\* Calls with the number of the first block of the map, which is accepted.
AtEdge == \/ block_store_request(BitCount) \/ block_store_release(BitCount)
          \/ block_store_read(BitCount)
          \/ \E buffer \in Buffers : block_store_write(BitCount, buffer)

(* The mapped file is a pool of blocks that keeps its state when the       *)
(* process ends or dies, and only block_store_create loses what is in it.  *)
(* Not meant are imports, which do not do what is promised of them (see    *)
(* ImportBringsBack), and calls with the number of the map's first block,  *)
(* which the comparisons with <= let through: every other step is one of   *)
(* the pool, whatever those have left in the file.                         *)
ImplementsBlockPool ==
    Pool!Init /\ [][InImport \/ AtEdge \/ Pool!Next]_Pool!pvars

(* block_store_deserialize "imports BS device from the given file" and     *)
(* returns a "pointer to new BS device" (block_store.h): when it has       *)
(* returned a store, that holds what the device in the file held.          *)
ImportBringsBack ==
    import.on /\ import.image.ok /\ up /\ res.op = "load" => Seen(file) = import.image
=============================================================================
