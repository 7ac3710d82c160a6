---------------------------- MODULE FSNamespace ----------------------------
(***************************************************************************)
(* The name space of the file system in a5_file_system_nwewnh/src/FS.c:    *)
(* fs_create, the path lookup that every call with a path starts with, and *)
(* fs_get_dir, with fs_unmount, fs_mount and the death of the process at   *)
(* any step of fs_create.                                                  *)
(*                                                                         *)
(* A path is a sequence of slashes and names, in which a slash follows     *)
(* every name that is not the last.                                        *)
(*                                                                         *)
(* fs_create updates two allocation maps, a new inode, a block of entries  *)
(* and the inode of the parent, one after the other, on a device that is a *)
(* shared mapping (block_store.c:58): each update is a step, and what is   *)
(* stored when the process dies stays.                                     *)
(*                                                                         *)
(* A directory's block of entries has the slots Slots (31 in the code),    *)
(* and the inode's dir_entry_map is read as a bitmap of MapBits bits (16). *)
(* A directory without a block has data_direct[0] = 0, and block 0 is the  *)
(* bitmap of the inodes: _inode_dir_load then reads that as entries.       *)
(***************************************************************************)
EXTENDS Integers, FiniteSets, Sequences, SequencesExt

CONSTANTS
    NumInodes,     \* NUM_INODES
    NumBlocks,     \* BLOCK_STORE_AVAIL_BLOCKS
    NumReserved,   \* the blocks fs_format takes: the inodes and their bitmap
    MapBits,       \* how many bits of dir_entry_map are used
    DirEntries,    \* DIR_ENTRIES_PER_BLOCK
    Names,         \* what a component of a path can be
    Dots,          \* those names that are "." and ".."
    Slash,         \* the separator of names in a path
    NoName,        \* a slot of zero bytes has no name
    MapName,       \* the inode bitmap's bytes as a name, by how many are set
    NameBytes,     \* the length of a name
    FNameMax,      \* FS_FNAME_MAX
    Paths,         \* the paths callers pass; <<>> is also the null pointer
    Torn           \* whether a process may die while the entries of a
                   \* directory that had some are ahead of its inode

NONE == -1
NULL == <<>>
Root == 0

ASSUME ShapeAssumption ==
    /\ NumInodes \in Nat \ {0}
    /\ NumReserved \in Nat \ {0}
    /\ NumBlocks \in Nat
    /\ NumReserved <= NumBlocks
    /\ MapBits \in Nat \ {0}
    /\ DirEntries \in Nat
    /\ MapBits <= DirEntries
    /\ Torn \in BOOLEAN

ASSUME NameAssumption ==
    /\ NoName \notin Names /\ Slash \notin Names /\ Dots \subseteq Names
    /\ MapName \in [1 .. NumInodes -> Names \cup {NoName}]
    /\ NameBytes \in [Names -> Nat]
    /\ FNameMax \in Nat
    /\ Paths \subseteq Seq(Names \cup {Slash})
    /\ \A path \in Paths : \A n \in 1 .. Len(path) - 1 :
         path[n] = Slash \/ path[n + 1] = Slash

Blocks   == 0 .. NumBlocks - 1
Reserved == 0 .. NumReserved - 1
Inums    == 0 .. NumInodes - 1
MapSlots == 0 .. MapBits - 1
Slots    == 0 .. DirEntries - 1
Types    == {"r", "d"}

directoryFile == [filename : Names \cup {NoName}, inum : Inums]
Inode == [dir_entry_map : SUBSET MapSlots, file_type : Types,
          file_size : Nat, data_direct : Blocks]

VARIABLES
    fbm,        \* the free-block map: the set of blocks in use
    inode_map,  \* the bitmap of the inodes in use, which block 0 holds
    inodes,     \* the inode table
    dents,      \* the contents of the other blocks, read as entries
    mounted,    \* whether a process has the device mounted
    call,       \* the locals of the fs_create call that is running
    res,        \* what the last call returned
    data        \* ghost: the blocks that hold the data of regular files

device == <<fbm, inode_map, inodes, dents>>
vars == <<fbm, inode_map, inodes, dents, mounted, call, res, data>>

-----------------------------------------------------------------------------
(* Taking paths apart.                                                     *)

PATH_OK(path) == path # NULL /\ path[1] = Slash

\* strtok_r: how many slashes separate two names, or end the path, is lost.
_split_path(path) ==
    LET names[n \in 0 .. Len(path)] ==
          IF n = 0 THEN <<>>
          ELSE IF path[n] = Slash THEN names[n - 1] ELSE Append(names[n - 1], path[n])
    IN  names[Len(path)]

WithoutSlashes(path) ==
    SubSeq(path, 1, Max({0} \cup {n \in 1 .. Len(path) : path[n] # Slash}))

\* dirname never gives "." for a path that starts with a slash.
_dirname(path) ==
    IF ~PATH_OK(path) \/ path = <<Slash>> THEN NULL
    ELSE LET name == WithoutSlashes(path)
             dir  == IF name = <<>> THEN <<>> ELSE WithoutSlashes(Front(name))
         IN  IF dir = <<>> THEN <<Slash>> ELSE dir

\* A path of slashes only has the basename "/".
_basename(path) ==
    LET name == WithoutSlashes(path)
        base == IF name = <<>> THEN Slash ELSE Last(name)
    IN  IF ~PATH_OK(path) \/ path = <<Slash>> \/ base \in Dots THEN NULL ELSE base

\* The length of a whole path, which is what fs_create limits.
strlen(path) ==
    FoldSeq(LAMBDA token, bytes : bytes + (IF token = Slash THEN 1 ELSE NameBytes[token]),
            0, path)

-----------------------------------------------------------------------------
(* The stores that fs_mount lays over the device: the inode table with its *)
(* bitmap, and all blocks with the free-block map.                         *)

block_store_sub_test(inum) == inum \in inode_map

IsFirstFree(b, used, all) ==
    /\ b \in all \ used
    /\ \A c \in all \ used : b <= c

\* Mutant: the inode that was found free is not marked.
block_store_sub_allocate_unmarked(inum) ==
    IsFirstFree(inum, inode_map, Inums) /\ UNCHANGED inode_map

\* The inode and the block that an allocation returns.
block_store_sub_allocate(inum) ==
    IsFirstFree(inum, inode_map, Inums) /\ inode_map' = inode_map \cup {inum}

block_store_allocate(b) == IsFirstFree(b, fbm, Blocks) /\ fbm' = fbm \cup {b}

\* A release does not care whether the bit was set.
block_store_sub_release(inum) == inode_map' = inode_map \ {inum}
block_store_release(b)        == fbm' = fbm \ {b}

block_store_inode_write(inum, inode) == inodes' = [inodes EXCEPT ![inum] = inode]

-----------------------------------------------------------------------------
(* Reading directories and resolving paths.                                *)

ZeroEntry == [filename |-> NoName, inum |-> Root]
NoEntries == [s \in Slots |-> ZeroEntry]
NewInode(type) == [dir_entry_map |-> {}, file_type |-> type,
                   file_size |-> 0, data_direct |-> 0]

\* Inodes are allocated in order and never given back once a create went
\* through, so the bitmap is a row of ones.  It is as long as a file name:
\* slot 0 of block 0 has it as its name, and 0 as its inode number.
BitmapAsEntries ==
    [NoEntries EXCEPT ![0].filename = MapName[Cardinality(inode_map)]]

_inode_dir_load(inode) ==
    IF inode.data_direct = 0 THEN BitmapAsEntries ELSE dents[inode.data_direct]

\* All slots are searched: the parameter map is not used.
_inode_find_child(entries, child) ==
    LET found == {s \in Slots : entries[s].filename = child}
    IN  IF found = {} THEN NONE
        ELSE entries[CHOOSE s \in found : \A t \in found : s <= t].inum

IsDir(inum) == block_store_sub_test(inum) /\ inodes[inum].file_type = "d"

_inum_find_child(inum, child) ==
    IF IsDir(inum)
    THEN _inode_find_child(_inode_dir_load(inodes[inum]), child)
    ELSE NONE

_get_inum(path) ==
    LET names == _split_path(path)
        inum[n \in 0 .. Len(names)] ==
          IF n = 0 THEN Root ELSE _inum_find_child(inum[n - 1], names[n])
    IN  IF PATH_OK(path) THEN inum[Len(names)] ELSE NONE

\* The entries fs_get_dir lists: those whose bit is set in the map.
Listed(inum) == {_inode_dir_load(inodes[inum])[s] :
                    s \in inodes[inum].dir_entry_map}

-----------------------------------------------------------------------------
Idle == [pc |-> "idle", path |-> <<>>, type |-> "r", parent |-> Root,
         node |-> NewInode("d"), entries |-> NoEntries, is_new |-> FALSE,
         inum |-> NONE, before |-> <<>>]

Result(op, val, names) == [op |-> op, val |-> val, names |-> names]

\* fs_format
Init ==
    /\ fbm = Reserved
    /\ inode_map = {Root}
    /\ inodes = [i \in Inums |-> NewInode("d")]
    /\ dents = [b \in Blocks |-> NoEntries]
    /\ mounted = TRUE
    /\ call = Idle
    /\ res = Result("none", 0, {})
    /\ data = {}

Quiet == mounted /\ call.pc = "idle"

\* The call returns val.
Return(val) == call' = Idle /\ res' = Result("create", val, {})

At(pc) == mounted /\ call.pc = pc

-----------------------------------------------------------------------------
(* fs_create, from the lookup of the parent to the update of its inode.    *)

\* The check of the path; a type that is neither is refused like a bad one.
MayLookUp(path) == PATH_OK(path) /\ Last(path) # Slash

\* The parent is looked up and its inode and entries are copied; for the
\* first file of a directory a block is allocated for the entries.
fs_create(path, type) ==
    LET parent == _get_inum(_dirname(path))
        copied == [Idle EXCEPT !.pc = "verify", !.path = path, !.type = type,
                        !.parent = parent, !.node = inodes[parent],
                        !.entries = _inode_dir_load(inodes[parent]),
                        !.before = <<fbm, inode_map>>]
    IN  /\ Quiet /\ MayLookUp(path) /\ IsDir(parent)
        /\ \/ /\ inodes[parent].file_size > 0
              /\ call' = copied
              /\ UNCHANGED fbm
           \/ /\ inodes[parent].file_size = 0
              /\ \E b \in Blocks :
                   /\ block_store_allocate(b)
                   /\ call' = [copied EXCEPT !.node.data_direct = b, !.is_new = TRUE]
        /\ UNCHANGED <<inode_map, inodes, dents, mounted, res, data>>

\* A bad path, no such parent, or no block for the entries.
CreateRefused(path) ==
    /\ Quiet
    /\ LET parent == _get_inum(_dirname(path))
       IN  MayLookUp(path) /\ IsDir(parent) =>
             inodes[parent].file_size = 0 /\ fbm = Blocks
    /\ Return(-1)
    /\ UNCHANGED <<device, mounted, data>>

\* Mutant: a name that exists is created again.
MayCreate_again ==
    /\ Cardinality(call.node.dir_entry_map) < DirEntries
    /\ _basename(call.path) # NULL
    /\ strlen(call.path) < FNameMax

\* The checks before an inode is allocated.
MayCreate ==
    /\ Cardinality(call.node.dir_entry_map) < DirEntries
    /\ _basename(call.path) # NULL
    /\ strlen(call.path) < FNameMax
    /\ _inode_find_child(call.entries, _basename(call.path)) = NONE

AllocInode ==
    /\ At("verify") /\ MayCreate
    /\ \E i \in Inums :
         /\ block_store_sub_allocate(i)
         /\ call' = [call EXCEPT !.pc = "inode", !.inum = i]
    /\ UNCHANGED <<fbm, inodes, dents, mounted, res, data>>

\* Mutant: err3 gives back the block of entries, newly allocated or not.
Verified_fails_frees ==
    /\ At("verify")
    /\ ~MayCreate \/ inode_map = Inums
    /\ call' = [call EXCEPT !.pc = "free block"]
    /\ UNCHANGED <<device, mounted, res, data>>

\* err4, err3: on to give back the block, if one was allocated.
Verified_fails ==
    /\ At("verify")
    /\ ~MayCreate \/ inode_map = Inums
    /\ IF call.is_new
       THEN call' = [call EXCEPT !.pc = "free block"] /\ UNCHANGED res
       ELSE Return(-1)
    /\ UNCHANGED <<device, mounted, data>>

\* bitmap_ffz: the first slot whose bit is clear; a 17th entry finds none.
FreeSlots == MapSlots \ call.node.dir_entry_map

\* Mutant: the slot is the last one in use.
EntrySlot_before(s) ==
    s = Max({0} \cup {t \in MapSlots : 0 .. t \subseteq call.node.dir_entry_map})

EntrySlot(s) == IsFirstFree(s, call.node.dir_entry_map, MapSlots)

\* Mutant: the bit of the slot is not set.
WriteInode_unset ==
    /\ At("inode")
    /\ block_store_inode_write(call.inum, NewInode(call.type))
    /\ \E s \in MapSlots :
         /\ EntrySlot(s)
         /\ call' = [call EXCEPT !.pc = "entries",
                !.node.file_size = @ + 1,
                !.entries[s] = [filename |-> _basename(call.path), inum |-> call.inum]]
    /\ UNCHANGED <<fbm, inode_map, dents, mounted, res, data>>

\* The new inode is stored; then the entry is put in the local copies.
WriteInode ==
    /\ At("inode")
    /\ block_store_inode_write(call.inum, NewInode(call.type))
    /\ \/ \E s \in MapSlots :
            /\ EntrySlot(s)
            /\ call' = [call EXCEPT !.pc = "entries",
                   !.node.dir_entry_map = @ \cup {s},
                   !.node.file_size = @ + 1,
                   !.entries[s] = [filename |-> _basename(call.path), inum |-> call.inum]]
       \/ /\ FreeSlots = {}
          /\ call' = [call EXCEPT !.pc = "free inode"]
    /\ UNCHANGED <<fbm, inode_map, dents, mounted, res, data>>

WriteEntries ==
    /\ At("entries")
    /\ dents' = [dents EXCEPT ![call.node.data_direct] = call.entries]
    /\ call' = [call EXCEPT !.pc = "parent"]
    /\ UNCHANGED <<fbm, inode_map, inodes, mounted, res, data>>

WriteParent ==
    /\ At("parent")
    /\ block_store_inode_write(call.parent, call.node)
    /\ Return(0)
    /\ UNCHANGED <<fbm, inode_map, dents, mounted, data>>

\* Mutant: the parent's inode is released in place of the new one.
FreeInode_parent ==
    /\ At("free inode")
    /\ block_store_sub_release(call.parent)
    /\ Return(-1)
    /\ UNCHANGED <<fbm, inodes, dents, mounted, data>>

\* Mutant: after the release the call tries once more.
FreeInode_retries ==
    /\ At("free inode")
    /\ block_store_sub_release(call.inum)
    /\ call' = [call EXCEPT !.pc = "verify"]
    /\ UNCHANGED <<fbm, inodes, dents, mounted, res, data>>

\* err5
FreeInode ==
    /\ At("free inode")
    /\ block_store_sub_release(call.inum)
    /\ IF call.is_new
       THEN call' = [call EXCEPT !.pc = "free block"] /\ UNCHANGED res
       ELSE Return(-1)
    /\ UNCHANGED <<fbm, inodes, dents, mounted, data>>

\* Mutant: the block stays allocated.
FreeBlock_keeps ==
    /\ At("free block")
    /\ Return(-1)
    /\ UNCHANGED <<device, mounted, data>>

\* err3
FreeBlock ==
    /\ At("free block")
    /\ block_store_release(call.node.data_direct)
    /\ Return(-1)
    /\ UNCHANGED <<inode_map, inodes, dents, mounted, data>>

CreateStep ==
    \/ AllocInode \/ Verified_fails \/ WriteInode \/ WriteEntries \/ WriteParent
    \/ FreeInode \/ FreeBlock

-----------------------------------------------------------------------------
(* The other calls.                                                        *)

fs_get_dir(path) ==
    LET inum == _get_inum(path)
    IN  /\ Quiet
        /\ res' = IF IsDir(inum)
                  THEN Result("get_dir", 0, {entry.filename : entry \in Listed(inum)})
                  ELSE Result("get_dir", -1, {})
        /\ UNCHANGED <<device, mounted, call, data>>

\* fs_write, seen from here, takes blocks for the data of a regular file.
file_takes_block ==
    /\ Quiet
    /\ \E b \in Blocks, i \in inode_map :
         /\ inodes[i].file_type = "r"
         /\ block_store_allocate(b)
         /\ data' = data \cup {b}
    /\ UNCHANGED <<inode_map, inodes, dents, mounted, call, res>>

\* fs_write, short of a block, gives back what it took.
file_gives_block ==
    /\ Quiet
    /\ \E b \in data : block_store_release(b) /\ data' = data \ {b}
    /\ UNCHANGED <<inode_map, inodes, dents, mounted, call, res>>

fs_unmount ==
    /\ Quiet
    /\ mounted' = FALSE
    /\ UNCHANGED <<device, call, res, data>>

InWindow == call.pc = "parent" /\ ~call.is_new

\* The process dies inside fs_create.
Crash ==
    /\ mounted /\ call.pc # "idle"
    /\ InWindow => Torn
    /\ mounted' = FALSE
    /\ call' = Idle
    /\ UNCHANGED <<device, res, data>>

fs_mount ==
    /\ ~mounted
    /\ mounted' = TRUE
    /\ UNCHANGED <<device, call, res, data>>

Next ==
    \/ CreateStep
    \/ file_takes_block \/ file_gives_block \/ fs_unmount \/ Crash \/ fs_mount
    \/ \E path \in Paths :
         \/ \E type \in Types : fs_create(path, type)
         \/ CreateRefused(path) \/ fs_get_dir(path)

Spec == Init /\ [][Next]_vars /\ WF_vars(CreateStep)

-----------------------------------------------------------------------------
(* Properties.                                                             *)

(* Every variable keeps to what the code's types and loops allow, and the  *)
(* inode bitmap is always a row of ones, as BitmapAsEntries relies on.     *)
TypeOK ==
    /\ Reserved \subseteq fbm /\ fbm \subseteq Blocks
    /\ \E n \in 1 .. NumInodes : inode_map = 0 .. n - 1
    /\ inodes \in [Inums -> Inode]
    /\ dents \in [Blocks -> [Slots -> directoryFile]]
    /\ mounted \in BOOLEAN
    /\ call.pc \in {"idle", "verify", "inode", "entries", "parent",
                    "free inode", "free block"}
    /\ call.node \in Inode
    /\ call.entries \in [Slots -> directoryFile]
    /\ call.parent \in Inums
    /\ call.inum \in Inums \cup {NONE}
    /\ ~mounted => call = Idle

Dirs == {i \in inode_map : inodes[i].file_type = "d"} \
            (IF call.pc = "inode" THEN {call.inum} ELSE {})
Filled == {i \in Dirs : inodes[i].file_size > 0}
NewBlocks == IF call.is_new THEN {call.node.data_direct} ELSE {}

(* No two directories share a block of entries, none has one that is free, *)
(* that fs_format reserved or that holds a file's data, and neither does   *)
(* the directory whose first file is being created.                        *)
EntryBlocksApart ==
    /\ \A i \in Filled : inodes[i].data_direct \in fbm \ (Reserved \cup data)
    /\ \A i, j \in Filled : inodes[i].data_direct = inodes[j].data_direct => i = j
    /\ NewBlocks \subseteq fbm \ (Reserved \cup data
                                   \cup {inodes[i].data_direct : i \in Filled})

(* Over all slots of all directories, in use or not: a name stands for an  *)
(* allocated inode, no two names stand for the same one, and no directory  *)
(* has a name twice.  A create that died left nothing that breaks this.    *)
EntryAt(at) == dents[inodes[at[1]].data_direct][at[2]]
Named == {at \in Filled \X Slots : EntryAt(at).filename # NoName}

NamesAreLinks ==
    /\ \A at \in Named : EntryAt(at).inum \in inode_map \ {Root}
    /\ \A at, to \in Named : EntryAt(at).inum = EntryAt(to).inum => at = to
    /\ \A at, to \in Named :
         at[1] = to[1] /\ EntryAt(at).filename = EntryAt(to).filename => at = to

(* A file that fs_get_dir lists is listed under the same name with the     *)
(* same inode forever, whatever creates follow or die.                     *)
Links == UNION {{<<i, entry>> : entry \in Listed(i)} : i \in Filled}

ListedForever == [][Links \subseteq Links']_vars

(* Inodes and blocks that are marked in use and that no listed entry and   *)
(* no directory accounts for come only from the death of the process.      *)
Lost == [inums  |-> inode_map \ ({Root, call.inum} \cup {link[2].inum : link \in Links}),
         blocks |-> fbm \ (Reserved \cup data \cup NewBlocks
                           \cup {inodes[i].data_direct : i \in Filled})]

OnlyDeathLoses ==
    [][ \/ Lost'.inums \subseteq Lost.inums /\ Lost'.blocks \subseteq Lost.blocks
        \/ ~mounted' ]_vars

(* A create that fails, at whatever step, leaves both allocation maps as   *)
(* it found them, also when the directory is full (FS.c:843-846).          *)
FailureLeavesNoTrace ==
    [][ call.pc # "idle" /\ res'.val = -1 /\ call'.pc = "idle" /\ mounted'
          => <<fbm', inode_map'>> = call.before ]_vars

(* fs_create returns, unless the process dies in it.                       *)
CreateReturns == call.pc # "idle" ~> call.pc = "idle"

(* Between calls, what lookup finds in a directory is in use according to  *)
(* its map; the comments at FS.c:17-18 and FS.c:277-280 say so.            *)
EntryOf(i, name) == [filename |-> name, inum |-> _inum_find_child(i, name)]

LookupFindsListed ==
    call.pc = "idle" =>
      \A i \in Filled : \A name \in Names :
        _inum_find_child(i, name) # NONE => EntryOf(i, name) \in Listed(i)

(* Between calls, a directory that has no files has no child of any name.  *)
EmptyHasNoChild ==
    call.pc = "idle" =>
      \A i \in Dirs \ Filled : \A name \in Names :
        _inum_find_child(i, name) = NONE

(* The inodes and entries implement a tree of named files, as long as no   *)
(* process dies in the window of Torn and no component of a path is what   *)
(* the inode bitmap spells.                                                *)
ListedChild(i, name) ==
    IF \E entry \in (IF i \in Dirs THEN Listed(i) ELSE {}) : entry.filename = name
    THEN (CHOOSE entry \in Listed(i) : entry.filename = name).inum
    ELSE NONE

ListedInum(names) ==
    LET inum[n \in 0 .. Len(names)] ==
          IF n = 0 THEN Root ELSE ListedChild(inum[n - 1], names[n])
    IN  inum[Len(names)]

\* The tree knows a file by the names on the way to it; a path that does
\* not start with a slash is none of a file.
TreePath(path) == IF PATH_OK(path) THEN _split_path(path) ELSE <<NoName>>
TreePaths == {TreePath(path) : path \in Paths}

ListedTree ==
    [p \in {q \in TreePaths : ListedInum(q) # NONE} |-> inodes[ListedInum(p)].file_type]

Tree == INSTANCE FileTree WITH Paths <- TreePaths, tree <- ListedTree

ImplementsFileTree == Tree!Spec
=============================================================================
