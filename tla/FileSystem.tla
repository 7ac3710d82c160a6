----------------------------- MODULE FileSystem -----------------------------
(***************************************************************************)
(* The whole library of a5_file_system_nwewnh/src/FS.c: the name space     *)
(* (FSNamespace) and the data path (FileData) on one device, with one      *)
(* free-block map and one inode table, in one process.                     *)
(*                                                                         *)
(* Each of the two modules has the other as an environment that only takes *)
(* and gives back blocks: NamespaceHolds and DataHolds show that this is   *)
(* all they see of each other.  What the two know of the device:           *)
(*   - an inode's bytes are the fields of a directory in inodes, and those *)
(*     of a regular file in file_inodes;                                   *)
(*   - a block's bytes are entries in dents, and cells in mem;             *)
(*   - data (FSNamespace) is what FileData does not count as taken.        *)
(* The library has no threads: while a call of one part runs, no other     *)
(* starts, and the process that dies in it forgets all that it had open.   *)
(***************************************************************************)
EXTENDS FSNamespace

CONSTANTS NumFds, BlockSize, NumDirect, Data, Buffers, ReadSizes, SeekOffsets,
          MaxWrites

VARIABLES
    mem,          \* the contents of the blocks, read as data or pointers
    file_inodes,  \* the inode table, read as regular files
    fd_used,      \* the bitmap of the descriptor table
    fd_tab,       \* the records of the descriptor table
    write,        \* the locals of the fs_write call that is running
    fd_res,       \* what the last call with a descriptor returned
    taken,        \* ghost: the blocks in use by other than regular files
    writes        \* ghost: how many fs_write calls there were, for MaxWrites

FileInums == Inums \ {Root}

FD == INSTANCE FileData WITH
    Inodes <- FileInums, TakenSizes <- {NumReserved}, MaxTaken <- NumBlocks,
    inodes <- file_inodes, call <- write, res <- fd_res

ASSUME DataAssumption ==
    /\ NumFds \in Nat \ {0} /\ BlockSize \in Nat \ {0} /\ NumDirect \in Nat \ {0}
    /\ NumBlocks - NumReserved < FD!MaxPtrs + 2 + BlockSize
    /\ Buffers \subseteq Seq(Data) /\ ReadSizes \subseteq Nat
    /\ SeekOffsets \subseteq Int /\ MaxWrites \in Nat

nameState == <<inode_map, inodes, dents, call, res>>
fsVars == <<vars, mem, file_inodes, fd_used, fd_tab, write, fd_res, taken, writes>>

FSInit == Init /\ FD!Init

-----------------------------------------------------------------------------
\* Mutant: the inode of a new file is stored one too early.
StoreNewInode_before ==
    file_inodes' = IF At("inode") /\ call.inum - 1 \in FileInums
                   THEN [file_inodes EXCEPT ![call.inum - 1] = FD!NewInode]
                   ELSE file_inodes

\* fs_create stores the whole inode of the new file.
StoreNewInode ==
    file_inodes' = IF At("inode")
                   THEN [file_inodes EXCEPT ![call.inum] = FD!NewInode]
                   ELSE file_inodes

NamespaceStep ==
    /\ write.pc = "idle"
    /\ \/ \E path \in Paths, type \in Types : fs_create(path, type)
       \/ \E path \in Paths : CreateRefused(path) \/ fs_get_dir(path)
       \/ CreateStep
    /\ StoreNewInode
    /\ taken' = fbm' \ data'
    /\ UNCHANGED <<mem, fd_used, fd_tab, write, fd_res, writes>>

\* Mutant: a directory can be opened.
Opens_directory(path) == block_store_sub_test(_get_inum(path))

Opens(path) ==
    /\ block_store_sub_test(_get_inum(path))
    /\ inodes[_get_inum(path)].file_type # "d"

fs_open(path) ==
    /\ Quiet
    /\ IF Opens(path) THEN FD!fs_open(_get_inum(path))
       ELSE write.pc = "idle" /\ fd_res' = FD!Error
            /\ UNCHANGED <<fbm, mem, file_inodes, fd_used, fd_tab, mounted, write,
                           taken, writes>>
    /\ UNCHANGED <<nameState, data>>

DataStep ==
    /\ Quiet
    /\ FD!DescriptorCall \/ FD!WriteStep
    /\ data' = fbm' \ taken'
    /\ UNCHANGED nameState

\* The process ends, between two calls or in one, and the next one mounts.
ProcessEnds ==
    /\ \/ fs_unmount /\ FD!fs_unmount
       \/ Crash /\ FD!fs_unmount
       \/ fs_unmount /\ FD!Crash

Mounts == fs_mount /\ FD!fs_mount

FSNext ==
    \/ NamespaceStep
    \/ \E path \in Paths : fs_open(path)
    \/ DataStep \/ ProcessEnds \/ Mounts

FSSpec == FSInit /\ [][FSNext]_fsVars

-----------------------------------------------------------------------------
(* Properties.                                                             *)

(* Whatever the calls with descriptors do is, to the directories, a file   *)
(* that takes a block or gives one back, and nothing of a directory is     *)
(* touched; so everything FSNamespace shows holds of the whole library.    *)
NamespaceHolds == [][Next]_vars

(* Whatever the calls with paths do is, to the files, a directory that     *)
(* takes a block or gives one back; no file or descriptor is touched, not  *)
(* even by the creation of a file after a death.  So everything FileData   *)
(* shows of steps holds of the whole library.                              *)
DataHolds == [][FD!Next]_(FD!vars)

(* No block that a regular file is stored in, or that a write is adding to *)
(* one, is a reserved block or holds the entries of a directory or of one  *)
(* being created, and each is marked in use; what is open is an allocated  *)
(* regular file.  It takes both parts, and deaths in both, to break this.  *)
OpenInums == {fd_tab[d].inum : d \in fd_used}
FileBlocks ==
    FD!Fresh \cup
    UNION {FD!Owned(FD!LiveInode(i), FD!LiveBlocks(i)) : i \in FileInums}
EntryBlocks == {inodes[i].data_direct : i \in Filled} \cup NewBlocks

FilesApart ==
    /\ FileBlocks \subseteq fbm \ (Reserved \cup EntryBlocks)
    /\ \A i \in OpenInums : i \in inode_map /\ inodes[i].file_type = "r"
=============================================================================
